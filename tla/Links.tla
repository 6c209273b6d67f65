-------------------------------- MODULE Links --------------------------------
(***************************************************************************)
(* How clients get hold of the segments of a knowledge base: fsp_open_link *)
(* and fsp_add_backend of common/4s-client.c with the discovery of         *)
(* common/4s-mdns.c on one side, accept_fn of common/4s-server.c with      *)
(* handle_choose_segment, fs_backend_open_files and fs_bnode_alloc on the  *)
(* other.                                                                  *)
(*                                                                         *)
(* A client opens one connection per segment, and each is served by a      *)
(* child process of its own.  The child reads the metadata of its node     *)
(* when it is forked, and opens the files of the segment when the client   *)
(* asks for it.  The files are locked exclusively, so a second client      *)
(* waits there until the first one closes its link.                        *)
(***************************************************************************)
EXTENDS Integers, Sequences, FiniteSets

CONSTANTS
    Clients,
    NodeCount,          \* the number of nodes
    Mirrored,           \* whether 4s-backend-setup was given --mirror
    ClusterSize,        \* the number of segments, a power of two
    AdmindUsage,        \* the setting that says when 4s-boss is asked
    Faults,             \* the sets of <<node, segment>> that may not open
    MaxLinks, MaxRanges,\* bounds on links opened and on bnode ranges given
    OddLinks            \* see MayOrder and MayAlloc

ClusterNodes == 0 .. NodeCount - 1
LinkSegs == 0 .. ClusterSize - 1
NoConn == [node |-> -1, seg |-> -1, serial |-> 0]

ASSUME LK_Assumption ==
    /\ NodeCount \in Nat \ {0} /\ Mirrored \in BOOLEAN
    /\ ClusterSize \in Nat \ {0} /\ MaxLinks \in Nat /\ MaxRanges \in Nat
    /\ AdmindUsage \in {"sole", "default", "fallback", "none"}
    /\ OddLinks \subseteq {"orders", "stale"}

(* The segments that 4s-backend-setup puts on a node. *)
primary_segment(node, s) == s % NodeCount = node

mirror_segment(node, s) ==
    /\ NodeCount >= 2 /\ Mirrored
    /\ (s + ((s \div NodeCount) % (NodeCount - 1)) + 1) % NodeCount = node

(* handle_node_segments: what a node says of a segment. *)
Offered(n, s) == IF mirror_segment(n, s) THEN "m" ELSE IF primary_segment(n, s) THEN "p" ELSE "-"

VARIABLES
    lk_link,    \* lk_link[c]: the link of client c, see NewLink
    lk_lock,    \* lk_lock[n][s]: the client whose child has the files open
    lk_bad,     \* the <<node, segment>> whose files fail to open
    lk_serial,  \* lk_serial[n]: the next bnode in the metadata file of n
    lk_given,   \* the bnode ranges handed out, in order
    lk_opened   \* links opened so far

lk_vars == <<lk_link, lk_lock, lk_bad, lk_serial, lk_given, lk_opened>>

NewLink(nodes, ro) ==
    [phase |-> "discover", nodes |-> nodes, left |-> nodes, seg |-> 0, conn |-> NoConn, ro |-> ro,
     socks1 |-> [s \in LinkSegs |-> NoConn], socks2 |-> [s \in LinkSegs |-> NoConn]]
ClosedLink == [NewLink(<<>>, FALSE) EXCEPT !.phase = "closed"]

LK_Init ==
    /\ lk_link = [c \in Clients |-> ClosedLink]
    /\ lk_lock = [n \in ClusterNodes |-> [s \in LinkSegs |-> "nobody"]]
    /\ lk_bad \in Faults
    /\ lk_serial = [n \in ClusterNodes |-> 1]
    /\ lk_given = <<>>
    /\ lk_opened = 0

SetLink(c, link) == lk_link' = [lk_link EXCEPT ![c] = link]
-----------------------------------------------------------------------------
(* 4s-boss tells the nodes that run, in the order of its configuration. *)
setup_frontend_from_admind ==
    {SelectSeq([i \in 1 .. NodeCount |-> i - 1], LAMBDA n : n \in up) : up \in SUBSET ClusterNodes}

(* The announcements of mDNS come in any order. *)
resolve_callback ==
    UNION {{d \in [1 .. k -> ClusterNodes] : \A i, j \in 1 .. k : i # j => d[i] # d[j]}
              : k \in 0 .. NodeCount}

fsp_mdns_setup_frontend ==
    CASE AdmindUsage = "sole" -> setup_frontend_from_admind
      [] AdmindUsage = "default" -> (setup_frontend_from_admind \ {<<>>}) \cup resolve_callback
      [] AdmindUsage = "fallback" -> resolve_callback \cup setup_frontend_from_admind
      [] OTHER -> resolve_callback

(* Links that are open at the same time have found the nodes in the same   *)
(* order, unless "orders" is in OddLinks.                                  *)
MayOrder(c, nodes) ==
    "orders" \in OddLinks
    \/ \A d \in Clients \ {c} : \A i \in DOMAIN nodes \cap DOMAIN lk_link[d].nodes :
           lk_link[d].nodes[i] = nodes[i]

(* fsp_open_link: the nodes are found by 4s-boss or by mDNS. *)
OpenLink(c) ==
    /\ lk_link[c].phase = "closed" /\ lk_opened < MaxLinks
    /\ \E nodes \in fsp_mdns_setup_frontend, ro \in BOOLEAN :
           MayOrder(c, nodes) /\ SetLink(c, NewLink(nodes, ro))
    /\ lk_opened' = lk_opened + 1
    /\ UNCHANGED <<lk_lock, lk_bad, lk_serial, lk_given>>

(* accept_fn: a child is forked and reads the metadata of the node. *)
Accepted(n) == [node |-> n, seg |-> -1, serial |-> lk_serial[n]]

(* fsp_add_backend: a connection to the next node, and its segment list. *)
AddBackend(c) ==
    LET link == lk_link[c] IN
    /\ link.phase = "discover" /\ link.left # <<>>
    /\ SetLink(c, [link EXCEPT !.phase = "choose", !.seg = 0, !.conn = Accepted(Head(link.left))])
    /\ UNCHANGED <<lk_lock, lk_bad, lk_serial, lk_given, lk_opened>>

(* The segments of a node that the link still misses. *)
Wanted(link, s) ==
    CASE Offered(Head(link.left), s) = "p" -> link.socks1[s] = NoConn
      [] Offered(Head(link.left), s) = "m" -> link.socks2[s] = NoConn
      [] OTHER -> FALSE

(* choose_segment: the next segment wanted is asked for, on a connection   *)
(* of its own.                                                             *)
ChooseSegment(c) ==
    LET link == lk_link[c]
        more == {s \in LinkSegs : s >= link.seg /\ Wanted(link, s)}
    IN /\ link.phase = "choose" /\ more # {}
       /\ SetLink(c, [link EXCEPT !.phase = "wait",
              !.seg = CHOOSE s \in more : \A r \in more : s <= r,
              !.conn = IF @ = NoConn THEN Accepted(Head(link.left)) ELSE @])
       /\ UNCHANGED <<lk_lock, lk_bad, lk_serial, lk_given, lk_opened>>

NodeDone(c) ==
    LET link == lk_link[c] IN
    /\ link.phase = "choose"
    /\ \A s \in LinkSegs : s >= link.seg => ~Wanted(link, s)
    /\ SetLink(c, [link EXCEPT !.phase = "discover", !.left = Tail(@), !.conn = NoConn])
    /\ UNCHANGED <<lk_lock, lk_bad, lk_serial, lk_given, lk_opened>>

\* Mutant: the lock on the files is shared.
SharedLock(c, n, s) == TRUE

(* flock(LOCK_EX) on the files of a segment. *)
FileLock(c, n, s) == lk_lock[n][s] = "nobody"

(* The child takes one segment in its life: a connection whose first       *)
(* segment failed is of no use for another one.                            *)
FreshConn(conn, s) == conn.seg \in {-1, s}

KeepConn(link, s, conn) ==
    IF Offered(conn.node, s) = "p" THEN [link EXCEPT !.socks1[s] = conn]
    ELSE [link EXCEPT !.socks2[s] = conn]

SegmentOpened(c) ==
    LET link == lk_link[c]
        s == link.seg
        n == link.conn.node
    IN /\ link.phase = "wait"
       /\ FreshConn(link.conn, s) /\ <<n, s>> \notin lk_bad /\ FileLock(c, n, s)
       /\ lk_lock' = [lk_lock EXCEPT ![n][s] = c]
       /\ SetLink(c, [KeepConn(link, s, [link.conn EXCEPT !.seg = s])
                        EXCEPT !.phase = "choose", !.seg = s + 1, !.conn = NoConn])
       /\ UNCHANGED <<lk_bad, lk_serial, lk_given, lk_opened>>

(* The connection is kept for the next segment. *)
SegmentRefused(c) ==
    LET link == lk_link[c]
        s == link.seg
    IN /\ link.phase = "wait"
       /\ ~FreshConn(link.conn, s) \/ <<link.conn.node, s>> \in lk_bad
       /\ SetLink(c, [link EXCEPT !.phase = "choose", !.seg = s + 1,
                        !.conn.seg = IF @ = -1 THEN s ELSE @])
       /\ UNCHANGED <<lk_lock, lk_bad, lk_serial, lk_given, lk_opened>>

Reachable(link, s) == link.socks1[s] # NoConn \/ (link.ro /\ link.socks2[s] # NoConn)

Released(c) == [n \in ClusterNodes |-> [s \in LinkSegs |->
    IF lk_lock[n][s] = c THEN "nobody" ELSE lk_lock[n][s]]]

(* fsp_mdns_retry_frontend: a link that has some segments and not all      *)
(* waits for three minutes, in which another node may turn up.             *)
RetryFrontend(c) ==
    LET link == lk_link[c]
        held == {s \in LinkSegs : Reachable(link, s)}
    IN /\ link.phase = "discover" /\ link.left = <<>>
       /\ held # {} /\ held # LinkSegs /\ AdmindUsage # "sole"
       /\ \E n \in ClusterNodes :
              /\ \A i \in DOMAIN link.nodes : link.nodes[i] # n
              /\ MayOrder(c, Append(link.nodes, n))
              /\ SetLink(c, [link EXCEPT !.nodes = Append(@, n), !.left = <<n>>])
       /\ UNCHANGED <<lk_lock, lk_bad, lk_serial, lk_given, lk_opened>>

(* check_segments: without a connection for every segment there is no      *)
(* link.  The connections there are stay open until the client ends.       *)
CheckSegments(c) ==
    LET link == lk_link[c] IN
    /\ link.phase = "discover" /\ link.left = <<>>
    /\ SetLink(c, [link EXCEPT !.phase =
           IF \A s \in LinkSegs : Reachable(link, s) THEN "open" ELSE "failed"])
    /\ UNCHANGED <<lk_lock, lk_bad, lk_serial, lk_given, lk_opened>>

AllocCounted(conn) == IF conn = NoConn THEN conn ELSE [conn EXCEPT !.serial = @ + 1]

(* The metadata files of the nodes, after each child has written its copy. *)
Flushed(first, second) ==
    [n \in ClusterNodes |-> IF n = first.node THEN first.serial + 1
                            ELSE IF n = second.node THEN second.serial + 1 ELSE lk_serial[n]]

(* A child whose copy is behind gives out blank nodes only if "stale" is   *)
(* in OddLinks.                                                            *)
MayAlloc(conn) == "stale" \in OddLinks \/ \A n \in ClusterNodes : lk_serial[n] <= conn.serial

(* fsp_bnode_alloc, from segment 0 and its mirror: each child counts in    *)
(* its own copy of the metadata and writes the whole copy to the file.     *)
(* The client takes the range of the mirror if there is one.               *)
BnodeAlloc(c) ==
    LET first == lk_link[c].socks1[0]
        second == lk_link[c].socks2[0]
        answer == IF second = NoConn THEN first ELSE second
    IN /\ lk_link[c].phase = "open" /\ first # NoConn /\ Len(lk_given) < MaxRanges
       /\ MayAlloc(answer)
       /\ lk_given' = Append(lk_given, answer.serial)
       /\ lk_link' = [lk_link EXCEPT ![c].socks1[0] = AllocCounted(first),
                                     ![c].socks2[0] = AllocCounted(second)]
       /\ lk_serial' = Flushed(first, second)
       /\ UNCHANGED <<lk_lock, lk_bad, lk_opened>>

(* fsp_close_link, or the end of a client that found no link. *)
CloseLink(c) ==
    /\ lk_link[c].phase \in {"open", "failed"}
    /\ SetLink(c, ClosedLink)
    /\ lk_lock' = Released(c)
    /\ UNCHANGED <<lk_bad, lk_serial, lk_given, lk_opened>>

LK_Step(c) ==
    \/ AddBackend(c) \/ ChooseSegment(c) \/ NodeDone(c)
    \/ SegmentOpened(c) \/ SegmentRefused(c) \/ RetryFrontend(c)
    \/ CheckSegments(c)

LK_Next == \E c \in Clients : OpenLink(c) \/ LK_Step(c) \/ BnodeAlloc(c) \/ CloseLink(c)

LK_Spec == LK_Init /\ [][LK_Next]_lk_vars
-----------------------------------------------------------------------------
(* A link that opens has, for every segment, a child that has chosen that  *)
(* segment, and no other client has it: a bind or an import never goes to  *)
(* a child of another segment, and no two children change the files of one *)
(* segment.                                                                *)
LinkHoldsItsSegments ==
    \A c \in Clients : lk_link[c].phase = "open" => \A s \in LinkSegs :
        /\ Reachable(lk_link[c], s)
        /\ \A conn \in {lk_link[c].socks1[s], lk_link[c].socks2[s]} \ {NoConn} :
               /\ conn.seg = s /\ lk_lock[conn.node][s] = c

(* An attempt that fails misses a segment that no node found can serve: a  *)
(* segment whose files do not open costs the link that segment only, and   *)
(* every node serves the segments that the set-up placed on it.            *)
NoSegmentSpoilt ==
    \A c \in Clients : lk_link[c].phase = "failed" =>
        \E s \in LinkSegs : \A i \in DOMAIN lk_link[c].nodes :
            LET n == lk_link[c].nodes[i] IN
            primary_segment(n, s) \/ (mirror_segment(n, s) /\ lk_link[c].ro) => <<n, s>> \in lk_bad

(* No two ranges of blank nodes given out by BNODE ALLOC are the same,     *)
(* whichever links asked for them.                                         *)
BnodeRangesDisjoint ==
    \A i, j \in DOMAIN lk_given : i # j => lk_given[i] # lk_given[j]

(* A client that starts to open a link gets it or gives up, if clients     *)
(* close their links.                                                      *)
LinksDecide ==
    \A c \in Clients : lk_link[c].phase = "discover" ~> lk_link[c].phase \in {"open", "failed"}

-----------------------------------------------------------------------------
(***************************************************************************)
(* The calls of common/4s-client.c on an open link, as sequences of writes *)
(* and reads, and the handlers of backend/server.c that answer them.       *)
(*                                                                         *)
(* A message and its answer carry no number that ties them together: a     *)
(* call takes for its answer whatever comes next on the connection.  Each  *)
(* connection has a mutex, locked by the write and unlocked after the      *)
(* read, in some calls by the segment number found in the answer.          *)
(***************************************************************************)
CONSTANTS
    SegmentCount,   \* segments of the link
    HasMirror,      \* whether every segment has a mirror
    Group,          \* Group[s]: the server that has segment s
    MaxCalls,       \* bound on the calls made
    OddCalls        \* "object": quads are imported by object, as 4s-restore does;
                    \* "disk": an import may fail on the disk;
                    \* "unlock": fsp_unlock is called

LinkSegments == 0 .. SegmentCount - 1

ASSUME LC_Assumption ==
    /\ SegmentCount \in Nat \ {0} /\ HasMirror \in BOOLEAN /\ MaxCalls \in Nat
    /\ DOMAIN Group = LinkSegments /\ OddCalls \subseteq {"object", "disk", "unlock"}

VARIABLES
    lc_socks1, lc_socks2,   \* [s]: the answers not yet read, primary and mirror
    lc_mutex,               \* the segments whose mutex is locked
    lc_prog,                \* what the call in progress still has to do
    lc_id,                  \* the number of the call
    lc_read                 \* the answers the last step read

lc_vars == <<lc_socks1, lc_socks2, lc_mutex, lc_prog, lc_id, lc_read>>

LC_Init ==
    /\ lc_socks1 = [s \in LinkSegments |-> <<>>]
    /\ lc_socks2 = [s \in LinkSegments |-> <<>>]
    /\ lc_mutex = {} /\ lc_prog = <<>> /\ lc_id = 0 /\ lc_read = {}
-----------------------------------------------------------------------------
(* The handlers of a backend: the answers, none or one, to a message m     *)
(* that the client has built, if the work behind it goes well or not.      *)
Answer(m, type) == <<[of |-> m.id, type |-> type, seg |-> m.seg]>>
DoneOrError(m, good) == Answer(m, IF good THEN "DONE_OK" ELSE "ERROR")
Bindings(m, good) == Answer(m, IF good THEN "BIND_LIST" ELSE "NO_MATCH")

fsp_handle_no_op(m, good) == Answer(m, "DONE_OK")

handle_insert_resource(m, good) == <<>>

(* An error is answered, success is not. *)
handle_insert_quad(m, good) ==
    IF m.arg = "subject" /\ good THEN <<>> ELSE Answer(m, "ERROR")

handle_commit_resource(m, good) == Answer(m, "DONE_OK")
handle_commit_quad(m, good) == DoneOrError(m, good)
handle_price(m, good) == Answer(m, "ESTIMATED_ROWS")
handle_delete_models(m, good) == DoneOrError(m, m.arg # "none")
handle_new_models(m, good) == DoneOrError(m, m.arg # "none" /\ good)
handle_start_import(m, good) == DoneOrError(m, good)
handle_stop_import(m, good) == DoneOrError(m, good)
handle_delete_quads(m, good) == Answer([m EXCEPT !.seg = 0], "DONE_OK")
handle_get_uuid(m, good) == Answer(m, IF m.seg = 0 THEN "GET_UUID" ELSE "ERROR")
handle_get_size_reverse(m, good) == Answer(m, "SIZE_REVERSE")
handle_get_quad_freq(m, good) == Answer(m, "QUAD_FREQ")
handle_get_data_size(m, good) == Answer(m, "SIZE")
handle_get_import_times(m, good) == Answer(m, "IMPORT_TIMES")
handle_get_query_times(m, good) == Answer(m, "QUERY_TIMES")
handle_bind_limit(m, good) == Bindings(m, good)

\* Mutant: the answer has no segment number, like that of DELETE QUADS.
ReverseBindUnnumbered(m, good) == Bindings([m EXCEPT !.seg = 0], good)

handle_reverse_bind(m, good) == Bindings(m, good)
handle_bind_first(m, good) == Answer(m, "NO_MATCH")     \* fs_bind_first finds nothing
handle_bind_next(m, good) == Answer(m, "NO_MATCH")
handle_bind_done(m, good) == Answer(m, "DONE_OK")
handle_resolve_attr(m, good) == Answer(m, "RESOURCE_ATTR_LIST")
handle_bnode_alloc(m, good) == Answer(m, IF m.seg = 0 THEN "BNODE_RANGE" ELSE "ERROR")
handle_transaction(m, good) == Answer(m, "ERROR")       \* not supported any more
handle_lock(m, good) == Answer(m, "ERROR")              \* neither
handle_unlock(m, good) == Answer([m EXCEPT !.seg = 0], "DONE_OK")

(* The loop of a child process: one message, one handler. *)
Handled(m, good) ==
    CASE m.name = "NO_OP" -> fsp_handle_no_op(m, good)
      [] m.name = "INSERT_RESOURCE" -> handle_insert_resource(m, good)
      [] m.name = "COMMIT_RESOURCE" -> handle_commit_resource(m, good)
      [] m.name = "INSERT_QUAD" -> handle_insert_quad(m, good)
      [] m.name = "COMMIT_QUAD" -> handle_commit_quad(m, good)
      [] m.name = "PRICE_BIND" -> handle_price(m, good)
      [] m.name = "DELETE_MODELS" -> handle_delete_models(m, good)
      [] m.name = "NEW_MODELS" -> handle_new_models(m, good)
      [] m.name = "START_IMPORT" -> handle_start_import(m, good)
      [] m.name = "STOP_IMPORT" -> handle_stop_import(m, good)
      [] m.name = "DELETE_QUADS" -> handle_delete_quads(m, good)
      [] m.name = "GET_UUID" -> handle_get_uuid(m, good)
      [] m.name = "GET_SIZE" -> handle_get_data_size(m, good)
      [] m.name = "GET_SIZE_REVERSE" -> handle_get_size_reverse(m, good)
      [] m.name = "GET_QUAD_FREQ" -> handle_get_quad_freq(m, good)
      [] m.name = "GET_IMPORT_TIMES" -> handle_get_import_times(m, good)
      [] m.name = "GET_QUERY_TIMES" -> handle_get_query_times(m, good)
      [] m.name = "BIND_LIMIT" -> handle_bind_limit(m, good)
      [] m.name = "REVERSE_BIND" -> handle_reverse_bind(m, good)
      [] m.name = "BIND_FIRST" -> handle_bind_first(m, good)
      [] m.name = "BIND_NEXT" -> handle_bind_next(m, good)
      [] m.name = "BIND_DONE" -> handle_bind_done(m, good)
      [] m.name = "RESOLVE_ATTR" -> handle_resolve_attr(m, good)
      [] m.name = "BNODE_ALLOC" -> handle_bnode_alloc(m, good)
      [] m.name = "TRANSACTION" -> handle_transaction(m, good)
      [] m.name = "LOCK" -> handle_lock(m, good)
      [] m.name = "UNLOCK" -> handle_unlock(m, good)
      [] OTHER -> Answer(m, "ERROR")
-----------------------------------------------------------------------------
(* The steps that calls are made of. *)
Step(do, s, name, arg) == [do |-> do, seg |-> s, name |-> name, arg |-> arg]
Write(name, s) == Step("write", s, name, "some")                \* fsp_write
WriteBoth(name, s, arg) == Step("writeBoth", s, name, arg)      \* fsp_write_replica
Read(s) == Step("read", s, "", "")          \* then the mutex of the answer's segment
ReadOwn(s) == Step("readOwn", s, "", "")    \* then the mutex of s
ReadBoth(s) == Step("readBoth", s, "", "")  \* message_recv_replica
Loop(s) == Step("loop", s, "", "")          \* reads, with the answer's segment as counter
Unlock(s) == Step("unlock", s, "", "")
Window(sent, done) == Step("window", 0, "TRANSACTION", [sent |-> sent, done |-> done])

PerSegment(F(_)) == [i \in 1 .. SegmentCount |-> F(i - 1)]
One(name, s) == <<Write(name, s), Read(s)>>
OneBoth(name, s, arg) == <<WriteBoth(name, s, arg), ReadBoth(s)>>
AllLooped(name) == LET W(s) == Write(name, s) IN PerSegment(W) \o <<Loop(0)>>
AllRead(name) == LET W(s) == Write(name, s) IN PerSegment(W) \o PerSegment(Read)
AllOwn(name) == LET W(s) == Write(name, s) IN PerSegment(W) \o PerSegment(ReadOwn)
AllBoth(name, arg) == LET W(s) == WriteBoth(name, s, arg) IN PerSegment(W) \o PerSegment(ReadBoth)
EachRead(name) == [i \in 1 .. 2 * SegmentCount |->
    IF i % 2 = 1 THEN Write(name, (i - 1) \div 2) ELSE Read((i - 1) \div 2)]
Silent(name, s, arg) == <<WriteBoth(name, s, arg), Unlock(s)>>

(* The calls. *)
fsp_get_uuid == One("GET_UUID", 0)
fsp_no_op(s) == One("NO_OP", s)
fsp_bind_limit(s) == One("BIND_LIMIT", s)
fsp_reverse_bind_all == AllLooped("REVERSE_BIND")
fsp_bind_limit_all == AllLooped("BIND_LIMIT")
fsp_price_bind(s) == One("PRICE_BIND", s)
fsp_res_import(s) == Silent("INSERT_RESOURCE", s, "some")
fsp_quad_import(s, flag) == Silent("INSERT_QUAD", s, flag)
fsp_res_import_commit(s) == OneBoth("COMMIT_RESOURCE", s, "some")
fsp_quad_import_commit(s) == OneBoth("COMMIT_QUAD", s, "some")
fsp_start_import_all == AllBoth("START_IMPORT", "some")
fsp_stop_import_all == AllBoth("STOP_IMPORT", "some")
fsp_delete_model(s, models) == OneBoth("DELETE_MODELS", s, models)
fsp_delete_model_all(models) == AllBoth("DELETE_MODELS", models)
fsp_delete_quads_all == AllBoth("DELETE_QUADS", "some")
fsp_get_data_size(s) == One("GET_SIZE", s) \o One("GET_SIZE_REVERSE", s)
fsp_get_import_times(s) == One("GET_IMPORT_TIMES", s)
fsp_get_query_times(s) == One("GET_QUERY_TIMES", s)
fsp_bnode_alloc == OneBoth("BNODE_ALLOC", 0, "some")
fsp_resolve(s) == One("RESOLVE_ATTR", s)
fsp_resolve_all == AllOwn("RESOLVE_ATTR")
fsp_bind_first_all == AllLooped("BIND_FIRST")
fsp_bind_next_all == AllLooped("BIND_NEXT")
fsp_bind_done_all == AllRead("BIND_DONE")
fsp_do_trans_all == <<Window({}, {})>>
fsp_lock == EachRead("LOCK")
fsp_unlock == EachRead("UNLOCK")
fsp_new_model_all(models) == AllBoth("NEW_MODELS", models)
fsp_get_quad_freq_all == AllOwn("GET_QUAD_FREQ")

Calls ==
    {fsp_get_uuid, fsp_reverse_bind_all, fsp_bind_limit_all, fsp_start_import_all,
     fsp_stop_import_all, fsp_delete_quads_all, fsp_bnode_alloc, fsp_resolve_all,
     fsp_bind_first_all, fsp_bind_next_all, fsp_bind_done_all, fsp_do_trans_all, fsp_lock,
     fsp_get_quad_freq_all}
    \cup UNION {{fsp_no_op(s), fsp_bind_limit(s), fsp_price_bind(s), fsp_res_import(s),
                 fsp_quad_import(s, "subject"), fsp_res_import_commit(s),
                 fsp_quad_import_commit(s), fsp_get_data_size(s), fsp_get_import_times(s),
                 fsp_get_query_times(s), fsp_resolve(s)} : s \in LinkSegments}
    \cup UNION {{fsp_delete_model(s, models), fsp_delete_model_all(models),
                 fsp_new_model_all(models)} : s \in LinkSegments, models \in {"some", "none"}}
    \cup (IF "object" \in OddCalls THEN {fsp_quad_import(s, "object") : s \in LinkSegments} ELSE {})
    \cup (IF "unlock" \in OddCalls THEN {fsp_unlock} ELSE {})
-----------------------------------------------------------------------------
Call ==
    /\ lc_prog = <<>> /\ lc_id < MaxCalls
    /\ lc_prog' \in Calls
    /\ lc_id' = lc_id + 1
    /\ lc_read' = {}
    /\ UNCHANGED <<lc_socks1, lc_socks2, lc_mutex>>

Message(step) == [id |-> lc_id, name |-> step.name, seg |-> step.seg, arg |-> step.arg]
Outcomes(step) == IF step.name = "INSERT_QUAD" /\ "disk" \notin OddCalls THEN {TRUE} ELSE BOOLEAN
Mirrors(step) == HasMirror /\ step.do \in {"writeBoth", "window"}

(* The mutex is taken, the message sent and, in time, answered. *)
Send(step) ==
    /\ step.seg \notin lc_mutex
    /\ lc_mutex' = lc_mutex \cup {step.seg}
    /\ \E good \in Outcomes(step) :
           /\ lc_socks1' = [lc_socks1 EXCEPT ![step.seg] = @ \o Handled(Message(step), good)]
           /\ lc_socks2' = IF Mirrors(step)
                 THEN [lc_socks2 EXCEPT ![step.seg] = @ \o Handled(Message(step), good)]
                 ELSE lc_socks2
    /\ lc_read' = {}

WriteStep ==
    /\ lc_prog # <<>> /\ Head(lc_prog).do \in {"write", "writeBoth"}
    /\ Send(Head(lc_prog))
    /\ lc_prog' = Tail(lc_prog)
    /\ UNCHANGED lc_id

(* One answer from the primary; which mutex is unlocked, and what comes    *)
(* next, depends on the call.                                              *)
ReadStep ==
    LET step == Head(lc_prog)
        s == step.seg
        in == Head(lc_socks1[s])
    IN /\ lc_prog # <<>> /\ step.do \in {"read", "readOwn", "loop"} /\ lc_socks1[s] # <<>>
       /\ lc_socks1' = [lc_socks1 EXCEPT ![s] = Tail(@)]
       /\ lc_mutex' = lc_mutex \ {IF step.do = "readOwn" THEN s ELSE in.seg}
       /\ lc_read' = {in}
       /\ lc_prog' = (IF step.do = "loop" /\ in.seg + 1 < SegmentCount
                      THEN <<Loop(in.seg + 1)>> ELSE <<>>) \o Tail(lc_prog)
       /\ UNCHANGED <<lc_socks2, lc_id>>

(* message_recv_replica: one answer from each side. *)
ReadReplicas(s) ==
    /\ lc_socks1[s] # <<>> /\ (HasMirror => lc_socks2[s] # <<>>)
    /\ lc_socks1' = [lc_socks1 EXCEPT ![s] = Tail(@)]
    /\ lc_socks2' = IF HasMirror THEN [lc_socks2 EXCEPT ![s] = Tail(@)] ELSE lc_socks2
    /\ lc_mutex' = lc_mutex \ {s}
    /\ lc_read' = {Head(lc_socks1[s])} \cup (IF HasMirror THEN {Head(lc_socks2[s])} ELSE {})

ReadBothStep ==
    /\ lc_prog # <<>> /\ Head(lc_prog).do = "readBoth"
    /\ ReadReplicas(Head(lc_prog).seg)
    /\ lc_prog' = Tail(lc_prog)
    /\ UNCHANGED lc_id

UnlockStep ==
    /\ lc_prog # <<>> /\ Head(lc_prog).do = "unlock"
    /\ lc_mutex' = lc_mutex \ {Head(lc_prog).seg}
    /\ lc_prog' = Tail(lc_prog)
    /\ lc_read' = {}
    /\ UNCHANGED <<lc_socks1, lc_socks2, lc_id>>

(* fsp_do_trans_all: at most two messages at a time to one server; the     *)
(* answers are taken as they come.                                         *)
TransThreshold == 2

Sendable(sent, done) ==
    {s \in LinkSegments \ sent :
        Cardinality({r \in sent \ done : Group[r] = Group[s]}) < TransThreshold}

WindowStep ==
    LET step == Head(lc_prog)
        sent == step.arg.sent
        done == step.arg.done
        free == Sendable(sent, done)
    IN /\ lc_prog # <<>> /\ step.do = "window"
       /\ \/ /\ free # {}
             /\ LET s == CHOOSE s \in free : \A r \in free : s <= r IN
                /\ Send([step EXCEPT !.seg = s])
                /\ lc_prog' = <<Window(sent \cup {s}, done)>>
          \/ /\ free = {}
             /\ \E s \in sent \ done :
                /\ ReadReplicas(s)
                /\ lc_prog' = IF done \cup {s} = LinkSegments THEN <<>>
                              ELSE <<Window(sent, done \cup {s})>>
       /\ UNCHANGED lc_id

CallStep == WriteStep \/ ReadStep \/ ReadBothStep \/ UnlockStep \/ WindowStep

LC_Next == Call \/ CallStep

LC_Spec == LC_Init /\ [][LC_Next]_lc_vars
-----------------------------------------------------------------------------
(* Every answer that a call reads answers a message of that call: no       *)
(* result, and no error, is taken for that of another call.                *)
AnswersAreOwn == \A in \in lc_read : in.of = lc_id

(* When a call returns, no answer is left on a connection and no mutex is  *)
(* locked, whatever the backends answered: the next call on the link, from *)
(* whichever thread, starts clean.                                         *)
LinkIsIdle ==
    lc_prog = <<>> => /\ lc_mutex = {}
                      /\ \A s \in LinkSegments : lc_socks1[s] = <<>> /\ lc_socks2[s] = <<>>

(* Every call returns: no read waits for an answer that was taken already  *)
(* or never sent, and no write for a mutex that the call itself holds.     *)
CallsReturn == lc_prog # <<>> ~> lc_prog = <<>>
=============================================================================
