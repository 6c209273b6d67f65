----------------------------- MODULE ClusterAdmin -----------------------------
(***************************************************************************)
(* Stores on the nodes of a cluster and the commands that 4s-admin runs on *)
(* them: the commands of admin/admin.c, the exchange of                    *)
(* admin/admin_frontend.c, and on each node the daemon 4s-boss of          *)
(* admin/admind.c with the operations of admin/admin_backend.c.            *)
(*                                                                         *)
(* 4s-boss has one thread and finishes a request before it looks at the    *)
(* next, so what it does for a request is one step here; a request and its *)
(* answer are one exchange on a connection that ends with the daemon.      *)
(* 4s-backend leaves its caller with status 0 before it has locked         *)
(* runtime.info, and SIGTERM ends the process that listens but not the     *)
(* children that serve the connections there are.                          *)
(***************************************************************************)
EXTENDS Integers, Sequences, FiniteSets, SequencesExt

CONSTANTS
    AdminClients,       \* runs of 4s-admin there may be at a time
    NodeTotal,          \* nodes of the configuration
    Stores,             \* names of stores
    SegmentChoices,     \* values of --segments; 0 for none given
    MaxCommands,        \* bound on the commands ever run
    MaxDown,            \* bound on the daemons that are down at a time
    OddAdmin            \* what the tools do not survive, see README

ASSUME AdminAssumption ==
    /\ NodeTotal \in Nat \ {0} /\ MaxCommands \in Nat /\ MaxDown \in Nat
    /\ SegmentChoices \subseteq Nat /\ "none" \notin Stores
    /\ OddAdmin \subseteq {"slow start", "unkillable", "connected", "lost answer", "tool fails",
                           "lost undo", "overlap", "repeated node"}

VARIABLES
    ad_up,      \* ad_up[n]: 4s-boss of node n answers
    ad_kb,      \* ad_kb[n][k]: store k on node n, see NoStore
    ad_cmd,     \* ad_cmd[c]: the command that c runs, see Idle
    ad_said,    \* the answer that was given in the last step, see NoAnswer
    ad_count    \* commands so far

ad_vars == <<ad_up, ad_kb, ad_cmd, ad_said, ad_count>>

AdminNodes == 1..NodeTotal
FS_MAX_SEGMENTS == 32

(* made: the command that set the store up, 0 if there is no directory;    *)
(* node: the node number in its metadata, -1 if it has none; info: there   *)
(* is a runtime.info; server, of: the process that listens and the set-up  *)
(* that it serves; kids: the set-up that its children serve, 0 for none.   *)
NoStore == [made |-> 0, node |-> -1, info |-> FALSE, server |-> "off", of |-> 0, kids |-> 0]

RunningStore == [made |-> 1, node |-> 0, info |-> TRUE, server |-> "serving", of |-> 1, kids |-> 0]
StoppedStore == [RunningStore EXCEPT !.server = "off", !.of = 0]

Idle == [kind |-> "none", phase |-> "idle", id |-> 0, kb |-> "none", nodes |-> <<>>, force |-> FALSE,
         segs |-> 0, conn |-> {}, at |-> 1, done |-> 0, errors |-> 0]

NoAnswer == [node |-> 0, id |-> 0, says |-> [k \in Stores |-> "none"]]

AD_Init ==
    /\ ad_up = [n \in AdminNodes |-> TRUE]
    /\ ad_kb \in [AdminNodes -> [Stores -> {NoStore, RunningStore, StoppedStore}]]
    /\ ad_cmd = [c \in AdminClients |-> Idle]
    /\ ad_said = NoAnswer
    /\ ad_count = 1
-----------------------------------------------------------------------------

(* fsab_kb_info_init: a store is running when runtime.info is locked; a    *)
(* store that was never started has no such file.                          *)
Status(s) ==
    CASE s.made = 0 -> "absent"
      [] s.made # 0 /\ ~s.info -> "unknown"
      [] s.made # 0 /\ s.info /\ s.server = "serving" /\ s.of = s.made -> "running"
      [] OTHER -> "stopped"

(* The lock of metadata.nt is held by the server and by its children. *)
Held(s) == (s.server # "off" /\ s.of = s.made) \/ s.kids = s.made

Off(s) == [s EXCEPT !.server = "off", !.of = 0]

Outcome(s, err) == [kb |-> s, err |-> err]

(* fsab_stop_local_kb: SIGTERM, five seconds of polling, and with force a  *)
(* SIGKILL to the process group, whose outcome is not looked at.           *)
fsab_stop_local_kb(s, force) ==
    IF Status(s) # "running" THEN {Outcome(s, Status(s))}
    ELSE {Outcome(Off(s), "ok")}
         \cup IF ~force THEN {Outcome(s, "kill failed")}
              ELSE {Outcome([Off(s) EXCEPT !.kids = 0], "ok")}
                   \cup IF "unkillable" \in OddAdmin THEN {Outcome(s, "ok")} ELSE {}

(* exec_fs_cmd of 4s-backend: fails if the store is locked or unreadable. *)
StartTool(s) ==
    IF Held(s) \/ s.node = -1 THEN {Outcome(s, "popen")}
    ELSE {Outcome([s EXCEPT !.server = "starting", !.of = s.made], "ok")}

fsab_start_local_kb(s) ==
    IF Status(s) \in {"absent", "running"} THEN {Outcome(s, Status(s))} ELSE StartTool(s)

Failing(s) == IF "tool fails" \in OddAdmin THEN {Outcome(s, "popen")} ELSE {}

(* 4s-backend-destroy takes no lock. *)
DestroyTool(s) ==
    {Outcome([s EXCEPT !.made = 0, !.node = -1, !.info = FALSE], "ok")} \cup Failing(s)

(* fsab_delete_local_kb: what stopping it says is ignored. *)
fsab_delete_local_kb(s) ==
    IF Status(s) = "absent" THEN {Outcome(s, "absent")}
    ELSE UNION {DestroyTool(o.kb) :
                  o \in IF Status(s) = "stopped" THEN {Outcome(s, "ok")} ELSE fsab_stop_local_kb(s, TRUE)}

IsPowerOfTwo(i) == \E e \in 0..10 : i = 2 ^ e

(* 4s-backend-setup makes the directory anew and writes the metadata last; *)
(* it refuses a number of segments that is not a power of two, and a node  *)
(* number that is not below the size of the cluster.                       *)
SetupTool(s, id, node, size, segs) ==
    IF ~IsPowerOfTwo(segs) \/ node >= size THEN {Outcome(s, "popen")}
    ELSE {Outcome([s EXCEPT !.made = id, !.node = node, !.info = FALSE], "ok")}
         \cup Failing([s EXCEPT !.made = id, !.node = -1, !.info = FALSE])

fsab_create_local_kb(s, id, force, node, size, segs) ==
    IF s.made # 0 /\ ~force THEN {Outcome(s, "exists")}
    ELSE UNION {SetupTool(o.kb, id, node, size, segs) :
                  o \in IF s.made # 0 THEN fsab_stop_local_kb(s, TRUE) ELSE {Outcome(s, "ok")}}
-----------------------------------------------------------------------------
(* handle_create_store_opts: twice the number of nodes, rounded up. *)
DefaultSegments(size) == CHOOSE p \in {2 ^ e : e \in 1..9} : p >= 2 * size /\ p < 4 * size

Segments(choice, size) == IF choice = 0 THEN DefaultSegments(size) ELSE choice

ValidSegments(segs) == segs % 2 = 0 /\ segs >= 2 /\ segs <= FS_MAX_SEGMENTS

(* get_storage_nodes, or the numbers of --nodes in the order given. *)
NodeLists ==
    {<<NodeTotal>>} \cup {[i \in AdminNodes |-> i]}
    \cup {<<n, m>> : n, m \in {i \in AdminNodes : "repeated node" \in OddAdmin}}

Changing == {"create", "delete"}

(* The exit status is that of the errors; only of the commands that make   *)
(* and remove stores is it kept.                                           *)
Ended(q, errors) ==
    IF q.kind \notin Changing THEN Idle
    ELSE [q EXCEPT !.phase = "ended", !.errors = errors, !.conn = {}, !.at = 1, !.done = 0, !.force = FALSE]

(* Two commands that make and remove stores are not run at the same time. *)
MayBegin(kind) ==
    \/ "overlap" \in OddAdmin
    \/ kind \notin Changing
    \/ \A c \in AdminClients : ad_cmd[c].phase \in {"asking", "undo"} => ad_cmd[c].kind \notin Changing

(* What a command reported is kept until the next one begins. *)
Began(c, q) ==
    /\ ad_cmd[c].phase \in {"idle", "ended"} /\ ad_count < MaxCommands
    /\ MayBegin(q.kind)
    /\ ad_count' = ad_count + 1
    /\ ad_cmd' = [x \in AdminClients |->
                    IF x = c THEN q ELSE IF ad_cmd[x].phase = "ended" THEN Idle ELSE ad_cmd[x]]
    /\ ad_said' = NoAnswer
    /\ UNCHANGED <<ad_up, ad_kb>>

NewCommand(kind, k, nodes, force) ==
    [Idle EXCEPT !.kind = kind, !.phase = "asking", !.id = ad_count + 1, !.kb = k, !.nodes = nodes,
                 !.force = force]

Reached(nodes) == {n \in Range(nodes) : ad_up[n]}

(* cmd_create_store: all nodes must be reached before anything is done. *)
CreateStore(c, k, nodes, choice, force) ==
    LET q == [NewCommand("create", k, nodes, force) EXCEPT
                 !.segs = Segments(choice, Len(nodes)), !.conn = Reached(nodes)]
    IN /\ ValidSegments(q.segs)
       /\ Began(c, IF q.conn = Range(nodes) THEN q ELSE Ended(q, 1))

(* cmd_delete_stores. *)
DeleteStores(c, k) ==
    LET all == [i \in AdminNodes |-> i]
        q == [NewCommand("delete", k, all, FALSE) EXCEPT !.conn = Reached(all)]
    IN Began(c, IF q.conn = AdminNodes THEN q ELSE Ended(q, 1))

(* These connect to one node at a time; a command for all stores names none. *)
StartOrStopStores(c, kind, k, force) ==
    Began(c, NewCommand(kind, k, [i \in AdminNodes |-> i], force))

ListStores(c) == Began(c, NewCommand("list", "none", [i \in AdminNodes |-> i], FALSE))
-----------------------------------------------------------------------------
Asked(q) == q.nodes[q.at]

Named(q) == IF q.kb = "none" THEN Stores ELSE {q.kb}

(* The handlers of admind.c, for one store. *)
handle_cmd_create_kb(q, s) ==
    fsab_create_local_kb(s, q.id, q.force, q.at - 1, Len(q.nodes), q.segs)

handle_cmd_delete_kb(s) == fsab_delete_local_kb(s)

start_or_stop_kb(q, s) ==
    IF q.kind = "start" THEN fsab_start_local_kb(s) ELSE fsab_stop_local_kb(s, q.force)

handle_cmd_get_kb_info_all(s) == {Outcome(s, Status(s))}

handle_client_data(q, s) ==
    CASE q.kind = "create" -> handle_cmd_create_kb(q, s)
      [] q.kind = "delete" -> handle_cmd_delete_kb(s)
      [] q.kind \in {"start", "stop"} -> start_or_stop_kb(q, s)
      [] q.kind = "list" -> handle_cmd_get_kb_info_all(s)

(* start_or_stop_kb_all goes through all the stores of the node before     *)
(* anything else is done: an outcome for each of the stores of a request.  *)
CommandOutcomes(q, n) ==
    {f \in [Named(q) -> UNION {handle_client_data(q, ad_kb[n][k]) : k \in Named(q)}] :
        \A k \in Named(q) : f[k] \in handle_client_data(q, ad_kb[n][k])}

(* What 4s-admin prints for an answer. *)
Printed(kind, err) ==
    CASE err = "absent" -> "not found"
      [] err = "ok" -> [create |-> "created", delete |-> "deleted",
                        start |-> "running", stop |-> "stopped", list |-> "none"][kind]
      [] err \in {"running", "stopped"} -> err
      [] OTHER -> "unknown"

(* A request is handled when the servers on the node have settled, and     *)
(* files that children still serve are not removed, but see OddAdmin.      *)
MayHandle(q, n) ==
    \A k \in Named(q) :
        /\ ad_kb[n][k].server = "starting" => "slow start" \in OddAdmin
        /\ q.kind \in Changing /\ ad_kb[n][k].kids # 0 => "connected" \in OddAdmin

Onward(q) == IF q.at = Len(q.nodes) THEN Ended(q, q.errors) ELSE [q EXCEPT !.at = q.at + 1]

\* Mutant: the stores made so far are left.
GiveUpAtOnce(q) == Ended(q, 1)

(* Creation failed: the stores made so far are deleted again. *)
GiveUp(q) == IF q.done = 0 THEN Ended(q, 1) ELSE [q EXCEPT !.phase = "undo", !.at = 1, !.errors = 1]

AfterDelete(q, err) == IF err \in {"ok", "absent"} THEN Onward(q) ELSE Ended(q, 1)

AfterCreate(q, err) == IF err = "ok" THEN Onward([q EXCEPT !.done = q.done + 1]) ELSE GiveUp(q)

(* start-stores and stop-stores of one store: only a store that is not     *)
(* found and a lost answer are errors.                                     *)
AfterNamed(q, err) == Onward(IF err \in {"absent", "lost"} THEN [q EXCEPT !.errors = 1] ELSE q)

(* With -a a lost answer ends the command. *)
AfterAll(q, err) == IF err = "lost" THEN Ended(q, 1) ELSE Onward(q)

(* How 4s-admin goes on after the answer of a node; "lost" if there was    *)
(* none.                                                                   *)
After(q, err) ==
    CASE q.kind = "create" -> AfterCreate(q, err)
      [] q.kind = "delete" -> AfterDelete(q, err)
      [] q.kind = "list" -> Onward(q)
      [] q.kind \in {"start", "stop"} -> IF q.kb = "none" THEN AfterAll(q, err) ELSE AfterNamed(q, err)

(* The daemon of the next node cannot be reached: skipped, or the          *)
(* connection made at the beginning is lost.                               *)
Unreached(c) ==
    LET q == ad_cmd[c] IN
    /\ q.phase = "asking"
    /\ IF q.kind \in Changing THEN Asked(q) \notin q.conn ELSE ~ad_up[Asked(q)]
    /\ ad_cmd' = [ad_cmd EXCEPT ![c] = IF q.kind \in Changing THEN After(q, "lost") ELSE Onward(q)]
    /\ ad_said' = NoAnswer
    /\ UNCHANGED <<ad_up, ad_kb, ad_count>>

(* fsaf_send_recv_cmd or fsaf_fetch_kb_info with the next node. *)
Exchange(c) ==
    LET q == ad_cmd[c]
        n == Asked(q)
        one == q.kb # "none"
    IN /\ q.phase = "asking"
       /\ IF q.kind \in Changing THEN n \in q.conn ELSE ad_up[n]
       /\ MayHandle(q, n)
       /\ \E f \in CommandOutcomes(q, n),
             lost \in {FALSE} \cup {x \in {TRUE} : q.kind = "create" => "lost answer" \in OddAdmin} :
            /\ ad_kb' = [ad_kb EXCEPT ![n] =
                            [k \in Stores |-> IF k \in Named(q) THEN f[k].kb ELSE ad_kb[n][k]]]
            /\ ad_cmd' = [ad_cmd EXCEPT ![c] =
                            After(q, IF lost THEN "lost" ELSE IF one THEN f[q.kb].err ELSE "ok")]
            /\ ad_said' = IF lost THEN NoAnswer
                          ELSE [node |-> n, id |-> q.id,
                                says |-> [k \in Stores |-> IF k \in Named(q)
                                                           THEN Printed(q.kind, f[k].err) ELSE "none"]]
       /\ UNCHANGED <<ad_up, ad_count>>

(* cmd_create_store after a failure, one of the first nodes: errors are    *)
(* ignored.                                                                *)
Undo(c) ==
    LET q == ad_cmd[c]
        n == Asked(q)
        next == IF q.at = q.done THEN Ended(q, 1) ELSE [q EXCEPT !.at = q.at + 1]
    IN /\ q.phase = "undo"
       /\ ad_cmd' = [ad_cmd EXCEPT ![c] = next]
       /\ ad_said' = NoAnswer
       /\ IF n \notin q.conn THEN UNCHANGED ad_kb
          ELSE /\ MayHandle(q, n)
               /\ \E o \in fsab_delete_local_kb(ad_kb[n][q.kb]) : ad_kb' = [ad_kb EXCEPT ![n][q.kb] = o.kb]
       /\ UNCHANGED <<ad_up, ad_count>>
-----------------------------------------------------------------------------
(* A backend locks runtime.info; the directory may be gone by then. *)
Serving(n, k) ==
    LET s == ad_kb[n][k] IN
    /\ s.server = "starting"
    /\ ad_kb' = [ad_kb EXCEPT ![n][k] =
                    IF s.of = s.made THEN [s EXCEPT !.server = "serving", !.info = TRUE] ELSE Off(s)]
    /\ ad_said' = NoAnswer /\ UNCHANGED <<ad_up, ad_cmd, ad_count>>

(* Clients connect, or the last of them goes. *)
Connections(n, k) ==
    LET s == ad_kb[n][k] IN
    /\ \/ s.server = "serving" /\ s.kids = 0 /\ ad_kb' = [ad_kb EXCEPT ![n][k].kids = s.of]
       \/ s.kids # 0 /\ ad_kb' = [ad_kb EXCEPT ![n][k].kids = 0]
    /\ ad_said' = NoAnswer /\ UNCHANGED <<ad_up, ad_cmd, ad_count>>

(* 4s-boss ends, and its connections with it, or is started. *)
BossDown(n) ==
    /\ ad_up[n] /\ Cardinality({m \in AdminNodes : ~ad_up[m]}) < MaxDown
    /\ \A c \in AdminClients :
          ad_cmd[c].kind = "create" /\ ad_cmd[c].phase \in {"asking", "undo"}
              /\ n \in {ad_cmd[c].nodes[i] : i \in 1..ad_cmd[c].done}
          => "lost undo" \in OddAdmin
    /\ ad_up' = [ad_up EXCEPT ![n] = FALSE]
    /\ ad_cmd' = [c \in AdminClients |-> [ad_cmd[c] EXCEPT !.conn = @ \ {n}]]
    /\ ad_said' = NoAnswer /\ UNCHANGED <<ad_kb, ad_count>>

BossUp(n) ==
    /\ ~ad_up[n]
    /\ ad_up' = [ad_up EXCEPT ![n] = TRUE]
    /\ ad_said' = NoAnswer /\ UNCHANGED <<ad_kb, ad_cmd, ad_count>>

AD_Next ==
    \/ \E c \in AdminClients :
          \/ \E k \in Stores, l \in NodeLists, s \in SegmentChoices, f \in BOOLEAN : CreateStore(c, k, l, s, f)
          \/ \E k \in Stores : DeleteStores(c, k)
          \/ \E k \in Stores \cup {"none"} : \/ StartOrStopStores(c, "start", k, FALSE)
                                             \/ \E f \in BOOLEAN : StartOrStopStores(c, "stop", k, f)
          \/ ListStores(c)
          \/ Unreached(c) \/ Exchange(c) \/ Undo(c)
    \/ \E n \in AdminNodes : \/ BossDown(n) \/ BossUp(n)
                             \/ \E k \in Stores : Serving(n, k) \/ Connections(n, k)
-----------------------------------------------------------------------------
IsTrue(says, s, id) ==
    CASE says \in {"deleted", "not found"} -> s.made = 0
      [] says = "created" -> s.made = id /\ ~Held(s)
      [] says = "running" -> s.server # "off" /\ s.of = s.made
      [] says = "stopped" -> s.server = "off"
      [] OTHER -> TRUE

(* What 4s-admin prints of a store on a node is so when the daemon has     *)
(* done the request: "stopped" that no server listens, "running" that one  *)
(* serves the files there are, "created" that the store is the new one and *)
(* nobody has it open, "deleted" that it is gone.                          *)
AnswersAreTrue ==
    ad_said.node # 0 =>
        \A k \in Stores : IsTrue(ad_said.says[k], ad_kb[ad_said.node][k], ad_said.id)

(* Every process serves the store that is there: neither the deletion of a *)
(* store, nor the creation over an existing one, nor the undoing of a      *)
(* creation, of a store that somebody else has started by then, leaves a   *)
(* process behind that serves removed files.                               *)
NoServerOfRemovedStore ==
    \A n \in AdminNodes, k \in Stores :
        LET s == ad_kb[n][k] IN
        /\ s.server # "off" => s.of = s.made /\ s.made # 0
        /\ s.kids # 0 => s.kids = s.made

(* create-store ends with a store on all the nodes or, if it reports an    *)
(* error, with none of its stores on any node, whichever node refused or   *)
(* could not be reached.                                                   *)
CreationIsAllOrNothing ==
    \A c \in AdminClients :
        LET q == ad_cmd[c]
            mine == {n \in AdminNodes : ad_kb[n][q.kb].made = q.id}
        IN q.kind = "create" /\ q.phase = "ended" =>
              mine = IF q.errors = 0 THEN Range(q.nodes) ELSE {}

(* The nodes on which create-store made a store share its segments: each   *)
(* segment is the primary segment of one node, and there is one for each   *)
(* node.                                                                   *)
EverySegmentHasItsNode ==
    \A c \in AdminClients :
        LET q == ad_cmd[c]
            size == Len(q.nodes)
        IN q.kind = "create" /\ q.phase = "ended" /\ q.errors = 0 =>
              /\ IsPowerOfTwo(q.segs)
              /\ \A g \in 0..(q.segs - 1) :
                    Cardinality({n \in AdminNodes : ad_kb[n][q.kb].made = q.id
                                                    /\ ad_kb[n][q.kb].node = g % size}) = 1

(* delete-stores ends well only if the store is on no node of the cluster, *)
(* however many daemons went away and came back meanwhile.                 *)
DeletionIsComplete ==
    \A c \in AdminClients :
        ad_cmd[c].kind = "delete" /\ ad_cmd[c].phase = "ended" /\ ad_cmd[c].errors = 0 =>
            \A n \in AdminNodes : ad_kb[n][ad_cmd[c].kb].made = 0
=============================================================================
