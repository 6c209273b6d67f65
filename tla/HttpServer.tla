----------------------------- MODULE HttpServer -----------------------------
(***************************************************************************)
(* The HTTP server: the requests of http/httpd.c, the import stream of     *)
(* frontend/import.c and the bind cache of frontend/query-cache.c.         *)
(*                                                                         *)
(* One thread runs the main loop.  It accepts requests, and PUT and update *)
(* requests wait in a queue whose head is the one being worked on; a PUT   *)
(* receives its body between other callbacks of the loop.  POST and DELETE *)
(* are done at once.  All imports share one parser state.  Queries run in  *)
(* threads of their own and keep answers in a cache that is flushed after  *)
(* every change.                                                           *)
(*                                                                         *)
(* The store is the set of items of each graph, an item being a part of    *)
(* what a client sends.  What a PUT sends becomes visible when its stream  *)
(* is finished, or before that when the parser has seen enough triples.    *)
(*                                                                         *)
(* Left out: the wording of requests and responses, access control, the    *)
(* size of the thread pool, and the time a form takes to arrive (the main  *)
(* thread waits for it).                                                   *)
(***************************************************************************)
EXTENDS Integers, Sequences

CONSTANTS
    Clients, Graphs, None,
    MaxLength,      \* bound on the length of a body, in parts
    Disturbances    \* see PostRequest and AfterFailure

ASSUME HttpServerAssumption ==
    /\ None \notin Clients \cup Graphs
    /\ MaxLength \in Nat \ {0}
    /\ Disturbances \subseteq {"post", "fail"}

VARIABLES
    req,        \* req[c]: the request of client c, see Requests
    queue,      \* import_queue
    main,       \* what the main thread is in the middle of
    stream,     \* parse_data: the graph and the items parsed
    db,         \* db[g]: the items the backends have for graph g
    cache       \* cache[g]: the bind cache, for the query of graph g

HS_vars == <<req, queue, main, stream, db, cache>>

Items == Clients \X (1 .. MaxLength)

(* The fields of a request (client_ctxt): content-length and bytes_left,   *)
(* in parts, the number of parts its client sends, and how many of those   *)
(* have not been read; of a query, what it has fetched and whether that    *)
(* was after the last flush; of a PUT, whether its graph was deleted while *)
(* it was importing, and whether it is answered with an error.             *)
Requests ==
    [state : {"new", "queued", "importing", "working", "replying",
              "lookup", "fetch", "store", "done"},
     kind : {"none", "put", "update", "post", "delete", "query"},
     graph : Graphs \cup {None},
     length : 0 .. MaxLength, left : 0 .. MaxLength,
     sends : 0 .. MaxLength, body : 0 .. MaxLength,
     answer : SUBSET Items, recent : BOOLEAN, cut : BOOLEAN, failed : BOOLEAN]

NoRequest ==
    [state |-> "new", kind |-> "none", graph |-> None,
     length |-> 0, left |-> 0, sends |-> 0, body |-> 0,
     answer |-> {}, recent |-> FALSE, cut |-> FALSE, failed |-> FALSE]

(* The response has been sent and the context freed. *)
Closed == [NoRequest EXCEPT !.state = "done"]

NoEntry == [filled |-> FALSE, value |-> {}, recent |-> FALSE]
NoStream == [graph |-> None, items |-> {}]
At(step, c) == [at |-> step, client |-> c]
Idle == At("loop", None)

HS_Init ==
    /\ req = [c \in Clients |-> NoRequest]
    /\ queue = <<>>
    /\ main = Idle
    /\ stream = NoStream
    /\ db = [g \in Graphs |-> {}]
    /\ cache = [g \in Graphs |-> NoEntry]

(* Part i of what client c sends, and the parts that belong to its request. *)
Part(c, i) == <<c, i>>
Sent(c) == {Part(c, i) : i \in 1 .. req[c].sends} \cap {Part(c, i) : i \in 1 .. req[c].length}
-----------------------------------------------------------------------------
(* process_quads: what stream s has parsed goes to the backends. *)
Stored(s) == [db EXCEPT ![s.graph] = @ \cup s.items]

(* The backends report that they failed to make or delete graph g.  Only   *)
(* if "fail" is in Disturbances has g been emptied nevertheless.           *)
AfterFailure(g) ==
    {db} \cup IF "fail" \in Disturbances THEN {[db EXCEPT ![g] = {}]} ELSE {}

(* A handler that starts no further import returns to the handlers it was  *)
(* called from, which send their responses.                                *)
Replied(r) == [c \in Clients |-> IF r[c].state = "replying" THEN Closed ELSE r[c]]

(* A request of kind k for graph g is complete but for its body. *)
Arrive(c, k, g, state) ==
    /\ main = Idle /\ req[c].state = "new"
    /\ req' = [req EXCEPT ![c].state = state, ![c].kind = k, ![c].graph = g]

(* The same with a body announced to have n parts, of which m will come. *)
ArriveWith(c, k, g, state, n, m) ==
    /\ main = Idle /\ req[c].state = "new"
    /\ req' = [req EXCEPT ![c].state = state, ![c].kind = k, ![c].graph = g,
                          ![c].length = n, ![c].sends = m, ![c].body = m]

\* Mutant: the queue is not looked at.
EnqueueAtOnce(c) ==
    /\ queue' = Append(queue, c)
    /\ main' = At("start", c)
    /\ UNCHANGED <<stream, db, cache>>

(* The request is started only if no other is in the queue. *)
Enqueue(c) ==
    /\ queue' = Append(queue, c)
    /\ main' = IF queue = <<>> THEN At("start", c) ELSE main
    /\ UNCHANGED <<stream, db, cache>>

(* http_put_request *)
PutRequest(c) ==
    /\ \E g \in Graphs, n, m \in 0 .. MaxLength : ArriveWith(c, "put", g, "queued", n, m)
    /\ Enqueue(c)

(* http_post_request for /update/ *)
UpdateRequest(c) ==
    /\ \E g \in Graphs : Arrive(c, "update", g, "queued")
    /\ Enqueue(c)

(* http_import_start for a PUT: the graph is emptied, the parser set up    *)
(* and the watchdog set.                                                   *)
StartPut(c) ==
    /\ main = At("start", c) /\ req[c].kind = "put"
    /\ db' = [db EXCEPT ![req[c].graph] = {}]
    /\ stream' = [graph |-> req[c].graph, items |-> {}]
    /\ IF req[c].length = 0
       THEN /\ main' = At("finish", c)
            /\ req' = [req EXCEPT ![c].state = "importing", ![c].left = 0]
       ELSE /\ main' = Idle
            /\ req' = [Replied(req) EXCEPT ![c].state = "importing", ![c].left = req[c].length]
    /\ UNCHANGED <<queue, cache>>

(* http_import_start when fsp_start_import_all, fsp_delete_model_all or    *)
(* fsp_new_model_all fails: the cache is not flushed.                      *)
StartFails(c) ==
    /\ main = At("start", c) /\ req[c].kind = "put"
    /\ db' \in AfterFailure(req[c].graph)
    /\ main' = At("remove", c)
    /\ UNCHANGED <<req, queue, stream, cache>>

(* http_import_start for an update: fs_update adds an item, or clears the  *)
(* graph, or fails.  The text of an update that had to wait was freed with *)
(* the form it came in, so it may also not be parsed as what it was.       *)
StartUpdate(c) ==
    /\ main = At("start", c) /\ req[c].kind = "update"
    /\ \/ db' = [db EXCEPT ![req[c].graph] = @ \cup {Part(c, 1)}]
       \/ db' = [db EXCEPT ![req[c].graph] = {}]
       \/ UNCHANGED db
    /\ main' = At("flush", c)
    /\ UNCHANGED <<req, queue, stream, cache>>

(* fs_import_stream_data: the triples parsed are kept in a file, which     *)
(* store_stmt passes to the backends when it has counted FS_CHUNK_SIZE.    *)
Parsed(new) ==
    LET all == [stream EXCEPT !.items = @ \cup new]
    IN  \/ stream' = all /\ UNCHANGED db
        \/ stream' = [stream EXCEPT !.items = {}] /\ db' = Stored(all)

(* recv_fn while importing: no more than bytes_left is read. *)
Receive(c) ==
    /\ main = Idle /\ req[c].state = "importing"
    /\ \E n \in 1 .. req[c].body :
        /\ n <= req[c].left
        /\ req' = [req EXCEPT ![c].left = @ - n, ![c].body = @ - n]
        /\ Parsed({Part(c, req[c].sends - req[c].body + i) : i \in 1 .. n})
        /\ main' = IF req[c].left = n THEN At("finish", c) ELSE Idle
    /\ UNCHANGED <<queue, cache>>

(* recv_fn at the end of the file, which counts as a success. *)
EndOfFile(c) ==
    /\ main = Idle /\ req[c].state = "importing" /\ req[c].body = 0
    /\ main' = At("finish", c)
    /\ UNCHANGED <<req, queue, stream, db, cache>>

(* import_watchdog, or recv_fn after an error of the connection. *)
Watchdog(c) ==
    /\ main = Idle /\ req[c].state = "importing"
    /\ main' = At("finish", c)
    /\ req' = [req EXCEPT ![c].failed = TRUE]
    /\ UNCHANGED <<queue, stream, db, cache>>

(* http_put_finished, until the cache is flushed. *)
PutFinished(c) ==
    /\ main = At("finish", c)
    /\ db' = Stored(stream)
    /\ stream' = NoStream
    /\ main' = At("flush", c)
    /\ UNCHANGED <<req, queue, cache>>

(* http_post_data, until the cache is flushed.  While another import is    *)
(* under way only if "post" is in Disturbances: it takes the parser away   *)
(* from that import, and QueueRemove starts that import again.             *)
PostRequest(c) ==
    /\ queue = <<>> \/ "post" \in Disturbances
    /\ \E g \in Graphs, n \in 1 .. MaxLength :
        /\ ArriveWith(c, "post", g, "working", n, 0)
        /\ db' = Stored([graph |-> g, items |-> {Part(c, i) : i \in 1 .. n}])
    /\ stream' = NoStream
    /\ main' = At("flush", c)
    /\ UNCHANGED <<queue, cache>>

(* http_post_data when fsp_start_import_all fails. *)
PostFails(c) ==
    /\ queue = <<>> \/ "post" \in Disturbances
    /\ \E g \in Graphs : Arrive(c, "post", g, "working")
    /\ main' = At("remove", c)
    /\ UNCHANGED <<queue, stream, db, cache>>

(* Requests r once graph g is deleted: an import into g is marked, which   *)
(* loses what it has already passed on.                                    *)
Deleted(r, g) ==
    [c \in Clients |-> [r[c] EXCEPT !.cut = @ \/ (r[c].state = "importing" /\ r[c].graph = g)]]

(* http_delete_request calls fsp_delete_model_all. *)
DeleteRequest(c) ==
    /\ main = Idle /\ req[c].state = "new"
    /\ \E g \in Graphs :
        /\ req' = Deleted([req EXCEPT ![c].state = "working", ![c].kind = "delete"], g)
        /\ db' = [db EXCEPT ![g] = {}]
    /\ main' = At("flush", c)
    /\ UNCHANGED <<queue, stream, cache>>

(* http_delete_request when that fails: the cache is not flushed. *)
DeleteFails(c) ==
    /\ main = Idle /\ req[c].state = "new"
    /\ \E g \in Graphs : db' \in AfterFailure(g)
    /\ req' = [req EXCEPT ![c] = Closed]
    /\ UNCHANGED <<queue, main, stream, cache>>

\* Mutant: a deletion leaves the cache alone.
FlushUnlessDeleting ==
    /\ main.at = "flush"
    /\ cache' = IF req[main.client].kind = "delete" THEN cache ELSE [g \in Graphs |-> NoEntry]
    /\ LET flushed == [c \in Clients |-> [req[c] EXCEPT !.recent = FALSE]]
       IN  IF req[main.client].kind = "delete"
           THEN main' = Idle /\ req' = [flushed EXCEPT ![main.client] = Closed]
           ELSE main' = At("remove", main.client) /\ req' = flushed
    /\ UNCHANGED <<queue, stream, db>>

(* fs_query_cache_flush, and the response of http_delete_request. *)
Flush ==
    /\ main.at = "flush"
    /\ cache' = [g \in Graphs |-> NoEntry]
    /\ LET flushed == [c \in Clients |-> [req[c] EXCEPT !.recent = FALSE]]
       IN  IF req[main.client].kind = "delete"
           THEN main' = Idle /\ req' = [flushed EXCEPT ![main.client] = Closed]
           ELSE main' = At("remove", main.client) /\ req' = flushed
    /\ UNCHANGED <<queue, stream, db>>

(* g_slist_remove: the list without the first c. *)
Without(list, c) ==
    LET first == CHOOSE i \in 1 .. Len(list) : list[i] = c /\ \A j \in 1 .. i - 1 : list[j] # c
    IN  IF \E i \in 1 .. Len(list) : list[i] = c
        THEN SubSeq(list, 1, first - 1) \o SubSeq(list, first + 1, Len(list))
        ELSE list

\* Mutant: the next import is not started.
QueueRemoveOnly ==
    /\ main.at = "remove"
    /\ queue' = Without(queue, main.client)
    /\ main' = Idle
    /\ req' = Replied([req EXCEPT ![main.client].state = "replying"])
    /\ UNCHANGED <<stream, db, cache>>

(* http_import_queue_remove starts the head of the queue; the response is  *)
(* sent when that returns.                                                 *)
QueueRemove ==
    /\ main.at = "remove"
    /\ queue' = Without(queue, main.client)
    /\ LET removed == [req EXCEPT ![main.client].state = "replying"]
       IN  IF queue' = <<>>
           THEN main' = Idle /\ req' = Replied(removed)
           ELSE main' = At("start", Head(queue')) /\ req' = removed
    /\ UNCHANGED <<stream, db, cache>>
-----------------------------------------------------------------------------
(* http_answer_query hands the request to a thread of the pool. *)
QueryRequest(c) ==
    /\ \E g \in Graphs : Arrive(c, "query", g, "lookup")
    /\ UNCHANGED <<queue, main, stream, db, cache>>

(* fs_bind_cache_wrapper_intl looks for the answer in the cache, *)
Lookup(c) ==
    /\ req[c].state = "lookup"
    /\ req' = IF cache[req[c].graph].filled
              THEN [req EXCEPT ![c] = Closed]
              ELSE [req EXCEPT ![c].state = "fetch"]
    /\ UNCHANGED <<queue, main, stream, db, cache>>

(* gets it from the backends, *)
Fetch(c) ==
    /\ req[c].state = "fetch"
    /\ req' = [req EXCEPT ![c].state = "store",
                          ![c].answer = db[req[c].graph], ![c].recent = TRUE]
    /\ UNCHANGED <<queue, main, stream, db, cache>>

(* and puts it into the cache, unless it is too large. *)
Store(c) ==
    /\ req[c].state = "store"
    /\ \/ cache' = [cache EXCEPT ![req[c].graph] =
                [filled |-> TRUE, value |-> req[c].answer, recent |-> req[c].recent]]
       \/ UNCHANGED cache
    /\ req' = [req EXCEPT ![c] = Closed]
    /\ UNCHANGED <<queue, main, stream, db>>
-----------------------------------------------------------------------------
Request(c) ==
    \/ PutRequest(c) \/ UpdateRequest(c) \/ QueryRequest(c)
    \/ PostRequest(c) \/ PostFails(c)
    \/ DeleteRequest(c) \/ DeleteFails(c)

Handler(c) == StartPut(c) \/ StartFails(c) \/ StartUpdate(c) \/ PutFinished(c)
QueryThread(c) == Lookup(c) \/ Fetch(c) \/ Store(c)

HS_Next ==
    \/ \E c \in Clients :
        \/ Request(c) \/ Handler(c) \/ QueryThread(c)
        \/ Receive(c) \/ EndOfFile(c) \/ Watchdog(c)
    \/ Flush \/ QueueRemove

(* The main thread goes on with what it has begun, a timeout that was set  *)
(* expires, and of the query threads that can run some one does.  Nothing  *)
(* is assumed of the clients.                                              *)
HS_Fairness ==
    /\ WF_HS_vars(Flush \/ QueueRemove \/ \E c \in Clients : Handler(c))
    /\ WF_HS_vars(\E c \in Clients : Watchdog(c))
    /\ WF_HS_vars(\E c \in Clients : QueryThread(c))

HS_Spec == HS_Init /\ [][HS_Next]_HS_vars /\ HS_Fairness
-----------------------------------------------------------------------------
(* Imports share one parser state, so only the head of the queue is ever   *)
(* importing, and the parser is at work on that client's graph and data.   *)
OneImport ==
    \A c \in Clients :
        req[c].state = "importing" /\ main.at \in {"loop", "finish"} =>
            /\ queue # <<>> /\ Head(queue) = c
            /\ stream.graph = req[c].graph
            /\ stream.items \subseteq Sent(c)

(* A PUT that is not answered with an error leaves its graph with exactly  *)
(* what its client sent, whatever the graph had and whatever other         *)
(* requests came between its parts, and with no more than that if one of   *)
(* them deleted the graph.  (A client may send less than it announced:     *)
(* recv_fn takes that for a success.)                                      *)
PutReplacesGraph ==
    \A c \in Clients :
        main = At("flush", c) /\ req[c].kind = "put" /\ ~req[c].failed =>
            /\ db[req[c].graph] \subseteq Sent(c)
            /\ req[c].cut \/ Sent(c) \subseteq db[req[c].graph]

(* An answer that was fetched after the last flush and is in the cache is  *)
(* what the backends have, except while a change is being made: every      *)
(* change is followed by a flush.  (An answer fetched before a flush and   *)
(* stored after it is not covered: the code lets it into the cache.)       *)
CacheIsCurrent ==
    \A g \in Graphs :
        \/ ~cache[g].recent
        \/ cache[g].value = db[g]
        \/ main.at = "flush"
        \/ \E c \in Clients : req[c].state = "importing" /\ req[c].graph = g

(* Every request that is made is answered in the end, also if clients stop *)
(* sending: the watchdog ends a PUT that makes no progress and the queue   *)
(* moves on.                                                               *)
RequestsAnswered ==
    <>[](\A c \in Clients : req[c].state \in {"new", "done"})

(* A request to replace or extend a graph does just that, however requests *)
(* queue up behind the one parser.                                         *)
ImportsDoNotMix == OneImport /\ PutReplacesGraph
=============================================================================
