-------------------------- MODULE HttpServerProofs --------------------------
(***************************************************************************)
(* Imports do not mix and the bind cache is current, for any number of     *)
(* clients and graphs and any length of bodies.                            *)
(***************************************************************************)
EXTENDS HttpServer, SequenceTheorems, TLAPS

AtHead(c) == Len(queue) > 0 /\ queue[1] = c

Entries == [filled : BOOLEAN, value : SUBSET Items, recent : BOOLEAN]

Types ==
    /\ req \in [Clients -> Requests]
    /\ queue \in Seq(Clients)
    /\ main \in [at : {"start", "finish", "flush", "remove"}, client : Clients] \cup {Idle}
    /\ stream \in [graph : Graphs \cup {None}, items : SUBSET Items]
    /\ db \in [Graphs -> SUBSET Items]
    /\ cache \in [Graphs -> Entries]

(* Nobody is in the queue twice, only its head is importing, and who is    *)
(* importing is the head.                                                  *)
QueueOK ==
    /\ \A i, j \in 1 .. Len(queue) : queue[i] = queue[j] => i = j
    /\ \A i \in 1 .. Len(queue) :
          LET r == req[queue[i]]
          IN  /\ r.graph \in Graphs
              /\ \/ r.kind \in {"put", "update"} /\ r.state = "queued"
                 \/ r.kind = "put" /\ r.state = "importing" /\ i = 1
              /\ r.state = "queued" => r.body = r.sends
    /\ \A c \in Clients :
          /\ req[c].state = "importing" => AtHead(c)
          /\ req[c].state = "new" => req[c].body = req[c].sends
          /\ req[c].state \in {"lookup", "fetch", "store"} => req[c].graph \in Graphs

(* Whom the main thread is at work for. *)
MainOK ==
    LET c == main.client
    IN  /\ main.at = "start" => AtHead(c) /\ req[c].state = "queued"
        /\ main.at = "finish" =>
              /\ req[c].state = "importing"
              /\ req[c].failed \/ req[c].left = 0 \/ req[c].body = 0
        /\ main.at = "flush" =>
              \/ AtHead(c)
              \/ req[c].state = "working" /\ (req[c].kind = "delete" \/ queue = <<>>)
        /\ main.at = "remove" =>
              \/ AtHead(c)
              \/ req[c].state = "working" /\ queue = <<>>

(* The import of c is not yet finished. *)
Open(c) == req[c].state = "importing" /\ main # At("flush", c) /\ main # At("remove", c)

(* What has been read of the body of c. *)
Read(c) == {Part(c, i) : i \in 1 .. req[c].sends - req[c].body}

(* An open import has the parser, and what has been read is in the parser  *)
(* or in the graph.                                                        *)
StreamOK(c) ==
    Open(c) =>
        /\ stream.graph = req[c].graph
        /\ req[c].body <= req[c].sends
        /\ req[c].left = req[c].length - (req[c].sends - req[c].body)
        /\ stream.items \cup db[req[c].graph] \subseteq Read(c)
        /\ req[c].cut \/ Read(c) \subseteq stream.items \cup db[req[c].graph]

Streams == \A c \in Clients : StreamOK(c)

(* Graph g is about to change, or the flush after its change is to come. *)
Changing(g) == main.at = "flush" \/ \E c \in Clients : Open(c) /\ req[c].graph = g

(* What was fetched after the last flush is current, in the cache and with *)
(* the queries that are about to put it there.                             *)
Fresh ==
    /\ \A g \in Graphs : cache[g].recent => cache[g].value = db[g] \/ Changing(g)
    /\ \A c \in Clients :
          req[c].state = "store" /\ req[c].recent =>
              req[c].answer = db[req[c].graph] \/ Changing(req[c].graph)

(* The inductive invariant. *)
HS_Inv == Types /\ QueueOK /\ MainOK /\ Streams /\ PutReplacesGraph /\ Fresh
-----------------------------------------------------------------------------
(* Client c, in state before, gets a request with state after; the other   *)
(* requests stay.                                                          *)
OnlyOne(c, before, after) ==
    /\ req[c].state \in before /\ req'[c].state \in after
    /\ \A d \in Clients : d # c => req'[d] = req[d]

(* Clients that wait for nothing from the main thread. *)
LEMMA Elsewhere ==
    ASSUME HS_Inv, NEW c \in Clients,
           req[c].state \in {"new", "lookup", "fetch", "store", "replying", "done"}
    PROVE  /\ \A i \in 1 .. Len(queue) : queue[i] # c
           /\ main.client # c
<1>1. \A i \in 1 .. Len(queue) : queue[i] # c
  BY DEF HS_Inv, QueueOK
<1>2. ~AtHead(c)
  BY <1>1 DEF AtHead, HS_Inv, Types
<1>3. CASE main = Idle
  BY <1>1, <1>3, HttpServerAssumption DEF Idle, At
<1>4. CASE main \in [at : {"start", "finish", "flush", "remove"}, client : Clients]
  BY <1>1, <1>2, <1>4 DEF HS_Inv, MainOK
<1> QED
  BY <1>1, <1>3, <1>4 DEF HS_Inv, Types

(* A query thread, or a request that is answered at once, is the concern   *)
(* of nobody but the cache.                                                *)
LEMMA QuietStep ==
    ASSUME HS_Inv, NEW c \in Clients, UNCHANGED <<queue, main, stream, db>>,
           OnlyOne(c, {"new", "lookup", "fetch", "store"}, {"lookup", "fetch", "store", "done"}),
           req'[c].state # "done" => req'[c].graph \in Graphs
    PROVE  QueueOK' /\ MainOK' /\ Streams' /\ PutReplacesGraph' /\ \A g \in Graphs : Changing(g)' = Changing(g)
<1>1. (\A i \in 1 .. Len(queue) : queue[i] # c) /\ main.client # c
  BY Elsewhere DEF OnlyOne
<1>2. \A i \in 1 .. Len(queue) : req'[queue[i]] = req[queue[i]]
  BY <1>1, ElementOfSeq DEF OnlyOne, HS_Inv, Types
<1>3. QueueOK'
  BY <1>2 DEF OnlyOne, QueueOK, HS_Inv, AtHead
<1>4. MainOK'
  <2>1. CASE main = Idle
    BY <2>1 DEF MainOK, Idle, At
  <2>2. CASE main.client \in Clients
    <3>1. req'[main.client] = req[main.client]
      BY <1>1, <2>2 DEF OnlyOne
    <3> QED
      BY <3>1 DEF MainOK, HS_Inv, AtHead
  <2> QED
    BY <2>1, <2>2 DEF HS_Inv, Types
<1>5. \A d \in Clients : Open(d)' = Open(d) /\ (Open(d) => req'[d] = req[d])
  BY DEF Open, OnlyOne
<1>6. Streams'
  BY <1>5 DEF Streams, StreamOK, HS_Inv, Read
<1>7. PutReplacesGraph'
  <2> SUFFICES ASSUME NEW d \in Clients, main = At("flush", d), req'[d].kind = "put", ~req'[d].failed
               PROVE  /\ db[req'[d].graph] \subseteq Sent(d)'
                      /\ req'[d].cut \/ Sent(d)' \subseteq db[req'[d].graph]
    BY DEF PutReplacesGraph
  <2>1. req'[d] = req[d]
    BY <1>1 DEF At, OnlyOne
  <2> QED
    BY <2>1 DEF PutReplacesGraph, HS_Inv, Sent
<1>8. \A g \in Graphs : Changing(g)' = Changing(g)
  BY <1>5 DEF Changing
<1> QED
  BY <1>3, <1>4, <1>6, <1>7, <1>8

LEMMA RequestType == ASSUME Types, NEW c \in Clients PROVE req[c] \in Requests
BY DEF Types

(* A request once it has a response. *)
LEMMA ClosedType == Closed \in Requests /\ Closed.state = "done" /\ ~Closed.recent
<1>1. NoRequest \in Requests /\ ~NoRequest.recent
  BY HttpServerAssumption DEF NoRequest, Requests
<1> QED
  BY <1>1 DEF Closed, Requests

LEMMA QueryRequestStep ==
    ASSUME HS_Inv, NEW c \in Clients, QueryRequest(c)
    PROVE  HS_Inv'
<1>1. PICK g \in Graphs : Arrive(c, "query", g, "lookup")
  BY DEF QueryRequest
<1>2. UNCHANGED <<queue, main, stream, db, cache>>
  BY DEF QueryRequest
<1>3. Types
  BY DEF HS_Inv
<1> DEFINE new == [req[c] EXCEPT !.state = "lookup", !.kind = "query", !.graph = g]
<1>4. new \in Requests /\ new.state = "lookup" /\ new.graph = g
  BY <1>3, RequestType, ZenonT(60) DEF Requests
<1>9. req' = [req EXCEPT ![c] = new] /\ req[c].state = "new"
  BY <1>1, <1>3, Zenon DEF Arrive, Types
<1> HIDE DEF new
<1>5. req' \in [Clients -> Requests] /\ OnlyOne(c, {"new"}, {"lookup"}) /\ req'[c].graph \in Graphs
  BY <1>3, <1>4, <1>9 DEF Types, OnlyOne
<1>6. QueueOK' /\ MainOK' /\ Streams' /\ PutReplacesGraph' /\ \A h \in Graphs : Changing(h)' = Changing(h)
  BY <1>2, <1>5, QuietStep DEF OnlyOne
<1>7. Types'
  BY <1>2, <1>3, <1>5 DEF Types
<1>8. Fresh'
  BY <1>2, <1>5, <1>6 DEF Fresh, HS_Inv, OnlyOne, QueueOK
<1> QED
  BY <1>6, <1>7, <1>8 DEF HS_Inv

LEMMA LookupStep ==
    ASSUME HS_Inv, NEW c \in Clients, Lookup(c)
    PROVE  HS_Inv'
<1>1. UNCHANGED <<queue, main, stream, db, cache>>
  BY DEF Lookup
<1>2. Types /\ req[c].state = "lookup" /\ req[c].graph \in Graphs
  BY DEF HS_Inv, QueueOK, Lookup
<1>3. /\ req' \in [Clients -> Requests]
      /\ OnlyOne(c, {"lookup"}, {"fetch", "done"})
      /\ req'[c].state # "done" => req'[c].graph = req[c].graph
  <2>1. CASE req' = [req EXCEPT ![c] = Closed]
    BY <1>2, <2>1, ClosedType DEF Types, OnlyOne
  <2>2. CASE req' = [req EXCEPT ![c].state = "fetch"]
    <3> DEFINE new == [req[c] EXCEPT !.state = "fetch"]
    <3>1. new \in Requests /\ new.state = "fetch" /\ new.graph = req[c].graph
      BY <1>2, RequestType DEF Requests
    <3>2. req' = [req EXCEPT ![c] = new]
      BY <1>2, <2>2 DEF Types
    <3> QED
      BY <1>2, <3>1, <3>2 DEF Types, OnlyOne
  <2> QED
    BY <2>1, <2>2 DEF Lookup
<1>4. QueueOK' /\ MainOK' /\ Streams' /\ PutReplacesGraph' /\ \A h \in Graphs : Changing(h)' = Changing(h)
  BY <1>1, <1>2, <1>3, QuietStep DEF OnlyOne
<1>5. Types'
  BY <1>1, <1>2, <1>3 DEF Types
<1>6. Fresh'
  BY <1>1, <1>3, <1>4 DEF Fresh, HS_Inv, OnlyOne, QueueOK
<1> QED
  BY <1>4, <1>5, <1>6 DEF HS_Inv

LEMMA FetchStep ==
    ASSUME HS_Inv, NEW c \in Clients, Fetch(c)
    PROVE  HS_Inv'
<1>1. UNCHANGED <<queue, main, stream, db, cache>>
  BY DEF Fetch
<1>2. Types /\ req[c].state = "fetch" /\ req[c].graph \in Graphs
  BY DEF HS_Inv, QueueOK, Fetch
<1>3. db[req[c].graph] \in SUBSET Items
  BY <1>2 DEF Types
<1>4. /\ req' \in [Clients -> Requests]
      /\ OnlyOne(c, {"fetch"}, {"store"})
      /\ req'[c].graph = req[c].graph /\ req'[c].answer = db[req[c].graph]
  <2> DEFINE new == [req[c] EXCEPT !.state = "store", !.answer = db[req[c].graph], !.recent = TRUE]
  <2>1. new \in Requests /\ new.state = "store" /\ new.graph = req[c].graph
                         /\ new.answer = db[req[c].graph]
    BY <1>2, <1>3, RequestType, ZenonT(60) DEF Requests
  <2>2. req' = [req EXCEPT ![c] = new]
    BY <1>2, Zenon DEF Types, Fetch
  <2> QED
    BY <1>2, <2>1, <2>2 DEF Types, OnlyOne
<1>5. QueueOK' /\ MainOK' /\ Streams' /\ PutReplacesGraph' /\ \A h \in Graphs : Changing(h)' = Changing(h)
  BY <1>1, <1>2, <1>4, QuietStep DEF OnlyOne
<1>6. Types'
  BY <1>1, <1>2, <1>4 DEF Types
<1>7. Fresh'
  BY <1>1, <1>4, <1>5 DEF Fresh, HS_Inv, OnlyOne, QueueOK
<1> QED
  BY <1>5, <1>6, <1>7 DEF HS_Inv

LEMMA StoreStep ==
    ASSUME HS_Inv, NEW c \in Clients, Store(c)
    PROVE  HS_Inv'
<1> DEFINE g == req[c].graph
           e == [filled |-> TRUE, value |-> req[c].answer, recent |-> req[c].recent]
<1>1. UNCHANGED <<queue, main, stream, db>>
  BY DEF Store
<1>2. Types /\ req[c].state = "store" /\ g \in Graphs
  BY DEF HS_Inv, QueueOK, Store
<1>3. req' \in [Clients -> Requests] /\ OnlyOne(c, {"store"}, {"done"})
  BY <1>2, ClosedType DEF Types, OnlyOne, Store
<1>4. QueueOK' /\ MainOK' /\ Streams' /\ PutReplacesGraph' /\ \A h \in Graphs : Changing(h)' = Changing(h)
  BY <1>1, <1>2, <1>3, QuietStep DEF OnlyOne
<1>5. e \in Entries /\ e.value = req[c].answer /\ e.recent = req[c].recent
  BY <1>2 DEF Types, Requests, Entries
<1>6. cache' = cache \/ cache' = [cache EXCEPT ![g] = e]
  BY DEF Store
<1> HIDE DEF e
<1>7. cache' \in [Graphs -> Entries] /\ \A h \in Graphs : cache'[h] = cache[h] \/ (h = g /\ cache'[h] = e)
  BY <1>2, <1>5, <1>6 DEF Types
<1>8. Types'
  BY <1>1, <1>2, <1>3, <1>7 DEF Types
<1>9. Fresh'
  BY <1>1, <1>2, <1>3, <1>4, <1>5, <1>7 DEF Fresh, HS_Inv, OnlyOne, QueueOK
<1> QED
  BY <1>4, <1>8, <1>9 DEF HS_Inv

LEMMA DeleteFailsStep ==
    ASSUME Disturbances = {}, HS_Inv, NEW c \in Clients, DeleteFails(c)
    PROVE  HS_Inv'
<1>1. UNCHANGED <<queue, main, stream, db, cache>>
  BY DEF DeleteFails, AfterFailure
<1>2. Types
  BY DEF HS_Inv
<1>3. req' \in [Clients -> Requests] /\ OnlyOne(c, {"new"}, {"done"})
  BY <1>2, ClosedType DEF Types, OnlyOne, DeleteFails
<1>4. QueueOK' /\ MainOK' /\ Streams' /\ PutReplacesGraph' /\ \A h \in Graphs : Changing(h)' = Changing(h)
  BY <1>1, <1>3, QuietStep DEF OnlyOne
<1>5. Types'
  BY <1>1, <1>2, <1>3 DEF Types
<1>6. Fresh'
  BY <1>1, <1>3, <1>4 DEF Fresh, HS_Inv, OnlyOne, QueueOK
<1> QED
  BY <1>4, <1>5, <1>6 DEF HS_Inv
-----------------------------------------------------------------------------
(* Where the main thread is, as far as Open and Changing ask. *)
LEMMA Steps ==
    /\ Idle.at = "loop"
    /\ \A step, c : At(step, c).at = step /\ At(step, c).client = c
    /\ \A step, c : step # "loop" => Idle # At(step, c)
    /\ \A step, next, c, d : At(step, c) = At(next, d) => step = next /\ c = d
BY DEF Idle, At

(* At most one client is importing, and nobody with an empty queue. *)
LEMMA Importing ==
    ASSUME HS_Inv, NEW c \in Clients, req[c].state = "importing"
    PROVE  /\ AtHead(c) /\ queue # <<>>
           /\ req[c].kind = "put" /\ req[c].graph \in Graphs
           /\ \A d \in Clients : AtHead(d) => d = c
<1>1. AtHead(c)
  BY DEF HS_Inv, QueueOK
<1>2. queue # <<>> /\ 1 \in 1 .. Len(queue)
  BY <1>1 DEF HS_Inv, Types, AtHead
<1> QED
  BY <1>1, <1>2 DEF HS_Inv, QueueOK, AtHead

LEMMA EnqueueStep ==
    ASSUME HS_Inv, NEW c \in Clients, main = Idle, Enqueue(c),
           req' \in [Clients -> Requests], OnlyOne(c, {"new"}, {"queued"}),
           req'[c].kind \in {"put", "update"}, req'[c].graph \in Graphs, req'[c].body = req'[c].sends
    PROVE  HS_Inv'
<1>1. Types /\ UNCHANGED <<stream, db, cache>> /\ queue' = Append(queue, c)
  BY DEF HS_Inv, Enqueue
<1>2. /\ queue' \in Seq(Clients) /\ Len(queue) \in Nat /\ Len(queue') = Len(queue) + 1
      /\ \A i \in 1 .. Len(queue) : queue'[i] = queue[i] /\ queue[i] \in Clients
      /\ queue'[Len(queue) + 1] = c
  BY <1>1 DEF Types
<1>3. \A i \in 1 .. Len(queue) : queue[i] # c
  BY Elsewhere DEF OnlyOne
<1>4. \A d \in Clients : AtHead(d) => AtHead(d)'
  BY <1>2 DEF AtHead
<1>5. main' = Idle \/ (main' = At("start", c) /\ AtHead(c)')
  BY <1>1, <1>2 DEF Enqueue, AtHead, Types
<1>6. Types'
  BY <1>1, <1>2, <1>5, Steps DEF Types, At
<1>7. QueueOK'
  <2>1. \A i, j \in 1 .. Len(queue') : queue'[i] = queue'[j] => i = j
    BY <1>2, <1>3 DEF HS_Inv, QueueOK
  <2>2. ASSUME NEW i \in 1 .. Len(queue')
        PROVE  LET r == req'[queue'[i]]
               IN  /\ r.graph \in Graphs
                   /\ \/ r.kind \in {"put", "update"} /\ r.state = "queued"
                      \/ r.kind = "put" /\ r.state = "importing" /\ i = 1
                   /\ r.state = "queued" => r.body = r.sends
    <3>1. CASE i \in 1 .. Len(queue)
      <4>1. req'[queue'[i]] = req[queue[i]]
        BY <1>2, <1>3, <3>1 DEF OnlyOne
      <4> QED
        BY <3>1, <4>1 DEF HS_Inv, QueueOK
    <3>2. CASE i = Len(queue) + 1
      BY <1>2, <3>2 DEF OnlyOne
    <3> QED
      BY <1>2, <3>1, <3>2
  <2>3. ASSUME NEW d \in Clients
        PROVE  /\ req'[d].state = "importing" => AtHead(d)'
               /\ req'[d].state = "new" => req'[d].body = req'[d].sends
               /\ req'[d].state \in {"lookup", "fetch", "store"} => req'[d].graph \in Graphs
    BY <1>4 DEF HS_Inv, QueueOK, OnlyOne
  <2> QED
    BY <2>1, <2>2, <2>3 DEF QueueOK
<1>8. MainOK'
  BY <1>5, Steps DEF MainOK, OnlyOne
<1>9. \A d \in Clients : Open(d)' = Open(d) /\ (Open(d) => req'[d] = req[d])
  BY <1>5, Steps DEF Open, OnlyOne
<1>10. Streams'
  BY <1>1, <1>9, Zenon DEF Streams, StreamOK, HS_Inv, Read
<1>11. PutReplacesGraph'
  BY <1>5, Steps DEF PutReplacesGraph
<1>12. \A g \in Graphs : Changing(g)' = Changing(g)
  BY <1>5, <1>9, Steps DEF Changing
<1>13. Fresh'
  BY <1>1, <1>12 DEF Fresh, HS_Inv, OnlyOne, QueueOK
<1> QED
  BY <1>6, <1>7, <1>8, <1>10, <1>11, <1>13 DEF HS_Inv

LEMMA PutRequestStep ==
    ASSUME HS_Inv, NEW c \in Clients, PutRequest(c)
    PROVE  HS_Inv'
<1>1. PICK g \in Graphs, n \in 0 .. MaxLength, m \in 0 .. MaxLength : ArriveWith(c, "put", g, "queued", n, m)
  BY DEF PutRequest
<1> DEFINE new == [req[c] EXCEPT !.state = "queued", !.kind = "put", !.graph = g,
                                 !.length = n, !.sends = m, !.body = m]
<1>2. Types
  BY DEF HS_Inv
<1>3. /\ new \in Requests /\ new.state = "queued" /\ new.kind = "put" /\ new.graph = g
      /\ new.body = new.sends
  BY <1>2, RequestType, ZenonT(60) DEF Requests
<1>4. req' = [req EXCEPT ![c] = new] /\ main = Idle /\ req[c].state = "new"
  BY <1>1, <1>2, Zenon DEF ArriveWith, Types
<1> HIDE DEF new
<1>5. req' \in [Clients -> Requests] /\ OnlyOne(c, {"new"}, {"queued"}) /\ req'[c] = new
  BY <1>2, <1>3, <1>4 DEF Types, OnlyOne
<1> QED
  BY <1>3, <1>4, <1>5, EnqueueStep DEF PutRequest

LEMMA UpdateRequestStep ==
    ASSUME HS_Inv, NEW c \in Clients, UpdateRequest(c)
    PROVE  HS_Inv'
<1>1. PICK g \in Graphs : Arrive(c, "update", g, "queued")
  BY DEF UpdateRequest
<1> DEFINE new == [req[c] EXCEPT !.state = "queued", !.kind = "update", !.graph = g]
<1>2. Types
  BY DEF HS_Inv
<1>3. req' = [req EXCEPT ![c] = new] /\ main = Idle /\ req[c].state = "new"
  BY <1>1, <1>2, Zenon DEF Arrive, Types
<1>4. req[c].body = req[c].sends
  BY <1>3 DEF HS_Inv, QueueOK
<1>5. /\ new \in Requests /\ new.state = "queued" /\ new.kind = "update" /\ new.graph = g
      /\ new.body = new.sends
  BY <1>2, <1>4, RequestType, ZenonT(60) DEF Requests
<1> HIDE DEF new
<1>6. req' \in [Clients -> Requests] /\ OnlyOne(c, {"new"}, {"queued"}) /\ req'[c] = new
  BY <1>2, <1>3, <1>5 DEF Types, OnlyOne
<1> QED
  BY <1>3, <1>5, <1>6, EnqueueStep DEF UpdateRequest
-----------------------------------------------------------------------------
(* A request that is worked on at once while nothing is in the queue. *)
LEMMA AtOnceStep ==
    ASSUME HS_Inv, NEW c \in Clients, main = Idle, queue = <<>>, UNCHANGED <<queue, cache>>,
           req' \in [Clients -> Requests], OnlyOne(c, {"new"}, {"working"}), req'[c].kind = "post",
           stream' \in [graph : Graphs \cup {None}, items : SUBSET Items],
           db' \in [Graphs -> SUBSET Items],
           main' = At("flush", c) \/ (main' = At("remove", c) /\ db' = db)
    PROVE  HS_Inv'
<1>1. Types'
  BY Steps DEF HS_Inv, Types, At
<1>2. \A d \in Clients : req[d].state # "importing" /\ req'[d].state # "importing"
  BY Importing DEF OnlyOne
<1>3. Len(queue) = 0
  OBVIOUS
<1>4. QueueOK'
  BY <1>2, <1>3 DEF HS_Inv, QueueOK, OnlyOne
<1>5. MainOK'
  BY Steps DEF MainOK, OnlyOne
<1>6. Streams'
  BY <1>2 DEF Streams, StreamOK, Open
<1>7. PutReplacesGraph'
  BY Steps DEF PutReplacesGraph
<1>8. \A g \in Graphs : ~Changing(g)
  BY <1>2, Steps DEF Changing, Open
<1>9. Fresh'
  <2>1. CASE main' = At("flush", c)
    BY <2>1, Steps DEF Fresh, Changing
  <2>2. CASE db' = db
    BY <1>8, <2>2 DEF HS_Inv, Fresh, OnlyOne, QueueOK
  <2> QED
    BY <2>1, <2>2
<1> QED
  BY <1>1, <1>4, <1>5, <1>6, <1>7, <1>9 DEF HS_Inv

(* What the parser has goes to the graphs. *)
LEMMA StoredType ==
    ASSUME Types, NEW g, NEW items \in SUBSET Items
    PROVE  Stored([graph |-> g, items |-> items]) \in [Graphs -> SUBSET Items]
BY Zenon DEF Stored, Types

LEMMA PostRequestStep ==
    ASSUME Disturbances = {}, HS_Inv, NEW c \in Clients, PostRequest(c)
    PROVE  HS_Inv'
<1>1. PICK g \in Graphs, n \in 1 .. MaxLength :
        /\ ArriveWith(c, "post", g, "working", n, 0)
        /\ db' = Stored([graph |-> g, items |-> {Part(c, i) : i \in 1 .. n}])
  BY Zenon DEF PostRequest
<1> DEFINE new == [req[c] EXCEPT !.state = "working", !.kind = "post", !.graph = g,
                                 !.length = n, !.sends = 0, !.body = 0]
<1>2. Types
  BY DEF HS_Inv
<1>3. new \in Requests /\ new.state = "working" /\ new.kind = "post"
  <2>1. req[c] \in Requests /\ n \in 0 .. MaxLength /\ 0 \in 0 .. MaxLength
    BY <1>2, RequestType, HttpServerAssumption
  <2> QED
    BY <2>1, Zenon DEF Requests
<1>4. req' = [req EXCEPT ![c] = new] /\ main = Idle /\ req[c].state = "new"
  BY <1>1, <1>2, Zenon DEF ArriveWith, Types
<1> HIDE DEF new
<1>5. req' \in [Clients -> Requests] /\ OnlyOne(c, {"new"}, {"working"}) /\ req'[c].kind = "post"
  BY <1>2, <1>3, <1>4 DEF Types, OnlyOne
<1>6. {Part(c, i) : i \in 1 .. n} \in SUBSET Items
  BY HttpServerAssumption DEF Items, Part
<1>7. db' \in [Graphs -> SUBSET Items]
  BY <1>1, <1>2, <1>6, StoredType
<1>8. stream' \in [graph : Graphs \cup {None}, items : SUBSET Items]
  BY DEF PostRequest, NoStream
<1> QED
  BY <1>4, <1>5, <1>7, <1>8, AtOnceStep DEF PostRequest

LEMMA PostFailsStep ==
    ASSUME Disturbances = {}, HS_Inv, NEW c \in Clients, PostFails(c)
    PROVE  HS_Inv'
<1>1. PICK g \in Graphs : Arrive(c, "post", g, "working")
  BY DEF PostFails
<1> DEFINE new == [req[c] EXCEPT !.state = "working", !.kind = "post", !.graph = g]
<1>2. Types
  BY DEF HS_Inv
<1>3. new \in Requests /\ new.state = "working" /\ new.kind = "post"
  BY <1>2, RequestType, ZenonT(60) DEF Requests
<1>4. req' = [req EXCEPT ![c] = new] /\ main = Idle /\ req[c].state = "new"
  BY <1>1, <1>2, Zenon DEF Arrive, Types
<1> HIDE DEF new
<1>5. req' \in [Clients -> Requests] /\ OnlyOne(c, {"new"}, {"working"}) /\ req'[c].kind = "post"
  BY <1>2, <1>3, <1>4 DEF Types, OnlyOne
<1>6. db' \in [Graphs -> SUBSET Items] /\ stream' \in [graph : Graphs \cup {None}, items : SUBSET Items]
  BY <1>2 DEF Types, PostFails
<1> QED
  BY <1>4, <1>5, <1>6, AtOnceStep DEF PostFails

(* A request whose mark is set anew. *)
LEMMA CutRequest ==
    ASSUME NEW r \in Requests, NEW b \in BOOLEAN, NEW s, s = [r EXCEPT !.cut = b]
    PROVE  /\ s \in Requests /\ s.cut = b
           /\ s.state = r.state /\ s.kind = r.kind /\ s.graph = r.graph
           /\ s.length = r.length /\ s.left = r.left /\ s.sends = r.sends /\ s.body = r.body
           /\ s.answer = r.answer /\ s.recent = r.recent
BY DEF Requests

(* A deletion may come while another client's import is open. *)
LEMMA DeleteRequestStep ==
    ASSUME HS_Inv, NEW c \in Clients, DeleteRequest(c)
    PROVE  HS_Inv'
<1>1. PICK g \in Graphs :
        /\ req' = Deleted([req EXCEPT ![c].state = "working", ![c].kind = "delete"], g)
        /\ db' = [db EXCEPT ![g] = {}]
  BY Zenon DEF DeleteRequest
<1>2. /\ Types /\ main = Idle /\ main' = At("flush", c) /\ req[c].state = "new"
      /\ UNCHANGED <<queue, stream, cache>>
  BY DEF HS_Inv, DeleteRequest
<1> DEFINE set == [req EXCEPT ![c].state = "working", ![c].kind = "delete"]
           mine == [req[c] EXCEPT !.state = "working", !.kind = "delete"]
<1>3. mine \in Requests /\ mine.state = "working" /\ mine.kind = "delete"
  BY <1>2, RequestType, ZenonT(60) DEF Requests
<1>4. set = [req EXCEPT ![c] = mine]
  BY <1>2, Zenon DEF Types
<1> HIDE DEF mine
<1>5. set \in [Clients -> Requests] /\ set[c] = mine /\ \A d \in Clients : d # c => set[d] = req[d]
  BY <1>2, <1>3, <1>4 DEF Types
<1> HIDE DEF set
<1> DEFINE lost == [d \in Clients |-> set[d].cut \/ (set[d].state = "importing" /\ set[d].graph = g)]
<1>16. \A d \in Clients : lost[d] \in BOOLEAN /\ req'[d] = [set[d] EXCEPT !.cut = lost[d]]
  BY <1>1 DEF Deleted, set
<1>17. \A d \in Clients : set[d].state = "importing" =>
          lost[d] = IF set[d].graph = g THEN TRUE ELSE set[d].cut
  BY <1>5, Zenon DEF Requests
<1> HIDE DEF lost
<1>7. ASSUME NEW d \in Clients
      PROVE  /\ req'[d] \in Requests /\ req'[d].cut = lost[d]
             /\ req'[d].state = set[d].state /\ req'[d].kind = set[d].kind /\ req'[d].graph = set[d].graph
             /\ req'[d].length = set[d].length /\ req'[d].left = set[d].left
             /\ req'[d].sends = set[d].sends /\ req'[d].body = set[d].body
             /\ req'[d].answer = set[d].answer /\ req'[d].recent = set[d].recent
  <2>1. set[d] \in Requests /\ lost[d] \in BOOLEAN /\ req'[d] = [set[d] EXCEPT !.cut = lost[d]]
    BY <1>5, <1>16
  <2> QED
    BY <2>1, CutRequest
<1>8. Types'
  <2>1. req' \in [Clients -> Requests]
    BY <1>1, <1>7, Zenon DEF Deleted
  <2> QED
    BY <1>1, <1>2, <2>1, Steps, Zenon DEF Types, At
<1>9. (\A i \in 1 .. Len(queue) : queue[i] # c) /\ (\A d \in Clients : AtHead(d)' = AtHead(d))
  BY <1>2, Elsewhere DEF AtHead
<1>10. QueueOK'
  <2>1. \A i \in 1 .. Len(queue) : queue[i] \in Clients /\ set[queue[i]] = req[queue[i]]
    BY <1>2, <1>5, <1>9, ElementOfSeq DEF Types
  <2> QED
    BY <1>2, <1>3, <1>5, <1>7, <1>9, <2>1 DEF HS_Inv, QueueOK
<1>11. MainOK'
  BY <1>2, <1>3, <1>5, <1>7, Steps DEF MainOK
<1>12. \A d \in Clients : Open(d)' => Open(d) /\ d # c /\ set[d] = req[d]
  BY <1>2, <1>3, <1>5, <1>7, Steps DEF Open
<1>13. Streams'
  <2> SUFFICES ASSUME NEW d \in Clients, Open(d)' PROVE StreamOK(d)'
    BY DEF Streams, StreamOK
  <2>1. Open(d) /\ StreamOK(d) /\ set[d] = req[d] /\ req[d].graph \in Graphs /\ req[d].state = "importing"
    BY <1>12, Importing DEF HS_Inv, Streams, Open
  <2>2. Read(d)' = Read(d)
    BY <1>7, <2>1 DEF Read
  <2>3. CASE req[d].graph = g
    <3>1. db'[g] = {}
      BY <1>1, <1>2 DEF Types
    <3>2. req'[d].cut = TRUE
      <4>1. set[d].state = "importing" /\ set[d].graph = g
        BY <2>1, <2>3
      <4>2. lost[d] = TRUE
        BY <1>17, <4>1, Zenon
      <4> QED
        BY <1>7, <4>2
    <3> QED
      BY <1>2, <1>7, <2>1, <2>2, <2>3, <3>1, <3>2 DEF StreamOK
  <2>4. CASE req[d].graph # g
    <3>1. db'[req[d].graph] = db[req[d].graph]
      BY <1>1, <1>2, <2>1, <2>4 DEF Types
    <3>2. req'[d].cut = req[d].cut
      BY <1>7, <1>17, <2>1, <2>4, Zenon
    <3> QED
      BY <1>2, <1>7, <2>1, <2>2, <3>1, <3>2 DEF StreamOK
  <2> QED
    BY <2>3, <2>4
<1>14. PutReplacesGraph'
  BY <1>2, <1>3, <1>5, <1>7, Steps DEF PutReplacesGraph
<1>15. Fresh'
  BY <1>2, Steps DEF Fresh, Changing
<1> QED
  BY <1>8, <1>10, <1>11, <1>13, <1>14, <1>15 DEF HS_Inv
-----------------------------------------------------------------------------
(* When the head of the queue is about to start, no import is open. *)
LEMMA Starting ==
    ASSUME HS_Inv, NEW c \in Clients, main = At("start", c)
    PROVE  /\ AtHead(c) /\ 1 \in 1 .. Len(queue) /\ queue[1] = c
           /\ req[c].state = "queued" /\ req[c].graph \in Graphs /\ req[c].body = req[c].sends
           /\ \A d \in Clients : req[d].state # "importing"
           /\ \A g \in Graphs : ~Changing(g)
<1>1. AtHead(c) /\ req[c].state = "queued"
  BY Steps DEF HS_Inv, MainOK
<1>2. 1 \in 1 .. Len(queue) /\ queue[1] = c
  BY <1>1 DEF HS_Inv, Types, AtHead
<1>3. req[c].graph \in Graphs /\ req[c].body = req[c].sends
  BY <1>1, <1>2 DEF HS_Inv, QueueOK
<1>4. \A d \in Clients : req[d].state # "importing"
  BY <1>1, Importing
<1>5. \A g \in Graphs : ~Changing(g)
  BY <1>4, Steps DEF Changing, Open
<1> QED
  BY <1>1, <1>2, <1>3, <1>4, <1>5

(* Responses are sent to all but c. *)
Answered(c) ==
    \A d \in Clients : d # c => req'[d] = req[d] \/ (req[d].state = "replying" /\ req'[d] = Closed)

LEMMA StartPutStep ==
    ASSUME HS_Inv, NEW c \in Clients, StartPut(c)
    PROVE  HS_Inv'
<1> DEFINE g == req[c].graph
           new == [req[c] EXCEPT !.state = "importing", !.left = req[c].length]
<1>1. /\ Types /\ main = At("start", c) /\ req[c].kind = "put"
      /\ db' = [db EXCEPT ![g] = {}] /\ stream' = [graph |-> g, items |-> {}]
      /\ UNCHANGED <<queue, cache>>
  BY DEF HS_Inv, StartPut
<1>2. /\ AtHead(c) /\ 1 \in 1 .. Len(queue) /\ queue[1] = c
      /\ req[c].state = "queued" /\ g \in Graphs /\ req[c].body = req[c].sends
      /\ \A d \in Clients : req[d].state # "importing"
      /\ \A h \in Graphs : ~Changing(h)
  BY <1>1, Starting
<1>3. /\ new \in Requests /\ new.state = "importing" /\ new.kind = req[c].kind /\ new.graph = g
      /\ new.length = req[c].length /\ new.left = req[c].length
      /\ new.sends = req[c].sends /\ new.body = req[c].body /\ new.cut = req[c].cut
  BY <1>1, RequestType, ZenonT(60) DEF Requests
<1>4. \/ main' = At("finish", c) /\ req' = [req EXCEPT ![c] = new] /\ req[c].length = 0
      \/ main' = Idle /\ req' = [Replied(req) EXCEPT ![c] = new]
  <2>1. CASE req[c].length = 0
    BY <1>1, <2>1, Zenon DEF StartPut, Types
  <2>2. CASE req[c].length # 0
    <3>1. Replied(req)[c] = req[c]
      BY <1>2 DEF Replied
    <3>2. main' = Idle /\ req' = [Replied(req) EXCEPT ![c].state = "importing", ![c].left = req[c].length]
      BY <2>2 DEF StartPut
    <3>3. req' = [Replied(req) EXCEPT ![c] = [Replied(req)[c] EXCEPT !.state = "importing", !.left = req[c].length]]
      BY <3>2, Zenon DEF Replied
    <3> QED
      BY <3>1, <3>2, <3>3, Zenon
  <2> QED
    BY <2>1, <2>2
<1> HIDE DEF new
<1>5. req' \in [Clients -> Requests] /\ req'[c] = new /\ Answered(c)
  BY <1>1, <1>3, <1>4, ClosedType, Zenon DEF Types, Replied, Answered
<1>6. \A d \in Clients : d # c => req'[d].state # "importing"
  BY <1>2, <1>5, ClosedType DEF Answered
<1>7. Types'
  <2>1. db' \in [Graphs -> SUBSET Items]
    BY <1>1, Zenon DEF Types
  <2>2. stream' \in [graph : Graphs \cup {None}, items : SUBSET Items]
    BY <1>1, <1>2
  <2>3. main' \in [at : {"start", "finish", "flush", "remove"}, client : Clients] \cup {Idle}
    BY <1>4, SMTT(60) DEF At
  <2> QED
    BY <1>1, <1>5, <2>1, <2>2, <2>3 DEF Types
<1>8. QueueOK'
  <2>1. ASSUME NEW i \in 1 .. Len(queue), i # 1
        PROVE  req'[queue[i]] = req[queue[i]] /\ req[queue[i]].state = "queued"
    <3>1. queue[i] # c /\ queue[i] \in Clients
      BY <1>1, <1>2, <2>1, ElementOfSeq, SMTT(60) DEF HS_Inv, QueueOK, Types
    <3>2. req[queue[i]].state = "queued"
      BY <1>2, <2>1 DEF HS_Inv, QueueOK
    <3> QED
      BY <1>5, <3>1, <3>2, SMTT(60) DEF Answered
  <2>2. ASSUME NEW i \in 1 .. Len(queue)
        PROVE  LET r == req'[queue[i]]
               IN  /\ r.graph \in Graphs
                   /\ \/ r.kind \in {"put", "update"} /\ r.state = "queued"
                      \/ r.kind = "put" /\ r.state = "importing" /\ i = 1
                   /\ r.state = "queued" => r.body = r.sends
    <3>1. CASE i = 1
      BY <1>1, <1>2, <1>3, <1>5, <3>1, SMTT(60)
    <3>2. CASE i # 1
      BY <2>1, <3>2 DEF HS_Inv, QueueOK
    <3> QED
      BY <3>1, <3>2
  <2>3. ASSUME NEW d \in Clients
        PROVE  /\ req'[d].state = "importing" => AtHead(d)'
               /\ req'[d].state = "new" => req'[d].body = req'[d].sends
               /\ req'[d].state \in {"lookup", "fetch", "store"} => req'[d].graph \in Graphs
    <3>1. CASE d = c
      BY <1>1, <1>2, <1>3, <1>5, <3>1, SMTT(60) DEF AtHead
    <3>2. CASE d # c
      BY <1>5, <1>6, <3>2, ClosedType, SMTT(60) DEF HS_Inv, QueueOK, Answered
    <3> QED
      BY <3>1, <3>2, SMTT(60)
  <2> QED
    BY <1>1, <2>2, <2>3 DEF HS_Inv, QueueOK
<1>9. MainOK'
  BY <1>3, <1>4, <1>5, Steps DEF MainOK
<1>10. Open(c)' /\ \A d \in Clients : Open(d)' => d = c
  BY <1>3, <1>4, <1>5, <1>6, Steps DEF Open
<1>11. StreamOK(c)'
  <2>1. req'[c].sends - req'[c].body = 0 /\ req'[c].body <= req'[c].sends
        /\ req'[c].left = req'[c].length - (req'[c].sends - req'[c].body)
    BY <1>1, <1>2, <1>3, <1>5, RequestType DEF Requests
  <2>2. Read(c)' = {}
    BY <2>1, SMTT(60) DEF Read
  <2>3. stream'.graph = g /\ stream'.items = {} /\ db'[g] = {}
    BY <1>1, <1>2, SMTT(60) DEF Types
  <2> QED
    BY <1>3, <1>5, <2>1, <2>2, <2>3, SMTT(60) DEF StreamOK
<1>12. Streams'
  BY <1>10, <1>11 DEF Streams, StreamOK
<1>13. PutReplacesGraph'
  BY <1>4, Steps DEF PutReplacesGraph
<1>14. Fresh'
  <2>1. \A h \in Graphs : h = g => Changing(h)'
    BY <1>3, <1>5, <1>10 DEF Changing
  <2>2. \A h \in Graphs : h # g => db'[h] = db[h]
    BY <1>1 DEF Types
  <2>3. ASSUME NEW h \in Graphs, cache'[h].recent PROVE cache'[h].value = db'[h] \/ Changing(h)'
    <3>1. cache[h].value = db[h]
      BY <1>1, <1>2, <2>3 DEF HS_Inv, Fresh
    <3> QED
      BY <1>1, <2>1, <2>2, <3>1, SMTT(60)
  <2>4. ASSUME NEW d \in Clients, req'[d].state = "store", req'[d].recent
        PROVE  (req[d].answer = db[req[d].graph] \/ Changing(req[d].graph))'
    <3>1. req'[d] = req[d] /\ req[d].graph \in Graphs
      BY <1>3, <1>5, <2>4, ClosedType, SMTT(60) DEF Answered, HS_Inv, QueueOK
    <3>2. req[d].answer = db[req[d].graph]
      BY <1>2, <2>4, <3>1 DEF HS_Inv, Fresh
    <3>3. CASE req[d].graph = g
      BY <1>3, <1>5, <1>10, <3>1, <3>3 DEF Changing
    <3>4. CASE req[d].graph # g
      BY <2>2, <3>1, <3>2, <3>4
    <3> QED
      BY <3>3, <3>4
  <2> QED
    BY <2>3, <2>4 DEF Fresh
<1> QED
  BY <1>7, <1>8, <1>9, <1>12, <1>13, <1>14 DEF HS_Inv

LEMMA StartFailsStep ==
    ASSUME Disturbances = {}, HS_Inv, NEW c \in Clients, StartFails(c)
    PROVE  HS_Inv'
<1>1. UNCHANGED <<req, queue, stream, db, cache>> /\ main = At("start", c) /\ main' = At("remove", c)
  BY DEF StartFails, AfterFailure
<1>2. /\ AtHead(c) /\ \A d \in Clients : req[d].state # "importing"
      /\ \A g \in Graphs : ~Changing(g)
  BY <1>1, Starting
<1>3. Types'
  BY <1>1, SMTT(60) DEF HS_Inv, Types, At
<1>4. QueueOK'
  BY <1>1 DEF HS_Inv, QueueOK, AtHead
<1>5. MainOK'
  BY <1>1, <1>2, Steps, SMTT(60) DEF MainOK, AtHead
<1>6. Streams'
  BY <1>1, <1>2 DEF Streams, StreamOK, Open
<1>7. PutReplacesGraph'
  BY <1>1, Steps, SMTT(60) DEF PutReplacesGraph
<1>8. Fresh'
  BY <1>1, <1>2 DEF HS_Inv, Fresh, QueueOK
<1> QED
  BY <1>3, <1>4, <1>5, <1>6, <1>7, <1>8 DEF HS_Inv

LEMMA StartUpdateStep ==
    ASSUME HS_Inv, NEW c \in Clients, StartUpdate(c)
    PROVE  HS_Inv'
<1>1. /\ UNCHANGED <<req, queue, stream, cache>> /\ req[c].kind = "update"
      /\ main = At("start", c) /\ main' = At("flush", c)
  BY DEF StartUpdate
<1>2. AtHead(c) /\ \A d \in Clients : req[d].state # "importing"
  BY <1>1, Starting
<1>3. Types'
  <2>1. {Part(c, 1)} \subseteq Items
    BY HttpServerAssumption DEF Part, Items
  <2>2. db' \in [Graphs -> SUBSET Items]
    BY <2>1, SMTT(60) DEF HS_Inv, Types, StartUpdate
  <2> QED
    BY <1>1, <2>2 DEF HS_Inv, Types, At
<1>4. QueueOK'
  BY <1>1 DEF HS_Inv, QueueOK, AtHead
<1>5. MainOK'
  BY <1>1, <1>2, Steps DEF MainOK, AtHead
<1>6. Streams'
  BY <1>1, <1>2 DEF Streams, StreamOK, Open
<1>7. PutReplacesGraph'
  BY <1>1, Steps DEF PutReplacesGraph
<1>8. Fresh'
  BY <1>1, Steps DEF Fresh, Changing
<1> QED
  BY <1>3, <1>4, <1>5, <1>6, <1>7, <1>8 DEF HS_Inv
-----------------------------------------------------------------------------
(* A step in which the open import of c goes on. *)
LEMMA ImportGoesOn ==
    ASSUME HS_Inv, NEW c \in Clients, main = Idle, req[c].state = "importing",
           UNCHANGED <<queue, cache>>, Types', StreamOK(c)',
           \A d \in Clients : d # c => req'[d] = req[d],
           req'[c].state = "importing", req'[c].kind = req[c].kind, req'[c].graph = req[c].graph,
           \A h \in Graphs : h # req[c].graph => db'[h] = db[h],
           \/ main' = Idle
           \/ main' = At("finish", c) /\ (req'[c].failed \/ req'[c].left = 0 \/ req'[c].body = 0)
    PROVE  HS_Inv'
<1>1. AtHead(c) /\ req[c].kind = "put" /\ req[c].graph \in Graphs /\ \A d \in Clients : AtHead(d) => d = c
  BY Importing, SMTT(60)
<1>2. \A d \in Clients : AtHead(d)' = AtHead(d)
  BY SMTT(60) DEF AtHead
<1>3. QueueOK'
  <2>1. ASSUME NEW i \in 1 .. Len(queue)
        PROVE  LET r == req'[queue[i]]
               IN  /\ r.graph \in Graphs
                   /\ \/ r.kind \in {"put", "update"} /\ r.state = "queued"
                      \/ r.kind = "put" /\ r.state = "importing" /\ i = 1
                   /\ r.state = "queued" => r.body = r.sends
    <3>1. CASE queue[i] = c
      <4>1. i = 1
        BY <1>1, <3>1, SMTT(60) DEF HS_Inv, QueueOK, AtHead, Types
      <4> QED
        BY <1>1, <3>1, <4>1
    <3>2. CASE queue[i] # c
      <4>1. req'[queue[i]] = req[queue[i]]
        BY <3>2, ElementOfSeq DEF HS_Inv, Types
      <4> QED
        BY <4>1 DEF HS_Inv, QueueOK
    <3> QED
      BY <3>1, <3>2, Zenon
  <2>2. ASSUME NEW d \in Clients
        PROVE  /\ req'[d].state = "importing" => AtHead(d)'
               /\ req'[d].state = "new" => req'[d].body = req'[d].sends
               /\ req'[d].state \in {"lookup", "fetch", "store"} => req'[d].graph \in Graphs
    <3>1. CASE d = c
      BY <1>1, <1>2, <3>1, SMTT(60)
    <3>2. CASE d # c
      BY <1>2, <3>2, SMTT(60) DEF HS_Inv, QueueOK
    <3> QED
      BY <3>1, <3>2
  <2> QED
    BY <2>1, <2>2, ZenonT(60) DEF HS_Inv, QueueOK
<1>4. MainOK'
  BY Steps DEF MainOK
<1>5. Open(c)' /\ Open(c) /\ \A d \in Clients : Open(d)' => d = c
  <2>1. Open(c)' /\ Open(c)
    BY Steps DEF Open
  <2>2. ASSUME NEW d \in Clients, Open(d)' PROVE d = c
    <3>1. AtHead(d)'
      BY <1>3, <2>2, SMTT(60) DEF Open, QueueOK
    <3> QED
      BY <1>1, <1>2, <3>1, SMTT(60)
  <2> QED
    BY <2>1, <2>2
<1>6. Streams'
  BY <1>5, SMTT(60) DEF Streams, StreamOK
<1>7. PutReplacesGraph'
  BY Steps, SMTT(60) DEF PutReplacesGraph
<1>8. \A h \in Graphs : (Changing(h) => Changing(h)') /\ (h = req[c].graph => Changing(h)')
  <2>1. \A h \in Graphs : h = req[c].graph => Changing(h)'
    BY <1>5 DEF Changing
  <2>2. \A h \in Graphs : Changing(h) => h = req[c].graph
    <3> SUFFICES ASSUME NEW h \in Graphs, NEW d \in Clients, Open(d), req[d].graph = h
                 PROVE  h = req[c].graph
      BY Steps, SMTT(60) DEF Changing
    <3>1. AtHead(d)
      BY SMTT(60) DEF Open, HS_Inv, QueueOK
    <3> QED
      BY <1>1, <3>1
  <2> QED
    BY <2>1, <2>2
<1>9. Fresh'
  <2>1. ASSUME NEW h \in Graphs, cache'[h].recent PROVE cache'[h].value = db'[h] \/ Changing(h)'
    BY <1>8, <2>1, SMTT(60) DEF HS_Inv, Fresh
  <2>2. ASSUME NEW d \in Clients, req'[d].state = "store", req'[d].recent
        PROVE  (req[d].answer = db[req[d].graph] \/ Changing(req[d].graph))'
    <3>1. req'[d] = req[d] /\ req[d].graph \in Graphs
      BY <2>2, SMTT(60) DEF HS_Inv, QueueOK
    <3>2. PICK h \in Graphs : h = req[d].graph
      BY <3>1
    <3>3. req[d].answer = db[h] \/ Changing(h)
      BY <2>2, <3>1, <3>2, SMTT(60) DEF HS_Inv, Fresh
    <3>4. req[d].answer = db'[h] \/ Changing(h)'
      BY <1>8, <3>3
    <3> QED
      BY <3>1, <3>2, <3>4, SMTT(60) DEF Changing
  <2> QED
    BY <2>1, <2>2 DEF Fresh
<1> QED
  BY <1>3, <1>4, <1>6, <1>7, <1>9, SMTT(60) DEF HS_Inv

(* An open import has the parser. *)
LEMMA OpenImport ==
    ASSUME HS_Inv, NEW c \in Clients, req[c].state = "importing", main = Idle \/ main = At("finish", c)
    PROVE  Open(c) /\ StreamOK(c) /\ req[c].graph \in Graphs
BY Steps, Importing DEF HS_Inv, Streams, Open

LEMMA EndOfFileStep ==
    ASSUME HS_Inv, NEW c \in Clients, EndOfFile(c)
    PROVE  HS_Inv'
<1>1. /\ main = Idle /\ req[c].state = "importing" /\ req[c].body = 0
      /\ main' = At("finish", c) /\ UNCHANGED <<req, queue, stream, db, cache>>
  BY DEF EndOfFile
<1>2. StreamOK(c) /\ Open(c)
  BY <1>1, OpenImport, SMTT(60)
<1>3. StreamOK(c)'
  BY <1>1, <1>2 DEF StreamOK, Read
<1>4. Types'
  BY <1>1, SMTT(60) DEF HS_Inv, Types, At
<1> QED
  BY <1>1, <1>3, <1>4, ImportGoesOn

LEMMA WatchdogStep ==
    ASSUME HS_Inv, NEW c \in Clients, Watchdog(c)
    PROVE  HS_Inv'
<1>1. /\ main = Idle /\ req[c].state = "importing" /\ Types
      /\ main' = At("finish", c) /\ UNCHANGED <<queue, stream, db, cache>>
  BY DEF HS_Inv, Watchdog
<1> DEFINE new == [req[c] EXCEPT !.failed = TRUE]
<1>2. /\ new \in Requests /\ new.state = "importing" /\ new.kind = req[c].kind /\ new.graph = req[c].graph
      /\ new.length = req[c].length /\ new.left = req[c].left
      /\ new.sends = req[c].sends /\ new.body = req[c].body /\ new.cut = req[c].cut /\ new.failed = TRUE
  BY <1>1, RequestType, ZenonT(60) DEF Requests
<1>3. req' = [req EXCEPT ![c] = new]
  BY <1>1 DEF Watchdog, Types
<1> HIDE DEF new
<1>4. req' \in [Clients -> Requests] /\ req'[c] = new /\ \A d \in Clients : d # c => req'[d] = req[d]
  BY <1>1, <1>2, <1>3 DEF Types
<1>5. StreamOK(c) /\ Open(c)
  BY <1>1, OpenImport
<1>6. StreamOK(c)'
  BY <1>1, <1>2, <1>4, <1>5 DEF StreamOK, Read
<1>7. Types'
  BY <1>1, <1>4 DEF Types, At
<1> QED
  BY <1>1, <1>2, <1>4, <1>6, <1>7, ImportGoesOn

(* n more parts of the body of c. *)
More(c, n) == {Part(c, req[c].sends - req[c].body + i) : i \in 1 .. n}

(* What is read is a part of what is sent, and all of it at the end of the *)
(* body or of what the client sends.                                       *)
LEMMA ReadIsSent ==
    ASSUME NEW c \in Clients, req[c] \in Requests, req[c].body <= req[c].sends,
           req[c].left = req[c].length - (req[c].sends - req[c].body)
    PROVE  /\ Read(c) \subseteq Sent(c)
           /\ req[c].left = 0 \/ req[c].body = 0 => Sent(c) \subseteq Read(c)
<1>1. /\ req[c].sends \in Nat /\ req[c].body \in Nat /\ req[c].length \in Nat /\ req[c].left \in Nat
  BY HttpServerAssumption DEF Requests
<1>2. Read(c) \subseteq Sent(c)
  BY <1>1 DEF Read, Sent, Part
<1>3. ASSUME req[c].left = 0 \/ req[c].body = 0, NEW x \in Sent(c) PROVE x \in Read(c)
  <2>1. PICK i \in 1 .. req[c].sends : x = Part(c, i)
    BY DEF Sent
  <2>2. PICK j \in 1 .. req[c].length : x = Part(c, j)
    BY DEF Sent
  <2>3. i = j
    BY <2>1, <2>2 DEF Part
  <2>4. i \in 1 .. req[c].sends - req[c].body
    BY <1>1, <1>3, <2>1, <2>2, <2>3, SMTT(60)
  <2> QED
    BY <2>1, <2>4 DEF Read
<1> QED
  BY <1>2, <1>3

LEMMA ReceiveStep ==
    ASSUME HS_Inv, NEW c \in Clients, Receive(c)
    PROVE  HS_Inv'
<1>1. PICK n \in 1 .. req[c].body :
        /\ n <= req[c].left
        /\ req' = [req EXCEPT ![c].left = @ - n, ![c].body = @ - n]
        /\ Parsed(More(c, n))
        /\ main' = IF req[c].left = n THEN At("finish", c) ELSE Idle
  BY Zenon DEF Receive, More
<1>2. main = Idle /\ req[c].state = "importing" /\ Types /\ UNCHANGED <<queue, cache>>
  BY SMTT(60) DEF HS_Inv, Receive
<1>3. StreamOK(c) /\ Open(c) /\ req[c].graph \in Graphs
  BY <1>2, OpenImport
<1> DEFINE new == [req[c] EXCEPT !.left = req[c].left - n, !.body = req[c].body - n]
           g == req[c].graph
<1>4. /\ req[c] \in Requests
      /\ req[c].sends \in 0 .. MaxLength /\ req[c].body \in 0 .. MaxLength
      /\ req[c].length \in 0 .. MaxLength /\ req[c].left \in 0 .. MaxLength
  BY <1>2, RequestType DEF Requests
<1>5. n \in Nat /\ req[c].left - n \in 0 .. MaxLength /\ req[c].body - n \in 0 .. MaxLength
  BY <1>1, <1>4, HttpServerAssumption
<1>6. /\ new \in Requests /\ new.state = req[c].state /\ new.kind = req[c].kind /\ new.graph = g
      /\ new.length = req[c].length /\ new.left = req[c].left - n
      /\ new.sends = req[c].sends /\ new.body = req[c].body - n /\ new.cut = req[c].cut
  BY <1>4, <1>5, Zenon DEF Requests
<1>7. req' = [req EXCEPT ![c] = new]
  BY <1>1, <1>2, Zenon DEF Types
<1> HIDE DEF new
<1>8. req' \in [Clients -> Requests] /\ req'[c] = new /\ \A d \in Clients : d # c => req'[d] = req[d]
  BY <1>2, <1>6, <1>7, SMTT(60) DEF Types
<1>9. /\ stream.graph = g /\ req[c].body <= req[c].sends
      /\ req[c].left = req[c].length - (req[c].sends - req[c].body)
      /\ stream.items \cup db[g] \subseteq Read(c)
      /\ req[c].cut \/ Read(c) \subseteq stream.items \cup db[g]
  BY <1>3 DEF StreamOK
<1>10. More(c, n) \subseteq Items
  BY <1>1, <1>4, <1>5, <1>9, HttpServerAssumption DEF More, Part, Items
<1>11. Read(c)' = Read(c) \cup More(c, n)
  <2>1. Read(c)' = {Part(c, i) : i \in 1 .. (req[c].sends - req[c].body) + n}
    BY <1>1, <1>4, <1>5, <1>6, <1>8, SMTT(60) DEF Read, Part
  <2>2. ASSUME NEW i \in 1 .. (req[c].sends - req[c].body) + n
        PROVE  Part(c, i) \in Read(c) \cup More(c, n)
    <3>1. CASE i <= req[c].sends - req[c].body
      BY <1>4, <3>1 DEF Read
    <3>2. CASE i > req[c].sends - req[c].body
      <4>1. PICK j \in 1 .. n : i = req[c].sends - req[c].body + j
        <5>1. i - (req[c].sends - req[c].body) \in 1 .. n
          BY <1>4, <1>5, <3>2, SMTT(60)
        <5> QED
          BY <1>4, <5>1
      <4> QED
        BY <4>1 DEF More
    <3> QED
      BY <1>4, <3>1, <3>2
  <2>3. Read(c) \cup More(c, n) \subseteq {Part(c, i) : i \in 1 .. (req[c].sends - req[c].body) + n}
    BY <1>4, <1>5, <1>9 DEF Read, More
  <2> QED
    BY <2>1, <2>2, <2>3
<1>12. /\ stream' \in [graph : Graphs \cup {None}, items : SUBSET Items] /\ stream'.graph = g
       /\ db' \in [Graphs -> SUBSET Items] /\ \A h \in Graphs : h # g => db'[h] = db[h]
       /\ stream'.items \cup db'[g] = stream.items \cup db[g] \cup More(c, n)
  <2> DEFINE all == [stream EXCEPT !.items = @ \cup More(c, n)]
  <2>1. /\ all \in [graph : Graphs \cup {None}, items : SUBSET Items]
        /\ all.graph = g /\ all.items = stream.items \cup More(c, n)
    BY <1>2, <1>9, <1>10 DEF Types
  <2>2. CASE stream' = all /\ db' = db
    BY <1>2, <2>1, <2>2 DEF Types
  <2>3. CASE stream' = [stream EXCEPT !.items = {}] /\ db' = Stored(all)
    <3> HIDE DEF all
    <3>1. db' = [db EXCEPT ![g] = db[g] \cup all.items]
      BY <1>2, <1>3, <2>1, <2>3 DEF Stored, Types
    <3>2. stream' \in [graph : Graphs \cup {None}, items : SUBSET Items] /\ stream'.graph = g /\ stream'.items = {}
      BY <1>2, <1>9, <2>3, ZenonT(60) DEF Types
    <3> QED
      BY <1>2, <1>3, <2>1, <3>1, <3>2 DEF Types
  <2> QED
    BY <1>1, <2>2, <2>3 DEF Parsed
<1>13. Types'
  BY <1>1, <1>2, <1>8, <1>12, SMTT(60) DEF Types, At
<1>14. StreamOK(c)'
  <2>1. /\ req'[c].body <= req'[c].sends
        /\ req'[c].left = req'[c].length - (req'[c].sends - req'[c].body)
    BY <1>4, <1>5, <1>6, <1>8, <1>9, SMTT(60)
  <2>2. /\ (stream.items \cup db[req[c].graph])' \subseteq Read(c)'
        /\ req'[c].cut \/ Read(c)' \subseteq (stream.items \cup db[req[c].graph])'
    BY <1>6, <1>8, <1>9, <1>11, <1>12
  <2> QED
    BY <1>6, <1>8, <1>12, <2>1, <2>2, SMTT(60) DEF StreamOK
<1>15. \/ main' = Idle
       \/ main' = At("finish", c) /\ req'[c].left = 0
  BY <1>1, <1>4, <1>6, <1>8
<1> QED
  BY <1>2, <1>6, <1>8, <1>12, <1>13, <1>14, <1>15, ImportGoesOn

LEMMA PutFinishedStep ==
    ASSUME HS_Inv, NEW c \in Clients, PutFinished(c)
    PROVE  HS_Inv'
<1> DEFINE g == req[c].graph
<1>1. /\ Types /\ main = At("finish", c) /\ main' = At("flush", c) /\ UNCHANGED <<req, queue, cache>>
      /\ db' = Stored(stream) /\ stream' = NoStream
  BY SMTT(60) DEF HS_Inv, PutFinished
<1>2. req[c].state = "importing" /\ (req[c].failed \/ req[c].left = 0 \/ req[c].body = 0)
  BY <1>1, Steps DEF HS_Inv, MainOK
<1>3. StreamOK(c) /\ Open(c) /\ g \in Graphs
  BY <1>1, <1>2, OpenImport
<1>4. AtHead(c) /\ \A d \in Clients : req[d].state = "importing" => d = c
  BY <1>2, Importing
<1>5. /\ stream.graph = g
      /\ stream.items \cup db[g] \subseteq Read(c)
      /\ req[c].cut \/ Read(c) \subseteq stream.items \cup db[g]
  BY <1>3, SMTT(60) DEF StreamOK
<1>6. Read(c) \subseteq Sent(c) /\ (req[c].failed \/ Sent(c) \subseteq Read(c))
  BY <1>1, <1>2, <1>3, RequestType, ReadIsSent DEF StreamOK
<1>7. db' \in [Graphs -> SUBSET Items] /\ db'[g] = stream.items \cup db[g]
  BY <1>1, <1>3, <1>5, SMTT(60) DEF Stored, Types
<1>8. Types'
  BY <1>1, <1>7, SMTT(60) DEF Types, At, NoStream
<1>9. QueueOK'
  BY <1>1, SMTT(60) DEF HS_Inv, QueueOK, AtHead
<1>10. MainOK'
  BY <1>1, <1>4, Steps, SMTT(60) DEF MainOK, AtHead
<1>11. Streams'
  BY <1>1, <1>4, SMTT(60) DEF Streams, StreamOK, Open
<1>12. PutReplacesGraph'
  <2> SUFFICES ASSUME NEW d \in Clients, main' = At("flush", d), ~req'[d].failed
               PROVE  (/\ db[req[d].graph] \subseteq Sent(d)
                       /\ req[d].cut \/ Sent(d) \subseteq db[req[d].graph])'
    BY DEF PutReplacesGraph
  <2>1. d = c
    BY <1>1, Steps
  <2>2. Sent(c)' = Sent(c)
    BY <1>1 DEF Sent
  <2> QED
    BY <1>1, <1>5, <1>6, <1>7, <2>1, <2>2, SMTT(60)
<1>13. Fresh'
  BY <1>1, Steps, SMTT(60) DEF Fresh, Changing
<1> QED
  BY <1>8, <1>9, <1>10, <1>11, <1>12, <1>13 DEF HS_Inv
-----------------------------------------------------------------------------
(* Request r is as far as s. *)
SameRequest(r, s) ==
    /\ r.state = s.state /\ r.kind = s.kind /\ r.graph = s.graph
    /\ r.length = s.length /\ r.left = s.left /\ r.sends = s.sends /\ r.body = s.body /\ r.cut = s.cut

(* QueueOK if requests keep what it speaks of, or get their response. *)
LEMMA QueueKept ==
    ASSUME HS_Inv, UNCHANGED queue,
           \A i \in 1 .. Len(queue) : SameRequest(req'[queue[i]], req[queue[i]]),
           \A d \in Clients : SameRequest(req'[d], req[d]) \/ req'[d] = Closed
    PROVE  QueueOK'
<1>1. \A i \in 1 .. Len(queue) :
         LET r == req'[queue[i]]
         IN  /\ r.graph \in Graphs
             /\ \/ r.kind \in {"put", "update"} /\ r.state = "queued"
                \/ r.kind = "put" /\ r.state = "importing" /\ i = 1
             /\ r.state = "queued" => r.body = r.sends
  <2> SUFFICES ASSUME NEW i \in 1 .. Len(queue)
               PROVE  LET r == req'[queue[i]]
                      IN  /\ r.graph \in Graphs
                          /\ \/ r.kind \in {"put", "update"} /\ r.state = "queued"
                             \/ r.kind = "put" /\ r.state = "importing" /\ i = 1
                          /\ r.state = "queued" => r.body = r.sends
    BY SMTT(60)
  <2>1. LET r == req[queue[i]]
        IN  /\ r.graph \in Graphs
            /\ \/ r.kind \in {"put", "update"} /\ r.state = "queued"
               \/ r.kind = "put" /\ r.state = "importing" /\ i = 1
            /\ r.state = "queued" => r.body = r.sends
    BY SMTT(60) DEF HS_Inv, QueueOK
  <2>2. SameRequest(req'[queue[i]], req[queue[i]])
    BY SMTT(60)
  <2> QED
    BY <2>1, <2>2, ZenonT(60) DEF SameRequest
<1>2. ASSUME NEW d \in Clients
      PROVE  /\ req'[d].state = "importing" => AtHead(d)'
             /\ req'[d].state = "new" => req'[d].body = req'[d].sends
             /\ req'[d].state \in {"lookup", "fetch", "store"} => req'[d].graph \in Graphs
  BY ClosedType DEF HS_Inv, QueueOK, SameRequest, AtHead
<1> QED
  BY <1>1, <1>2, ZenonT(60) DEF HS_Inv, QueueOK

LEMMA FlushStep ==
    ASSUME HS_Inv, Flush
    PROVE  HS_Inv'
<1> DEFINE c == main.client
           flushed == [d \in Clients |-> [req[d] EXCEPT !.recent = FALSE]]
<1>1. /\ Types /\ main.at = "flush" /\ cache' = [g \in Graphs |-> NoEntry]
      /\ UNCHANGED <<queue, stream, db>>
      /\ IF req[c].kind = "delete" THEN main' = Idle /\ req' = [flushed EXCEPT ![c] = Closed]
                                   ELSE main' = At("remove", c) /\ req' = flushed
  BY DEF HS_Inv, Flush
<1>2. c \in Clients /\ main = At("flush", c)
  BY <1>1, Steps DEF Types, At
<1> HIDE DEF c
<1>3. \/ AtHead(c)
      \/ req[c].state = "working" /\ (req[c].kind = "delete" \/ queue = <<>>)
  BY <1>1 DEF HS_Inv, MainOK, c
<1>4. ASSUME NEW d \in Clients
      PROVE  flushed[d] \in Requests /\ flushed[d].recent = FALSE /\ SameRequest(flushed[d], req[d])
  <2>1. req[d] \in Requests /\ flushed[d] = [req[d] EXCEPT !.recent = FALSE]
    BY <1>1, RequestType
  <2> QED
    BY <2>1, Zenon DEF Requests, SameRequest
<1>5. flushed \in [Clients -> Requests]
  BY <1>4, Zenon
<1> HIDE DEF flushed
<1>6. \A i \in 1 .. Len(queue) : queue[i] \in Clients
  BY <1>1, ElementOfSeq, Zenon DEF Types
<1>7. req' \in [Clients -> Requests] /\ \A d \in Clients : ~req'[d].recent
  BY <1>1, <1>2, <1>4, <1>5, ClosedType, ZenonT(60)
<1>8. Types'
  <2>1. cache' \in [Graphs -> Entries]
    BY <1>1 DEF NoEntry, Entries
  <2>2. main' \in [at : {"start", "finish", "flush", "remove"}, client : Clients] \cup {Idle}
    BY <1>1, <1>2 DEF At
  <2> QED
    BY <1>1, <1>7, <2>1, <2>2 DEF Types
<1>9. Fresh'
  BY <1>1, <1>7 DEF Fresh, NoEntry
<1>10. \A d \in Clients : AtHead(d)' = AtHead(d)
  BY <1>1 DEF AtHead
<1>11. CASE req[c].kind = "delete"
  <2>1. ~AtHead(c) /\ req[c].state = "working"
    <3>1. AtHead(c) => 1 \in 1 .. Len(queue) /\ queue[1] = c
      BY <1>1 DEF AtHead, Types
    <3> QED
      BY <1>3, <1>11, <3>1 DEF HS_Inv, QueueOK
  <2>2. main' = Idle /\ req' = [flushed EXCEPT ![c] = Closed]
    BY <1>1, <1>11
  <2>3. req'[c] = Closed /\ \A d \in Clients : d # c => req'[d] = flushed[d]
    BY <1>2, <1>5, <2>2, SMTT(60)
  <2>4. \A i \in 1 .. Len(queue) : queue[i] # c
    BY <1>2, <2>1, SMTT(60) DEF HS_Inv, QueueOK
  <2>5. QueueOK'
    <3>1. \A i \in 1 .. Len(queue) : SameRequest(req'[queue[i]], req[queue[i]])
      BY <1>4, <1>6, <2>3, <2>4, Zenon
    <3>2. \A d \in Clients : SameRequest(req'[d], req[d]) \/ req'[d] = Closed
      BY <1>4, <2>3, Zenon
    <3> QED
      BY <1>1, <3>1, <3>2, QueueKept
  <2>6. MainOK'
    BY <2>2, Steps DEF MainOK
  <2>7. \A d \in Clients : Open(d)' => d # c /\ Open(d)
    <3> SUFFICES ASSUME NEW d \in Clients, req'[d].state = "importing"
                 PROVE  d # c /\ Open(d)
      BY DEF Open
    <3>1. d # c
      BY <2>3, ClosedType
    <3>2. req[d].state = "importing"
      BY <1>4, <2>3, <3>1, ZenonT(60) DEF SameRequest
    <3> QED
      BY <1>2, <3>1, <3>2, Steps DEF Open
  <2>8. Streams'
    <3> SUFFICES ASSUME NEW d \in Clients, Open(d)' PROVE StreamOK(d)'
      BY DEF Streams, StreamOK
    <3>1. StreamOK(d) /\ Open(d) /\ req'[d] = flushed[d]
      BY <2>3, <2>7 DEF HS_Inv, Streams
    <3>2. Read(d)' = Read(d)
      BY <1>4, <3>1, Zenon DEF Read, SameRequest
    <3>3. SameRequest(req'[d], req[d])
      BY <1>4, <3>1, ZenonT(60)
    <3>4. req[d].cut \/ Read(d) \subseteq stream.items \cup db[req[d].graph]
      BY <3>1, SMTT(60) DEF StreamOK
    <3>5. (req[d].cut \/ Read(d) \subseteq stream.items \cup db[req[d].graph])'
      BY <1>1, <3>2, <3>3, <3>4, SMTT(60) DEF SameRequest
    <3> QED
      BY <1>1, <3>1, <3>2, <3>3, <3>5, Zenon DEF StreamOK, SameRequest
  <2>9. PutReplacesGraph'
    BY <2>2, Steps DEF PutReplacesGraph
  <2> QED
    BY <1>8, <1>9, <2>5, <2>6, <2>8, <2>9 DEF HS_Inv
<1>12. CASE req[c].kind # "delete"
  <2>1. main' = At("remove", c) /\ req' = flushed
    BY <1>1, <1>12
  <2>2. QueueOK'
    BY <1>1, <1>4, <1>6, <2>1, QueueKept, ZenonT(60)
  <2>3. MainOK'
    <3>1. main'.at = "remove" /\ main'.client = c
      BY <2>1, Steps, SMTT(60)
    <3>2. AtHead(c) => Len(queue') > 0 /\ queue'[1] = c
      BY <1>1 DEF AtHead
    <3>3. req'[c].state = req[c].state
      BY <1>2, <1>4, <2>1, Zenon DEF SameRequest
    <3> QED
      BY <1>1, <1>3, <1>12, <3>1, <3>2, <3>3 DEF MainOK, AtHead
  <2>4. \A d \in Clients : ~Open(d)'
    <3> SUFFICES ASSUME NEW d \in Clients, req[d].state = "importing" PROVE d = c
      BY <1>4, <2>1, Zenon DEF Open, SameRequest
    <3>1. AtHead(d) /\ queue # <<>> /\ \A e \in Clients : AtHead(e) => e = d
      BY Importing
    <3> QED
      BY <1>2, <1>3, <1>12, <3>1
  <2>5. Streams'
    BY <2>4 DEF Streams, StreamOK
  <2>6. PutReplacesGraph'
    BY <2>1, Steps DEF PutReplacesGraph
  <2> QED
    BY <1>8, <1>9, <2>2, <2>3, <2>5, <2>6 DEF HS_Inv
<1> QED
  BY <1>11, <1>12
-----------------------------------------------------------------------------
LEMMA WithoutHead ==
    ASSUME NEW q \in Seq(Clients), Len(q) > 0
    PROVE  /\ Without(q, q[1]) \in Seq(Clients) /\ Len(Without(q, q[1])) = Len(q) - 1
           /\ \A i \in 1 .. Len(q) - 1 : Without(q, q[1])[i] = q[i + 1]
<1> DEFINE first == CHOOSE i \in 1 .. Len(q) : q[i] = q[1] /\ \A j \in 1 .. i - 1 : q[j] # q[1]
<1>1. Len(q) \in Nat /\ 1 \in 1 .. Len(q)
  BY LenProperties
<1>2. 1 \in 1 .. Len(q) /\ q[1] = q[1] /\ \A j \in 1 .. 1 - 1 : q[j] # q[1]
  BY <1>1
<1>3. first \in 1 .. Len(q) /\ \A j \in 1 .. first - 1 : q[j] # q[1]
  BY <1>2
<1> HIDE DEF first
<1>4. first = 1
  <2>1. first # 1 => 1 \in 1 .. first - 1
    BY <1>1, <1>3, SMTT(60)
  <2> QED
    BY <1>3, <2>1
<1>5. Without(q, q[1]) = SubSeq(q, 1, first - 1) \o SubSeq(q, first + 1, Len(q))
  BY <1>1, Zenon DEF Without, first
<1>6. SubSeq(q, 1, 0) = <<>>
  BY <1>1, SubSeqEmpty
<1>7. /\ SubSeq(q, 2, Len(q)) \in Seq(Clients) /\ Len(SubSeq(q, 2, Len(q))) = Len(q) - 1
      /\ \A i \in 1 .. Len(q) - 1 : SubSeq(q, 2, Len(q))[i] = q[i + 1]
  <2>1. Tail(q) = SubSeq(q, 2, Len(q))
    BY <1>1, TailIsSubSeq, EmptySeq
  <2>2. q # <<>>
    BY EmptySeq
  <2> QED
    BY <1>1, <2>1, <2>2, HeadTailProperties, Zenon
<1>8. <<>> \o SubSeq(q, 2, Len(q)) = SubSeq(q, 2, Len(q))
  BY <1>7, ConcatEmptySeq
<1>9. Without(q, q[1]) = SubSeq(q, 2, Len(q))
  BY <1>4, <1>5, <1>6, <1>8, SMTT(60)
<1> QED
  BY <1>7, <1>9

(* What is left of the queue when the main thread removes its client. *)
LEMMA Removing ==
    ASSUME HS_Inv, main.at = "remove"
    PROVE  LET q == Without(queue, main.client)
           IN  /\ q \in Seq(Clients)
               /\ \A i \in 1 .. Len(q) : i + 1 \in 1 .. Len(queue) /\ q[i] = queue[i + 1] /\ q[i] # main.client
<1>1. queue \in Seq(Clients) /\ Len(queue) \in Nat
  BY LenProperties DEF HS_Inv, Types
<1>2. CASE AtHead(main.client)
  <2>1. Len(queue) > 0 /\ queue[1] = main.client
    BY <1>2 DEF AtHead
  <2>2. 1 \in 1 .. Len(queue) /\ \A i \in 1 .. Len(queue) - 1 : i + 1 \in 1 .. Len(queue) /\ i + 1 # 1
    BY <1>1, <2>1
  <2>3. \A i \in 1 .. Len(queue) - 1 : queue[i + 1] # main.client
    BY <2>1, <2>2 DEF HS_Inv, QueueOK
  <2> QED
    BY <1>1, <2>1, <2>2, <2>3, WithoutHead, SMTT(60)
<1>3. CASE queue = <<>>
  <2>1. Without(queue, main.client) = <<>> /\ Len(<<>>) = 0
    BY <1>3 DEF Without
  <2> QED
    BY <2>1
<1> QED
  BY <1>2, <1>3 DEF HS_Inv, MainOK

LEMMA QueueRemoveStep ==
    ASSUME HS_Inv, QueueRemove
    PROVE  HS_Inv'
<1> DEFINE c == main.client
           gone == [req[c] EXCEPT !.state = "replying"]
           removed == [req EXCEPT ![c] = gone]
<1>1. /\ Types /\ main.at = "remove" /\ queue' = Without(queue, c)
      /\ UNCHANGED <<stream, db, cache>>
      /\ IF queue' = <<>> THEN main' = Idle /\ req' = Replied(removed)
                          ELSE main' = At("start", Head(queue')) /\ req' = removed
  BY DEF HS_Inv, QueueRemove
<1>2. c \in Clients /\ main = At("remove", c)
  BY <1>1, Steps DEF Types, At
<1>3. /\ queue' \in Seq(Clients)
      /\ \A i \in 1 .. Len(queue') : i + 1 \in 1 .. Len(queue) /\ queue'[i] = queue[i + 1] /\ queue'[i] # c
  BY <1>1, Removing
<1>4. gone \in Requests /\ gone.state = "replying"
  <2>1. req[c] \in Requests
    BY <1>1, <1>2, RequestType, SMTT(60)
  <2> QED
    BY <2>1 DEF Requests
<1> HIDE DEF gone
<1>5. /\ removed \in [Clients -> Requests] /\ removed[c] = gone
      /\ \A d \in Clients : d # c => removed[d] = req[d]
  BY <1>1, <1>2, <1>4 DEF Types
<1> HIDE DEF removed
<1>6. /\ req' \in [Clients -> Requests]
      /\ \A d \in Clients : req'[d] = Closed \/ req'[d] = removed[d]
  BY <1>1, <1>5, ClosedType DEF Replied
<1>7. \A d \in Clients : req'[d].state \in {"done", "replying"} \/ (d # c /\ req'[d] = req[d])
  <2> SUFFICES ASSUME NEW d \in Clients
               PROVE  req'[d].state \in {"done", "replying"} \/ (d # c /\ req'[d] = req[d])
    OBVIOUS
  <2> HIDE DEF c
  <2>1. CASE req'[d] = Closed
    BY <2>1, ClosedType
  <2>2. CASE req'[d] = removed[d] /\ d = c
    BY <1>4, <1>5, <2>2
  <2>3. CASE req'[d] = removed[d] /\ d # c
    BY <1>5, <2>3
  <2> QED
    BY <1>6, <2>1, <2>2, <2>3
<1>8. \A d \in Clients : req[d].state = "importing" => d = c
  <2> SUFFICES ASSUME NEW d \in Clients, req[d].state = "importing" PROVE d = c
    OBVIOUS
  <2>1. AtHead(d) /\ queue # <<>> /\ \A e \in Clients : AtHead(e) => e = d
    BY Importing
  <2>2. AtHead(c) \/ queue = <<>>
    BY <1>1 DEF HS_Inv, MainOK, c
  <2> QED
    BY <1>2, <2>1, <2>2
<1> HIDE DEF c
<1>9. \A d \in Clients : req'[d].state # "importing"
  BY <1>7, <1>8
<1>10. Len(queue) \in Nat /\ Len(queue') \in Nat /\ \A i \in 1 .. Len(queue') : queue'[i] \in Clients
  BY <1>1, <1>3, LenProperties, ElementOfSeq DEF Types
<1>11. queue' # <<>> => Len(queue') > 0 /\ 1 \in 1 .. Len(queue') /\ Head(queue') = queue'[1]
  BY <1>3, <1>10, EmptySeq
<1>12. \A i \in 1 .. Len(queue') : req'[queue'[i]] = req[queue'[i]]
  <2> SUFFICES ASSUME NEW i \in 1 .. Len(queue') PROVE req'[queue'[i]] = req[queue'[i]]
    OBVIOUS
  <2>1. queue' # <<>>
    BY <1>10, EmptySeq
  <2> QED
    BY <1>1, <1>3, <1>5, <1>10, <2>1
<1>13. \A i \in 1 .. Len(queue') :
         LET r == req[queue'[i]]
         IN  r.graph \in Graphs /\ r.kind \in {"put", "update"} /\ r.state = "queued" /\ r.body = r.sends
  <2> SUFFICES ASSUME NEW i \in 1 .. Len(queue')
               PROVE  LET r == req[queue'[i]]
                      IN  r.graph \in Graphs /\ r.kind \in {"put", "update"} /\ r.state = "queued" /\ r.body = r.sends
    OBVIOUS
  <2>1. i + 1 # 1 /\ i + 1 \in 1 .. Len(queue) /\ queue'[i] = queue[i + 1]
    BY <1>3, <1>10
  <2> QED
    BY <2>1 DEF HS_Inv, QueueOK
<1>14. Types'
  <2>1. main' \in [at : {"start", "finish", "flush", "remove"}, client : Clients] \cup {Idle}
    BY <1>1, <1>10, <1>11, SMTT(60) DEF At
  <2> QED
    BY <1>1, <1>3, <1>6, <2>1 DEF Types
<1>15. QueueOK'
  <2>1. \A i, j \in 1 .. Len(queue') : queue'[i] = queue'[j] => i = j
    <3> SUFFICES ASSUME NEW i \in 1 .. Len(queue'), NEW j \in 1 .. Len(queue'), queue'[i] = queue'[j]
                 PROVE  i = j
      OBVIOUS
    <3>1. i + 1 \in 1 .. Len(queue) /\ j + 1 \in 1 .. Len(queue) /\ queue[i + 1] = queue[j + 1]
      BY <1>3
    <3>2. i + 1 = j + 1
      BY <3>1 DEF HS_Inv, QueueOK
    <3> QED
      BY <1>10, <3>2
  <2>2. ASSUME NEW d \in Clients
        PROVE  /\ req'[d].state = "new" => req'[d].body = req'[d].sends
               /\ req'[d].state \in {"lookup", "fetch", "store"} => req'[d].graph \in Graphs
    BY <1>7 DEF HS_Inv, QueueOK
  <2> QED
    BY <1>9, <1>12, <1>13, <2>1, <2>2 DEF QueueOK
<1>16. MainOK'
  <2>1. CASE queue' = <<>>
    BY <1>1, <2>1, Steps DEF MainOK
  <2>2. CASE queue' # <<>>
    <3>1. main'.at = "start" /\ main'.client = queue'[1]
      BY <1>1, <1>11, <2>2, Steps
    <3>2. req'[queue'[1]].state = "queued"
      BY <1>11, <1>12, <1>13, <2>2
    <3> QED
      BY <1>11, <2>2, <3>1, <3>2 DEF MainOK, AtHead
  <2> QED
    BY <2>1, <2>2, SMTT(60)
<1>17. Streams'
  BY <1>9 DEF Streams, StreamOK, Open
<1>18. PutReplacesGraph'
  BY <1>1, Steps, SMTT(60) DEF PutReplacesGraph
<1>19. Fresh'
  <2>1. \A g \in Graphs : ~Changing(g)
    BY <1>1, <1>2, <1>8 DEF Changing, Open
  <2> QED
    BY <1>1, <1>7, <2>1, SMTT(60) DEF HS_Inv, Fresh, QueueOK
<1> QED
  BY <1>14, <1>15, <1>16, <1>17, <1>18, <1>19 DEF HS_Inv
-----------------------------------------------------------------------------
LEMMA Inductive ==
    ASSUME Disturbances = {}
    PROVE  /\ HS_Init => HS_Inv
           /\ HS_Inv /\ [HS_Next]_HS_vars => HS_Inv'
<1>1. HS_Init => HS_Inv
  <2> HAVE HS_Init
  <2>1. NoRequest \in Requests
    BY HttpServerAssumption, SMTT(60) DEF NoRequest, Requests
  <2>2. \A c \in Clients : req[c] = NoRequest /\ req[c].state = "new" /\ req[c].body = req[c].sends
    BY ZenonT(60) DEF HS_Init, NoRequest
  <2>3. Types
    <3>1. req \in [Clients -> Requests]
      BY <2>1 DEF HS_Init
    <3>2. queue \in Seq(Clients) /\ main = Idle
      BY SMTT(60) DEF HS_Init
    <3>3. stream \in [graph : Graphs \cup {None}, items : SUBSET Items]
      BY DEF HS_Init, NoStream
    <3>4. db \in [Graphs -> SUBSET Items] /\ cache \in [Graphs -> Entries]
      BY DEF HS_Init, NoEntry, Entries
    <3> QED
      BY <3>1, <3>2, <3>3, <3>4 DEF Types
  <2>4. QueueOK
    BY <2>2 DEF HS_Init, QueueOK
  <2>5. MainOK /\ PutReplacesGraph
    BY Steps, SMTT(60) DEF HS_Init, MainOK, PutReplacesGraph
  <2>6. Streams
    BY <2>2, SMTT(60) DEF Streams, StreamOK, Open
  <2>7. Fresh
    BY <2>2 DEF HS_Init, Fresh, NoEntry
  <2> QED
    BY <2>3, <2>4, <2>5, <2>6, <2>7 DEF HS_Inv
<1>2. HS_Inv /\ [HS_Next]_HS_vars => HS_Inv'
  <2> HAVE HS_Inv /\ [HS_Next]_HS_vars
  <2>1. ASSUME NEW c \in Clients, Request(c) PROVE HS_Inv'
    BY <2>1, PutRequestStep, UpdateRequestStep, QueryRequestStep, PostRequestStep, PostFailsStep,
       DeleteRequestStep, DeleteFailsStep DEF Request
  <2>2. ASSUME NEW c \in Clients, Handler(c) PROVE HS_Inv'
    BY <2>2, StartPutStep, StartFailsStep, StartUpdateStep, PutFinishedStep DEF Handler
  <2>3. ASSUME NEW c \in Clients, QueryThread(c) PROVE HS_Inv'
    BY <2>3, LookupStep, FetchStep, StoreStep DEF QueryThread
  <2>4. ASSUME NEW c \in Clients, Receive(c) \/ EndOfFile(c) \/ Watchdog(c) PROVE HS_Inv'
    BY <2>4, ReceiveStep, EndOfFileStep, WatchdogStep
  <2>5. CASE UNCHANGED HS_vars
    <3>1. UNCHANGED <<req, queue, main, stream, db, cache>>
      BY <2>5, SMTT(60) DEF HS_vars
    <3>2. Types' /\ MainOK'
      BY <3>1 DEF HS_Inv, Types, MainOK, AtHead
    <3>7. QueueOK'
      BY <3>1 DEF HS_Inv, QueueOK, AtHead
    <3>3. \A c \in Clients : Open(c)' = Open(c) /\ Read(c)' = Read(c) /\ Sent(c)' = Sent(c)
      BY <3>1, SMTT(60) DEF Open, Read, Sent
    <3>4. Streams'
      BY <3>1, <3>3 DEF HS_Inv, Streams, StreamOK
    <3>5. PutReplacesGraph'
      BY <3>1, <3>3, SMTT(60) DEF HS_Inv, PutReplacesGraph
    <3>6. Fresh'
      BY <3>1, ZenonT(60) DEF HS_Inv, Fresh, Changing, Open
    <3> QED
      BY <3>2, <3>4, <3>5, <3>6, <3>7 DEF HS_Inv
  <2> QED
    BY <2>1, <2>2, <2>3, <2>4, <2>5, FlushStep, QueueRemoveStep DEF HS_Next
<1> QED
  BY <1>1, <1>2

(* The parser belongs to the head of the queue. *)
LEMMA ParserOfTheHead ==
    ASSUME HS_Inv PROVE OneImport
<1> SUFFICES ASSUME NEW c \in Clients, req[c].state = "importing", main.at \in {"loop", "finish"}
             PROVE  /\ queue # <<>> /\ Head(queue) = c
                    /\ stream.graph = req[c].graph
                    /\ stream.items \subseteq Sent(c)
  BY DEF OneImport
<1>1. Open(c)
  BY Steps DEF Open
<1>2. /\ stream.graph = req[c].graph /\ req[c].body <= req[c].sends
      /\ req[c].left = req[c].length - (req[c].sends - req[c].body)
      /\ stream.items \subseteq Read(c)
  BY <1>1 DEF HS_Inv, Streams, StreamOK
<1>3. Read(c) \subseteq Sent(c)
  BY <1>2, ReadIsSent, RequestType DEF HS_Inv
<1>4. queue # <<>> /\ Head(queue) = c
  BY Importing DEF AtHead
<1> QED
  BY <1>2, <1>3, <1>4

(* A server whose failing backends change nothing, and that is sent no     *)
(* POST during an import, keeps imports apart: the one parser is at work   *)
(* on the graph and the data of the head of the queue, and a PUT that is   *)
(* not answered with an error leaves what its client sent, whatever        *)
(* requests come between the parts of its body.                            *)
THEOREM ImportsAreSeparate ==
    ASSUME Disturbances = {}
    PROVE  HS_Spec => []ImportsDoNotMix
<1>1. HS_Init => HS_Inv
  BY Inductive
<1>2. HS_Inv /\ [HS_Next]_HS_vars => HS_Inv'
  BY Inductive
<1>3. HS_Inv => ImportsDoNotMix
  BY ParserOfTheHead, SMTT(60) DEF HS_Inv, ImportsDoNotMix
<1> QED
  BY <1>1, <1>2, <1>3, PTL DEF HS_Spec

(* Under the same assumption an answer fetched since the last flush of the *)
(* bind cache is what the backends have, unless a change is under way.     *)
THEOREM CacheStaysCurrent ==
    ASSUME Disturbances = {}
    PROVE  HS_Spec => []CacheIsCurrent
<1>1. HS_Init => HS_Inv
  BY Inductive
<1>2. HS_Inv /\ [HS_Next]_HS_vars => HS_Inv'
  BY Inductive
<1>3. HS_Inv => CacheIsCurrent
  BY DEF HS_Inv, Fresh, Changing, Open, CacheIsCurrent
<1> QED
  BY <1>1, <1>2, <1>3, PTL DEF HS_Spec
=============================================================================
