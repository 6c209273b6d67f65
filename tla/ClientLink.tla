----------------------------- MODULE ClientLink -----------------------------
(***************************************************************************)
(* The link of a client process to the segments of a cluster:              *)
(* common/4s-client.c, as the threads of the HTTP server share it.         *)
(*                                                                         *)
(* A segment has a socket to its primary and may have one to a mirror.     *)
(* Messages carry no request number, so an answer is matched with a        *)
(* request by order alone.  A thread that writes a request therefore takes *)
(* the mutex of the segment and keeps it until it has read the answer, and *)
(* a call to several segments holds several mutexes.  Inserts have no      *)
(* answer.                                                                 *)
(*                                                                         *)
(* A call is one of                                                        *)
(*   query   fsp_bind_limit_many, fsp_resolve_all, ...: fsp_write to some  *)
(*           segments in ascending order, then read in ascending order     *)
(*   update  fsp_quad_import_commit_all, fsp_delete_model_all, ...: the    *)
(*           same with fsp_write_replica, to one segment or to all         *)
(*   insert  fsp_quad_import, fsp_res_import                               *)
(*   stop    fsp_stop_import_all: requests go out as servers get free      *)
(***************************************************************************)
EXTENDS Integers, Sequences, FiniteSets

CONSTANTS
    Threads, Nobody,
    NSegments,      \* link->segments
    Group,          \* the server of each segment (link->groups)
    Mirrored,       \* the segments that have a mirror
    QuerySets,      \* the sets of segments that queries go to
    Threshold,      \* requests a server works on in fsp_stop_import_all, 32
    MaxCalls,       \* bound on the calls of a thread
    MaxLost,        \* bound on the connections that are lost
    Disturbances    \* which connections may be lost, see MayLose

Segments == 0 .. NSegments - 1
Replicas == 1 .. 2
NoSocket == 0

ASSUME ClientLinkAssumption ==
    /\ Nobody \notin Threads
    /\ NSegments \in Nat \ {0} /\ Threshold \in Nat \ {0}
    /\ MaxCalls \in Nat /\ MaxLost \in Nat
    /\ DOMAIN Group = Segments
    /\ Mirrored \subseteq Segments
    /\ QuerySets \subseteq SUBSET Segments
    /\ Disturbances \subseteq {"primary", "stop"}

VARIABLES
    owner,      \* owner[s]: the thread that holds mutex[s]
    socks,      \* socks[s]: the replica that queries go to
    open,       \* open[s]: the replicas with a socket (socks1, socks2 # -1)
    peer,       \* peer[s][r]: the state of the connection
    wire,       \* wire[s][r]: requests the backend has not handled
    reply,      \* reply[s][r]: answers not read, as the threads that asked
    kind,       \* kind[t]: the call that thread t is in
    pass,       \* pass[t]: segments the writing loop has still to come to
    sock,       \* sock[t]: the socket fsp_write has looked up
    via,        \* via[t][s]: the socket the request to s was written to
    sent,       \* sent[t][s]: 0 no request yet, 1 waiting, 2 answered
    polled,     \* polled[t]: the segment that poll has returned
    done,       \* done[t]: answers fsp_stop_import_all has read,
    waiting,    \* waiting[t]: those it waits for,
    working,    \* working[t][g]: and how many of them from server g
    calls       \* calls[t]: calls begun

network == <<peer, wire, reply>>
link == <<owner, socks, open>>
count == <<done, waiting, working>>
local == <<kind, pass, sock, via, sent, polled, count, calls>>
vars == <<network, link, local>>

NoSegment == -1
NotSent == [s \in Segments |-> 0]
Servers == {Group[s] : s \in Segments}
NoWork == [g \in Servers |-> 0]

Init ==
    /\ owner = [s \in Segments |-> Nobody]
    /\ socks = [s \in Segments |-> 1]
    /\ open = [s \in Segments |-> IF s \in Mirrored THEN {1, 2} ELSE {1}]
    /\ peer = [s \in Segments |-> [r \in Replicas |-> IF r \in open[s] THEN "up" ELSE "closed"]]
    /\ wire = [s \in Segments |-> [r \in Replicas |-> <<>>]]
    /\ reply = [s \in Segments |-> [r \in Replicas |-> <<>>]]
    /\ kind = [t \in Threads |-> "idle"]
    /\ pass = [t \in Threads |-> {}]
    /\ sock = [t \in Threads |-> NoSocket]
    /\ via = [t \in Threads |-> [s \in Segments |-> NoSocket]]
    /\ sent = [t \in Threads |-> NotSent]
    /\ polled = [t \in Threads |-> NoSegment]
    /\ done = [t \in Threads |-> 0]
    /\ waiting = [t \in Threads |-> 0]
    /\ working = [t \in Threads |-> NoWork]
    /\ calls = [t \in Threads |-> 0]

(* The segment of S that a loop from 0 up comes to first. *)
First(s, S) == s \in S /\ \A x \in S : s <= x

Waiting(t) == {s \in Segments : sent[t][s] = 1}
AllUp == \A s \in Segments : \A r \in open[s] : peer[s][r] = "up"
PrimariesUp == \A s \in Mirrored : peer[s][1] = "up"
-----------------------------------------------------------------------------
(* Writing to a connection whose other end has gone succeeds once, and the *)
(* request is lost.                                                        *)
Writable(s, r) == peer[s][r] \in {"up", "gone"}

(* The message msg is written to the replicas R of segment s, and the      *)
(* sockets C are closed.                                                   *)
Written(s, R, C, msg) ==
    /\ wire' = [wire EXCEPT ![s] = [r \in Replicas |->
            IF r \in R /\ peer[s][r] = "up" THEN Append(@[r], msg) ELSE @[r]]]
    /\ peer' = [peer EXCEPT ![s] = [r \in Replicas |->
            IF r \in C THEN "closed" ELSE IF r \in R /\ @[r] = "gone" THEN "reset" ELSE @[r]]]
    /\ UNCHANGED reply

(* The replicas an update is written to: the mirror comes second, and only *)
(* if the first write succeeded.                                           *)
UpdateWrites(s) ==
    IF Writable(s, 1) THEN {r \in open[s] : Writable(s, r)} ELSE {}

Begin(t, k, S) ==
    /\ kind[t] = "idle" /\ calls[t] < MaxCalls
    /\ kind' = [kind EXCEPT ![t] = k]
    /\ pass' = [pass EXCEPT ![t] = S]
    /\ calls' = [calls EXCEPT ![t] = @ + 1]
    /\ UNCHANGED <<network, link, sock, via, sent, polled, count>>

BeginQuery(t) == \E S \in QuerySets : Begin(t, "query", S)
BeginUpdate(t) ==
    /\ PrimariesUp \/ "primary" \in Disturbances
    /\ \E S \in {Segments} \cup {{s} : s \in Segments} : Begin(t, "update", S)
BeginInsert(t) ==
    /\ PrimariesUp \/ "primary" \in Disturbances
    /\ \E s \in Segments : Begin(t, "insert", {s})
BeginStop(t) ==
    /\ PrimariesUp \/ "primary" \in Disturbances
    /\ AllUp \/ "stop" \in Disturbances
    /\ Begin(t, "stop", Segments)

(* fsp_write, before it takes the mutex. *)
LookUpSocket(t) ==
    /\ kind[t] = "query" /\ sock[t] = NoSocket
    /\ \E s \in pass[t] : First(s, pass[t]) /\ sock' = [sock EXCEPT ![t] = socks[s]]
    /\ UNCHANGED <<network, link, kind, pass, via, sent, polled, count, calls>>

(* fsp_write with the mutex: a write that fails is tried on the other      *)
(* replica, unless the socket that was looked up is no longer the one of   *)
(* the link.                                                               *)
WriteQuery(t) ==
    /\ kind[t] = "query" /\ sock[t] # NoSocket
    /\ \E s \in pass[t] :
       LET first == sock[t]
           other == 3 - first
           switch == ~Writable(s, first) /\ {1, 2} \subseteq open[s]
           used == IF Writable(s, first) THEN first
                   ELSE IF switch /\ Writable(s, other) THEN other ELSE NoSocket
           failed == IF Writable(s, first) THEN {}
                     ELSE {first} \cup (IF switch /\ used = NoSocket THEN {other} ELSE {})
       IN /\ First(s, pass[t]) /\ owner[s] = Nobody
          /\ owner' = [owner EXCEPT ![s] = t]
          /\ socks' = [socks EXCEPT ![s] = IF switch THEN other ELSE @]
          /\ open' = [open EXCEPT ![s] = IF switch THEN {other} ELSE @]
          /\ Written(s, {used}, failed, [from |-> t, of |-> kind[t]])
          /\ via' = [via EXCEPT ![t][s] = used]
          /\ sent' = [sent EXCEPT ![t][s] = 1]
          /\ pass' = [pass EXCEPT ![t] = @ \ {s}]
    /\ sock' = [sock EXCEPT ![t] = NoSocket]
    /\ UNCHANGED <<kind, polled, count, calls>>

(* fsp_write_replica for an update or an insert. *)
WriteUpdate(t) ==
    /\ kind[t] \in {"update", "insert"}
    /\ \E s \in pass[t] :
        /\ First(s, pass[t]) /\ owner[s] = Nobody
        /\ owner' = [owner EXCEPT ![s] = t]
        /\ Written(s, UpdateWrites(s), {}, [from |-> t, of |-> kind[t]])
        /\ sent' = [sent EXCEPT ![t][s] = 1]
        /\ pass' = [pass EXCEPT ![t] = @ \ {s}]
    /\ UNCHANGED <<socks, open, kind, sock, via, polled, count, calls>>

(* The end of fsp_quad_import and fsp_res_import. *)
InsertWritten(t) ==
    /\ kind[t] = "insert" /\ pass[t] = {}
    /\ owner' = [s \in Segments |-> IF s \in Waiting(t) THEN Nobody ELSE owner[s]]
    /\ kind' = [kind EXCEPT ![t] = "idle"]
    /\ sent' = [sent EXCEPT ![t] = NotSent]
    /\ UNCHANGED <<network, socks, open, pass, sock, via, polled, count, calls>>
-----------------------------------------------------------------------------
(* message_recv on replica r of segment s returns: with an answer, or with *)
(* NULL since the connection is down.                                      *)
Receivable(s, r) == reply[s][r] # <<>> \/ peer[s][r] # "up"

(* The answers on the replicas R of segment s are read, and the mutex is   *)
(* released.                                                               *)
Received(t, s, R) ==
    /\ \A r \in R : Receivable(s, r)
    /\ reply' = [reply EXCEPT ![s] = [r \in Replicas |->
            IF r \in R /\ @[r] # <<>> THEN Tail(@[r]) ELSE @[r]]]
    /\ owner' = [owner EXCEPT ![s] = Nobody]
    /\ sent' = [sent EXCEPT ![t][s] = 2]
    /\ UNCHANGED <<peer, wire, socks, open>>

\* Mutant: the mirror's answer is not read.
UpdateReadsPrimary(s) == {1}

(* The replicas message_recv_replica reads from. *)
UpdateReads(s) == open[s]

ReadAnswer(t) ==
    /\ kind[t] = "query" /\ pass[t] = {}
    /\ \E s \in Waiting(t) : First(s, Waiting(t)) /\ Received(t, s, {via[t][s]} \ {NoSocket})
    /\ UNCHANGED <<kind, pass, sock, via, polled, count, calls>>

ReadUpdateAnswer(t) ==
    /\ kind[t] = "update" /\ pass[t] = {}
    /\ \E s \in Waiting(t) : First(s, Waiting(t)) /\ Received(t, s, UpdateReads(s))
    /\ UNCHANGED <<kind, pass, sock, via, polled, count, calls>>

Return(t) ==
    /\ \/ kind[t] \in {"query", "update"} /\ pass[t] = {} /\ Waiting(t) = {}
       \/ kind[t] = "stop" /\ done[t] = NSegments
    /\ kind' = [kind EXCEPT ![t] = "idle"]
    /\ pass' = [pass EXCEPT ![t] = {}]
    /\ via' = [via EXCEPT ![t] = [s \in Segments |-> NoSocket]]
    /\ sent' = [sent EXCEPT ![t] = NotSent]
    /\ done' = [done EXCEPT ![t] = 0]
    /\ waiting' = [waiting EXCEPT ![t] = 0]
    /\ working' = [working EXCEPT ![t] = NoWork]
    /\ UNCHANGED <<network, link, sock, polled, calls>>
-----------------------------------------------------------------------------
(* The first segment from here on that fsp_stop_import_all may send to:    *)
(* one not sent to yet, on a server with fewer than Threshold requests.    *)
Eligible(t) ==
    {s \in pass[t] : sent[t][s] = 0 /\ working[t][Group[s]] < Threshold}

SendStop(t, s) ==
    /\ owner[s] = Nobody
    /\ owner' = [owner EXCEPT ![s] = t]
    /\ Written(s, UpdateWrites(s), {}, [from |-> t, of |-> kind[t]])
    /\ sent' = [sent EXCEPT ![t][s] = 1]
    /\ waiting' = [waiting EXCEPT ![t] = @ + 1]
    /\ working' = [working EXCEPT ![t][Group[s]] = @ + 1]
    /\ UNCHANGED <<socks, open, done>>

\* Mutant: the mutex is always waited for.
StopNextBlocking(t) ==
    /\ kind[t] = "stop" /\ polled[t] = NoSegment
    /\ \E s \in Eligible(t) :
        /\ First(s, Eligible(t))
        /\ SendStop(t, s)
        /\ pass' = [pass EXCEPT ![t] = {x \in @ : x > s}]
    /\ UNCHANGED <<kind, sock, via, polled, calls>>

(* One round of the sending loop.  The mutex is waited for only if no      *)
(* answer is outstanding; otherwise a busy segment is passed over.         *)
StopNext(t) ==
    /\ kind[t] = "stop" /\ polled[t] = NoSegment
    /\ \E s \in Eligible(t) :
        /\ First(s, Eligible(t))
        /\ \/ SendStop(t, s)
           \/ /\ waiting[t] # 0 /\ owner[s] # Nobody
              /\ UNCHANGED <<network, link, sent, count>>
        /\ pass' = [pass EXCEPT ![t] = {x \in @ : x > s}]
    /\ UNCHANGED <<kind, sock, via, polled, calls>>

\* Mutant: poll is asked about every segment.
ReadyAny(t) ==
    {s \in Segments : reply[s][socks[s]] # <<>> \/ peer[s][socks[s]] # "up"}

(* The segments poll reports: an answer to a request of this call, or a    *)
(* connection that is down, whatever was asked of poll.                    *)
Ready(t) ==
    {s \in Segments : \/ sent[t][s] = 1 /\ reply[s][socks[s]] # <<>>
                      \/ peer[s][socks[s]] # "up"}

(* fsp_wait_for_answers. *)
WaitForAnswers(t) ==
    /\ kind[t] = "stop" /\ done[t] # NSegments
    /\ polled[t] = NoSegment /\ Eligible(t) = {}
    /\ \E s \in Ready(t) : First(s, Ready(t)) /\ polled' = [polled EXCEPT ![t] = s]
    /\ UNCHANGED <<network, link, kind, pass, sock, via, sent, count, calls>>

(* The rest of the round; the next one starts at the first segment. *)
ReadStopAnswer(t) ==
    /\ polled[t] # NoSegment
    /\ LET s == polled[t]
       IN /\ Received(t, s, UpdateReads(s))
          /\ working' = [working EXCEPT ![t][Group[s]] = @ - 1]
    /\ done' = [done EXCEPT ![t] = @ + 1]
    /\ waiting' = [waiting EXCEPT ![t] = @ - 1]
    /\ polled' = [polled EXCEPT ![t] = NoSegment]
    /\ pass' = [pass EXCEPT ![t] = IF done[t] + 1 = NSegments THEN {} ELSE Segments]
    /\ UNCHANGED <<kind, sock, via, calls>>
-----------------------------------------------------------------------------
IsAnswered(req) == req.of # "insert"

(* The backend's child handles one request at a time, in order. *)
Serve(s, r) ==
    /\ peer[s][r] = "up" /\ wire[s][r] # <<>>
    /\ wire' = [wire EXCEPT ![s][r] = Tail(@)]
    /\ reply' = [reply EXCEPT ![s][r] =
            IF IsAnswered(Head(wire[s][r])) THEN Append(@, Head(wire[s][r]).from) ELSE @]
    /\ UNCHANGED <<peer, link, local>>

(* The connection of a primary that has a mirror is lost before or during  *)
(* a call that changes data only if "primary" is in Disturbances, and any  *)
(* connection before or during a call of fsp_stop_import_all only if       *)
(* "stop" is.                                                              *)
MayLose(s, r) ==
    /\ r = 1 /\ s \in Mirrored =>
        "primary" \in Disturbances \/ \A t \in Threads : kind[t] \in {"idle", "query"}
    /\ (\E t \in Threads : kind[t] = "stop") => "stop" \in Disturbances

(* The child dies.  Answers that have arrived can be read still, unless    *)
(* the connection was reset.                                               *)
Lose(s, r) ==
    /\ peer[s][r] = "up" /\ MayLose(s, r)
    /\ Cardinality({x \in Segments \X Replicas :
            x[2] \in open[x[1]] /\ peer[x[1]][x[2]] # "up"}) < MaxLost
    /\ wire' = [wire EXCEPT ![s][r] = <<>>]
    /\ \/ peer' = [peer EXCEPT ![s][r] = "gone"] /\ UNCHANGED reply
       \/ peer' = [peer EXCEPT ![s][r] = "reset"] /\ reply' = [reply EXCEPT ![s][r] = <<>>]
    /\ UNCHANGED <<link, local>>

BeginCall(t) == BeginQuery(t) \/ BeginUpdate(t) \/ BeginInsert(t) \/ BeginStop(t)

Step(t) ==
    \/ LookUpSocket(t) \/ WriteQuery(t) \/ ReadAnswer(t)
    \/ WriteUpdate(t) \/ ReadUpdateAnswer(t) \/ InsertWritten(t)
    \/ StopNext(t) \/ WaitForAnswers(t) \/ ReadStopAnswer(t)
    \/ Return(t)

Next ==
    \/ \E t \in Threads : BeginCall(t) \/ Step(t)
    \/ \E s \in Segments, r \in Replicas : Serve(s, r) \/ Lose(s, r)

(* A thread inside a call and a child with a request go on. *)
Fairness ==
    /\ \A t \in Threads : WF_vars(Step(t))
    /\ \A s \in Segments, r \in Replicas : WF_vars(Serve(s, r))

Spec == Init /\ [][Next]_vars /\ Fairness
-----------------------------------------------------------------------------
Kinds == {"query", "update", "insert", "stop"}
Requests == [from : Threads, of : Kinds]

(* Every variable has its type. *)
TypeOK ==
    /\ owner \in [Segments -> Threads \cup {Nobody}]
    /\ socks \in [Segments -> Replicas]
    /\ open \in [Segments -> SUBSET Replicas]
    /\ peer \in [Segments -> [Replicas -> {"up", "gone", "reset", "closed"}]]
    /\ wire \in [Segments -> [Replicas -> Seq(Requests)]]
    /\ reply \in [Segments -> [Replicas -> Seq(Threads)]]
    /\ kind \in [Threads -> Kinds \cup {"idle"}]
    /\ pass \in [Threads -> SUBSET Segments]
    /\ sock \in [Threads -> Replicas \cup {NoSocket}]
    /\ via \in [Threads -> [Segments -> Replicas \cup {NoSocket}]]
    /\ sent \in [Threads -> [Segments -> 0 .. 2]]
    /\ polled \in [Threads -> Segments \cup {NoSegment}]
    /\ done \in [Threads -> Nat]
    /\ waiting \in [Threads -> Int]
    /\ working \in [Threads -> [Servers -> Int]]
    /\ calls \in [Threads -> 0 .. MaxCalls]

(* The replicas of segment s that thread t is going to read an answer from. *)
Reads(t, s) ==
    CASE kind[t] = "query" -> {via[t][s]} \ {NoSocket}
      [] kind[t] \in {"update", "stop"} -> UpdateReads(s)
      [] OTHER -> {}

(* The requests on a connection that are still to be answered. *)
Due(s, r) == {i \in DOMAIN wire[s][r] : IsAnswered(wire[s][r][i])}

(* Answers are matched with requests by order alone.  On every live        *)
(* connection exactly one answer is due or waiting if a thread is going to *)
(* read there, and it is that thread's; nothing is due where nobody reads. *)
(* So a thread never reads another's answer and never waits for one that   *)
(* will not come.                                                          *)
WaitsAreAnswered ==
    \A s \in Segments, r \in Replicas : peer[s][r] = "up" =>
        IF owner[s] # Nobody /\ r \in Reads(owner[s], s)
        THEN \/ reply[s][r] = <<owner[s]>> /\ Due(s, r) = {}
             \/ /\ reply[s][r] = <<>>
                /\ \E i \in Due(s, r) : Due(s, r) = {i} /\ wire[s][r][i].from = owner[s]
        ELSE reply[s][r] = <<>> /\ Due(s, r) = {}

(* The mutex of a segment is held by exactly the thread that has written   *)
(* to it and not read the answer: no call returns with a mutex, and none   *)
(* is released by another thread's call.                                   *)
LocksBelongToCalls ==
    \A s \in Segments, t \in Threads :
        owner[s] = t <=> kind[t] # "idle" /\ sent[t][s] = 1

(* Every call returns, however calls to overlapping sets of segments and   *)
(* stopping imports interleave: the ascending order of the mutexes and the *)
(* trylock of fsp_stop_import_all leave no circle of waiting threads.      *)
CallsEnd == \A t \in Threads : kind[t] # "idle" ~> kind[t] = "idle"
=============================================================================
