------------------------- MODULE ClientCallProofs -------------------------
(***************************************************************************)
(* What the calls of the threads know of their connections, mutexes and    *)
(* answers, for any number of threads, segments, servers, mirrors, calls   *)
(* and lost connections of ClientLink.                                     *)
(*                                                                         *)
(* That fsp_stop_import_all releases only mutexes it holds rests on poll   *)
(* reporting only segments with an answer, and on its counters.            *)
(***************************************************************************)
EXTENDS ClientTypeProofs

Answered(t) == {s \in Segments : sent[t][s] = 2}

(* Where a call stands. *)
CallOK(t) ==
    /\ kind[t] = "idle" => sent[t] = NotSent
    /\ polled[t] # NoSegment => sent[t][polled[t]] = 1
    /\ kind[t] = "stop" => done[t] = Cardinality(Answered(t))
    /\ kind[t] # "stop" => done[t] = 0

Calls == \A t \in Threads : CallOK(t)

(* The part of TypeOK that Calls and LocksBelongToCalls speak of. *)
CallTypes ==
    /\ owner \in [Segments -> Threads \cup {Nobody}]
    /\ kind \in [Threads -> Kinds \cup {"idle"}]
    /\ sent \in [Threads -> [Segments -> 0 .. 2]]
    /\ polled \in [Threads -> Segments \cup {NoSegment}]
    /\ done \in [Threads -> Nat]

(* What the counters rest on: a finite set of segments. *)
Counting ==
    /\ Cardinality({}) = 0
    /\ \A S \in SUBSET Segments : Cardinality(S) = NSegments => S = Segments
    /\ \A S \in SUBSET Segments : \A s \in Segments \ S :
          Cardinality(S \cup {s}) = Cardinality(S) + 1

(* The inductive invariant. *)
LInv == TypeOK /\ Writers /\ Sockets /\ Connections /\ Calls /\ LocksBelongToCalls
-----------------------------------------------------------------------------
(* A step that changes no socket and loses no connection, and in which     *)
(* threads at most become idle.                                            *)
LEMMA ConnectionsKept ==
    ASSUME Sockets, Connections, TypeOK, UNCHANGED <<socks, open>>,
           \A x \in Threads : kind'[x] = kind[x] \/ kind'[x] = "idle",
           \A s \in Segments, r \in Replicas : peer[s][r] = "up" => peer'[s][r] = "up"
    PROVE  Sockets' /\ Connections'
<1> USE DEF link, local, network, count
<1>2. Sockets'
  BY DEF Sockets
<1>3. (\E x \in Threads : kind'[x] = "stop") => AllUp'
  <2>1. (\E x \in Threads : kind'[x] = "stop") => AllUp
    BY DEF Connections
  <2>2. socks \in [Segments -> Replicas] /\ open \in [Segments -> SUBSET Replicas]
    BY DEF TypeOK
  <2>3. AllUp => AllUp'
    BY <2>2 DEF AllUp
  <2> QED
    BY <2>1, <2>3
<1>4. (\E x \in Threads : kind'[x] \in {"update", "insert", "stop"}) => PrimariesUp'
  <2>1. (\E x \in Threads : kind'[x] \in {"update", "insert", "stop"}) => PrimariesUp
    BY DEF Connections
  <2>2. PrimariesUp => PrimariesUp'
    BY Constants DEF PrimariesUp, Replicas
  <2> QED
    BY <2>1, <2>2
<1> QED
  BY <1>2, <1>3, <1>4 DEF Connections

(* A call begins. *)
LEMMA CallConnections ==
    ASSUME Disturbances = {}, TypeOK, Sockets, Connections, NEW t \in Threads, BeginCall(t)
    PROVE  Sockets' /\ Connections'
<1> USE DEF link, local, network, count
<1>1. PICK k \in Kinds, S \in SUBSET Segments :
           /\ Begin(t, k, S)
           /\ k # "query" => PrimariesUp \/ "primary" \in Disturbances
           /\ k = "stop" => AllUp \/ "stop" \in Disturbances
  BY BeginAny
<1>2. UNCHANGED <<socks, open, peer>> /\ kind' = [kind EXCEPT ![t] = k]
  BY <1>1 DEF Begin
<1>3. Sockets'
  BY <1>2 DEF Sockets
<1>4. (\E x \in Threads : kind'[x] = "stop") => AllUp
  BY <1>1, <1>2 DEF Connections, TypeOK
<1>5. (\E x \in Threads : kind'[x] \in {"update", "insert", "stop"}) => PrimariesUp
  BY <1>1, <1>2 DEF Connections, TypeOK
<1>6. (AllUp => AllUp') /\ (PrimariesUp => PrimariesUp')
  BY <1>2 DEF AllUp, PrimariesUp
<1> QED
  BY <1>3, <1>4, <1>5, <1>6 DEF Connections

(* fsp_write of a query turns to the mirror only when both are open. *)
LEMMA QueryConnections ==
    ASSUME TypeOK, Sockets, Connections, NEW t \in Threads, WriteQuery(t)
    PROVE  Sockets' /\ Connections'
<1> USE DEF link, local, network, count
<1>1. PICK s \in Segments, u \in Replicas \cup {NoSocket}, C \in SUBSET Replicas,
           x \in Replicas, X \in SUBSET Replicas : QueryWrite(t, s, u, C, x, X)
  BY QueryWritten
<1>2. /\ kind' = kind /\ \E msg : Written(s, {u}, C, msg)
      /\ socks' = [socks EXCEPT ![s] = x] /\ open' = [open EXCEPT ![s] = X]
      /\ \A r \in C : ~ Writable(s, r)
      /\ (x = socks[s] /\ X = open[s]) \/ ({1, 2} \subseteq open[s] /\ X = {x})
  BY <1>1, Zenon DEF QueryWrite
<1>3. \A y \in Segments, r \in Replicas : peer[y][r] = "up" => peer'[y][r] = "up"
  BY <1>2, WrittenFacts, SMTT(20) DEF Writable
<1>0. socks \in [Segments -> Replicas] /\ open \in [Segments -> SUBSET Replicas]
  BY DEF TypeOK
<1>4. CASE x = socks[s] /\ X = open[s]
  <2>1. UNCHANGED <<socks, open>>
    BY <1>0, <1>2, <1>4
  <2> QED
    BY <1>2, <1>3, <2>1, ConnectionsKept
<1>5. CASE {1, 2} \subseteq open[s] /\ X = {x}
  <2>1. \A y \in Segments : open'[y] \subseteq open[y] /\ socks'[y] \in open'[y]
    BY <1>0, <1>2, <1>5 DEF Sockets, Replicas
  <2>2. \A y \in Segments : y \notin Mirrored => y # s
    BY <1>5 DEF Sockets
  <2>3. Sockets'
    BY <1>0, <1>2, <2>1, <2>2 DEF Sockets
  <2>4. AllUp => AllUp'
    BY <1>0, <1>3, <2>1 DEF AllUp
  <2>5. PrimariesUp => PrimariesUp'
    BY <1>3, Constants DEF PrimariesUp, Replicas
  <2> QED
    BY <1>2, <2>3, <2>4, <2>5 DEF Connections
<1> QED
  BY <1>2, <1>4, <1>5

(* A connection is lost where the code copes with it. *)
LEMMA LostConnections ==
    ASSUME Disturbances = {}, TypeOK, Sockets, Connections, NEW s \in Segments, NEW r \in Replicas, Lose(s, r)
    PROVE  Sockets' /\ Connections'
<1> USE DEF link, local, network, count
<1>1. UNCHANGED <<socks, open, kind>> /\ MayLose(s, r)
  BY DEF Lose
<1>2. ~ \E t \in Threads : kind[t] = "stop"
  BY <1>1 DEF MayLose
<1>3. \A x \in Segments, q \in Replicas : <<x, q>> # <<s, r>> => peer'[x][q] = peer[x][q]
  <2>1. PICK p \in {"gone", "reset"} : peer' = [peer EXCEPT ![s][r] = p]
    BY DEF Lose
  <2> QED
    BY <2>1 DEF TypeOK
<1>4. (\E t \in Threads : kind[t] \in {"update", "insert"}) => ~ (r = 1 /\ s \in Mirrored)
  BY <1>1 DEF MayLose
<1>5. (\E t \in Threads : kind[t] \in {"update", "insert"}) => PrimariesUp'
  BY <1>3, <1>4, Constants DEF Connections, PrimariesUp, Replicas
<1> QED
  BY <1>1, <1>2, <1>5 DEF Sockets, Connections

(* With Disturbances empty, the links and the connections are as the calls *)
(* need them.                                                              *)
LEMMA ConnectionStep ==
    ASSUME Disturbances = {}
    PROVE  TypeOK /\ Writers /\ Sockets /\ Connections /\ [Next]_vars => Sockets' /\ Connections'
<1> SUFFICES ASSUME TypeOK, Writers, Sockets, Connections, [Next]_vars
             PROVE  Sockets' /\ Connections'
  OBVIOUS
<1> USE DEF link, local, network, count
<1>0. kind \in [Threads -> Kinds \cup {"idle"}] /\ pass \in [Threads -> SUBSET Segments]
  BY DEF TypeOK
<1>1. ASSUME NEW t \in Threads, BeginCall(t)
      PROVE  Sockets' /\ Connections'
  BY <1>1, CallConnections
<1>2. ASSUME NEW t \in Threads, WriteQuery(t)
      PROVE  Sockets' /\ Connections'
  BY <1>2, QueryConnections
<1>4. ASSUME NEW t \in Threads, WriteUpdate(t)
      PROVE  Sockets' /\ Connections'
  <2>1. PICK s \in pass[t] : \E R, msg : Written(s, R, {}, msg)
    BY <1>4 DEF WriteUpdate
  <2>2. s \in Segments
    BY <1>0, <2>1
  <2>3. UNCHANGED <<socks, open, kind>>
    BY <1>4 DEF WriteUpdate
  <2>4. \A x \in Segments, r \in Replicas : peer[x][r] = "up" => peer'[x][r] = "up"
    BY <2>1, <2>2, WrittenFacts
  <2> QED
    BY <2>3, <2>4, ConnectionsKept
<1>5. ASSUME NEW t \in Threads, StopNext(t)
      PROVE  Sockets' /\ Connections'
  <2>1. PICK s \in pass[t] : UNCHANGED peer \/ \E R, msg : Written(s, R, {}, msg)
    BY <1>5 DEF StopNext, SendStop, Eligible
  <2>2. s \in Segments
    BY <1>0, <2>1
  <2>3. UNCHANGED <<socks, open, kind>>
    BY <1>5 DEF StopNext, SendStop
  <2>4. \A x \in Segments, r \in Replicas : peer[x][r] = "up" => peer'[x][r] = "up"
    BY <2>1, <2>2, WrittenFacts
  <2> QED
    BY <2>3, <2>4, ConnectionsKept
<1>6. ASSUME NEW t \in Threads,
             \/ LookUpSocket(t) \/ ReadAnswer(t) \/ ReadUpdateAnswer(t) \/ InsertWritten(t)
             \/ WaitForAnswers(t) \/ ReadStopAnswer(t) \/ Return(t)
      PROVE  Sockets' /\ Connections'
  <2>1. UNCHANGED <<socks, open, peer>>
    BY <1>6 DEF LookUpSocket, ReadAnswer, ReadUpdateAnswer, InsertWritten, WaitForAnswers,
                ReadStopAnswer, Return, Received
  <2>2. kind' = kind \/ kind' = [kind EXCEPT ![t] = "idle"]
    BY <1>6 DEF LookUpSocket, ReadAnswer, ReadUpdateAnswer, InsertWritten, WaitForAnswers,
                ReadStopAnswer, Return
  <2>3. \A x \in Threads : kind'[x] = kind[x] \/ kind'[x] = "idle"
    BY <1>0, <2>2
  <2>4. \A x \in Segments, r \in Replicas : peer[x][r] = "up" => peer'[x][r] = "up"
    BY <2>1
  <2>5. UNCHANGED <<socks, open>>
    BY <2>1
  <2> QED
    BY <2>3, <2>4, <2>5, ConnectionsKept, Zenon
<1>7. ASSUME NEW s \in Segments, NEW r \in Replicas, Serve(s, r)
      PROVE  Sockets' /\ Connections'
  <2>1. UNCHANGED <<socks, open, peer, kind>>
    BY <1>7 DEF Serve
  <2> QED
    BY <2>1 DEF Sockets, Connections, AllUp, PrimariesUp
<1>8. ASSUME NEW s \in Segments, NEW r \in Replicas, Lose(s, r)
      PROVE  Sockets' /\ Connections'
  BY <1>8, LostConnections
<1>9. CASE UNCHANGED vars
  BY <1>9 DEF vars, Sockets, Connections, AllUp, PrimariesUp
<1> QED
  BY <1>1, <1>2, <1>4, <1>5, <1>6, <1>7, <1>8, <1>9 DEF Next, Step

(* Queries go to sockets that are open, and updates and the end of imports *)
(* find the connections they write to up, while connections are lost only  *)
(* where the code copes with it.                                           *)
THEOREM ConnectionsStand ==
    ASSUME Disturbances = {}
    PROVE  Spec => [](Sockets /\ Connections)
<1>1. Init => Sockets /\ Connections
  BY DEF Init, Sockets, Connections
<1>2. TypeOK /\ Writers /\ Sockets /\ Connections /\ [Next]_vars => Sockets' /\ Connections'
  BY ConnectionStep
<1> QED
  BY <1>1, <1>2, TypeCorrect, PTL DEF Spec
-----------------------------------------------------------------------------
(* The answers counted by fsp_stop_import_all are all of them when it      *)
(* returns.                                                                *)
LEMMA AllAnswered ==
    ASSUME Counting, NEW t \in Threads, NSegments = Cardinality(Answered(t))
    PROVE  \A s \in Segments : sent[t][s] = 2
<1>1. Answered(t) \in SUBSET Segments
  BY DEF Answered
<1>2. Answered(t) = Segments
  BY <1>1 DEF Counting
<1> QED
  BY <1>2 DEF Answered

LEMMA OneMoreAnswered ==
    ASSUME Counting, CallTypes, NEW t \in Threads, NEW s \in Segments, sent[t][s] = 1,
           sent' = [sent EXCEPT ![t][s] = 2]
    PROVE  Cardinality(Answered(t)') = Cardinality(Answered(t)) + 1
<1>1. Answered(t)' = Answered(t) \cup {s}
  <2>1. \A x \in Segments : sent'[t][x] = IF x = s THEN 2 ELSE sent[t][x]
    BY DEF CallTypes
  <2> QED
    BY <2>1 DEF Answered
<1>2. s \notin Answered(t)
  BY DEF Answered
<1>3. Answered(t) \in SUBSET Segments
  BY DEF Answered
<1>4. Cardinality(Answered(t) \cup {s}) = Cardinality(Answered(t)) + 1
  BY <1>2, <1>3 DEF Counting
<1> QED
  BY <1>1, <1>4

(* A step of one thread leaves the calls of the others as they are. *)
LEMMA OtherCalls ==
    ASSUME Calls, NEW t \in Threads,
           \A x \in Threads : x # t =>
              /\ kind'[x] = kind[x] /\ sent'[x] = sent[x]
              /\ polled'[x] = polled[x] /\ done'[x] = done[x],
           CallOK(t)'
    PROVE  Calls'
<1> SUFFICES ASSUME NEW x \in Threads, x # t
             PROVE  CallOK(x)'
  BY DEF Calls
<1>1. Answered(x)' = Answered(x)
  BY DEF Answered
<1>2. CallOK(x)
  BY DEF Calls
<1> QED
  BY <1>1, <1>2 DEF CallOK

(* A step that leaves the calls alone. *)
LEMMA SameCalls ==
    ASSUME Calls, LocksBelongToCalls, UNCHANGED <<owner, kind, sent, polled, done>>
    PROVE  Calls' /\ LocksBelongToCalls'
<1>1. \A t \in Threads : Answered(t)' = Answered(t)
  BY DEF Answered
<1>2. \A t \in Threads : CallOK(t) => CallOK(t)'
  BY <1>1 DEF CallOK
<1>3. Calls'
  BY <1>2 DEF Calls
<1> QED
  BY <1>3 DEF LocksBelongToCalls

(* A thread writes a request and takes the mutex of its segment. *)
LEMMA MutexTaken ==
    ASSUME CallTypes, Calls, LocksBelongToCalls,
           NEW t \in Threads, NEW s \in Segments, kind[t] # "idle", owner[s] = Nobody,
           owner' = [owner EXCEPT ![s] = t], sent' = [sent EXCEPT ![t][s] = 1],
           kind[t] = "stop" => sent[t][s] # 2,
           UNCHANGED <<kind, polled, done>>
    PROVE  Calls' /\ LocksBelongToCalls'
<1>1. /\ \A x \in Segments : owner'[x] = IF x = s THEN t ELSE owner[x]
      /\ \A x \in Segments : sent'[t][x] = IF x = s THEN 1 ELSE sent[t][x]
      /\ \A u \in Threads : u # t => sent'[u] = sent[u]
  BY DEF CallTypes
<1>2. kind[t] = "stop" => Answered(t)' = Answered(t)
  BY <1>1 DEF Answered
<1>3. CallOK(t) /\ polled[t] \in Segments \cup {NoSegment}
  BY DEF Calls, CallTypes
<1>4. polled[t] # NoSegment => sent'[t][polled[t]] = 1
  BY <1>1, <1>3 DEF CallOK
<1>5. CallOK(t)'
  BY <1>2, <1>3, <1>4 DEF CallOK
<1>6. Calls'
  BY <1>1, <1>5, OtherCalls
<1>7. ASSUME NEW x \in Segments, NEW u \in Threads
      PROVE  owner'[x] = u <=> kind'[u] # "idle" /\ sent'[u][x] = 1
  <2>1. owner[x] = u <=> kind[u] # "idle" /\ sent[u][x] = 1
    BY DEF LocksBelongToCalls
  <2>2. CASE x # s
    BY <1>1, <2>1, <2>2
  <2>3. CASE x = s /\ u = t
    BY <1>1, <2>3
  <2>4. CASE x = s /\ u # t
    <3>1. sent'[u][x] = sent[u][x] /\ owner'[x] = t
      BY <1>1, <2>4
    <3> QED
      BY <2>1, <2>4, <3>1, Constants
  <2> QED
    BY <2>2, <2>3, <2>4
<1> QED
  BY <1>6, <1>7 DEF LocksBelongToCalls

(* A thread reads its answer and gives the mutex back. *)
LEMMA MutexGiven ==
    ASSUME Counting, CallTypes, Calls, LocksBelongToCalls,
           NEW t \in Threads, NEW s \in Segments, sent[t][s] = 1, kind[t] # "idle",
           polled[t] \in {s, NoSegment}, polled' = [polled EXCEPT ![t] = NoSegment],
           done' = IF kind[t] = "stop" THEN [done EXCEPT ![t] = @ + 1] ELSE done,
           owner' = [owner EXCEPT ![s] = Nobody], sent' = [sent EXCEPT ![t][s] = 2],
           UNCHANGED kind
    PROVE  Calls' /\ LocksBelongToCalls'
<1>1. /\ \A x \in Segments : owner'[x] = IF x = s THEN Nobody ELSE owner[x]
      /\ \A x \in Segments : sent'[t][x] = IF x = s THEN 2 ELSE sent[t][x]
      /\ \A u \in Threads : u # t => sent'[u] = sent[u] /\ polled'[u] = polled[u]
      /\ polled'[t] = NoSegment
  BY DEF CallTypes
<1>2. /\ done'[t] = IF kind[t] = "stop" THEN done[t] + 1 ELSE done[t]
      /\ \A u \in Threads : u # t => done'[u] = done[u]
  BY DEF CallTypes
<1>3. Cardinality(Answered(t)') = Cardinality(Answered(t)) + 1
  BY OneMoreAnswered
<1>4. CallOK(t)
  BY DEF Calls
<1>5. CallOK(t)'
  BY <1>1, <1>2, <1>3, <1>4 DEF CallOK
<1>6. Calls'
  BY <1>1, <1>2, <1>5, OtherCalls
<1>7. owner[s] = t
  BY DEF LocksBelongToCalls
<1>8. ASSUME NEW x \in Segments, NEW u \in Threads
      PROVE  owner'[x] = u <=> kind'[u] # "idle" /\ sent'[u][x] = 1
  <2>1. owner[x] = u <=> kind[u] # "idle" /\ sent[u][x] = 1
    BY DEF LocksBelongToCalls
  <2>2. CASE x # s
    BY <1>1, <2>1, <2>2
  <2>3. CASE x = s /\ u = t
    BY <1>1, <2>3, Constants
  <2>4. CASE x = s /\ u # t
    <3>1. sent'[u][x] = sent[u][x] /\ owner'[x] = Nobody
      BY <1>1, <2>4
    <3> QED
      BY <1>7, <2>1, <2>4, <3>1, Constants
  <2> QED
    BY <2>2, <2>3, <2>4
<1> QED
  BY <1>6, <1>8 DEF LocksBelongToCalls

(* A call ends, and gives back the mutexes it still has. *)
LEMMA CallEnded ==
    ASSUME CallTypes, Calls, LocksBelongToCalls,
           NEW t \in Threads, sent' = [sent EXCEPT ![t] = NotSent],
           kind' = [kind EXCEPT ![t] = "idle"],
           done'[t] = 0, \A x \in Threads : x # t => done'[x] = done[x],
           polled' = polled, polled[t] = NoSegment,
           \A s \in Segments : owner'[s] = IF owner[s] = t THEN Nobody ELSE owner[s]
    PROVE  Calls' /\ LocksBelongToCalls'
<1>1. /\ sent'[t] = NotSent /\ kind'[t] = "idle"
      /\ \A u \in Threads : u # t => sent'[u] = sent[u] /\ kind'[u] = kind[u]
  BY DEF CallTypes
<1>2. CallOK(t)'
  BY <1>1 DEF CallOK
<1>3. Calls'
  BY <1>1, <1>2, OtherCalls
<1>4. ASSUME NEW x \in Segments, NEW u \in Threads
      PROVE  owner'[x] = u <=> kind'[u] # "idle" /\ sent'[u][x] = 1
  <2>1. owner[x] = u <=> kind[u] # "idle" /\ sent[u][x] = 1
    BY DEF LocksBelongToCalls
  <2>2. owner'[x] = IF owner[x] = t THEN Nobody ELSE owner[x]
    OBVIOUS
  <2>3. CASE u # t
    <3>1. sent'[u] = sent[u] /\ kind'[u] = kind[u]
      BY <1>1, <2>3
    <3> QED
      BY <2>1, <2>2, <2>3, <3>1, Constants
  <2>4. CASE u = t
    BY <1>1, <2>2, <2>4, Constants
  <2> QED
    BY <2>3, <2>4
<1> QED
  BY <1>3, <1>4 DEF LocksBelongToCalls

(* No call is under way at first. *)
LEMMA CallInit == Init => Calls /\ LocksBelongToCalls
BY Constants DEF Init, Calls, CallOK, LocksBelongToCalls

(* With Disturbances empty, calls keep their counters, and mutexes belong  *)
(* to the calls that wait.                                                 *)
LEMMA CallStep ==
    ASSUME Disturbances = {}, Counting
    PROVE  /\ TypeOK /\ Writers /\ Sockets /\ Connections /\ Calls /\ LocksBelongToCalls
           /\ [Next]_vars
           => Calls' /\ LocksBelongToCalls'
<1> SUFFICES ASSUME TypeOK, Writers, Sockets, Connections, Calls, LocksBelongToCalls, [Next]_vars
             PROVE  Calls' /\ LocksBelongToCalls'
  OBVIOUS
<1> USE DEF link, local, network, count
<1>0. CallTypes /\ pass \in [Threads -> SUBSET Segments]
  BY DEF TypeOK, CallTypes
<1>1. ASSUME NEW t \in Threads, BeginCall(t)
      PROVE  Calls' /\ LocksBelongToCalls'
  <2>1. PICK k \in Kinds, S \in SUBSET Segments : Begin(t, k, S)
    BY <1>1, BeginAny
  <2>2. /\ kind[t] = "idle" /\ kind' = [kind EXCEPT ![t] = k]
        /\ UNCHANGED <<owner, sent, polled, done>>
    BY <2>1 DEF Begin
  <2>3. sent[t] = NotSent /\ done[t] = 0 /\ polled[t] = NoSegment
    BY <2>2 DEF Calls, CallOK, Writers
  <2>4. Answered(t)' = {}
    BY <2>2, <2>3 DEF Answered, NotSent
  <2>5. CallOK(t)'
    BY <1>0, <2>2, <2>3, <2>4 DEF CallOK, CallTypes, Counting, Kinds
  <2>6. Calls'
    BY <1>0, <2>2, <2>5, OtherCalls DEF CallTypes
  <2>7. \A u \in Threads : u # t => kind'[u] = kind[u]
    BY <1>0, <2>2 DEF CallTypes
  <2>8. \A s \in Segments : owner[s] # t /\ sent[t][s] = 0
    BY <2>2, <2>3 DEF LocksBelongToCalls, NotSent
  <2>9. LocksBelongToCalls'
    BY <2>2, <2>7, <2>8 DEF LocksBelongToCalls
  <2> QED
    BY <2>6, <2>9
<1>2. ASSUME NEW t \in Threads, WriteQuery(t) \/ WriteUpdate(t)
      PROVE  Calls' /\ LocksBelongToCalls'
  <2>1. PICK s \in Segments : /\ kind[t] \in {"query", "update", "insert"} /\ owner[s] = Nobody
                              /\ owner' = [owner EXCEPT ![s] = t]
                              /\ sent' = [sent EXCEPT ![t][s] = 1]
                              /\ UNCHANGED <<kind, polled, done>>
    <3>1. CASE WriteQuery(t)
      <4>1. PICK y \in Segments, u \in Replicas \cup {NoSocket}, C \in SUBSET Replicas,
                 x \in Replicas, X \in SUBSET Replicas : QueryWrite(t, y, u, C, x, X)
        BY <3>1, QueryWritten
      <4>2. /\ kind[t] = "query" /\ owner[y] = Nobody
            /\ owner' = [owner EXCEPT ![y] = t]
            /\ sent' = [sent EXCEPT ![t][y] = 1]
            /\ UNCHANGED <<kind, polled, done>>
        BY <4>1 DEF QueryWrite
      <4> QED
        BY <4>2
    <3>2. CASE WriteUpdate(t)
      BY <1>0, <3>2 DEF WriteUpdate
    <3> QED
      BY <1>2, <3>1, <3>2
  <2> QED
    BY <1>0, <2>1, MutexTaken
<1>3. ASSUME NEW t \in Threads, ReadAnswer(t) \/ ReadUpdateAnswer(t)
      PROVE  Calls' /\ LocksBelongToCalls'
  <2>1. PICK s \in Waiting(t) : \E R : Received(t, s, R)
    BY <1>3 DEF ReadAnswer, ReadUpdateAnswer
  <2>2. /\ s \in Segments /\ sent[t][s] = 1
        /\ owner' = [owner EXCEPT ![s] = Nobody] /\ sent' = [sent EXCEPT ![t][s] = 2]
    BY <2>1 DEF Received, Waiting
  <2>3. /\ kind[t] \in {"query", "update"} /\ polled[t] = NoSegment
        /\ UNCHANGED <<kind, polled, done>>
    BY <1>3 DEF ReadAnswer, ReadUpdateAnswer, Writers
  <2>4. polled' = [polled EXCEPT ![t] = NoSegment]
    BY <1>0, <2>3 DEF CallTypes
  <2> QED
    BY <1>0, <2>2, <2>3, <2>4, MutexGiven
<1>4. ASSUME NEW t \in Threads, InsertWritten(t)
      PROVE  Calls' /\ LocksBelongToCalls'
  <2>1. polled[t] = NoSegment /\ done[t] = 0
    BY <1>4 DEF InsertWritten, Writers, Calls, CallOK
  <2>2. \A s \in Segments : s \in Waiting(t) <=> owner[s] = t
    BY <1>4 DEF InsertWritten, LocksBelongToCalls, Waiting
  <2> QED
    BY <1>0, <1>4, <2>1, <2>2, CallEnded DEF InsertWritten
<1>5. ASSUME NEW t \in Threads, Return(t)
      PROVE  Calls' /\ LocksBelongToCalls'
  <2>1. \A s \in Segments : sent[t][s] # 1
    <3>1. CASE Waiting(t) = {}
      BY <3>1 DEF Waiting
    <3>2. CASE kind[t] = "stop" /\ done[t] = NSegments
      BY <3>2, AllAnswered DEF Calls, CallOK
    <3> QED
      BY <1>5, <3>1, <3>2 DEF Return
  <2>2. \A s \in Segments : owner[s] # t
    BY <2>1 DEF LocksBelongToCalls
  <2>3. polled[t] = NoSegment
    BY <1>0, <2>1 DEF Calls, CallOK, CallTypes
  <2>4. /\ sent' = [sent EXCEPT ![t] = NotSent] /\ kind' = [kind EXCEPT ![t] = "idle"]
        /\ done' = [done EXCEPT ![t] = 0] /\ polled' = polled /\ owner' = owner
    BY <1>5 DEF Return
  <2>5. done'[t] = 0 /\ \A x \in Threads : x # t => done'[x] = done[x]
    BY <1>0, <2>4 DEF CallTypes
  <2> QED
    BY <1>0, <2>2, <2>3, <2>4, <2>5, CallEnded
<1>6. ASSUME NEW t \in Threads, StopNext(t)
       PROVE  Calls' /\ LocksBelongToCalls'
  <2>1. PICK s \in Segments : /\ sent[t][s] = 0
                              /\ SendStop(t, s) \/ UNCHANGED <<network, link, sent, count>>
    BY <1>0, <1>6 DEF StopNext, Eligible
  <2>2. kind[t] = "stop" /\ UNCHANGED <<kind, polled>>
    BY <1>6 DEF StopNext
  <2>3. CASE SendStop(t, s)
    <3>1. /\ owner[s] = Nobody /\ owner' = [owner EXCEPT ![s] = t]
          /\ sent' = [sent EXCEPT ![t][s] = 1] /\ UNCHANGED <<kind, polled, done>>
      BY <2>2, <2>3 DEF SendStop
    <3>2. kind[t] # "idle" /\ sent[t][s] # 2 /\ CallTypes
      BY <1>0, <2>1, <2>2
    <3> QED
      BY <3>1, <3>2, MutexTaken
  <2>4. CASE UNCHANGED <<network, link, sent, count>>
    BY <2>2, <2>4, SameCalls
  <2> QED
    BY <2>1, <2>3, <2>4, Zenon
<1>7. ASSUME NEW t \in Threads, WaitForAnswers(t)
       PROVE  Calls' /\ LocksBelongToCalls'
  <2>1. /\ kind[t] = "stop" /\ UNCHANGED <<owner, kind, sent, done>>
        /\ \E s \in Ready(t) : polled' = [polled EXCEPT ![t] = s]
    BY <1>7 DEF WaitForAnswers
  <2>2. PICK s \in Ready(t) : polled' = [polled EXCEPT ![t] = s]
    BY <2>1
  <2>3. \A x \in Segments : peer[x][socks[x]] = "up"
    BY <2>1 DEF Connections, AllUp, Sockets
  <2>4. s \in Segments /\ sent[t][s] = 1
    BY <2>2, <2>3 DEF Ready
  <2>5. Answered(t)' = Answered(t)
    BY <2>1 DEF Answered
  <2>6. CallOK(t)'
    BY <1>0, <2>1, <2>2, <2>4, <2>5 DEF Calls, CallOK, CallTypes
  <2>7. Calls'
    BY <1>0, <2>1, <2>2, <2>6, OtherCalls DEF CallTypes
  <2> QED
    BY <2>1, <2>7 DEF LocksBelongToCalls
<1>8. ASSUME NEW t \in Threads, ReadStopAnswer(t)
       PROVE  Calls' /\ LocksBelongToCalls'
  <2> DEFINE s == polled[t]
  <2>1. s \in Segments /\ kind[t] = "stop" /\ sent[t][s] = 1 /\ polled[t] \in {s, NoSegment}
    BY <1>0, <1>8 DEF ReadStopAnswer, CallTypes, Writers, Calls, CallOK
  <2>2. /\ owner' = [owner EXCEPT ![s] = Nobody]
        /\ sent' = [sent EXCEPT ![t][s] = 2]
        /\ polled' = [polled EXCEPT ![t] = NoSegment]
        /\ UNCHANGED kind
    BY <1>8 DEF ReadStopAnswer, Received
  <2>3. done' = IF kind[t] = "stop" THEN [done EXCEPT ![t] = @ + 1] ELSE done
    BY <1>8, <2>1 DEF ReadStopAnswer
  <2> HIDE DEF s
  <2> QED
    BY <1>0, <2>1, <2>2, <2>3, MutexGiven
<1>9. ASSUME NEW t \in Threads, LookUpSocket(t)
       PROVE  Calls' /\ LocksBelongToCalls'
  BY <1>9, SameCalls DEF LookUpSocket
<1>10. ASSUME NEW s \in Segments, NEW r \in Replicas, Serve(s, r) \/ Lose(s, r)
       PROVE  Calls' /\ LocksBelongToCalls'
  BY <1>10, SameCalls DEF Serve, Lose
<1>11. CASE UNCHANGED vars
  BY <1>11, SameCalls DEF vars
<1> QED
  BY <1>1, <1>2, <1>3, <1>4, <1>5, <1>6, <1>7, <1>8, <1>9, <1>10, <1>11 DEF Next, Step
=============================================================================
