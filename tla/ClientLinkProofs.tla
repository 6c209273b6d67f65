------------------------- MODULE ClientLinkProofs --------------------------
(***************************************************************************)
(* A mutex of the link belongs to the call that waits for an answer of its *)
(* segment, and every answer reaches the thread that asked, for any number *)
(* of threads, segments, servers, mirrors, calls and lost connections of   *)
(* ClientLink.                                                             *)
(*                                                                         *)
(* That an answer is the right one rests on the mutex being held from the  *)
(* request to the answer, which ClientCallProofs shows.                    *)
(***************************************************************************)
EXTENDS ClientCallProofs, FiniteSetTheorems

(* A step that leaves the connections and mutexes alone, and changes only  *)
(* what a thread without a mutex is doing.                                 *)
LEMMA ThreadAlone ==
    ASSUME TypeOK, \A x \in Segments, r \in Replicas : ConnectionOK(x, r),
           UNCHANGED <<network, link>>, NEW t \in Threads, \A x \in Segments : owner[x] # t,
           \A y \in Threads : y # t => kind'[y] = kind[y] /\ via'[y] = via[y]
    PROVE  \A x \in Segments, r \in Replicas : ConnectionOK(x, r)'
<1> USE DEF link, network
<1> SUFFICES ASSUME NEW x \in Segments, NEW r \in Replicas
             PROVE  ConnectionOK(x, r)'
  OBVIOUS
<1>1. owner[x] \in Threads \cup {Nobody}
  BY DEF TypeOK
<1>2. owner[x] # Nobody => owner[x] \in Threads /\ owner[x] # t
  BY <1>1
<1> QED
  BY <1>2, SameConnection

(* A step that leaves what calls wait for alone. *)
LEMMA ConnectionsAlone ==
    ASSUME \A x \in Segments, r \in Replicas : ConnectionOK(x, r),
           UNCHANGED <<network, link, kind, via>>
    PROVE  \A x \in Segments, r \in Replicas : ConnectionOK(x, r)'
BY SameConnection DEF link, network

(* The mutexes of an insertion, given back without an answer. *)
LEMMA InsertReleased ==
    ASSUME TypeOK, LocksBelongToCalls, NEW t \in Threads, InsertWritten(t),
           \A x \in Segments, r \in Replicas : ConnectionOK(x, r)
    PROVE  \A x \in Segments, r \in Replicas : ConnectionOK(x, r)'
<1> USE DEF link, local, network, count
<1>a. /\ owner \in [Segments -> Threads \cup {Nobody}]
      /\ kind \in [Threads -> Kinds \cup {"idle"}]
      /\ via \in [Threads -> [Segments -> Replicas \cup {NoSocket}]]
      /\ polled \in [Threads -> Segments \cup {NoSegment}]
  BY DEF TypeOK
<1>b. \A x \in Segments : owner[x] \in Threads \cup {Nobody}
  BY <1>a
<1> SUFFICES ASSUME NEW x \in Segments, NEW r \in Replicas
             PROVE  ConnectionOK(x, r)'
  OBVIOUS
<1>1. UNCHANGED <<network, open, via>> /\ kind[t] = "insert"
      /\ (\A y \in Threads : y # t => kind'[y] = kind[y])
  BY <1>a DEF InsertWritten
<1>2. owner'[x] = IF x \in Waiting(t) THEN Nobody ELSE owner[x]
  BY DEF InsertWritten
<1>3. x \in Waiting(t) <=> owner[x] = t
  BY <1>1 DEF Waiting, LocksBelongToCalls
<1>4. CASE owner[x] = t
  <2>1. t # Nobody /\ Reads(t, x) = {}
    BY <1>1, Constants DEF Reads
  <2>2. peer[x][r] = "up" => reply[x][r] = <<>> /\ Due(x, r) = {}
    BY <1>4, <2>1 DEF ConnectionOK
  <2>3. Due(x, r)' = Due(x, r)
    BY <1>1 DEF Due
  <2> QED
    BY <1>1, <1>2, <1>3, <1>4, <2>2, <2>3, IdleConnection
<1>5. CASE owner[x] # t
  <2>1. owner[x] # Nobody => owner[x] \in Threads
    BY <1>b
  <2> QED
    BY <1>1, <1>2, <1>3, <1>5, <2>1, SameConnection
<1> QED
  BY <1>4, <1>5

(* fsp_bind_next_all and the update calls, reading an answer. *)
LEMMA AnswerTaken ==
    ASSUME TypeOK, LocksBelongToCalls, NEW t \in Threads, ReadAnswer(t) \/ ReadUpdateAnswer(t),
           WaitsAreAnswered
    PROVE  \A x \in Segments, r \in Replicas : ConnectionOK(x, r)'
<1> USE DEF link, local, network, count
<1>1. PICK s \in Waiting(t) : Received(t, s, Reads(t, s))
  BY DEF ReadAnswer, ReadUpdateAnswer, Reads
<1>2. kind[t] # "idle" /\ UNCHANGED <<kind, via>>
  BY DEF ReadAnswer, ReadUpdateAnswer
<1>3. s \in Segments /\ owner[s] = t
  BY <1>1, <1>2 DEF Waiting, LocksBelongToCalls
<1> QED
  BY <1>1, <1>2, <1>3, AnswersRead

(* A call returns with nothing outstanding. *)
LEMMA CallReturns ==
    ASSUME Counting, TypeOK, Calls, LocksBelongToCalls, NEW t \in Threads, Return(t),
           \A x \in Segments, r \in Replicas : ConnectionOK(x, r)
    PROVE  \A x \in Segments, r \in Replicas : ConnectionOK(x, r)'
<1> USE DEF link, local, network, count
<1>a. /\ owner \in [Segments -> Threads \cup {Nobody}]
      /\ kind \in [Threads -> Kinds \cup {"idle"}]
      /\ via \in [Threads -> [Segments -> Replicas \cup {NoSocket}]]
      /\ polled \in [Threads -> Segments \cup {NoSegment}]
  BY DEF TypeOK
<1>1. \A x \in Segments : sent[t][x] # 1
  <2>1. CASE Waiting(t) = {}
    BY <2>1 DEF Waiting
  <2>2. CASE kind[t] = "stop" /\ done[t] = NSegments
    BY <2>2, AllAnswered DEF Calls, CallOK
  <2> QED
    BY <2>1, <2>2 DEF Return
<1>2. \A x \in Segments : owner[x] # t
  BY <1>1 DEF LocksBelongToCalls
<1>3. UNCHANGED <<network, link>>
      /\ \A y \in Threads : y # t => kind'[y] = kind[y] /\ via'[y] = via[y]
  BY <1>a DEF Return
<1> QED
  BY <1>2, <1>3, ThreadAlone

(* A round of the sending loop of fsp_stop_import_all. *)
LEMMA StopRequested ==
    ASSUME TypeOK, Sockets, Connections, WaitsAreAnswered, NEW t \in Threads, StopNext(t),
           \A x \in Segments, r \in Replicas : ConnectionOK(x, r)
    PROVE  \A x \in Segments, r \in Replicas : ConnectionOK(x, r)'
<1> USE DEF link, local, network, count
<1>1. PICK s \in Eligible(t) : SendStop(t, s) \/ UNCHANGED <<network, link>>
  BY DEF StopNext
<1>2. s \in Segments
  BY <1>1 DEF Eligible, TypeOK
<1>3. kind[t] \in {"update", "insert", "stop"} /\ UNCHANGED <<kind, via>>
  BY DEF StopNext
<1>4. CASE SendStop(t, s)
  <2>1. /\ owner[s] = Nobody /\ owner' = [owner EXCEPT ![s] = t]
        /\ Written(s, UpdateWrites(s), {}, [from |-> t, of |-> kind[t]])
        /\ UNCHANGED open
    BY <1>4 DEF SendStop
  <2> QED
    BY <1>2, <1>3, <2>1, UpdateRequested
<1>5. CASE UNCHANGED <<network, link>>
  BY <1>3, <1>5, ConnectionsAlone
<1> QED
  BY <1>1, <1>4, <1>5

(* fsp_stop_import_all reads the answer poll reported. *)
LEMMA StopAnswerTaken ==
    ASSUME TypeOK, Writers, Calls, LocksBelongToCalls, NEW t \in Threads, ReadStopAnswer(t),
           WaitsAreAnswered
    PROVE  \A x \in Segments, r \in Replicas : ConnectionOK(x, r)'
<1> USE DEF link, local, network, count
<1>a. /\ owner \in [Segments -> Threads \cup {Nobody}]
      /\ kind \in [Threads -> Kinds \cup {"idle"}]
      /\ via \in [Threads -> [Segments -> Replicas \cup {NoSocket}]]
      /\ polled \in [Threads -> Segments \cup {NoSegment}]
  BY DEF TypeOK
<1> DEFINE s == polled[t]
<1>1. s \in Segments /\ kind[t] = "stop"
  BY <1>a DEF ReadStopAnswer, Writers
<1>2. owner[s] = t
  BY <1>1 DEF ReadStopAnswer, LocksBelongToCalls, Calls, CallOK
<1>3. Received(t, s, Reads(t, s)) /\ UNCHANGED <<kind, via>>
  BY <1>1 DEF ReadStopAnswer, Reads
<1> HIDE DEF s
<1> QED
  BY <1>1, <1>2, <1>3, AnswersRead

(* The backend serves a request, or the network loses a connection. *)
LEMMA BackendOrNetwork ==
    ASSUME TypeOK, NEW s \in Segments, NEW q \in Replicas, Serve(s, q) \/ Lose(s, q),
           \A x \in Segments, r \in Replicas : ConnectionOK(x, r)
    PROVE  \A x \in Segments, r \in Replicas : ConnectionOK(x, r)'
<1> USE DEF link, local, network, count
<1> SUFFICES ASSUME NEW x \in Segments, NEW r \in Replicas
             PROVE  ConnectionOK(x, r)'
  OBVIOUS
<1>1. UNCHANGED <<link, local>>
  BY DEF Serve, Lose
<1>2. CASE x # s \/ r # q
  <2>1. wire'[x][r] = wire[x][r] /\ reply'[x][r] = reply[x][r] /\ peer'[x][r] = peer[x][r]
    BY <1>2, OtherConnection
  <2> QED
    BY <1>1, <2>1, SameConnection
<1>3. CASE x = s /\ r = q /\ Serve(s, q)
  BY <1>3, RequestServed
<1>4. CASE x = s /\ r = q /\ Lose(s, q)
  <2>1. peer'[s][q] # "up"
    BY <1>4 DEF Lose, TypeOK
  <2> QED
    BY <1>4, <2>1 DEF ConnectionOK
<1> QED
  BY <1>2, <1>3, <1>4

(* Every step keeps every live connection in order. *)
LEMMA WaitsStep ==
    ASSUME Disturbances = {}, Counting
    PROVE  LInv /\ WaitsAreAnswered /\ [Next]_vars => WaitsAreAnswered'
<1> SUFFICES ASSUME TypeOK, Writers, Sockets, Connections, Calls, LocksBelongToCalls,
                    WaitsAreAnswered, [Next]_vars
             PROVE  \A x \in Segments, r \in Replicas : ConnectionOK(x, r)'
  BY DEF LInv, WaitsAreAnswered, ConnectionOK
<1> USE DEF link, local, network, count
<1>0. kind \in [Threads -> Kinds \cup {"idle"}] /\ pass \in [Threads -> SUBSET Segments]
  BY DEF TypeOK
<1>1. \A x \in Segments, r \in Replicas : ConnectionOK(x, r)
  BY DEF WaitsAreAnswered, ConnectionOK
<1>5. ASSUME NEW t \in Threads, BeginCall(t)
      PROVE  \A x \in Segments, r \in Replicas : ConnectionOK(x, r)'
  <2>1. PICK k \in Kinds, S \in SUBSET Segments : Begin(t, k, S)
    BY <1>5, BeginAny
  <2>2. \A x \in Segments : owner[x] # t
    BY <2>1 DEF Begin, LocksBelongToCalls
  <2>3. UNCHANGED <<network, link, via>> /\ \A y \in Threads : y # t => kind'[y] = kind[y]
    BY <1>0, <2>1 DEF Begin
  <2> QED
    BY <1>1, <2>2, <2>3, ThreadAlone
<1>6. ASSUME NEW t \in Threads, LookUpSocket(t)
      PROVE  \A x \in Segments, r \in Replicas : ConnectionOK(x, r)'
  BY <1>1, <1>6, ConnectionsAlone DEF LookUpSocket
<1>7. ASSUME NEW t \in Threads, WriteQuery(t)
      PROVE  \A x \in Segments, r \in Replicas : ConnectionOK(x, r)'
  BY <1>1, <1>7, QueryRequested
<1>8. ASSUME NEW t \in Threads, WriteUpdate(t)
      PROVE  \A x \in Segments, r \in Replicas : ConnectionOK(x, r)'
  <2>1. PICK s \in pass[t] :
            /\ owner[s] = Nobody /\ owner' = [owner EXCEPT ![s] = t]
            /\ Written(s, UpdateWrites(s), {}, [from |-> t, of |-> kind[t]])
    BY <1>8 DEF WriteUpdate
  <2>2. s \in Segments /\ UNCHANGED <<open, kind, via>> /\ kind[t] \in {"update", "insert", "stop"}
    BY <1>0, <1>8, <2>1 DEF WriteUpdate
  <2> QED
    BY <2>1, <2>2, UpdateRequested
<1>9. ASSUME NEW t \in Threads, InsertWritten(t)
      PROVE  \A x \in Segments, r \in Replicas : ConnectionOK(x, r)'
  BY <1>1, <1>9, InsertReleased
<1>10. ASSUME NEW t \in Threads, ReadAnswer(t) \/ ReadUpdateAnswer(t)
       PROVE  \A x \in Segments, r \in Replicas : ConnectionOK(x, r)'
  BY <1>1, <1>10, AnswerTaken
<1>11. ASSUME NEW t \in Threads, Return(t)
       PROVE  \A x \in Segments, r \in Replicas : ConnectionOK(x, r)'
  BY <1>1, <1>11, CallReturns
<1>12. ASSUME NEW t \in Threads, StopNext(t)
       PROVE  \A x \in Segments, r \in Replicas : ConnectionOK(x, r)'
  BY <1>1, <1>12, StopRequested
<1>13. ASSUME NEW t \in Threads, WaitForAnswers(t)
       PROVE  \A x \in Segments, r \in Replicas : ConnectionOK(x, r)'
  BY <1>1, <1>13, ConnectionsAlone DEF WaitForAnswers
<1>14. ASSUME NEW t \in Threads, ReadStopAnswer(t)
       PROVE  \A x \in Segments, r \in Replicas : ConnectionOK(x, r)'
  BY <1>1, <1>14, StopAnswerTaken
<1>15. ASSUME NEW s \in Segments, NEW q \in Replicas, Serve(s, q) \/ Lose(s, q)
       PROVE  \A x \in Segments, r \in Replicas : ConnectionOK(x, r)'
  BY <1>1, <1>15, BackendOrNetwork
<1>16. CASE UNCHANGED vars
  BY <1>1, <1>16, ConnectionsAlone DEF vars
<1> QED
  BY <1>5, <1>6, <1>7, <1>8, <1>9, <1>10, <1>11, <1>12, <1>13, <1>14, <1>15, <1>16
  DEF Next, Step
-----------------------------------------------------------------------------
(* NSegments counts the segments. *)
LEMMA SegmentsCounted == Counting
<1>1. IsFiniteSet(Segments) /\ Cardinality(Segments) = NSegments
  <2>1. 0 \in Int /\ NSegments - 1 \in Int /\ NSegments - 1 >= 0
    BY Constants
  <2>2. /\ IsFiniteSet(Segments)
        /\ Cardinality(Segments) = IF 0 > NSegments - 1 THEN 0 ELSE NSegments - 1 - 0 + 1
    BY <2>1, FS_Interval DEF Segments
  <2> QED
    BY <2>1, <2>2, Constants
<1>2. \A S \in SUBSET Segments : Cardinality(S) = NSegments => S = Segments
  BY <1>1, FS_Subset
<1>3. \A S \in SUBSET Segments : IsFiniteSet(S)
  BY <1>1, FS_Subset
<1>4. \A S \in SUBSET Segments : \A s \in Segments \ S :
        Cardinality(S \cup {s}) = Cardinality(S) + 1
  BY <1>3, FS_AddElement
<1>5. Cardinality({}) = 0
  BY FS_EmptySet
<1> QED
  BY <1>2, <1>4, <1>5 DEF Counting

(* The inductive invariant holds while connections are lost only where the *)
(* code copes with it.                                                     *)
LEMMA Invariance ==
    ASSUME Disturbances = {}
    PROVE  Spec => []LInv
<1>1. Init => Calls /\ LocksBelongToCalls
  BY CallInit
<1>2. /\ TypeOK /\ Writers /\ Sockets /\ Connections /\ Calls /\ LocksBelongToCalls
      /\ [Next]_vars
      => Calls' /\ LocksBelongToCalls'
  BY CallStep, SegmentsCounted
<1>3. Spec => [](Calls /\ LocksBelongToCalls)
  BY <1>1, <1>2, TypeCorrect, ConnectionsStand, PTL DEF Spec
<1> QED
  BY <1>3, TypeCorrect, ConnectionsStand, PTL DEF LInv

(* mutex[s] of the link is held by exactly the call that has written to    *)
(* segment s and not read the answer, for any number of threads and        *)
(* segments: fsp_stop_import_all, which reads in the order poll reports,   *)
(* never unlocks a mutex of another thread and returns with none.          *)
THEOREM LocksBelong ==
    ASSUME Disturbances = {}
    PROVE  Spec => []LocksBelongToCalls
<1>1. LInv => LocksBelongToCalls
  BY DEF LInv
<1> QED
  BY <1>1, Invariance, PTL

(* Although 4s-client.c matches answers with requests by order alone, what *)
(* a call reads is the answer to its own request, on the primary and on    *)
(* the mirror, and no call waits for an answer that will not be sent.      *)
THEOREM AnswersReachTheirCalls ==
    ASSUME Disturbances = {}
    PROVE  Spec => []WaitsAreAnswered
<1>1. Init => WaitsAreAnswered
  BY DEF Init, WaitsAreAnswered, Due
<1>2. LInv /\ WaitsAreAnswered /\ [Next]_vars => WaitsAreAnswered'
  BY WaitsStep, SegmentsCounted
<1> QED
  BY <1>1, <1>2, Invariance, PTL DEF Spec
=============================================================================
