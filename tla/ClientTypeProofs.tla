------------------------- MODULE ClientTypeProofs -------------------------
(***************************************************************************)
(* Proofs about ClientLink, for any number of threads, segments, servers,  *)
(* mirrors, calls and lost connections: the types, what a message written  *)
(* to a segment does, what is due on a connection, and what a request, its *)
(* answer or a message of the backend leaves due.                          *)
(***************************************************************************)
EXTENDS ClientLink, TLAPS

(* A thread that has looked up a socket is writing a query, and one that   *)
(* poll has returned to is stopping an import.                             *)
Writers ==
    \A t \in Threads :
        /\ sock[t] # NoSocket => kind[t] = "query" /\ pass[t] # {}
        /\ polled[t] # NoSegment => kind[t] = "stop" /\ done[t] # NSegments

(* Queries go to a socket that is there; only mirrored segments have two. *)
Sockets ==
    \A s \in Segments : socks[s] \in open[s] /\ (s \notin Mirrored => open[s] = {1})

(* What the calls under way need of the connections. *)
Connections ==
    /\ (\E t \in Threads : kind[t] = "stop") => AllUp
    /\ (\E t \in Threads : kind[t] \in {"update", "insert", "stop"}) => PrimariesUp
-----------------------------------------------------------------------------
(* What a message written to segment s leaves of the network. *)
LEMMA WrittenFacts ==
    ASSUME TypeOK, NEW s \in Segments, NEW R, NEW C, NEW msg, Written(s, R, C, msg)
    PROVE  /\ reply' = reply
           /\ \A x \in Segments, r \in Replicas :
                wire'[x][r] = IF x = s /\ r \in R /\ peer[x][r] = "up"
                              THEN Append(wire[x][r], msg) ELSE wire[x][r]
           /\ \A x \in Segments, r \in Replicas :
                peer'[x][r] = IF x # s THEN peer[x][r]
                              ELSE IF r \in C THEN "closed"
                              ELSE IF r \in R /\ peer[x][r] = "gone" THEN "reset" ELSE peer[x][r]
BY DEF Written, TypeOK

(* It keeps the types. *)
LEMMA WrittenType ==
    ASSUME TypeOK, NEW s \in Segments, NEW R, NEW C, NEW msg \in Requests, Written(s, R, C, msg)
    PROVE  /\ wire' \in [Segments -> [Replicas -> Seq(Requests)]]
           /\ peer' \in [Segments -> [Replicas -> {"up", "gone", "reset", "closed"}]]
           /\ reply' \in [Segments -> [Replicas -> Seq(Threads)]]
<1>1. \A r \in Replicas : wire[s][r] \in Seq(Requests) /\ Append(wire[s][r], msg) \in Seq(Requests)
  BY DEF TypeOK
<1> DEFINE W == [r \in Replicas |-> IF r \in R /\ peer[s][r] = "up" THEN Append(wire[s][r], msg) ELSE wire[s][r]]
           Q == [r \in Replicas |-> IF r \in C THEN "closed"
                                    ELSE IF r \in R /\ peer[s][r] = "gone" THEN "reset" ELSE peer[s][r]]
<1>2. W \in [Replicas -> Seq(Requests)]
  BY <1>1
<1>3. Q \in [Replicas -> {"up", "gone", "reset", "closed"}]
  BY DEF TypeOK
<1>4. wire' = [wire EXCEPT ![s] = W] /\ peer' = [peer EXCEPT ![s] = Q] /\ reply' = reply
  BY DEF Written, TypeOK
<1> HIDE DEF W, Q
<1> QED
  BY <1>2, <1>3, <1>4 DEF TypeOK

(* A call begins as one of the four kinds. *)
LEMMA BeginAny ==
    ASSUME NEW t \in Threads, BeginCall(t)
    PROVE  \E k \in Kinds, S \in SUBSET Segments :
             /\ Begin(t, k, S)
             /\ k # "query" => PrimariesUp \/ "primary" \in Disturbances
             /\ k = "stop" => AllUp \/ "stop" \in Disturbances
<1>1. CASE BeginQuery(t)
  BY <1>1, ClientLinkAssumption DEF BeginQuery, Kinds
<1>2. CASE BeginUpdate(t)
  BY <1>2 DEF BeginUpdate, Kinds
<1>3. CASE BeginInsert(t)
  BY <1>3 DEF BeginInsert, Kinds
<1>4. CASE BeginStop(t)
  BY <1>4 DEF BeginStop, Kinds
<1> QED
  BY <1>1, <1>2, <1>3, <1>4 DEF BeginCall
-----------------------------------------------------------------------------
(* What the constants are. *)
LEMMA Constants ==
    /\ Nobody \notin Threads /\ NSegments \in Nat /\ NSegments > 0
    /\ NoSegment \notin Segments /\ NoSocket \notin Replicas /\ Mirrored \subseteq Segments
    /\ \A s \in Segments : Group[s] \in Servers
    /\ \A r \in Replicas : 3 - r \in Replicas
BY ClientLinkAssumption DEF Segments, Replicas, NoSegment, NoSocket, Servers

(* What fsp_write does to segment s with the mutex: it writes to replica u *)
(* if it can, closes the sockets C, which were down, and leaves x and X as *)
(* the socket in use and the open ones.                                    *)
QueryWrite(t, s, u, C, x, X) ==
    /\ kind[t] = "query" /\ owner[s] = Nobody
    /\ owner' = [owner EXCEPT ![s] = t]
    /\ socks' = [socks EXCEPT ![s] = x] /\ open' = [open EXCEPT ![s] = X]
    /\ (x = socks[s] /\ X = open[s]) \/ ({1, 2} \subseteq open[s] /\ X = {x})
    /\ Written(s, {u}, C, [from |-> t, of |-> kind[t]])
    /\ \A r \in C : ~ Writable(s, r)
    /\ via' = [via EXCEPT ![t][s] = u]
    /\ sent' = [sent EXCEPT ![t][s] = 1]
    /\ pass' = [pass EXCEPT ![t] = @ \ {s}]
    /\ sock' = [sock EXCEPT ![t] = NoSocket]
    /\ UNCHANGED <<kind, polled, count, calls>>

LEMMA QueryWritten ==
    ASSUME TypeOK, NEW t \in Threads, WriteQuery(t)
    PROVE  \E s \in Segments, u \in Replicas \cup {NoSocket}, C \in SUBSET Replicas,
              x \in Replicas, X \in SUBSET Replicas : QueryWrite(t, s, u, C, x, X)
<1> DEFINE first == sock[t]
           other == 3 - first
           switch(s) == ~Writable(s, first) /\ {1, 2} \subseteq open[s]
           used(s) == IF Writable(s, first) THEN first
                      ELSE IF switch(s) /\ Writable(s, other) THEN other ELSE NoSocket
           failed(s) == IF Writable(s, first) THEN {}
                        ELSE {first} \cup (IF switch(s) /\ used(s) = NoSocket THEN {other} ELSE {})
           turned(s) == IF switch(s) THEN other ELSE socks[s]
           left(s) == IF switch(s) THEN {other} ELSE open[s]
<1>1. PICK s \in pass[t] :
        /\ kind[t] = "query" /\ sock[t] # NoSocket /\ owner[s] = Nobody
        /\ owner' = [owner EXCEPT ![s] = t]
        /\ socks' = [socks EXCEPT ![s] = turned(s)] /\ open' = [open EXCEPT ![s] = left(s)]
        /\ Written(s, {used(s)}, failed(s), [from |-> t, of |-> kind[t]])
        /\ via' = [via EXCEPT ![t][s] = used(s)]
        /\ sent' = [sent EXCEPT ![t][s] = 1]
        /\ pass' = [pass EXCEPT ![t] = @ \ {s}]
        /\ sock' = [sock EXCEPT ![t] = NoSocket]
        /\ UNCHANGED <<kind, polled, count, calls>>
  BY Zenon DEF WriteQuery, TypeOK
<1>2. s \in Segments /\ sock[t] \in Replicas /\ other \in Replicas
  BY <1>1, Constants DEF TypeOK
<1>3. socks[s] \in Replicas /\ open[s] \in SUBSET Replicas
  BY <1>2 DEF TypeOK
<1>4. \A r \in failed(s) : ~ Writable(s, r)
  BY <1>2, Constants
<1>5. /\ used(s) \in Replicas \cup {NoSocket} /\ failed(s) \in SUBSET Replicas
      /\ turned(s) \in Replicas /\ left(s) \in SUBSET Replicas
  BY <1>2, <1>3
<1>6. \/ turned(s) = socks[s] /\ left(s) = open[s]
      \/ {1, 2} \subseteq open[s] /\ left(s) = {turned(s)}
  OBVIOUS
<1> HIDE DEF first, used, failed, turned, left
<1> QED
  BY <1>1, <1>2, <1>4, <1>5, <1>6, Zenon DEF QueryWrite

(* fsp_write of a query keeps the types. *)
LEMMA QueryTypes ==
    ASSUME TypeOK, Writers, NEW t \in Threads, WriteQuery(t)
    PROVE  TypeOK' /\ Writers'
<1> USE DEF link, local, network, count
<1> DEFINE msg == [from |-> t, of |-> kind[t]]
<1>1. PICK s \in Segments, u \in Replicas \cup {NoSocket}, C \in SUBSET Replicas,
           x \in Replicas, X \in SUBSET Replicas : QueryWrite(t, s, u, C, x, X)
  BY QueryWritten
<1>2. Written(s, {u}, C, msg)
  BY <1>1 DEF QueryWrite
<1>3. /\ owner' = [owner EXCEPT ![s] = t]
      /\ socks' = [socks EXCEPT ![s] = x]
      /\ open' = [open EXCEPT ![s] = X]
      /\ via' = [via EXCEPT ![t][s] = u]
      /\ sent' = [sent EXCEPT ![t][s] = 1]
      /\ pass' = [pass EXCEPT ![t] = pass[t] \ {s}]
      /\ sock' = [sock EXCEPT ![t] = NoSocket]
      /\ UNCHANGED <<kind, polled, count, calls>>
  BY <1>1 DEF QueryWrite, TypeOK
<1>5. msg \in Requests
  BY <1>1 DEF QueryWrite, Requests, Kinds
<1> HIDE DEF msg
<1>6. /\ wire' \in [Segments -> [Replicas -> Seq(Requests)]]
      /\ peer' \in [Segments -> [Replicas -> {"up", "gone", "reset", "closed"}]]
      /\ reply' \in [Segments -> [Replicas -> Seq(Threads)]]
  BY <1>2, <1>5, WrittenType
<1>7. /\ owner' \in [Segments -> Threads \cup {Nobody}]
      /\ socks' \in [Segments -> Replicas]
      /\ open' \in [Segments -> SUBSET Replicas]
  BY <1>3 DEF TypeOK
<1>8. /\ pass' \in [Threads -> SUBSET Segments]
      /\ sock' \in [Threads -> Replicas \cup {NoSocket}]
      /\ via' \in [Threads -> [Segments -> Replicas \cup {NoSocket}]]
      /\ sent' \in [Threads -> [Segments -> 0 .. 2]]
  BY <1>3 DEF TypeOK
<1>9. Writers'
  BY <1>3 DEF Writers, TypeOK
<1> QED
  BY <1>3, <1>6, <1>7, <1>8, <1>9, Zenon DEF TypeOK

(* fsp_write_replica keeps the types. *)
LEMMA UpdateTypes ==
    ASSUME TypeOK, Writers, NEW t \in Threads, WriteUpdate(t)
    PROVE  TypeOK' /\ Writers'
<1> USE DEF link, local, network, count
<1> DEFINE msg == [from |-> t, of |-> kind[t]]
<1>1. PICK s \in pass[t] :
          /\ Written(s, UpdateWrites(s), {}, msg)
          /\ owner' = [owner EXCEPT ![s] = t]
          /\ sent' = [sent EXCEPT ![t][s] = 1]
          /\ pass' = [pass EXCEPT ![t] = pass[t] \ {s}]
  BY Zenon DEF WriteUpdate, TypeOK
<1>2. s \in Segments /\ UNCHANGED <<socks, open, kind, sock, via, polled, count, calls>>
  BY <1>1 DEF WriteUpdate, TypeOK
<1>3. msg \in Requests
  BY DEF WriteUpdate, Requests, Kinds
<1> HIDE DEF msg
<1>4. /\ wire' \in [Segments -> [Replicas -> Seq(Requests)]]
      /\ peer' \in [Segments -> [Replicas -> {"up", "gone", "reset", "closed"}]]
      /\ reply' \in [Segments -> [Replicas -> Seq(Threads)]]
  BY <1>1, <1>2, <1>3, WrittenType
<1>5. Writers'
  BY <1>1, <1>2 DEF Writers, WriteUpdate, TypeOK
<1>6. /\ owner' \in [Segments -> Threads \cup {Nobody}]
      /\ sent' \in [Threads -> [Segments -> 0 .. 2]]
      /\ pass' \in [Threads -> SUBSET Segments]
  BY <1>1, <1>2 DEF TypeOK
<1> QED
  BY <1>2, <1>4, <1>5, <1>6 DEF TypeOK

(* message_recv keeps the types. *)
LEMMA ReceivedTypes ==
    ASSUME TypeOK, NEW t \in Threads, NEW s \in Segments, NEW R, Received(t, s, R)
    PROVE  /\ owner' \in [Segments -> Threads \cup {Nobody}]
           /\ reply' \in [Segments -> [Replicas -> Seq(Threads)]]
           /\ sent' \in [Threads -> [Segments -> 0 .. 2]]
           /\ UNCHANGED <<peer, wire, socks, open>>
<1> USE DEF link, local, network, count
<1> DEFINE Q == [r \in Replicas |-> IF r \in R /\ reply[s][r] # <<>> THEN Tail(reply[s][r]) ELSE reply[s][r]]
<1>1. Q \in [Replicas -> Seq(Threads)]
  BY DEF TypeOK
<1>2. reply' = [reply EXCEPT ![s] = Q]
  BY DEF Received, TypeOK
<1> HIDE DEF Q
<1> QED
  BY <1>1, <1>2 DEF Received, TypeOK

(* A round of the sending loop keeps the types. *)
LEMMA StopTypes ==
    ASSUME TypeOK, Writers, NEW t \in Threads, StopNext(t)
    PROVE  TypeOK' /\ Writers'
<1> USE DEF link, local, network, count
<1> DEFINE msg == [from |-> t, of |-> kind[t]]
<1>1. PICK s \in Eligible(t) :
          /\ SendStop(t, s) \/ UNCHANGED <<network, link, sent, count>>
          /\ pass' = [pass EXCEPT ![t] = {x \in pass[t] : x > s}]
  BY Zenon DEF StopNext, TypeOK
<1>2. /\ s \in Segments /\ kind[t] = "stop" /\ done' = done
      /\ UNCHANGED <<kind, sock, via, polled, calls>>
  BY <1>1 DEF StopNext, SendStop, Eligible, TypeOK
<1>3. Writers'
  BY <1>1, <1>2 DEF Writers, TypeOK
<1>4. CASE UNCHANGED <<network, link, sent, count>>
  BY <1>1, <1>2, <1>3, <1>4 DEF TypeOK
<1>5. CASE SendStop(t, s)
  <2>1. msg \in Requests
    BY <1>2 DEF Requests, Kinds
  <2>2. /\ wire' \in [Segments -> [Replicas -> Seq(Requests)]]
        /\ peer' \in [Segments -> [Replicas -> {"up", "gone", "reset", "closed"}]]
        /\ reply' \in [Segments -> [Replicas -> Seq(Threads)]]
    BY <1>2, <1>5, <2>1, WrittenType DEF SendStop
  <2>3. /\ waiting' \in [Threads -> Int]
        /\ working' \in [Threads -> [Servers -> Int]]
        /\ UNCHANGED done
    BY <1>2, <1>5, Constants DEF SendStop, TypeOK
  <2>4. /\ owner' \in [Segments -> Threads \cup {Nobody}]
        /\ sent' \in [Threads -> [Segments -> 0 .. 2]]
        /\ UNCHANGED <<socks, open>>
    BY <1>2, <1>5 DEF SendStop, TypeOK
  <2> QED
    BY <1>1, <1>2, <1>3, <2>2, <2>3, <2>4, Zenon DEF TypeOK
<1> QED
  BY <1>1, <1>4, <1>5

(* Reading an answer to the end of an import keeps the types. *)
LEMMA StopAnswerTypes ==
    ASSUME TypeOK, Writers, NEW t \in Threads, ReadStopAnswer(t)
    PROVE  TypeOK' /\ Writers'
<1> USE DEF link, local, network, count
<1> DEFINE s == polled[t]
<1>1. s \in Segments
  BY DEF ReadStopAnswer, TypeOK
<1>2. Received(t, s, UpdateReads(s))
  BY DEF ReadStopAnswer
<1>3. /\ done' = [done EXCEPT ![t] = @ + 1]
      /\ waiting' = [waiting EXCEPT ![t] = @ - 1]
      /\ working' = [working EXCEPT ![t][Group[s]] = @ - 1]
  BY DEF ReadStopAnswer
<1> HIDE DEF s
<1>4. /\ done' \in [Threads -> Nat]
      /\ waiting' \in [Threads -> Int]
      /\ working' \in [Threads -> [Servers -> Int]]
  BY <1>1, <1>3, Constants DEF TypeOK
<1>5. /\ polled' \in [Threads -> Segments \cup {NoSegment}]
      /\ pass' \in [Threads -> SUBSET Segments]
      /\ UNCHANGED <<kind, sock, via, calls>>
  BY DEF ReadStopAnswer, TypeOK
<1>6. Writers'
  BY <1>5, Constants, Zenon DEF ReadStopAnswer, Writers, TypeOK
<1> QED
  BY <1>1, <1>2, <1>4, <1>5, <1>6, ReceivedTypes, Zenon DEF TypeOK

(* An answer of a backend keeps the types. *)
LEMMA ServeTypes ==
    ASSUME TypeOK, Writers, NEW s \in Segments, NEW r \in Replicas, Serve(s, r)
    PROVE  TypeOK' /\ Writers'
<1> USE DEF link, local, network, count
<1>1. wire[s][r] \in Seq(Requests) /\ wire[s][r] # <<>> /\ reply[s][r] \in Seq(Threads)
  BY DEF Serve, TypeOK
<1>2. Tail(wire[s][r]) \in Seq(Requests) /\ Head(wire[s][r]).from \in Threads
  <2>1. Tail(wire[s][r]) \in Seq(Requests) /\ Head(wire[s][r]) \in Requests
    BY <1>1
  <2> QED
    BY <2>1 DEF Requests
<1>3. Append(reply[s][r], Head(wire[s][r]).from) \in Seq(Threads)
  BY <1>1, <1>2
<1>4. wire' \in [Segments -> [Replicas -> Seq(Requests)]]
  BY <1>2 DEF Serve, TypeOK
<1>5. reply' \in [Segments -> [Replicas -> Seq(Threads)]]
  BY <1>1, <1>3 DEF Serve, TypeOK
<1> QED
  BY <1>4, <1>5 DEF Serve, TypeOK, Writers

(* The loss of a connection keeps the types. *)
LEMMA LoseTypes ==
    ASSUME TypeOK, Writers, NEW s \in Segments, NEW r \in Replicas, Lose(s, r)
    PROVE  TypeOK' /\ Writers'
<1> USE DEF link, local, network, count
<1>1. <<>> \in Seq(Requests) /\ <<>> \in Seq(Threads)
  OBVIOUS
<1>2. wire' \in [Segments -> [Replicas -> Seq(Requests)]]
  BY <1>1 DEF Lose, TypeOK
<1>3. PICK q \in {reply[s][r], <<>>} : reply' = [reply EXCEPT ![s][r] = q]
  BY DEF Lose, TypeOK
<1>4. reply' \in [Segments -> [Replicas -> Seq(Threads)]]
  <2>1. q \in Seq(Threads)
    <3>1. reply[s][r] \in Seq(Threads)
      BY DEF TypeOK
    <3> QED
      BY <1>1, <1>3, <3>1, Zenon
  <2> QED
    BY <1>3, <2>1 DEF TypeOK
<1>5. PICK p \in {"gone", "reset"} : peer' = [peer EXCEPT ![s][r] = p]
  BY DEF Lose
<1>6. peer' \in [Segments -> [Replicas -> {"up", "gone", "reset", "closed"}]]
  BY <1>5 DEF TypeOK
<1> QED
  BY <1>2, <1>4, <1>6, Zenon DEF Lose, TypeOK, Writers

(* Every step keeps the types. *)
LEMMA TypeStep == TypeOK /\ Writers /\ [Next]_vars => TypeOK' /\ Writers'
<1> SUFFICES ASSUME TypeOK, Writers, [Next]_vars
             PROVE  TypeOK' /\ Writers'
  OBVIOUS
<1> USE DEF link, local, network, count
<1>1. ASSUME NEW t \in Threads, BeginCall(t)
      PROVE  TypeOK' /\ Writers'
  <2>1. PICK k \in Kinds, S \in SUBSET Segments : Begin(t, k, S)
    BY <1>1, BeginAny
  <2>2. calls' \in [Threads -> 0 .. MaxCalls]
    BY <2>1, ClientLinkAssumption DEF Begin, TypeOK
  <2>3. TypeOK'
    BY <2>1, <2>2 DEF Begin, TypeOK
  <2>4. Writers'
    BY <2>1 DEF Begin, TypeOK, Writers, Kinds
  <2> QED
    BY <2>3, <2>4
<1>2. ASSUME NEW t \in Threads, LookUpSocket(t)
      PROVE  TypeOK' /\ Writers'
  <2>1. PICK s \in pass[t] : sock' = [sock EXCEPT ![t] = socks[s]]
    BY <1>2, Zenon DEF LookUpSocket
  <2>2. socks[s] \in Replicas
    BY <2>1 DEF TypeOK
  <2> QED
    BY <1>2, <2>1, <2>2, SMTT(60) DEF LookUpSocket, TypeOK, Writers
<1>3. ASSUME NEW t \in Threads, WriteQuery(t)
      PROVE  TypeOK' /\ Writers'
  BY <1>3, QueryTypes
<1>4. ASSUME NEW t \in Threads, WriteUpdate(t)
      PROVE  TypeOK' /\ Writers'
  BY <1>4, UpdateTypes
<1>5. ASSUME NEW t \in Threads, InsertWritten(t)
      PROVE  TypeOK' /\ Writers'
  <2>1. /\ kind[t] = "insert" /\ kind' = [kind EXCEPT ![t] = "idle"]
        /\ sent' = [sent EXCEPT ![t] = NotSent]
        /\ UNCHANGED <<network, socks, open, pass, sock, via, polled, count, calls>>
    BY <1>5 DEF InsertWritten
  <2>2. Writers'
    BY <2>1 DEF Writers, TypeOK
  <2>3. owner' \in [Segments -> Threads \cup {Nobody}]
    BY <1>5 DEF InsertWritten, TypeOK
  <2>4. kind' \in [Threads -> Kinds \cup {"idle"}] /\ sent' \in [Threads -> [Segments -> 0 .. 2]]
    BY <2>1 DEF TypeOK, NotSent
  <2> QED
    BY <2>1, <2>2, <2>3, <2>4, Zenon DEF TypeOK
<1>7. ASSUME NEW t \in Threads, ReadAnswer(t) \/ ReadUpdateAnswer(t)
      PROVE  TypeOK' /\ Writers'
  <2>1. PICK s \in Segments : \E R : Received(t, s, R)
    BY <1>7, Zenon DEF ReadAnswer, ReadUpdateAnswer, Waiting
  <2>2. UNCHANGED <<kind, pass, sock, via, polled, count, calls>>
    BY <1>7 DEF ReadAnswer, ReadUpdateAnswer
  <2>3. Writers'
    BY <2>2 DEF Writers
  <2>4. /\ owner' \in [Segments -> Threads \cup {Nobody}]
        /\ reply' \in [Segments -> [Replicas -> Seq(Threads)]]
        /\ sent' \in [Threads -> [Segments -> 0 .. 2]]
        /\ UNCHANGED <<peer, wire, socks, open>>
    BY <2>1, ReceivedTypes
  <2> QED
    BY <2>2, <2>3, <2>4, Zenon DEF TypeOK
<1>8. ASSUME NEW t \in Threads, Return(t)
      PROVE  TypeOK' /\ Writers'
  <2>1. NoWork \in [Servers -> Int]
    BY DEF NoWork
  <2> QED
    BY <1>8, <2>1 DEF Return, TypeOK, Writers, NotSent
<1>9. ASSUME NEW t \in Threads, StopNext(t)
      PROVE  TypeOK' /\ Writers'
  BY <1>9, StopTypes
<1>10. ASSUME NEW t \in Threads, WaitForAnswers(t)
       PROVE  TypeOK' /\ Writers'
  <2>1. PICK s \in Segments : polled' = [polled EXCEPT ![t] = s]
    BY <1>10, Zenon DEF WaitForAnswers, Ready
  <2>2. /\ kind[t] = "stop" /\ done[t] # NSegments
        /\ UNCHANGED <<network, link, kind, pass, sock, via, sent, count, calls>>
    BY <1>10 DEF WaitForAnswers
  <2>3. \A x \in Threads : x # t => polled'[x] = polled[x]
    BY <2>1 DEF TypeOK
  <2>4. Writers'
    BY <2>2, <2>3 DEF Writers
  <2>5. polled' \in [Threads -> Segments \cup {NoSegment}]
    BY <2>1 DEF TypeOK
  <2> QED
    BY <2>2, <2>4, <2>5, Zenon DEF TypeOK
<1>11. ASSUME NEW t \in Threads, ReadStopAnswer(t)
       PROVE  TypeOK' /\ Writers'
  BY <1>11, StopAnswerTypes
<1>12. ASSUME NEW s \in Segments, NEW r \in Replicas, Serve(s, r)
       PROVE  TypeOK' /\ Writers'
  BY <1>12, ServeTypes
<1>13. ASSUME NEW s \in Segments, NEW r \in Replicas, Lose(s, r)
       PROVE  TypeOK' /\ Writers'
  BY <1>13, LoseTypes
<1>14. CASE UNCHANGED vars
  BY <1>14 DEF vars, TypeOK, Writers
<1> QED
  BY <1>1, <1>2, <1>3, <1>4, <1>5, <1>7, <1>8, <1>9, <1>10, <1>11, <1>12, <1>13, <1>14 DEF Next, Step
-----------------------------------------------------------------------------
(* Type correctness, whichever connections are lost: in particular the     *)
(* socket that fsp_write uses, the segment that fsp_stop_import_all reads  *)
(* from and the counters of its servers are always ones that exist.        *)
THEOREM TypeCorrect == Spec => [](TypeOK /\ Writers)
<1>1. Init => TypeOK
  <2> SUFFICES ASSUME Init
               PROVE  TypeOK
    OBVIOUS
  <2>1. <<>> \in Seq(Requests) /\ <<>> \in Seq(Threads)
    OBVIOUS
  <2>2. 0 \in 0 .. MaxCalls
    BY ClientLinkAssumption
  <2> QED
    BY <2>1, <2>2 DEF Init, TypeOK, Replicas, NotSent, NoWork
<1>2. Init => Writers
  BY DEF Init, Writers
<1>3. TypeOK /\ Writers /\ [Next]_vars => TypeOK' /\ Writers'
  BY TypeStep
<1> QED
  BY <1>1, <1>2, <1>3, PTL DEF Spec
-----------------------------------------------------------------------------
(* What WaitsAreAnswered says of one connection. *)
ConnectionOK(s, r) ==
    peer[s][r] = "up" =>
        IF owner[s] # Nobody /\ r \in Reads(owner[s], s)
        THEN \/ reply[s][r] = <<owner[s]>> /\ Due(s, r) = {}
             \/ /\ reply[s][r] = <<>>
                /\ \E i \in Due(s, r) : Due(s, r) = {i} /\ wire[s][r][i].from = owner[s]
        ELSE reply[s][r] = <<>> /\ Due(s, r) = {}

(* A request that is appended is the last one due, if it is answered. *)
LEMMA DueAppended ==
    ASSUME TypeOK, NEW s \in Segments, NEW r \in Replicas, NEW msg,
           wire'[s][r] = Append(wire[s][r], msg), Due(s, r) = {}
    PROVE  /\ IsAnswered(msg) => \E i \in Due(s, r)' : Due(s, r)' = {i} /\ wire'[s][r][i] = msg
           /\ ~ IsAnswered(msg) => Due(s, r)' = {}
<1> DEFINE w == wire[s][r]
           v == wire'[s][r]
           n == Len(w) + 1
<1>1. w \in Seq(Requests)
  BY DEF TypeOK
<1>2. DOMAIN w = 1 .. Len(w) /\ Len(w) \in Nat
  BY <1>1
<1>3. DOMAIN v = 1 .. n /\ v[n] = msg /\ \A i \in 1 .. Len(w) : v[i] = w[i]
  BY <1>1
<1>4. Due(s, r)' = {i \in DOMAIN v : IsAnswered(v[i])}
  BY DEF Due
<1>5. \A i \in DOMAIN w : ~ IsAnswered(w[i])
  BY DEF Due
<1> HIDE DEF w, v
<1>6. \A i \in DOMAIN v : i # n => ~ IsAnswered(v[i])
  BY <1>2, <1>3, <1>5
<1>7. n \in DOMAIN v
  BY <1>2, <1>3
<1>8. IsAnswered(msg) => Due(s, r)' = {n}
  BY <1>3, <1>4, <1>6, <1>7
<1>9. ~ IsAnswered(msg) => Due(s, r)' = {}
  BY <1>3, <1>4, <1>6, <1>7, SMTT(60)
<1> QED
  BY <1>3, <1>8, <1>9 DEF v

(* A connection nothing was done to, of a segment whose mutex and reader   *)
(* have not changed.                                                       *)
LEMMA SameConnection ==
    ASSUME NEW s \in Segments, NEW r \in Replicas, ConnectionOK(s, r),
           peer'[s][r] = "up" => /\ peer[s][r] = "up"
                                 /\ wire'[s][r] = wire[s][r] /\ reply'[s][r] = reply[s][r],
           owner'[s] = owner[s],
           owner[s] # Nobody => /\ kind'[owner[s]] = kind[owner[s]]
                                /\ via'[owner[s]][s] = via[owner[s]][s]
                                /\ open'[s] = open[s]
    PROVE  ConnectionOK(s, r)'
<1> DEFINE o == owner[s]
<1>1. o # Nobody => (r \in Reads(o, s))' = (r \in Reads(o, s))
  BY DEF Reads, UpdateReads
<1>2. peer'[s][r] = "up" => Due(s, r)' = Due(s, r)
  BY DEF Due
<1> QED
  BY <1>1, <1>2 DEF ConnectionOK

(* A connection nobody is going to read from, with nothing due. *)
LEMMA IdleConnection ==
    ASSUME NEW s \in Segments, NEW r \in Replicas,
           peer'[s][r] = "up" => /\ owner'[s] = Nobody
                                 /\ reply'[s][r] = <<>> /\ Due(s, r)' = {}
    PROVE  ConnectionOK(s, r)'
BY DEF ConnectionOK

(* An update, an insert or a stop is written to segment s. *)
LEMMA UpdateRequested ==
    ASSUME TypeOK, Sockets, Connections, WaitsAreAnswered,
           NEW t \in Threads, NEW s \in Segments, kind[t] \in {"update", "insert", "stop"},
           owner[s] = Nobody, owner' = [owner EXCEPT ![s] = t],
           Written(s, UpdateWrites(s), {}, [from |-> t, of |-> kind[t]]),
           UNCHANGED <<open, kind, via>>
    PROVE  \A x \in Segments, r \in Replicas : ConnectionOK(x, r)'
<1> SUFFICES ASSUME NEW x \in Segments, NEW r \in Replicas
             PROVE  ConnectionOK(x, r)'
  OBVIOUS
<1> DEFINE msg == [from |-> t, of |-> kind[t]]
           R == UpdateWrites(s)
<1>1. ConnectionOK(x, r)
  BY DEF WaitsAreAnswered, ConnectionOK
<1>2. /\ reply' = reply
      /\ wire'[x][r] = IF x = s /\ r \in R /\ peer[x][r] = "up"
                       THEN Append(wire[x][r], msg) ELSE wire[x][r]
      /\ peer'[x][r] = "up" => peer[x][r] = "up"
  <2>1. Written(s, R, {}, msg)
    OBVIOUS
  <2> HIDE DEF R, msg
  <2> QED
    BY <2>1, WrittenFacts
<1>3. owner'[s] = t /\ (x # s => owner'[x] = owner[x])
  BY SMTT(60) DEF TypeOK
<1>4. CASE x # s
  BY <1>1, <1>2, <1>3, <1>4, SameConnection, SMTT(60)
<1>5. CASE x = s
  <2> SUFFICES ASSUME peer'[s][r] = "up"
               PROVE  ConnectionOK(s, r)'
    BY <1>5, SMTT(60) DEF ConnectionOK
  <2>1. peer[s][r] = "up" /\ reply[s][r] = <<>> /\ Due(s, r) = {} /\ reply'[s][r] = <<>>
    BY <1>1, <1>2, <1>5, SMTT(60) DEF ConnectionOK
  <2>2. t # Nobody
    BY Constants, SMTT(60)
  <2>3. CASE kind[t] = "insert"
    <3>1. r \notin Reads(t, s)'
      BY <2>3, SMTT(60) DEF Reads
    <3>2. ~ IsAnswered(msg)
      BY <2>3, Zenon DEF IsAnswered
    <3>3. Due(s, r)' = {}
      <4> HIDE DEF msg, R
      <4>1. CASE r \in R
        BY <1>2, <1>5, <2>1, <3>2, <4>1, DueAppended, SMTT(60)
      <4>2. CASE r \notin R
        BY <1>2, <1>5, <2>1, <4>2, SMTT(60) DEF Due
      <4> QED
        BY <4>1, <4>2, SMTT(60)
    <3> QED
      BY <1>3, <2>1, <3>1, <3>3, Zenon DEF ConnectionOK
  <2>4. CASE kind[t] \in {"update", "stop"}
    <3>1. Reads(t, s)' = open[s]
      BY <2>4, SMTT(60) DEF Reads, UpdateReads
    <3>2. CASE r \in open[s]
      <4>1. Writable(s, 1)
        BY <2>1, <2>4, <3>2, ZenonT(60) DEF Connections, PrimariesUp, Sockets, Writable
      <4>2. r \in R
        BY <2>1, <3>2, <4>1, ZenonT(60) DEF UpdateWrites, Writable
      <4>3. IsAnswered(msg) /\ msg.from = t
        BY <2>4, SMTT(60) DEF IsAnswered
      <4> HIDE DEF msg, R
      <4>4. \E i \in Due(s, r)' : Due(s, r)' = {i} /\ wire'[s][r][i] = msg
        BY <1>2, <1>5, <2>1, <4>2, <4>3, DueAppended, SMTT(60)
      <4> QED
        BY <1>3, <2>1, <2>2, <3>1, <3>2, <4>3, <4>4, SMTT(60) DEF ConnectionOK
    <3>3. CASE r \notin open[s]
      <4>1. r \notin R
        BY <3>3 DEF UpdateWrites
      <4> HIDE DEF msg, R
      <4>2. Due(s, r)' = {}
        BY <1>2, <1>5, <2>1, <4>1 DEF Due
      <4> QED
        BY <1>3, <2>1, <3>1, <3>3, <4>2, SMTT(60) DEF ConnectionOK
    <3> QED
      BY <3>2, <3>3
  <2> QED
    BY <2>3, <2>4, SMTT(60)
<1> QED
  BY <1>4, <1>5

(* The answers to the request of thread t to segment s are read. *)
LEMMA AnswersRead ==
    ASSUME TypeOK, WaitsAreAnswered,
           NEW t \in Threads, NEW s \in Segments, owner[s] = t,
           Received(t, s, Reads(t, s)), UNCHANGED <<kind, via>>
    PROVE  \A x \in Segments, r \in Replicas : ConnectionOK(x, r)'
<1> SUFFICES ASSUME NEW x \in Segments, NEW r \in Replicas
             PROVE  ConnectionOK(x, r)'
  OBVIOUS
<1> DEFINE R == Reads(t, s)
<1>1. ConnectionOK(x, r)
  BY DEF WaitsAreAnswered, ConnectionOK
<1>2. t # Nobody
  BY Constants
<1>3. /\ reply'[x][r] = IF x = s /\ r \in R /\ reply[x][r] # <<>>
                        THEN Tail(reply[x][r]) ELSE reply[x][r]
      /\ peer' = peer /\ wire' = wire /\ open' = open
      /\ owner'[s] = Nobody /\ (x # s => owner'[x] = owner[x])
      /\ \A q \in R : Receivable(s, q)
  <2> HIDE DEF R
  <2>1. Received(t, s, R)
    BY DEF R
  <2>2. /\ peer' = peer /\ wire' = wire /\ open' = open
        /\ owner' = [owner EXCEPT ![s] = Nobody]
        /\ \A q \in R : Receivable(s, q)
    BY <2>1 DEF Received
  <2>3. owner'[s] = Nobody /\ (x # s => owner'[x] = owner[x])
    BY <2>2 DEF TypeOK
  <2>4. reply' = [reply EXCEPT ![s] = [q \in Replicas |->
            IF q \in R /\ reply[s][q] # <<>> THEN Tail(reply[s][q]) ELSE reply[s][q]]]
    BY <2>1, ZenonT(60) DEF Received, TypeOK
  <2>5. reply'[x][r] = IF x = s /\ r \in R /\ reply[x][r] # <<>>
                       THEN Tail(reply[x][r]) ELSE reply[x][r]
    <3>1. reply \in [Segments -> [Replicas -> Seq(Threads)]]
      BY DEF TypeOK
    <3> QED
      BY <2>4, <3>1
  <2> QED
    BY <2>2, <2>3, <2>5
<1>4. CASE x # s
  BY <1>1, <1>3, <1>4, SameConnection
<1>5. CASE x = s
  <2> SUFFICES ASSUME peer[s][r] = "up"
               PROVE  reply'[s][r] = <<>> /\ Due(s, r)' = {}
    BY <1>3, <1>5, IdleConnection, SMTT(60)
  <2>1. Due(s, r)' = Due(s, r)
    BY <1>3, SMTT(60) DEF Due
  <2>2. CASE r \in R
    <3>1. reply[s][r] # <<>>
      BY <1>3, <2>2 DEF Receivable
    <3>2. reply[s][r] = <<t>> /\ Due(s, r) = {}
      BY <1>1, <1>2, <1>5, <2>2, <3>1 DEF ConnectionOK
    <3>3. Tail(<<t>>) = <<>>
      OBVIOUS
    <3> QED
      BY <1>3, <1>5, <2>1, <2>2, <3>1, <3>2, <3>3, ZenonT(60)
  <2>3. CASE r \notin R
    <3>1. reply[s][r] = <<>> /\ Due(s, r) = {}
      BY <1>1, <1>2, <1>5, <2>3 DEF ConnectionOK
    <3> QED
      BY <1>3, <1>5, <2>1, <2>3, <3>1, SMTT(60)
  <2> QED
    BY <2>2, <2>3, SMTT(60)
<1> QED
  BY <1>4, <1>5

(* The backend handles the first request on a connection. *)
LEMMA RequestServed ==
    ASSUME TypeOK, NEW s \in Segments, NEW r \in Replicas, Serve(s, r), ConnectionOK(s, r)
    PROVE  ConnectionOK(s, r)'
<1> DEFINE w == wire[s][r]
           v == wire'[s][r]
           n == Len(w)
           o == owner[s]
<1>1. w \in Seq(Requests) /\ w # <<>>
  BY DEF TypeOK, Serve
<1>2. v = Tail(w) /\ Head(w) = w[1]
  BY <1>1 DEF TypeOK, Serve
<1>3. n \in Nat /\ n >= 1 /\ DOMAIN w = 1 .. n /\ DOMAIN v = 1 .. n - 1
      /\ \A i \in 1 .. n - 1 : v[i] = w[i + 1]
  BY <1>1, <1>2
<1>4. reply'[s][r] = IF IsAnswered(w[1]) THEN Append(reply[s][r], w[1].from) ELSE reply[s][r]
  BY <1>2 DEF TypeOK, Serve
<1>5. peer[s][r] = "up" /\ UNCHANGED <<owner, kind, via, open>>
  BY DEF Serve, link, local
<1>6. (o # Nobody /\ r \in Reads(o, s))' = (o # Nobody /\ r \in Reads(o, s))
  BY <1>5 DEF Reads, UpdateReads
<1>7. /\ Due(s, r) = {i \in 1 .. n : IsAnswered(w[i])}
      /\ Due(s, r)' = {i \in 1 .. n - 1 : IsAnswered(v[i])}
  BY <1>3, SMTT(60) DEF Due
<1>8. ConnectionOK(s, r)' <=>
        (peer'[s][r] = "up" =>
           IF o # Nobody /\ r \in Reads(o, s)
           THEN \/ reply'[s][r] = <<o>> /\ Due(s, r)' = {}
                \/ /\ reply'[s][r] = <<>>
                   /\ \E i \in Due(s, r)' : Due(s, r)' = {i} /\ v[i].from = o
           ELSE reply'[s][r] = <<>> /\ Due(s, r)' = {})
  BY <1>5, <1>6, ZenonT(60) DEF ConnectionOK
<1> HIDE DEF w, v, n, o
<1>9. CASE Due(s, r) = {}
  <2>1. ~ IsAnswered(w[1])
    <3>1. 1 \in 1 .. n
      BY <1>3
    <3> QED
      BY <1>7, <1>9, <3>1, ZenonT(60)
  <2>2. Due(s, r)' = {}
    BY <1>3, <1>7, <1>9
  <2>3. reply'[s][r] = reply[s][r]
    BY <1>4, <2>1
  <2> QED
    BY <1>5, <1>8, <1>9, <2>2, <2>3, ZenonT(60) DEF ConnectionOK, o
<1>10. CASE Due(s, r) # {}
  <2>1. /\ o # Nobody /\ r \in Reads(o, s) /\ reply[s][r] = <<>>
        /\ \E i \in Due(s, r) : Due(s, r) = {i} /\ w[i].from = o
    BY <1>5, <1>10 DEF ConnectionOK, o, w
  <2>2. PICK i \in 1 .. n : Due(s, r) = {i} /\ w[i].from = o
    BY <1>7, <2>1
  <2>3. \A j \in 1 .. n : IsAnswered(w[j]) <=> j = i
    BY <1>7, <2>2, SMTT(60)
  <2>4. CASE i = 1
    <3>1. reply'[s][r] = <<o>>
      BY <1>4, <1>3, <2>1, <2>2, <2>3, <2>4
    <3>2. \A j \in 1 .. n - 1 : ~ IsAnswered(v[j])
      BY <1>3, <2>3, <2>4, SMTT(60)
    <3>3. Due(s, r)' = {}
      BY <1>7, <3>2, SMTT(60)
    <3> QED
      BY <1>8, <2>1, <3>1, <3>3, SMTT(60)
  <2>5. CASE i # 1
    <3>1. reply'[s][r] = <<>>
      BY <1>3, <1>4, <2>1, <2>3, <2>5
    <3>2. i - 1 \in 1 .. n - 1 /\ v[i - 1] = w[i]
      BY <1>3, <2>5
    <3>3. \A j \in 1 .. n - 1 : IsAnswered(v[j]) <=> j = i - 1
      BY <1>3, <2>3, <2>5
    <3>4. Due(s, r)' = {i - 1}
      BY <1>7, <3>2, <3>3, SMTT(60)
    <3> QED
      BY <1>8, <2>1, <2>2, <3>1, <3>2, <3>4, SMTT(60)
  <2> QED
    BY <2>4, <2>5
<1> QED
  BY <1>9, <1>10
(* A connection the backend or the network does nothing to. *)
LEMMA OtherConnection ==
    ASSUME TypeOK, NEW s \in Segments, NEW q \in Replicas, Serve(s, q) \/ Lose(s, q),
           NEW x \in Segments, NEW r \in Replicas, x # s \/ r # q
    PROVE  wire'[x][r] = wire[x][r] /\ reply'[x][r] = reply[x][r] /\ peer'[x][r] = peer[x][r]
<1>1. CASE Serve(s, q)
  <2>1. /\ wire \in [Segments -> [Replicas -> Seq(Requests)]]
        /\ reply \in [Segments -> [Replicas -> Seq(Threads)]]
    BY DEF TypeOK
  <2>2. \E w, a : /\ wire' = [wire EXCEPT ![s][q] = w]
                  /\ reply' = [reply EXCEPT ![s][q] = a]
                  /\ UNCHANGED peer
    BY <1>1, ZenonT(60) DEF Serve
  <2> QED
    BY <2>1, <2>2
<1>2. CASE Lose(s, q)
  <2>1. wire'[x][r] = wire[x][r]
    BY <1>2 DEF Lose, TypeOK
  <2>2. PICK st \in {"gone", "reset"} : peer' = [peer EXCEPT ![s][q] = st]
    BY <1>2 DEF Lose
  <2>3. peer'[x][r] = peer[x][r]
    BY <2>2 DEF TypeOK
  <2>4. reply' = reply \/ reply' = [reply EXCEPT ![s][q] = <<>>]
    BY <1>2 DEF Lose
  <2>5. reply'[x][r] = reply[x][r]
    <3>1. CASE reply' = reply
      BY <3>1
    <3>2. CASE reply' = [reply EXCEPT ![s][q] = <<>>]
      BY <3>2, SMTT(60) DEF TypeOK
    <3> QED
      BY <2>4, <3>1, <3>2
  <2> QED
    BY <2>1, <2>3, <2>5
<1> QED
  BY <1>1, <1>2

(* fsp_write of a query. *)
LEMMA QueryRequested ==
    ASSUME TypeOK, NEW t \in Threads, WriteQuery(t),
           \A x \in Segments, r \in Replicas : ConnectionOK(x, r)
    PROVE  \A x \in Segments, r \in Replicas : ConnectionOK(x, r)'
<1> USE DEF link, local, network, count
<1>a. /\ owner \in [Segments -> Threads \cup {Nobody}]
      /\ open \in [Segments -> SUBSET Replicas]
      /\ kind \in [Threads -> Kinds \cup {"idle"}]
      /\ via \in [Threads -> [Segments -> Replicas \cup {NoSocket}]]
  BY DEF TypeOK
<1>b. \A x \in Segments : owner[x] \in Threads \cup {Nobody}
  BY <1>a
<1>c. t # Nobody /\ \A q \in Replicas : q # NoSocket
  BY Constants
<1> DEFINE msg == [from |-> t, of |-> kind[t]]
<1>1. PICK s \in Segments, u \in Replicas \cup {NoSocket}, C \in SUBSET Replicas,
           y \in Replicas, X \in SUBSET Replicas : QueryWrite(t, s, u, C, y, X)
  BY QueryWritten
<1>2. IsAnswered(msg) /\ msg.from = t
  BY <1>1 DEF QueryWrite, IsAnswered
<1>3. Written(s, {u}, C, msg) /\ via' = [via EXCEPT ![t][s] = u]
  BY <1>1 DEF QueryWrite
<1> HIDE DEF msg
<1>4. /\ owner[s] = Nobody /\ owner' = [owner EXCEPT ![s] = t]
      /\ open' = [open EXCEPT ![s] = X] /\ kind' = kind /\ kind[t] = "query"
  BY <1>1 DEF QueryWrite
<1>5. \A x \in Segments : x # s => owner'[x] = owner[x] /\ open'[x] = open[x]
  BY <1>a, <1>4
<1>6. /\ reply' = reply
      /\ \A x \in Segments, r \in Replicas :
           wire'[x][r] = IF x = s /\ r \in {u} /\ peer[x][r] = "up"
                         THEN Append(wire[x][r], msg) ELSE wire[x][r]
      /\ \A x \in Segments, r \in Replicas : peer'[x][r] = "up" => peer[x][r] = "up"
  BY <1>3, WrittenFacts
<1>7. /\ via'[t][s] = u
      /\ \A z \in Threads, x \in Segments : x # s => via'[z][x] = via[z][x]
  BY <1>a, <1>3
<1> SUFFICES ASSUME NEW x \in Segments, NEW r \in Replicas
             PROVE  ConnectionOK(x, r)'
  OBVIOUS
<1>8. CASE x # s
  <2>1. owner[x] # Nobody => owner[x] \in Threads
    BY <1>b
  <2> QED
    BY <1>4, <1>5, <1>6, <1>7, <1>8, <2>1, SameConnection, ZenonT(60)
<1>9. CASE x = s /\ peer'[x][r] = "up"
  <2>1. peer[x][r] = "up" /\ reply[x][r] = <<>> /\ Due(x, r) = {} /\ reply'[x][r] = <<>>
    BY <1>4, <1>6, <1>9 DEF ConnectionOK
  <2>2. owner'[x] = t /\ t # Nobody
    BY <1>a, <1>c, <1>4, <1>9
  <2>3. Reads(t, x)' = {u} \ {NoSocket}
    BY <1>4, <1>7, <1>9 DEF Reads
  <2>4. r # NoSocket
    BY <1>c, SMTT(60)
  <2>5. CASE r = u
    <3>1. wire'[x][r] = Append(wire[x][r], msg)
      BY <1>6, <1>9, <2>1, <2>5, ZenonT(60)
    <3>2. \E i \in Due(x, r)' : Due(x, r)' = {i} /\ wire'[x][r][i] = msg
      BY <1>2, <2>1, <3>1, DueAppended, ZenonT(60)
    <3> QED
      BY <1>2, <1>9, <2>1, <2>2, <2>3, <2>4, <2>5, <3>2, ZenonT(60) DEF ConnectionOK
  <2>6. CASE r # u
    <3>1. wire'[x][r] = wire[x][r]
      BY <1>6, <1>9, <2>6, ZenonT(60)
    <3>2. Due(x, r)' = {}
      BY <2>1, <3>1, ZenonT(60) DEF Due
    <3> QED
      BY <1>9, <2>1, <2>2, <2>3, <2>6, <3>2, Zenon DEF ConnectionOK
  <2> QED
    BY <2>5, <2>6
<1>10. CASE peer'[x][r] # "up"
  BY <1>10, Zenon DEF ConnectionOK
<1> QED
  BY <1>8, <1>9, <1>10
=============================================================================
