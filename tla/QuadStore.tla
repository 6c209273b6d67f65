----------------------------- MODULE QuadStore -----------------------------
(***************************************************************************)
(* What a segment promises its clients: a set of quads.  Inserted quads    *)
(* are pending until they are completed, and may be lost with the          *)
(* connection; completed quads stay until they are deleted.                *)
(***************************************************************************)
CONSTANTS Models, Triples, NULL

VARIABLES graph, pending

Quads == Models \X Triples

Init == graph = {} /\ pending = {}

Insert(q) == pending' = pending \cup {q} /\ UNCHANGED graph

(* Some pending quads become part of the graph; no other leaves the queue. *)
Complete ==
    /\ graph \subseteq graph' /\ graph' \subseteq graph \cup pending
    /\ pending' \subseteq pending /\ pending \subseteq pending' \cup graph'

Lose == pending' = {} /\ UNCHANGED graph

(* Delete a triple from one model, or from all of them. *)
DeleteQuad(m, t) ==
    graph' = {q \in graph : ~(q[2] = t /\ m \in {NULL, q[1]})} /\ UNCHANGED pending
DeleteModels(D) == graph' = {q \in graph : q[1] \notin D} /\ UNCHANGED pending
DeleteAll == graph' = {} /\ UNCHANGED pending

Next ==
    \/ \E q \in Quads : Insert(q)
    \/ Complete
    \/ Lose
    \/ \E m \in Models \cup {NULL}, t \in Triples : DeleteQuad(m, t)
    \/ \E D \in SUBSET Models : DeleteModels(D)
    \/ DeleteAll

Spec == Init /\ [][Next]_<<graph, pending>>
=============================================================================
