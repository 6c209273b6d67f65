--------------------------- MODULE MCSegmentStore ---------------------------
(* Two models and two triples with a predicate each. *)
EXTENDS SegmentStore, TLC

CONSTANTS t1, t2, p1, p2
MCPred == (t1 :> p1) @@ (t2 :> p2)
=============================================================================
