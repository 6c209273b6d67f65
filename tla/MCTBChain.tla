----------------------------- MODULE MCTBChain -----------------------------
(* Two models and two triples in a file that starts with one usable block  *)
(* and may double once.  Models and triples are only compared with each    *)
(* other.  The file never holds more than MaxSlots slots: with blocks of   *)
(* two that is enough for a full block behind the head of either chain, a  *)
(* deleted triple beside a live one and a block back on the free list.     *)
EXTENDS TBChain, TLC, FiniteSetsExt

CONSTANT MaxSlots

Few == MapThenSumSet(LAMBDA b : Len(slots[b]), Blocks) <= MaxSlots
Perms == Permutations(Models) \cup Permutations(Triples)
=============================================================================
