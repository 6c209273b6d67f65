----------------------------- MODULE PairLists -----------------------------
(***************************************************************************)
(* What the pair table and a predicate tree promise to the code above      *)
(* them: for every owner (a leaf of a tree, or a key of the tree) a list   *)
(* of (model, object) pairs, the newest first.                             *)
(***************************************************************************)
EXTENDS Naturals, Sequences

CONSTANTS
    Owners,     \* who has a list
    Models,     \* the first half of a pair
    Objects,    \* the second half
    NULL        \* FS_RID_NULL in a pattern: matches everything

VARIABLES
    list,       \* list[o]: the pairs of o
    reply       \* what the last call reported, if it was a removal

Pairs == Models \X Objects
Patterns == (Models \cup {NULL}) \X (Objects \cup {NULL})

Matches(pair, pattern) == \A i \in {1, 2} : pattern[i] \in {NULL, pair[i]}
Matching(pairs, pattern) == SelectSeq(pairs, LAMBDA p : Matches(p, pattern))
Without(pairs, pattern) == SelectSeq(pairs, LAMBDA p : ~Matches(p, pattern))

(* The models that a removal reports: those of the removed pairs, if the   *)
(* pattern names no model.                                                 *)
Reported(pairs, pattern) ==
    IF pattern[1] # NULL THEN {}
    ELSE {Matching(pairs, pattern)[i][1] : i \in DOMAIN Matching(pairs, pattern)}

NoReply == [removed |-> 0, models |-> {}]

Init ==
    /\ list = [o \in Owners |-> << >>]
    /\ reply = NoReply

Add(o, pair) ==
    /\ list' = [list EXCEPT ![o] = <<pair>> \o @]
    /\ reply' = NoReply

Remove(o, pattern) ==
    /\ list' = [list EXCEPT ![o] = Without(@, pattern)]
    /\ reply' = [removed |-> Len(Matching(list[o], pattern)),
                 models |-> Reported(list[o], pattern)]

RemoveAll(pattern) ==
    /\ list' = [o \in Owners |-> Without(list[o], pattern)]
    /\ reply' = NoReply

Next ==
    \/ \E o \in Owners : \/ \E pair \in Pairs : Add(o, pair)
                         \/ \E pattern \in Patterns : Remove(o, pattern)
    \/ \E pattern \in Patterns : RemoveAll(pattern)

Spec == Init /\ [][Next]_<<list, reply>>
=============================================================================
