------------------------------ MODULE TreeRing ------------------------------
(***************************************************************************)
(* The open predicate trees of a segment: backend/backend.c.               *)
(*                                                                         *)
(* A segment has a subject tree and an object tree for every predicate,    *)
(* more files than a process may map.  ptrees_priv holds a reference for   *)
(* each predicate, and a ring lists the ones that are open: opening one    *)
(* too many closes the one opened first.  The two trees of a predicate are *)
(* opened and closed together, so that one flag stands for both.           *)
(***************************************************************************)
EXTENDS Naturals, Sequences, SequencesExt, FiniteSets

CONSTANTS
    TreePreds,  \* the predicates
    TreeRows,   \* what may be stored under a predicate
    MaxOpen,    \* FS_MAX_OPEN_PTREES
    OddRing     \* which of the sequences below may happen

(* "wipe": predicates that need an eviction after all models were deleted; *)
(* "held": an eviction while remove_by_search holds a tree.                *)
ASSUME TreeRingAssumption ==
    /\ MaxOpen \in Nat \ {0}
    /\ OddRing \subseteq {"wipe", "held"}

VARIABLES
    tr,         \* the backend structure of the process
    tr_list,    \* the file of predicates, in the order of their first use
    tr_file,    \* tr_file[p]: the rows in the files of the trees of p
    tr_want,    \* tr_want[p]: the rows imported under p and not removed
    tr_held,    \* the entry remove_by_search holds, or NoTree
    tr_wrong    \* a row was looked for in the trees of another predicate

tr_vars == <<tr, tr_list, tr_file, tr_want, tr_held, tr_wrong>>

NoTree == MaxOpen + Cardinality(TreePreds)
Trees(t) == DOMAIN t.trees
Length(t) == Cardinality(Trees(t))
OpenTrees(t) == {n \in Trees(t) : t.trees[n].open}

\* calloc: no reference, an empty ring.
NewProcess ==
    [trees |-> [n \in {} |-> 0], ring |-> [i \in 0 .. (MaxOpen - 1) |-> 0],
     oldest |-> 0, newest |-> 0, count |-> 0, id |-> [p \in {} |-> 0],
     trunc |-> FALSE]
-----------------------------------------------------------------------------
(* Opening a tree.  The operators map a backend structure to the next one; *)
(* Truncates says whether the files of the predicate are emptied by it.    *)

Evicted(t) ==
    IF t.count < MaxOpen THEN t
    ELSE [t EXCEPT !.trees[t.ring[t.oldest]].open = FALSE,
                   !.oldest = (@ + 1) % MaxOpen, !.count = @ - 1]

ptree_limited_open(t, n) ==
    IF t.trees[n].open THEN t
    ELSE LET e == Evicted(t)
             p == t.trees[n].pred
         IN [e EXCEPT !.trees[n].open = TRUE,
                      !.ring[e.newest] = n,
                      !.id = [q \in DOMAIN @ \cup {p} |-> IF q = p THEN n ELSE @[q]],
                      !.newest = (@ + 1) % MaxOpen,
                      !.count = @ + 1]

\* Mutant: the flags of the first opening are kept, with O_TRUNC for a new file.
TruncatesNew(t, n) == ~t.trees[n].open /\ t.count >= MaxOpen

Truncates(t, n) == ~t.trees[n].open /\ t.trunc

\* g_hash_table_lookup gives 0 for an unknown predicate.

Lookup(t, p) ==
    LET id == IF p \in DOMAIN t.id THEN t.id[p] ELSE 0
    IN IF id = 0 /\ (Length(t) = 0 \/ t.trees[0].pred # p) THEN NoTree ELSE id

\* fs_backend_open_ptree: a reference at the end, and its trees opened.
Appended1(t, p) ==
    [t EXCEPT !.trees =
        [n \in 0 .. Length(t) |->
            IF n = Length(t) THEN [pred |-> p, open |-> FALSE] ELSE t.trees[n]]]
open_ptree(t, p) == ptree_limited_open(Appended1(t, p), Length(t))

open_files(t, list, trunc) ==
    FoldLeft(open_ptree, [t EXCEPT !.trunc = trunc], list)

\* fs_backend_close_files: the positions in the ring stay where they were.
close_files(t) ==
    [t EXCEPT !.trees = [n \in {} |-> 0], !.count = 0, !.id = [p \in {} |-> 0]]

\* fs_backend_unlink_indexes: every tree is opened, unlinked and closed, and
\* stays counted as open.
Unlinked(t, n) == [ptree_limited_open(t, n) EXCEPT !.trees[n].open = FALSE]
unlink_indexes(t) ==
    [FoldLeft(Unlinked, t, [i \in 1 .. Length(t) |-> i - 1])
        EXCEPT !.trees = [n \in {} |-> 0]]
-----------------------------------------------------------------------------
(* What the process does with the trees. *)

TR_Init ==
    /\ tr = NewProcess
    /\ tr_list = << >>
    /\ tr_file = [p \in TreePreds |-> {}]
    /\ tr_want = [p \in TreePreds |-> {}]
    /\ tr_held = NoTree
    /\ tr_wrong = FALSE

\* The trees of n are reached through the backend.
Reach(t, n) ==
    /\ Cardinality(OpenTrees(t)) >= MaxOpen /\ ~t.trees[n].open =>
          /\ t.trunc => "wipe" \in OddRing
          /\ tr_held # NoTree => "held" \in OddRing
    /\ tr' = ptree_limited_open(t, n)

Emptied(t, n) ==
    IF Truncates(t, n) THEN [tr_file EXCEPT ![t.trees[n].pred] = {}] ELSE tr_file

(* fs_quad_import_commit: a row under p.  The trees of a new predicate are *)
(* made, and the row goes to the entry at the position the predicate got   *)
(* in the file of predicates.                                              *)
Store(p, r) ==
    LET n == Lookup(tr, p)
        new == n = NoTree
        t == IF new THEN Appended1(tr, p) ELSE tr
        k == IF new THEN Length(tr) ELSE n
        q == t.trees[IF new THEN Len(tr_list) ELSE n].pred
        f == Emptied(t, k)
    IN /\ tr_held = NoTree
       /\ Reach(t, k)
       /\ tr_list' = IF new THEN Append(tr_list, p) ELSE tr_list
       /\ tr_file' = [f EXCEPT ![q] = @ \cup {r}]
       /\ tr_want' = [tr_want EXCEPT ![p] = @ \cup {r}]
       /\ tr_wrong' = (q # p)
       /\ UNCHANGED tr_held

(* A query, or the check of a triple of a marked chain, for p. *)
Ask1(p) ==
    LET n == Lookup(tr, p)
    IN /\ n # NoTree
       /\ Reach(tr, n)
       /\ tr_file' = Emptied(tr, n)
       /\ tr_wrong' = (tr.trees[n].pred # p)
       /\ UNCHANGED <<tr_list, tr_want, tr_held>>

(* remove_by_search takes the trees of p and walks the chain of the model; *)
(* on a marked chain the iterator asks the trees of every triple, Ask1.    *)
BeginRemove(p) ==
    LET n == Lookup(tr, p)
    IN /\ tr_held = NoTree /\ n # NoTree
       /\ Reach(tr, n)
       /\ tr_held' = n
       /\ tr_file' = Emptied(tr, n)
       /\ UNCHANGED <<tr_list, tr_want, tr_wrong>>

RemoveHeld(r) ==
    /\ tr_held # NoTree
    /\ LET p == tr.trees[tr_held].pred
       IN /\ tr_file' = [tr_file EXCEPT ![p] = @ \ {r}]
          /\ tr_want' = [tr_want EXCEPT ![p] = @ \ {r}]
    /\ UNCHANGED <<tr, tr_list, tr_held, tr_wrong>>

EndRemove ==
    /\ tr_held # NoTree
    /\ tr_held' = NoTree
    /\ UNCHANGED <<tr, tr_list, tr_file, tr_want, tr_wrong>>

(* fs_delete_models on all models: the indexes are unlinked, the files     *)
(* closed and opened again with O_TRUNC.                                   *)
DeleteAll ==
    /\ tr_held = NoTree
    /\ tr' = open_files(close_files(unlink_indexes(tr)), << >>, TRUE)
    /\ tr_list' = << >>
    /\ tr_file' = [p \in TreePreds |-> {}]
    /\ tr_want' = [p \in TreePreds |-> {}]
    /\ UNCHANGED <<tr_held, tr_wrong>>

(* The connection ends, and the child of a new one opens the files. *)
NextProcess ==
    /\ tr_held = NoTree
    /\ tr' = open_files(NewProcess, tr_list, FALSE)
    /\ UNCHANGED <<tr_list, tr_file, tr_want, tr_held, tr_wrong>>

TR_Next ==
    \/ \E p \in TreePreds : Ask1(p) \/ BeginRemove(p)
    \/ \E p \in TreePreds, r \in TreeRows : Store(p, r)
    \/ \E r \in TreeRows : RemoveHeld(r)
    \/ EndRemove \/ DeleteAll \/ NextProcess

TR_Spec == TR_Init /\ [][TR_Next]_tr_vars
-----------------------------------------------------------------------------
(* The properties. *)

(* No more trees are open than FS_MAX_OPEN_PTREES, and the count of them,  *)
(* which fs_backend_ptree_limited_open compares with that limit, is right: *)
(* it closes an open tree whenever it must, across evictions and the       *)
(* opening of trees that were closed.                                      *)
OpenTreesWithinLimit ==
    Cardinality(OpenTrees(tr)) = tr.count /\ tr.count <= MaxOpen

(* Closing a tree and opening it again keeps its rows: what the files hold *)
(* under a predicate is what was imported under it and not removed.        *)
TreesKeepTheirRows == tr_file = tr_want

(* The trees remove_by_search works on stay open until it is done with     *)
(* them: it uses their mapping without asking the backend again.           *)
HeldTreeIsOpen == tr_held # NoTree => tr.trees[tr_held].open

(* fs_backend_get_ptree gives the trees of the predicate it is asked for,  *)
(* although 0 in the map means both the first tree and no tree.            *)
LookupIsExact == ~tr_wrong

(* Every user of the trees of a predicate gets them, open and with the     *)
(* rows they had, although only MaxOpen of them are open at a time.        *)
RingKeepsTrees == OpenTreesWithinLimit /\ TreesKeepTheirRows /\ HeldTreeIsOpen /\ LookupIsExact
=============================================================================
