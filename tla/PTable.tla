------------------------------- MODULE PTable -------------------------------
(***************************************************************************)
(* The pair table of one segment: backend/ptable.c.                        *)
(*                                                                         *)
(* A memory mapped array of rows holds (model, object) pairs.  The rows of *)
(* one leaf of a predicate tree form a chain linked by cont, and unused    *)
(* rows form a free list.  Row 0 is reserved.  A leaf keeps the first row  *)
(* of its chain in its field block (backend/ptree.c).                      *)
(*                                                                         *)
(* fs_ptable_remove_pair is modelled row by row: block still points at the *)
(* old first row while the loop runs.                                      *)
(***************************************************************************)
EXTENDS Naturals, Sequences, FiniteSets

CONSTANTS
    Leaves,     \* the leaves that own chains
    Models, Objects, NULL,
    MaxRows     \* bound: rows in the table, the reserved row 0 included

ASSUME PTableAssumption ==
    /\ NULL \notin Models \cup Objects
    /\ MaxRows \in Nat \ {0}

VARIABLES
    length,     \* header->length: the rows ever used, row 0 included
    cont,       \* cont[r]: the next row of r's chain or of the free list, or 0
    data,       \* data[r]: the pair in row r
    freeList,   \* header->free_list
    block,      \* block[l]: the first row of leaf l, or 0
    loop,       \* the removal in progress, as a set of at most one
    reply       \* what the call that just ended reported, if a removal

pb_vars == <<length, cont, data, freeList, block, loop, reply>>

Pairs == Models \X Objects
Patterns == (Models \cup {NULL}) \X (Objects \cup {NULL})
Rows == 1 .. (length - 1)
NoReply == [removed |-> 0, models |-> {}]
-----------------------------------------------------------------------------
(* A new table; the first row that is allocated is row 1. *)
PB_Init ==
    /\ length = 1
    /\ cont = << >>
    /\ data = << >>
    /\ freeList = 0
    /\ block = [l \in Leaves |-> 0]
    /\ loop = {}
    /\ reply = NoReply

\* Mutant: the row stays on the free list.
ReuseRowKeepingList(l, pair) ==
    /\ loop = {}
    /\ freeList # 0
    /\ UNCHANGED freeList
    /\ cont' = [cont EXCEPT ![freeList] = block[l]]
    /\ data' = [data EXCEPT ![freeList] = pair]
    /\ block' = [block EXCEPT ![l] = freeList]
    /\ reply' = NoReply
    /\ UNCHANGED <<length, loop>>

(* fs_ptable_add_pair with a row that fs_ptable_new_row takes from the     *)
(* free list,                                                              *)
ReuseRow(l, pair) ==
    /\ loop = {}
    /\ freeList # 0
    /\ freeList' = cont[freeList]
    /\ cont' = [cont EXCEPT ![freeList] = block[l]]
    /\ data' = [data EXCEPT ![freeList] = pair]
    /\ block' = [block EXCEPT ![l] = freeList]
    /\ reply' = NoReply
    /\ UNCHANGED <<length, loop>>

(* and with a new row. *)
NewRow(l, pair) ==
    /\ loop = {}
    /\ freeList = 0
    /\ length < MaxRows
    /\ length' = length + 1
    /\ cont' = Append(cont, block[l])
    /\ data' = Append(data, pair)
    /\ block' = [block EXCEPT ![l] = length]
    /\ reply' = NoReply
    /\ UNCHANGED <<freeList, loop>>

(* fs_ptable_remove_pair is called for a leaf that has rows. *)
RemoveStart(l, pattern) ==
    /\ loop = {}
    /\ block[l] # 0
    /\ loop' = {[leaf |-> l, pattern |-> pattern, row |-> block[l], prev |-> 0,
                 ret |-> block[l], removed |-> 0, models |-> {}]}
    /\ reply' = NoReply
    /\ UNCHANGED <<length, cont, data, freeList, block>>

Matches(pair, pattern) == \A i \in {1, 2} : pattern[i] \in {NULL, pair[i]}

(* The models set collects the models of removed rows only when the        *)
(* pattern has a wildcard for the model.                                   *)
Noted(x) == IF x.pattern[1] = NULL THEN {data[x.row][1]} ELSE {}

\* Mutant: the loop reads cont after the row was put on the free list.
RemoveRowFollowingFree ==
    \E x \in loop :
        /\ x.row # 0
        /\ Matches(data[x.row], x.pattern)
        /\ cont' = [r \in Rows |-> IF r = x.row THEN freeList
                                   ELSE IF r = x.prev THEN cont[x.row] ELSE cont[r]]
        /\ freeList' = x.row
        /\ loop' = {[x EXCEPT !.row = freeList,
                              !.ret = IF x.prev = 0 THEN cont[x.row] ELSE @,
                              !.models = @ \cup Noted(x)]}
        /\ UNCHANGED <<length, data, block, reply>>

\* Mutant: the model is noted whatever the pattern says.
RemoveRowNotingAll ==
    \E x \in loop :
        /\ x.row # 0
        /\ Matches(data[x.row], x.pattern)
        /\ cont' = [r \in Rows |-> IF r = x.row THEN freeList
                                   ELSE IF r = x.prev THEN cont[x.row] ELSE cont[r]]
        /\ freeList' = x.row
        /\ loop' = {[x EXCEPT !.row = cont[x.row],
                              !.ret = IF x.prev = 0 THEN cont[x.row] ELSE @,
                              !.removed = @ + 1,
                              !.models = @ \cup {data[x.row][1]}]}
        /\ UNCHANGED <<length, data, block, reply>>

(* One turn of the loop: the row matches and is freed, *)
RemoveRow ==
    \E x \in loop :
        /\ x.row # 0
        /\ Matches(data[x.row], x.pattern)
        /\ cont' = [r \in Rows |-> IF r = x.row THEN freeList
                                   ELSE IF r = x.prev THEN cont[x.row] ELSE cont[r]]
        /\ freeList' = x.row
        /\ loop' = {[leaf |-> x.leaf, pattern |-> x.pattern, row |-> cont[x.row], prev |-> x.prev,
                     ret |-> IF x.prev = 0 THEN cont[x.row] ELSE x.ret,
                     removed |-> x.removed + 1, models |-> x.models \cup Noted(x)]}
        /\ UNCHANGED <<length, data, block, reply>>

(* or it stays. *)
KeepRow ==
    \E x \in loop :
        /\ x.row # 0
        /\ ~Matches(data[x.row], x.pattern)
        /\ loop' = {[x EXCEPT !.row = cont[x.row], !.prev = x.row]}
        /\ UNCHANGED <<length, cont, data, freeList, block, reply>>

(* The loop ends; the leaf gets the first row that is left. *)
RemoveEnd ==
    \E x \in loop :
        /\ x.row = 0
        /\ block' = [block EXCEPT ![x.leaf] = x.ret]
        /\ reply' = [removed |-> x.removed, models |-> x.models]
        /\ loop' = {}
        /\ UNCHANGED <<length, cont, data, freeList>>

PB_Next ==
    \/ \E l \in Leaves, pair \in Pairs : ReuseRow(l, pair) \/ NewRow(l, pair)
    \/ \E l \in Leaves, pattern \in Patterns : RemoveStart(l, pattern)
    \/ RemoveRow
    \/ KeepRow
    \/ RemoveEnd

(* The loop is a sequential piece of one request, so it is run to its end. *)
PB_Spec == PB_Init /\ [][PB_Next]_pb_vars /\ WF_pb_vars(RemoveRow \/ KeepRow \/ RemoveEnd)
-----------------------------------------------------------------------------

(* The first row of what leaf l owns: in a removal that is a local variable *)
(* of the loop.                                                             *)
start == [l \in Leaves |-> IF \E x \in loop : x.leaf = l
                           THEN (CHOOSE x \in loop : TRUE).ret
                           ELSE block[l]]

(* Every row of the table has exactly one link to it, from its chain, from *)
(* the leaf, or from the free list ("some kind of badness", "rows have     *)
(* leaked").  While rows are being removed the chain is still whole.       *)
OneReference ==
    /\ \A r, s \in Rows : cont[r] # 0 /\ cont[r] = cont[s] => r = s
    /\ \A l, k \in Leaves : start[l] # 0 /\ start[l] = start[k] => l = k
    /\ \A l \in Leaves, r \in Rows : start[l] # 0 => cont[r] # start[l]
    /\ freeList # 0 => /\ \A r \in Rows : cont[r] # freeList
                       /\ \A l \in Leaves : start[l] # freeList
    /\ \A r \in Rows : \/ r = freeList
                       \/ \E l \in Leaves : start[l] = r
                       \/ \E s \in Rows : cont[s] = r

(* A removal ends: no chain has a loop that would keep the process in it. *)
RemovalEnds == loop # {} ~> loop = {}
-----------------------------------------------------------------------------
(* The pairs in the chain from row r on; a chain has fewer than length     *)
(* rows.                                                                   *)
Chain(r) ==
    LET C[n \in 0 .. length, s \in {0} \cup Rows] ==
            IF s = 0 \/ n = 0 THEN << >> ELSE <<data[s]>> \o C[n - 1, cont[s]]
    IN C[length, r]
PairsOf(rows, Test(_)) == SelectSeq(Chain(rows), Test)

(* The removal takes effect, as far as the lists are concerned, when it is *)
(* called: what the loop has yet to reach counts as removed if it matches. *)
listed ==
    [l \in Leaves |->
        IF \E x \in loop : x.leaf = l
        THEN LET x == CHOOSE x \in loop : TRUE
             IN PairsOf(x.ret, LAMBDA p : ~Matches(p, x.pattern))
        ELSE Chain(block[l])]
replied ==
    IF loop = {} THEN reply
    ELSE LET x == CHOOSE x \in loop : TRUE
             rest == PairsOf(x.row, LAMBDA p : Matches(p, x.pattern))
         IN [removed |-> x.removed + Len(rest),
             models |-> x.models \cup (IF x.pattern[1] # NULL THEN {}
                                       ELSE {rest[i][1] : i \in DOMAIN rest})]

TableLists == INSTANCE PairLists WITH Owners <- Leaves, list <- listed, reply <- replied

(* The table keeps for every leaf the list of its pairs, and a removal     *)
(* takes out exactly the pairs that match and reports their models.        *)
TableImplementsPairLists == TableLists!Spec
=============================================================================
