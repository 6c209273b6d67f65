------------------------------ MODULE TBChain ------------------------------
(***************************************************************************)
(* The triple block chains of one segment: backend/tbchain.c, with the     *)
(* chain heads as the model hash (backend/mhash.c) stores them.            *)
(*                                                                         *)
(* A chain is a linked list of fixed size blocks.  All the chains of a     *)
(* segment and one free list share a memory mapped array of blocks, linked *)
(* by the field cont; blocks 0 and 1 are reserved.  Triples are appended   *)
(* to the head block, and a full head gets a new block in front of it.     *)
(*                                                                         *)
(* Deleting quads does not touch the chains.  It sets the bit SUPERSET on  *)
(* the head, and the next iteration over the chain asks the predicate      *)
(* trees about every triple, overwrites the ones that are gone and clears  *)
(* the bit when it reaches the end.  The predicate trees are another       *)
(* component; here they are the set live[m] of triples of model m.         *)
(***************************************************************************)
EXTENDS Naturals, Sequences, FiniteSets

CONSTANTS
    Models,     \* the models (graphs) of the segment
    Triples,    \* the triples
    GONE,       \* FS_RID_GONE: a slot whose triple is known to be deleted
    None,       \* no model
    BlockLen,   \* FS_TBLOCK_LEN: triples in a block
    InitSize,   \* TBCHAIN_INIT_SIZE: blocks in a new file
    MaxSize     \* bound: the file does not grow past this many blocks

ASSUME TBChainAssumption ==
    /\ GONE \notin Triples
    /\ None \notin Models
    /\ BlockLen \in Nat \ {0}
    /\ InitSize \in Nat /\ InitSize > 2
    /\ MaxSize \in Nat

VARIABLES
    size,       \* header->size, always equal to header->length
    cont,       \* cont[b]: the next block of b's chain or free list, or 0
    slots,      \* slots[b]: the length first triples of block b
    superset,   \* the blocks with the bit FS_TBCHAIN_SUPERSET set
    freeList,   \* header->free_list
    head,       \* head[m]: the block the model hash holds for m, or 0
    removing,   \* the model whose chain is being freed, or None
    cursor,     \* the block the freeing loop has reached
    it,         \* the iterator
    live        \* live[m]: the triples the predicate trees have for m

fileVars == <<size, cont, slots, superset, freeList>>
vars == <<fileVars, head, removing, cursor, it, live>>

Blocks == 2 .. (size - 1)
Slot == Triples \cup {GONE}
NoIt == [model |-> None, node |-> 0, pos |-> 0, superset |-> FALSE]
Iterators == [model : Models, node : {0} \cup Blocks, pos : Nat \ {0},
              superset : BOOLEAN]

\* The process serves one request at a time: no request is half done.
Idle == removing = None /\ it = NoIt
-----------------------------------------------------------------------------
(* A new file: every block is freed in ascending order. *)

InitCont == [b \in 2 .. (InitSize - 1) |-> IF b = 2 THEN 0 ELSE b - 1]

Init ==
    /\ size = InitSize
    /\ cont = InitCont
    /\ slots = [b \in 2 .. (InitSize - 1) |-> << >>]
    /\ superset = {}
    /\ freeList = InitSize - 1
    /\ head = [m \in Models |-> 0]
    /\ removing = None
    /\ cursor = 0
    /\ it = NoIt
    /\ live = [m \in Models |-> {}]

(* The file when a block is taken: with the free list empty it first       *)
(* doubles, and the new blocks are freed in ascending order.               *)
CanAllocate == freeList # 0 \/ 2 * size <= MaxSize
NewSize == IF freeList # 0 THEN size ELSE 2 * size
NewFree == IF freeList # 0 THEN freeList ELSE 2 * size - 1
GrownCont ==
    [b \in 2 .. (NewSize - 1) |->
        IF b < size THEN cont[b] ELSE IF b = size THEN 0 ELSE b - 1]
GrownSlots == [b \in 2 .. (NewSize - 1) |-> IF b < size THEN slots[b] ELSE << >>]

\* Mutant: the new head is not linked to the block it follows.
PushLooseBlock(m, next, super, t) ==
    /\ CanAllocate
    /\ size' = NewSize
    /\ freeList' = GrownCont[NewFree]
    /\ cont' = [GrownCont EXCEPT ![NewFree] = 0]
    /\ slots' = [GrownSlots EXCEPT ![NewFree] = <<t>>]
    /\ superset' = (superset \ {NewFree}) \cup (IF super THEN {NewFree} ELSE {})
    /\ head' = [head EXCEPT ![m] = NewFree]

(* fs_tbchain_new_block, then the block becomes the head of a chain that   *)
(* continues at next, and t is its only triple.                            *)
PushBlock(m, next, super, t) ==
    /\ CanAllocate
    /\ size' = NewSize
    /\ freeList' = GrownCont[NewFree]
    /\ cont' = [GrownCont EXCEPT ![NewFree] = next]
    /\ slots' = [GrownSlots EXCEPT ![NewFree] = <<t>>]
    /\ superset' = (superset \ {NewFree}) \cup (IF super THEN {NewFree} ELSE {})
    /\ head' = [head EXCEPT ![m] = NewFree]

(* The import of a quad into a model without a chain. *)
NewChain(m, t) ==
    /\ Idle
    /\ head[m] = 0
    /\ PushBlock(m, 0, FALSE, t)
    /\ live' = [live EXCEPT ![m] = @ \cup {t}]
    /\ UNCHANGED <<removing, cursor, it>>

(* fs_tbchain_add_triple when the head block is full. *)
AddBlock(m, t) ==
    /\ Idle
    /\ head[m] # 0
    /\ Len(slots[head[m]]) + 1 > BlockLen
    /\ PushBlock(m, head[m], head[m] \in superset, t)
    /\ live' = [live EXCEPT ![m] = @ \cup {t}]
    /\ UNCHANGED <<removing, cursor, it>>

(* fs_tbchain_add_triple when the head block has room. *)
AddTriple(m, t) ==
    /\ Idle
    /\ head[m] # 0
    /\ Len(slots[head[m]]) + 1 <= BlockLen
    /\ slots' = [slots EXCEPT ![head[m]] = Append(@, t)]
    /\ live' = [live EXCEPT ![m] = @ \cup {t}]
    /\ UNCHANGED <<size, cont, superset, freeList, head, removing, cursor, it>>

(* fs_delete_quads: the quad leaves the predicate trees, and the chain of  *)
(* its model is marked as a superset of what is left.                      *)
DeleteQuad(m, t) ==
    /\ Idle
    /\ live' = [live EXCEPT ![m] = @ \ {t}]
    /\ IF head[m] > 1
       THEN superset' = superset \cup {head[m]}
       ELSE UNCHANGED superset
    /\ UNCHANGED <<size, cont, slots, freeList, head, removing, cursor, it>>

(* fs_tbchain_remove_chain, called when model m is deleted: the model's    *)
(* quads have left the predicate trees, and the loop starts at the head.   *)
RemoveChain(m) ==
    /\ Idle
    /\ head[m] # 0
    /\ removing' = m
    /\ cursor' = head[m]
    /\ live' = [live EXCEPT ![m] = {}]
    /\ UNCHANGED <<fileVars, head, it>>

\* Mutant: the loop reads cont after the block was put on the free list.
FreeBlockFollowingFree ==
    /\ removing # None
    /\ cont' = [cont EXCEPT ![cursor] = freeList]
    /\ freeList' = cursor
    /\ cursor' = freeList
    /\ IF freeList = 0
       THEN /\ head' = [head EXCEPT ![removing] = 0]
            /\ removing' = None
       ELSE UNCHANGED <<head, removing>>
    /\ UNCHANGED <<size, slots, superset, it, live>>

\* Mutant: only the head block is freed.
FreeHeadOnly ==
    /\ removing # None
    /\ cont' = [cont EXCEPT ![cursor] = freeList]
    /\ freeList' = cursor
    /\ cursor' = 0
    /\ head' = [head EXCEPT ![removing] = 0]
    /\ removing' = None
    /\ UNCHANGED <<size, slots, superset, it, live>>

(* One turn of its loop: fs_tbchain_free_block(b).  After the last one the *)
(* model's usage is set to 0 in the model hash.                            *)
FreeBlock ==
    /\ removing # None
    /\ cont' = [cont EXCEPT ![cursor] = freeList]
    /\ freeList' = cursor
    /\ cursor' = cont[cursor]
    /\ IF cont[cursor] = 0
       THEN /\ head' = [head EXCEPT ![removing] = 0]
            /\ removing' = None
       ELSE UNCHANGED <<head, removing>>
    /\ UNCHANGED <<size, slots, superset, it, live>>

(* fs_tbchain_new_iterator: the superset bit is read once, here. *)
NewIterator(m) ==
    /\ Idle
    /\ head[m] # 0
    /\ it' = [model |-> m, node |-> head[m], pos |-> 1,
              superset |-> head[m] \in superset]
    /\ UNCHANGED <<fileVars, head, removing, cursor, live>>

(* The branches of the loop in fs_tbchain_it_next: at the end of the chain *)
ItEnd ==
    /\ it # NoIt
    /\ it.node = 0
    /\ superset' = IF it.superset
                   THEN superset \ {head[it.model]}
                   ELSE superset
    /\ it' = NoIt
    /\ UNCHANGED <<size, cont, slots, freeList, head, removing, cursor, live>>

(* at the end of a block *)
ItNextBlock ==
    /\ it # NoIt
    /\ it.node # 0
    /\ it.pos > Len(slots[it.node])
    /\ it' = [it EXCEPT !.node = cont[it.node], !.pos = 1]
    /\ UNCHANGED <<fileVars, head, removing, cursor, live>>

(* at a slot: a triple that the trees no longer have is overwritten when   *)
(* the chain was marked, any other triple is returned to the caller.       *)
ItSlot ==
    /\ it # NoIt
    /\ it.node # 0
    /\ it.pos <= Len(slots[it.node])
    /\ LET t == slots[it.node][it.pos]
       IN IF it.superset /\ t # GONE /\ t \notin live[it.model]
          THEN slots' = [slots EXCEPT ![it.node][it.pos] = GONE]
          ELSE UNCHANGED slots
    /\ it' = [it EXCEPT !.pos = @ + 1]
    /\ UNCHANGED <<size, cont, superset, freeList, head, removing, cursor, live>>

(* fs_tbchain_it_free before the end: the caller has reached its limit. *)
ItFree ==
    /\ it # NoIt
    /\ it' = NoIt
    /\ UNCHANGED <<fileVars, head, removing, cursor, live>>

(* The whole segment is emptied: fs_delete_models with the null model      *)
(* reopens the files with O_TRUNC.                                         *)
Truncate ==
    /\ Idle
    /\ size' = InitSize
    /\ cont' = InitCont
    /\ slots' = [b \in 2 .. (InitSize - 1) |-> << >>]
    /\ superset' = {}
    /\ freeList' = InitSize - 1
    /\ head' = [m \in Models |-> 0]
    /\ live' = [m \in Models |-> {}]
    /\ UNCHANGED <<removing, cursor, it>>

Next ==
    \/ \E m \in Models, t \in Triples :
          \/ NewChain(m, t)
          \/ AddBlock(m, t)
          \/ AddTriple(m, t)
          \/ DeleteQuad(m, t)
    \/ \E m \in Models : RemoveChain(m) \/ NewIterator(m)
    \/ FreeBlock
    \/ ItEnd
    \/ ItNextBlock
    \/ ItSlot
    \/ ItFree
    \/ Truncate

Spec == Init /\ [][Next]_vars
-----------------------------------------------------------------------------
TypeOK ==
    /\ size \in Nat /\ size > 2
    /\ cont \in [Blocks -> {0} \cup Blocks]
    /\ slots \in [Blocks -> Seq(Slot)]
    /\ superset \subseteq Blocks
    /\ freeList \in {0} \cup Blocks
    /\ head \in [Models -> {0} \cup Blocks]
    /\ removing \in Models \cup {None}
    /\ cursor \in {0} \cup Blocks
    /\ it \in Iterators \cup {NoIt}
    /\ live \in [Models -> SUBSET Triples]

(* The first block of what each model still owns: while its chain is being *)
(* freed that is the loop's cursor.                                        *)
start == [m \in Models |-> IF m = removing THEN cursor ELSE head[m]]

(* No block is linked from two places.  A second link to a block makes two *)
(* models share triples, or hands out a block that is in use ("appears in  *)
(* chain %d and chain %d", "appears in the free list and chain %d").       *)
NoTwoLinks ==
    /\ \A b, c \in Blocks : cont[b] # 0 /\ cont[b] = cont[c] => b = c
    /\ \A m, n \in Models : start[m] # 0 /\ start[m] = start[n] => m = n
    /\ \A m \in Models, b \in Blocks : start[m] # 0 => cont[b] # start[m]
    /\ freeList # 0 => /\ \A b \in Blocks : cont[b] # freeList
                       /\ \A m \in Models : start[m] # freeList

(* No block is lost: each one is linked from somewhere ("does not appear   *)
(* in any chain, or the free list").                                       *)
NoLeak ==
    \A b \in Blocks :
        \/ b = freeList
        \/ \E m \in Models : start[m] = b
        \/ \E c \in Blocks : cont[c] = b

(* Every block of the file has exactly one link to it: from a chain, from  *)
(* the model hash, from the free list or from the loop that frees a chain. *)
OneReference == NoTwoLinks /\ NoLeak

(* The freeing loop runs exactly as long as there are blocks left to free. *)
CursorInLoop == (removing = None) = (cursor = 0)

(* The inductive invariant of the block structure. *)
BlockInv == TypeOK /\ CursorInLoop /\ OneReference

-----------------------------------------------------------------------------
(* The blocks from b on, in the order of the links; a loop is cut after    *)
(* size steps.                                                             *)
Path(b) ==
    LET P[n \in 0 .. size] ==
            IF n = 0 THEN IF b = 0 THEN << >> ELSE <<b>>
            ELSE LET p == P[n - 1]
                 IN IF p = << >> THEN p
                    ELSE IF cont[p[Len(p)]] = 0 THEN p
                         ELSE Append(p, cont[p[Len(p)]])
    IN P[size]

On(path) == {path[i] : i \in DOMAIN path}

(* What fs_tbchain_check_consistency and fs_tbchain_check_leaks look for:  *)
(* every walk along the links ends, no two walks meet, and together the    *)
(* chains and the free list hold all the blocks of the file.               *)
ChainsPartitionFile ==
    LET paths == {Path(start[m]) : m \in Models} \cup {Path(freeList)}
        walked == UNION {On(p) : p \in paths}
    IN /\ \A p \in paths : Len(p) = Cardinality(On(p))
       /\ \A m \in Models : On(Path(start[m])) \cap On(Path(freeList)) = {}
       /\ \A m, n \in Models :
              m # n => On(Path(start[m])) \cap On(Path(start[n])) = {}
       /\ walked = Blocks

(* The triples the chain of m holds, oldest first. *)
List(m) ==
    LET path == IF m = removing THEN << >> ELSE Path(head[m])
        L[n \in 0 .. Len(path)] ==
            IF n = 0 THEN << >> ELSE slots[path[n]] \o L[n - 1]
    IN L[Len(path)]
Held(m) == On(List(m)) \ {GONE}

(* Only the head block of a chain is partly filled and no block of a chain *)
(* is empty ("is in chain %d ... but has zero length"): otherwise the      *)
(* length of a chain is wrong and a block taken from the free list kept    *)
(* what it held before.                                                    *)
BlocksFilledInOrder ==
    \A m \in Models :
        LET path == Path(head[m])
        IN m # removing =>
              \A i \in DOMAIN path :
                  /\ slots[path[i]] # << >>
                  /\ i > 1 => Len(slots[path[i]]) = BlockLen

(* No triple that the predicate trees have is missing from the chain of    *)
(* its model, whatever was deleted, swept and added again before.          *)
NoLiveTripleLost ==
    \A m \in Models : live[m] \subseteq Held(m)

(* A chain without the superset bit holds no deleted triple: iterators do  *)
(* not ask the predicate trees about it.                                   *)
UnmarkedIsExact ==
    \A m \in Models :
        m # removing /\ head[m] # 0 /\ head[m] \notin superset => Held(m) \subseteq live[m]

(* What a chain is for: an iteration over the chain of a model gives every *)
(* live triple of the model, and gives others only where iterators know    *)
(* that they have to ask the predicate trees.                              *)
ChainHoldsModel == BlocksFilledInOrder /\ NoLiveTripleLost /\ UnmarkedIsExact
=============================================================================
