--------------------------- MODULE TBChainProofs ---------------------------
(***************************************************************************)
(* Theorems about the block structure of TBChain, for any number of models *)
(* and triples, any block length and any file size.                        *)
(***************************************************************************)
EXTENDS TBChain, TLAPS

(* What a new file looks like; used for the initial state and for the      *)
(* reopening of the files with O_TRUNC.                                    *)
LEMMA NewFileInv == Init => BlockInv
<1> SUFFICES ASSUME Init PROVE BlockInv
  OBVIOUS
<1> USE TBChainAssumption
<1>1. TypeOK
  BY DEF Init, TypeOK, Blocks, InitCont, Slot
<1>2. CursorInLoop
  BY DEF Init, CursorInLoop
<1>3. NoTwoLinks
  BY DEF Init, NoTwoLinks, Blocks, start, InitCont
<1>4. NoLeak
  <2> SUFFICES ASSUME NEW b \in Blocks, b # freeList
               PROVE  \E c \in Blocks : cont[c] = b
    BY DEF NoLeak
  <2>1. b + 1 \in Blocks /\ cont[b + 1] = b
    BY DEF Init, Blocks, InitCont
  <2> QED BY <2>1
<1> QED BY <1>1, <1>2, <1>3, <1>4 DEF BlockInv, OneReference

(* The file a block is taken from, with its free list not empty. *)
LEMMA GrownFile ==
    ASSUME TypeOK
    PROVE  /\ NewSize \in Nat /\ NewSize >= size
           /\ NewFree \in 2 .. (NewSize - 1)
           /\ GrownCont \in [2 .. (NewSize - 1) -> {0} \cup (2 .. (NewSize - 1))]
           /\ GrownSlots \in [2 .. (NewSize - 1) -> Seq(Slot)]
<1>1. CASE freeList # 0
  BY <1>1 DEF TypeOK, Blocks, NewSize, NewFree, GrownCont, GrownSlots
<1>2. CASE freeList = 0
  BY <1>2 DEF TypeOK, Blocks, NewSize, NewFree, GrownCont, GrownSlots
<1> QED BY <1>1, <1>2

(* Taking a block for the head of model m keeps the types. *)
LEMMA PushBlockType ==
    ASSUME TypeOK, NEW m \in Models, NEW t \in Triples, NEW super \in BOOLEAN,
           PushBlock(m, head[m], super, t), Idle,
           UNCHANGED <<removing, cursor, it>>,
           live' = [live EXCEPT ![m] = @ \cup {t}]
    PROVE  TypeOK'
<1> DEFINE B == 2 .. (NewSize - 1)
<1>1. Blocks' = B /\ Blocks \subseteq B
  BY GrownFile DEF PushBlock, Blocks, TypeOK
<1>2. size' \in Nat /\ size' > 2
  BY GrownFile DEF PushBlock, TypeOK
<1>3. head[m] \in {0} \cup B /\ NewFree \in B
  BY <1>1, GrownFile DEF TypeOK
<1>4. cont' \in [B -> {0} \cup B]
  BY <1>3, GrownFile DEF PushBlock
<1>5. <<t>> \in Seq(Slot)
  BY DEF Slot
<1>6. slots' \in [B -> Seq(Slot)]
  BY <1>5, GrownFile DEF PushBlock
<1>7. superset' \subseteq B
  BY <1>1, <1>3 DEF PushBlock, TypeOK
<1>8. freeList' \in {0} \cup B
  BY GrownFile DEF PushBlock
<1>9. head' \in [Models -> {0} \cup B]
  BY <1>1, <1>3 DEF PushBlock, TypeOK
<1>10. cursor' \in {0} \cup B
  BY <1>1 DEF TypeOK
<1>11. it' \in Iterators' \cup {NoIt'}
  BY DEF Idle, NoIt
<1>12. live' \in [Models -> SUBSET Triples]
  BY DEF TypeOK
<1> QED
  BY <1>1, <1>2, <1>4, <1>6, <1>7, <1>8, <1>9, <1>10, <1>11, <1>12 DEF TypeOK, Slot

(* The block that was taken is the head now, the old head follows it, and  *)
(* the blocks the file grew by are on the free list.                       *)
LEMMA PushBlockLinks ==
    ASSUME BlockInv, NEW m \in Models, NEW t \in Triples, NEW super \in BOOLEAN,
           PushBlock(m, head[m], super, t), Idle,
           UNCHANGED <<removing, cursor, it>>
    PROVE  OneReference'
<1> DEFINE B == 2 .. (NewSize - 1)
<1> USE TBChainAssumption
<1>1. /\ TypeOK /\ NoTwoLinks /\ NoLeak
      /\ removing = None /\ removing' = None
  BY DEF BlockInv, OneReference, Idle
<1>2. /\ Blocks' = B /\ Blocks \subseteq B /\ size \in Nat /\ size > 2
      /\ NewFree \in B
  BY <1>1, GrownFile DEF PushBlock, Blocks, TypeOK
<1>3. \A n \in Models : /\ start[n] = head[n]
                        /\ start'[n] = IF n = m THEN NewFree ELSE head[n]
                        /\ head[n] \in {0} \cup Blocks
  BY <1>1 DEF start, PushBlock, TypeOK
<1>4. /\ \A b \in B : b # NewFree => cont'[b] = GrownCont[b]
      /\ cont'[NewFree] = head[m]
      /\ freeList' = GrownCont[NewFree]
  BY <1>1, <1>2, GrownFile DEF PushBlock
<1> HIDE DEF B
<1>5. CASE freeList # 0
  <2>1. /\ NewFree = freeList /\ B = Blocks /\ 0 \notin Blocks
        /\ \A b \in Blocks : GrownCont[b] = cont[b] /\ cont[b] \in {0} \cup Blocks
    BY <1>1, <1>5 DEF B, NewFree, NewSize, GrownCont, Blocks, TypeOK
  <2>2. NoTwoLinks'
    BY <1>1, <1>2, <1>3, <1>4, <1>5, <2>1 DEF NoTwoLinks
  <2>3. NoLeak'
    <3> SUFFICES ASSUME NEW b \in Blocks
                 PROVE  \/ b = freeList'
                        \/ \E n \in Models : start'[n] = b
                        \/ \E c \in Blocks : cont'[c] = b
      BY <1>2, <2>1 DEF NoLeak
    <3>1. CASE b = freeList
      BY <1>3, <2>1, <3>1
    <3>2. ASSUME NEW n \in Models, start[n] = b PROVE start'[n] = b \/ cont'[NewFree] = b
      BY <1>3, <1>4, <3>2
    <3>3. ASSUME NEW c \in Blocks, cont[c] = b PROVE cont'[c] = b \/ freeList' = b
      BY <1>4, <2>1, <3>3
    <3> QED BY <1>1, <1>2, <2>1, <3>1, <3>2, <3>3 DEF NoLeak
  <2> QED BY <2>2, <2>3 DEF OneReference
<1>6. CASE freeList = 0
  <2>1. /\ NewFree = 2 * size - 1
        /\ B = 2 .. (2 * size - 1)
        /\ \A b \in Blocks : GrownCont[b] = cont[b]
        /\ GrownCont[size] = 0
        /\ \A b \in B : b > size => GrownCont[b] = b - 1
    BY <1>1, <1>6 DEF B, NewFree, NewSize, GrownCont, Blocks, TypeOK
  <2>2. /\ \A b \in Blocks : cont'[b] = cont[b] /\ cont[b] \in {0} \cup Blocks
        /\ cont'[size] = 0
        /\ \A b \in B : b > size /\ b # 2 * size - 1 => cont'[b] = b - 1
        /\ cont'[2 * size - 1] = head[m]
        /\ freeList' = 2 * size - 2
    <3>1. /\ Blocks = 2 .. (size - 1) /\ cont \in [Blocks -> {0} \cup Blocks]
      BY <1>1 DEF TypeOK, Blocks
    <3>2. /\ \A b \in Blocks : b \in B /\ b # NewFree
          /\ size \in B /\ size # NewFree
          /\ 2 * size - 1 \in B /\ 2 * size - 1 > size
      BY <1>2, <2>1, <3>1
    <3>3. \A b \in Blocks : cont'[b] = cont[b] /\ cont[b] \in {0} \cup Blocks
      BY <1>4, <2>1, <3>1, <3>2
    <3>4. cont'[size] = 0 /\ cont'[2 * size - 1] = head[m]
      BY <1>4, <2>1, <3>2
    <3>5. \A b \in B : b > size /\ b # 2 * size - 1 => cont'[b] = b - 1
      BY <1>4, <2>1
    <3>6. GrownCont[2 * size - 1] = (2 * size - 1) - 1
      BY <2>1, <3>2
    <3>7. freeList' = 2 * size - 2
      BY <1>2, <1>4, <2>1, <3>6
    <3> QED BY <3>3, <3>4, <3>5, <3>7
  <2>3. NoTwoLinks'
    <3>1. Blocks = 2 .. (size - 1) /\ Blocks' = 2 .. (2 * size - 1)
      BY <1>2, <2>1 DEF Blocks
    <3>2. \A b, c \in Blocks' : cont'[b] # 0 /\ cont'[b] = cont'[c] => b = c
      <4> SUFFICES ASSUME NEW b \in Blocks', NEW c \in Blocks',
                          cont'[b] # 0, cont'[b] = cont'[c]
                   PROVE  b = c
        OBVIOUS
      <4>1. CASE b \in Blocks /\ c \in Blocks
        BY <1>1, <2>2, <4>1 DEF NoTwoLinks
      <4>2. CASE b \in Blocks /\ c \notin Blocks
        BY <1>1, <1>2, <1>3, <2>2, <3>1, <4>2 DEF NoTwoLinks
      <4>3. CASE b \notin Blocks /\ c \in Blocks
        BY <1>1, <1>2, <1>3, <2>2, <3>1, <4>3 DEF NoTwoLinks
      <4>4. CASE b \notin Blocks /\ c \notin Blocks
        BY <1>2, <1>3, <2>1, <2>2, <3>1, <4>4
      <4> QED BY <4>1, <4>2, <4>3, <4>4
    <3>3. \A k, n \in Models : start'[k] # 0 /\ start'[k] = start'[n] => k = n
      BY <1>1, <1>2, <1>3, <2>1, <3>1 DEF NoTwoLinks
    <3>4. ASSUME NEW n \in Models, NEW b \in Blocks', start'[n] # 0
          PROVE  cont'[b] # start'[n]
      <4>1. CASE b \in Blocks
        BY <1>1, <1>2, <1>3, <2>1, <2>2, <3>1, <3>4, <4>1 DEF NoTwoLinks
      <4>2. CASE b \notin Blocks
        <5>1. \/ cont'[b] = 0
              \/ cont'[b] = b - 1 /\ b > size /\ b < 2 * size - 1
              \/ cont'[b] = head[m]
          <6>1. b \in B /\ b \in Nat /\ b >= size /\ b <= 2 * size - 1
            BY <1>2, <3>1, <4>2
          <6>2. CASE b = size
            BY <2>2, <6>2
          <6>3. CASE b = 2 * size - 1
            BY <2>2, <6>3
          <6>4. CASE b > size /\ b < 2 * size - 1
            <7>1. b # 2 * size - 1
              BY <1>2, <6>1, <6>4
            <7> QED BY <2>2, <6>1, <6>4, <7>1
          <6> QED BY <1>2, <6>1, <6>2, <6>3, <6>4
        <5>2. CASE n = m
          BY <1>2, <1>3, <2>1, <3>1, <3>4, <5>1, <5>2
        <5>3. CASE n # m
          <6>1. start'[n] = head[n] /\ head[n] \in Blocks /\ head[n] # head[m]
            BY <1>1, <1>3, <3>4, <5>3 DEF NoTwoLinks
          <6> QED BY <1>2, <3>1, <3>4, <5>1, <6>1
        <5> QED BY <5>2, <5>3
      <4> QED BY <4>1, <4>2
    <3>5. \A b \in Blocks' : cont'[b] # freeList'
      <4> SUFFICES ASSUME NEW b \in Blocks' PROVE cont'[b] # freeList'
        OBVIOUS
      <4>1. CASE b \in Blocks
        BY <1>2, <2>2, <3>1, <4>1
      <4>2. CASE b \notin Blocks
        BY <1>2, <1>3, <2>2, <3>1, <4>2
      <4> QED BY <4>1, <4>2
    <3>6. \A n \in Models : start'[n] # freeList'
      BY <1>2, <1>3, <2>1, <2>2, <3>1
    <3> QED BY <3>2, <3>3, <3>4, <3>5, <3>6 DEF NoTwoLinks
  <2>4. NoLeak'
    <3> SUFFICES ASSUME NEW b \in B
                 PROVE  \/ b = freeList'
                        \/ \E n \in Models : start'[n] = b
                        \/ \E c \in B : cont'[c] = b
      BY <1>2 DEF NoLeak
    <3>1. CASE b \in Blocks
      <4>1. b # freeList /\ 2 * size - 1 \in B
        BY <1>2, <1>6, <2>1, <3>1 DEF Blocks
      <4>2. ASSUME NEW n \in Models, start[n] = b
            PROVE  start'[n] = b \/ cont'[2 * size - 1] = b
        BY <1>3, <2>2, <4>2
      <4>3. ASSUME NEW c \in Blocks, cont[c] = b PROVE c \in B /\ cont'[c] = b
        BY <1>2, <2>2, <4>3
      <4> QED BY <1>1, <3>1, <4>1, <4>2, <4>3 DEF NoLeak
    <3>2. CASE b >= size /\ b < 2 * size - 2
      <4>1. b + 1 \in B /\ b + 1 > size /\ b + 1 # 2 * size - 1 /\ (b + 1) - 1 = b
        BY <1>2, <2>1, <3>2
      <4>2. cont'[b + 1] = b
        BY <2>2, <4>1
      <4> QED BY <4>1, <4>2
    <3>3. CASE b = 2 * size - 2 \/ b = 2 * size - 1
      BY <1>3, <2>1, <2>2, <3>3
    <3> QED BY <1>2, <2>1, <3>1, <3>2, <3>3 DEF Blocks
  <2> QED BY <2>3, <2>4 DEF OneReference
<1> QED BY <1>5, <1>6

(* Freeing a block moves one link: from the cursor to the free list. *)
LEMMA FreeBlockInv ==
    ASSUME BlockInv, FreeBlock
    PROVE  BlockInv'
<1> USE TBChainAssumption
<1>1. TypeOK /\ CursorInLoop /\ NoTwoLinks /\ NoLeak
  BY DEF BlockInv, OneReference
<1>2. /\ removing \in Models /\ cursor \in Blocks /\ Blocks' = Blocks
      /\ cont[cursor] \in {0} \cup Blocks
      /\ freeList \in {0} \cup Blocks /\ 0 \notin Blocks
      /\ cont \in [Blocks -> {0} \cup Blocks]
  BY <1>1 DEF FreeBlock, TypeOK, CursorInLoop, Blocks
<1>3. TypeOK'
  BY <1>1, <1>2 DEF FreeBlock, TypeOK, Iterators, NoIt, Slot
<1>4. CursorInLoop'
  BY <1>1, <1>2 DEF FreeBlock, CursorInLoop, TypeOK
<1>5. /\ start[removing] = cursor
      /\ \A m \in Models : m # removing => start'[m] = start[m]
      /\ start'[removing] = cont[cursor]
      /\ \A m \in Models : start[m] \in {0} \cup Blocks
  BY <1>1, <1>2 DEF FreeBlock, start, TypeOK
<1>6. /\ cont'[cursor] = freeList /\ freeList' = cursor
      /\ \A b \in Blocks : b # cursor => cont'[b] = cont[b]
  BY <1>1, <1>2 DEF FreeBlock, TypeOK
<1>7. NoTwoLinks'
  BY <1>1, <1>2, <1>5, <1>6 DEF NoTwoLinks
<1>8. NoLeak'
  <2> SUFFICES ASSUME NEW b \in Blocks
               PROVE  \/ b = freeList'
                      \/ \E m \in Models : start'[m] = b
                      \/ \E c \in Blocks : cont'[c] = b
    BY <1>2 DEF NoLeak
  <2>1. CASE b = freeList
    BY <1>2, <1>6, <2>1
  <2>2. ASSUME NEW m \in Models, start[m] = b PROVE start'[m] = b \/ b = freeList'
    BY <1>5, <1>6, <2>2
  <2>3. ASSUME NEW c \in Blocks, cont[c] = b PROVE cont'[c] = b \/ start'[removing] = b
    BY <1>5, <1>6, <2>3
  <2> QED BY <1>1, <1>2, <2>1, <2>2, <2>3 DEF NoLeak
<1> QED BY <1>3, <1>4, <1>7, <1>8 DEF BlockInv, OneReference

(* An import that needs a block keeps the structure. *)
LEMMA PushInv ==
    ASSUME BlockInv, NEW m \in Models, NEW t \in Triples, NEW super \in BOOLEAN,
           PushBlock(m, head[m], super, t), Idle,
           live' = [live EXCEPT ![m] = @ \cup {t}],
           UNCHANGED <<removing, cursor, it>>
    PROVE  BlockInv'
<1>1. TypeOK /\ CursorInLoop
  BY DEF BlockInv
<1>3. TypeOK'
  BY <1>1, PushBlockType
<1>4. CursorInLoop'
  BY <1>1 DEF CursorInLoop
<1>5. OneReference'
  BY PushBlockLinks
<1> QED BY <1>3, <1>4, <1>5 DEF BlockInv

(* Steps that leave the links alone keep what is said of them. *)
LEMMA SameLinks ==
    ASSUME OneReference, UNCHANGED <<size, cont, freeList, start>>
    PROVE  OneReference'
BY DEF OneReference, NoTwoLinks, NoLeak, Blocks

LEMMA BlockInvStep ==
    ASSUME BlockInv, [Next]_vars
    PROVE  BlockInv'
<1> USE TBChainAssumption
<1>1. TypeOK /\ CursorInLoop /\ OneReference
  BY DEF BlockInv
<1>2. ASSUME NEW m \in Models, NEW t \in Triples, NewChain(m, t) PROVE BlockInv'
  BY <1>2, PushInv DEF NewChain
<1>3. ASSUME NEW m \in Models, NEW t \in Triples, AddBlock(m, t) PROVE BlockInv'
  <2>1. CASE head[m] \in superset
    <3>1. PushBlock(m, head[m], TRUE, t)
      BY <1>3, <2>1 DEF AddBlock, PushBlock
    <3> QED BY <1>3, <3>1, PushInv DEF AddBlock
  <2>2. CASE head[m] \notin superset
    <3>1. PushBlock(m, head[m], FALSE, t)
      BY <1>3, <2>2 DEF AddBlock, PushBlock
    <3> QED BY <1>3, <3>1, PushInv DEF AddBlock
  <2> QED BY <2>1, <2>2
<1>4. ASSUME NEW m \in Models, NEW t \in Triples, AddTriple(m, t) PROVE BlockInv'
  <2>1. head[m] \in Blocks /\ t \in Slot
    BY <1>1, <1>4 DEF AddTriple, TypeOK, Slot
  <2>2. slots' \in [Blocks -> Seq(Slot)]
    BY <1>1, <1>4, <2>1 DEF AddTriple, TypeOK
  <2>3. TypeOK'
    BY <1>1, <1>4, <2>2 DEF AddTriple, TypeOK, Blocks, Iterators, NoIt, Slot
  <2>4. CursorInLoop' /\ OneReference'
    BY <1>1, <1>4, SameLinks DEF AddTriple, CursorInLoop, start
  <2> QED BY <2>3, <2>4 DEF BlockInv
<1>5. ASSUME NEW m \in Models, NEW t \in Triples, DeleteQuad(m, t) PROVE BlockInv'
  <2>1. superset' \subseteq Blocks
    <3>1. head[m] > 1 => head[m] \in Blocks
      BY <1>1 DEF TypeOK, Blocks
    <3> QED BY <1>1, <1>5, <3>1 DEF DeleteQuad, TypeOK
  <2>2. TypeOK'
    BY <1>1, <1>5, <2>1 DEF DeleteQuad, TypeOK, Blocks, Iterators, NoIt, Slot
  <2>3. CursorInLoop' /\ OneReference'
    BY <1>1, <1>5, SameLinks DEF DeleteQuad, CursorInLoop, start
  <2> QED BY <2>2, <2>3 DEF BlockInv
<1>6. ASSUME NEW m \in Models, RemoveChain(m) PROVE BlockInv'
  <2>1. TypeOK'
    BY <1>1, <1>6 DEF RemoveChain, TypeOK, Blocks, Iterators, NoIt, Slot, fileVars
  <2>2. CursorInLoop'
    BY <1>1, <1>6 DEF RemoveChain, CursorInLoop, TypeOK
  <2>3. start' = start
    BY <1>1, <1>6 DEF RemoveChain, start, Idle
  <2>4. OneReference'
    BY <1>1, <1>6, <2>3, SameLinks DEF RemoveChain, fileVars
  <2> QED BY <2>1, <2>2, <2>4 DEF BlockInv
<1>7. CASE FreeBlock
  BY <1>7, FreeBlockInv
<1>8. ASSUME NEW m \in Models, NewIterator(m) PROVE BlockInv'
  <2>1. it' \in Iterators'
    BY <1>1, <1>8 DEF NewIterator, TypeOK, Blocks, Iterators, fileVars
  <2>2. TypeOK'
    BY <1>1, <1>8, <2>1 DEF NewIterator, TypeOK, Blocks, Slot, fileVars
  <2>3. CursorInLoop' /\ OneReference'
    BY <1>1, <1>8, SameLinks DEF NewIterator, CursorInLoop, start, fileVars
  <2> QED BY <2>2, <2>3 DEF BlockInv
<1>9. CASE ItEnd
  <2>1. superset' \subseteq Blocks /\ it' = NoIt'
    BY <1>1, <1>9 DEF ItEnd, TypeOK, NoIt
  <2>2. TypeOK'
    BY <1>1, <1>9, <2>1 DEF ItEnd, TypeOK, Blocks, Slot
  <2>3. CursorInLoop' /\ OneReference'
    BY <1>1, <1>9, SameLinks DEF ItEnd, CursorInLoop, start
  <2> QED BY <2>2, <2>3 DEF BlockInv
<1>10. CASE ItNextBlock
  <2>1. it \in Iterators /\ it.node \in Blocks /\ Blocks' = Blocks
    BY <1>1, <1>10 DEF ItNextBlock, TypeOK, Iterators, Blocks, fileVars
  <2>2. cont[it.node] \in {0} \cup Blocks
    BY <1>1, <2>1 DEF TypeOK
  <2>3. it' \in Iterators'
    <3> DEFINE n == cont[it.node]
    <3>1. n \in {0} \cup Blocks /\ it' = [it EXCEPT !.node = n, !.pos = 1]
      BY <1>10, <2>2 DEF ItNextBlock
    <3> HIDE DEF n
    <3>2. /\ it.model \in Models /\ it.superset \in BOOLEAN
          /\ it = [model |-> it.model, node |-> it.node, pos |-> it.pos,
                   superset |-> it.superset]
      BY <2>1 DEF Iterators
    <3>3. it' = [model |-> it.model, node |-> n, pos |-> 1, superset |-> it.superset]
      BY <3>1, <3>2
    <3>4. Iterators' = Iterators
      BY <2>1 DEF Iterators
    <3>5. it' \in Iterators
      BY <3>1, <3>2, <3>3 DEF Iterators
    <3> QED BY <3>4, <3>5
  <2>4. TypeOK'
    BY <1>1, <1>10, <2>1, <2>3 DEF ItNextBlock, TypeOK, Slot, fileVars
  <2>5. CursorInLoop' /\ OneReference'
    BY <1>1, <1>10, SameLinks DEF ItNextBlock, CursorInLoop, start, fileVars
  <2> QED BY <2>4, <2>5 DEF BlockInv
<1>11. CASE ItSlot
  <2>1. it \in Iterators /\ it.node \in Blocks /\ Blocks' = Blocks
    BY <1>1, <1>11 DEF ItSlot, TypeOK, Iterators, Blocks
  <2>2. it' \in Iterators'
    BY <1>11, <2>1 DEF ItSlot, Iterators
  <2>3. slots' \in [Blocks -> Seq(Slot)]
    <3>1. slots[it.node] \in Seq(Slot) /\ it.pos \in 1 .. Len(slots[it.node])
      BY <1>1, <1>11, <2>1 DEF ItSlot, TypeOK, Iterators
    <3>2. [slots[it.node] EXCEPT ![it.pos] = GONE] \in Seq(Slot)
      BY <3>1 DEF Slot
    <3>3. slots \in [Blocks -> Seq(Slot)]
      BY <1>1 DEF TypeOK
    <3>4. \/ slots' = [slots EXCEPT ![it.node] = [slots[it.node] EXCEPT ![it.pos] = GONE]]
          \/ slots' = slots
      BY <1>11 DEF ItSlot
    <3> HIDE DEF Slot, Blocks
    <3> QED BY <2>1, <3>2, <3>3, <3>4
  <2>4. TypeOK'
    BY <1>1, <1>11, <2>1, <2>2, <2>3 DEF ItSlot, TypeOK, Slot
  <2>5. CursorInLoop' /\ OneReference'
    BY <1>1, <1>11, SameLinks DEF ItSlot, CursorInLoop, start
  <2> QED BY <2>4, <2>5 DEF BlockInv
<1>12. CASE ItFree
  <2>1. TypeOK'
    BY <1>1, <1>12 DEF ItFree, TypeOK, Blocks, NoIt, Slot, fileVars
  <2>2. CursorInLoop' /\ OneReference'
    BY <1>1, <1>12, SameLinks DEF ItFree, CursorInLoop, start, fileVars
  <2> QED BY <2>1, <2>2 DEF BlockInv
<1>13. CASE Truncate
  <2>1. cursor = 0
    BY <1>1, <1>13 DEF Truncate, Idle, CursorInLoop
  <2>2. Init'
    BY <1>13, <2>1 DEF Truncate, Idle, Init, InitCont, NoIt
  <2> QED BY <2>2, NewFileInv, PTL
<1>14. CASE UNCHANGED vars
  BY <1>1, <1>14, SameLinks
     DEF vars, fileVars, BlockInv, TypeOK, CursorInLoop, Blocks, Iterators, NoIt, Slot, start
<1> QED
  BY <1>2, <1>3, <1>4, <1>5, <1>6, <1>7, <1>8, <1>9, <1>10, <1>11, <1>12, <1>13, <1>14
     DEF Next

(* The links of the block file are sound in every reachable state, half    *)
(* freed chains included.                                                  *)
THEOREM BlockInvariant == Spec => []BlockInv
<1>1. Init => BlockInv
  BY NewFileInv
<1>2. BlockInv /\ [Next]_vars => BlockInv'
  BY BlockInvStep
<1> QED BY <1>1, <1>2, PTL DEF Spec

(* Every file access of tbchain.c is to a block of the file. *)
THEOREM TypeCorrect == Spec => []TypeOK
<1>1. BlockInv => TypeOK
  BY DEF BlockInv
<1> QED BY <1>1, BlockInvariant, PTL

(* For every number of models, block length and initial size: no block is  *)
(* ever in two chains, in a chain and the free list, or in neither.        *)
THEOREM BlocksHaveOneReference == Spec => []OneReference
<1>1. BlockInv => OneReference
  BY DEF BlockInv
<1> QED BY <1>1, BlockInvariant, PTL
=============================================================================
