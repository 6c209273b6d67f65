---------------------------- MODULE PTableProofs ----------------------------
(***************************************************************************)
(* Proofs about PTable, for any number of leaves, rows, models and         *)
(* objects: every row has exactly one link to it and no chain of rows runs *)
(* in a circle, also between two turns of the loop that removes pairs.     *)
(*                                                                         *)
(* The lemmas of the first part are about links alone: R is the set of     *)
(* rows, c[r] the row that r links to (0 for none), s[l] the first row of  *)
(* leaf l and f the first free row.                                        *)
(***************************************************************************)
EXTENDS PTable, TLAPS

(* No row has two links to it, *)
RowsApart(R, c) == \A r, q \in R : c[r] # 0 /\ c[r] = c[q] => r = q
LeavesApart(s) == \A l, k \in Leaves : s[l] # 0 /\ s[l] = s[k] => l = k
FirstApart(R, c, s) == \A l \in Leaves, r \in R : s[l] # 0 => c[r] # s[l]
FreeApart(R, c, s, f) == f # 0 => (\A r \in R : c[r] # f) /\ (\A l \in Leaves : s[l] # f)

(* and every row has one. *)
Reached(R, c, s, f, r) == r = f \/ (\E l \in Leaves : s[l] = r) \/ (\E q \in R : c[q] = r)
AllReached(R, c, s, f) == \A r \in R : Reached(R, c, s, f, r)

Linked(R, c, s, f) ==
    /\ RowsApart(R, c)
    /\ LeavesApart(s)
    /\ FirstApart(R, c, s)
    /\ FreeApart(R, c, s, f)
    /\ AllReached(R, c, s, f)

(* The links lead from higher to lower ranks, for some ranks. *)
Descending(R, c, rank) == \A r \in R : c[r] # 0 => rank[c[r]] < rank[r]
Acyclic(R, c) == \E rank \in [R -> Nat] : Descending(R, c, rank)

Removals ==
    [leaf : Leaves, pattern : Patterns, row : {0} \cup Rows, prev : {0} \cup Rows,
     ret : {0} \cup Rows, removed : Nat, models : SUBSET Models]

TableType ==
    /\ length \in Nat \ {0}
    /\ cont \in [Rows -> {0} \cup Rows]
    /\ data \in [Rows -> Pairs]
    /\ freeList \in {0} \cup Rows
    /\ block \in [Leaves -> {0} \cup Rows]
    /\ loop = {} \/ \E x \in Removals : loop = {x}

(* The loop's row is the one after prev, or the first one. *)
LoopOK ==
    \A x \in loop : IF x.prev = 0 THEN x.ret = x.row ELSE cont[x.prev] = x.row

PB_Inv ==
    /\ TableType
    /\ LoopOK
    /\ Linked(Rows, cont, start, freeList)
    /\ Acyclic(Rows, cont)
-----------------------------------------------------------------------------
(* The first free row becomes the first row of a leaf. *)
LEMMA Reused ==
    ASSUME NEW R, 0 \notin R, NEW c \in [R -> {0} \cup R], NEW s \in [Leaves -> {0} \cup R],
           NEW f \in R, NEW l \in Leaves,
           Linked(R, c, s, f), Acyclic(R, c)
    PROVE  /\ Linked(R, [c EXCEPT ![f] = s[l]], [s EXCEPT ![l] = f], c[f])
           /\ Acyclic(R, [c EXCEPT ![f] = s[l]])
<1> DEFINE d == [c EXCEPT ![f] = s[l]]
           t == [s EXCEPT ![l] = f]
<1>1. d[f] = s[l] /\ \A r \in R : r # f => d[r] = c[r]
  OBVIOUS
<1>2. t[l] = f /\ \A k \in Leaves : k # l => t[k] = s[k]
  OBVIOUS
<1>3. f # 0 /\ (\A r \in R : c[r] # f) /\ (\A k \in Leaves : s[k] # f)
  BY DEF Linked, FreeApart
<1>4. (\A r \in R : c[r] \in {0} \cup R) /\ (\A k \in Leaves : s[k] \in {0} \cup R)
  OBVIOUS
<1>5. RowsApart(R, c) /\ LeavesApart(s) /\ FirstApart(R, c, s) /\ AllReached(R, c, s, f)
  BY DEF Linked
<1> HIDE DEF d, t
<1>6. RowsApart(R, d)
  BY <1>1, <1>5 DEF RowsApart, FirstApart
<1>7. LeavesApart(t)
  BY <1>2, <1>3, <1>5 DEF LeavesApart
<1>8. FirstApart(R, d, t)
  <2> SUFFICES ASSUME NEW k \in Leaves, NEW r \in R, t[k] # 0, d[r] = t[k]
               PROVE  FALSE
    BY DEF FirstApart
  <2>1. CASE k = l
    BY <2>1, <1>1, <1>2, <1>3
  <2>2. CASE k # l /\ r = f
    BY <2>2, <1>1, <1>2, <1>5 DEF LeavesApart
  <2>3. CASE k # l /\ r # f
    BY <2>3, <1>1, <1>2, <1>5 DEF FirstApart
  <2> QED
    BY <2>1, <2>2, <2>3
<1>9. FreeApart(R, d, t, c[f])
  <2> SUFFICES ASSUME c[f] # 0 PROVE (\A r \in R : d[r] # c[f]) /\ (\A k \in Leaves : t[k] # c[f])
    BY DEF FreeApart
  <2>1. \A r \in R : d[r] # c[f]
    BY <1>1, <1>5 DEF RowsApart, FirstApart
  <2>2. \A k \in Leaves : t[k] # c[f]
    BY <1>2, <1>3, <1>5 DEF FirstApart
  <2> QED
    BY <2>1, <2>2
<1>10. AllReached(R, d, t, c[f])
  <2> SUFFICES ASSUME NEW r \in R PROVE Reached(R, d, t, c[f], r)
    BY DEF AllReached
  <2>1. CASE r = f
    BY <2>1, <1>2 DEF Reached
  <2>2. ASSUME NEW k \in Leaves, s[k] = r PROVE Reached(R, d, t, c[f], r)
    <3>1. CASE k = l
      BY <2>2, <3>1, <1>1 DEF Reached
    <3>2. CASE k # l
      BY <2>2, <3>2, <1>2 DEF Reached
    <3> QED
      BY <3>1, <3>2
  <2>3. ASSUME NEW q \in R, c[q] = r PROVE Reached(R, d, t, c[f], r)
    <3>1. CASE q = f
      BY <2>3, <3>1 DEF Reached
    <3>2. CASE q # f
      BY <2>3, <3>2, <1>1 DEF Reached
    <3> QED
      BY <3>1, <3>2
  <2>4. Reached(R, c, s, f, r)
    BY <1>5 DEF AllReached
  <2> QED
    BY <2>1, <2>2, <2>3, <2>4 DEF Reached
<1>11. Acyclic(R, d)
  <2>1. PICK rank \in [R -> Nat] : Descending(R, c, rank)
    BY DEF Acyclic
  <2> DEFINE top == IF s[l] = 0 THEN 0 ELSE rank[s[l]] + 1
             new == [rank EXCEPT ![f] = top]
  <2>2. top \in Nat /\ (s[l] # 0 => rank[s[l]] < top)
    BY <1>4
  <2> HIDE DEF top
  <2>3. new \in [R -> Nat] /\ new[f] = top /\ \A r \in R : r # f => new[r] = rank[r]
    BY <2>2
  <2> HIDE DEF new
  <2>4. ASSUME NEW r \in R, d[r] # 0
        PROVE  new[d[r]] < new[r]
    <3>1. CASE r = f
      <4>1. d[r] = s[l] /\ s[l] \in R /\ s[l] # f
        BY <3>1, <2>4, <1>1, <1>3, <1>4
      <4> QED
        BY <4>1, <3>1, <2>2, <2>3, <2>4
    <3>2. CASE r # f
      <4>1. d[r] = c[r] /\ c[r] \in R /\ c[r] # f
        BY <3>2, <2>4, <1>1, <1>3, <1>4
      <4>2. rank[c[r]] < rank[r]
        BY <4>1, <2>1, <2>4 DEF Descending
      <4> QED
        BY <4>1, <4>2, <3>2, <2>3
    <3> QED
      BY <3>1, <3>2
  <2> QED
    BY <2>3, <2>4 DEF Acyclic, Descending
<1>12. Linked(R, d, t, c[f])
  BY <1>6, <1>7, <1>8, <1>9, <1>10 DEF Linked
<1> QED
  BY <1>11, <1>12 DEF d, t

(* A new row e becomes the first row of a leaf. *)
Grown(R, c, s, l, e, Q, d) ==
    /\ 0 \notin R /\ c \in [R -> {0} \cup R] /\ s \in [Leaves -> {0} \cup R]
    /\ l \in Leaves /\ e # 0 /\ e \notin R /\ Q = R \cup {e}
    /\ d \in [Q -> {0} \cup Q] /\ (\A r \in R : d[r] = c[r]) /\ d[e] = s[l]

LEMMA Added ==
    ASSUME NEW R, NEW c, NEW s, NEW l, NEW e, NEW Q, NEW d, Grown(R, c, s, l, e, Q, d),
           Linked(R, c, s, 0), Acyclic(R, c)
    PROVE  Linked(Q, d, [s EXCEPT ![l] = e], 0) /\ Acyclic(Q, d)
<1> USE DEF Grown
<1> DEFINE t == [s EXCEPT ![l] = e]
<1>1. t[l] = e /\ \A k \in Leaves : k # l => t[k] = s[k]
  OBVIOUS
<1>2. (\A r \in R : c[r] \in {0} \cup R) /\ (\A k \in Leaves : s[k] \in {0} \cup R)
  OBVIOUS
<1>3. RowsApart(R, c) /\ LeavesApart(s) /\ FirstApart(R, c, s) /\ AllReached(R, c, s, 0)
  BY DEF Linked
<1>4. \A r \in Q : r = e \/ r \in R
  OBVIOUS
<1> HIDE DEF t
<1>5. RowsApart(Q, d)
  <2> SUFFICES ASSUME NEW r \in Q, NEW q \in Q, d[r] # 0, d[r] = d[q] PROVE r = q
    BY DEF RowsApart
  <2>1. CASE r \in R /\ q \in R
    BY <2>1, <1>3 DEF RowsApart
  <2>2. CASE r = e /\ q \in R
    BY <2>2, <1>3 DEF FirstApart
  <2>3. CASE r \in R /\ q = e
    BY <2>3, <1>3 DEF FirstApart
  <2> QED
    BY <2>1, <2>2, <2>3, <1>4
<1>6. LeavesApart(t)
  BY <1>1, <1>2, <1>3 DEF LeavesApart
<1>7. FirstApart(Q, d, t)
  <2> SUFFICES ASSUME NEW k \in Leaves, NEW r \in Q, t[k] # 0, d[r] = t[k]
               PROVE  FALSE
    BY DEF FirstApart
  <2>1. CASE k = l
    BY <2>1, <1>1, <1>2, <1>4
  <2>2. CASE k # l /\ r = e
    BY <2>2, <1>1, <1>3 DEF LeavesApart
  <2>3. CASE k # l /\ r \in R
    BY <2>3, <1>1, <1>3 DEF FirstApart
  <2> QED
    BY <2>1, <2>2, <2>3, <1>4
<1>8. FreeApart(Q, d, t, 0)
  BY DEF FreeApart
<1>9. AllReached(Q, d, t, 0)
  <2> SUFFICES ASSUME NEW r \in Q PROVE Reached(Q, d, t, 0, r)
    BY DEF AllReached
  <2>1. CASE r = e
    BY <2>1, <1>1 DEF Reached
  <2>2. ASSUME NEW k \in Leaves, s[k] = r PROVE Reached(Q, d, t, 0, r)
    <3>1. CASE k = l
      BY <2>2, <3>1 DEF Reached
    <3>2. CASE k # l
      BY <2>2, <3>2, <1>1 DEF Reached
    <3> QED
      BY <3>1, <3>2
  <2>3. ASSUME NEW q \in R, c[q] = r PROVE Reached(Q, d, t, 0, r)
    BY <2>3 DEF Reached
  <2>4. CASE r \in R
    <3>1. Reached(R, c, s, 0, r)
      BY <2>4, <1>3 DEF AllReached
    <3> QED
      BY <3>1, <2>2, <2>3, <2>4 DEF Reached
  <2> QED
    BY <2>1, <2>4, <1>4
<1>10. Acyclic(Q, d)
  <2>1. PICK rank \in [R -> Nat] : Descending(R, c, rank)
    BY DEF Acyclic
  <2> DEFINE top == IF s[l] = 0 THEN 0 ELSE rank[s[l]] + 1
             new == [r \in Q |-> IF r = e THEN top ELSE rank[r]]
  <2>2. top \in Nat /\ (s[l] # 0 => rank[s[l]] < top)
    BY <1>2
  <2> HIDE DEF top
  <2>3. new \in [Q -> Nat] /\ new[e] = top /\ \A r \in R : new[r] = rank[r]
    BY <2>2, <1>4
  <2> HIDE DEF new
  <2>4. ASSUME NEW r \in Q, d[r] # 0
        PROVE  new[d[r]] < new[r]
    <3>1. CASE r = e
      <4>1. d[r] = s[l] /\ s[l] \in R
        BY <3>1, <2>4, <1>2
      <4> QED
        BY <4>1, <3>1, <2>2, <2>3, <2>4
    <3>2. CASE r \in R
      <4>1. d[r] = c[r] /\ c[r] \in R
        BY <3>2, <2>4, <1>2
      <4>2. rank[c[r]] < rank[r]
        BY <4>1, <3>2, <2>1, <2>4 DEF Descending
      <4> QED
        BY <4>1, <4>2, <3>2, <2>3
    <3> QED
      BY <3>1, <3>2, <1>4
  <2> QED
    BY <2>3, <2>4 DEF Acyclic, Descending
<1>11. Linked(Q, d, t, 0)
  BY <1>5, <1>6, <1>7, <1>8, <1>9 DEF Linked
<1> QED
  BY <1>10, <1>11 DEF t

(* A row is taken out of its chain and put before the free rows: the first *)
(* row of a leaf, when p is 0, or the one after row p.                     *)
Freed(R, c, f, row, p) ==
    [r \in R |-> IF r = row THEN f ELSE IF r = p THEN c[row] ELSE c[r]]

(* A freed row is ranked above the rows that were free. *)
LEMMA FreedRanked ==
    ASSUME NEW R, 0 \notin R, NEW c \in [R -> {0} \cup R], NEW f \in {0} \cup R,
           NEW row \in R, NEW p \in {0} \cup R, p # 0 => c[p] = row,
           row # f, \A r \in R : c[r] = row => r = p, Acyclic(R, c)
    PROVE  Acyclic(R, Freed(R, c, f, row, p))
<1> DEFINE d == Freed(R, c, f, row, p)
<1>1. PICK rank \in [R -> Nat] : Descending(R, c, rank)
  BY DEF Acyclic
<1>2. ASSUME NEW r \in R, c[r] # 0
      PROVE  c[r] \in R /\ rank[c[r]] < rank[r] /\ rank[c[r]] \in Nat /\ rank[r] \in Nat
  BY <1>1, <1>2 DEF Descending
<1>3. d[row] = f /\ \A r \in R : r # row => d[r] = IF r = p THEN c[row] ELSE c[r]
  BY DEF Freed
<1> HIDE DEF d
<1> DEFINE top == IF f = 0 THEN 0 ELSE rank[f] + 1
           new == [rank EXCEPT ![row] = top]
<1>4. top \in Nat /\ (f # 0 => rank[f] < top)
  BY <1>1
<1> HIDE DEF top
<1>5. new \in [R -> Nat] /\ new[row] = top /\ \A r \in R : r # row => new[r] = rank[r]
  BY <1>1, <1>4
<1> HIDE DEF new
<1>6. ASSUME NEW r \in R, d[r] # 0
      PROVE  new[d[r]] < new[r]
  <2>1. CASE r = row
    <3>1. d[r] = f /\ f \in R
      BY <2>1, <1>3, <1>6
    <3> QED
      BY <3>1, <2>1, <1>4, <1>5, <1>6
  <2>2. CASE r # row /\ r = p
    <3>1. d[r] = c[row] /\ c[row] # 0 /\ c[r] = row /\ c[r] # 0
      BY <2>2, <1>3, <1>6
    <3>2. c[row] \in R /\ rank[c[row]] < rank[row] /\ rank[row] < rank[r]
      BY <3>1, <1>2
    <3>3. c[row] # row
      BY <3>1, <1>2
    <3>4. rank[c[row]] < rank[r]
      BY <3>1, <3>2, <1>2
    <3> QED
      BY <3>1, <3>2, <3>3, <3>4, <2>2, <1>5
  <2>3. CASE r # row /\ r # p
    <3>1. d[r] = c[r] /\ c[r] # row
      BY <2>3, <1>3
    <3> QED
      BY <3>1, <2>3, <1>2, <1>5, <1>6
  <2> QED
    BY <2>1, <2>2, <2>3
<1> QED
  BY <1>5, <1>6 DEF Acyclic, Descending, d

LEMMA NoSelfLink ==
    ASSUME NEW R, 0 \notin R, NEW c \in [R -> {0} \cup R], Acyclic(R, c), NEW r \in R
    PROVE  c[r] # r
<1>1. PICK rank \in [R -> Nat] : Descending(R, c, rank)
  BY DEF Acyclic
<1>2. c[r] # 0 => rank[c[r]] < rank[r]
  BY <1>1 DEF Descending
<1>3. rank[r] \in Nat
  BY <1>1
<1> QED
  BY <1>2, <1>3

LEMMA FreedFirst ==
    ASSUME NEW R, 0 \notin R, NEW c \in [R -> {0} \cup R], NEW s \in [Leaves -> {0} \cup R],
           NEW f \in {0} \cup R, NEW l \in Leaves, NEW row \in R, s[l] = row,
           Linked(R, c, s, f), Acyclic(R, c)
    PROVE  /\ Linked(R, Freed(R, c, f, row, 0), [s EXCEPT ![l] = c[row]], row)
           /\ Acyclic(R, Freed(R, c, f, row, 0))
<1> DEFINE d == Freed(R, c, f, row, 0)
           t == [s EXCEPT ![l] = c[row]]
<1>1. d[row] = f /\ \A r \in R : r # row => d[r] = c[r]
  BY DEF Freed
<1>2. t[l] = c[row] /\ \A k \in Leaves : k # l => t[k] = s[k]
  OBVIOUS
<1>3. RowsApart(R, c) /\ LeavesApart(s) /\ FirstApart(R, c, s) /\ FreeApart(R, c, s, f)
      /\ AllReached(R, c, s, f)
  BY DEF Linked
<1>4. row # 0 /\ row # f /\ c[row] # row /\ \A r \in R : c[r] # row
  <2>1. row # 0
    OBVIOUS
  <2>2. row # f
    BY <2>1, <1>3 DEF FreeApart
  <2>3. \A r \in R : c[r] # row
    BY <2>1, <1>3 DEF FirstApart
  <2> QED
    BY <2>1, <2>2, <2>3
<1> HIDE DEF d, t
<1>5. RowsApart(R, d)
  BY <1>1, <1>3 DEF RowsApart, FreeApart
<1>6. LeavesApart(t)
  BY <1>2, <1>3 DEF LeavesApart, FirstApart
<1>7. FirstApart(R, d, t)
  <2> SUFFICES ASSUME NEW k \in Leaves, NEW r \in R, t[k] # 0, d[r] = t[k]
               PROVE  FALSE
    BY DEF FirstApart
  <2>1. CASE k = l /\ r = row
    BY <2>1, <1>1, <1>2, <1>3 DEF FreeApart
  <2>2. CASE k = l /\ r # row
    BY <2>2, <1>1, <1>2, <1>3 DEF RowsApart
  <2>3. CASE k # l /\ r = row
    BY <2>3, <1>1, <1>2, <1>3 DEF FreeApart
  <2>4. CASE k # l /\ r # row
    BY <2>4, <1>1, <1>2, <1>3 DEF FirstApart
  <2> QED
    BY <2>1, <2>2, <2>3, <2>4
<1>8. FreeApart(R, d, t, row)
  <2>1. \A r \in R : d[r] # row
    BY <1>1, <1>4
  <2>2. \A k \in Leaves : t[k] # row
    BY <1>2, <1>3, <1>4 DEF LeavesApart
  <2> QED
    BY <2>1, <2>2 DEF FreeApart
<1>9. AllReached(R, d, t, row)
  <2> SUFFICES ASSUME NEW r \in R PROVE Reached(R, d, t, row, r)
    BY DEF AllReached
  <2>1. CASE r = f
    BY <2>1, <1>1 DEF Reached
  <2>2. ASSUME NEW k \in Leaves, s[k] = r PROVE Reached(R, d, t, row, r)
    <3>1. CASE k = l
      BY <2>2, <3>1 DEF Reached
    <3>2. CASE k # l
      BY <2>2, <3>2, <1>2 DEF Reached
    <3> QED
      BY <3>1, <3>2
  <2>3. ASSUME NEW q \in R, c[q] = r PROVE Reached(R, d, t, row, r)
    <3>1. CASE q = row
      BY <2>3, <3>1, <1>2 DEF Reached
    <3>2. CASE q # row
      BY <2>3, <3>2, <1>1 DEF Reached
    <3> QED
      BY <3>1, <3>2
  <2>4. Reached(R, c, s, f, r)
    BY <1>3 DEF AllReached
  <2> QED
    BY <2>1, <2>2, <2>3, <2>4 DEF Reached
<1>10. Linked(R, d, t, row)
  BY <1>5, <1>6, <1>7, <1>8, <1>9 DEF Linked
<1>11. Acyclic(R, Freed(R, c, f, row, 0))
  BY <1>4, FreedRanked
<1> QED
  BY <1>10, <1>11 DEF d, t

LEMMA FreedAfter ==
    ASSUME NEW R, 0 \notin R, NEW c \in [R -> {0} \cup R], NEW s \in [Leaves -> {0} \cup R],
           NEW f \in {0} \cup R, NEW p \in R, NEW row \in R, c[p] = row,
           Linked(R, c, s, f), Acyclic(R, c)
    PROVE  /\ Linked(R, Freed(R, c, f, row, p), s, row)
           /\ Acyclic(R, Freed(R, c, f, row, p))
<1> DEFINE d == Freed(R, c, f, row, p)
<1>1. RowsApart(R, c) /\ LeavesApart(s) /\ FirstApart(R, c, s) /\ FreeApart(R, c, s, f)
      /\ AllReached(R, c, s, f)
  BY DEF Linked
<1>2. row # 0 /\ row # p /\ c[row] # row
  BY NoSelfLink
<1>3. row # f
  BY <1>1, <1>2 DEF FreeApart
<1>4. \A r \in R : c[r] = row => r = p
  BY <1>1, <1>2 DEF RowsApart
<1>5. \A k \in Leaves : s[k] # row
  BY <1>1, <1>2 DEF FirstApart
<1>6. d[row] = f /\ d[p] = c[row] /\ \A r \in R : r # row /\ r # p => d[r] = c[r]
  BY <1>2 DEF Freed
<1> HIDE DEF d
<1>7. RowsApart(R, d)
  <2> SUFFICES ASSUME NEW r \in R, NEW q \in R, d[r] # 0, d[r] = d[q], r # q PROVE FALSE
    BY DEF RowsApart
  <2>1. \A x \in R : x # row => d[x] # f \/ f = 0
    BY <1>1, <1>6 DEF FreeApart
  <2>2. CASE r = row \/ q = row
    BY <2>1, <2>2, <1>6
  <2>3. CASE r # row /\ q # row
    <3>1. CASE r = p
      BY <3>1, <2>3, <1>1, <1>6 DEF RowsApart
    <3>2. CASE q = p
      BY <3>2, <2>3, <1>1, <1>6 DEF RowsApart
    <3>3. CASE r # p /\ q # p
      BY <3>3, <2>3, <1>1, <1>6 DEF RowsApart
    <3> QED
      BY <3>1, <3>2, <3>3
  <2> QED
    BY <2>2, <2>3
<1>8. FirstApart(R, d, s)
  <2> SUFFICES ASSUME NEW k \in Leaves, NEW r \in R, s[k] # 0, d[r] = s[k]
               PROVE  FALSE
    BY DEF FirstApart
  <2>1. CASE r = row
    BY <2>1, <1>1, <1>6 DEF FreeApart
  <2>2. CASE r = p
    BY <2>2, <1>1, <1>6 DEF FirstApart
  <2>3. CASE r # row /\ r # p
    BY <2>3, <1>1, <1>6 DEF FirstApart
  <2> QED
    BY <2>1, <2>2, <2>3
<1>9. FreeApart(R, d, s, row)
  <2>1. \A r \in R : d[r] # row
    BY <1>2, <1>3, <1>4, <1>6
  <2> QED
    BY <2>1, <1>5 DEF FreeApart
<1>10. AllReached(R, d, s, row)
  <2> SUFFICES ASSUME NEW r \in R PROVE Reached(R, d, s, row, r)
    BY DEF AllReached
  <2>1. CASE r = f
    BY <2>1, <1>6 DEF Reached
  <2>2. CASE \E k \in Leaves : s[k] = r
    BY <2>2 DEF Reached
  <2>3. ASSUME NEW q \in R, c[q] = r PROVE Reached(R, d, s, row, r)
    <3>1. CASE q = p
      BY <2>3, <3>1 DEF Reached
    <3>2. CASE q = row
      BY <2>3, <3>2, <1>6 DEF Reached
    <3>3. CASE q # p /\ q # row
      BY <2>3, <3>3, <1>6 DEF Reached
    <3> QED
      BY <3>1, <3>2, <3>3
  <2>4. Reached(R, c, s, f, r)
    BY <1>1 DEF AllReached
  <2> QED
    BY <2>1, <2>2, <2>3, <2>4 DEF Reached
<1>11. Linked(R, d, s, row)
  BY <1>1, <1>7, <1>8, <1>9, <1>10 DEF Linked
<1>12. Acyclic(R, Freed(R, c, f, row, p))
  BY <1>3, <1>4, FreedRanked
<1> QED
  BY <1>11, <1>12 DEF d
-----------------------------------------------------------------------------
(* The rows of a table are a sequence. *)
LEMMA SequenceIsFunction ==
    ASSUME NEW T, NEW a \in Seq(T), NEW m \in Nat, Len(a) = m
    PROVE  a \in [1 .. m -> T]
OBVIOUS

LEMMA RowAppended ==
    ASSUME NEW n \in Nat, NEW T, NEW c \in [1 .. n -> T], NEW e \in T
    PROVE  /\ Append(c, e) \in [1 .. n + 1 -> T]
           /\ Append(c, e)[n + 1] = e
           /\ \A r \in 1 .. n : Append(c, e)[r] = c[r]
<1>1. c \in Seq(T) /\ Len(c) = n
  OBVIOUS
<1>2. Append(c, e) \in Seq(T) /\ Len(Append(c, e)) = n + 1
  BY <1>1
<1>3. Append(c, e) \in [1 .. n + 1 -> T]
  <2>1. n + 1 \in Nat
    OBVIOUS
  <2> QED
    BY <2>1, <1>2, SequenceIsFunction
<1>4. Append(c, e)[n + 1] = e /\ \A r \in 1 .. n : Append(c, e)[r] = c[r]
  BY <1>1
<1> QED
  BY <1>3, <1>4

LEMMA NoRowZero == 0 \notin Rows
BY DEF Rows

(* The first row of a leaf is block when no removal is in progress, *)
LEMMA StartIdle == TableType /\ loop = {} => start = block
<1> SUFFICES ASSUME TableType, loop = {} PROVE start = block
  OBVIOUS
<1>1. block \in [Leaves -> {0} \cup Rows]
  BY DEF TableType
<1>2. start = [l \in Leaves |-> block[l]]
  BY DEF start
<1> QED
  BY <1>1, <1>2

(* and the loop's local variable for the leaf of a removal. *)
LEMMA StartInLoop ==
    ASSUME TableType, NEW x, loop = {x}
    PROVE  start = [block EXCEPT ![x.leaf] = x.ret]
<1>1. \A l \in Leaves : (\E y \in loop : y.leaf = l) <=> l = x.leaf
  OBVIOUS
<1>2. (CHOOSE y \in loop : TRUE) = x
  OBVIOUS
<1>3. start = [l \in Leaves |-> IF l = x.leaf THEN x.ret ELSE block[l]]
  BY <1>1, <1>2 DEF start
<1>4. block \in [Leaves -> {0} \cup Rows]
  BY DEF TableType
<1> QED
  BY <1>3, <1>4

(* The parts of the type invariant. *)
LEMMA Types ==
    PB_Inv => /\ length \in Nat \ {0}
              /\ cont \in [Rows -> {0} \cup Rows]
              /\ data \in [Rows -> Pairs]
              /\ freeList \in {0} \cup Rows
              /\ block \in [Leaves -> {0} \cup Rows]
BY DEF PB_Inv, TableType
-----------------------------------------------------------------------------
LEMMA PB_InvInit == PB_Init => PB_Inv
<1> SUFFICES ASSUME PB_Init PROVE PB_Inv
  OBVIOUS
<1>1. Rows = {} /\ length = 1
  BY DEF PB_Init, Rows
<1>2. cont \in [Rows -> {0} \cup Rows] /\ data \in [Rows -> Pairs]
  BY <1>1 DEF PB_Init
<1>3. TableType
  BY <1>1, <1>2 DEF PB_Init, TableType
<1>4. LoopOK
  BY DEF PB_Init, LoopOK
<1>5. start = block /\ \A l \in Leaves : block[l] = 0
  BY <1>3, StartIdle DEF PB_Init
<1>6. Linked(Rows, cont, start, freeList)
  BY <1>1, <1>5 DEF PB_Init, Linked, RowsApart, LeavesApart, FirstApart, FreeApart, AllReached
<1>7. Acyclic(Rows, cont)
  <2>1. [r \in {} |-> 0] \in [{} -> Nat]
    OBVIOUS
  <2> QED
    BY <2>1, <1>1 DEF Acyclic, Descending
<1> QED
  BY <1>3, <1>4, <1>6, <1>7 DEF PB_Inv

LEMMA ReuseRowStep ==
    ASSUME PB_Inv, NEW l \in Leaves, NEW pair \in Pairs, ReuseRow(l, pair)
    PROVE  PB_Inv'
<1>1. /\ cont' = [cont EXCEPT ![freeList] = block[l]]
      /\ data' = [data EXCEPT ![freeList] = pair]
      /\ block' = [block EXCEPT ![l] = freeList]
      /\ freeList' = cont[freeList]
      /\ loop = {} /\ loop' = {} /\ length' = length /\ freeList # 0
  BY DEF ReuseRow
<1>2. Rows' = Rows
  BY <1>1 DEF Rows
<1>3. freeList \in Rows
  BY <1>1, Types
<1>4. TableType'
  <2>1. cont' \in [Rows -> {0} \cup Rows] /\ freeList' \in {0} \cup Rows
    BY <1>1, <1>3, Types
  <2>2. data' \in [Rows -> Pairs]
    BY <1>1, <1>3, Types
  <2>3. block' \in [Leaves -> {0} \cup Rows]
    BY <1>1, <1>3, Types
  <2> QED
    BY <1>1, <1>2, <2>1, <2>2, <2>3, Types DEF TableType
<1>5. start = block
  BY <1>1, StartIdle DEF PB_Inv
<1>6. start' = block'
  <2>1. (TableType /\ loop = {} => start = block)'
    BY StartIdle, PTL
  <2> QED
    BY <2>1, <1>1, <1>4
<1>7. Linked(Rows, cont, block, freeList) /\ Acyclic(Rows, cont)
  BY <1>5 DEF PB_Inv
<1>8. Linked(Rows, cont', block', freeList') /\ Acyclic(Rows, cont')
  BY <1>1, <1>3, <1>7, Reused, NoRowZero, Types
<1>9. LoopOK'
  BY <1>1 DEF LoopOK
<1> QED
  BY <1>2, <1>4, <1>6, <1>8, <1>9 DEF PB_Inv

LEMMA NewRowStep ==
    ASSUME PB_Inv, NEW l \in Leaves, NEW pair \in Pairs, NewRow(l, pair)
    PROVE  PB_Inv'
<1>1. /\ cont' = Append(cont, block[l])
      /\ data' = Append(data, pair)
      /\ block' = [block EXCEPT ![l] = length]
      /\ freeList = 0 /\ freeList' = 0
      /\ loop = {} /\ loop' = {} /\ length' = length + 1
  BY DEF NewRow
<1>2. Rows' = Rows \cup {length} /\ length \notin Rows /\ length # 0 /\ length' \in Nat \ {0}
  BY <1>1, Types DEF Rows
<1> DEFINE n == length - 1
<1>3. n \in Nat /\ Rows = 1 .. n /\ Rows' = 1 .. n + 1 /\ length = n + 1
  BY <1>1, Types DEF Rows
<1> HIDE DEF n
<1>4. /\ cont' \in [Rows' -> {0} \cup Rows']
      /\ cont'[length] = block[l]
      /\ \A r \in Rows : cont'[r] = cont[r]
  <2> DEFINE T == {0} \cup Rows'
  <2>1. cont \in [1 .. n -> T] /\ block[l] \in T
    BY <1>2, <1>3, Types
  <2>2. /\ cont' \in [1 .. n + 1 -> T]
        /\ cont'[n + 1] = block[l]
        /\ \A r \in 1 .. n : cont'[r] = cont[r]
    <3> HIDE DEF T
    <3> QED
      BY <2>1, <1>1, <1>3, RowAppended
  <2> QED
    BY <2>2, <1>3
<1>5. data' \in [Rows' -> Pairs]
  <2>1. data \in [1 .. n -> Pairs]
    BY <1>3, Types
  <2> QED
    BY <2>1, <1>1, <1>3, RowAppended
<1>6. TableType'
  <2>1. block' \in [Leaves -> {0} \cup Rows']
    BY <1>1, <1>2, Types
  <2> QED
    BY <1>1, <1>2, <1>4, <1>5, <2>1 DEF TableType
<1>7. start = block
  BY <1>1, StartIdle DEF PB_Inv
<1>8. start' = block'
  <2>1. (TableType /\ loop = {} => start = block)'
    BY StartIdle, PTL
  <2> QED
    BY <2>1, <1>1, <1>6
<1>9. Linked(Rows, cont, block, 0) /\ Acyclic(Rows, cont)
  BY <1>1, <1>7 DEF PB_Inv
<1>10. Linked(Rows', cont', block', 0) /\ Acyclic(Rows', cont')
  <2>1. cont \in [Rows -> {0} \cup Rows] /\ block \in [Leaves -> {0} \cup Rows]
    BY Types
  <2>2. Linked(Rows', cont', [block EXCEPT ![l] = length], 0) /\ Acyclic(Rows', cont')
    <3>1. Grown(Rows, cont, block, l, length, Rows', cont')
      BY <2>1, <1>2, <1>4, NoRowZero DEF Grown
    <3> QED
      BY <3>1, <1>9, Added
  <2> QED
    BY <2>2, <1>1
<1>11. LoopOK'
  BY <1>1 DEF LoopOK
<1> QED
  BY <1>1, <1>6, <1>8, <1>10, <1>11 DEF PB_Inv

LEMMA RemoveStartStep ==
    ASSUME PB_Inv, NEW l \in Leaves, NEW pattern \in Patterns, RemoveStart(l, pattern)
    PROVE  PB_Inv'
<1> DEFINE y == [leaf |-> l, pattern |-> pattern, row |-> block[l], prev |-> 0,
                 ret |-> block[l], removed |-> 0, models |-> {}]
<1>1. /\ UNCHANGED <<length, cont, data, freeList, block>>
      /\ loop = {} /\ loop' = {y}
  BY DEF RemoveStart
<1>2. Rows' = Rows /\ Removals' = Removals
  BY <1>1 DEF Rows, Removals
<1>3. y \in Removals /\ y.leaf = l /\ y.ret = block[l] /\ y.prev = 0 /\ y.row = block[l]
  BY Types DEF Removals
<1> HIDE DEF y
<1>4. TableType'
  BY <1>1, <1>2, <1>3, Types DEF TableType
<1>5. LoopOK'
  BY <1>1, <1>3 DEF LoopOK
<1>6. start = block
  BY <1>1, StartIdle DEF PB_Inv
<1>7. start' = block
  <2>1. \A k \in Leaves : (\E x \in loop' : x.leaf = k) <=> k = l
    BY <1>1, <1>3
  <2>2. (CHOOSE x \in loop' : TRUE) = y
    BY <1>1
  <2>3. start' = [k \in Leaves |-> IF k = l THEN block[l] ELSE block[k]]
    BY <2>1, <2>2, <1>1, <1>3 DEF start
  <2> QED
    BY <2>3, Types
<1> QED
  BY <1>1, <1>2, <1>4, <1>5, <1>6, <1>7 DEF PB_Inv

(* A turn of the loop: x is the removal before it. *)
LEMMA InLoop ==
    ASSUME PB_Inv, NEW x \in loop
    PROVE  /\ loop = {x}
           /\ x \in Removals
           /\ start = [block EXCEPT ![x.leaf] = x.ret]
           /\ x.prev = 0 => x.ret = x.row
           /\ x.prev # 0 => cont[x.prev] = x.row
<1>1. loop = {x} /\ x \in Removals
  BY DEF PB_Inv, TableType
<1>2. start = [block EXCEPT ![x.leaf] = x.ret]
  BY <1>1, StartInLoop DEF PB_Inv
<1> QED
  BY <1>1, <1>2 DEF PB_Inv, LoopOK

(* The first rows after a turn of the loop, which leaves the blocks alone. *)
LEMMA StartAfterTurn ==
    ASSUME PB_Inv, NEW x, NEW y, UNCHANGED block, loop' = {y}, y.leaf = x.leaf
    PROVE  start' = [block EXCEPT ![x.leaf] = y.ret]
<1>1. \A k \in Leaves : (\E z \in loop' : z.leaf = k) <=> k = x.leaf
  OBVIOUS
<1>2. (CHOOSE z \in loop' : TRUE) = y
  OBVIOUS
<1>3. start' = [k \in Leaves |-> IF k = x.leaf THEN y.ret ELSE block[k]]
  BY <1>1, <1>2 DEF start
<1> QED
  BY <1>3, Types

LEMMA RemoveRowStep == PB_Inv /\ RemoveRow => PB_Inv'
<1> SUFFICES ASSUME PB_Inv, RemoveRow PROVE PB_Inv'
  OBVIOUS
<1>1. PICK x \in loop :
        /\ x.row # 0
        /\ cont' = [r \in Rows |-> IF r = x.row THEN freeList
                                   ELSE IF r = x.prev THEN cont[x.row] ELSE cont[r]]
        /\ freeList' = x.row
        /\ loop' = {[leaf |-> x.leaf, pattern |-> x.pattern, row |-> cont[x.row], prev |-> x.prev,
                     ret |-> IF x.prev = 0 THEN cont[x.row] ELSE x.ret,
                     removed |-> x.removed + 1, models |-> x.models \cup Noted(x)]}
        /\ UNCHANGED <<length, data, block>>
  BY DEF RemoveRow
<1>2. /\ loop = {x}
      /\ x \in Removals
      /\ start = [block EXCEPT ![x.leaf] = x.ret]
      /\ x.prev = 0 => x.ret = x.row
      /\ x.prev # 0 => cont[x.prev] = x.row
  BY InLoop
<1>3. Rows' = Rows /\ Removals' = Removals
  BY <1>1 DEF Rows, Removals
<1>4. /\ x.leaf \in Leaves /\ x.row \in Rows /\ x.prev \in {0} \cup Rows /\ x.ret \in {0} \cup Rows
      /\ x.pattern \in Patterns /\ x.removed \in Nat /\ x.models \in SUBSET Models
  BY <1>1, <1>2 DEF Removals
<1>5. cont' = Freed(Rows, cont, freeList, x.row, x.prev)
  BY <1>1 DEF Freed
<1>6. cont[x.row] \in {0} \cup Rows
  BY <1>4, Types
<1>7. Noted(x) \in SUBSET Models
  <2>1. data[x.row] \in Pairs
    BY <1>4, Types
  <2> QED
    BY <2>1 DEF Noted, Pairs
<1> DEFINE y == [leaf |-> x.leaf, pattern |-> x.pattern, row |-> cont[x.row], prev |-> x.prev,
                 ret |-> IF x.prev = 0 THEN cont[x.row] ELSE x.ret,
                 removed |-> x.removed + 1, models |-> x.models \cup Noted(x)]
<1>8. /\ y.leaf = x.leaf /\ y.prev = x.prev /\ y.row = cont[x.row]
      /\ y.ret = IF x.prev = 0 THEN cont[x.row] ELSE x.ret
  OBVIOUS
<1>9. y \in Removals
  <2>1. (IF x.prev = 0 THEN cont[x.row] ELSE x.ret) \in {0} \cup Rows
    BY <1>4, <1>6
  <2>2. x.models \cup Noted(x) \in SUBSET Models
    BY <1>4, <1>7
  <2>3. x.removed + 1 \in Nat
    BY <1>4
  <2> QED
    BY <2>1, <2>2, <2>3, <1>4, <1>6 DEF Removals
<1>10. loop' = {y}
  BY <1>1
<1> HIDE DEF y
<1>11. TableType'
  <2>1. cont' \in [Rows -> {0} \cup Rows]
    BY <1>5, <1>6, Types DEF Freed
  <2>2. freeList' \in {0} \cup Rows
    BY <1>1, <1>4
  <2> QED
    BY <1>1, <1>3, <1>9, <1>10, <2>1, <2>2, Types DEF TableType
<1>12. start' = [block EXCEPT ![x.leaf] = y.ret]
  BY <1>1, <1>8, <1>10, StartAfterTurn
<1>13. Linked(Rows, cont, start, freeList) /\ Acyclic(Rows, cont)
  BY DEF PB_Inv
<1>14. start \in [Leaves -> {0} \cup Rows]
  BY <1>2, <1>4, Types
<1>15. CASE x.prev = 0
  <2>1. start[x.leaf] = x.row
    BY <1>2, <1>4, <1>15, Types
  <2>2. start' = [start EXCEPT ![x.leaf] = cont[x.row]]
    BY <1>2, <1>4, <1>8, <1>12, <1>15, Types
  <2>3. Linked(Rows, cont', start', freeList') /\ Acyclic(Rows, cont')
    <3>1. cont \in [Rows -> {0} \cup Rows] /\ freeList \in {0} \cup Rows
      BY Types
    <3>2. /\ Linked(Rows, Freed(Rows, cont, freeList, x.row, 0),
                    [start EXCEPT ![x.leaf] = cont[x.row]], x.row)
          /\ Acyclic(Rows, Freed(Rows, cont, freeList, x.row, 0))
      BY <3>1, <2>1, <1>4, <1>13, <1>14, FreedFirst, NoRowZero
    <3> QED
      BY <3>2, <2>2, <1>1, <1>5, <1>15
  <2>4. LoopOK'
    BY <1>8, <1>10, <1>15 DEF LoopOK
  <2> QED
    BY <1>3, <1>11, <2>3, <2>4 DEF PB_Inv
<1>16. CASE x.prev # 0
  <2>1. x.prev \in Rows /\ cont[x.prev] = x.row
    BY <1>2, <1>4, <1>16
  <2>2. start' = start
    BY <1>2, <1>8, <1>12, <1>16
  <2>3. Linked(Rows, cont', start, freeList') /\ Acyclic(Rows, cont')
    <3>1. cont \in [Rows -> {0} \cup Rows] /\ freeList \in {0} \cup Rows
      BY Types
    <3>2. /\ Linked(Rows, Freed(Rows, cont, freeList, x.row, x.prev), start, x.row)
          /\ Acyclic(Rows, Freed(Rows, cont, freeList, x.row, x.prev))
      BY <3>1, <2>1, <1>4, <1>13, <1>14, FreedAfter, NoRowZero
    <3> QED
      BY <3>2, <1>1, <1>5
  <2>4. x.prev # x.row
    BY <2>1, <1>13, NoSelfLink, NoRowZero, Types
  <2>5. cont'[x.prev] = cont[x.row]
    BY <2>1, <2>4, <1>5 DEF Freed
  <2>6. LoopOK'
    BY <2>5, <1>8, <1>10, <1>16 DEF LoopOK
  <2> QED
    BY <1>3, <1>11, <2>2, <2>3, <2>6 DEF PB_Inv
<1> QED
  BY <1>15, <1>16

LEMMA KeepRowStep == PB_Inv /\ KeepRow => PB_Inv'
<1> SUFFICES ASSUME PB_Inv, KeepRow PROVE PB_Inv'
  OBVIOUS
<1>1. PICK x \in loop :
        /\ x.row # 0
        /\ loop' = {[x EXCEPT !.row = cont[x.row], !.prev = x.row]}
        /\ UNCHANGED <<length, cont, data, freeList, block>>
  BY DEF KeepRow
<1>2. /\ x \in Removals
      /\ start = [block EXCEPT ![x.leaf] = x.ret]
  BY InLoop
<1>3. Rows' = Rows /\ Removals' = Removals
  BY <1>1 DEF Rows, Removals
<1>4. x.row \in Rows
  BY <1>1, <1>2 DEF Removals
<1>5. cont[x.row] \in {0} \cup Rows
  BY <1>4, Types
<1> DEFINE y == [x EXCEPT !.row = cont[x.row], !.prev = x.row]
<1>6. /\ y \in Removals /\ y.leaf = x.leaf /\ y.prev = x.row /\ y.row = cont[x.row]
      /\ y.ret = x.ret
  BY <1>2, <1>4, <1>5 DEF Removals
<1>7. loop' = {y}
  BY <1>1
<1> HIDE DEF y
<1>8. TableType'
  BY <1>1, <1>3, <1>6, <1>7, Types DEF TableType
<1>9. LoopOK'
  BY <1>1, <1>6, <1>7 DEF LoopOK
<1>10. start' = start
  <2>1. start' = [block EXCEPT ![x.leaf] = y.ret]
    BY <1>1, <1>6, <1>7, StartAfterTurn
  <2> QED
    BY <2>1, <1>2, <1>6
<1> QED
  BY <1>1, <1>3, <1>8, <1>9, <1>10 DEF PB_Inv

LEMMA RemoveEndStep == PB_Inv /\ RemoveEnd => PB_Inv'
<1> SUFFICES ASSUME PB_Inv, RemoveEnd PROVE PB_Inv'
  OBVIOUS
<1>1. PICK x \in loop :
        /\ block' = [block EXCEPT ![x.leaf] = x.ret]
        /\ loop' = {}
        /\ UNCHANGED <<length, cont, data, freeList>>
  BY DEF RemoveEnd
<1>2. /\ x \in Removals
      /\ start = [block EXCEPT ![x.leaf] = x.ret]
  BY InLoop
<1>3. Rows' = Rows
  BY <1>1 DEF Rows
<1>4. block' \in [Leaves -> {0} \cup Rows]
  BY <1>1, <1>2, Types DEF Removals
<1>5. TableType'
  BY <1>1, <1>3, <1>4, Types DEF TableType
<1>6. start' = block'
  <2>1. (TableType /\ loop = {} => start = block)'
    BY StartIdle, PTL
  <2> QED
    BY <2>1, <1>1, <1>5
<1>7. LoopOK'
  BY <1>1 DEF LoopOK
<1> QED
  BY <1>1, <1>2, <1>3, <1>5, <1>6, <1>7 DEF PB_Inv
-----------------------------------------------------------------------------
LEMMA PB_Invariance == PB_Spec => []PB_Inv
<1>1. PB_Inv /\ [PB_Next]_pb_vars => PB_Inv'
  <2> SUFFICES ASSUME PB_Inv, [PB_Next]_pb_vars PROVE PB_Inv'
    OBVIOUS
  <2>1. CASE UNCHANGED pb_vars
    <3>1. Rows' = Rows
      BY <2>1 DEF pb_vars, Rows
    <3>2. start' = start /\ Removals' = Removals
      BY <2>1, <3>1 DEF pb_vars, start, Removals
    <3>3. TableType' /\ LoopOK'
      BY <2>1, <3>1, <3>2 DEF pb_vars, PB_Inv, TableType, LoopOK
    <3> QED
      BY <2>1, <3>1, <3>2, <3>3 DEF pb_vars, PB_Inv
  <2>2. ASSUME NEW l \in Leaves, NEW pair \in Pairs, ReuseRow(l, pair) \/ NewRow(l, pair)
        PROVE  PB_Inv'
    BY <2>2, ReuseRowStep, NewRowStep
  <2>3. ASSUME NEW l \in Leaves, NEW pattern \in Patterns, RemoveStart(l, pattern)
        PROVE  PB_Inv'
    BY <2>3, RemoveStartStep
  <2> QED
    BY <2>1, <2>2, <2>3, RemoveRowStep, KeepRowStep, RemoveEndStep DEF PB_Next
<1> QED
  BY <1>1, PB_InvInit, PTL DEF PB_Spec

(* Every row of the pair table has exactly one link to it, from its chain, *)
(* its leaf or the free list, after every operation of ptable.c and        *)
(* between any two turns of fs_ptable_remove_pair: no row leaks and no row *)
(* is shared by two chains, for any number of leaves, rows and pairs.      *)
THEOREM RowsHaveOneReference == PB_Spec => []OneReference
<1>1. PB_Inv => OneReference
  <2> SUFFICES ASSUME PB_Inv PROVE OneReference
    OBVIOUS
  <2>1. Linked(Rows, cont, start, freeList)
    BY DEF PB_Inv
  <2> QED
    BY <2>1 DEF Linked, RowsApart, LeavesApart, FirstApart, FreeApart, AllReached, Reached, OneReference
<1> QED
  BY <1>1, PB_Invariance, PTL

(* The links of the rows go strictly down some ranking, so the loops of    *)
(* ptable.c that follow cont until 0 (fs_ptable_remove_pair,               *)
(* fs_ptable_pair_exists, fs_ptable_chain_length) come to an end.          *)
THEOREM ChainsAreAcyclic == PB_Spec => []Acyclic(Rows, cont)
<1>1. PB_Inv => Acyclic(Rows, cont)
  BY DEF PB_Inv
<1> QED
  BY <1>1, PB_Invariance, PTL
=============================================================================
