----------------------------- MODULE IdVectors -----------------------------
(***************************************************************************)
(* The containers of ids that every program uses: the vectors and the set  *)
(* of common/datatypes.c, the bit array of common/bit_arr.c, and the sort  *)
(* of common/msort.c.                                                      *)
(*                                                                         *)
(* An id is an integer, compared as the signed number rid_compare makes of *)
(* it, so FS_RID_NULL is the least one and the ids of literals are not     *)
(* negative.  Beside each structure is what it stands for: a sequence of   *)
(* ids, a set of ids, the places cleared.                                  *)
(*                                                                         *)
(* Each use of a structure is a behaviour of its own, chosen by iv_use.    *)
(***************************************************************************)
EXTENDS Integers, Sequences, FiniteSets, SequencesExt, Bitwise

CONSTANTS
    VectorRids,     \* the ids put into vectors
    SetRids,        \* the ids put into sets
    RidNull,        \* FS_RID_NULL
    FirstSize,      \* the least size of a new vector
    CopyFrom,       \* append_vector makes room at once for more ids than this
    SetEntries,     \* FS_RID_SET_ENTRIES
    MaxVector,      \* bound on the length of a vector
    BitCount,       \* the places of the bit array
    SortKeys, MaxSort,  \* what is sorted, and how much of it
    OddVectors      \* see Rewound and FlagPlace

ASSUME IdVectorsAssumption ==
    /\ RidNull \in VectorRids \cap SetRids
    /\ \A r \in VectorRids \cup SetRids : r \in Int /\ RidNull <= r
    /\ OddVectors \subseteq {"no rewind", "set bit"}

VARIABLES
    iv_use,     \* which structure is in use
    iv_vec,     \* the vector that changes: its ids and its room
    iv_ref,     \* the sequence of ids it stands for
    iv_other,   \* another vector, appended from and copied to
    iv_set,     \* the set: its entries, and where its scan stands
    iv_given,   \* what the scan has returned, and whether all was added before it
    iv_bits,    \* the bytes of the bit array, and the places that were cleared
    iv_rows     \* rows <<key, tag>>, before and after sorting

ivvars == <<iv_use, iv_vec, iv_ref, iv_other, iv_set, iv_given, iv_bits, iv_rows>>

IsLiteralId(r) == r >= 0
Larger(m, n) == IF m < n THEN n ELSE m
-----------------------------------------------------------------------------
(* Vectors: the ids of the vector, and how many its memory has room for.   *)
(* More ids than that means that memory beyond it was written.             *)
fs_rid_vector_new(ids) == [size |-> Larger(FirstSize, Len(ids)), ids |-> ids]

fs_rid_vector_append(v, r) ==
    [ids |-> Append(v.ids, r),
     size |-> IF Len(v.ids) < v.size THEN v.size ELSE IF v.size # 0 THEN 2 * v.size ELSE FirstSize]

(* The ids s one after the other. *)
AppendEach(v, s) == FoldLeft(fs_rid_vector_append, v, s)

\* Mutant: room is made only for as much as a new vector has.
AppendSmallRoom(v, v2) ==
    LET n == Len(v2.ids)
        size == IF n > CopyFrom /\ v.size - Len(v.ids) < n THEN v.size + FirstSize ELSE v.size
    IN  [size |-> size, ids |-> v.ids \o v2.ids]

(* More than a few ids are copied at once, after room is made for them;    *)
(* a few may come one by one.                                              *)
fs_rid_vector_append_vector(v, v2) ==
    LET n == Len(v2.ids)
        size == IF n > CopyFrom /\ v.size - Len(v.ids) < n THEN v.size + Larger(FirstSize, n) ELSE v.size
    IN  IF size - Len(v.ids) >= n THEN [size |-> size, ids |-> v.ids \o v2.ids] ELSE AppendEach(v, v2.ids)

fs_rid_vector_append_vector_no_nulls(v, v2) ==
    AppendEach(v, SelectSeq(v2.ids, LAMBDA r : r # RidNull))

fs_rid_vector_append_vector_no_nulls_lit(v, v2) ==
    AppendEach(v, SelectSeq(v2.ids, LAMBDA r : r # RidNull /\ ~IsLiteralId(r)))

fs_rid_vector_copy(v) == [size |-> Larger(FirstSize, v.size), ids |-> v.ids]

fs_rid_vector_truncate(v, n) == IF Len(v.ids) < n THEN v ELSE [v EXCEPT !.ids = SubSeq(@, 1, n)]

(* The places that are new hold whatever the memory does; fill is what the *)
(* caller stores in all of them next (BIND in fs_query_execute).           *)
fs_rid_vector_grow(v, n, fill) == [size |-> Larger(v.size, n), ids |-> [i \in 1 .. n |-> fill]]

(* rid_compare, and the C library's qsort with it. *)
fs_rid_vector_sort(v) == [v EXCEPT !.ids = SortSeq(@, LAMBDA a, b : a < b)]

(* A row goes if the next one is equal to it; rows are only ever moved     *)
(* towards the start, over rows that were looked at already.               *)
fs_rid_vector_uniq(v, remove_null) ==
    LET kept == {i \in DOMAIN v.ids : /\ ~(remove_null /\ v.ids[i] = RidNull)
                                      /\ ~(i < Len(v.ids) /\ v.ids[i] = v.ids[i + 1])}
    IN  [v EXCEPT !.ids = [k \in 1 .. Cardinality(kept) |-> @[SetToSortSeq(kept, <)[k]]]]

fs_rid_vector_contains(v, r) == \E i \in DOMAIN v.ids : v.ids[i] = r
-----------------------------------------------------------------------------
(* The set: for each hash a chain of ids, the first of which is RidNull    *)
(* when there is none.                                                     *)
EntryHash(r) == r % SetEntries
fs_rid_set_new == [entry |-> [h \in 0 .. SetEntries - 1 |-> <<RidNull>>], hash |-> 0, at |-> 0]

fs_rid_set_add(s, r) ==
    LET chain == s.entry[EntryHash(r)]
    IN  IF r = RidNull \/ r \in Range(chain) THEN s
        ELSE [s EXCEPT !.entry[EntryHash(r)] = IF chain[1] = RidNull THEN <<r>> ELSE Append(chain, r)]

fs_rid_set_contains(s, r) == r # RidNull /\ r \in Range(s.entry[EntryHash(r)])

(* scan_entry is the place in a chain, 0 when it is NULL. *)
fs_rid_set_rewind(s) ==
    LET used == {h \in 0 .. SetEntries - 1 : s.entry[h][1] # RidNull}
    IN  IF used = {} THEN [s EXCEPT !.hash = SetEntries, !.at = 0]
        ELSE [s EXCEPT !.hash = CHOOSE h \in used : \A g \in used : h <= g, !.at = 1]

(* The next id and the set after it: within the chain, or the first of a   *)
(* later chain that has one, or RidNull.                                   *)
fs_rid_set_next(s) ==
    LET chain == s.entry[s.hash]
        later == {h \in s.hash + 1 .. SetEntries - 1 : s.entry[h][1] # RidNull}
        step(h, i) == [id |-> s.entry[h][i],
                       set |-> [s EXCEPT !.hash = h, !.at = IF i < Len(s.entry[h]) THEN i + 1 ELSE 0]]
    IN  IF s.hash < SetEntries /\ s.at # 0 /\ chain[s.at] # RidNull THEN step(s.hash, s.at)
        ELSE IF s.hash < SetEntries /\ later # {} THEN step(CHOOSE h \in later : \A g \in later : h <= g, 1)
        ELSE [id |-> RidNull, set |-> [s EXCEPT !.hash = SetEntries, !.at = 0]]

fs_rid_vector_append_set(v, s) ==
    AppendEach(v, SelectSeq(FlattenSeq([h \in 1 .. SetEntries |-> s.entry[h - 1]]), LAMBDA r : r # RidNull))
-----------------------------------------------------------------------------
(* The bit array: eight places in a byte, the first in its highest bit. *)
SetMask == <<127, 191, 223, 239, 247, 251, 253, 254>>
GetMask == <<128, 64, 32, 16, 8, 4, 2, 1>>

fs_bit_mask_set(nbit, value) == IF value = 1 THEN 255 ELSE SetMask[nbit + 1]
fs_bit_mask_get(nbit) == GetMask[nbit + 1]
fs_new_bit_array(n) == [i \in 0 .. n \div 8 + (IF n % 8 # 0 THEN 1 ELSE 0) - 1 |-> 255]
fs_bit_array_set(p, i, value) == [p EXCEPT ![i \div 8] = @ & fs_bit_mask_set(i % 8, value)]
fs_bit_array_get(p, i) == IF (p[i \div 8] & fs_bit_mask_get(i % 8)) # 0 THEN 1 ELSE 0
-----------------------------------------------------------------------------
(* msort_with_tmp: the two halves are sorted and merged into other memory, *)
(* from where all but what is left of the second half is copied back.      *)
(* What is left of it is in its place already.                             *)
RECURSIVE Merge(_, _), msort_with_tmp(_)

Merge(s, t) ==
    IF s = <<>> THEN t ELSE IF t = <<>> THEN s
    ELSE IF s[1][1] <= t[1][1] THEN <<s[1]>> \o Merge(Tail(s), t)
    ELSE <<t[1]>> \o Merge(s, Tail(t))

msort_with_tmp(b) ==
    LET n == Len(b)
        n1 == n \div 2
    IN  IF n <= 1 THEN b
        ELSE Merge(msort_with_tmp(SubSeq(b, 1, n1)), msort_with_tmp(SubSeq(b, n1 + 1, n)))

fs_qsort_r(b) == msort_with_tmp(b)
-----------------------------------------------------------------------------
NoScan == [ids |-> <<>>, all |-> FALSE, ended |-> FALSE]

IV_Init ==
    /\ iv_use \in {"vector", "set", "bits", "sort"}
    /\ iv_vec = fs_rid_vector_new(<<>>) /\ iv_ref = <<>>
    /\ iv_other = fs_rid_vector_new(<<>>)
    /\ iv_set = fs_rid_set_new /\ iv_given = NoScan
    /\ iv_bits = [bytes |-> fs_new_bit_array(BitCount), cleared |-> {}]
    /\ iv_rows = [given |-> <<>>, sorted |-> <<>>]

\* Vectors: the vector becomes v, which stands for ref.
Becomes(v, ref) ==
    /\ iv_use = "vector"
    /\ Len(ref) <= MaxVector
    /\ iv_vec' = v /\ iv_ref' = ref
    /\ UNCHANGED <<iv_use, iv_set, iv_given, iv_bits, iv_rows>>

AppendId ==
    /\ \E r \in VectorRids : Becomes(fs_rid_vector_append(iv_vec, r), Append(iv_ref, r))
    /\ UNCHANGED iv_other

AppendOther ==
    /\ LET other == iv_other.ids
           wanted(s) == SelectSeq(other, LAMBDA r : r \in s)
       IN  \/ Becomes(fs_rid_vector_append_vector(iv_vec, iv_other), iv_ref \o other)
           \/ Becomes(fs_rid_vector_append_vector_no_nulls(iv_vec, iv_other),
                      iv_ref \o wanted(VectorRids \ {RidNull}))
           \/ Becomes(fs_rid_vector_append_vector_no_nulls_lit(iv_vec, iv_other),
                      iv_ref \o wanted({r \in VectorRids : r # RidNull /\ r < 0}))
    /\ UNCHANGED iv_other

CopyVector ==
    /\ Becomes(iv_vec, iv_ref)
    /\ iv_other' = fs_rid_vector_copy(iv_vec)

(* fs_rid_vector_clear and fs_rid_vector_truncate. *)
Shorten ==
    /\ \E n \in 0 .. 2 : Becomes(fs_rid_vector_truncate(iv_vec, n), [i \in DOMAIN iv_ref \cap (1 .. n) |-> iv_ref[i]])
    /\ UNCHANGED iv_other

GrowAndFill ==
    /\ \E n \in Len(iv_ref) .. MaxVector, r \in VectorRids :
        Becomes(fs_rid_vector_grow(iv_vec, n, r), [i \in 1 .. n |-> r])
    /\ UNCHANGED iv_other

SortAndUniq ==
    /\ \E remove \in BOOLEAN :
        Becomes(fs_rid_vector_uniq(fs_rid_vector_sort(iv_vec), remove),
                SetToSortSeq(Range(iv_ref) \ (IF remove THEN {RidNull} ELSE {}), LAMBDA a, b : a < b))
    /\ UNCHANGED iv_other

\* Sets.
AddToSet ==
    /\ iv_use = "set"
    /\ \E r \in SetRids :
        /\ iv_set' = fs_rid_set_add(iv_set, r)
        /\ iv_ref' = IF r \in Range(iv_ref) \cup {RidNull} THEN iv_ref ELSE Append(iv_ref, r)
    /\ iv_given' = NoScan
    /\ UNCHANGED <<iv_use, iv_vec, iv_other, iv_bits, iv_rows>>

(* A scan starts, after fs_rid_set_rewind; without it only if "no rewind"  *)
(* is in OddVectors.                                                       *)
Rewound ==
    /\ iv_use = "set"
    /\ iv_set' \in {fs_rid_set_rewind(iv_set)} \cup (IF "no rewind" \in OddVectors THEN {iv_set} ELSE {})
    /\ iv_given' = [ids |-> <<>>, all |-> TRUE, ended |-> FALSE]
    /\ UNCHANGED <<iv_use, iv_vec, iv_ref, iv_other, iv_bits, iv_rows>>

ScanNext ==
    /\ iv_use = "set" /\ iv_given.all /\ ~iv_given.ended
    /\ LET n == fs_rid_set_next(iv_set)
       IN  /\ iv_set' = n.set
           /\ iv_given' = IF n.id = RidNull THEN [iv_given EXCEPT !.ended = TRUE]
                          ELSE [iv_given EXCEPT !.ids = Append(@, n.id)]
    /\ UNCHANGED <<iv_use, iv_vec, iv_ref, iv_other, iv_bits, iv_rows>>

\* Bits: a place is cleared; set again only if "set bit" is in OddVectors.
FlagPlace ==
    /\ iv_use = "bits"
    /\ \E i \in 0 .. BitCount - 1, value \in {0} \cup (IF "set bit" \in OddVectors THEN {1} ELSE {}) :
        iv_bits' = [bytes |-> fs_bit_array_set(iv_bits.bytes, i, value),
                    cleared |-> IF value = 0 THEN iv_bits.cleared \cup {i} ELSE iv_bits.cleared \ {i}]
    /\ UNCHANGED <<iv_use, iv_vec, iv_ref, iv_other, iv_set, iv_given, iv_rows>>

\* Sorting: rows with a key and their place.
SortRows ==
    /\ iv_use = "sort" /\ iv_rows.given = <<>>
    /\ \E n \in 0 .. MaxSort : \E keys \in [1 .. n -> SortKeys] :
        LET rows == [i \in 1 .. n |-> <<keys[i], i>>]
        IN  iv_rows' = [given |-> rows, sorted |-> fs_qsort_r(rows)]
    /\ UNCHANGED <<iv_use, iv_vec, iv_ref, iv_other, iv_set, iv_given, iv_bits>>

IV_Next ==
    \/ AppendId \/ AppendOther \/ CopyVector \/ Shorten \/ GrowAndFill \/ SortAndUniq
    \/ AddToSet \/ Rewound \/ ScanNext
    \/ FlagPlace \/ SortRows
-----------------------------------------------------------------------------
(* A vector holds exactly the ids that the calls on it say, in order, and  *)
(* never more of them than it has memory for, however calls that make room *)
(* by doubling, by copying and by growing follow each other.               *)
VectorsHoldTheirIds ==
    iv_use = "vector" =>
        /\ iv_vec.ids = iv_ref
        /\ Len(iv_vec.ids) <= iv_vec.size /\ Len(iv_other.ids) <= iv_other.size
        /\ \A r \in VectorRids : fs_rid_vector_contains(iv_vec, r) <=> r \in Range(iv_ref)

(* A set contains what was added to it and nothing else, and a scan of it  *)
(* returns each of these ids exactly once, which fs_delete_quads and       *)
(* remove_by_search rely on to visit every predicate; appended to a vector *)
(* the set gives the same ids.                                             *)
SetsAreScannedOnce ==
    iv_use = "set" =>
        /\ \A r \in SetRids : fs_rid_set_contains(iv_set, r) <=> r \in Range(iv_ref)
        /\ LET v == fs_rid_vector_append_set(fs_rid_vector_new(<<>>), iv_set).ids
           IN  Len(v) = Len(iv_ref) /\ Range(v) = Range(iv_ref)
        /\ iv_given.ended =>
            /\ Len(iv_given.ids) = Len(iv_ref)
            /\ Range(iv_given.ids) = Range(iv_ref)

(* The places of the bit array are independent of each other: one reads as *)
(* 0 exactly if it was cleared.  (MINUS and access control mark rows so.)  *)
BitsAreIndependent ==
    iv_use = "bits" =>
        \A i \in 0 .. BitCount - 1 : fs_bit_array_get(iv_bits.bytes, i) = IF i \in iv_bits.cleared THEN 0 ELSE 1

(* fs_qsort_r puts the rows in the order of their keys, loses none, and    *)
(* leaves rows with the same key in the order they came in.                *)
SortIsStable ==
    LET s == iv_rows.sorted
    IN  /\ Len(s) = Len(iv_rows.given) /\ Range(s) = Range(iv_rows.given)
        /\ \A i \in 1 .. Len(s) - 1 :
            s[i][1] < s[i + 1][1] \/ (s[i][1] = s[i + 1][1] /\ s[i][2] < s[i + 1][2])

(* The containers that the backend and the frontend keep ids in are what   *)
(* their callers take them for: the four statements above.                 *)
ContainersAreExact == VectorsHoldTheirIds /\ SetsAreScannedOnce /\ BitsAreIndependent /\ SortIsStable
=============================================================================
