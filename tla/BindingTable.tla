---------------------------- MODULE BindingTable ----------------------------
(***************************************************************************)
(* The tables of intermediate results and the operations that put them     *)
(* together: frontend/query-datatypes.c.                                   *)
(*                                                                         *)
(* A table has one column per variable of the query.  A column is a list   *)
(* of resource ids and a mark that says whether the variable is bound; the *)
(* columns need not be of one length until the table is sorted.  The sort  *)
(* order that the code keeps in the column _ord is taken by moving the     *)
(* rows.  Ids are compared as unsigned numbers, so FS_RID_NULL lies        *)
(* between the literals and the other resources when rows are sorted,      *)
(* while a comparison of two rows takes it for the least.                  *)
(*                                                                         *)
(* The truncation of tables in restricted mode is left out.                *)
(***************************************************************************)
EXTENDS Naturals, FiniteSets, SequencesExt, FiniteSetsExt

CONSTANTS
    Columns,        \* the variables: 1..n
    NeededColumns,  \* need_val: those whose values are used
    Literals,       \* ids below FS_RID_NULL
    Resources,      \* ids above it
    TableNull,      \* FS_RID_NULL
    Cases,          \* the operations to try: [op, a, b, tests]
    OddCases        \* kinds of cases that are tried too, see Triable

ASSUME BT_Assumption ==
    /\ NeededColumns \subseteq Columns
    /\ \A l \in Literals, r \in Resources : l < TableNull /\ TableNull < r
    /\ OddCases \subseteq {"loose", "filters", "nulls", "unrelated"}

VARIABLE bt_case
bt_vars == <<bt_case>>

Blanks(n) == [i \in 1..n |-> TableNull]
RowCount(t) == Max({Len(t.vals[c]) : c \in Columns})
BoundIn(t) == {c \in Columns : t.bound[c]}
Padded(t) == [t EXCEPT !.vals = [c \in Columns |-> @[c] \o Blanks(RowCount(t) - Len(@[c]))]]
RowAt(t, i) == [c \in Columns |-> t.vals[c][i]]
RowsOf(t) == [i \in 1..RowCount(t) |-> RowAt(Padded(t), i)]

WithRows(bound, rows) ==
    [bound |-> bound,
     vals |-> [c \in Columns |-> IF c \in NeededColumns THEN [i \in DOMAIN rows |-> rows[i][c]] ELSE <<>>]]
-----------------------------------------------------------------------------
(* fs_binding_sort: qsort_r_cmp on the columns marked for sorting. *)
Before(keys, r1, r2) ==
    \E c \in keys : r1[c] < r2[c] /\ \A d \in keys : d < c => r1[d] = r2[d]

SortRows(keys, rows) ==
    LET order == SetToSortSeq(DOMAIN rows, LAMBDA i, j :
                    Before(keys, rows[i], rows[j]) \/ (~Before(keys, rows[j], rows[i]) /\ i < j))
    IN [i \in DOMAIN rows |-> rows[order[i]]]

(* binding_row_compare of row i of A and row j of B: 0 equal, 1 greater,   *)
(* 2 greater than an empty value, 3 (for -1) less, 4 (for -2) an empty     *)
(* value less than another.                                                *)
Compare(A, B, keys, i, j) ==
    CASE i > Len(A) /\ j > Len(B) -> 0
      [] i > Len(A) /\ j <= Len(B) -> 1
      [] i <= Len(A) /\ j > Len(B) -> 3
      [] OTHER ->
            LET differ == {c \in keys : A[i][c] # B[j][c]}
                x == A[i][Min(differ)]
                y == B[j][Min(differ)]
            IN IF differ = {} THEN 0
               ELSE IF x = TableNull THEN 4
               ELSE IF y = TableNull THEN 2
               ELSE IF x > y THEN 1 ELSE 3

\* Mutant: a run is one row.
RunOfOne(A, keys, i, end) == end

(* The end of the run of rows equal to row i. *)
RECURSIVE RunEnd(_, _, _, _)
RunEnd(A, keys, i, end) == IF Compare(A, A, keys, i, end) = 0 THEN RunEnd(A, keys, i, end + 1) ELSE end

(* fs_binding_uniq keeps a row that differs from the one before it. *)
Uniq(rows, keys) ==
    LET kept == {i \in DOMAIN rows : i = 1 \/ Compare(rows, rows, keys, i, i - 1) # 0}
    IN [n \in 1..Cardinality(kept) |-> rows[SetToSortSeq(kept, <)[n]]]

(* What process_results and fs_query_execute do for DISTINCT. *)
Distinct(t) == Uniq(SortRows(BoundIn(t), RowsOf(t)), BoundIn(t))
-----------------------------------------------------------------------------
(* fs_binding_union *)
UnionOf(a, b) ==
    LET Filled(t, c, other) ==
            IF ~t.bound[c] /\ other.bound[c] THEN t.vals[c] \o Blanks(RowCount(t) - Len(t.vals[c]))
            ELSE t.vals[c]
    IN [bound |-> [c \in Columns |-> a.bound[c] \/ b.bound[c]],
        vals |-> [c \in Columns |-> Filled(a, c, b) \o Filled(b, c, a)]]
-----------------------------------------------------------------------------
(* fs_binding_join *)
LeftRow(a, r) == [c \in Columns |-> IF a.bound[c] THEN r[c] ELSE TableNull]
JoinedRow(a, b, r, s, left) ==
    [c \in Columns |->
        CASE ~a.bound[c] /\ ~b.bound[c] -> TableNull
          [] a.bound[c] -> IF left /\ r[c] = TableNull /\ b.bound[c] THEN s[c] ELSE r[c]
          [] OTHER -> s[c]]

RECURSIVE JoinFrom(_, _, _, _, _, _, _, _)
JoinFrom(a, b, A, B, keys, left, i, j) ==
    IF i > Len(A) \/ (~left /\ j > Len(B)) THEN <<>>
    ELSE LET cmp == Compare(A, B, keys, i, j)
             ra == RunEnd(A, keys, i, i + 1)
             rb == RunEnd(B, keys, j, j + 1)
         IN CASE cmp = 3 -> (IF left THEN <<LeftRow(a, A[i])>> ELSE <<>>)
                            \o JoinFrom(a, b, A, B, keys, left, i + 1, j)
              [] cmp = 1 -> JoinFrom(a, b, A, B, keys, left, i, j + 1)
              [] OTHER -> FlattenSeq([x \in 1..(ra - i) |->
                              [y \in 1..(rb - j) |-> JoinedRow(a, b, A[i + x - 1], B[j + y - 1], left)]])
                          \o JoinFrom(a, b, A, B, keys, left, ra, rb)

Join(a, b, left) ==
    LET keys == BoundIn(a) \cap BoundIn(b)
        bound == [c \in Columns |-> a.bound[c] \/ b.bound[c]]
        Dumped(t, c) == IF t.bound[c] THEN t.vals[c] ELSE Blanks(RowCount(t))
    IN IF keys = {} THEN [bound |-> bound, vals |-> [c \in Columns |-> Dumped(a, c) \o Dumped(b, c)]]
       ELSE WithRows(bound, JoinFrom(a, b, SortRows(keys, RowsOf(a)), SortRows(keys, RowsOf(b)), keys, left, 1, 1))

(* fs_binding_minus *)
RECURSIVE MinusFrom(_, _, _, _, _, _)
MinusFrom(a, A, B, keys, i, j) ==
    IF i > Len(A) THEN <<>>
    ELSE LET cmp == Compare(A, B, keys, i, j)
         IN CASE cmp \in {3, 4} -> <<LeftRow(a, A[i])>> \o MinusFrom(a, A, B, keys, i + 1, j)
              [] cmp = 0 -> MinusFrom(a, A, B, keys, RunEnd(A, keys, i, i + 1), RunEnd(B, keys, j, j + 1))
              [] OTHER -> MinusFrom(a, A, B, keys, i, j + 1)

(* The copy of a that is returned was emptied before the case of tables    *)
(* without a common variable.                                              *)
Minus(a, b) ==
    LET keys == BoundIn(a) \cap BoundIn(b)
        bound == [c \in Columns |-> a.bound[c] \/ b.bound[c]]
    IN IF keys = {} THEN WithRows(bound, <<>>)
       ELSE WithRows(bound, MinusFrom(a, SortRows(keys, RowsOf(a)), SortRows(keys, RowsOf(b)), keys, 1, 1))
-----------------------------------------------------------------------------
(* fs_binding_merge: the results of a pattern, in to, are joined with the  *)
(* table from.  Where a row of from is the first of a run that matches,    *)
(* its values are written into the matching rows of to; for the others     *)
(* rows are appended.                                                      *)
Overwritten(from, f, t) ==
    [c \in Columns |-> IF from.bound[c] /\ f[c] # TableNull THEN f[c] ELSE t[c]]

Appended(from, f, t) == [c \in Columns |-> IF from.bound[c] THEN f[c] ELSE t[c]]

(* The rows from row i of from and row j of to on. *)
RECURSIVE MergeFrom(_, _, _, _, _, _, _)
MergeFrom(from, F, T, out, keys, i, j) ==
    IF i > Len(F) /\ j > Len(T) THEN out
    ELSE LET cmp == Compare(F, T, keys, i, j)
             rf == RunEnd(F, keys, i, i + 1)
             rt == RunEnd(T, keys, j, j + 1)
             first == [n \in DOMAIN out |-> IF n \in j..(rt - 1) THEN Overwritten(from, F[i], out[n]) ELSE out[n]]
             more == FlattenSeq([x \in 1..(rf - i - 1) |->
                        [y \in 1..(rt - j) |-> Appended(from, F[i + x], first[j + y - 1])]])
         IN CASE cmp = 0 -> MergeFrom(from, F, T, first \o more, keys, rf, rt)
              [] cmp \in {3, 4} -> MergeFrom(from, F, T, out, keys, i + 1, j)
              [] OTHER -> MergeFrom(from, F, T, out, keys, i, j + 1)

(* Rows of to in which a column taken over from from stayed empty are      *)
(* dropped, and with them whatever was appended.                           *)
Cleaned(out, n, taken) ==
    LET stale == {d \in 1..n : \E c \in taken : out[d][c] = TableNull}
    IN IF stale = {} THEN out
       ELSE [i \in 1..(n - Cardinality(stale)) |-> out[SetToSortSeq((1..n) \ stale, <)[i]]]

Merge(from, to) ==
    LET keys == BoundIn(from) \cap BoundIn(to)
        taken == BoundIn(from) \ BoundIn(to)
        bound == [c \in Columns |-> from.bound[c] \/ to.bound[c]]
        F == IF keys = {} THEN RowsOf(from) ELSE SortRows(keys, RowsOf(from))
        T == IF keys = {} THEN RowsOf(to) ELSE SortRows(keys, RowsOf(to))
    IN IF keys = {} /\ F = <<>> THEN WithRows(bound, T)
       ELSE WithRows(bound, Cleaned(MergeFrom(from, F, T, T, keys, 1, 1), Len(T), taken))

(* fs_binding_apply_filters: tests[n] is the set of rows for which the     *)
(* n-th expression is true.  A row is put out once for each of them.       *)
ApplyFilters(b, tests) ==
    IF tests = <<>> THEN RowsOf(b)
    ELSE FlattenSeq([i \in 1..RowCount(b) |-> FlattenSeq([n \in DOMAIN tests |->
            IF RowAt(Padded(b), i) \in tests[n] THEN <<RowAt(Padded(b), i)>> ELSE <<>>])])
-----------------------------------------------------------------------------
(* The relational operations they stand for. *)
Agree(keys, r, s) == \A c \in keys : r[c] = s[c]
RowSet(t) == ToSet(RowsOf(t))

(* The number of times a row comes from a pair of rows that agree. *)
Times(a, b, keys, row) ==
    Cardinality({p \in (DOMAIN RowsOf(a)) \X (DOMAIN RowsOf(b)) :
        Agree(keys, RowsOf(a)[p[1]], RowsOf(b)[p[2]]) /\
        JoinedRow(a, b, RowsOf(a)[p[1]], RowsOf(b)[p[2]], FALSE) = row})

Occurrences(t, row) == Cardinality({i \in DOMAIN RowsOf(t) : RowsOf(t)[i] = row})

(* Some kinds of cases are tried only if OddCases names them:              *)
(*   loose      a merge in which a row of to has no partner in from;       *)
(*   filters    several filters on one block;                              *)
(*   nulls      empty values in the columns two tables are joined on;      *)
(*   unrelated  a join or MINUS of tables without a common variable.       *)
Triable(k) ==
    LET keys == BoundIn(k.a) \cap BoundIn(k.b)
    IN /\ k.op = "merge" /\ "loose" \notin OddCases =>
              \A t \in RowSet(k.b) : \E f \in RowSet(k.a) : Agree(keys, f, t)
       /\ k.op = "filter" => Len(k.tests) < 2 \/ "filters" \in OddCases
       /\ "nulls" \in OddCases \/ k.op \in {"distinct", "union", "filter"} \/
              \A c \in keys : ~Contains(k.a.vals[c] \o k.b.vals[c], TableNull)
       /\ "unrelated" \in OddCases \/ k.op \notin {"inner", "left", "minus"} \/ keys # {}

BT_Init == bt_case = [op |-> "none"]

Try(k) ==
    /\ Triable(k)
    /\ bt_case' = k

BT_Next == bt_case.op = "none" /\ \E k \in Cases : Try(k)

BT_Spec == BT_Init /\ [][BT_Next]_bt_vars
-----------------------------------------------------------------------------
(* A join of two blocks has each combination of rows that agree on the     *)
(* common variables, as often as it occurs; OPTIONAL keeps the other rows  *)
(* of the left table too.                                                  *)
JoinIsRelational ==
    bt_case.op \in {"inner", "left"} =>
        LET a == bt_case.a
            b == bt_case.b
            keys == BoundIn(a) \cap BoundIn(b)
            lone == {i \in DOMAIN RowsOf(a) : \A s \in RowSet(b) : ~Agree(keys, RowsOf(a)[i], s)}
            c == Join(a, b, bt_case.op = "left")
        IN \A row \in RowSet(c) \cup {JoinedRow(a, b, r, s, FALSE) : r \in RowSet(a), s \in RowSet(b)} :
              Occurrences(c, row) =
                  Times(a, b, keys, row) +
                  (IF bt_case.op = "left"
                   THEN Cardinality({i \in lone : LeftRow(a, RowsOf(a)[i]) = row}) ELSE 0)

(* The merge of a pattern's results into its block is the join of the two. *)
MergeIsJoin ==
    bt_case.op = "merge" =>
        LET a == bt_case.a
            b == bt_case.b
            c == Merge(a, b)
        IN \A row \in RowSet(c) \cup {JoinedRow(a, b, r, s, FALSE) : r \in RowSet(a), s \in RowSet(b)} :
              Occurrences(c, row) =
                  IF RowsOf(a) = <<>> /\ BoundIn(a) \cap BoundIn(b) = {}
                  THEN Occurrences(b, row)
                  ELSE Times(a, b, BoundIn(a) \cap BoundIn(b), row)

(* MINUS keeps the rows of the first table that agree with no row of the   *)
(* second, whatever else the second table has before or after them.        *)
MinusIsDifference ==
    bt_case.op = "minus" =>
        LET keys == BoundIn(bt_case.a) \cap BoundIn(bt_case.b)
            c == Minus(bt_case.a, bt_case.b)
        IN \A row \in RowSet(bt_case.a) :
              Occurrences(c, row) =
                  IF keys # {} /\ \E s \in RowSet(bt_case.b) : Agree(keys, row, s)
                  THEN 0 ELSE Occurrences(bt_case.a, row)

(* Sorting and dropping repeats leaves each row of a table once, although  *)
(* the two steps order empty values differently; a UNION has the rows of   *)
(* both blocks; a filter keeps the rows it is true for.                    *)
SetOperationsAreExact ==
    /\ bt_case.op = "distinct" =>
          /\ IsInjective(Distinct(bt_case.a))
          /\ ToSet(Distinct(bt_case.a)) = RowSet(bt_case.a)
    /\ bt_case.op = "union" =>
          \A row \in RowSet(bt_case.a) \cup RowSet(bt_case.b) :
              Occurrences(UnionOf(bt_case.a, bt_case.b), row) =
                  Occurrences(bt_case.a, row) + Occurrences(bt_case.b, row)
    /\ bt_case.op = "filter" =>
          ApplyFilters(bt_case.a, bt_case.tests) =
              SelectSeq(RowsOf(bt_case.a), LAMBDA r : \A n \in DOMAIN bt_case.tests : r \in bt_case.tests[n])

(* The operations on tables of bindings are those of relations with        *)
(* repeated rows: the four statements above.                               *)
TablesAreRelational == JoinIsRelational /\ MergeIsJoin /\ MinusIsDifference /\ SetOperationsAreExact
=============================================================================
