---------------------------- MODULE Aggregation ----------------------------
(***************************************************************************)
(* Grouping and aggregates of a query whose solutions are known:           *)
(* fs_query_group_block (src/frontend/group.c), the aggregates of          *)
(* fs_expression_eval, the aggregating part of fs_query_fetch_row          *)
(* (src/frontend/results.c), fs_values_order (src/frontend/order.c) and    *)
(* the bit array of rows that FILTERs refuse (src/common/bit_arr.c).       *)
(*                                                                         *)
(* A row has one or two values to group by, the value that is aggregated   *)
(* (Unbound where the variable has none) and whether the FILTERs accept    *)
(* it.  One step of the model handles one group, or returns one row.       *)
(*                                                                         *)
(* OddGroups adds the queries that the properties exclude, see Usual.      *)
(***************************************************************************)
EXTENDS Integers, Sequences, FiniteSets, SequencesExt, Bitwise

CONSTANTS
    SolutionLists,          \* the solutions that may be found
    AggFunctions,           \* aggregate functions asked for
    AggOffsets, AggLimits,  \* OFFSET and LIMIT asked for, -1 for no LIMIT
    OddGroups

ASSUME AggregationAssumption ==
    /\ \A rows \in SolutionLists : \A i \in DOMAIN rows :
          rows[i] \in [k1 : Nat, k2 : Nat, val : Nat, pass : BOOLEAN]
    /\ AggFunctions \subseteq {"count", "sum", "avg", "min", "max", "sample", "concat"}
    /\ OddGroups \subseteq {"collision", "distinct", "two distinct", "past the end",
                            "unbound", "sample", "order all"}

VARIABLES
    ag_query,  \* what is asked
    ag        \* the fields of fs_query that fetching rows changes

agvars == <<ag_query, ag>>

Unbound == 0
FailedValue == <<-1>>   \* values of aggregates are tuples, an average <<sum, count>>
NoQuery == [by |-> -1]

-----------------------------------------------------------------------------
(* Grouping *)

\* fs_query_group_block: the id of the group of a row, the later keys shifted and
\* mixed in.
GroupId(q, r) == IF q.by = 2 THEN r.k1 ^^ (2 * r.k2) ELSE r.k1

\* fs_binding_sort on _group alone; without GROUP BY, on the columns that the
\* expressions need, in the order of the table.
OrderOf(q) ==
    LET Earlier(i, j) ==
            LET a == q.rows[i]  b == q.rows[j]
            IN  IF q.by > 0
                THEN GroupId(q, a) < GroupId(q, b) \/ (GroupId(q, a) = GroupId(q, b) /\ i < j)
                ELSE \/ q.two /\ a.k1 < b.k1
                     \/ (q.two => a.k1 = b.k1) /\ (a.val < b.val \/ (a.val = b.val /\ i < j))
    IN  SetToSortSeq(DOMAIN q.rows, Earlier)

-----------------------------------------------------------------------------
(* The aggregates of fs_expression_eval over a sequence of values *)

\* DISTINCT drops a value that is the same as the one before it.
RunHeads(s) ==
    LET heads == SelectSeq([i \in DOMAIN s |-> i],
                           LAMBDA i : s[i] # (IF i = 1 THEN Unbound ELSE s[i - 1]))
    IN  [n \in DOMAIN heads |-> s[heads[n]]]
BoundOnly(s) == SelectSeq(s, LAMBDA v : v # Unbound)
SumOf(s) == FoldSeq(+, 0, s)

\* RASQAL_EXPR_MIN, RASQAL_EXPR_MAX: what fs_order_by_cmp puts first or last, an
\* unbound value before every other.
MinOf(s) == CHOOSE v \in ToSet(s) : \A w \in ToSet(s) : v <= w
MaxOf(s) == CHOOSE v \in ToSet(s) : \A w \in ToSet(s) : v >= w

\* all: the values of every row of the group; kept: those the FILTERs accept, which
\* SAMPLE and GROUP_CONCAT do not look at when there is no GROUP BY.
Aggregate(q, all, kept) ==
    LET counted == IF q.distinct THEN RunHeads(BoundOnly(kept)) ELSE BoundOnly(kept)
        added == IF q.distinct THEN RunHeads(kept) ELSE kept
        failed == Unbound \in ToSet(added)
    IN  CASE q.agg = "count" -> <<Len(counted)>>
          [] q.agg = "sum" -> IF failed THEN FailedValue ELSE <<SumOf(added)>>
          [] q.agg = "avg" -> IF failed \/ Len(added) = 0 THEN FailedValue
                              ELSE <<SumOf(added), Len(added)>>
          [] q.agg = "min" -> IF kept = << >> THEN FailedValue ELSE <<MinOf(kept)>>
          [] q.agg = "max" -> IF kept = << >> THEN FailedValue ELSE <<MaxOf(kept)>>
          [] q.agg = "sample" -> IF all = << >> THEN FailedValue ELSE <<all[1]>>
          [] q.agg = "concat" -> all

-----------------------------------------------------------------------------
(* fs_query_fetch_row, with aggregates *)

AG_Init == ag_query = NoQuery /\ ag = [state |-> "idle"]

\* fs_query_execute: with GROUP BY the OFFSET is left to the groups.
Pose(q) ==
    /\ ag_query' = q
    /\ ag' = [state |-> "fetch", row |-> 0, order |-> OrderOf(q),
              skip |-> IF q.by > 0 THEN q.offset ELSE 0,
              offset |-> IF q.by > 0 THEN 0 ELSE q.offset,
              skipping |-> FALSE, rows_output |-> 0,
              agg_rows |-> << >>, agg_index |-> 0, out |-> << >>]

TableLength == Len(ag_query.rows)
SolutionAt(p) == ag_query.rows[ag.order[p]]
ValuesAt(ps) == [n \in DOMAIN ps |-> SolutionAt(ps[n]).val]
LimitReached == ag_query.limit >= 0 /\ ag.rows_output >= ag.offset + ag_query.limit

\* The place of the first row from row on that the FILTERs accept, and the places
\* after it of the same group.
FirstAccepted(row) ==
    LET ps == {p \in row + 1 .. TableLength : SolutionAt(p).pass}
    IN  IF ps = {} THEN 0 ELSE CHOOSE p \in ps : \A x \in ps : p <= x

\* Mutant: the group ends at the last row but one of those with its id.
GroupEndShort(p) ==
    LET same == {x \in p .. TableLength : \A y \in p .. x :
                    GroupId(ag_query, SolutionAt(y)) = GroupId(ag_query, SolutionAt(p))}
    IN  IF Cardinality(same) > 1 THEN p + Cardinality(same) - 2 ELSE p

GroupEnd(p) ==
    LET same == {x \in p .. TableLength : \A y \in p .. x :
                    GroupId(ag_query, SolutionAt(y)) = GroupId(ag_query, SolutionAt(p))}
    IN  p + Cardinality(same) - 1
Members(p) ==
    SelectSeq([n \in 1 .. GroupEnd(p) - p + 1 |-> p + n - 1], LAMBDA x : SolutionAt(x).pass)

\* returng: no more groups; with ORDER BY the rows kept are ordered and returned.
EndOfGroups == IF ag_query.order /\ ag.agg_rows # << >> THEN "ordered" ELSE "end"

\* One group: passed over for the OFFSET when there is no ORDER BY, dropped when an
\* expression fails, kept for the ordering, or returned.
TakeGroup ==
    /\ ag.state = "fetch" /\ ag_query.by > 0
    /\ IF ag.row >= TableLength
       THEN ag' = [ag EXCEPT !.state = IF ag.skipping THEN "past the end" ELSE EndOfGroups]
       ELSE LET p == FirstAccepted(ag.row)
                members == Members(p)
                vals == ValuesAt(members)
                value == Aggregate(ag_query, vals, vals)
                found == [k1 |-> SolutionAt(p).k1, k2 |-> SolutionAt(p).k2, v |-> value]
                next == [ag EXCEPT !.row = GroupEnd(p), !.skipping = FALSE]
            IN  ag' = CASE p = 0 -> [ag EXCEPT !.state = EndOfGroups]
                        [] p # 0 /\ ag.skip > 0 /\ ~ag_query.order ->
                             [next EXCEPT !.skip = @ - 1, !.skipping = TRUE]
                        [] p # 0 /\ (ag.skip = 0 \/ ag_query.order) /\ ag.agg_rows = << >>
                             /\ LimitReached -> [ag EXCEPT !.state = "end"]
                        [] p # 0 /\ (ag.skip = 0 \/ ag_query.order)
                             /\ ~(ag.agg_rows = << >> /\ LimitReached) ->
                             IF value = FailedValue THEN next
                             ELSE IF ag_query.order
                             THEN [next EXCEPT !.agg_rows = Append(@, found)]
                             ELSE [next EXCEPT !.out = Append(@, found),
                                               !.rows_output = @ + 1]
    /\ UNCHANGED ag_query

\* Where the next row of the ordered groups is.
OrderedPlace(agg_index, skip) == IF agg_index = 0 THEN skip + 1 ELSE agg_index + 1

\* fs_values_order orders the rows kept, by the aggregate, once.
AggregatesOrdered(rows) == SortSeq(rows, LAMBDA a, b : a.v[1] < b.v[1] \/ (a.v[1] = b.v[1] /\ a.k1 < b.k1))

ReturnOrdered ==
    /\ ag.state = "ordered"
    /\ LET n == OrderedPlace(ag.agg_index, ag.skip)
       IN  IF LimitReached \/ n > Len(ag.agg_rows)
           THEN ag' = [ag EXCEPT !.state = "end"]
           ELSE ag' = [ag EXCEPT !.agg_index = n, !.rows_output = @ + 1,
                                 !.out = Append(@, AggregatesOrdered(ag.agg_rows)[n])]
    /\ UNCHANGED ag_query

\* Without GROUP BY every row is one group: the rows that FILTERs refuse are marked
\* in the bit array, and DISTINCT takes the rows in the order of the sorted table.
TakeAll ==
    /\ ag.state = "fetch" /\ ag_query.by = 0
    /\ LET places == IF ag_query.distinct THEN [n \in 1 .. TableLength |-> n]
                     ELSE [n \in 1 .. TableLength |-> CHOOSE p \in 1 .. TableLength : ag.order[p] = n]
           kept == SelectSeq(places, LAMBDA x : SolutionAt(x).pass)
           value == Aggregate(ag_query, ValuesAt(places), ValuesAt(kept))
       IN  ag' = CASE TableLength > 0 /\ ag_query.order -> [ag EXCEPT !.state = "past the end"]
                   [] TableLength > 0 /\ ~ag_query.order /\ (LimitReached \/ ag.offset > 0) ->
                        [ag EXCEPT !.state = "end"]
                   [] TableLength = 0 \/ ~(ag_query.order \/ LimitReached \/ ag.offset > 0) ->
                        [ag EXCEPT !.state = "end", !.out = <<[k1 |-> 0, k2 |-> 0, v |-> value]>>]
    /\ UNCHANGED ag_query

-----------------------------------------------------------------------------
(* Queries *)

(***************************************************************************)
(* The queries that get the answer of the properties (of those with        *)
(* DISTINCT and ORDER BY, the ones whose aggregate is a number).           *)
(* OddGroups adds                                                          *)
(*   collision     GROUP BY two variables whose ids mix to the same number *)
(*   distinct      DISTINCT in a group, whose values are not sorted;       *)
(*   two distinct  DISTINCT of a variable that is not the first column;    *)
(*   past the end  an OFFSET of at least the number of groups, after which *)
(*                 the next group is read past the end of the table;       *)
(*   unbound       SUM, AVG, MIN of a variable that is not always bound;   *)
(*   sample        SAMPLE and GROUP_CONCAT with FILTERs and no GROUP BY;   *)
(*   order all     ORDER BY without GROUP BY, for which no row is kept.    *)
(***************************************************************************)
Accepted(q) == {i \in DOMAIN q.rows : q.rows[i].pass}
KeyOf(q, r) == IF q.by = 2 THEN <<r.k1, r.k2>> ELSE <<r.k1>>
GroupsOf(q) == {KeyOf(q, q.rows[i]) : i \in Accepted(q)}
Usual(q) ==
    /\ \/ "collision" \in OddGroups
       \/ \A i, j \in DOMAIN q.rows : GroupId(q, q.rows[i]) = GroupId(q, q.rows[j])
                                        => KeyOf(q, q.rows[i]) = KeyOf(q, q.rows[j])
    /\ q.distinct => q.agg \in {"count", "sum", "avg"}
    /\ q.order => q.agg \notin {"avg", "concat"}
    /\ q.distinct => q.by = 0 \/ "distinct" \in OddGroups
    /\ q.two => "two distinct" \in OddGroups
    /\ q.by > 0 /\ ~q.order /\ q.offset > 0 =>
          q.offset < Cardinality(GroupsOf(q)) \/ "past the end" \in OddGroups
    /\ \/ "unbound" \in OddGroups \/ q.agg \in {"count", "max"}
       \/ \A i \in DOMAIN q.rows : q.rows[i].val # Unbound
    /\ q.agg \in {"sample", "concat"} /\ q.by = 0 =>
          Accepted(q) = DOMAIN q.rows \/ "sample" \in OddGroups
    /\ q.by = 0 /\ q.order => "order all" \in OddGroups

AG_Next ==
    \/ /\ ag.state = "idle"
       /\ \E rows \in SolutionLists, by \in 0 .. 2, agg \in AggFunctions,
             distinct, order, two \in BOOLEAN, offset \in AggOffsets, limit \in AggLimits :
             LET q == [by |-> by, agg |-> agg, distinct |-> distinct, order |-> order,
                       two |-> two, offset |-> offset, limit |-> limit, rows |-> rows]
             IN  Usual(q) /\ Pose(q)
    \/ TakeGroup
    \/ ReturnOrdered
    \/ TakeAll

-----------------------------------------------------------------------------
(* Properties *)

\* What the aggregate of the rows at indices is.
Reference(q, indices) ==
    LET vals == [i \in indices |-> q.rows[i].val]
        bound == {i \in indices : vals[i] # Unbound}
        some == {vals[i] : i \in bound}
        Total == IF q.distinct THEN FoldSet(+, 0, some) ELSE SumOf([n \in 1 .. Cardinality(bound) |->
                        vals[SetToSortSeq(bound, <)[n]]])
        Number == IF q.distinct THEN Cardinality(some) ELSE Cardinality(bound)
    IN  CASE q.agg = "count" -> {<<Number>>}
          [] q.agg = "sum" -> {<<Total>>}
          [] q.agg = "avg" -> IF Number = 0 THEN {FailedValue} ELSE {<<Total, Number>>}
          [] q.agg = "min" -> IF some = {} THEN {FailedValue} ELSE {<<Min(some)>>}
          [] q.agg = "max" -> IF some = {} THEN {FailedValue, <<Unbound>>}
                              ELSE {<<Max(some)>>}
          [] q.agg = "sample" -> IF some = {} THEN {FailedValue} ELSE {<<v>> : v \in some}
          [] OTHER -> {[n \in DOMAIN p |-> vals[p[n]]] : p \in SetToSeqs(bound)}

GroupRows(q, key) == {i \in Accepted(q) : KeyOf(q, q.rows[i]) = key}
OutKey(q, o) == IF q.by = 2 THEN <<o.k1, o.k2>> ELSE <<o.k1>>
ResultCount(n, q) ==
    LET left == IF n > q.offset THEN n - q.offset ELSE 0
    IN  IF q.limit >= 0 /\ q.limit < left THEN q.limit ELSE left

\* A query with GROUP BY returns, when fs_query_fetch_row says there are no more rows,
\* one row for each group of the solutions the FILTERs accept, less OFFSET and at most
\* LIMIT of them, each with the aggregate of exactly the rows of its group; with ORDER
\* BY they come in order and the OFFSET passes over the first ones of that order.  It
\* never reads a group past the end of the table.
GroupsAreExact ==
    ag_query # NoQuery /\ ag_query.by > 0 =>
        /\ ag.state # "past the end"
        /\ ag.state = "end" =>
             LET q == ag_query
                 keys == {OutKey(q, ag.out[n]) : n \in DOMAIN ag.out}
             IN  /\ keys \subseteq GroupsOf(q) /\ Cardinality(keys) = Len(ag.out)
                 /\ Len(ag.out) = ResultCount(Cardinality(GroupsOf(q)), q)
                 /\ \A n \in DOMAIN ag.out :
                      ag.out[n].v \in Reference(q, GroupRows(q, OutKey(q, ag.out[n])))
                 /\ q.order => /\ \A n \in 1 .. Len(ag.out) - 1 : ag.out[n].v[1] <= ag.out[n + 1].v[1]
                               /\ \A n \in DOMAIN ag.out : Cardinality({k \in GroupsOf(q) \ keys :
                                     \E v \in Reference(q, GroupRows(q, k)) : v[1] <= ag.out[n].v[1]})
                                     >= q.offset

\* A query with aggregates and no GROUP BY returns one row, also when there are no
\* solutions, with the aggregate of the solutions that the FILTERs accept.
TotalsAreExact ==
    ag_query # NoQuery /\ ag_query.by = 0 =>
        /\ ag.state # "past the end"
        /\ ag.state = "end" /\ ag.out # << >> => ag.out[1].v \in Reference(ag_query, Accepted(ag_query))
        /\ ag.state = "end" /\ ag_query.offset = 0 /\ ag_query.limit # 0 => Len(ag.out) = 1

\* Groups and totals are those of the accepted solutions.
AggregatesAreExact == GroupsAreExact /\ TotalsAreExact
=============================================================================
