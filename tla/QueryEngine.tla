---------------------------- MODULE QueryEngine -----------------------------
(***************************************************************************)
(* How the frontend runs a query: frontend/query.c, optimiser.c, order.c   *)
(* and fs_query_fetch_row of results.c.                                    *)
(*                                                                         *)
(* The tree that the parser returns is flattened into blocks of triple     *)
(* patterns, plain blocks are merged into their parents, and the triples   *)
(* of each block are put to the segments one after the other (module       *)
(* SegmentQuery), with the values found so far as the lists of the next    *)
(* request.  The tables of the blocks are then joined (BindingTable) and   *)
(* the rows of the last table are filtered, made distinct, cut to the page *)
(* and put out.                                                            *)
(*                                                                         *)
(* A term is <<>> (absent), <<"var", c>> or <<"id", x>>; variables are the *)
(* columns 1, 2, ..., the projected ones first.  A node of the tree has    *)
(* the fields op, triples, kids, origin and test.  Which of two patterns   *)
(* the statistics prefer is left open.  Expressions are tests on ids (see  *)
(* Filters for their values), aggregates are in Aggregation, the soft      *)
(* limit, the rules and the shortcut for one sorted page are left out.     *)
(***************************************************************************)
EXTENDS SegmentQuery, BindingTable

CONSTANTS
    MaxBlocks,      \* FS_MAX_BLOCKS
    Queries,        \* the queries that may be put
    Stores,         \* the stores they are put to: sequences of quads
    RdfType,        \* the id of rdf:type
    OddQueries      \* kinds of queries that are put too, see Put

ASSUME QE_Assumption ==
    /\ MaxBlocks \in Nat \ {0}
    /\ OddQueries \subseteq {"shared", "paired", "scope", "late union", "minus filter", "offset",
                             "unbound", "ask", "chunk"}

VARIABLES
    qe_pc,          \* what is done next
    qe_query,       \* the query
    qe_plan,        \* its blocks: parent_block, join_type, union_group, blocks, constraints, ...
    qe_tab,         \* q->bb: the tables of the blocks that have one
    qe_todo,        \* the block being run and the triples left of it
    qe_boolean,     \* q->boolean
    qe_rows,        \* the rows of the final table, in output order
    qe_row,         \* q->row and q->rows_output
    qe_out          \* the rows put out
qe_vars == <<qe_pc, qe_query, qe_plan, qe_tab, qe_todo, qe_boolean, qe_rows, qe_row, qe_out>>

Absent == <<>>
IsVar(t) == t # Absent /\ t[1] = "var"
IsId(t) == t # Absent /\ t[1] = "id"
Opening == {"group", "basic", "graph", "optional", "minus"}
JoinType(op) == CASE op = "optional" -> "left" [] op = "minus" -> "minus" [] OTHER -> "inner"
Projected(q) == 1..q.proj
-----------------------------------------------------------------------------
(* The plan. *)

NoTable == [bound |-> [c \in Columns |-> FALSE], vals |-> [c \in Columns |-> <<>>]]

EmptyPlan ==
    [n |-> 0, unions |-> 0,
     parent |-> [b \in 0..MaxBlocks |-> 0],
     join |-> [b \in 0..MaxBlocks |-> "inner"],
     group |-> [b \in 0..MaxBlocks |-> 0],
     triples |-> [b \in 0..MaxBlocks |-> <<>>],
     filters |-> [b \in 0..MaxBlocks |-> <<>>],
     binds |-> [b \in 0..MaxBlocks |-> <<>>],
     appears |-> [c \in Columns |-> -1],
     need |-> {}, selected |-> {},
     pre |-> [c \in Columns |-> <<>>]]

(* assign_slot: a variable is needed from its second appearance on. *)
AssignSlot(P, t, b) ==
    IF ~IsVar(t) THEN P
    ELSE [P EXCEPT !.need = IF P.appears[t[2]] = -1 THEN @ ELSE @ \cup {t[2]},
                   !.appears[t[2]] = IF @ = -1 THEN b ELSE @]

AddTriple(P, origin, t, b) ==
    FoldLeft(LAMBDA p, x : AssignSlot(p, x, b),
             [P EXCEPT !.triples[b] = Append(@, <<origin>> \o t)], <<origin>> \o t)

(* check_variables: only a variable that has a column is marked. *)
HasColumn(P, q, c) == c \in Projected(q) \/ P.appears[c] # -1
CheckVariables(P, q, cs, select) ==
    LET known == {c \in cs : HasColumn(P, q, c)}
    IN [P EXCEPT !.need = @ \cup known, !.selected = IF select THEN @ \cup known ELSE @]

(* filter_optimise: a test of a variable against constants becomes values  *)
(* of its column in the first table, and the test is dropped.              *)
AddFilter(P, q, test, b, uni) ==
    LET p == CheckVariables(P, q, test.vars, uni = 0)
        c == CHOOSE x \in test.vars : TRUE
    IN IF test.fn = "in" /\ HasColumn(P, q, c) THEN [p EXCEPT !.pre[c] = @ \o test.values]
       ELSE [p EXCEPT !.filters[b] = Append(@, test)]

(* graph_pattern_walk *)
RECURSIVE WalkPattern(_, _, _, _, _, _)
WalkPattern(P, q, node, model, parent, uni) ==
    LET opens == node.op \in Opening
        b == IF opens THEN P.n + 1 ELSE P.n
        here == IF node.op = "graph" THEN node.origin ELSE model
        opened == IF opens THEN [P EXCEPT !.n = b, !.parent[b] = parent, !.join[b] = JoinType(node.op)]
                  ELSE IF node.op = "union" THEN [P EXCEPT !.unions = @ + 1]
                  ELSE IF node.op = "filter" THEN AddFilter(P, q, node.test, parent, uni)
                  ELSE CheckVariables([P EXCEPT !.binds[b] = <<node.test>> \o @,
                                                !.need = @ \cup ({node.test.var} \cap {c \in Columns : HasColumn(P, q, c)})],
                                      q, node.test.vars, TRUE)
        placed == IF uni = 0 THEN opened
                  ELSE [opened EXCEPT !.group[b] = uni, !.parent[b] = parent, !.join[b] = "union"]
        filled == FoldLeft(LAMBDA p, t : AddTriple(p, here, t, b), placed, node.triples)
        sub == IF node.op = "union" THEN opened.unions ELSE 0
        walked == FoldLeft(LAMBDA p, kid : WalkPattern(p, q, kid, here, b, sub), filled, node.kids)
    IN CheckVariables(walked, q, IF q.order = 0 THEN {} ELSE {q.order}, TRUE)

\* Mutant: OPTIONAL blocks are merged too.
MergeAnyUp(P, b) ==
    IF P.triples[b] = <<>> \/ P.join[b] = "minus" THEN P
    ELSE [P EXCEPT !.triples = [@ EXCEPT ![P.parent[b]] = @ \o P.triples[b], ![b] = <<>>],
                   !.parent = [x \in DOMAIN @ |-> IF @[x] = b /\ x > 0 THEN P.parent[b] ELSE @[x]]]

(* tree_compact *)
MergeUp(P, b) ==
    LET up == P.parent[b]
        plain == P.filters[b] = <<>> /\ P.binds[b] = <<>>
        alone == P.filters[up] = <<>> /\ P.binds[b] = <<>> /\ P.triples[up] = <<>>
        Lift(f) == IF f[up] = <<>> THEN [f EXCEPT ![up] = f[b], ![b] = <<>>] ELSE f
    IN IF P.join[b] # "inner" \/ P.triples[b] = <<>> \/ ~(plain \/ alone) THEN P
       ELSE [P EXCEPT !.triples = [@ EXCEPT ![up] = @ \o P.triples[b], ![b] = <<>>],
                      !.filters = Lift(@), !.binds = Lift(@),
                      !.appears = [c \in Columns |-> IF @[c] = b THEN up ELSE @[c]],
                      !.parent = [x \in DOMAIN @ |-> IF @[x] = b /\ x > 0 THEN up ELSE @[x]]]

(* The blocks are merged until nothing changes. *)
RECURSIVE TreeCompact(_)
TreeCompact(P) ==
    LET pass == FoldLeft(MergeUp, P, [b \in 1..P.n |-> b])
    IN IF pass = P THEN P ELSE TreeCompact(pass)

(* The first table: every combination of the values that the filters gave. *)
Prebound(P) ==
    LET cs == {c \in Columns : P.pre[c] # <<>>}
        Factor(c) == FoldLeft(LAMBDA n, d : n * Len(P.pre[d]), 1, SetToSeq({d \in cs : d < c}))
        total == FoldLeft(LAMBDA n, d : n * Len(P.pre[d]), 1, SetToSeq(cs))
    IN [bound |-> [c \in Columns |-> c \in cs],
        vals |-> [c \in Columns |-> IF c \notin cs THEN <<>>
                    ELSE [j \in 1..total |-> P.pre[c][(((j - 1) \div Factor(c)) % Len(P.pre[c])) + 1]]]]
-----------------------------------------------------------------------------
(* The order of the triples of a block. *)

(* fs_opt_is_const, fs_opt_is_bound, fs_opt_num_vals *)
IsConst(t, x) == IsId(x) \/ (IsVar(x) /\ t.bound[x[2]])
IsBound(t, x) == IsVar(x) /\ (RowCount(t) = 0 \/ t.bound[x[2]])
NumVals(t, x) ==
    CASE x = Absent -> 0 [] IsId(x) -> 1 [] t.bound[x[2]] -> Len(t.vals[x[2]]) [] OTHER -> 1000
IsType(x) == x = <<"id", RdfType>>

(* fs_optimise_triple_pattern: the first group that a pattern fits. *)
Bucket(t, tr) ==
    LET s == tr[Subject]
        p == tr[Predicate]
        o == tr[Object]
        groups == <<IsConst(t, s) /\ IsConst(t, p) /\ IsBound(t, o),
                    IsConst(t, s) /\ IsConst(t, p) /\ ~IsType(p),
                    IsBound(t, s) /\ IsConst(t, p) /\ IsConst(t, o) /\ ~IsType(p),
                    IsBound(t, s) /\ IsConst(t, p) /\ IsConst(t, o),
                    IsConst(t, s) /\ IsBound(t, o),
                    IsConst(t, o) /\ IsBound(t, s),
                    IsConst(t, p) /\ (IsBound(t, s) \/ IsBound(t, o)),
                    IsConst(t, tr[Model]),
                    TRUE>>
    IN Min({i \in DOMAIN groups : groups[i]})

Ordered(t, trs) ==
    LET order == SetToSortSeq(DOMAIN trs, LAMBDA i, j :
                    \/ Bucket(t, trs[i]) < Bucket(t, trs[j])
                    \/ Bucket(t, trs[i]) = Bucket(t, trs[j]) /\ i < j)
    IN [i \in DOMAIN trs |-> trs[order[i]]]

(* How many of the first triples can be found by one reverse bind. *)
Chunk(t, trs) ==
    LET Fixed(tr) == ~IsVar(tr[Predicate]) /\ ~IsVar(tr[Object])
        s == trs[1][Subject]
        Fit(k) == /\ trs[k][Subject] = s /\ ~IsConst(t, trs[k][Subject])
                  /\ Fixed(trs[k])
    IN IF Len(trs) < 2 \/ ~IsVar(s) \/ ~Fixed(trs[1]) \/ NumVals(t, trs[1][Model]) # 0
          \/ NumVals(t, trs[2][Model]) # 0 THEN 1
       ELSE Max({n \in 1..Len(trs) : \A k \in 2..n : Fit(k)})
-----------------------------------------------------------------------------
(* One request. *)

(* fs_bind_slot *)
SlotList(t, x, literals) ==
    LET vals == SelectSeq(t.vals[x[2]], LAMBDA v : v # TableNull /\ (literals \/ v \notin Literals))
    IN CASE x = Absent -> <<>>
         [] IsId(x) -> <<x[2]>>
         [] ~t.bound[x[2]] -> <<>>
         [] OTHER -> IF vals = <<>> THEN <<TableNull>> ELSE vals

(* A literal in a slot that cannot hold one. *)
Unmatchable(tr) == \E k \in {Model, Subject, Predicate} : IsId(tr[k]) /\ tr[k][2] \in Literals

(* bind_pattern: the slots to return, one for each variable, and the flag  *)
(* for a variable that occurs more than once.                              *)
Returned(P, t, tr) ==
    {k \in 1..4 : /\ IsVar(tr[k]) /\ (t.bound[tr[k][2]] \/ tr[k][2] \in P.need)
                  /\ \A j \in 1..(k - 1) : tr[j] # tr[k]}
SameFlag(tr) ==
    LET Linked(f, i, j) == \/ <<i, j>> \in Equalities[f]
                           \/ \E k \in 1..4 : {<<i, k>>, <<k, j>>} \subseteq Equalities[f]
    IN CHOOSE f \in DOMAIN Equalities : \A i \in 1..4, j \in 1..4 :
           i < j => (Linked(f, i, j) <=> (IsVar(tr[i]) /\ tr[i] = tr[j]))

(* The models: those of FROM for a pattern without GRAPH; a GRAPH pattern  *)
(* does not see the default graph then.                                    *)
Models(t, q, tr) == IF tr[Model] = Absent THEN q.from ELSE SlotList(t, tr[Model], FALSE)

(* fs_handle_query_triple: by subject, by object, or by neither. *)
Request(P, t, q, tr) ==
    LET bySubject == IsConst(t, tr[Subject]) /\
                     (NumVals(t, tr[Subject]) >= NumVals(t, tr[Object]) \/ IsType(tr[Predicate]))
        byObject == ~bySubject /\ IsConst(t, tr[Object])
    IN [kind |-> "bind", by |-> IF byObject THEN Object ELSE Subject, all |-> ~bySubject,
        bind |-> Returned(P, t, tr),
        m |-> SortedUniq(Models(t, q, tr)), s |-> SortedUniq(SlotList(t, tr[Subject], FALSE)),
        p |-> SortedUniq(SlotList(t, tr[Predicate], FALSE)), o |-> SortedUniq(SlotList(t, tr[Object], TRUE)),
        distinct |-> q.distinct, nodefault |-> q.from # <<>> /\ tr[Model] # Absent,
        same |-> SameFlag(tr), limit |-> NoLimit]

(* fs_handle_query_triple_multi *)
ReverseRequest(P, t, q, trs) ==
    LET origins == {i \in 2..Len(trs) : trs[i][Model] # Absent}
    IN [kind |-> "reverse", by |-> Subject, all |-> TRUE, bind |-> {Subject},
        m |-> SortedUniq(Models(t, q, trs[1])) \o
              FlattenSeq([i \in DOMAIN trs |-> IF i \in origins THEN SlotList(t, trs[i][Model], FALSE) ELSE <<>>]),
        s |-> <<>>,
        p |-> [i \in DOMAIN trs |-> trs[i][Predicate][2]], o |-> [i \in DOMAIN trs |-> trs[i][Object][2]],
        distinct |-> q.distinct, nodefault |-> FALSE, same |-> "XXXX", limit |-> NoLimit]

(* A slot with nothing but the empty value matches nothing, and is not     *)
(* sent.                                                                   *)
Impossible(rq) == \E k \in 1..4 : Slots(rq)[k] = <<TableNull>>

RowsFor(rq) ==
    CASE Impossible(rq) -> <<>>
      [] rq.kind = "reverse" ->
            LET found == ReverseAnswers(rq) IN [i \in DOMAIN found |-> [k \in {Subject} |-> found[i]]]
      [] OTHER -> Answers(rq)

(* process_results: the rows found become a table, which is joined with    *)
(* the table so far; a request that returns no slots only says whether     *)
(* there is a match.                                                       *)
Found(old, q, rq, tr, rows) ==
    LET Col(c) == {k \in rq.bind : tr[k] = <<"var", c>>}
        wide == [i \in DOMAIN rows |-> [c \in Columns |->
                    IF Col(c) = {} THEN TableNull ELSE rows[i][CHOOSE k \in Col(c) : TRUE]]]
        bound == [c \in Columns |-> Col(c) # {}]
        keys == {c \in Columns : bound[c]}
        table == IF q.distinct THEN WithRows(bound, Uniq(SortRows(keys, wide), keys)) ELSE WithRows(bound, wide)
    IN IF rq.bind = {} THEN [ok |-> rows # <<>>, fails |-> rows = <<>>, table |-> IF rows # <<>> THEN old ELSE NoTable]
       ELSE [ok |-> rows # <<>>, fails |-> FALSE, table |-> Merge(old, table)]

(* After a pattern without a match the variables of the block have a       *)
(* column, without values for the rows there are.                          *)
Blanked(P, b, t) ==
    [bound |-> [c \in Columns |-> t.bound[c] \/ P.appears[c] = b],
     vals |-> [c \in Columns |-> IF P.appears[c] = b THEN Blanks(RowCount(t)) ELSE t.vals[c]]]

(* The values of BIND expressions, a copy of another variable each. *)
RECURSIVE WithBinds(_, _)
WithBinds(t, binds) ==
    IF binds = <<>> THEN t
    ELSE LET e == Head(binds)
             from == CHOOSE c \in e.vars : TRUE
         IN WithBinds([t EXCEPT !.bound[e.var] = TRUE,
                                !.vals[e.var] = Padded(t).vals[from]], Tail(binds))
-----------------------------------------------------------------------------
(* The joins of the blocks. *)

(* fs_expression_eval and fn_ebv of the tests used here. *)
Holds(test, row) ==
    CASE test.fn = "in" -> \E c \in test.vars : Contains(test.values, row[c])
      [] test.fn = "not" -> \E c \in test.vars : ~Contains(test.values, row[c])
      [] test.fn = "same" -> TableNull \notin {row[c] : c \in test.vars} /\ Cardinality({row[c] : c \in test.vars}) = 1

Filtered(t, tests) ==
    WithRows(t.bound, ApplyFilters(t, [n \in DOMAIN tests |-> {r \in RowSet(t) : Holds(tests[n], r)}]))

(* The block that holds the result of a UNION is the last of its group. *)
Primary(P, g) == Max({b \in 1..P.n : P.group[b] = g})

(* One turn of the loop of fs_query_process_pattern: block b is joined to  *)
(* block up, its parent.                                                   *)
JoinTable(P, st, up, b, tab) ==
    LET kind == P.join[b]
        main == Primary(P, P.group[b])
        joined == CASE kind = "minus" -> Minus(st.tab[up], tab)
                    [] kind = "left" \/ (kind # "minus" /\ up \in st.has) -> Join(st.tab[up], tab, kind = "left")
                    [] OTHER -> tab
    IN IF kind = "union" /\ main # b
       THEN [st EXCEPT !.has = @ \ {b}, !.tab[main] = UnionOf(@, tab), !.used = @ \cup {b}]
       ELSE [st EXCEPT !.has = (@ \ {b}) \cup {up}, !.tab[up] = joined,
                       !.used = IF kind \in {"union", "left"} THEN @ \cup {b} ELSE @]

JoinBlock(P, st, up, b) ==
    JoinTable(P, st, up, b, IF P.join[b] \in {"union", "left"} THEN Filtered(st.tab[b], P.filters[b]) ELSE st.tab[b])

RECURSIVE JoinFromBlock(_, _, _, _)
JoinFromBlock(P, st, up, b) ==
    IF up < 0 THEN st
    ELSE IF b > P.n THEN JoinFromBlock(P, st, up - 1, IF up > 1 THEN up - 1 ELSE 1)
    ELSE IF b \in st.has /\ P.parent[b] = up /\ (up # b)
    THEN JoinFromBlock(P, JoinBlock(P, st, up, b), up, b + 1)
    ELSE JoinFromBlock(P, st, up, b + 1)

JoinBlocks(P, tabs) ==
    JoinFromBlock(P, [tab |-> tabs.tab, has |-> tabs.has, used |-> {}], P.n, P.n)
-----------------------------------------------------------------------------
(* The steps. *)

ProjectedRow(q, r) == [c \in Projected(q) |-> r[c]]
IsAsk(q) == q.proj = 0

QE_Init ==
    /\ sq_store \in Stores
    /\ sq_preds = LET es == [i \in DOMAIN sq_store |-> <<SegmentOf(sq_store[i][Subject]), sq_store[i][Predicate]>>]
                  IN SelectSeq(SetToSeq(ToSet(es)), LAMBDA e : TRUE)
    /\ sq_request = NoRequest
    /\ qe_pc = "idle"
    /\ qe_query = [proj |-> 0]
    /\ qe_plan = EmptyPlan
    /\ qe_tab = [tab |-> [b \in 0..MaxBlocks |-> NoTable], has |-> {}]
    /\ qe_todo = [block |-> 0, left |-> <<>>, dummy |-> FALSE]
    /\ qe_boolean = TRUE
    /\ qe_rows = <<>>
    /\ qe_row = [next |-> 0, output |-> 0, last |-> <<>>]
    /\ qe_out = <<>>

(* fs_query_execute up to the first triple.  Some kinds of queries are put *)
(* only if OddQueries names them:                                          *)
(*   shared        a pattern with two variables that are both bound;       *)
(*   paired        several predicates asked for with several subjects;     *)
(*   scope         a test against constants inside OPTIONAL or UNION;      *)
(*   late union    a UNION after an OPTIONAL;                              *)
(*   minus filter  a FILTER inside MINUS;                                  *)
(*   offset        OFFSET with a tested or sorted variable not projected;  *)
(*   unbound       a test for inequality of a variable without a value;    *)
(*   ask           ASK with a FILTER other than against constants;         *)
(*   chunk         GRAPH around the third of three constant patterns.      *)
Put(q) ==
    /\ q.odd \subseteq OddQueries
    /\ \E P \in {TreeCompact(WalkPattern([EmptyPlan EXCEPT !.need = Projected(q)], q, q.tree, Absent, 0, 0))} :
          /\ qe_plan' = P
          /\ qe_tab' = [tab |-> [qe_tab.tab EXCEPT ![0] = Prebound(P)], has |-> {0}]
          /\ qe_todo' = [qe_todo EXCEPT !.left = P.triples[0]]
    /\ qe_query' = q
    /\ qe_pc' = "run"
    /\ UNCHANGED <<qe_boolean, qe_rows, qe_row, qe_out>>

(* The result of the next triple or triples and those that are left. *)
Outcome(t, trs, n) ==
    IF Unmatchable(trs[1]) THEN [ok |-> FALSE, fails |-> FALSE, table |-> NoTable, n |-> 1, none |-> FALSE]
    ELSE LET rq == IF n > 1 THEN ReverseRequest(qe_plan, t, qe_query, SubSeq(trs, 1, n))
                   ELSE Request(qe_plan, t, qe_query, trs[1])
             outcome(request) ==
                 Found(t, qe_query, request, trs[1], RowsFor(request)) @@ [n |-> n, none |-> request.bind = {}]
         IN outcome(rq)

RunTriple ==
    /\ qe_pc = "run" /\ qe_todo.left # <<>>
    /\ LET b == qe_todo.block
           t == qe_tab.tab[b]
           turned(sorted) == <<sorted[2], sorted[1]>> \o SubSeq(sorted, 3, Len(sorted))
       IN \E swap \in BOOLEAN, sorted \in {Ordered(t, qe_todo.left)} :
            /\ swap => Len(sorted) > 1 /\ Chunk(t, sorted) = 1
            /\ \E trs \in {IF swap THEN turned(sorted) ELSE sorted} :
               \E res \in {Outcome(t, trs, IF swap THEN 1 ELSE Chunk(t, trs))} :
                  /\ qe_tab' = [qe_tab EXCEPT !.tab[b] = IF res.ok THEN res.table ELSE Blanked(qe_plan, b, res.table)]
                  /\ qe_boolean' = (qe_boolean /\ ~res.fails /\ (qe_plan.n < 2 => res.ok))
                  /\ qe_todo' = [qe_todo EXCEPT
                         !.left = IF res.ok /\ qe_boolean' THEN SubSeq(trs, res.n + 1, Len(trs)) ELSE <<>>,
                         !.dummy = res.ok /\ res.none]
    /\ UNCHANGED <<qe_pc, qe_query, qe_plan, qe_rows, qe_row, qe_out>>

(* The BIND expressions of a block end it; the next block with triples     *)
(* starts from a copy of the nearest table above it.                       *)
RECURSIVE Above(_, _, _)
Above(P, has, b) == IF P.parent[b] \in has \/ P.parent[b] = 0 THEN P.parent[b] ELSE Above(P, has, P.parent[b])

NextBlock ==
    /\ qe_pc = "run" /\ qe_todo.left = <<>>
    /\ LET b == qe_todo.block
           P == qe_plan
           tab == IF P.triples[b] = <<>> THEN qe_tab.tab
                  ELSE [qe_tab.tab EXCEPT ![b] = WithBinds(@, P.binds[b])]
           more == {x \in (b + 1)..P.n : P.triples[x] # <<>>}
       IN IF more = {}
          THEN /\ qe_pc' = "join"
               /\ qe_tab' = [qe_tab EXCEPT !.tab = tab]
               /\ UNCHANGED qe_todo
          ELSE LET x == Min(more)
               IN /\ qe_tab' = [tab |-> [tab EXCEPT ![x] = tab[Above(P, qe_tab.has, x)]], has |-> qe_tab.has \cup {x}]
                  /\ qe_todo' = [block |-> x, left |-> P.triples[x], dummy |-> FALSE]
                  /\ UNCHANGED qe_pc
    /\ UNCHANGED <<qe_query, qe_plan, qe_boolean, qe_rows, qe_row, qe_out>>

(* The joins; the filters of OPTIONAL and UNION blocks are used up. *)
JoinAll ==
    /\ qe_pc = "join"
    /\ \E st \in {JoinBlocks(qe_plan, qe_tab)} :
          /\ qe_tab' = [tab |-> st.tab, has |-> st.has]
          /\ qe_plan' = [qe_plan EXCEPT !.filters = [b \in DOMAIN @ |-> IF b \in st.used THEN <<>> ELSE @[b]]]
    /\ qe_pc' = "finish"
    /\ UNCHANGED <<qe_query, qe_todo, qe_boolean, qe_rows, qe_row, qe_out>>

(* fs_query_order: FS_RID_NULL first, then resources, then literals. *)
Rank(x) == IF x = TableNull THEN 0 ELSE IF x \in Resources THEN x ELSE 1000 + x
InOrder(q, rows) ==
    LET order == SetToSortSeq(DOMAIN rows, LAMBDA i, j :
                    \/ Rank(rows[i][q.order]) < Rank(rows[j][q.order])
                    \/ Rank(rows[i][q.order]) = Rank(rows[j][q.order]) /\ i < j)
        sorted == [i \in DOMAIN rows |-> rows[order[i]]]
    IN IF q.order = 0 THEN rows ELSE IF q.desc THEN Reverse(sorted) ELSE sorted

(* The first of the rows to fetch: offset distinct rows are passed over if *)
(* a variable is selected and not projected.                               *)
RECURSIVE PassOver(_, _, _, _)
PassOver(q, rows, row, passed) ==
    IF passed >= q.offset \/ row >= Len(rows) THEN row
    ELSE IF row > 0 /\ ProjectedRow(q, rows[row + 1]) = ProjectedRow(q, rows[row]) THEN PassOver(q, rows, row + 1, passed)
    ELSE PassOver(q, rows, row + 1, passed + 1)

FirstRow(q, P, rows) ==
    IF q.offset > 0 /\ P.selected \ Projected(q) # {} THEN PassOver(q, rows, 0, 0)
    ELSE IF \A b \in 1..P.n : P.filters[b] # <<>> THEN q.offset ELSE 0

(* DISTINCT sorts by the projected and selected columns and compares all   *)
(* that are bound.                                                         *)
FinalRows(q, P, t) ==
    IF q.distinct THEN Uniq(SortRows((Projected(q) \cup P.selected) \cap Columns, RowsOf(t)), BoundIn(t))
    ELSE RowsOf(t)

Finish ==
    /\ qe_pc = "finish"
    /\ LET t == qe_tab.tab[0]
           q == qe_query
           shown == IsAsk(q) \/ \E c \in Projected(q) : t.vals[c] # <<>>
       IN \E rows \in {IF shown THEN FinalRows(q, qe_plan, t) ELSE <<>>} :
          /\ qe_rows' = InOrder(q, rows)
          /\ qe_row' = [qe_row EXCEPT !.next = FirstRow(q, qe_plan, rows)]
          /\ qe_boolean' = IF IsAsk(q) THEN rows # <<>> \/ qe_todo.dummy ELSE qe_boolean
    /\ qe_pc' = "fetch"
    /\ UNCHANGED <<qe_query, qe_plan, qe_tab, qe_todo, qe_out>>

(* One turn of fs_query_fetch_row. *)
Constrained(P, r) == \A b \in 0..P.n : \A i \in DOMAIN P.filters[b] : Holds(P.filters[b][i], r)

AtLimit(q, output) == q.limit >= 0 /\ output >= q.offset + q.limit

FetchRow ==
    /\ qe_pc = "fetch"
    /\ LET q == qe_query
           r == qe_rows[qe_row.next + 1]
           row == ProjectedRow(q, r)
       IN IF AtLimit(q, qe_row.output) \/ qe_row.next >= Len(qe_rows) \/ (IsAsk(q) /\ ~qe_boolean)
          THEN qe_pc' = "done" /\ UNCHANGED <<qe_row, qe_out, qe_boolean>>
          ELSE IF ~Constrained(qe_plan, r)
          THEN /\ qe_boolean' = FALSE
               /\ qe_row' = [qe_row EXCEPT !.next = @ + 1]
               /\ UNCHANGED <<qe_pc, qe_out>>
          ELSE IF q.distinct /\ row = qe_row.last
          THEN qe_row' = [qe_row EXCEPT !.next = @ + 1] /\ UNCHANGED <<qe_pc, qe_out, qe_boolean>>
          ELSE /\ qe_row' = [next |-> qe_row.next + 1, output |-> qe_row.output + 1, last |-> row]
               /\ qe_out' = IF qe_row.output < q.offset THEN qe_out ELSE Append(qe_out, row)
               /\ UNCHANGED <<qe_pc, qe_boolean>>
    /\ UNCHANGED <<qe_query, qe_plan, qe_tab, qe_todo, qe_rows>>

QE_Next ==
    \/ qe_pc = "idle" /\ \E q \in Queries : Put(q)
    \/ RunTriple
    \/ NextBlock
    \/ JoinAll
    \/ Finish
    \/ FetchRow
-----------------------------------------------------------------------------
(* What a query asks for: the algebra of the query language, on sets. *)
Nothing == [c \in Columns |-> TableNull]
Compatible(r, s) == \A c \in Columns : TableNull \in {r[c], s[c]} \/ r[c] = s[c]
Combined(r, s) == [c \in Columns |-> IF r[c] = TableNull THEN s[c] ELSE r[c]]
Products(R, S) == {Combined(p[1], p[2]) : p \in {x \in R \X S : Compatible(x[1], x[2])}}
Share(r, s) == \E c \in Columns : r[c] # TableNull /\ r[c] = s[c]

TripleRows(q, model, t) ==
    LET tr == <<model>> \o t
        vs == {tr[k][2] : k \in {j \in 1..4 : IsVar(tr[j])}}
        Fit(r) == /\ \A k \in 1..4 : IsId(tr[k]) => r[k] = tr[k][2]
                  /\ \A j, k \in 1..4 : IsVar(tr[j]) /\ tr[j] = tr[k] => r[j] = r[k]
                  /\ q.from # <<>> => IF model = Absent THEN Contains(q.from, r[Model]) ELSE r[Model] # DefaultGraph
    IN {[c \in Columns |-> IF c \in vs THEN r[CHOOSE k \in 1..4 : tr[k] = <<"var", c>>] ELSE TableNull] :
            r \in {x \in ToSet(sq_store) : Fit(x)}}

Passes(test, r) ==
    /\ \A c \in test.vars : r[c] # TableNull
    /\ Holds(test, r)

RECURSIVE Solutions(_, _, _)
Solutions(q, node, model) ==
    LET here == IF node.op = "graph" THEN node.origin ELSE model
        basic == FoldLeft(LAMBDA R, t : Products(R, TripleRows(q, here, t)), {Nothing}, node.triples)
        Step(R, kid) ==
            LET S == Solutions(q, [kid EXCEPT !.op = "group"], here)
                open == Solutions(q, [kid EXCEPT !.op = "group", !.kids = SelectSeq(@, LAMBDA k : k.op # "filter")], here)
                Fit(r, o) == Compatible(r, o) /\ \A k \in ToSet(kid.kids) : k.op = "filter" => Passes(k.test, Combined(r, o))
            IN CASE kid.op = "filter" -> R
                 [] kid.op = "let" -> {[r EXCEPT ![kid.test.var] = r[CHOOSE c \in kid.test.vars : TRUE]] : r \in R}
                 [] kid.op = "optional" -> {Combined(p[1], p[2]) : p \in {e \in R \X open : Fit(e[1], e[2])}}
                                           \cup {r \in R : \A o \in open : ~Fit(r, o)}
                 [] kid.op = "minus" -> {r \in R : ~\E s \in S : Compatible(r, s) /\ Share(r, s)}
                 [] kid.op = "union" -> Products(R, UNION {Solutions(q, k, here) : k \in ToSet(kid.kids)})
                 [] OTHER -> Products(R, Solutions(q, kid, here))
        tested == {k.test : k \in {x \in ToSet(node.kids) : x.op = "filter"}}
    IN {r \in FoldLeft(Step, basic, node.kids) : \A x \in tested : Passes(x, r)}

Wished(q) == {ProjectedRow(q, r) : r \in Solutions(q, q.tree, Absent)}
AllFetched ==
    LET q == qe_query
        good == SelectSeq(qe_rows, LAMBDA r : Constrained(qe_plan, r))
        rows == [i \in DOMAIN good |-> ProjectedRow(q, good[i])]
        firsts == {i \in DOMAIN rows : i = 1 \/ rows[i] # rows[i - 1]}
    IN IF q.distinct THEN [n \in 1..Cardinality(firsts) |-> rows[SetToSortSeq(firsts, <)[n]]] ELSE rows

(* Whatever the order in which the patterns are put to the segments, the   *)
(* rows that a query puts out are just its solutions (for ASK, whether     *)
(* there is one), each once for DISTINCT, and in the order asked for.      *)
AnswersAreSolutions ==
    qe_pc = "done" =>
        LET q == qe_query
            sols == Solutions(q, q.tree, Absent)
        IN IF IsAsk(q) THEN qe_boolean = (sols # {})
           ELSE /\ ToSet(qe_out) \subseteq Wished(q)
                /\ q.limit < 0 /\ q.offset = 0 => Wished(q) \subseteq ToSet(qe_out)
                /\ q.distinct => IsInjective(qe_out)
                /\ q.order \in Projected(q) => \A i \in 2..Len(qe_out) :
                       IF q.desc THEN Rank(qe_out[i][q.order]) <= Rank(qe_out[i - 1][q.order])
                       ELSE Rank(qe_out[i - 1][q.order]) <= Rank(qe_out[i][q.order])

(* LIMIT and OFFSET cut a page out of the rows that the query has without  *)
(* them, even where rows are dropped only as they are fetched.             *)
PagesAreSlices ==
    (qe_pc = "done" /\ ~IsAsk(qe_query)) =>
        LET q == qe_query
            n == Len(AllFetched)
            last == IF q.limit < 0 \/ q.offset + q.limit > n THEN n ELSE q.offset + q.limit
        IN qe_out = IF q.offset >= last THEN <<>> ELSE SubSeq(AllFetched, q.offset + 1, last)

(* A query puts out the page asked for of the solutions that SPARQL        *)
(* defines.                                                                *)
QueriesAreAnswered == AnswersAreSolutions /\ PagesAreSlices
=============================================================================
