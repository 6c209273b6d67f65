---------------------------- MODULE MCFrontend -----------------------------
(* The parts that compute and print answers, checked side by side:         *)
(* requests to the segments, operations on binding tables, queries that    *)
(* use both, decimals, values and expressions, functions on texts and      *)
(* times, aggregates, the shared cache of resources, and output.           *)
(*                                                                         *)
(* Texts of values are numbers in the order strcmp gives them; AsInteger   *)
(* and the others say what the C library reads from them (values times     *)
(* ten).                                                                   *)
EXTENDS QueryEngine, Decimal, Expressions, Aggregation, ResourceCache, ResultRows, TLC

CONSTANT Parts   \* the parts that are checked

VARIABLE which

\* Requests: two segments; the ids of the slots overlap, so that equal values occur in
\* different slots; 0 is the default graph.
MCUniverse == <<<<0, 1, 5, 1>>, <<1, 1, 5, 1>>, <<1, 1, 5, 2>>, <<0, 3, 5, 2>>, <<1, 2, 6, 2>>>>

Flags == {<<FALSE, FALSE, "XXXX", NoLimit>>, <<TRUE, TRUE, "XXXX", NoLimit>>, <<TRUE, FALSE, "XXXX", NoLimit>>,
          <<FALSE, TRUE, "AAXA", NoLimit>>, <<FALSE, FALSE, "XXXX", 1>>, <<TRUE, FALSE, "XXXX", 1>>}

MCRequests ==
    {[kind |-> "bind", by |-> d[1], all |-> d[2], bind |-> b, m |-> m, s |-> s, p |-> p, o |-> o,
      distinct |-> f[1], nodefault |-> f[2], same |-> f[3], limit |-> f[4]] :
        d \in {<<Subject, FALSE>>, <<Object, TRUE>>, <<Subject, TRUE>>},
        b \in {{}, {Model}, {Predicate}, {Object}},
        m \in {<<>>, <<0, 1>>}, s \in {<<>>, <<1, 2, 3>>},
        p \in {<<>>, <<5>>, <<5, 6>>}, o \in {<<>>, <<1, 2>>}, f \in Flags}
    \cup
    {[kind |-> "reverse", by |-> Subject, all |-> TRUE, bind |-> {Subject}, m |-> m, s |-> <<>>,
      p |-> p, o |-> o, distinct |-> FALSE, nodefault |-> FALSE, same |-> "XXXX", limit |-> NoLimit] :
        m \in {<<>>, <<0>>}, p \in {<<5, 6>>, <<5, 5>>}, o \in {<<1, 2>>, <<2, 2>>}}
-----------------------------------------------------------------------------
\* Tables: three variables; a literal, the empty value and a resource.
Ids == {1, 3}
Tables(bound, values, n) ==
    {[bound |-> [c \in Columns |-> c \in bound],
      vals |-> [c \in Columns |-> IF c \in bound THEN [i \in 1..k |-> f[i][c]] ELSE <<>>]] :
        k \in 0..n, f \in [1..n -> [bound -> values]]}

Case(op, a, b, tests) == [op |-> op, a |-> a, b |-> b, tests |-> tests]
AnyRow == [Columns -> Ids \cup {TableNull}]

MCCases ==
    {Case(op, a, b, <<>>) : op \in {"inner", "left", "minus", "merge"},
        a \in Tables({1, 2}, Ids, 2), b \in Tables({2}, Ids, 3) \cup Tables({2, 3}, Ids, 2) \cup Tables({3}, Ids, 2)}
    \cup {Case(op, a, b, <<>>) : op \in {"left", "minus"},
        a \in Tables({1}, Ids \cup {TableNull}, 2), b \in Tables({1}, Ids \cup {TableNull}, 2)}
    \cup {Case("merge", a, b, <<>>) : a \in Tables({1, 2}, Ids, 3), b \in Tables({1, 2}, Ids, 2) \cup Tables({1}, Ids, 1)}
    \cup {Case("distinct", a, a, <<>>) : a \in Tables({1, 2}, Ids \cup {TableNull}, 3)}
    \cup {Case("union", a, b, <<>>) : a \in Tables({1, 2}, Ids, 2), b \in Tables({2, 3}, Ids, 2)}
    \cup {Case("filter", a, a, tests) : a \in Tables({1, 2}, Ids, 2),
            tests \in {<<>>} \cup {<<{r \in AnyRow : r[1] = x}>> : x \in Ids}
                      \cup {<<{r \in AnyRow : r[1] = x}, {r \in AnyRow : r[2] = y}>> : x \in Ids, y \in Ids}}
-----------------------------------------------------------------------------
\* Queries: every subset of six quads in two graphs.
Quads == <<<<0, 3, 5, 4>>, <<0, 4, 5, 1>>, <<7, 3, 6, 1>>, <<7, 4, 6, 4>>, <<0, 3, 5, 1>>, <<7, 3, 5, 3>>>>
MCStores == {SelectSeq(Quads, LAMBDA r : r \in S) : S \in SUBSET ToSet(Quads)}

x == <<"var", 1>>
y == <<"var", 2>>
z == <<"var", 3>>
Id(n) == <<"id", n>>
Node(op, triples, kids) == [op |-> op, triples |-> triples, kids |-> kids, origin |-> Absent, test |-> <<>>]
BasicP(triples) == Node("basic", triples, <<>>)
GroupP(kids) == Node("group", <<>>, kids)
OptionalP(kids) == Node("optional", <<>>, kids)
UnionP(kids) == Node("union", <<>>, kids)
MinusP(kids) == Node("minus", <<>>, kids)
GraphP(g, kids) == [Node("graph", <<>>, kids) EXCEPT !.origin = g]
IsIn(c, values) == [Node("filter", <<>>, <<>>) EXCEPT !.test = [fn |-> "in", vars |-> {c}, values |-> values]]
IsNot(c, values) == [Node("filter", <<>>, <<>>) EXCEPT !.test = [fn |-> "not", vars |-> {c}, values |-> values]]
Same(c, d) == [Node("filter", <<>>, <<>>) EXCEPT !.test = [fn |-> "same", vars |-> {c, d}, values |-> <<>>]]
Let(c, d) == [Node("let", <<>>, <<>>) EXCEPT !.test = [fn |-> "copy", var |-> c, vars |-> {d}]]

Query(proj, tree) ==
    [proj |-> proj, tree |-> tree, distinct |-> FALSE, order |-> 0, desc |-> FALSE,
     limit |-> -1, offset |-> 0, from |-> <<>>, odd |-> {}]
Odd(q, kind) == [q EXCEPT !.odd = {kind}]
Page(q, limit, offset) == [q EXCEPT !.limit = limit, !.offset = offset]
Dis(q) == [q EXCEPT !.distinct = TRUE]
By(q, c, desc) == [q EXCEPT !.order = c, !.desc = desc]
From(q) == [q EXCEPT !.from = <<0>>]

xpy == BasicP(<<<<x, Id(5), y>>>>)
yqz == BasicP(<<<<y, Id(6), z>>>>)
xqz == BasicP(<<<<x, Id(6), z>>>>)
path == BasicP(<<<<x, Id(5), y>>, <<y, Id(6), z>>>>)
star == BasicP(<<<<x, Id(5), y>>, <<x, Id(6), z>>>>)

MCQueries ==
    {Query(2, xpy), Query(3, path), Dis(Query(1, path)), Query(3, star), Query(1, star),
     Query(1, BasicP(<<<<x, Id(5), Id(1)>>, <<x, Id(6), Id(1)>>, <<x, Id(5), y>>>>)),
     Query(1, BasicP(<<<<x, Id(5), Id(1)>>, <<x, Id(6), Id(1)>>>>)),
     Query(1, BasicP(<<<<x, Id(6), Id(1)>>, <<Id(4), Id(5), y>>>>)),
     Query(1, BasicP(<<<<x, Id(5), x>>>>)),
     Query(1, BasicP(<<<<Id(1), Id(5), x>>>>)),
     Query(0, xpy), Query(0, path), Query(0, BasicP(<<<<Id(3), Id(5), Id(4)>>>>)),
     Query(0, GroupP(<<xpy, IsIn(2, <<1, 3>>)>>)),
     Dis(Query(3, BasicP(<<<<x, y, z>>>>))),
     Query(3, GroupP(<<xpy, OptionalP(<<yqz>>)>>)),
     Query(3, GroupP(<<xpy, OptionalP(<<xqz>>), OptionalP(<<yqz>>)>>)),
     Query(3, GroupP(<<xpy, OptionalP(<<xqz, Same(2, 3)>>)>>)),
     Query(2, GroupP(<<xpy, IsIn(2, <<1, 3>>)>>)),
     Query(2, GroupP(<<xpy, IsIn(2, <<1, 3>>), IsIn(1, <<3, 4>>)>>)),
     Query(3, GroupP(<<star, Same(2, 3)>>)),
     Query(2, GroupP(<<UnionP(<<xpy, BasicP(<<<<x, Id(6), y>>>>)>>)>>)),
     Query(3, GroupP(<<xpy, UnionP(<<yqz, BasicP(<<<<y, Id(5), z>>>>)>>)>>)),
     Query(2, GroupP(<<xpy, MinusP(<<xqz>>)>>)),
     Query(2, GraphP(y, <<BasicP(<<<<x, Id(5), z>>>>)>>)),
     Query(1, GroupP(<<BasicP(<<<<x, Id(5), y>>>>), GraphP(Id(7), <<BasicP(<<<<x, Id(6), z>>>>)>>)>>)),
     From(Query(2, xpy)), From(Query(2, GraphP(z, <<xpy>>))),
     Query(3, GroupP(<<xpy, Let(3, 2)>>)),
     Page(Dis(Query(1, path)), 1, 1), Page(By(Query(2, xpy), 2, TRUE), 2, 1),
     Page(Query(2, GroupP(<<xpy, IsNot(2, <<1>>)>>)), 1, 1),
     Page(Dis(Query(1, GroupP(<<star, Same(2, 3)>>))), 1, 0),
     By(Dis(Query(2, GroupP(<<xpy, IsNot(2, <<1>>)>>))), 1, FALSE),
     Odd(Query(2, BasicP(<<<<x, Id(5), y>>, <<x, Id(6), y>>>>)), "shared"),
     Odd(Query(3, BasicP(<<<<x, Id(5), Id(1)>>, <<x, y, z>>, <<x, y, Id(1)>>>>)), "paired"),
     Odd(Query(3, GroupP(<<xpy, OptionalP(<<yqz, IsIn(2, <<4>>)>>)>>)), "scope"),
     Odd(Query(3, GroupP(<<xpy, OptionalP(<<xqz>>), UnionP(<<yqz, BasicP(<<<<y, Id(5), z>>>>)>>)>>)), "late union"),
     Odd(Query(2, GroupP(<<xpy, MinusP(<<xqz, IsNot(3, <<1>>)>>)>>)), "minus filter"),
     Odd(Page(Query(1, GroupP(<<xpy, IsNot(2, <<1>>)>>)), -1, 1), "offset"),
     Odd(Query(3, GroupP(<<xpy, OptionalP(<<yqz>>), IsNot(3, <<1>>)>>)), "unbound"),
     Odd(Query(0, GroupP(<<xpy, IsNot(2, <<1>>)>>)), "ask"),
     Odd(Query(1, GroupP(<<BasicP(<<<<x, Id(5), Id(1)>>, <<x, Id(5), Id(4)>>>>),
                           GraphP(Id(7), <<BasicP(<<<<x, Id(6), Id(1)>>>>)>>)>>)), "chunk")}
-----------------------------------------------------------------------------
\* Decimals: numbers in thousandths, near the digits where carries and rounding happen.
Thousandths == {0, 1, 9, 10, 50, 99, 100, 120, 490, 500, 501, 510, 700, 999, 1000, 1500, 2000, 2500,
                2501, 3000, 6000, 7000, 9000, 9990, 9999, 10000, 15000, 33000, 66010, 90000, 99990, 99999}
MCOperands == Thousandths \cup {-n : n \in Thousandths}
Thousandths2 == {0, 1, 10, 100, 500, 999, 1000, 1500, 3000, 7000, 8000, 9990, 12340, 20000}
MCOperands2 == Thousandths2 \cup {-n : n \in Thousandths2}

\* Values: 1 is "", 2 "-1", 3 "0", 4 "1", 5 "1.5", 6 "10", 7 "2", 8 and 9 times, 10 "a",
\* 11 "false", 12 and 13 URIs, 14 "true" and 15 "NaN".
MCAsInteger == (2 :> -1) @@ (3 :> 0) @@ (4 :> 1) @@ (6 :> 10) @@ (7 :> 2)
MCAsDecimal == (2 :> -10) @@ (3 :> 0) @@ (4 :> 10) @@ (5 :> 15) @@ (6 :> 100) @@ (7 :> 20)
MCAsDouble == MCAsDecimal @@ (15 :> NaN)
MCAsTime == (8 :> 5) @@ (9 :> 6)
Literal(id, attr, lex) == [rid |-> <<"lit", id>>, attr |-> attr, lex |-> lex]
TermOf(kind, id, lex) == [rid |-> <<kind, id>>, attr |-> "NULL", lex |-> lex]
MCStored ==
    {TermOf("uri", 1, 12), TermOf("uri", 2, 13), TermOf("bnode", 1, 10), TermOf("bnode", 2, 10),
     Literal(1, "integer", 4), Literal(2, "integer", 2), Literal(3, "integer", 6),
     Literal(4, "double", 5), Literal(5, "double", 4), Literal(6, "decimal", 5),
     Literal(7, "decimal", 7), Literal(8, "float", 6), Literal(9, "int", 7),
     Literal(10, "boolean", 14), Literal(11, "boolean", 11), Literal(12, "dateTime", 8),
     Literal(13, "dateTime", 9), Literal(14, "empty", 10), Literal(15, "empty", 1),
     Literal(16, "string", 10), Literal(17, "string", 6), Literal(18, "en", 10),
     Literal(19, "fr", 10), Literal(20, "en", 6), Literal(21, "other", 6),
     Literal(22, "other", 10), Literal(23, "integer", 10), Literal(24, "empty", 12),
     Literal(25, "empty", 8), Literal(26, "integer", 3), Literal(27, "double", 15)}
MCQueryTerms ==
    {[attr |-> t[1], lex |-> t[2]] :
        t \in {<<"integer", 4>>, <<"double", 5>>, <<"decimal", 7>>, <<"boolean", 14>>, <<"empty", 10>>,
               <<"dateTime", 9>>, <<"en", 10>>}}

\* Expressions: rows of two variables.
RowTerms1 == {Unset, TermOf("uri", 1, 12), TermOf("bnode", 1, 10), Literal(1, "integer", 4),
              Literal(15, "empty", 1), Literal(9, "int", 7), Literal(23, "integer", 10)}
RowTerms2 == {Unset, Literal(11, "boolean", 11), Literal(5, "double", 4)}
MCRowsOfTerms == {<<s, t>> : s \in RowTerms1, t \in RowTerms2}
MCAtoms == {<<"var", 1>>, <<"var", 2>>, <<"lit", [attr |-> "integer", lex |-> 4]>>,
            <<"lit", [attr |-> "empty", lex |-> 10]>>, <<"blank">>}

\* Groups: up to three of six solutions.
Solved(k1, k2, val, pass) == [k1 |-> k1, k2 |-> k2, val |-> val, pass |-> pass]
MCSolutions == {Solved(1, 1, 1, TRUE), Solved(2, 1, 2, TRUE), Solved(2, 1, Unbound, TRUE),
                Solved(1, 2, 3, FALSE), Solved(3, 0, 1, TRUE), Solved(1, 1, 2, TRUE)}
MCSolutionLists == UNION {[1 .. n -> MCSolutions] : n \in 0 .. 3}
MCLimits == {-1, 1}

\* Output: terms of every kind, and templates with variables in every place.
RowTerm(kind, id) == [kind |-> kind, id |-> id]
MCRowTerms == {NullTerm, RowTerm("uri", 1), RowTerm("bnode", 2), RowTerm("literal", 3)}
MCErrorTerms == {RowTerm("literal", 3)}
TemplateVar(v) == <<"var", v>>
TemplateUri == <<"term", RowTerm("uri", 5)>>
MCTemplates ==
    {<<<<TemplateVar(1), TemplateUri, TemplateVar(2)>>>>,
     <<<<TemplateUri, TemplateVar(1), TemplateVar(2)>>,
       <<TemplateVar(2), TemplateUri, <<"term", RowTerm("literal", 3)>>>>>>,
     <<<<TemplateVar(1), TemplateUri, <<"term", RowTerm("typed", 3)>>>>>>}
-----------------------------------------------------------------------------
QY_Init(part) == BT_Init /\ QE_Init /\ (part # "queries" => sq_store = <<>>)

QY_Next(part) ==
    \/ part = "requests" /\ SQ_Next /\ UNCHANGED <<bt_vars, qe_vars>>
    \/ part = "tables" /\ BT_Next /\ UNCHANGED <<sq_vars, qe_vars>>
    \/ part = "queries" /\ QE_Next /\ UNCHANGED <<sq_vars, bt_vars>>

qyvars == <<sq_vars, bt_vars, qe_vars>>

Init ==
    /\ which \in Parts
    /\ QY_Init(which)
    /\ DC_Init /\ FL_Init /\ EX_Init /\ TF_Init /\ AG_Init /\ RC_Init /\ RR_Init

Next ==
    /\ which' = which
    /\ \/ QY_Next(which) /\ UNCHANGED <<dcvars, flvars, exvars, tfvars, agvars, rcvars, rr>>
       \/ which = "decimals" /\ DC_Next /\ UNCHANGED <<qyvars, flvars, exvars, tfvars, agvars, rcvars, rr>>
       \/ which = "values" /\ FL_Next /\ UNCHANGED <<qyvars, dcvars, exvars, tfvars, agvars, rcvars, rr>>
       \/ which = "expressions" /\ EX_Next /\ UNCHANGED <<qyvars, dcvars, flvars, tfvars, agvars, rcvars, rr>>
       \/ which = "texts" /\ TF_Next /\ UNCHANGED <<qyvars, dcvars, flvars, exvars, agvars, rcvars, rr>>
       \/ which = "aggregates" /\ AG_Next /\ UNCHANGED <<qyvars, dcvars, flvars, exvars, tfvars, rcvars, rr>>
       \/ which = "resources" /\ RC_Next /\ UNCHANGED <<qyvars, dcvars, flvars, exvars, tfvars, agvars, rr>>
       \/ which = "output" /\ RR_Next /\ UNCHANGED <<qyvars, dcvars, flvars, exvars, tfvars, agvars, rcvars>>

Spec == Init /\ [][Next]_<<which, qyvars, dcvars, flvars, exvars, tfvars, agvars, rcvars, rr>>

-----------------------------------------------------------------------------
(* FILTER, BIND and ORDER BY compute with values as SPARQL says: decimals  *)
(* as the numbers they stand for; the operators by three-valued logic, one *)
(* order and exact arithmetic; expressions by the laws that let a query be *)
(* rewritten; functions on texts and times consistently with one another.  *)
ValuesAreLawful ==
    /\ DecimalsAreExact
    /\ LogicIsThreeValued /\ ComparisonsAgree /\ OrderIsTotal /\ ArithmeticIsExact
    /\ FiltersSplit /\ DefaultsAgree /\ MembershipIsEquality /\ KindsPartition
    /\ TextPartsAgree /\ SubstringIsSlice /\ TimesAreInstants
=============================================================================
