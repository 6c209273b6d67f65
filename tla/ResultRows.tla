----------------------------- MODULE ResultRows -----------------------------
(***************************************************************************)
(* What a finished query prints (src/frontend/results.c): the row that     *)
(* fs_query_fetch_row fills again for every solution, the loops of the     *)
(* output functions, CONSTRUCT with slot_fill, DESCRIBE, and the escaping  *)
(* of texts for every format.                                              *)
(*                                                                         *)
(* A term is [kind, id]; kind is "null" for a variable without a value.    *)
(* A solution gives every variable a term and says whether the FILTERs     *)
(* accept it.  A column of SELECT shows a variable, or the value of an     *)
(* expression, here the variable again or an error for the terms in        *)
(* ErrorTerms.  A text is a sequence of classes of characters.             *)
(*                                                                         *)
(* OddRows adds the cases that the properties exclude, see Proper.         *)
(***************************************************************************)
EXTENDS Integers, Sequences, FiniteSets, SequencesExt

CONSTANTS
    RowVars,       \* variables, numbered as their columns are
    RowTerms,      \* terms of the solutions
    ErrorTerms,    \* terms for which expressions fail
    Templates,     \* templates of CONSTRUCT: sequences of triples of slots
    MaxRows,       \* solutions of a query
    MaxEscaped,    \* length of the texts escaped
    OddRows

ASSUME ResultRowsAssumption ==
    /\ ErrorTerms \subseteq RowTerms
    /\ OddRows \subseteq {"ask", "unbound expression", "unbound subject",
                          "typed constant", "csv uri", "control", "distinct expression"}

VARIABLES rr

NullTerm == [kind |-> "null", id |-> 0]
NoneCell == [type |-> "none", term |-> NullTerm]

-----------------------------------------------------------------------------
(* Escaping *)

\* What the code writes for a character of each class; "restricted" stands for
\* control characters that XML refuses, "angle" for < and >.
CharClasses == {"plain", "quote", "comma", "newline", "tab", "backslash", "angle",
                "amp", "restricted"}
\* "newline" is \n or \r, and "tab" a tab or, in URIs, a space.
Count(s, cs) == Cardinality({i \in DOMAIN s : s[i] \in cs})
Each(s, Written(_)) == FlattenSeq([i \in DOMAIN s |-> Written(s[i])])

\* The *_needs_escape functions: whether anything is escaped, and how long the text
\* will be then.
Needs(s, cs, length) == [escape |-> ToSet(s) \cap cs # {}, length |-> length]

csv_needs_escape(s) ==
    LET cs == {"quote", "comma", "newline"}
    IN  Needs(s, cs, Len(s) + Count(s, {"quote"}) + (IF ToSet(s) \cap cs # {} THEN 2 ELSE 0))
csv_escape(s) ==
    <<"quote">> \o Each(s, LAMBDA c : IF c = "quote" THEN <<c, c>> ELSE <<c>>) \o <<"quote">>

UriEscaped == {"tab", "newline", "angle"}
uri_needs_escape(s) == Needs(s, UriEscaped, Len(s) + 2 * Count(s, UriEscaped))
uri_escape(s) ==
    Each(s, LAMBDA c : IF c \in UriEscaped THEN <<"plain", "plain", "plain">> ELSE <<c>>)

Slashed == {"backslash", "tab", "newline", "quote"}
WithSlash(c) ==
    IF c \in Slashed THEN <<"backslash", IF c \in {"tab", "newline"} THEN "plain" ELSE c>> ELSE <<c>>
tsv_needs_escape(s) == Needs(s, Slashed, Len(s) + Count(s, Slashed))
tsv_escape(s) == Each(s, WithSlash)
json_needs_escape(s) == Needs(s, Slashed, Len(s) + Count(s, Slashed))
json_escape(s) == Each(s, WithSlash)

xml_needs_escape(s) ==
    Needs(s, {"angle", "amp", "restricted"},
          Len(s) + 3 * Count(s, {"angle"}) + 4 * Count(s, {"amp"}) - Count(s, {"restricted"}))
xml_escape(s) ==
    Each(s, LAMBDA c : CASE c = "angle" -> <<"amp", "plain", "plain", "plain">>
                         [] c = "amp" -> <<"amp", "plain", "plain", "plain", "plain">>
                         [] c = "restricted" -> << >>
                         [] OTHER -> <<c>>)

NeedsEscape(format, s) ==
    CASE format = "csv" -> csv_needs_escape(s) [] format = "uri" -> uri_needs_escape(s)
      [] format = "tsv" -> tsv_needs_escape(s) [] format = "json" -> json_needs_escape(s)
      [] format = "xml" -> xml_needs_escape(s)
Escaped(format, s) ==
    CASE format = "csv" -> csv_escape(s) [] format = "uri" -> uri_escape(s)
      [] format = "tsv" -> tsv_escape(s) [] format = "json" -> json_escape(s)
      [] format = "xml" -> xml_escape(s)

\* The output functions test and measure with one format and write with another in one
\* case: URIs in CSV are measured as CSV and written as URIs.
EscapePairs == {<<f, f>> : f \in {"csv", "uri", "tsv", "json", "xml"}}
                 \cup (IF "csv uri" \in OddRows THEN {<<"csv", "uri">>} ELSE {})

-----------------------------------------------------------------------------
(* Rows of SELECT *)

TermType(t) == IF t.kind = "null" THEN "none" ELSE t.kind
CellOf(t) == [type |-> TermType(t), term |-> t]

\* fs_value_to_row leaves the cell as it was for a value that is not bound.
ExpressionCell(old, t) == IF t.kind = "null" THEN old ELSE CellOf(t)

\* Mutant: a plain variable without a value leaves its cell too.
CellKept(q, old, v, t) == ExpressionCell(old, t)

NewCell(q, old, v, t) == IF v \in q.expressions THEN ExpressionCell(old, t) ELSE CellOf(t)

-----------------------------------------------------------------------------
(* CONSTRUCT *)

\* slot_fill: the term of a slot, <<"var", variable>> or <<"term", constant>>.  A variable
\* without a value becomes the blank node "NULL", and a constant literal loses its
\* datatype.
NullBlank == [kind |-> "bnode", id |-> 0]
PlainOf(t) == IF t.kind = "typed" THEN [t EXCEPT !.kind = "literal"] ELSE t
SlotFill(slot, terms) ==
    IF slot[1] = "term" THEN PlainOf(slot[2])
    ELSE IF terms[slot[2]].kind = "null" THEN NullBlank ELSE terms[slot[2]]

\* The triples that handle_construct does not skip.
Printable(t) ==
    t[3] # NullBlank /\ t[1].kind \in {"uri", "bnode"} /\ t[2].kind = "uri"
Constructed(template, terms) ==
    {t \in {[i \in 1 .. 3 |-> SlotFill(template[n][i], terms)] : n \in DOMAIN template} :
        Printable(t)}

-----------------------------------------------------------------------------
(* The output loops *)

RR_Init == rr = [verb |-> "none"]

Begin(q) ==
    rr' = [verb |-> q.verb, q |-> q, row |-> 1, resrow |-> [v \in RowVars |-> NoneCell],
           rids |-> [v \in RowVars |-> NoneCell],
           out |-> << >>, triples |-> {}, described |-> << >>,
           boolean |-> q.rows # << >>, done |-> FALSE]

Solution == rr.q.rows[rr.row]
More == rr.row <= Len(rr.q.rows)
Advance(r) == [r EXCEPT !.row = @ + 1]

\* The ids of a row, which DISTINCT compares with those of the row before: an expression
\* has no column and no id.
RidsOf(q, terms) == [v \in RowVars |-> IF v \in q.expressions THEN NullTerm ELSE terms[v]]

\* One solution of a SELECT: passed over when the FILTERs refuse it or an expression
\* fails, after the cells before it have been filled, or when it repeats the ids of the
\* row before and the query is DISTINCT.
PrintRow ==
    /\ rr.verb = "select" /\ ~rr.done
    /\ rr' = IF ~More THEN [rr EXCEPT !.done = TRUE]
             ELSE IF ~Solution.pass THEN Advance(rr)
             ELSE LET filled == [v \in RowVars |-> NewCell(rr.q, rr.resrow[v], v, Solution.terms[v])]
                      rids == RidsOf(rr.q, Solution.terms)
                      failing == {v \in rr.q.expressions : Solution.terms[v] \in ErrorTerms}
                      Kept(old, new) == [v \in RowVars |-> IF \A f \in failing : v < f THEN new[v] ELSE old[v]]
                  IN  IF failing # {}
                      THEN Advance([rr EXCEPT !.resrow = Kept(@, filled), !.rids = Kept(@, rids)])
                      ELSE Advance([rr EXCEPT !.resrow = filled, !.rids = rids,
                                              !.out = IF rr.q.distinct /\ rr.rids = rids THEN @
                                                      ELSE Append(@, filled)])

PrintConstruct ==
    /\ rr.verb = "construct" /\ ~rr.done
    /\ rr' = IF ~More THEN [rr EXCEPT !.done = TRUE]
             ELSE IF ~Solution.pass THEN Advance(rr)
             ELSE Advance([rr EXCEPT !.triples = @ \cup Constructed(rr.q.template, Solution.terms)])

\* handle_describe: resources and blank nodes, each the first time it is met.
DescribedFirst(described, t) == t \notin ToSet(described)

PrintDescribe ==
    /\ rr.verb = "describe" /\ ~rr.done
    /\ rr' = IF ~More THEN [rr EXCEPT !.done = TRUE]
             ELSE IF ~Solution.pass THEN Advance(rr)
             ELSE LET terms == [n \in 1 .. Cardinality(RowVars) |->
                                    Solution.terms[SetToSortSeq(RowVars, <)[n]]]
                      Step(t, done) == IF t.kind \in {"uri", "bnode"} /\ DescribedFirst(done, t)
                                       THEN Append(done, t) ELSE done
                  IN  Advance([rr EXCEPT !.described = FoldSeq(Step, @, terms)])

\* while (q->boolean && fs_query_fetch_row(q)): a solution that the FILTERs refuse
\* makes the answer false, and there is nothing else to fetch.
PrintAsk ==
    /\ rr.verb = "ask" /\ ~rr.done
    /\ rr' = IF ~rr.boolean \/ ~More THEN [rr EXCEPT !.done = TRUE]
             ELSE IF ~Solution.pass THEN [rr EXCEPT !.boolean = FALSE, !.done = TRUE]
             ELSE Advance(rr)

WriteText(pair, s) ==
    rr' = [verb |-> "escape", text |-> s, measured |-> pair[1], written |-> pair[2],
           length |-> NeedsEscape(pair[1], s).length, done |-> TRUE,
           output |-> IF NeedsEscape(pair[1], s).escape THEN Escaped(pair[2], s) ELSE s]

-----------------------------------------------------------------------------
(* Queries *)

RowSolutions == [terms : [RowVars -> RowTerms], pass : BOOLEAN]

(***************************************************************************)
(* The queries whose output is that of the properties.  OddRows adds       *)
(*   ask                 ASK where the FILTERs accept some solutions only; *)
(*   unbound expression  an expression without a value;                    *)
(*   unbound subject     CONSTRUCT with a subject that is not bound;       *)
(*   typed constant      a template with a literal that has a datatype;    *)
(*   distinct expression DISTINCT over the values of expressions;          *)
(*   csv uri             URIs that CSV finds in need of escaping;          *)
(*   control             control characters in JSON.                       *)
(***************************************************************************)
SubjectVars(template) ==
    {template[n][1][2] : n \in {m \in DOMAIN template : template[m][1][1] = "var"}}
Proper(q) ==
    /\ q.verb = "ask" => \/ "ask" \in OddRows
                         \/ \A i, j \in DOMAIN q.rows : q.rows[i].pass = q.rows[j].pass
    /\ q.distinct => q.expressions = {} \/ "distinct expression" \in OddRows
    /\ \A i \in DOMAIN q.rows :
          /\ \A v \in q.expressions : q.rows[i].terms[v].kind # "null"
                                        \/ "unbound expression" \in OddRows
          /\ q.verb = "construct" => \A v \in SubjectVars(q.template) :
                q.rows[i].terms[v].kind # "null" \/ "unbound subject" \in OddRows
    /\ q.verb = "construct" => \A n \in DOMAIN q.template, k \in 1 .. 3 :
          q.template[n][k][1] = "term" /\ q.template[n][k][2].kind = "typed"
              => "typed constant" \in OddRows
ProperText(format, s) == format = "json" => "restricted" \notin ToSet(s) \/ "control" \in OddRows

EscapeTexts == UNION {[1 .. n -> CharClasses] : n \in 0 .. MaxEscaped}

RR_Next ==
    \/ /\ rr.verb = "none"
       /\ \/ \E rows \in UNION {[1 .. n -> RowSolutions] : n \in 0 .. MaxRows},
               verb \in {"select", "construct", "describe", "ask"} :
               \E expressions \in IF verb = "select" THEN SUBSET RowVars ELSE {{}},
                  template \in IF verb = "construct" THEN Templates ELSE {<< >>},
                  distinct \in IF verb = "select" THEN BOOLEAN ELSE {FALSE} :
                  LET q == [verb |-> verb, rows |-> rows, expressions |-> expressions,
                            template |-> template, distinct |-> distinct]
                  IN  Proper(q) /\ Begin(q)
          \/ \E pair \in EscapePairs, s \in EscapeTexts : ProperText(pair[1], s) /\ WriteText(pair, s)
    \/ PrintRow
    \/ PrintConstruct
    \/ PrintDescribe
    \/ PrintAsk

-----------------------------------------------------------------------------
(* Properties *)

\* The rows printed for a SELECT are the solutions that the FILTERs accept and for which
\* no expression fails, in their order, and every cell shows the term of its own
\* solution although one row is filled again and again; DISTINCT leaves out just the
\* rows that are as the one before.
RowsAreOwn ==
    rr.verb = "select" =>
        LET shown == SelectSeq(SubSeq(rr.q.rows, 1, rr.row - 1),
                LAMBDA s : s.pass /\ \A v \in rr.q.expressions : s.terms[v] \notin ErrorTerms)
            kept == IF rr.q.distinct
                    THEN {n \in DOMAIN shown : n > 1 => shown[n].terms # shown[n - 1].terms}
                    ELSE DOMAIN shown
            order == SetToSortSeq(kept, <)
        IN  rr.out = [n \in DOMAIN order |-> [v \in RowVars |-> CellOf(shown[order[n]].terms[v])]]

\* CONSTRUCT prints, for every solution accepted, the triples of the template that have
\* a value in each place, a resource or blank node as subject and a resource as
\* predicate, with their own terms.
ConstructIsTemplate ==
    rr.verb = "construct" /\ rr.done =>
        LET Term(slot, terms) == IF slot[1] = "var" THEN terms[slot[2]] ELSE slot[2]
            all == {[i \in 1 .. 3 |-> Term(rr.q.template[n][i], rr.q.rows[r].terms)] :
                        n \in DOMAIN rr.q.template,
                        r \in {x \in DOMAIN rr.q.rows : rr.q.rows[x].pass}}
        IN  rr.triples = {t \in all : t[3].kind # "null" /\ t[1].kind \in {"uri", "bnode"}
                                        /\ t[2].kind = "uri"}

\* DESCRIBE describes every resource and blank node of the solutions accepted, once.
DescribedOnce ==
    rr.verb = "describe" /\ rr.done =>
        /\ IsInjective(rr.described)
        /\ ToSet(rr.described) = {t \in {rr.q.rows[r].terms[v] :
                v \in RowVars, r \in {x \in DOMAIN rr.q.rows : rr.q.rows[x].pass}} :
                t.kind \in {"uri", "bnode"}}

\* The answer of ASK is whether the FILTERs accept a solution: the loop "applies the
\* filters until we find one that matches or run out of rows".
AskFindsMatch ==
    rr.verb = "ask" /\ rr.done =>
        (rr.boolean <=> \E r \in DOMAIN rr.q.rows : rr.q.rows[r].pass)

\* A text that is escaped fits the memory that was measured for it, and reads back as it
\* was in the formats that lose nothing: no quote ends it early, no separator splits it,
\* and no character is there that the format refuses.
EscapesFit ==
    rr.verb = "escape" =>
        LET out == rr.output
            csv == IF csv_needs_escape(rr.text).escape THEN SubSeq(out, 2, Len(out) - 1) ELSE out
        IN  /\ Len(out) <= rr.length
            /\ rr.written = "csv" => Count(csv, {"quote"}) = 2 * Count(rr.text, {"quote"})
            /\ rr.written \in {"tsv", "json"} =>
                  /\ ToSet(out) \cap {"tab", "newline"} = {}
                  /\ Count(out, {"plain", "quote"}) >= Count(rr.text, {"plain", "quote"})
            /\ rr.written = "json" => "restricted" \notin ToSet(out)
            /\ rr.written = "xml" => ToSet(out) \cap {"angle", "restricted"} = {}

\* What is printed, for each form of query and in each format, is what was found.
OutputIsFaithful ==
    RowsAreOwn /\ ConstructIsTemplate /\ DescribedOnce /\ AskFindsMatch /\ EscapesFit
=============================================================================
