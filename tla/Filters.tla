------------------------------ MODULE Filters ------------------------------
(***************************************************************************)
(* Values of FILTER and ORDER BY expressions and the operators on them     *)
(* (src/frontend/filter-datatypes.c, src/frontend/filter.c and             *)
(* fs_order_by_cmp of src/frontend/order.c).                               *)
(*                                                                         *)
(* A value is the code's fs_value: the fields that are valid, an id with   *)
(* its kind, the datatype or language (attr), a lexical form and a number  *)
(* as an integer, a double and a decimal.  Doubles and decimals are        *)
(* integers in tenths here; how decimals compute is the subject of module  *)
(* Decimal.  A lexical form is its rank in strcmp order, and the constants *)
(* say which of them read as integers, doubles, decimals and times.        *)
(*                                                                         *)
(* OddValues adds the values and pairs on which the code's answers are not *)
(* those of the properties; they are described at HasEbv.                  *)
(***************************************************************************)
EXTENDS Integers, Sequences, FiniteSets

CONSTANTS
    Lexicals,      \* lexical forms, by rank
    EmptyLex, LexTrue, LexFalse,
    Negatives,     \* those that start with a minus sign
    AsInteger,     \* the lexical forms strtoll reads to their end, and the integer
    AsDouble,      \* those strtod reads, in tenths
    AsDecimal,     \* those fs_decimal_init_from_str reads, in tenths
    AsTime,        \* those fs_value_datetime_from_string reads, in seconds
    NaN,           \* what AsDouble gives for "NaN"
    StoredTerms,   \* the resources of the store: [rid, attr, lex]
    QueryTerms,    \* literals written in the query: [attr, lex]
    OddValues      \* kinds of odd values and pairs

ASSUME LexicalsAssumption ==
    /\ Lexicals \subseteq Nat \ {0}
    /\ {EmptyLex, LexTrue, LexFalse} \subseteq Lexicals
    /\ \A t \in {AsInteger, AsDouble, AsDecimal, AsTime} : DOMAIN t \subseteq Lexicals
ASSUME OddValuesAssumption ==
    OddValues \subseteq {"no ebv", "derived", "mixed", "nan"}

VARIABLES fl_pair, fl_answers

flvars == <<fl_pair, fl_answers>>

-----------------------------------------------------------------------------
(* Values *)

\* FS_RID_NULL as an id, and the id of a value that has none: zero, which looks like
\* the id of a literal.
NullRid == <<"null", 0>>
ZeroRid == <<"zero", 0>>
FS_IS_BNODE(rid) == rid[1] \in {"bnode", "null"}
FS_IS_URI(rid) == rid[1] = "uri"
FS_IS_URI_BN(rid) == FS_IS_BNODE(rid) \/ FS_IS_URI(rid)
FS_IS_LITERAL(rid) == rid[1] \in {"lit", "zero"}

\* Datatypes and languages: "NULL" is FS_RID_NULL and "empty" is fs_c.empty.
DerivedIntegers == {"int", "long"}
Languages == {"en", "fr"}
Datatypes == {"integer", "double", "float", "decimal", "boolean", "dateTime", "string",
              "other"} \cup DerivedIntegers
LiteralAttr(attr) == attr = "empty" \/ attr \in Languages
NoLex == 0

\* fs_value_blank, fs_value_rid and fs_value_error
Blank == [valid |-> {}, rid |-> ZeroRid, attr |-> "NULL", lex |-> NoLex,
          in |-> 0, fp |-> 0, de |-> 0]
fs_value_rid(r) == [Blank EXCEPT !.rid = r, !.valid = {"rid"}]
ErrorValue == [Blank EXCEPT !.valid = {"error"}]
fs_is_error(a) == "error" \in a.valid

fs_value_plain(l) == [Blank EXCEPT !.attr = "empty", !.lex = l]
fs_value_integer(i) == [Blank EXCEPT !.attr = "integer", !.valid = {"in"}, !.in = i]
fs_value_boolean(b) ==
    [Blank EXCEPT !.attr = "boolean", !.valid = {"in"}, !.in = IF b THEN 1 ELSE 0,
                  !.lex = IF b THEN LexTrue ELSE LexFalse]
fs_value_datetime_from_string(l) ==
    IF l \in DOMAIN AsTime
    THEN [Blank EXCEPT !.attr = "dateTime", !.valid = {"in"}, !.in = AsTime[l], !.lex = l]
    ELSE ErrorValue

IsTrue(a) == ~fs_is_error(a) /\ a.in = 1
IsFalse(a) == ~fs_is_error(a) /\ a.in = 0

-----------------------------------------------------------------------------
(* Casts *)

\* A double or a decimal in tenths as an integer, towards zero.
Truncated(t) == IF t < 0 THEN -((-t) \div 10) ELSE t \div 10

cast_double(a) ==
    CASE "fp" \in a.valid -> a
      [] "fp" \notin a.valid /\ "de" \in a.valid ->
            [a EXCEPT !.valid = @ \cup {"fp"}, !.fp = a.de]
      [] a.valid \cap {"fp", "de"} = {} /\ "in" \in a.valid ->
            [a EXCEPT !.valid = @ \cup {"fp"}, !.fp = 10 * a.in]
      [] a.valid \cap {"fp", "de", "in"} = {} /\ a.lex \in DOMAIN AsDouble ->
            [a EXCEPT !.valid = @ \cup {"fp"}, !.fp = AsDouble[a.lex]]
      [] OTHER -> ErrorValue

cast_decimal(a) ==
    CASE "de" \in a.valid -> a
      [] "de" \notin a.valid /\ "fp" \in a.valid ->
            [a EXCEPT !.valid = @ \cup {"de"}, !.de = a.fp]
      [] a.valid \cap {"fp", "de"} = {} /\ "in" \in a.valid ->
            [a EXCEPT !.valid = @ \cup {"de"}, !.de = 10 * a.in]
      [] a.valid \cap {"fp", "de", "in"} = {} /\ a.lex \in DOMAIN AsDecimal ->
            [a EXCEPT !.valid = @ \cup {"de"}, !.de = AsDecimal[a.lex]]
      [] OTHER -> ErrorValue

\* cast_integer and cast_boolean share their first three cases.
NumberAsInteger(a) ==
    CASE "in" \in a.valid -> a
      [] "in" \notin a.valid /\ "fp" \in a.valid ->
            [a EXCEPT !.valid = @ \cup {"in"}, !.in = Truncated(a.fp)]
      [] OTHER -> [a EXCEPT !.valid = @ \cup {"in"}, !.in = Truncated(a.de)]
cast_integer(a) ==
    IF a.valid \cap {"fp", "de", "in"} # {} THEN NumberAsInteger(a)
    ELSE IF a.lex \in DOMAIN AsInteger
         THEN [a EXCEPT !.valid = @ \cup {"in"}, !.in = AsInteger[a.lex]]
         ELSE ErrorValue
cast_boolean(a) ==
    IF a.valid \cap {"fp", "de", "in"} # {} THEN NumberAsInteger(a)
    ELSE IF a.lex \in {LexTrue, LexFalse}
         THEN [a EXCEPT !.valid = @ \cup {"in"}, !.in = IF a.lex = LexTrue THEN 1 ELSE 0]
         ELSE ErrorValue

\* A time with no lexical form has one filled in; a failed parse keeps the lexical form.
cast_datetime(a) ==
    IF a.lex # NoLex THEN [fs_value_datetime_from_string(a.lex) EXCEPT !.lex = a.lex]
    ELSE IF "in" \in a.valid /\ a.attr = "dateTime" THEN a ELSE ErrorValue

\* The datatype is set even when the cast failed.
fn_cast_intl(v, dt) ==
    LET cast == CASE dt \in {"double", "float"} -> cast_double(v)
                  [] dt \in {"integer", "int"} -> cast_integer(v)
                  [] dt = "decimal" -> cast_decimal(v)
                  [] dt = "dateTime" -> cast_datetime(v)
                  [] dt = "boolean" -> cast_boolean(v)
                  [] OTHER -> v
    IN  [cast EXCEPT !.attr = dt]

\* fs_value_resource: the value of a stored term.  Text that is not of its datatype
\* is kept as text, without a number.
fs_value_resource(r) ==
    LET text == [Blank EXCEPT !.lex = r.lex]
        read == CASE r.attr = "integer" -> fn_cast_intl(text, "integer")
                  [] r.attr \in {"float", "double"} -> fn_cast_intl(text, "double")
                  [] r.attr = "decimal" -> fn_cast_intl(text, "decimal")
                  [] r.attr = "boolean" ->
                        fs_value_boolean(r.lex = LexTrue \/
                                         (r.lex \in DOMAIN AsInteger /\ AsInteger[r.lex] = 1))
                  [] r.attr = "dateTime" -> fs_value_datetime_from_string(r.lex)
                  [] OTHER -> text
        kept == IF fs_is_error(read) THEN text ELSE read
    IN  IF r.rid = NullRid THEN fs_value_rid(NullRid)
        ELSE [kept EXCEPT !.rid = r.rid,
                          !.attr = IF FS_IS_URI_BN(r.rid) THEN "empty" ELSE r.attr,
                          !.valid = @ \cup {"rid"}]

\* literal_to_value for a literal of the query
LiteralValue(t) == fn_cast_intl([fs_value_plain(t.lex) EXCEPT !.attr = t.attr], t.attr)

-----------------------------------------------------------------------------
(* Numbers *)

\* fs_is_numeric; it turns a literal of a type derived from integer into an integer,
\* which Coerced does.
fs_is_numeric(a) ==
    \/ "fp" \in a.valid /\ a.attr \in {"double", "float"}
    \/ "in" \in a.valid /\ a.attr \in {"integer", "boolean"}
    \/ "de" \in a.valid /\ a.attr = "decimal"
    \/ a.attr \in DerivedIntegers /\ a.lex \in DOMAIN AsInteger
Coerced(a) ==
    IF a.attr \in DerivedIntegers /\ fs_is_numeric(a)
    THEN [a EXCEPT !.attr = "integer", !.in = AsInteger[a.lex], !.valid = @ \cup {"in"}]
    ELSE a

\* The wider of two types.
WidestOf(types) ==
    IF "double" \in types THEN "double" ELSE IF "float" \in types THEN "float"
    ELSE IF "decimal" \in types THEN "decimal" ELSE "integer"

\* Mutant: an integer becomes a decimal digit by digit, without its decimal point.
AsTypeUnscaled(a, type) ==
    IF a.attr = type THEN a
    ELSE IF type = "decimal"
    THEN [a EXCEPT !.attr = "decimal", !.de = a.in, !.valid = @ \cup {"de"}]
    ELSE IF type = "integer" THEN [a EXCEPT !.attr = "integer"] ELSE fn_cast_intl(a, type)

\* A number in another type; an integer becomes a decimal exactly.
AsType(a, type) ==
    IF a.attr = type THEN a
    ELSE IF type = "decimal"
    THEN [a EXCEPT !.attr = "decimal", !.de = 10 * a.in, !.valid = @ \cup {"de"}]
    ELSE IF type = "integer" THEN [a EXCEPT !.attr = "integer"] ELSE fn_cast_intl(a, type)

\* fs_value_promote: a in the wider of the types of a and b.
fs_value_promote(a, b) ==
    IF ~fs_is_numeric(a) \/ ~fs_is_numeric(b) THEN ErrorValue
    ELSE IF Coerced(a).attr = Coerced(b).attr THEN Coerced(a)
    ELSE AsType(Coerced(a), WidestOf({Coerced(a).attr, Coerced(b).attr}))

\* The two promotions every numeric operator starts with, and the operator on their
\* results.
AfterA(b, pa, Op(_, _)) == Op(pa, fs_value_promote(b, pa))
Promoted(a, b, Op(_, _)) == AfterA(b, fs_value_promote(a, b), Op)
Computable(pa, pb, types) == pa.attr = pb.attr /\ pa.attr \in types

TenthsProduct(x, y) == IF x * y < 0 THEN -((-(x * y)) \div 10) ELSE (x * y) \div 10

\* fn_minus, fn_numeric_add, fn_numeric_subtract and fn_numeric_multiply
Negated(a) ==
    [(CASE a.attr \in {"double", "float"} -> [a EXCEPT !.fp = -@]
        [] a.attr = "decimal" -> [a EXCEPT !.de = -@]
        [] OTHER -> [a EXCEPT !.in = -@]) EXCEPT !.lex = NoLex]
fn_minus(a) ==
    IF ~fs_is_numeric(a) \/ Coerced(a).attr = "boolean" THEN ErrorValue ELSE Negated(Coerced(a))
Arith(a, b, F(_, _), G(_, _)) ==
    LET of(pa, pb) ==
        IF ~Computable(pa, pb, {"double", "float", "decimal", "integer"}) THEN ErrorValue
        ELSE [Blank EXCEPT
                !.attr = pa.attr,
                !.valid = CASE pa.attr = "integer" -> {"in"} [] pa.attr = "decimal" -> {"de"}
                            [] OTHER -> {"fp"},
                !.in = IF pa.attr = "integer" THEN F(pa.in, pb.in) ELSE 0,
                !.de = IF pa.attr = "decimal" THEN G(pa.de, pb.de) ELSE 0,
                !.fp = IF pa.attr \in {"double", "float"} THEN G(pa.fp, pb.fp) ELSE 0]
    IN  Promoted(a, b, of)
fn_numeric_add(a, b) == Arith(a, b, LAMBDA x, y : x + y,
                                    LAMBDA x, y : IF NaN \in {x, y} THEN NaN ELSE x + y)
fn_numeric_subtract(a, b) == fn_numeric_add(a, fn_minus(b))
fn_numeric_multiply(a, b) == Arith(a, b, LAMBDA x, y : x * y,
                                    LAMBDA x, y : IF NaN \in {x, y} THEN NaN ELSE TenthsProduct(x, y))

\* fn_numeric_divide fails on the decimal zero; what it divides integers into is a
\* decimal.
fn_numeric_divide_fails(a, b) ==
    LET of(pa, pb) ==
            \/ ~Computable(pa, pb, {"double", "float", "decimal", "integer"})
            \/ pa.attr = "integer" /\ pb.in = 0
            \/ pa.attr = "decimal" /\ pb.de = 0
    IN  Promoted(a, b, of)

FpLess(x, y) == NaN \notin {x, y} /\ x < y
FpEqual(x, y) == NaN \notin {x, y} /\ x = y

fn_numeric_equal(a, b) ==
    LET of(pa, pb) ==
        IF ~Computable(pa, pb, {"double", "float", "decimal", "integer", "boolean"})
        THEN ErrorValue
        ELSE fs_value_boolean(CASE pa.attr \in {"double", "float"} -> FpEqual(pa.fp, pb.fp)
                                [] pa.attr = "decimal" -> pa.de = pb.de
                                [] OTHER -> pa.in = pb.in)
    IN  Promoted(a, b, of)
\* There is no case for two booleans.
fn_numeric_less_than(a, b) ==
    LET of(pa, pb) ==
        IF ~Computable(pa, pb, {"double", "float", "decimal", "integer"}) THEN ErrorValue
        ELSE fs_value_boolean(CASE pa.attr \in {"double", "float"} -> FpLess(pa.fp, pb.fp)
                                [] pa.attr = "decimal" -> pa.de < pb.de
                                [] OTHER -> pa.in < pb.in)
    IN  Promoted(a, b, of)
fn_numeric_greater_than(a, b) ==
    LET of(pa, pb) ==
        IF ~Computable(pa, pb, {"double", "float", "decimal", "integer"}) THEN ErrorValue
        ELSE fs_value_boolean(CASE pa.attr \in {"double", "float"} -> FpLess(pb.fp, pa.fp)
                                [] pa.attr = "decimal" -> pa.de > pb.de
                                [] OTHER -> pa.in > pb.in)
    IN  Promoted(a, b, of)

-----------------------------------------------------------------------------
(* Truth: fn_ebv, fn_logical_and, fn_logical_or, fn_not, fn_bound *)

fn_ebv(a) ==
    CASE fs_is_error(a) -> a
      [] ~fs_is_error(a) /\ a.rid = NullRid -> ErrorValue
      [] OTHER ->
          CASE a.attr \in {"boolean", "integer"} -> fs_value_boolean(a.in # 0)
            [] a.attr \in {"double", "float"} -> fs_value_boolean(a.fp # 0)
            [] a.attr = "decimal" -> fs_value_boolean(a.de # 0)
            [] a.attr \in {"string", "empty"} /\ a.lex # NoLex -> fs_value_boolean(a.lex # EmptyLex)
            [] OTHER -> ErrorValue

\* An operand without a truth value counts as false: only errors are passed on.
fn_logical_and(a, b) ==
    LET ea == fn_ebv(a)  eb == fn_ebv(b)
    IN  IF ea.in # 0 /\ fs_is_error(b) THEN b
        ELSE IF eb.in # 0 /\ fs_is_error(a) THEN a
        ELSE IF fs_is_error(a) /\ fs_is_error(b) THEN a
        ELSE fs_value_boolean(ea.in # 0 /\ eb.in # 0)

fn_logical_or(a, b) ==
    LET ea == fn_ebv(a)  eb == fn_ebv(b)
    IN  IF ea.in = 0 /\ fs_is_error(b) THEN b
        ELSE IF eb.in = 0 /\ fs_is_error(a) THEN a
        ELSE IF fs_is_error(a) /\ fs_is_error(b) THEN a
        ELSE fs_value_boolean(ea.in # 0 \/ eb.in # 0)
fn_not(a) ==
    LET ebv == fn_ebv(a)
    IN  IF fs_is_error(a) THEN a
        ELSE IF "rid" \in a.valid /\ a.rid = NullRid THEN ErrorValue
        ELSE IF fs_is_error(ebv) THEN ebv ELSE fs_value_boolean(ebv.in = 0)

-----------------------------------------------------------------------------
(* Comparison *)

\* fs_value_equal: the ids decide when both have one.
fs_value_equal(a, b) ==
    CASE fs_is_error(a) /\ fs_is_error(b) -> TRUE
      [] OTHER ->
          IF "rid" \in a.valid \cap b.valid THEN a.rid = b.rid
          ELSE /\ a.attr = b.attr
               /\ CASE a.attr \in {"double", "float"} -> FpEqual(a.fp, b.fp)
                    [] a.attr = "decimal" -> a.de = b.de
                    [] a.attr \in {"integer", "dateTime", "boolean"} -> a.in = b.in
                    [] OTHER -> NoLex \notin {a.lex, b.lex} /\ a.lex = b.lex

fn_rdfterm_equal(a, b) ==
    IF fs_is_error(a) THEN a ELSE IF fs_is_error(b) THEN b
    ELSE fs_value_boolean(fs_value_equal(a, b))

\* The times are compared as numbers unless both are one second before the epoch, and
\* as text when one of the two is not a time.
BothTimes(a, b) == a.attr = "dateTime" /\ b.attr = "dateTime" /\ (a.in # -1 \/ b.in # -1)
Sign(x, y) == IF x > y THEN 1 ELSE IF x < y THEN -1 ELSE 0
iso8601_compare(x, y) ==
    IF x \in Negatives /\ y \in Negatives THEN Sign(y, x)
    ELSE IF x \in Negatives THEN -1 ELSE IF y \in Negatives THEN 1 ELSE Sign(x, y)
DateCompare(a, b, order) ==
    IF BothTimes(a, b) THEN fs_value_boolean(Sign(a.in, b.in) = order)
    ELSE IF NoLex \notin {a.lex, b.lex}
    THEN fs_value_boolean(iso8601_compare(a.lex, b.lex) = order)
    ELSE ErrorValue
fn_datetime_equal(a, b) == DateCompare(a, b, 0)
fn_datetime_less_than(a, b) == DateCompare(a, b, -1)
fn_datetime_greater_than(a, b) == DateCompare(a, b, 1)

\* fn_compare: text with text, whatever the languages.
fn_compare(a, b) ==
    IF fs_is_error(a) THEN a ELSE IF fs_is_error(b) THEN b
    ELSE IF /\ \/ LiteralAttr(a.attr) /\ LiteralAttr(b.attr)
               \/ a.attr = "string" /\ b.attr = "string"
            /\ NoLex \notin {a.lex, b.lex}
         THEN fs_value_integer(Sign(a.lex, b.lex))
         ELSE ErrorValue

BothNumeric(a, b) == fs_is_numeric(a) /\ fs_is_numeric(b)
Textual(attr) == attr \in {"empty", "string"}

fn_equal(a, b) ==
    LET term == fn_rdfterm_equal(a, b)
    IN  CASE fs_is_error(a) -> a
          [] ~fs_is_error(a) /\ fs_is_error(b) -> b
          [] OTHER ->
              IF IsTrue(term) THEN term
              ELSE IF a.attr = "dateTime" THEN fn_datetime_equal(a, b)
              ELSE IF BothNumeric(a, b) THEN fn_numeric_equal(a, b)
              ELSE fs_value_boolean(/\ FS_IS_LITERAL(a.rid) /\ FS_IS_LITERAL(b.rid)
                                    /\ Textual(a.attr) /\ Textual(b.attr)
                                    /\ NoLex \notin {a.lex, b.lex} /\ a.lex = b.lex)

fn_not_equal(a, b) ==
    CASE fs_is_error(a) -> a
      [] ~fs_is_error(a) /\ fs_is_error(b) -> b
      [] OTHER ->
          IF a.attr = "dateTime" THEN fn_not(fn_datetime_equal(a, b))
          ELSE IF BothNumeric(a, b) THEN fn_not(fn_numeric_equal(a, b))
          ELSE IF Textual(a.attr) /\ Textual(b.attr) THEN fs_value_boolean(a.lex # b.lex)
          \* one of them a literal, the other not
          ELSE IF FS_IS_URI_BN(a.rid) # FS_IS_URI_BN(b.rid) THEN fs_value_boolean(TRUE)
          \* one of them with a language, the other without
          ELSE IF \/ ~FS_IS_URI(a.rid) /\ a.attr \in Languages /\ ~LiteralAttr(b.attr)
                  \/ ~FS_IS_URI(a.rid) /\ ~LiteralAttr(a.attr) /\ b.attr \in Languages
          THEN fs_value_boolean(TRUE)
          ELSE IF a.attr \in Datatypes \/ b.attr \in Datatypes THEN fs_value_boolean(FALSE)
          ELSE fn_not(fn_rdfterm_equal(a, b))

fn_greater_than(a, b) ==
    IF fs_is_error(a) THEN a ELSE IF fs_is_error(b) THEN b
    ELSE IF a.attr = "dateTime" /\ b.attr = "dateTime" THEN fn_datetime_greater_than(a, b)
    ELSE IF BothNumeric(a, b) THEN fn_numeric_greater_than(a, b)
    ELSE IF NoLex \notin {a.lex, b.lex}
    THEN fn_numeric_equal(fn_compare(a, b), fs_value_integer(1))
    ELSE ErrorValue
fn_less_than(a, b) ==
    IF fs_is_error(a) THEN a ELSE IF fs_is_error(b) THEN b
    ELSE IF a.attr = "dateTime" /\ b.attr = "dateTime" THEN fn_datetime_less_than(a, b)
    ELSE IF BothNumeric(a, b) THEN fn_numeric_less_than(a, b)
    ELSE IF NoLex \notin {a.lex, b.lex}
    THEN fn_numeric_equal(fn_compare(a, b), fs_value_integer(-1))
    ELSE ErrorValue

fn_greater_than_equal(a, b) ==
    LET term == fn_rdfterm_equal(a, b)
    IN  IF fs_is_error(a) THEN a ELSE IF fs_is_error(b) THEN b
        ELSE IF FS_IS_URI_BN(a.rid) \/ FS_IS_URI_BN(b.rid) THEN fs_value_boolean(FALSE)
        ELSE IF IsTrue(term) THEN term
        ELSE IF a.attr = "dateTime" /\ b.attr = "dateTime"
        THEN fn_not(fn_datetime_less_than(a, b))
        ELSE IF BothNumeric(a, b)
        THEN fn_logical_or(fn_numeric_greater_than(a, b), fn_numeric_equal(a, b))
        ELSE IF NoLex \notin {a.lex, b.lex}
        THEN fn_not(fn_numeric_equal(fn_compare(a, b), fs_value_integer(-1)))
        ELSE ErrorValue

fn_less_than_equal(a, b) ==
    LET term == fn_rdfterm_equal(a, b)
    IN  IF fs_is_error(a) THEN a ELSE IF fs_is_error(b) THEN b
        ELSE IF FS_IS_URI_BN(a.rid) \/ FS_IS_URI_BN(b.rid) THEN fs_value_boolean(FALSE)
        ELSE IF IsTrue(term) THEN term
        ELSE IF a.attr = "dateTime" /\ b.attr = "dateTime"
        THEN fn_not(fn_datetime_greater_than(a, b))
        ELSE IF BothNumeric(a, b)
        THEN fn_logical_or(fn_numeric_less_than(a, b), fn_numeric_equal(a, b))
        ELSE IF NoLex \notin {a.lex, b.lex}
        THEN fn_not(fn_numeric_equal(fn_compare(a, b), fs_value_integer(1)))
        ELSE ErrorValue

-----------------------------------------------------------------------------
(* ORDER BY *)

\* fs_order_by_cmp: unbound, then blank nodes by id, then URIs by text, then literals;
\* literals that do not compare, by text.
fs_order_by_cmp(va, vb) ==
    LET Has(v) == "rid" \in v.valid
        \* the class of a value, in the order the code tests them
        Class(v) == IF Has(v) /\ v.rid = NullRid THEN 1
                    ELSE IF Has(v) /\ FS_IS_BNODE(v.rid) THEN 2
                    ELSE IF Has(v) /\ FS_IS_URI(v.rid) THEN 3 ELSE 4
        less == fn_less_than(va, vb)
    IN  IF Class(va) # Class(vb) THEN Sign(Class(va), Class(vb))
        ELSE CASE Class(va) = 1 -> 0
               [] Class(va) = 2 -> Sign(va.rid[2], vb.rid[2])
               [] Class(va) = 3 -> Sign(va.lex, vb.lex)
               [] OTHER ->
                    IF ~fs_is_error(fn_equal(va, vb)) /\ fn_equal(va, vb).in # 0 THEN 0
                    ELSE IF fs_is_error(less)
                    THEN IF NoLex \notin {va.lex, vb.lex} THEN Sign(va.lex, vb.lex) ELSE 0
                    ELSE IF less.in # 0 THEN -1 ELSE 1

-----------------------------------------------------------------------------
(* Pairs of values *)

\* What kind of thing a value is to a reader of the query.
Kind(v) ==
    CASE fs_is_error(v) -> "error"
      [] ~fs_is_error(v) /\ v.rid = NullRid -> "unbound"
      [] ~fs_is_error(v) /\ v.rid # NullRid /\ FS_IS_URI_BN(v.rid) -> "resource"
      [] OTHER -> CASE fs_is_numeric(v) /\ v.attr # "boolean" -> "number"
                    [] LiteralAttr(v.attr) \/ v.attr = "string" -> "text"
                    [] v.attr = "dateTime" /\ "in" \in v.valid -> "time"
                    [] v.attr = "boolean" -> "boolean"
                    [] OTHER -> "unknown"

\* The values an expression can meet: terms of the store and of the query, an unbound
\* variable, an error, and what unary minus makes of a number.
Derived(V) == {fn_minus(v) : v \in {w \in V : Kind(w) = "number"}}
Values ==
    LET V == {fs_value_resource(r) : r \in StoredTerms} \cup {LiteralValue(t) : t \in QueryTerms}
        Usual == {v \in V : "fp" \in v.valid /\ v.fp = NaN => "nan" \in OddValues}
    IN  Usual \cup {fs_value_rid(NullRid), ErrorValue}
          \cup (IF "derived" \in OddValues THEN Derived(Usual) ELSE {})

FL_Init == fl_pair = << >> /\ fl_answers = << >>

CompareValues(a, b) ==
    /\ fl_pair' = <<a, b>>
    /\ fl_answers' =
          [and |-> fn_logical_and(a, b), or |-> fn_logical_or(a, b), not |-> fn_not(a),
           eq |-> fn_equal(a, b), ne |-> fn_not_equal(a, b),
           lt |-> fn_less_than(a, b), gt |-> fn_greater_than(a, b),
           le |-> fn_less_than_equal(a, b), ge |-> fn_greater_than_equal(a, b),
           cmp |-> fs_order_by_cmp(a, b), term |-> fn_rdfterm_equal(a, b),
           add |-> fn_numeric_add(a, b), sub |-> fn_numeric_subtract(a, b),
           mul |-> fn_numeric_multiply(a, b), divfails |-> fn_numeric_divide_fails(a, b)]
FL_Next == fl_pair = << >> /\ \E a, b \in Values : CompareValues(a, b)

(***************************************************************************)
(* OddValues adds                                                          *)
(*   no ebv   operands of && and || without a truth value (a URI, an       *)
(*            unbound variable), which count as false instead of an error; *)
(*   derived  the results of unary minus, abs, floor, ceil and round, which*)
(*            keep the id of their operand and so are "the same term";     *)
(*   mixed    sorting literals of different kinds, or of equal text and    *)
(*            different languages, where fs_order_by_cmp is no order;      *)
(*   nan      doubles that are not a number, which compare greater than    *)
(*            every number on either side.                                 *)
(***************************************************************************)
HasEbv(v) == fs_is_error(v) \/ ~fs_is_error(fn_ebv(v)) \/ "no ebv" \in OddValues

\* Literals of one kind, which < is defined on.
Comparable(a, b) ==
    \/ Kind(a) = "number" /\ Kind(b) = "number"
    \/ Kind(a) \in {"text", "time"} /\ Kind(b) = Kind(a) /\ a.attr = b.attr

\* Values that ORDER BY puts in order: resources, unbound variables, and literals of
\* one kind.
Sortable(a, b) ==
    \/ "mixed" \in OddValues
    \/ Comparable(a, b)
    \/ Kind(a) \in {"unbound", "resource"} \/ Kind(b) \in {"unbound", "resource"}

\* The number a value stands for, in tenths.
Tenths(v) == CASE v.attr \in {"double", "float"} -> v.fp [] v.attr = "decimal" -> v.de
               [] OTHER -> 10 * Coerced(v).in

-----------------------------------------------------------------------------
(* Properties *)

\* fn_logical_and, fn_logical_or and fn_not follow the three-valued logic of SPARQL: an
\* error is absorbed exactly when the other operand decides the result.
LogicIsThreeValued ==
    fl_pair # << >> /\ HasEbv(fl_pair[1]) /\ HasEbv(fl_pair[2]) =>
        LET T(i) == IsTrue(fn_ebv(fl_pair[i]))
            F(i) == IsFalse(fn_ebv(fl_pair[i]))
        IN  /\ IsTrue(fl_answers.and) <=> T(1) /\ T(2)
            /\ IsFalse(fl_answers.and) <=> F(1) \/ F(2)
            /\ IsTrue(fl_answers.or) <=> T(1) \/ T(2)
            /\ IsFalse(fl_answers.or) <=> F(1) /\ F(2)
            /\ IsTrue(fl_answers.not) <=> F(1)
            /\ IsFalse(fl_answers.not) <=> T(1)

\* The six comparison operators agree on any two literals of one kind, whatever mix of
\* term equality, promotion and text comparison each goes through: exactly one of <,
\* = and > holds, != is the negation of =, and <= and >= follow.  No pair of values
\* at all is both equal and unequal.
ComparisonsAgree ==
    fl_pair # << >> =>
        LET ans == fl_answers
        IN  /\ ~(IsTrue(ans.eq) /\ IsTrue(ans.ne))
            /\ ~(IsTrue(ans.lt) /\ IsTrue(ans.gt))
            /\ Comparable(fl_pair[1], fl_pair[2]) =>
                  /\ Cardinality({c \in {"lt", "eq", "gt"} : IsTrue(ans[c])}) = 1
                  /\ IsTrue(ans.ne) <=> ~IsTrue(ans.eq)
                  /\ IsTrue(ans.le) <=> IsTrue(ans.lt) \/ IsTrue(ans.eq)
                  /\ IsTrue(ans.ge) <=> IsTrue(ans.gt) \/ IsTrue(ans.eq)

\* fs_order_by_cmp, which fs_query_order passes to qsort and MIN and MAX rely on, is an
\* order: turning the operands round turns the answer round, and it is transitive.
OrderIsTotal ==
    fl_pair # << >> /\ Sortable(fl_pair[1], fl_pair[2]) =>
        /\ fl_answers.cmp = -fs_order_by_cmp(fl_pair[2], fl_pair[1])
        /\ \A c \in Values :
              /\ Sortable(fl_pair[2], c) /\ Sortable(fl_pair[1], c)
              /\ fl_answers.cmp <= 0 /\ fs_order_by_cmp(fl_pair[2], c) <= 0
              => fs_order_by_cmp(fl_pair[1], c) <= 0

\* Arithmetic and comparison of two numbers give the same answer whatever types they
\* have and in whichever order: promotion loses nothing, and integer division fails
\* exactly on zero.
ArithmeticIsExact ==
    fl_pair # << >> /\ Kind(fl_pair[1]) = "number" /\ Kind(fl_pair[2]) = "number" =>
        LET x == Tenths(fl_pair[1])
            y == Tenths(fl_pair[2])
            ans == fl_answers
        IN  /\ \A op \in {"add", "sub", "mul"} :
                  ans[op].attr \in {fl_pair[1].attr, fl_pair[2].attr, "integer"}
            /\ Tenths(ans.add) = x + y
            /\ Tenths(ans.sub) = x - y
            /\ Tenths(ans.mul) = TenthsProduct(x, y)
            /\ IsTrue(ans.lt) = (x < y) /\ IsTrue(ans.eq) = (x = y) /\ IsTrue(ans.gt) = (x > y)
            /\ ans.divfails =>
                  y = 0 /\ {fl_pair[1].attr, fl_pair[2].attr} \cap {"double", "float"} = {}

=============================================================================
