---------------------------- MODULE Expressions -----------------------------
(***************************************************************************)
(* Evaluation of expressions on one row of a result: fs_expression_eval,   *)
(* literal_to_value and apply_constraints of src/frontend/results.c, with  *)
(* the functions of src/frontend/filter.c that test and rebuild terms.     *)
(*                                                                         *)
(* An expression is a tuple that starts with its operator: <<"var", c>>,   *)
(* <<"lit", t>>, <<"and", e, f>>, <<"in", e, <<f, g>>>> and so on.  The    *)
(* operators on values are those of Filters, and the aggregates are in     *)
(* Aggregation.                                                            *)
(*                                                                         *)
(* The second half has the functions on strings, languages and times       *)
(* (src/frontend/filter.c, and fs_time_from_iso8601 and fs_arg_compatible  *)
(* of src/frontend/filter-datatypes.c).  A value there is a sequence of    *)
(* characters with its attr: "empty" for plain text, "string", a language, *)
(* another datatype, or "NULL" for a URI.  Characters in Wide take two     *)
(* bytes in UTF-8, which matters where the code counts bytes.  A time is   *)
(* the fields of an ISO 8601 text: day, hour and minute, and an offset     *)
(* from UTC written with or without a colon.  OddTexts adds the cases the  *)
(* properties do not cover, see OrdinaryText.                              *)
(***************************************************************************)
EXTENDS Filters, SequencesExt

CONSTANTS
    RowsOfTerms,    \* rows: functions from variables to terms of StoredTerms, or Unset
    Atoms,          \* the expressions without operators
    OddExpressions  \* kinds of expressions that are tried too, see Ordinary

ASSUME OddExpressionsAssumption == OddExpressions \subseteq {"in mixed", "in error", "no ebv"}

VARIABLES ex_case, ex_answers
exvars == <<ex_case, ex_answers>>

\* A variable without a value in the row.
Unset == [rid |-> NullRid, attr |-> "NULL", lex |-> NoLex]

-----------------------------------------------------------------------------
(* Tests of a term; a value without an id is a URI exactly when it has no  *)
(* datatype.                                                               *)
fn_bound(a) ==
    IF fs_is_error(a) THEN a ELSE fs_value_boolean("rid" \in a.valid => a.rid # NullRid)
fn_is_iri(a) ==
    IF fs_is_error(a) THEN a
    ELSE fs_value_boolean(IF "rid" \in a.valid THEN FS_IS_URI(a.rid) ELSE a.attr = "NULL")
fn_is_blank(a) ==
    IF fs_is_error(a) THEN a
    ELSE fs_value_boolean("rid" \in a.valid /\ a.rid # NullRid /\ FS_IS_BNODE(a.rid))
fn_is_literal(a) ==
    IF fs_is_error(a) THEN a
    ELSE fs_value_boolean(IF "rid" \in a.valid THEN FS_IS_LITERAL(a.rid) ELSE a.attr # "NULL")

\* The text of a term; a number that has none yet gets the one written for it.
LexOf(a) ==
    IF a.lex # NoLex THEN a.lex
    ELSE IF "in" \in a.valid /\ \E l \in DOMAIN AsInteger : AsInteger[l] = a.in
    THEN CHOOSE l \in DOMAIN AsInteger : AsInteger[l] = a.in ELSE NoLex
fn_str(a) ==
    IF fs_is_error(a) THEN a
    ELSE IF "rid" \in a.valid /\ FS_IS_BNODE(a.rid) THEN ErrorValue
    ELSE fs_value_plain(LexOf(a))

\* STRLANG and STRDT: no URI and no blank node for the text, for the datatype nothing else.
Lettered(a) == ~("rid" \in a.valid /\ FS_IS_URI_BN(a.rid))
StrLang(str, lang) ==
    IF fs_is_error(str) THEN str ELSE IF ~Lettered(str) THEN ErrorValue
    ELSE [fs_value_plain(LexOf(str)) EXCEPT !.attr = lang]
StrDt(str, dt) ==
    IF fs_is_error(str) THEN str ELSE IF ~Lettered(str) THEN ErrorValue
    ELSE [fs_value_plain(LexOf(str)) EXCEPT !.attr = dt]

\* A value that COALESCE takes.
Given(a) == ~fs_is_error(a) /\ ~("rid" \in a.valid /\ a.rid = NullRid)

Coalesce(values) ==
    IF \A i \in DOMAIN values : ~Given(values[i]) THEN ErrorValue
    ELSE values[CHOOSE i \in DOMAIN values : Given(values[i]) /\ \A j \in 1..(i - 1) : ~Given(values[j])]

\* IN and NOT IN compare with fs_value_equal.
In(comp, values, found) ==
    fs_value_boolean(IF \E i \in DOMAIN values : fs_value_equal(comp, values[i]) THEN found ELSE ~found)

-----------------------------------------------------------------------------
\* literal_to_value: a blank node in an expression is an error, a variable whose column
\* is shorter than the row is unbound.
literal_to_value(row, l) ==
    IF l[1] = "var" THEN fs_value_resource(row[l[2]])
    ELSE IF l[1] = "blank" THEN ErrorValue ELSE LiteralValue(l[2])

\* fs_expression_eval: every operand is evaluated before the operator looks at it, but
\* for the two branches of IF, and COALESCE and IN stop at the first that decides.
RECURSIVE fs_expression_eval(_, _)
fs_expression_eval(row, e) ==
    LET a == fs_expression_eval(row, e[2])
        b == fs_expression_eval(row, e[3])
        List(s) == [i \in DOMAIN s |-> fs_expression_eval(row, s[i])]
        cond == fn_ebv(a)
    IN  CASE e[1] \in {"var", "lit", "blank"} -> literal_to_value(row, e)
          [] e[1] = "and" -> fn_logical_and(a, b)
          [] e[1] = "or" -> fn_logical_or(a, b)
          [] e[1] = "not" -> fn_not(a)
          [] e[1] = "=" -> fn_equal(a, b)
          [] e[1] = "!=" -> fn_not_equal(a, b)
          [] e[1] = "<" -> fn_less_than(a, b)
          [] e[1] = ">" -> fn_greater_than(a, b)
          [] e[1] = "<=" -> fn_less_than_equal(a, b)
          [] e[1] = ">=" -> fn_greater_than_equal(a, b)
          [] e[1] = "minus" -> fn_minus(a)
          [] e[1] = "+" -> fn_numeric_add(a, b)
          [] e[1] = "-" -> fn_numeric_subtract(a, b)
          [] e[1] = "*" -> fn_numeric_multiply(a, b)
          [] e[1] = "sameTerm" -> fn_rdfterm_equal(a, b)
          [] e[1] = "bound" -> fn_bound(a)
          [] e[1] = "isIRI" -> fn_is_iri(a)
          [] e[1] = "isBlank" -> fn_is_blank(a)
          [] e[1] = "isLiteral" -> fn_is_literal(a)
          [] e[1] = "isNumeric" -> fs_value_boolean(fs_is_numeric(a))
          [] e[1] = "str" -> fn_str(a)
          [] e[1] = "strlang" -> StrLang(a, e[3])
          [] e[1] = "strdt" -> StrDt(a, e[3])
          [] e[1] = "in" -> In(a, List(e[3]), TRUE)
          [] e[1] = "not in" -> In(a, List(e[3]), FALSE)
          [] e[1] = "coalesce" -> Coalesce(List(e[2]))
          [] e[1] = "if" -> IF fs_is_error(cond) THEN cond
                            ELSE IF cond.in # 0 THEN b ELSE fs_expression_eval(row, e[4])
          [] OTHER -> ErrorValue

\* A FILTER lets a row pass when its value is true; an error does not.
Lets(row, e) == IsTrue(fn_ebv(fs_expression_eval(row, e)))

\* apply_constraints: constraints[b] are those of block b - 1.
apply_constraints(row, constraints) ==
    \A b \in DOMAIN constraints : \A i \in DOMAIN constraints[b] : Lets(row, constraints[b][i])

-----------------------------------------------------------------------------
(* Expressions of one operator, on which the laws are tried. *)
Plain == Atoms \cup {<<"not", e>> : e \in Atoms} \cup {<<"bound", e>> : e \in Atoms}
           \cup {<<"=", e, f>> : e, f \in Atoms} \cup {<<"+", e, f>> : e, f \in Atoms}

Seconds == Atoms \cup {<<"not", e>> : e \in Atoms} \cup {<<"<", e, f>> : e, f \in Atoms}

EX_Init == ex_case = << >> /\ ex_answers = << >>

Fetched(row) == ex_case = << >> /\ ex_case' = <<row>> /\ ex_answers' = ex_answers

\* What is asked of a row: expressions to evaluate, and constraints to apply.
Questions(e, f) ==
    [e |-> e, f |-> f,
     notand |-> <<"not", <<"and", e, f>>>>, ornot |-> <<"or", <<"not", e>>, <<"not", f>>>>,
     ifbound |-> <<"if", <<"bound", e>>, e, f>>, coalesce |-> <<"coalesce", <<e, f>>>>,
     in |-> <<"in", e, <<f>>>>, notin |-> <<"not in", e, <<f>>>>,
     eq |-> <<"=", e, f>>, same |-> <<"sameTerm", e, f>>,
     isIRI |-> <<"isIRI", e>>, isBlank |-> <<"isBlank", e>>, isLiteral |-> <<"isLiteral", e>>,
     numeric |-> <<"isNumeric", e>>, str |-> <<"str", e>>,
     tagged |-> <<"strlang", <<"str", e>>, "en">>, typed |-> <<"strdt", <<"str", e>>, "string">>]
Constraints(e, f) ==
    [split |-> <<<<e, f>>>>, blocks |-> <<<<f>>, <<>>, <<e>>>>, joint |-> <<<<<<"and", e, f>>>>>>]

Evaluate(row, e, f) ==
    /\ ex_case' = <<row, e, f>>
    /\ ex_answers' =
          [x \in DOMAIN Questions(e, f) |-> fs_expression_eval(row, Questions(e, f)[x])]
          @@ [x \in DOMAIN Constraints(e, f) |-> apply_constraints(row, Constraints(e, f)[x])]

EX_Next ==
    \/ \E row \in RowsOfTerms : Fetched(row)
    \/ Len(ex_case) = 1 /\ \E e \in Plain, f \in Seconds : Evaluate(ex_case[1], e, f)

(***************************************************************************)
(* OddExpressions adds, to what the laws are asked of,                     *)
(*   in mixed  values of IN that are equal without being the same term: a  *)
(*             number of another type, a plain literal and a string;       *)
(*   in error  values of IN that are errors, which are passed over;        *)
(*   no ebv    operands without a truth value under a negation.            *)
(***************************************************************************)
Ordinary(a, b) ==
    /\ "in mixed" \in OddExpressions \/ a.attr = b.attr
    /\ "in error" \in OddExpressions \/ ~(fs_is_error(a) \/ fs_is_error(b))
Decided(a) == fs_is_error(a) \/ ~fs_is_error(fn_ebv(a)) \/ "no ebv" \in OddExpressions

-----------------------------------------------------------------------------
(* Properties *)

\* Conditions can be written as one FILTER or as several, in one block or in nested
\* ones and in any order: apply_constraints keeps a row exactly when the conjunction
\* is true, errors included; and && and || are dual under !.
FiltersSplit ==
    ex_answers # << >> =>
        LET ans == ex_answers
        IN  /\ ans.split = ans.joint
            /\ ans.blocks = ans.joint
            /\ Decided(ans.e) /\ Decided(ans.f) =>
                  /\ IsTrue(ans.notand) <=> IsTrue(ans.ornot)
                  /\ IsFalse(ans.notand) <=> IsFalse(ans.ornot)

\* The two ways to give a default agree, COALESCE(e, f) and IF(BOUND(e), e, f), unless e
\* fails: then COALESCE gives f, if that has a value, and IF fails.
DefaultsAgree ==
    ex_answers # << >> =>
        LET ans == ex_answers
        IN  IF fs_is_error(ans.e)
            THEN fs_is_error(ans.ifbound) /\ (Given(ans.f) => ans.coalesce = ans.f)
            ELSE Given(ans.ifbound) => ans.coalesce = ans.ifbound

\* IN is = with one of the values, NOT IN is its negation, and the same term is always
\* equal: three comparisons that go through different functions.
MembershipIsEquality ==
    ex_answers # << >> /\ Ordinary(ex_answers.e, ex_answers.f) =>
        LET ans == ex_answers
        IN  /\ IsTrue(ans.in) <=> IsTrue(ans.eq)
            /\ IsTrue(ans.notin) <=> ~IsTrue(ans.in)
            /\ IsTrue(ans.same) => IsTrue(ans.eq)

\* Every value that is bound is exactly one of URI, blank node and literal, only literals
\* are numeric, and STR, STRLANG and STRDT make of a term of the row literals of the
\* same text.
KindsPartition ==
    ex_answers # << >> /\ Given(ex_answers.e) =>
        LET ans == ex_answers
            kinds == {k \in {"isIRI", "isBlank", "isLiteral"} : IsTrue(ans[k])}
        IN  /\ Cardinality(kinds) = 1
            /\ IsTrue(ans.numeric) => kinds = {"isLiteral"}
            /\ kinds = {"isBlank"} <=> fs_is_error(ans.str)
            /\ ~fs_is_error(ans.str) =>
                  /\ ans.tagged.lex = ans.str.lex /\ ans.typed.lex = ans.str.lex
                  /\ ans.e.lex # NoLex => ans.str.lex = ans.e.lex
-----------------------------------------------------------------------------
(* Functions on texts and times *)

CONSTANTS
    Chars,      \* characters of the strings tried
    Wide,       \* those of more than one byte
    StarChar,   \* the character that stands for every language
    MaxText,    \* length of the strings tried
    Days, Hours, Minutes, OffsetHours, OffsetMinutes,  \* fields of the times tried
    OddTexts

ASSUME TextsAssumption ==
    /\ Wide \subseteq Chars /\ MaxText \in Nat
    /\ OddTexts \subseteq {"start", "wide", "half hour", "offset"}

VARIABLES tf_call, tf_answer

tfvars == <<tf_call, tf_answer>>

FunctionError == [error |-> TRUE]
TextResult(attr, s) == [error |-> FALSE, attr |-> attr, s |-> s]
Answer(b) == [error |-> FALSE, b |-> b]

-----------------------------------------------------------------------------
(* Strings *)

TagLanguages == {"en", "fr"}
IsTag(attr) == attr = "empty" \/ attr \in TagLanguages

fs_is_plain_or_string(v) == v.attr \in {"empty", "string"}

\* fs_arg_compatible: FS_IS_LITERAL of an attr is true for plain text and languages.
fs_arg_compatible(a, b) ==
    \/ fs_is_plain_or_string(a) /\ fs_is_plain_or_string(b)
    \/ a.attr = b.attr /\ IsTag(a.attr)
    \/ IsTag(a.attr) /\ fs_is_plain_or_string(b)

\* The first place where n occurs in s (strstr), or zero.
Position(s, n) ==
    LET places == {i \in 1 .. Len(s) + 1 : IsPrefix(n, SubSeq(s, i, Len(s)))}
    IN  IF places = {} THEN 0 ELSE CHOOSE i \in places : \A j \in places : i <= j

fn_strstarts(a, b) ==
    IF ~fs_arg_compatible(a, b) THEN FunctionError ELSE Answer(IsPrefix(b.s, a.s))
\* The comparison starts at the difference of the lengths.
fn_strends(a, b) ==
    IF ~fs_arg_compatible(a, b) THEN FunctionError
    ELSE Answer(Len(b.s) <= Len(a.s) /\ SubSeq(a.s, Len(a.s) - Len(b.s) + 1, Len(a.s)) = b.s)
fn_contains(a, b) ==
    IF ~fs_arg_compatible(a, b) THEN FunctionError ELSE Answer(Position(a.s, b.s) # 0)
fn_strbefore(a, b) ==
    IF ~fs_arg_compatible(a, b) THEN FunctionError
    ELSE TextResult(a.attr, IF Position(a.s, b.s) = 0 THEN << >>
                            ELSE SubSeq(a.s, 1, Position(a.s, b.s) - 1))

fn_strafter(a, b) ==
    IF ~fs_arg_compatible(a, b) THEN FunctionError
    ELSE TextResult(a.attr, IF Position(a.s, b.s) = 0 THEN << >>
                            ELSE SubSeq(a.s, Position(a.s, b.s) + Len(b.s), Len(a.s)))

\* STRLEN counts bytes.
Bytes(s) == Len(s) + Cardinality({i \in DOMAIN s : s[i] \in Wide})

\* fn_substring: a start before the first character is moved to it, and the length
\* stays what it was.
fn_substring(v, start, length) ==
    LET first == IF start < 1 THEN 1 ELSE start
        left == Len(v.s) - first + 1
        taken == IF left > length THEN length ELSE left
    IN  IF ~fs_is_plain_or_string(v) THEN FunctionError
        ELSE IF first > Len(v.s) \/ length <= 0 THEN TextResult(v.attr, << >>)
        ELSE TextResult(v.attr, SubSeq(v.s, first, first + taken - 1))

\* fn_lang_matches: "*" matches every language but none, and otherwise the range is a
\* prefix of the language, of which "" is never one.
fn_lang_matches(lang, range) ==
    IF lang = << >> THEN FALSE
    ELSE IF range = <<StarChar>> THEN TRUE ELSE IsPrefix(range, lang)

\* fn_lang and fn_datatype: none for resources; the datatype of plain text is string
\* and a literal with a language has none.
fn_lang(v) == IF v.attr = "NULL" THEN "error"
              ELSE IF v.attr \in TagLanguages THEN v.attr ELSE "none"
fn_datatype(v) == IF v.attr = "NULL" \/ v.attr \in TagLanguages THEN "error"
                  ELSE IF v.attr = "empty" THEN "string" ELSE v.attr

-----------------------------------------------------------------------------
(* Times *)

\* fs_time_from_iso8601: the seconds since day zero.  The hours of the offset are
\* multiplied by sixty before the minutes are looked for: with a colon the minutes
\* are added as seconds, without one the digits are split after the multiplication.
fs_time_from_iso8601(t) ==
    LET local == 86400 * t.day + 3600 * t.hour + 60 * t.minute
        val == 60 * (IF t.colon THEN t.oh ELSE 100 * t.oh + t.om)
        offset == IF t.colon THEN 60 * val + t.om ELSE 60 * (val \div 100) + (val % 100)
    IN  local + (IF t.sign = "+" THEN -offset ELSE offset)

\* g_time_val_from_iso8601, external: the instant the text means.
InstantOf(t) ==
    86400 * t.day + 3600 * t.hour + 60 * t.minute
        - (IF t.sign = "+" THEN 1 ELSE -1) * (3600 * t.oh + 60 * t.om)

\* fn_day reads the text (date_from_iso8601), fn_hours and fn_minutes the instant.
fn_day(t) == t.day
fn_hours(t) == (InstantOf(t) \div 3600) % 24
fn_minutes(t) == (InstantOf(t) \div 60) % 60

-----------------------------------------------------------------------------
(* Calls *)

Texts == UNION {[1 .. n -> Chars] : n \in 0 .. MaxText}
TextLiterals == [attr : {"NULL", "empty", "string", "en", "fr", "other"}, s : Texts]
TimeTexts == [day : Days, hour : Hours, minute : Minutes, sign : {"+", "-"},
              oh : OffsetHours, om : OffsetMinutes, colon : BOOLEAN]

(***************************************************************************)
(* The calls whose answers are those of the properties; OddTexts adds      *)
(*   start      SUBSTR from before the first character, where the length   *)
(*              is not shortened;                                          *)
(*   wide       characters of several bytes, which STRLEN counts and       *)
(*              SUBSTR does not;                                           *)
(*   half hour  offsets that are not whole hours, which are misread;       *)
(*   offset     the day of a time that is not in UTC, which is the local   *)
(*              day while the hour is that of UTC.                         *)
(***************************************************************************)
OrdinaryText(v, start) ==
    /\ start >= 1 \/ "start" \in OddTexts
    /\ ToSet(v.s) \cap Wide = {} \/ "wide" \in OddTexts
OrdinaryTime(t) == t.om = 0 \/ "half hour" \in OddTexts

TF_Init == tf_call = [f |-> "none"] /\ tf_answer = << >>

CallText(a, b) ==
    /\ tf_call' = [f |-> "text", a |-> a, b |-> b]
    /\ tf_answer' = [starts |-> fn_strstarts(a, b), ends |-> fn_strends(a, b),
                     contains |-> fn_contains(a, b), before |-> fn_strbefore(a, b),
                     after |-> fn_strafter(a, b), lang |-> fn_lang(a),
                     datatype |-> fn_datatype(a), matches |-> fn_lang_matches(a.s, b.s)]
CallSubstring(v, start, length) ==
    /\ OrdinaryText(v, start)
    /\ tf_call' = [f |-> "substring", v |-> v, start |-> start, length |-> length]
    /\ tf_answer' = [sub |-> fn_substring(v, start, length), bytes |-> Bytes(v.s)]
CallTime(t, u) ==
    /\ OrdinaryTime(t) /\ OrdinaryTime(u)
    /\ tf_call' = [f |-> "time", t |-> t, u |-> u]
    /\ tf_answer' = [t |-> fs_time_from_iso8601(t), u |-> fs_time_from_iso8601(u),
                     day |-> fn_day(t), hours |-> fn_hours(t), minutes |-> fn_minutes(t)]
TF_Next ==
    /\ tf_call.f = "none"
    /\ \/ \E a, b \in TextLiterals : CallText(a, b)
       \/ \E v \in TextLiterals, start, length \in 0 .. MaxText + 1 :
            CallSubstring(v, start, length)
       \/ \E t, u \in TimeTexts : CallTime(t, u)

\* The characters of s at the places from start to start + length - 1.
Slice(s, start, length) ==
    LET from == IF start < 1 THEN 1 ELSE start
        to == IF start + length - 1 > Len(s) THEN Len(s) ELSE start + length - 1
    IN  [i \in 1 .. (IF to < from THEN 0 ELSE to - from + 1) |-> s[from + i - 1]]

-----------------------------------------------------------------------------
(* Properties *)

\* The string functions agree with one another: what STRBEFORE and STRAFTER return
\* around the text looked for is the whole first argument, in its language, whenever
\* CONTAINS says it is there; STRSTARTS is the case where nothing is before it, and a
\* text that STRENDS finds is contained.  A value has a datatype or a language tag,
\* never both, and a range that a language matches matches no text without one.
TextPartsAgree ==
    tf_call.f = "text" =>
        LET a == tf_call.a  b == tf_call.b  ans == tf_answer
        IN  /\ ans.contains.error = ans.before.error /\ ans.contains.error = ans.after.error
            /\ ~ans.contains.error =>
                  /\ ans.contains.b => ans.before.s \o b.s \o ans.after.s = a.s
                  /\ ~ans.contains.b => ans.before.s = << >> /\ ans.after.s = << >>
                  /\ ans.starts.b <=> ans.contains.b /\ ans.before.s = << >>
                  /\ ans.ends.b => ans.contains.b
                  /\ ans.before.attr = a.attr /\ ans.after.attr = a.attr
            /\ ~(ans.lang \in TagLanguages /\ ans.datatype # "error")
            /\ ans.matches => a.s # << >>

\* SUBSTR takes the characters from start to start + length - 1, those that exist, and
\* counts places the way STRLEN counts lengths: the one at place STRLEN is the last.
SubstringIsSlice ==
    tf_call.f = "substring" /\ ~tf_answer.sub.error =>
        LET s == tf_call.v.s
        IN  /\ tf_answer.sub.s = Slice(s, tf_call.start, tf_call.length)
            /\ tf_call.start = tf_answer.bytes /\ tf_call.length = 1 /\ s # << >> =>
                  tf_answer.sub.s = <<Last(s)>>

\* Times in different offsets are ordered by the instants they mean: what
\* fs_time_from_iso8601 computes for two texts compares as the instants do, and the
\* parts of a time in UTC are those of one instant.
TimesAreInstants ==
    tf_call.f = "time" =>
        /\ tf_answer.t < tf_answer.u <=> InstantOf(tf_call.t) < InstantOf(tf_call.u)
        /\ tf_answer.t = tf_answer.u <=> InstantOf(tf_call.t) = InstantOf(tf_call.u)
        /\ (tf_call.t.oh = 0 /\ tf_call.t.om = 0) \/ "offset" \in OddTexts =>
              86400 * tf_answer.day + 3600 * tf_answer.hours + 60 * tf_answer.minutes
                  = InstantOf(tf_call.t)
=============================================================================
