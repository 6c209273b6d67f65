------------------------------ MODULE Decimal ------------------------------
(***************************************************************************)
(* Decimal arithmetic of the query engine (src/frontend/decimal.c) and the *)
(* rounding functions built on it (fn_numeric_abs, floor, ceil, round of   *)
(* src/frontend/filter.c).                                                 *)
(*                                                                         *)
(* A decimal is an array of digits, most significant first: two digits     *)
(* that catch overflow (FS_D_OVER_DIGITS), IntDigits of integer part and   *)
(* FracDigits of fraction (20 each in the build), with flags for the sign, *)
(* overflow and syntax errors.  The algorithms are those of the code,      *)
(* digit by digit; the properties compare them with integer arithmetic on  *)
(* the number the digits stand for, in units of the last fractional digit. *)
(*                                                                         *)
(* OddDecimals adds the cases the code does not compute as expected, which *)
(* are described at Expected.                                              *)
(***************************************************************************)
EXTENDS Integers, Sequences, FiniteSetsExt

CONSTANTS
    IntDigits,   \* FS_D_INT_DIGITS
    FracDigits,  \* FS_D_FRAC_DIGITS
    Operands,    \* the numbers tried as first operand, in units of the last digit
    Operands2,   \* the numbers tried as second operand
    OddDecimals  \* kinds of cases outside what the code computes

ASSUME DigitsAssumption == IntDigits \in Nat \ {0} /\ FracDigits \in Nat /\ FracDigits >= 3
ASSUME OperandsAssumption == Operands \subseteq Int /\ Operands2 \subseteq Int
ASSUME OddDecimalsAssumption ==
    OddDecimals \subseteq {"large", "overflow", "last digit", "negative zero", "whole"}

VARIABLES
    dc_case,    \* the operation being tried and its operands
    dc_result   \* what it returned

dcvars == <<dc_case, dc_result>>

OverDigits == 2
Digits == OverDigits + IntDigits + FracDigits
\* Positions count from one: digit[0] and digit[1] of the code are positions 1 and 2.
Positions == 1 .. Digits
\* The position of the first fractional digit.
FirstFraction == OverDigits + IntDigits + 1

NoDigits == [i \in Positions |-> 0]
Zero == [neg |-> FALSE, over |-> FALSE, digit |-> NoDigits]
Overflow == [Zero EXCEPT !.over = TRUE]
\* unit_val, d1_val, d2_val and d2_914_val
UnitVal == [Zero EXCEPT !.digit[Digits] = 1]
D1Val == [Zero EXCEPT !.digit[FirstFraction - 1] = 1]
D2Val == [Zero EXCEPT !.digit[FirstFraction - 1] = 2]
D2914Val == [Zero EXCEPT !.digit[FirstFraction - 1] = 2, !.digit[FirstFraction] = 9,
                         !.digit[FirstFraction + 1] = 1, !.digit[FirstFraction + 2] = 4]

-----------------------------------------------------------------------------
(* Conversions *)

\* from_uint64 and fs_decimal_init_from_int64_offset: the digits of i, the last one
\* `offset` places after the decimal point.
FromInt(i, offset) ==
    LET m == IF i < 0 THEN -i ELSE i
        last == FirstFraction + offset - 1
        Fits(p) == p \in Positions
        \* the digit of m that lands on position p
        At(p) == IF p > last THEN 0 ELSE (m \div 10 ^ (last - p)) % 10
    IN  [neg |-> i < 0,
         over |-> (m # 0 /\ ~Fits(last)) \/ (last > 0 /\ m \div 10 ^ last # 0),
         digit |-> [p \in Positions |-> At(p)]]

\* The number a decimal stands for, in units of its last digit.
Magnitude(d) ==
    LET Sum[p \in 0 .. Digits] == IF p = 0 THEN 0 ELSE 10 * Sum[p - 1] + d.digit[p]
    IN  Sum[Digits]
Value(d) == IF d.neg THEN -Magnitude(d) ELSE Magnitude(d)

\* fs_decimal_to_int64: the integer digits, towards zero.
ToInt(d) ==
    LET Sum[p \in OverDigits .. FirstFraction - 1] ==
            IF p = OverDigits THEN 0 ELSE 10 * Sum[p - 1] + d.digit[p]
    IN  IF d.neg THEN -Sum[FirstFraction - 1] ELSE Sum[FirstFraction - 1]

\* fs_decimal_to_double, in units of the last digit: four blocks counted from one
\* place past the last digit (a padding byte that the initialisers clear), so the
\* first integer digit is left out.
ToDouble(d) ==
    LET Sum[p \in OverDigits + 1 .. Digits] ==
            IF p = OverDigits + 1 THEN 0 ELSE 10 * Sum[p - 1] + d.digit[p]
    IN  IF d.neg THEN -Sum[Digits] ELSE Sum[Digits]

-----------------------------------------------------------------------------
(* Comparison *)

IsZero(a) == a.digit = NoDigits

\* fs_decimal_equal: the sign does not matter for zero.
Equal(a, b) == a.over = b.over /\ a.digit = b.digit /\ (IsZero(a) \/ a.neg = b.neg)

\* a's digits come before b's: the first position where they differ decides.
DigitsBefore(a, b) ==
    \E p \in Positions : /\ a.digit[p] < b.digit[p]
                         /\ \A r \in 1 .. p - 1 : a.digit[r] = b.digit[r]

\* decimal_less_than and decimal_greater_than, with the answer for equal digits.
LessThan(a, b, def) ==
    IF a.neg # b.neg THEN a.neg
    ELSE \/ IF a.neg THEN DigitsBefore(b, a) ELSE DigitsBefore(a, b)
         \/ a.digit = b.digit /\ def
GreaterThan(a, b, def) ==
    IF a.neg # b.neg THEN ~a.neg
    ELSE \/ IF a.neg THEN DigitsBefore(a, b) ELSE DigitsBefore(b, a)
         \/ a.digit = b.digit /\ def

-----------------------------------------------------------------------------
(* Addition *)

\* add_simple and the loop of fs_decimal_add, from the last digit: the first position
\* only takes the carry.
AddDigits(a, b) ==
    LET Column(sum, after) == [carry |-> sum \div 10, digits |-> <<sum % 10>> \o after]
        Onto(p, after) == Column(a[p] + b[p] + after.carry, after.digits)
        Rest[p \in 2 .. Digits + 1] ==
            IF p > Digits THEN [carry |-> 0, digits |-> << >>] ELSE Onto(p, Rest[p + 1])
        All(rest) == <<rest.carry>> \o rest.digits
    IN  All(Rest[2])

\* fs_decimal_radix_complement
RadixComplement(a) == AddDigits([p \in Positions |-> 9 - a[p]], UnitVal.digit)

\* fs_decimal_add: negative operands are added as their complement, and a sum with
\* a 9 in the second overflow digit is the complement of a negative number.
WithoutCarry(sum) == IF sum[1] = 1 THEN [sum EXCEPT ![1] = 0] ELSE sum
FromComplement(sum) ==
    IF sum[2] = 9 THEN [neg |-> TRUE, over |-> FALSE, digit |-> RadixComplement(sum)]
    ELSE [neg |-> FALSE, over |-> FALSE, digit |-> sum]
Add(a, b) ==
    LET Operand(d) == IF d.neg THEN RadixComplement(d.digit) ELSE d.digit
    IN  IF a.over \/ b.over THEN Overflow
        ELSE FromComplement(WithoutCarry(AddDigits(Operand(a), Operand(b))))

Negate(a) == [a EXCEPT !.neg = ~@]
Subtract(a, b) == Add(a, Negate(b))

-----------------------------------------------------------------------------
(* Multiplication and division *)

\* mul_internal: a's digits times one digit, moved to their place; digits that fall
\* outside the array are dropped.
Partial(a, mul, offset) ==
    [p \in Positions |->
        LET from == p + offset - FracDigits + 1
        IN  IF from \in Positions THEN a.digit[from] * mul ELSE 0]

WithPartial(sum, part) ==
    Add([sum EXCEPT !.over = @ \/ part[1] # 0 \/ part[2] # 0], [Zero EXCEPT !.digit = part])

\* fs_decimal_multiply: one partial product for each digit of b but the last; a
\* partial product that reaches the overflow digits marks the sum.
Multiply(a, b) ==
    LET Mul(i) == LET p == Digits - i - OverDigits + 1 IN IF p < 1 THEN 0 ELSE b.digit[p]
        Sum[i \in 0 .. Digits] ==
            IF i = 0 THEN Zero
            ELSE IF Mul(i - 1) = 0 THEN Sum[i - 1]
            ELSE WithPartial(Sum[i - 1], Partial(a, Mul(i - 1), i - 1))
    IN  IF a.over \/ b.over THEN Overflow
        ELSE [Sum[Digits] EXCEPT !.neg = @ \/ (a.neg # b.neg)]

\* decimal_shift: towards the fraction for positive `places`.
Shift(a, places) ==
    [Zero EXCEPT !.digit = [p \in Positions |->
        IF p - places \in Positions THEN a.digit[p - places] ELSE 0]]

\* fs_decimal_normalise: the shift that brings the first digit of a just after the
\* decimal point.
NormalShift(a) == FirstFraction - Min({p \in Positions : a.digit[p] # 0})

\* The rounds of Newton's method that fs_decimal_divide takes at most.
Rounds == 30

\* x after at most i rounds for the reciprocal of norm: they end when x is what the
\* round before gave.
RECURSIVE Newton(_, _, _, _)
Newton(norm, x, last, i) ==
    LET then(next) == IF Equal(next, last) THEN next ELSE Newton(norm, next, next, i - 1)
    IN  IF i = 0 THEN x ELSE then(Multiply(Subtract(D2Val, Multiply(norm, x)), x))

\* fs_decimal_divide, for d other than zero: Newton's method for the reciprocal of
\* the normalised divisor, one unit added, shifted back and multiplied by n.
Divide(n, d) ==
    LET shift == NormalShift(d)
        norm == Shift(d, shift)
        first == IF norm.digit[FirstFraction] >= 5
                 THEN Subtract(D2914Val, Multiply(D2Val, norm)) ELSE D1Val
        q == Multiply(n, Shift(Add(Newton(norm, first, Zero, Rounds), UnitVal), shift))
    IN  [q EXCEPT !.neg = (@ # d.neg)]

-----------------------------------------------------------------------------
(* Rounding: fn_numeric_abs, fn_numeric_floor, fn_numeric_ceil, fn_numeric_round *)

WithoutFraction(d) ==
    [d EXCEPT !.digit = [p \in Positions |-> IF p >= FirstFraction THEN 0 ELSE @[p]]]

Abs(a) == IF LessThan(a, Zero, FALSE) THEN Negate(a) ELSE a
Floor(a) ==
    WithoutFraction(IF LessThan(a, Zero, FALSE) THEN Subtract(a, D1Val) ELSE a)
Ceil(a) ==
    WithoutFraction(IF GreaterThan(a, Zero, FALSE) THEN Add(a, D1Val) ELSE a)

\* Away from zero above a half, and at exactly a half only for positive numbers.
Round(a) ==
    LET positive == GreaterThan(a, Zero, TRUE)
        half == a.digit[FirstFraction]
        more == \E p \in FirstFraction + 1 .. Digits : a.digit[p] > 0
        away == half > 5 \/ (half = 5 /\ (more \/ positive))
    IN  WithoutFraction(IF ~away THEN a
                        ELSE IF positive THEN Add(a, D1Val) ELSE Subtract(a, D1Val))

-----------------------------------------------------------------------------
(* One operation after another *)

Ops == {"add", "subtract", "multiply", "divide", "compare", "round"}

\* The decimal that stands for the number u of units: the digits of a literal
\* (fs_decimal_init_from_str), FracDigits of them after the point.
Units(u) == FromInt(u, FracDigits)
One == 10 ^ FracDigits
Whole(u) == u % One = 0
Largest == 10 ^ (IntDigits + FracDigits)
AbsOf(i) == IF i < 0 THEN -i ELSE i

(***************************************************************************)
(* The cases the code computes as expected; OddDecimals adds               *)
(*   large          sums below -10^IntDigits, which come out positive      *)
(*                  (rounding away from zero adds one);                    *)
(*   overflow       products of 10^IntDigits and more, where digits past   *)
(*                  the array are dropped and only some are reported;      *)
(*   last digit     a second factor with its last digit in use, which      *)
(*                  multiplication ignores;                                *)
(*   negative zero  zero with the sign set, which is less than zero;       *)
(*   whole          floor of a negative whole number and ceil of a         *)
(*                  positive one, which are one too far.                   *)
(***************************************************************************)
Expected(op, x, y) ==
    /\ op \in {"add", "subtract", "round"} /\ "large" \notin OddDecimals =>
            AbsOf(x) + (IF op = "round" THEN One ELSE AbsOf(y)) <= Largest
    /\ op = "multiply" /\ "overflow" \notin OddDecimals =>
            AbsOf(x) * AbsOf(y) < Largest * One
    /\ op = "multiply" /\ "last digit" \notin OddDecimals => y % 10 = 0
    /\ op = "divide" => y # 0 /\ AbsOf(y) >= One /\ AbsOf(x) < Largest
    /\ op = "round" => y = 0
    /\ op = "round" /\ Whole(x) /\ x # 0 => "whole" \in OddDecimals

NoCase == [op |-> "none", x |-> 0, y |-> 0, flip |-> FALSE]

DC_Init == dc_case = NoCase /\ dc_result = [d |-> Zero]

\* One call on literals x and y; flip sets the sign of x's digits the other way, as
\* unary minus does.
Compute(op, x, y, flip) ==
    LET a == IF flip THEN Negate(Units(-x)) ELSE Units(x)
        b == Units(y)
    IN  /\ Expected(op, x, y)
        /\ flip => x # 0 \/ "negative zero" \in OddDecimals
        /\ dc_case' = [op |-> op, x |-> x, y |-> y, flip |-> flip]
        /\ dc_result' =
              CASE op = "add" -> [d |-> Add(a, b)]
                [] op = "subtract" -> [d |-> Subtract(a, b)]
                [] op = "multiply" -> [d |-> Multiply(a, b)]
                [] op = "divide" -> [d |-> Divide(a, b)]
                [] op = "compare" -> [lt |-> LessThan(a, b, FALSE), le |-> LessThan(a, b, TRUE),
                                      gt |-> GreaterThan(a, b, FALSE),
                                      ge |-> GreaterThan(a, b, TRUE), eq |-> Equal(a, b)]
                [] op = "round" -> [abs |-> Abs(a), floor |-> Floor(a), ceil |-> Ceil(a),
                                    round |-> Round(a), int |-> ToInt(a), double |-> ToDouble(a)]

DC_Next ==
    /\ dc_case.op = "none"
    /\ \E op \in Ops, x \in Operands, y \in Operands2, flip \in BOOLEAN : Compute(op, x, y, flip)

-----------------------------------------------------------------------------
(* Properties *)

\* The complement arithmetic of fs_decimal_add and fs_decimal_subtract gives the exact
\* sum and difference for every combination of signs, carries and borrows, and the
\* sign of the result is that of the number.
SumsAreExact ==
    dc_case.op \in {"add", "subtract"} =>
        /\ ~dc_result.d.over
        /\ Value(dc_result.d) = dc_case.x + (IF dc_case.op = "add" THEN dc_case.y ELSE -dc_case.y)

\* A product that fits is exact up to the digits past the last one, of which each
\* partial product of fs_decimal_multiply loses less than nine units (it drops the
\* digits before it carries); it is exact when no digit is lost, and overflow is never
\* reported for it.
ProductsAreExact ==
    dc_case.op = "multiply" =>
        LET exact == dc_case.x * dc_case.y
            error == AbsOf(exact) - Magnitude(dc_result.d) * One
        IN  /\ ~dc_result.d.over
            /\ error >= 0 /\ error < 9 * Digits * One
            /\ exact % One = 0 /\ dc_case.x % 10 ^ (FracDigits \div 2) = 0
                   /\ dc_case.y % 10 ^ (FracDigits - FracDigits \div 2) = 0 => error = 0
            /\ IsZero(dc_result.d) \/ dc_result.d.neg = (exact < 0)

\* Newton's method in fs_decimal_divide has converged when its rounds end: the
\* quotient is within ten units of the last digit for each unit of the dividend (the
\* reciprocal is used without its last digit) and the truncation of one product.
QuotientsAreClose ==
    dc_case.op = "divide" =>
        LET q == AbsOf(Value(dc_result.d))
            n == AbsOf(dc_case.x)  d == AbsOf(dc_case.y)
        IN  /\ ~dc_result.d.over
            /\ AbsOf(q * d - n * One) <= d * ((12 * n) \div One + 9 * Digits)
            /\ IsZero(dc_result.d) \/ dc_result.d.neg = ((dc_case.x < 0) # (dc_case.y < 0))

\* The five comparisons of decimal.c agree with each other and with the numbers.
DecimalsAreOrdered ==
    dc_case.op = "compare" =>
        /\ dc_result.lt = (dc_case.x < dc_case.y) /\ dc_result.gt = (dc_case.x > dc_case.y)
        /\ dc_result.le = (dc_case.x <= dc_case.y) /\ dc_result.ge = (dc_case.x >= dc_case.y)
        /\ dc_result.eq = (dc_case.x = dc_case.y)

\* abs, floor, ceil and round of a decimal are the functions of XPath (round takes a
\* half up, towards positive infinity), and the casts to integer and double keep
\* the number, the cast to integer towards zero.
RoundingIsRight ==
    dc_case.op = "round" =>
        LET x == dc_case.x
            floor == (x \div One) * One
        IN  /\ Value(dc_result.floor) = floor
            /\ Value(dc_result.ceil) = -(((-x) \div One) * One)
            /\ Value(dc_result.round) = ((x + One \div 2) \div One) * One
            /\ Value(dc_result.abs) = AbsOf(x)
            /\ dc_result.int * One = (IF x < 0 THEN -(((-x) \div One) * One) ELSE floor)
            /\ AbsOf(x) < Largest \div 10 => dc_result.double = x

\* The arithmetic on decimals is that of the numbers they stand for.
DecimalsAreExact ==
    /\ SumsAreExact /\ ProductsAreExact /\ QuotientsAreClose
    /\ DecimalsAreOrdered /\ RoundingIsRight
=============================================================================
