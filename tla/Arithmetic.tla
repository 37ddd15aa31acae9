----------------------------- MODULE Arithmetic -----------------------------
(***************************************************************************)
(* One operation of an expression on two numbers, as calcul of expr.c      *)
(* hands it to strmath.c, and what the answer must be by the arithmetic of *)
(* the integers.                                                           *)
(***************************************************************************)
EXTENDS Decimal
CONSTANTS
    Lefts, Rights,  \* the numbers on either side, as getdescr makes them
    Decimals,       \* the numbers of decimals TRUNC is asked for
    Formats,        \* the arguments of FORMAT: before, after, expp, expt
    MaxPower,       \* bound: the powers tried
    Widest,         \* bound: digits before the point of a formatted number
    Shifts          \* powers of ten by which a printed number is larger

VARIABLES
    left, right,    \* the operands
    op,             \* the operation done, "none" before
    answer          \* what it gave

vars == <<left, right, op, answer>>

Init ==
    /\ left \in Lefts
    /\ right \in Rights
    /\ op = "none"
    /\ answer = Zero

Gives(name, value) ==
    /\ op = "none"
    /\ op' = name
    /\ answer' = value
    /\ UNCHANGED <<left, right>>

Never == [error |-> "does not return"]
Refusal == [error |-> "whole number required"]
Opposite(d) == [d EXCEPT !.neg = ~@]

\* An operation on the left operand alone is done once for all the right ones.
Alone == right = Zero

Add == Gives("add", calcul(string_add2(left, right), FALSE))
\* a - b is an addition too, after b was given the other sign.
Subtract == Gives("subtract", calcul(string_add2(left, Opposite(right)), FALSE))
Multiply == Gives("multiply", calcul(string_mul2(left, right), FALSE))
Divide ==
    /\ ~IsPlainZero(right)
    /\ Gives("divide", calcul(string_div2(left, right, "normal"), TRUE))
\* a % b and a // b; Refusal is error 26.11 or 26.12.
Integral ==
    /\ ~IsPlainZero(right)
    /\ Gives("integral",
             IF Refused(left, right) THEN Refusal
             ELSE [q |-> calcul(string_div2(left, right, "integer"), TRUE),
                   r |-> calcul(string_div2(left, right, "remainder"), TRUE)])
Compare == \E fuzz \in 0..(Digits - 1) :
    Gives("compare", [fuzz |-> fuzz, sign |-> string_test(left, right, fuzz)])
Step == /\ Alone
        /\ Gives("step", string_incr(left))
\* The right operand, when it is a whole number, as the power.  1 is divided by
\* the power when it is negative, and for a 0 the division never ends.
Exponent == right.m * 10^(right.exp - right.size)
Power ==
    /\ right.exp \in right.size..2
    /\ Exponent <= MaxPower
    /\ Gives("power", IF right.neg /\ left.m = 0 THEN Never
                      ELSE calcul(string_pow(left, IF right.neg THEN -Exponent ELSE Exponent),
                                  TRUE))
\* The number becomes a string, and the string is read as a number again.
Write == \E shift \in Shifts :
    LET d == calcul([left EXCEPT !.exp = @ + shift], FALSE)
    IN  /\ Alone
        /\ Gives("print", [number |-> d, text |-> str_norm(d)])
Truncate == \E deci \in Decimals :
    Alone /\ Gives("truncate", [deci |-> deci, text |-> str_trunc(left, deci)])

Format == \E shift \in Shifts, a \in Formats :
    LET d == [left EXCEPT !.exp = @ + shift]
    IN  /\ Alone /\ (left.m # 0 \/ shift = 0) /\ d.exp <= Widest
        /\ Gives("format", [number |-> d, args |-> a,
                            text |-> str_format(d, a[1], a[2], a[3], a[4])])

Next == \/ Add \/ Subtract \/ Multiply \/ Divide \/ Integral \/ Compare
        \/ Step \/ Power \/ Write \/ Truncate \/ Format

Spec == Init /\ [][Next]_vars

----------------------------------------------------------------------------
(* The arithmetic the answers are held against: a number as an integer     *)
(* count of units of 10^place.                                             *)

Place(d) == d.exp - d.size
Units(d, place) ==
    (IF d.neg THEN -d.m ELSE d.m) * 10^(Place(d) - place)
Size(n) == IF n < 0 THEN -n ELSE n
SignOf(n) == IF n < 0 THEN -1 ELSE IF n > 0 THEN 1 ELSE 0
MinOf(S) == FirstOf(S)
MaxOf(S) == -FirstOf({-k : k \in S})
\* No LOSTDIGITS condition is raised for d at n digits.
Fits(d, n) == ~LosesDigits(d, n)

\* A sum is exact when no digit of an operand or of the sum lies beyond the
\* DIGITS places from the first one; otherwise it is wrong by less than 0.7 of
\* the last place.  It never has the wrong sign, and a + b is b + a; the step of
\* a DO loop, which counts on the digits themselves, is the addition of 1.
\* string_add2: one guard digit of each operand, the cut before the strip;
\* string_incr.
SumRight ==
    op \in {"add", "subtract", "step"} =>
    LET addend == CASE op = "add" -> right
                    [] op = "subtract" -> Opposite(right)
                    [] op = "step" -> One
        numbers == {d \in {left, addend, answer} : d.m # 0} \cup {Zero}
        top == MaxOf({d.exp : d \in numbers})
        place == MinOf({Place(d) : d \in numbers} \cup {top - Digits - 1})
        unit == 10^(top - Digits - place)
        exact == Units(left, place) + Units(addend, place)
        given == Units(answer, place)
    IN  /\ 10 * Size(given - exact) <= 7 * unit
        /\ SignOf(given) \in {0, SignOf(exact)}
        /\ (\A d \in numbers : Units(d, place) % unit = 0) => given = exact
        /\ str_strip(answer) = calcul(string_add2(addend, left), FALSE)

\* A product that needs no more than DIGITS digits is exact; another one is
\* wrong by at most 0.55 of its last digit when the operands raise no
\* LOSTDIGITS, because it is rounded twice.  A power of so few digits is exact as
\* well, whatever was squared and stripped on the way.  string_mul2, descr_round,
\* the second rounding in calcul, string_pow.
ProductRight ==
    /\ op = "multiply" =>
         LET place == Place(left) + Place(right)
             low == MinOf({place, answer.exp - Digits})
             ulp == 10^(answer.exp - Digits - low)
             exact == left.m * right.m * 10^(place - low)
             error == Size(answer.m * 10^(Place(answer) - low) - exact)
         IN  IF left.m = 0 \/ right.m = 0 THEN answer = Zero
             ELSE /\ answer.neg = (left.neg # right.neg)
                  /\ error <= 3 * ulp
                  /\ Fits(left, Digits) /\ Fits(right, Digits) =>
                        /\ 100 * error <= 55 * ulp
                        /\ exact % ulp = 0 => error = 0
    /\ op = "power" /\ ~right.neg /\ Width(left.m) * Exponent <= 9 =>
         LET exact == IF Exponent = 0 THEN 1 ELSE left.m ^ Exponent
             low == MinOf({Place(answer), Exponent * Place(left)})
         IN  exact < 10^Digits =>
                /\ answer.m * 10^(Place(answer) - low) = exact * 10^(Exponent * Place(left) - low)
                /\ answer.neg => left.neg /\ Exponent % 2 = 1

\* Sums, products and powers.
RoundedRight == SumRight /\ ProductRight

\* A quotient is the nearest number of DIGITS digits, the half rounded up, when
\* the operands raise no LOSTDIGITS; string_div2 makes one digit more.
QuotientRight ==
    op = "divide" =>
    IF left.m = 0 THEN answer = Zero
    ELSE LET low == MinOf({Place(left), Place(answer) + Place(right),
                           answer.exp - Digits + Place(right)})
             product == answer.m * right.m * 10^(Place(answer) + Place(right) - low)
             ulp == right.m * 10^(answer.exp - Digits + Place(right) - low)
             error == product - left.m * 10^(Place(left) - low)
         IN  /\ answer.neg = (left.neg # right.neg)
             /\ Fits(left, Digits) /\ Fits(right, Digits)
                  => /\ 2 * error <= ulp
                     /\ -2 * error < ulp
             /\ Size(error) <= 3 * ulp

\* a % b and a // b are refused exactly when the whole part of a / b has more
\* than DIGITS digits; otherwise a = (a % b) * b + a // b, the remainder is
\* smaller than b and has the sign of a.  The check of string_div2 that
\* compares the rest with the divisor decides between the two.
IntegralRight ==
    op = "integral" /\ Fits(left, Digits) /\ Fits(right, Digits) =>
    LET low == MinOf({Place(left), Place(right)})
        a == Units(left, low)
        b == Units(right, low)
    IN  IF answer = Refusal THEN Size(a) \div Size(b) >= 10^Digits
        ELSE LET q == Units(answer.q, MinOf({0, Place(answer.q)}))
                 place == MinOf({low, Place(answer.r)})
                 r == Units(answer.r, place)
             IN  /\ Size(a) \div Size(b) < 10^Digits
                 /\ answer.q.exp >= answer.q.size
                 /\ Units(left, place) = q * Units(right, place) + r
                 /\ Size(r) < Size(Units(right, place))
                 /\ SignOf(r) \in {0, SignOf(a)}

\* Whatever string_div2 is asked for.
DivisionRight == QuotientRight /\ IntegralRight

\* A comparison is right about numbers that differ by a unit of the place
\* DIGITS - FUZZ, and calls numbers equal only when they differ by less.  A 0
\* with a sign is left out: the minus in front of a 0 makes it less than 0.
CompareRight ==
    (op = "compare" /\ \A d \in {left, right} : d.neg => d.m # 0) =>
    LET top == MaxOf({d.exp : d \in {left, right}})
        place == MinOf({Place(left), Place(right), top - (Digits - answer.fuzz)})
        difference == Units(left, place) - Units(right, place)
        unit == 10^(top - (Digits - answer.fuzz) - place)
    IN  \/ answer.sign = SignOf(difference)
        \/ Size(difference) < unit

\* The string of a number has the form of NUMERIC FORM, and reading it gives
\* the same number, unless it is one that engineering notation writes with an
\* exponent the limit allows although the number is larger.
StringRight ==
    /\ op = "print" /\ answer.text # Overflow =>
         LET t == answer.text
             n == answer.number
         IN  /\ t.e # 0 => /\ n.exp - 1 < -6 \/ n.exp > Digits
                           /\ t.m >= 10^(t.size - 1)
                           /\ IF Engineering THEN t.e % 3 = 0 /\ t.point <= 3 ELSE t.point = 1
             /\ t.point + t.e - 1 <= MaxExponent =>
                  /\ getdescr(t) # Overflow
                  /\ Units(getdescr(t), Place(getdescr(t))) = Units(n, Place(getdescr(t)))
    /\ op = "truncate" =>
         LET t == answer.text
             low == MinOf({Place(left), t.point - t.size, -answer.deci})
             given == t.m * 10^(t.point - t.size - low)
             kept == 10^(-answer.deci - low)
             exact == left.m * 10^(Place(left) - low)
         IN  given = (exact \div kept) * kept

\* FORMAT gives the number rounded to the decimals it was asked for, all of it
\* when it was not asked, never -0, and never refuses for want of room when it
\* may choose the room itself.
FormatRight ==
    op = "format" =>
    LET n == answer.number
        t == answer.text
        after == answer.args[2]
        low == MinOf({Place(n), t.e + t.point - t.size})
        given == t.m * 10^(t.e + t.point - t.size - low)
        exact == n.m * 10^(Place(n) - low)
        unit == 10^(t.e - after - low)
    IN  IF t \in {TooNarrow, Overflow}
        THEN answer.args[1] # NotGiven \/ answer.args[3] # NotGiven \/ t = Overflow
        ELSE /\ t.neg => n.neg /\ t.m # 0
             /\ n.neg /\ ~t.neg => t.m = 0
             /\ IF after = NotGiven
                THEN answer.args = <<NotGiven, NotGiven, NotGiven, NotGiven>> \/ given = exact
                ELSE /\ t.size - t.point = after
                     /\ 2 * (exact - given) < unit /\ 2 * (given - exact) <= unit
             /\ answer.args[1] # NotGiven => t.point + (IF t.neg THEN 1 ELSE 0) <= answer.args[1]

\* What is written for the reader of a number is that number (str_norm, TRUNC, FORMAT).
WrittenRight == StringRight /\ FormatRight

=============================================================================
