------------------------------ MODULE Decimal ------------------------------
(***************************************************************************)
(* The decimal arithmetic of strmath.c under NUMERIC DIGITS.  A num_descr  *)
(* is a record [neg, m, size, exp]: `size` digits that spell the number m, *)
(* with leading zeros when m is shorter, read as 0.ddd * 10^exp, so that   *)
(* its value is m * 10^(exp - size).  What the C code does digit by digit  *)
(* (borrows, carries, school division) is written as arithmetic on m; how  *)
(* many digits take part, where the result is cut, what is rounded and     *)
(* which zeros are stripped are as in the code.                            *)
(***************************************************************************)
EXTENDS Integers, FiniteSets
CONSTANTS
    Digits,         \* currlevel->currnumsize, NUMERIC DIGITS
    Engineering,    \* currlevel->numform is NUM_FORM_ENG
    MaxExponent     \* MAX_EXPONENT of strmath.c

Least(a, b) == IF a < b THEN a ELSE b
Most(a, b) == IF a < b THEN b ELSE a
FirstOf(S) == CHOOSE k \in S : \A l \in S : k <= l

----------------------------------------------------------------------------
\* The number of significant digits of m, 0 for 0.
Width(m) == Cardinality({k \in 0..9 : 10^k <= m})

Descr == [neg : BOOLEAN, m : Nat, size : Nat \ {0}, exp : Int]

Zero == [neg |-> FALSE, m |-> 0, size |-> 1, exp |-> 1]
One == [neg |-> FALSE, m |-> 1, size |-> 1, exp |-> 1]
LeadingZeros(d) == d.size - Width(d.m)
\* The first n digits of d, n <= d.size; the digit at index i, 0 past the end.
First(d, n) == d.m \div 10^(d.size - n)
\* Mutant: the last digit is not reached.
DigitBut(d, i) == IF i < d.size - 1 THEN First(d, i + 1) % 10 ELSE 0
Digit(d, i) == IF i < d.size THEN First(d, i + 1) % 10 ELSE 0
\* The comparison of the code with 0: one digit, and that one is '0'.
IsPlainZero(d) == d.size = 1 /\ d.m = 0

\* Mutant: leading zeros go without moving the point.
StrippedInPlace(d) == IF d.m = 0 THEN Zero ELSE [d EXCEPT !.size = Width(d.m)]
\* str_strip: no leading zeros, and one way to write 0.
str_strip(d) ==
    IF d.m = 0 THEN Zero
    ELSE [d EXCEPT !.size = Width(d.m), !.exp = @ - LeadingZeros(d)]

\* Mutant: the digit after the last one is ignored.
CutAt(d, n) == [d EXCEPT !.m = First(d, n), !.size = n]
\* The first n digits, the last one rounded by the digit after it; 99.. becomes
\* 100.. one decimal place higher.
RoundedAt(d, n) ==
    LET up == First(d, n) + (IF Digit(d, n) >= 5 THEN 1 ELSE 0)
    IN  IF up = 10^n
        THEN [d EXCEPT !.m = 10^(n - 1), !.size = n, !.exp = @ + 1]
        ELSE [d EXCEPT !.m = up, !.size = n]

\* descr_round: the leading zeros are counted in the loop and once more after it.
str_round(d, n) ==
    LET size == n + 2 * LeadingZeros(d)
    IN  IF d.size <= size THEN d ELSE RoundedAt(d, size)

\* The zeros at the end of the decimals go, one digit stays.
StripDecimals(d) ==
    LET size == FirstOf({k \in 1..d.size : \/ k = d.size
                                           \/ /\ k >= d.exp
                                              /\ d.m % 10^(d.size - k) = 0})
    IN  [d EXCEPT !.m = First(d, size), !.size = size]

\* LOSTDIGITS_CHECK: a digit other than 0 beyond the n significant ones.
LosesDigits(d, n) ==
    LET w == Width(d.m) IN w > n /\ d.m % 10^(w - n) # 0

----------------------------------------------------------------------------
(* Addition, multiplication.                                               *)

\* The digits of d that take part when its first digit stands h places to the
\* right of the first digit of the sum.
Used(d, h) == Most(Least(Digits + 1 - h, d.size), 0)

string_add2(f, s) ==
    LET swap == f.exp < s.exp
        big == IF swap THEN s ELSE f
        small == IF swap THEN f ELSE s
        h == big.exp - small.exp
        h2 == Used(big, 0)
        h3 == Used(small, h)
        size == Most(h2, Least(Digits + 1, h + small.size))
        x == First(big, h2) * 10^(size - h2)
        y == IF h3 = 0 THEN 0 ELSE First(small, h3) * 10^(size - h - h3)
        sum == IF big.neg = small.neg THEN x + y ELSE x - y
        long == IF sum >= 10^size THEN 1 ELSE 0
        r == [neg |-> (big.neg # (sum < 0)),
              m |-> IF sum < 0 THEN -sum ELSE sum,
              size |-> size + long, exp |-> big.exp + long]
    IN  IF IsPlainZero(s) THEN f
        ELSE IF IsPlainZero(f) THEN s
        ELSE str_strip(IF r.size > Digits THEN RoundedAt(r, Digits) ELSE r)

\* Mutant: no guard digit.
FactorUnguarded(d) == d.m \div 10^Most(0, Width(d.m) - Digits + 1)
\* DIGITS + 1 significant digits of d.
Factor(d) == d.m \div 10^Most(0, Width(d.m) - (Digits + 1))

string_mul2(f, s) ==
    LET nF == Width(Factor(f))
        nS == Width(Factor(s))
        r == [neg |-> f.neg # s.neg, m |-> Factor(f) * Factor(s),
              size |-> Most(1, nF + nS),
              exp |-> IF s.m = 0 THEN 1 ELSE f.exp + s.exp]
    IN  str_round(r, Digits)

----------------------------------------------------------------------------
(* Division.  The digits of the quotient come one by one from a window of  *)
(* the dividend; after the window has reached the digit t of the dividend, *)
(* zeros following its last digit, the quotient so far is                  *)
(* Dividend(f, t) \div Divisor(s).                                         *)

Divisor(s) == First(s, Least(s.size, Digits + 1))
Dividend(f, t) ==
    LET tend == Least(f.size, Digits + 1)
    IN  IF t <= tend THEN First(f, t) ELSE First(f, tend) * 10^(t - tend)

test_whole(d) ==
    /\ d.size > d.exp => d.m % 10^(d.size - Most(0, d.exp)) = 0
    /\ d.m # 0 => d.exp - LeadingZeros(d) <= Digits

\* What string_div2 has when its loop over the digits is done: the quotient q,
\* the rest of the dividend, and how many digits of the window are behind.
School(f, s, whole) ==
    LET ssize == Least(s.size, Digits + 1)
        tend == Least(f.size, Digits + 1)
        S == Divisor(s)
        short == IF Dividend(f, ssize) < S THEN 1 ELSE 0
        exp == 1 + f.exp - s.exp - short
        T(k) == ssize + short + k - 1
        end == FirstOf({k \in 1..(Digits + 1) :
                           \/ k = Digits + 1
                           \/ T(k) >= tend /\ Dividend(f, T(k)) % S = 0})
        stops == whole /\ Most(0, exp) < end    \* at the decimal point
        k == IF stops THEN Most(0, exp) ELSE end
        q == IF k = 0 THEN 0 ELSE Dividend(f, T(k)) \div S
        tcnt == T(k) + 1
        rho == Dividend(f, tcnt) - q * 10 * S
        long == tcnt > ssize /\ ~(stops /\ rho < 10^ssize)
        tstart == tcnt - ssize - (IF long THEN 1 ELSE 0)
        size == Most(tend, tcnt) - tstart
        rest == Dividend(f, Most(tend, tcnt)) - q * S * 10^(Most(tend, tcnt) - T(k))
        used == Least(size, Digits + 1)
    IN  [quotient |-> [neg |-> f.neg # s.neg, exp |-> exp,
                       m |-> IF stops THEN q * 10 ELSE q,
                       size |-> IF stops THEN k + 1 ELSE k],
         remainder |-> [neg |-> f.neg, exp |-> f.exp - tstart,
                        m |-> rest \div 10^(size - used), size |-> used]]

\* The rest is too large for a remainder, the quotient was cut.
RestTooLarge(r, s) ==
    LET i == LeadingZeros(r)
        ssize == Least(s.size, Digits + 1)
        n == Least(r.size - i, ssize)
        A == First(r, i + n)
        B == First(s, n)
    IN  /\ i < r.size
        /\ \/ r.exp - i > s.exp
           \/ r.exp - i = s.exp /\ (A > B \/ (A = B /\ ssize > n))

\* Mutant: only digits that were made are looked at, not the size of the quotient.
QuotientLong(q) == q.size > Digits /\ Digit(q, Digits) # 0
QuotientCut(q) == (q.size > Digits /\ Digit(q, Digits) # 0) \/ ~test_whole(q)

\* An integer division or a remainder is refused (26.11, 26.12) when the whole
\* part of the quotient needs more than DIGITS digits.
Refused(f, s) ==
    LET d == School(f, s, TRUE)
    IN  RestTooLarge(d.remainder, s) \/ QuotientCut(d.quotient)

string_div2(f, s, type) ==
    LET d == School(f, s, type # "normal")
    IN  StripDecimals(IF type = "remainder" THEN d.remainder ELSE d.quotient)

----------------------------------------------------------------------------
(* Powers: square and multiply from the highest bit of the exponent.       *)

\* descr_strip leaves no digit at all of a 0, which its readers take for a 0.
descr_strip(d) == [d EXCEPT !.size = Width(d.m), !.exp = @ - LeadingZeros(d)]

Powers(num, top) ==
    LET acc[n \in 0..top] ==
            IF n = 0 THEN One
            ELSE LET half == acc[n \div 2]
                     square == IF n = 1 THEN half
                               ELSE descr_strip(string_mul2(half, half))
                 IN  IF n % 2 = 0 THEN square
                     ELSE descr_strip(string_mul2(square, num))
    IN  acc

string_pow(num, power) ==
    IF power < 0 THEN string_div2(One, Powers(num, -power)[-power], "normal")
    ELSE descr_strip(Powers(num, power)[power])

----------------------------------------------------------------------------
(* What calcul of expr.c does with the answer of an operation: strip it,   *)
(* round it, and after a division or a power drop the zeros of the         *)
(* decimals.                                                               *)

calcul(r, strip2) ==
    LET n == str_round(str_strip(r), Digits)
    IN  IF strip2 THEN StripDecimals(n) ELSE n

\* string_incr, the step of a DO loop without BY.
string_incr(d) ==
    IF d.size # d.exp \/ d.exp >= Digits THEN str_round(string_add2(d, One), Digits)
    ELSE IF ~d.neg
    THEN LET long == IF d.m + 1 = 10^d.size THEN 1 ELSE 0
         IN  [d EXCEPT !.m = @ + 1, !.size = @ + long, !.exp = @ + long]
    ELSE LET less == [d EXCEPT !.m = @ - 1]
         IN  IF First(d, 1) = 1 /\ d.m = 10^(d.size - 1) THEN str_strip(less) ELSE less

\* string_test: -1 when the first is less, 1 when it is greater, with
\* DIGITS - FUZZ digits compared.
string_test(f, s, fuzz) ==
    LET Sign(less) == IF less THEN -1 ELSE 1
        Verdict(greater) == Sign(f.neg = greater)
        IsZero(d) == d = [Zero EXCEPT !.neg = d.neg]
        top == Least(Digits - fuzz, Most(f.size, s.size))
        differ == {i \in 0..(top - 1) : Digit(f, i) # Digit(s, i)}
        i == FirstOf(differ)
    IN  IF f.neg # s.neg THEN Sign(f.neg)
        ELSE IF IsZero(f) /\ IsZero(s) THEN 0
        ELSE IF IsZero(f) THEN Sign(~s.neg)
        ELSE IF IsZero(s) THEN Sign(f.neg)
        ELSE IF f.exp # s.exp THEN Verdict(f.exp > s.exp)
        ELSE IF differ # {} THEN Verdict(Digit(f, i) > Digit(s, i))
        ELSE IF (Digit(f, top) > 4) = (Digit(s, top) > 4) THEN 0
        ELSE Verdict(Digit(f, top) > 5)

----------------------------------------------------------------------------
(* Numbers and strings.  A string that is a number is the record           *)
(* [neg, m, size, point, e]: `size` digits that spell m, `point` of them   *)
(* before the decimal point, and E e when e is not 0.                      *)

Overflow == [error |-> "exponent"]
TooNarrow == [error |-> "not enough positions"]
Text(neg, m, size, point, e) ==
    [neg |-> neg, m |-> m, size |-> size, point |-> point, e |-> e]

\* Mutant: engineering notation by rounding up to a multiple of three.
ShownAbove(exp) == IF Engineering THEN ((exp - 1) \div 3) * 3 + 3 ELSE exp - 1
\* The exponent that is shown: one digit before the point, or one to three.
Shown(exp) == IF Engineering THEN exp - 1 - ((exp - 1) % 3) ELSE exp - 1

\* str_norm, the string of a number: exponential from 10^DIGITS and below 10^-6.
str_norm(d) ==
    LET n == [d EXCEPT !.size = Width(d.m), !.exp = @ - LeadingZeros(d)]
        r == IF n.size > Digits THEN RoundedAt(n, Digits) ELSE n
        shows == r.exp - 1 < -6 \/ r.exp - 1 >= Digits
        exp == IF shows THEN Shown(r.exp) ELSE 0
        Point == r.exp - exp
    IN  IF d.m = 0 THEN Text(FALSE, 0, 1, 1, 0)
        ELSE IF shows /\ exp \notin -MaxExponent..MaxExponent
        THEN Overflow
        ELSE IF Point <= 0
        THEN Text(r.neg, r.m, r.size + 1 - Point, 1, exp)
        ELSE IF Point <= r.size THEN Text(r.neg, r.m, r.size, Point, exp)
        ELSE Text(r.neg, r.m * 10^(Point - r.size), Point, Point, exp)

\* getdescr, the number of a string: no leading zeros, trailing ones are kept.
getdescr(t) ==
    LET exp == t.point - (t.size - Width(t.m))
    IN  IF \/ t.e > 0 /\ exp + t.e - 1 > MaxExponent
           \/ t.e < 0 /\ -(exp + t.e) - 1 > MaxExponent
        THEN Overflow
        ELSE IF t.m = 0 THEN Zero
        ELSE [neg |-> t.neg, m |-> t.m, size |-> Width(t.m), exp |-> exp + t.e]

\* str_trunc: the whole part and `deci` decimals.  The zeros that stand between
\* the point and the first digit are all written, also when they are more.
str_trunc(d, deci) ==
    LET whole == Most(d.exp, 0)
        gap == IF deci > 0 THEN Most(-d.exp, 0) ELSE 0
        taken == Least(Most(d.exp, 0) + Most(deci - gap, 0), d.size)
        decimals == Most(deci, gap)
        m == First(d, taken) * 10^(whole + decimals - gap - taken)
    IN  Text(d.neg, m, Most(whole, 1) + decimals, Most(whole, 1), 0)

----------------------------------------------------------------------------
(* str_format, the built-in function FORMAT; -1 stands for an argument     *)
(* that is not given.                                                      *)

NotGiven == -1
Default(arg, value) == IF arg = NotGiven THEN value ELSE arg

\* No zeros at either end.
FormatStrip(d) ==
    LET n == str_strip(d)
        size == FirstOf({k \in 1..n.size : n.m % 10^(n.size - k) = 0})
    IN  [n EXCEPT !.m = First(n, size), !.size = size]

\* Mutant: the carry makes a digit and no decimal place.
CarriedInPlace(d, h) == [d EXCEPT !.m = 10^h, !.size = h + 1]
\* 99.. of h digits rounded up: one digit and one decimal place more.
Carried(d, h) == [d EXCEPT !.m = 10^h, !.size = h + 1, !.exp = @ + 1]

\* The number with `after` decimals when shown with the exponent e: the rest is
\* rounded, and a carry out of the first digit may change the exponent.
FormatRound(d, after, expp, expt, shows) ==
    LET e == IF shows THEN Shown(d.exp) ELSE 0
        h == d.exp - e + after
        up == First(d, h) + 1
        carried == Carried(d, h)
        showsNow == shows \/ (carried.exp - e > expt /\ expp # 0)
        As(n, s, x) == [number |-> n, shows |-> s, e |-> x]
    IN  IF h >= d.size THEN As(d, shows, e)
        ELSE IF h < 0 \/ (h = 0 /\ Digit(d, 0) < 5)
        THEN As([d EXCEPT !.neg = FALSE, !.m = 0, !.size = 1], shows, e)
        ELSE IF Digit(d, h) < 5 THEN As([d EXCEPT !.m = First(d, h), !.size = h], shows, e)
        ELSE IF up < 10^h THEN As([d EXCEPT !.m = up, !.size = h], shows, e)
        ELSE As(carried, showsNow, IF showsNow THEN Shown(carried.exp) ELSE e)

str_format(input, before, after, expp, expt0) ==
    LET expt == Default(expt0, Digits)
        d == FormatStrip(input)
        shows == \/ expp # 0 /\ (d.exp < -5 \/ d.exp > expt)
                 \/ expt = 0
        e == IF shows THEN Shown(d.exp) ELSE 0
        decimals == Default(after, Most(0, d.size - (d.exp - e)))
        f == FormatRound(d, decimals, expp, expt, shows)
        n == f.number
        Point == n.exp - f.e
        sign == IF n.neg THEN 1 ELSE 0
        len == Most(1, Width(IF f.e < 0 THEN -f.e ELSE f.e))
        all == Point + decimals
        m == IF all < 0 THEN 0
             ELSE IF all <= n.size THEN First(n, all) ELSE n.m * 10^(all - n.size)
    IN  IF before = NotGiven /\ after = NotGiven /\ expp = NotGiven /\ expt0 = NotGiven
        THEN str_norm(input)
        ELSE IF \/ Most(Point, 1) > Default(before, Most(Point, 1) + sign) - sign
                \/ f.shows /\ len > Default(expp, len)
        THEN TooNarrow
        ELSE Text(n.neg, m, Most(Point, 1) + decimals, Most(Point, 1), f.e)

=============================================================================
