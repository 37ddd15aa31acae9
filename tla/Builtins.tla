------------------------------ MODULE Builtins -------------------------------
(***************************************************************************)
(* One operation on numbers, one built-in function on strings or one       *)
(* PARSE: the parts of an expression that keep no state between calls.     *)
(***************************************************************************)
EXTENDS StringCalls
CONSTANTS Digits, Engineering, MaxExponent, Lefts, Rights, Decimals, Formats, MaxPower,
    Widest, Shifts      \* as in Arithmetic

N == INSTANCE Arithmetic

ASSUME NumbersAssumption ==
    /\ Digits \in Nat \ {0} /\ Engineering \in BOOLEAN /\ MaxExponent \in Nat
    /\ Lefts \cup Rights \subseteq N!Descr
    /\ Decimals \subseteq Nat /\ Shifts \subseteq Int

CallInit == Init \/ N!Init
CallNext == IF op = "none" THEN N!Next ELSE Next
CallSpec == CallInit /\ [][CallNext]_vars

----------------------------------------------------------------------------
\* Sums, products and powers are exact when they fit, and rounded once or twice
\* otherwise: see SumRight and ProductRight; so are the quotients, and a quotient
\* and its remainder give the number divided.  Numbers compare as their values do,
\* up to the digits that FUZZ leaves; a number written, truncated or formatted
\* reads as the same number, or as the one rounded where it was to be rounded.
\* string_add2, string_mul2, string_pow, string_div2, calcul, string_test,
\* str_norm, str_trunc, str_format.
CalculatedRight == N!RoundedRight /\ N!DivisionRight /\ N!CompareRight /\ N!WrittenRight
=============================================================================
