----------------------------- MODULE Conversions -----------------------------
(***************************************************************************)
(* The conversions of convert.c between characters, hexadecimal and binary *)
(* digits and whole numbers, the functions on bits of builtin.c and        *)
(* arxfuncs.c, and what DATATYPE says of the strings they take.  A whole   *)
(* number is an integer here: str_digitize and str_binerize of strmath.c   *)
(* work with as many decimal digits as it has.                             *)
(***************************************************************************)
EXTENDS Strings, Bitwise

Bad == [error |-> TRUE]     \* error 40.24 or 40.25
Refused(x) == "error" \in DOMAIN x

IsHex(c) == c \in 48..57 \cup 65..70 \cup 97..102
HexValue(c) == IF c <= 57 THEN c - 48 ELSE ToLower(c) - 87
HexDigit(n) == IF n < 10 THEN 48 + n ELSE 55 + n
IsBit(c) == c \in {48, 49}
\* A blank at either end is refused by every function that takes digits.
BlankAtEnd(s) == s # <<>> /\ (IsBlank(s[1]) \/ IsBlank(s[Len(s)]))
NoBlanks(s) == SelectSeq(s, LAMBDA c : ~IsBlank(c))

unpack_hex(s) ==
    Made(FlattenSeq([k \in 1..Len(s) |-> <<HexDigit(s[k] \div 16), HexDigit(s[k] % 16)>>]),
         2 * Len(s))

\* byte_boundary before each byte of s: the digits so far make whole bytes, the
\* first group filled with a zero if need be.
FirstGroup(s) == Least({k \in 1..Len(s) : ~IsHex(s[k])}, Len(s) + 1) - 1
HexBefore(s, k) == Cardinality({i \in 1..(k - 1) : IsHex(s[i])})
AtByte(s, k) == (HexBefore(s, k) + FirstGroup(s)) % 2 = 0
pack_hex(s) ==
    LET padded == IF FirstGroup(s) % 2 = 1 THEN <<48>> \o NoBlanks(s) ELSE NoBlanks(s)
    IN  IF \/ BlankAtEnd(s)
           \/ \E k \in 1..Len(s) : ~IsHex(s[k]) /\ ~(IsBlank(s[k]) /\ AtByte(s, k))
           \/ ~AtByte(s, Len(s) + 1)
        THEN Bad
        ELSE Made([k \in 1..(Len(padded) \div 2) |->
                      16 * HexValue(padded[2 * k - 1]) + HexValue(padded[2 * k])],
                  (Len(s) + 1) \div 2 + 1)

\* The bits from the last byte on, each added to 0, or each missing one
\* subtracted from -1.
str_digitize(s, start, signed) ==
    LET negative == signed /\ s[start + 1] >= 128
        Byte(k) == s[Len(s) - k \div 8]
        Bit(k) == (Byte(k) \div 2^(k % 8)) % 2
        sum[k \in 0..(8 * (Len(s) - start))] ==
            IF k = 0 THEN IF negative THEN -1 ELSE 0
            ELSE IF negative THEN sum[k - 1] - (1 - Bit(k - 1)) * 2^(k - 1)
            ELSE sum[k - 1] + Bit(k - 1) * 2^(k - 1)
    IN  sum[8 * (Len(s) - start)]
numerize(s, length) ==
    IF length = 0 \/ s = <<>> THEN 0
    ELSE IF length = Absent \/ length > Len(s) THEN str_digitize(s, 0, FALSE)
    ELSE str_digitize(s, Len(s) - length, TRUE)

DecimalDigits(n) == CHOOSE k \in 1..11 : n < 10^k /\ (k = 1 \/ n >= 10^(k - 1))
\* Divided by 256 towards 0; a negative remainder takes one from the quotient.
RECURSIVE Bytes(_, _)
Bytes(n, count) ==      \* count -1: until nothing is left
    LET size == IF n < 0 THEN -n ELSE n
        r == IF n < 0 THEN -(size % 256) ELSE size % 256
        q == IF n < 0 THEN -(size \div 256) ELSE size \div 256
        q2 == IF r < 0 THEN q - 1 ELSE q
        r2 == IF r < 0 THEN r + 256 ELSE r
    IN  IF count = 0 THEN <<>>
        ELSE IF count < 0 /\ q2 = 0 THEN <<r2>>
        ELSE Append(Bytes(q2, count - 1), r2)
str_binerize(n, length) ==
    LET s == Bytes(n, IF length = Absent THEN -1 ELSE length)
    IN  Made(s, IF length = Absent THEN DecimalDigits(n) \div 2 + 1 ELSE length)

std_c2x(s) == unpack_hex(s)
std_x2c(s) == pack_hex(s)
std_c2d(s, length) == numerize(s, length)
std_d2c(n, length) ==
    IF length = Absent /\ n < 0 THEN Bad ELSE str_binerize(n, length)

\* An odd length cuts a byte in half: the half left is given its sign.
HalfUnsigned(s, at) == [s EXCEPT ![at] = @ % 16]
HalfSigned(s, at) ==
    [s EXCEPT ![at] = IF (@ \div 8) % 2 = 1 THEN 240 + (@ % 16) ELSE @ % 16]
std_x2d(s, length) ==
    LET packed == pack_hex(s)
        bytes == IF length = Absent THEN Absent ELSE (length + 1) \div 2
        msb == Len(packed.text) - length \div 2
    IN  IF Refused(packed) THEN packed
        ELSE IF length > 0 /\ length % 2 = 1 /\ msb >= 1 THEN numerize(HalfSigned(packed.text, msb), bytes)
        ELSE numerize(packed.text, bytes)
\* One zero too many at the left is taken off.
std_d2x(n, length) ==
    LET packed == str_binerize(n, IF length = Absent THEN Absent ELSE (length + 1) \div 2)
        hex == unpack_hex(packed.text).text
    IN  IF length = Absent /\ n < 0 THEN Bad
        ELSE IF (length > 0 /\ Len(hex) # length /\ hex # <<>>)
                    \/ (length = Absent /\ hex[1] = 48)
             THEN Made(Tail(hex), 2 * Len(packed.text))
             ELSE Made(hex, 2 * Len(packed.text))

\* cur_bit before each byte: how far the current four digits are filled.
FirstBits(s) == Least({k \in 1..Len(s) : ~IsBit(s[k])}, Len(s) + 1) - 1
BitsBefore(s, k) ==
    ((4 - (FirstBits(s) % 4)) + Cardinality({i \in 1..(k - 1) : IsBit(s[i])})) % 4
std_b2x(s) ==
    LET padded == Times(48, (4 - (FirstBits(s) % 4)) % 4) \o NoBlanks(s)
        bit(k) == padded[k] - 48
    IN  IF \/ s # <<>> /\ (FirstBits(s) = 0 \/ IsBlank(s[Len(s)]))
           \/ \E k \in 1..Len(s) : ~IsBit(s[k]) /\ ~(IsBlank(s[k]) /\ BitsBefore(s, k) = 0)
           \/ BitsBefore(s, Len(s) + 1) # 0
        THEN Bad
        ELSE Made([k \in 1..(Len(padded) \div 4) |->
                      HexDigit(8 * bit(4 * k - 3) + 4 * bit(4 * k - 2)
                               + 2 * bit(4 * k - 1) + bit(4 * k))],
                  (Len(s) + 3) \div 4)

\* space_stat: 0 in the first group, 2 between bytes, 1 inside one.
SpaceStat(s, k) ==
    LET first == Least({i \in 1..(k - 1) : IsBlank(s[i])}, k)
        digits == Cardinality({i \in first..(k - 1) : ~IsBlank(s[i])})
    IN  IF first = k THEN 0 ELSE IF digits % 2 = 0 THEN 2 ELSE 1
std_x2b(s) ==
    LET nibble(c) == [k \in 1..4 |-> 48 + ((HexValue(c) \div 2^(4 - k)) % 2)]
    IN  IF \/ BlankAtEnd(s)
           \/ \E k \in 1..Len(s) : ~IsHex(s[k]) /\ ~(IsBlank(s[k]) /\ SpaceStat(s, k) # 1)
        THEN Bad
        ELSE Made(FlattenSeq([k \in 1..Len(NoBlanks(s)) |-> nibble(NoBlanks(s)[k])]), 4 * Len(s))
arexx_b2c(s) == LET hex == std_b2x(s) IN IF Refused(hex) THEN hex ELSE std_x2c(hex.text)
arexx_c2b(s) == std_x2b(std_c2x(s).text)

valid_hex_const(s) ==
    /\ ~BlankAtEnd(s)
    /\ \A k \in 1..Len(s) : IsHex(s[k]) \/ (IsBlank(s[k]) /\ SpaceStat(s, k) # 1)
    /\ SpaceStat(s, Len(s) + 1) # 1
\* Counted from the end, and a blank counts as a digit too.
valid_binary_const(s) ==
    /\ ~BlankAtEnd(s)
    /\ \A k \in 1..Len(s) : IsBit(s[k]) \/ (IsBlank(s[k]) /\ (Len(s) - k) % 4 = 0)
std_datatype(s, option) ==
    CASE option = "B" -> valid_binary_const(s)
      [] option = "X" -> valid_hex_const(s)
      [] option = "A" -> s # <<>> /\ \A k \in 1..Len(s) :
                            ToUpper(s[k]) \in 65..90 \cup 48..57
      [] option = "L" -> s # <<>> /\ \A k \in 1..Len(s) : s[k] \in 97..122
      [] option = "U" -> s # <<>> /\ \A k \in 1..Len(s) : s[k] \in 65..90
      [] option = "M" -> s # <<>> /\ \A k \in 1..Len(s) : ToUpper(s[k]) \in 65..90

logic(a, b, type) ==
    CASE type = "and" -> a & b [] type = "or" -> a | b [] type = "xor" -> a ^^ b
\* Without a pad the rest of the longer string stays as it is.
misc_logic(a, b, pad, type) ==
    LET long == IF Len(b) > Len(a) THEN b ELSE a
        short == IF Len(b) > Len(a) THEN a ELSE b
    IN  Made([k \in 1..Len(long) |->
                 IF k <= Len(short) THEN logic(long[k], short[k], type)
                 ELSE IF pad = Absent THEN long[k] ELSE logic(long[k], pad, type)],
             Len(long))

\* Bit 0 is the last bit of the last byte.
ByteOfBit(s, bit) == Len(s) - bit \div 8
HasBit(s, bit) == ByteOfBit(s, bit) >= 1
BitMask(bit) == 2^(bit % 8)
arexx_bittst(s, bit) == (s[ByteOfBit(s, bit)] \div BitMask(bit)) % 2 = 1
arexx_bitset(s, bit) == [s EXCEPT ![ByteOfBit(s, bit)] = @ | BitMask(bit)]
arexx_bitclr(s, bit) == [s EXCEPT ![ByteOfBit(s, bit)] = @ & (255 - BitMask(bit))]
arexx_bitchg(s, bit) == [s EXCEPT ![ByteOfBit(s, bit)] = @ ^^ BitMask(bit)]
firstbit(c) == Least({i \in 0..7 : (c \div 2^i) % 2 = 1}, 8)
\* The strings are laid against each other at their right ends.
arexx_bitcomp(a, b, pad) ==
    LET long == IF Len(a) < Len(b) THEN b ELSE a
        short == IF Len(a) < Len(b) THEN a ELSE b
        other(i) == IF i < Len(short) THEN short[Len(short) - i] ELSE pad
        at == Least({i \in 0..(Len(long) - 1) : long[Len(long) - i] # other(i)}, -1)
    IN  IF at = -1 THEN -1 ELSE 8 * at + firstbit(long[Len(long) - at] ^^ other(at))
=============================================================================
