----------------------------- MODULE StringCalls -----------------------------
(***************************************************************************)
(* One call of a built-in function on strings, or one PARSE, and what the  *)
(* answer must be: by the words and the bytes of the strings themselves,   *)
(* and by the functions that undo each other.                              *)
(***************************************************************************)
EXTENDS Conversions, Templates
CONSTANTS
    Texts,          \* the strings functions on strings and words are given
    Others,         \* the second string of such a call
    Numerals,       \* strings of digits, valid or not, to convert
    Bytestrings,    \* strings of bytes to convert
    Wholes,         \* whole numbers to convert
    Sources,        \* what PARSE is given, and into which templates
    SomeTemplates,
    Variables,      \* the variables of the templates
    Counts,        \* the numbers given as start, length or count
    Afters          \* the bytes that may follow a string in memory

VARIABLES
    left, right,    \* the operands
    op,             \* the sort of operands before the call, then the call made
    answer          \* the arguments and what the call gave

vars == <<left, right, op, answer>>

Pad == 45
Lengths == Counts \cup {0, Absent}
Widths == {n \in Lengths : n <= 3}     \* bound: the bytes of a number

Init ==
    /\ answer = [none |-> TRUE]
    /\ \/ op = "text" /\ left \in Texts /\ right \in Others
       \/ op = "digits" /\ left \in Numerals /\ right = <<>>
       \/ op = "bytes" /\ left \in Bytestrings /\ right \in Bytestrings
       \/ op = "whole" /\ left \in {<<n>> : n \in Wholes} /\ right = <<>>
       \/ op = "source" /\ left \in Sources /\ right \in SomeTemplates

Gives(sort, name, value) ==
    /\ op = sort
    /\ op' = name
    /\ answer' = value
    /\ UNCHANGED <<left, right>>

\* A call on one string is made once for all the second ones.
Alone == right = <<>>

Words == \E n \in Counts, length \in Lengths :
    Alone /\ Gives("text", "words",
        [n |-> n, length |-> length,
         words |-> std_words(left), word |-> std_word(left, n),
         index |-> std_wordindex(left, n), long |-> std_wordlength(left, n),
         some |-> std_subword(left, n, length), others |-> std_delword(left, n, length)])
Phrase == \E start \in Counts, after \in Afters :
    Gives("text", "phrase",
        [start |-> start, at |-> std_wordpos(right, left, start, after),
         found |-> cms_find(left, right, start, after)])
Search == \E start \in Counts :
    Gives("text", "search",
        [start |-> start, first |-> std_pos(right, left, start),
         index |-> cms_index(left, right, start),
         last |-> std_lastpos(right, left, start),
         verified |-> std_verify(left, right, FALSE, start),
         matched |-> std_verify(left, right, TRUE, start)])
Change == \E new \in {<<>>, <<97>>, <<Pad, Pad>>} :
    Gives("text", "change",
        [new |-> new, count |-> std_countstr(right, left),
         text |-> std_changestr(right, left, new)])
Relate == \E length \in Lengths :
    Gives("text", "relate",
        [length |-> length, abbrev |-> std_abbrev(left, right, length),
         compare |-> std_compare(left, right, Pad),
         without |-> arexx_compress(left, right),
         to |-> std_translate(left, [given |-> TRUE, text |-> right],
                              [given |-> FALSE, text |-> <<>>], Pad),
         from |-> std_translate(left, [given |-> TRUE, text |-> <<98, 97>>],
                                [given |-> TRUE, text |-> right], Pad)])
Put == \E start \in Counts \cup {Absent}, length \in Lengths :
    Gives("text", "put",
        [start |-> start, length |-> length,
         over |-> std_overlay(right, left, start, length, Pad),
         in |-> std_insert(right, left, Given(start, 0), length, Pad)])
Cut == \E start \in Counts, length \in Lengths :
    Alone /\ Gives("text", "cut",
        [start |-> start, length |-> length,
         part |-> std_substr(left, start, length, Pad),
         rest |-> std_delstr(left, start, length),
         low |-> rex_lower(left, start, length, Pad),
         up |-> arexx_upper(left, start, length, Pad)])
Shape == \E n \in Counts \cup {0}, after \in Afters :
    Alone /\ Gives("text", "shape",
        [n |-> n, left |-> std_left(left, n, Pad), right |-> std_right(left, n, Pad),
         center |-> std_center(left, n, Pad), spaced |-> std_space(left, n, Pad),
         copies |-> std_copies(left, n), reverse |-> std_reverse(left),
         strip |-> std_strip(left, TRUE, TRUE, Space),
         leading |-> std_strip(left, TRUE, FALSE, Space),
         trailing |-> std_strip(left, FALSE, TRUE, Space), trim |-> arexx_trim(left),
         justify |-> cms_justify(left, 2 * n, Pad, after)])
Convert == \E length \in Lengths :
    Gives("digits", "convert",
        [length |-> length, x2c |-> std_x2c(left), x2d |-> std_x2d(left, length),
         x2b |-> std_x2b(left), b2x |-> std_b2x(left), b2c |-> arexx_b2c(left),
         types |-> {t \in {"A", "B", "L", "M", "U", "X"} : std_datatype(left, t)}])
Unpack == \E length \in Widths :
    Alone /\ Gives("bytes", "unpack",
        [length |-> length, c2x |-> std_c2x(left), c2d |-> std_c2d(left, length),
         c2b |-> arexx_c2b(left), hash |-> arexx_hash(left)])
Number == \E length \in Widths :
    Gives("whole", "number",
        [length |-> length, d2c |-> std_d2c(left[1], length),
         d2x |-> std_d2x(left[1], length)])
Bits == \E pad \in {Absent, 0, 129}, bit \in 0..17 :
    /\ Gives("bytes", "bits",
        [pad |-> pad, bit |-> bit,
         and |-> misc_logic(left, right, pad, "and"),
         or |-> misc_logic(left, right, pad, "or"),
         xor |-> misc_logic(left, right, pad, "xor"),
         comp |-> arexx_bitcomp(left, right, Given(pad, 0))])
    /\ HasBit(left, bit)
Ordered == \E start, stop \in {0, 1, 254, 255} :
    left = <<>> /\ Alone /\ Gives("bytes", "ordered",
        [start |-> start, stop |-> stop, made |-> std_xrange(start, stop)])
Arguments ==
    Alone /\ Gives("text", "arguments",
        LET args == [k \in 1..Len(left) |-> left[k] # Space]
        IN  [count |-> std_arg_count(args),
             exists |-> {n \in 1..9 : std_arg_exists(args, n)}])
Parse == \E case \in {"as is", "upper"}, caseless \in BOOLEAN :
    Gives("source", "parse",
        [case |-> case, caseless |-> caseless,
         parsed |-> parseargtree(<<left>>, <<right, right>>, [v \in Variables |-> <<>>],
                                 case, caseless)])

Next == \/ Words \/ Phrase \/ Search \/ Change \/ Relate \/ Put \/ Cut \/ Shape
        \/ Convert \/ Unpack \/ Number \/ Bits \/ Ordered \/ Arguments \/ Parse

Spec == Init /\ [][Next]_vars

----------------------------------------------------------------------------
(* The words of a string as the places they stand at, in order.            *)
Spans(s) == {<<i, j>> \in (1..Len(s)) \X (1..Len(s)) :
                /\ i <= j /\ \A k \in i..j : ~IsBlank(s[k])
                /\ i = 1 \/ IsBlank(s[i - 1])
                /\ j = Len(s) \/ IsBlank(s[j + 1])}
WordList(s) == SetToSortSeq(Spans(s), LAMBDA a, b : a[1] < b[1])
SpanText(s, span) == SubSeq(s, span[1], span[2])
WordTexts(s) == [k \in 1..Len(WordList(s)) |-> SpanText(s, WordList(s)[k])]
SingleSpaced(s) == \A k \in 2..Len(s) : ~(IsBlank(s[k]) /\ IsBlank(s[k - 1]))
Joined(words, gap) ==
    FlattenSeq([k \in 1..Len(words) |-> IF k = 1 THEN words[k] ELSE gap \o words[k]])
At(s, k, t) == k >= 1 /\ k + Len(t) - 1 <= Len(s) /\ SubSeq(s, k, k + Len(t) - 1) = t
\* Every occurrence replaced, from left to right.
RECURSIVE Replaced(_, _, _)
Replaced(s, old, new) ==
    IF s = <<>> THEN <<>>
    ELSE IF At(s, 1, old) THEN new \o Replaced(SubSeq(s, Len(old) + 1, Len(s)), old, new)
    ELSE <<s[1]>> \o Replaced(Tail(s), old, new)
Padded(s, n) == s \o Times(Pad, n - Len(s))
Same(case, s) == IF case = "upper" THEN [k \in 1..Len(s) |-> ToUpper(s[k])] ELSE s

\* The functions that skip words and those that count the ends of words agree on
\* the words of a string; a phrase written with single blanks is found at the
\* first place its words are; a search that hops over the text misses nothing, and
\* finds nothing that is not there; what is inserted can be deleted again; and a
\* string spaced or justified keeps its words.  std_word, contained_in, bmstrstr,
\* std_changestr, std_insert, std_overlay, std_space, cms_justify.
StringsRight ==
    LET list == WordList(left)
        solid == WordTexts(left)
    IN
    /\ op = "words" =>
         LET upto == IF answer.length = Absent THEN Len(list)
                     ELSE Smaller(answer.n + answer.length - 1, Len(list))
             there == answer.n <= Len(list)
         IN  /\ answer.words = Len(list)
             /\ answer.word = (IF there THEN solid[answer.n] ELSE <<>>)
             /\ answer.index = (IF there THEN list[answer.n][1] ELSE 0)
             /\ answer.long = Len(answer.word)
             /\ answer.some.text = (IF there /\ upto >= answer.n
                                    THEN SubSeq(left, list[answer.n][1], list[upto][2])
                                    ELSE <<>>)
             /\ WordTexts(answer.others.text) =
                  (IF there THEN SubSeq(solid, 1, answer.n - 1)
                                 \o SubSeq(solid, upto + 1, Len(solid)) ELSE solid)
    /\ op = "phrase" /\ SingleSpaced(left) /\ SingleSpaced(right) =>
         answer.at = IF WordTexts(right) = <<>> THEN 0
                     ELSE Least({n \in answer.start..Len(list) :
                                   At(solid, n, WordTexts(right))}, 0)
    /\ op = "search" /\ right # <<>> =>
         LET places == {k \in 1..Len(left) : At(left, k, right)}
         IN  /\ answer.first = Least({k \in places : k >= answer.start}, 0)
             /\ answer.last = Greatest({k \in places :
                                  k + Len(right) - 1 <= answer.start}, 0)
    /\ op = "change" /\ right # <<>> =>
         /\ answer.text.text = Replaced(left, right, answer.new)
         /\ Len(answer.text.text) - Len(left) = answer.count * (Len(answer.new) - Len(right))
    /\ op = "relate" =>
         /\ (answer.compare = 0) <=>
              (Padded(left, Len(right)) = Padded(right, Len(left)))
         /\ answer.without.text = <<>> <=> std_verify(left, right, FALSE, 1) = 0
    /\ op = "put" =>
         LET n == Given(answer.length, Len(right))
             new == std_left(right, n, Pad).text
             start == Given(answer.start, 1)
             spot == Given(answer.start, 0)
         IN  /\ answer.over.text = std_left(left, start - 1, Pad).text \o new
                                   \o SubSeq(left, start + n, Len(left))
             /\ std_delstr(answer.in.text, spot + 1, n).text = Padded(left, spot)
             /\ std_substr(answer.in.text, spot + 1, n, Pad).text = new
    /\ op = "cut" =>
         /\ answer.rest.text = std_left(left, Smaller(answer.start - 1, Len(left)), Pad).text
                \o SubSeq(left, answer.start + Len(answer.part.text), Len(left))
         /\ \A a \in {answer.low, answer.up} :
                /\ Len(a.text) = Larger(Len(left), answer.length)
                /\ \A k \in 1..(Smaller(answer.start, Len(left) + 1) - 1) :
                       a.text[k] = left[k]
    /\ op = "shape" =>
         LET spread == 2 * answer.n
             chars == Len(Joined(solid, <<Space>>))
         IN  /\ ToSet(left) \subseteq {Space, 97, 98} =>
                  answer.spaced.text = Joined(solid, Times(Pad, answer.n))
             /\ Len(solid) > 1 /\ chars <= spread /\ ~IsBlank(left[Len(left)]) =>
                  LET gaps == {g \in 0..spread : \E k \in 1..spread :
                                 /\ \A i \in 0..(g - 1) : answer.justify.text[k + i] = Pad
                                 /\ k > 1 /\ answer.justify.text[k - 1] # Pad
                                 /\ k + g <= spread /\ answer.justify.text[k + g] # Pad
                                 /\ g > 0}
                  IN  /\ SelectSeq(answer.justify.text, LAMBDA c : c # Pad) = Joined(solid, <<>>)
                      /\ \A g, h \in gaps : g - h <= 1

\* No function touches a place beyond the room it asked for its answer, with two
\* exceptions: OVERLAY without a position, of a string longer than the other, and
\* UPPER or LOWER from the second place or later with more bytes than are left.
\* The rooms in std_subword, std_space, std_insert, std_delstr, std_changestr,
\* std_x2b, str_binerize, ... are sums of the arguments.
StaysInside ==
    op \in {"words", "change", "relate", "put", "cut", "shape", "convert",
             "unpack", "number", "bits", "ordered"} =>
    \A f \in DOMAIN answer \cap {"some", "others", "text", "without", "to", "from", "over",
                "in", "part", "rest", "low", "up", "left", "right", "center", "spaced",
                "copies", "reverse", "strip", "leading", "trailing", "trim", "justify",
                "x2c", "x2b", "b2x", "b2c", "c2x", "c2b", "d2c", "d2x", "and", "or",
                "xor", "made"} :
        \/ Refused(answer[f])
        \/ answer[f].top <= answer[f].room
        \/ /\ f = "over" /\ answer.start = Absent
           /\ Given(answer.length, Len(right)) > Len(left)
        \/ /\ f \in {"low", "up"} /\ answer.start > 1
           /\ answer.length > Len(left) - answer.start + 1

\* The number n in so many bits, as two's complement.
Signed(n, bits) == LET r == n % 2^bits IN IF r >= 2^(bits - 1) THEN r - 2^bits ELSE r
HexNumber(s) ==
    LET v[k \in 0..Len(s)] == IF k = 0 THEN 0 ELSE 16 * v[k - 1] + HexValue(s[k]) IN v[Len(s)]
BitOf(s, k, pad) ==     \* bit k counted from the right end of s
    (ByteAt([i \in 1..Len(s) |-> s[Len(s) + 1 - i]], k \div 8 + 1, pad) \div BitMask(k)) % 2

\* A conversion and the one back give the string or the number again; a length
\* means two's complement of that length, also when it cuts a byte in half;
\* DATATYPE accepts what the conversion accepts (binary digits with more than one
\* blank are left out: there it does not); and BITCOMP names the first bit from the
\* right in which the strings differ.  pack_hex, numerize, std_x2d, str_binerize,
\* std_b2x, valid_hex_const, valid_binary_const, arexx_bitcomp.
ConversionsRight ==
    /\ op = "unpack" =>
         /\ std_x2c(answer.c2x.text).text = left
         /\ std_b2x(answer.c2b.text).text = answer.c2x.text
         /\ arexx_b2c(answer.c2b.text).text = left
         /\ std_d2c(answer.c2d, IF answer.length = Absent THEN Len(left)
                                ELSE Smaller(answer.length, Len(left))).text =
                IF answer.length = Absent THEN left
                ELSE SubSeq(left, Larger(Len(left) - answer.length, 0) + 1, Len(left))
    /\ op = "number" =>
         IF answer.length = Absent
         THEN left[1] >= 0 => /\ std_c2d(answer.d2c.text, Absent) = left[1]
                              /\ std_x2d(answer.d2x.text, Absent) = left[1]
         ELSE answer.length > 0 =>
              /\ std_c2d(answer.d2c.text, answer.length) = Signed(left[1], 8 * answer.length)
              /\ std_x2d(answer.d2x.text, answer.length) = Signed(left[1], 4 * answer.length)
    /\ op = "convert" =>
         /\ "X" \in answer.types <=> ~Refused(answer.x2c)
         /\ Cardinality({k \in 1..Len(left) : IsBlank(left[k])}) <= 1 =>
              ("B" \in answer.types <=> ~Refused(answer.b2x))
         /\ "X" \in answer.types =>
              /\ HexNumber(std_b2x(answer.x2b.text).text) = HexNumber(NoBlanks(left))
              /\ answer.x2d = IF answer.length = Absent THEN HexNumber(NoBlanks(left))
                              ELSE IF answer.length = 0 THEN 0
                              ELSE Signed(HexNumber(NoBlanks(left)), 4 * answer.length)
    /\ op = "bits" =>
         LET n == 8 * Larger(Len(left), Len(right))
             pad == Given(answer.pad, 0)
             differ == {k \in 0..(n - 1) : BitOf(left, k, IF Len(left) < Len(right) THEN pad ELSE 0)
                                           # BitOf(right, k, IF Len(right) < Len(left) THEN pad ELSE 0)}
         IN  /\ answer.comp = Least(differ, -1)
             /\ arexx_bittst(arexx_bitset(left, answer.bit), answer.bit)
             /\ ~arexx_bittst(arexx_bitclr(left, answer.bit), answer.bit)
             /\ arexx_bitchg(arexx_bitchg(left, answer.bit), answer.bit) = left
             /\ \A k \in 1..Len(answer.xor.text) :
                    answer.pad # Absent =>
                        answer.xor.text[k] = answer.or.text[k] - answer.and.text[k]

\* Every piece begins where the piece before it ended, or at the last match for a
\* relative position; a string in the template is found at its first occurrence
\* from there on and is skipped, and without one the piece gets the rest; a
\* position is where the next piece begins, and a piece whose position lies behind
\* it gets the rest; of its text every variable gets a word, and the last the rest.
\* doparse, doparse3, bmstrstr.
TemplateFilled ==
    op = "parse" =>
    LET source == Translated(left, answer.case)
        pieces == answer.parsed[1]
        Fold(s) == IF answer.caseless THEN Translated(s, "lower") ELSE s
        Before(k) == IF k = 1 THEN [next |-> 0, point |-> 0, values |-> [v \in Variables |-> <<>>]]
                     ELSE pieces[k - 1]
    IN  /\ \A k \in 1..Len(right) :
             LET p == pieces[k]
                 pattern == Value(right[k].pattern, Before(k).values)
                 found == {i \in (p.from + 1)..Len(source) :
                              At(Fold(source), i, Fold(pattern.text))}
                 text == SubSeq(source, p.from + 1, p.end)
                 n == Len(right[k].names)
             IN  /\ p.from = IF pattern.kind \in {"back", "ahead"} THEN Before(k).point
                             ELSE Before(k).next
                 /\ p.from <= p.end /\ p.end <= Len(source) /\ p.next \in 0..Len(source)
                 /\ pattern.kind = "text" =>
                      /\ p.end = (IF pattern.text = <<>> THEN Len(source)
                                  ELSE Least(found, Len(source) + 1) - 1)
                      /\ p.next = Smaller(p.end + Len(pattern.text), Len(source))
                 /\ pattern.kind \in {"back", "ahead", "to"} =>
                      /\ p.end = IF p.next > p.from /\ pattern.kind # "back" THEN p.next
                                 ELSE Len(source)
                      /\ p.point = p.next
                 /\ \A i \in 1..(n - 1) :
                        p.words[i] = IF i <= Len(WordTexts(text)) THEN WordTexts(text)[i]
                                     ELSE <<>>
                 /\ n > 0 => /\ IsSuffix(p.words[n], text)
                             /\ WordTexts(p.words[n]) = SubSeq(WordTexts(text), n, Len(WordTexts(text)))
        /\ \A k \in 1..Len(right) : \A w \in ToSet(answer.parsed[2][k].words) : w = <<>>
=============================================================================
