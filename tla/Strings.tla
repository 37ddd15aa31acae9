------------------------------- MODULE Strings -------------------------------
(***************************************************************************)
(* The built-in functions on strings and words: builtin.c, the search of   *)
(* parsing.c, and the functions cmsfuncs.c and arxfuncs.c add.  A string   *)
(* is a sequence of bytes.  A function answers with the string it makes,   *)
(* the room it asked for and the last place it touched.                    *)
(***************************************************************************)
EXTENDS Integers, Sequences, FiniteSets, SequencesExt

Absent == -1    \* an argument left out
Space == 32
IsBlank(c) == c \in {Space} \cup (9..13)
ToUpper(c) == IF c \in 97..122 THEN c - 32 ELSE c
ToLower(c) == IF c \in 65..90 THEN c + 32 ELSE c

\* A new string, in a room for so many bytes.
Made(text, room) == [text |-> text, room |-> room, top |-> Len(text)]

Least(S, otherwise) ==
    IF S = {} THEN otherwise ELSE CHOOSE x \in S : \A y \in S : x <= y
Greatest(S, otherwise) ==
    IF S = {} THEN otherwise ELSE CHOOSE x \in S : \A y \in S : x >= y
Larger(a, b) == IF a > b THEN a ELSE b
Smaller(a, b) == IF a < b THEN a ELSE b
Times(c, n) == [k \in 1..Larger(n, 0) |-> c]
Given(arg, default) == IF arg = Absent THEN default ELSE arg
\* The byte at place k, or what happens to lie in memory after the string.
ByteAt(s, k, after) == IF k <= Len(s) THEN s[k] ELSE after

(* Words: the two loops every function on words is made of. *)
PastBlanks(s, i) == Least({k \in i..Len(s) : ~IsBlank(s[k])}, Len(s) + 1)
PastSolid(s, i) == Least({k \in i..Len(s) : IsBlank(s[k])}, Len(s) + 1)
NextWord(s, i) == PastBlanks(s, PastSolid(s, i))
\* Where the loops of WORDINDEX, DELWORD, ... stand after skipping n - 1 words.
AtWord(s, i, n) ==
    LET at[k \in 1..n] == IF k = 1 THEN i ELSE NextWord(s, at[k - 1])
    IN  at[n]
WordNo(s, n) == AtWord(s, PastBlanks(s, 1), n)

std_wordindex(s, n) == LET p == WordNo(s, n) IN IF p <= Len(s) THEN p ELSE 0
std_wordlength(s, n) == LET p == WordNo(s, n) IN PastSolid(s, p) - p

\* WORDS and WORD count the blanks that end a word instead.
WordEnds(s) == {i \in 2..Len(s) : IsBlank(s[i]) /\ ~IsBlank(s[i - 1])}
WordStarts(s) == {i \in 1..Len(s) : ~IsBlank(s[i]) /\ (i = 1 \/ IsBlank(s[i - 1]))}
OpenEnd(s) == s # <<>> /\ ~IsBlank(s[Len(s)])
std_words(s) == Cardinality(WordEnds(s)) + (IF OpenEnd(s) THEN 1 ELSE 0)
std_word(s, n) ==
    LET ends == WordEnds(s)
        stop == IF Cardinality(ends) >= n
                THEN CHOOSE i \in ends : Cardinality({k \in ends : k <= i}) = n
                ELSE IF Cardinality(ends) = n - 1 /\ OpenEnd(s) THEN Len(s) + 1 ELSE 0
        start == Greatest({i \in WordStarts(s) : i < stop}, 1)
    IN  SubSeq(s, start, stop - 1)

std_subword(s, start, length) ==
    LET from == WordNo(s, start)
        upto == IF length = Absent THEN Len(s)
                ELSE IF length = 0 THEN from - 1
                ELSE PastSolid(s, AtWord(s, from, length)) - 1
        solid == Greatest({k \in from..upto : ~IsBlank(s[k])}, from - 1)
    IN  Made(SubSeq(s, from, solid), solid - from + 1)

\* length is -1 when it is left out: then every word goes.
std_delword(s, start, length) ==
    LET from == WordNo(s, start)
        rest == IF length = Absent THEN Len(s) + 1 ELSE AtWord(s, from, length + 1)
    IN  Made(SubSeq(s, 1, from - 1) \o SubSeq(s, rest, Len(s)), Len(s))

\* Does the text from j on begin with the words of the phrase from i on?  The
\* lengths are compared first, with the blanks between the words, and a word is
\* compared without looking at the end of the text.
RECURSIVE SameWords(_, _, _, _, _)
SameWords(phrase, i, text, j, after) ==
    i > Len(phrase) \/
    LET n == PastSolid(phrase, i) - i
        last == Greatest({k \in 1..Len(text) : ~IsBlank(text[k])}, 0)
    IN  /\ \A k \in 0..(n - 1) : phrase[i + k] = ByteAt(text, j + k, after)
        /\ j + n > last \/ IsBlank(text[j + n])
        /\ \/ i + n > Len(phrase)
           \/ SameWords(phrase, PastBlanks(phrase, i + n), text,
                        Least({k \in (j + n)..last : ~IsBlank(text[k])},
                              Larger(j + n, last + 1)), after)
Solid(s) ==     \* without the blanks on either side
    SubSeq(s, PastBlanks(s, 1), Greatest({k \in 1..Len(s) : ~IsBlank(s[k])}, 0))
contained_in(phrase, text, from, after) ==
    /\ Len(Solid(phrase)) <= Len(Solid(SubSeq(text, from, Len(text))))
    /\ SameWords(Solid(phrase), 1, text, PastBlanks(text, from), after)

\* after: the bytes that follow the text in memory.
std_wordpos(phrase, text, start, after) ==
    LET words == {n \in 1..(Len(text) + 1) : n >= start /\ WordNo(text, n) <= Len(text)}
    IN  IF Solid(phrase) = <<>> THEN 0
        ELSE Least({n \in words : contained_in(phrase, text, WordNo(text, n), after)}, 0)

(* Searching. *)
\* Boyer and Moore: how far the pattern may hop, seen from the byte under its end.
\* Places count from 0, as in the code; -1 when the needle is not found.
CaseOf(c, caseless) == IF caseless THEN ToLower(c) ELSE c
HopFar(needle, c, caseless) ==      \* to the first occurrence in the pattern
    Len(needle) - Least({k \in 1..Len(needle) :
                           CaseOf(needle[k], caseless) = CaseOf(c, caseless)}, 0)
Hop(needle, c, caseless) ==
    Len(needle) - Greatest({k \in 1..Len(needle) :
                              CaseOf(needle[k], caseless) = CaseOf(c, caseless)}, 0)
bmstrstr(hay, offset, needle, caseless) ==
    LET n == Len(needle)
        hop(c) == Hop(needle, c, caseless)
        match(i) == \A k \in 1..(n - 1) :
                        CaseOf(hay[i + k], caseless) = CaseOf(needle[k], caseless)
        try[i \in offset..(Len(hay) + n)] ==
            IF i + n > Len(hay) THEN -1
            ELSE IF hop(hay[i + n]) > 0 THEN try[i + hop(hay[i + n])]
            ELSE IF match(i) THEN i ELSE try[i + 1]
        single == {i \in offset..(Len(hay) - 1) :
                      CaseOf(hay[i + 1], caseless) = CaseOf(needle[1], caseless)}
    IN  IF Len(hay) - offset < n THEN -1
        ELSE IF n = 1 THEN Least(single, -1)
        ELSE try[offset]

std_pos(needle, hay, start) ==
    IF needle = <<>> \/ hay = <<>> \/ start > Len(hay) THEN 0
    ELSE bmstrstr(hay, start - 1, needle, FALSE) + 1

std_lastpos(needle, hay, start) ==
    LET from == Smaller(Given(start, Len(hay)), Len(hay))
        n == Len(needle)
    IN  IF n > from \/ n = 0 THEN 0
        ELSE Greatest({i \in 1..(from - n + 1) : SubSeq(hay, i, i + n - 1) = needle}, 0)

\* The occurrences CHANGESTR and COUNTSTR step over.
RECURSIVE Occurrences(_, _, _)
Occurrences(needle, hay, from) ==
    LET at == bmstrstr(hay, from, needle, FALSE)
    IN  IF at = -1 THEN <<>> ELSE <<at>> \o Occurrences(needle, hay, at + Len(needle))
std_countstr(needle, hay) ==
    IF needle = <<>> \/ hay = <<>> THEN 0 ELSE Len(Occurrences(needle, hay, 0))
std_changestr(needle, hay, new) ==
    LET found == IF needle = <<>> \/ hay = <<>> THEN <<>> ELSE Occurrences(needle, hay, 0)
        n == Len(needle)
        from(k) == IF k = 1 THEN 1 ELSE found[k - 1] + n + 1
        pieces == [k \in 1..Len(found) |-> SubSeq(hay, from(k), found[k]) \o new]
    IN  Made(FlattenSeq(pieces) \o SubSeq(hay, from(Len(found) + 1), Len(hay)),
             1 + Len(hay) + (Len(new) - n) * Len(found))

std_abbrev(long, short, length) ==
    LET n == Given(length, Len(short))
    IN  ~(n > Len(short) \/ Len(short) > Len(long)) /\ IsPrefix(short, long)

std_compare(a, b, pad) ==
    LET at(s, k) == IF k <= Len(s) THEN s[k] ELSE pad
    IN  Least({k \in 1..Larger(Len(a), Len(b)) : at(a, k) # at(b, k)}, 0)

std_verify(s, table, match, start) ==
    Least({k \in start..Len(s) : match <=> s[k] \in ToSet(table)}, 0)

(* Making strings. *)
std_left(s, n, pad) ==
    Made([k \in 1..n |-> IF k <= Len(s) THEN s[k] ELSE pad], n)
std_right(s, n, pad) ==
    Made([k \in 1..n |-> IF k > n - Len(s) THEN s[k - n + Len(s)] ELSE pad], n)
\* Half of the bytes too many, or of the pad bytes, go to either side; the odd
\* one is cut or padded on the right.
std_center(s, n, pad) ==
    LET chars == Len(s)
        cut == SubSeq(s, (IF chars > n THEN (chars - n) \div 2 ELSE 0) + 1,
                         IF chars > n THEN chars - (chars - n + 1) \div 2 ELSE chars)
        text == Times(pad, (n - chars) \div 2) \o cut
    IN  Made(text \o Times(pad, n - Len(text)), n)

std_substr(s, start, length, pad) ==
    LET n == IF length # Absent THEN length ELSE Larger(Len(s) - start + 1, 0)
        from == IF Len(s) >= start THEN start - 1 ELSE Len(s)
        copied == Smaller(n, Len(s) - from)
    IN  Made(SubSeq(s, from + 1, from + copied) \o Times(pad, n - copied), n)

\* spot is 0 when it is left out, and the room is then reckoned one too small.
std_overlay(new, old, start, length, pad) ==
    LET spot == Given(start, 0)
        n == Given(length, Len(new))
        lead == SubSeq(old, 1, Smaller(Larger(spot - 1, 0), Len(old)))
        text == lead \o Times(pad, spot - 1 - Len(lead))
                     \o SubSeq(new, 1, Smaller(n, Len(new))) \o Times(pad, n - Len(new))
        rest == Len(lead) + n
    IN  Made(text \o SubSeq(old, rest + 1, Len(old)), Larger(spot + n - 1, Len(old)))

RoomAtEnd(old, spot, n) == n + Len(old)     \* a spot behind the string forgotten
InsertRoom(old, spot, n) == n + Larger(spot, Len(old))
std_insert(new, old, start, length, pad) ==
    LET spot == Given(start, 0)
        n == Given(length, Len(new))
        lead == SubSeq(old, 1, Smaller(spot, Len(old)))
        text == lead \o Times(pad, spot - Len(lead))
                     \o SubSeq(new, 1, Smaller(n, Len(new))) \o Times(pad, n - Len(new))
    IN  Made(text \o SubSeq(old, Len(lead) + 1, Len(old)), InsertRoom(old, spot, n))

std_delstr(s, start, length) ==
    LET n == Larger(Given(length, Len(s) - start + 1), 0)
        lead == SubSeq(s, 1, Smaller(start - 1, Len(s)))
    IN  Made(lead \o SubSeq(s, Len(lead) + n + 1, Len(s)),
             IF start + n > Len(s) THEN start ELSE Len(s) - n)

std_strip(s, leading, trailing, pad) ==
    LET start == IF leading THEN Least({k \in 1..Len(s) : s[k] # pad}, Len(s) + 1) ELSE 1
        stop == IF trailing THEN Greatest({k \in start..Len(s) : s[k] # pad}, start - 1)
                ELSE Len(s)
    IN  Made(SubSeq(s, start, stop), stop - start + 2)

\* Only the space itself counts as a blank here.  Every space after a word gives
\* n pads, and those of a space at the end are taken back.
std_space(s, n, pad) ==
    LET starts == {k \in 1..Len(s) : s[k] # Space /\ (k = 1 \/ s[k - 1] = Space)}
        first == Least(starts, Len(s) + 1)
        gives(k) == IF s[k] # Space THEN <<s[k]>>
                    ELSE IF k > first /\ s[k - 1] # Space THEN Times(pad, n) ELSE <<>>
        text == FlattenSeq([k \in 1..Len(s) |-> gives(k)])
        ends == text # <<>> /\ s[Len(s)] = Space
    IN  [text |-> SubSeq(text, 1, Len(text) - (IF ends THEN n ELSE 0)),
         room |-> Len(s) + Cardinality(starts) * n,
         top |-> Len(text)]

std_translate(s, to, from, pad) ==      \* a table may be the string Absent
    LET place(c) == Least({k \in 1..Len(from.text) : from.text[k] = c}, 0)
        given(k) == IF to.given /\ k <= Len(to.text) THEN to.text[k] ELSE pad
        new(c) == IF ~from.given /\ ~to.given THEN ToUpper(c)
                  ELSE IF ~from.given THEN given(c + 1)
                  ELSE IF place(c) = 0 THEN c ELSE given(place(c))
    IN  Made([k \in 1..Len(s) |-> new(s[k])], Len(s))

std_copies(s, n) ==
    Made(FlattenSeq([k \in 1..n |-> s]), n * Len(s))
std_reverse(s) == Made(Reverse(s), Len(s))
std_xrange(start, stop) ==
    LET n == stop - start + 1
        length == IF n < 1 THEN 256 + n ELSE n
    IN  Made([k \in 1..length |-> (start + k - 1) % 256], length)

\* LOWER, and UPPER of arxfuncs.c: as many bytes are changed from start on as the
\* shorter of the two lengths, also past the end, and the pads follow the string.
ChangeCase(s, start, length, pad, upper) ==
    LET n == IF length # Absent THEN length ELSE Larger(Len(s) - start + 1, 0)
        from == IF Len(s) >= start THEN start - 1 ELSE Len(s)
        changed == Smaller(n, Len(s))
        text == [k \in 1..Len(s) |->
                    IF k <= from \/ k > from + changed THEN s[k]
                    ELSE IF upper THEN ToUpper(s[k]) ELSE ToLower(s[k])]
    IN  [text |-> text \o Times(pad, n - Len(s)),
         room |-> Larger(n, Len(s)), top |-> Larger(from + changed, Larger(n, Len(s)))]
rex_lower(s, start, length, pad) == ChangeCase(s, start, length, pad, FALSE)
arexx_upper(s, start, length, pad) == ChangeCase(s, start, length, pad, TRUE)

\* The gaps get equal shares of what is left, those in the middle one more.  A
\* blank at the end takes the byte after the string along.
cms_justify(s, length, pad, after) ==
    LET chars == Cardinality({k \in 1..Len(s) : ~IsBlank(s[k])})
        gaps == Larger(std_words(s) - 1, 0)
        fits == chars + gaps <= length /\ gaps > 0
        extra == IF fits THEN (length - chars) % gaps ELSE 0
        between == IF fits THEN (length - chars) \div gaps ELSE 1
        initial == IF fits THEN (gaps - extra) \div 2 ELSE 0
        gap(k) == Times(pad, between +
                        (IF k > initial /\ k <= initial + extra THEN 1 ELSE 0))
        ends == s # <<>> /\ IsBlank(s[Len(s)]) /\ std_words(s) > 0
        body == FlattenSeq([k \in 1..std_words(s) |->
                    IF k = 1 THEN std_word(s, 1) ELSE gap(k - 1) \o std_word(s, k)])
        text == body \o (IF ends THEN gap(gaps + 1) \o <<after>> ELSE <<>>)
    IN  Made([k \in 1..length |-> IF k <= Len(text) THEN text[k] ELSE pad], length)

cms_find(text, phrase, start, after) == std_wordpos(phrase, text, start, after)
cms_index(hay, needle, start) == std_pos(needle, hay, start)

\* strchr finds the byte 0 that ends the C string, so COMPRESS drops it too.
arexx_compress(s, drop) ==
    Made(SelectSeq(s, LAMBDA c : c # 0 /\ c \notin ToSet(drop)), Len(s))
arexx_hash(s) == FoldLeft(LAMBDA sum, c : (sum + c) % 256, 0, s)
\* TRIM builds a list with the option T and then strips with its own argument's.
arexx_trim(s) == std_strip(s, TRUE, TRUE, Space)

\* ARG(): the number of the last argument given; args holds TRUE for one given.
std_arg_count(args) == Greatest({k \in 1..Len(args) : args[k]}, 0)
std_arg_exists(args, n) == n <= Len(args) /\ args[n]
=============================================================================
