----------------------------- MODULE BuiltinsMC ------------------------------
\* Every string of a few letters and blanks, templates with every sort of pattern,
\* numbers with the digits where carries, borrows and halves happen, up to two
\* digits longer than DIGITS, and programs of a few clauses, for TLC.
EXTENDS Programs

Strings(bytes, n) == UNION {[1..k -> bytes] : k \in 0..n}

SomeTexts == Strings({Space, 97, 98}, 4)
    \cup {<<97, 9, 98>>, <<98, 97, 98, 97, 98, 97>>, <<97, 97, 98, 97, 97, 98>>,
          <<Space, 97, 32, 98, 98, 32, 97, 98>>, <<97, 32, 32, 98, 32, 97, 97>>}
SomeOthers == Strings({97, 98}, 2)
    \cup {<<Space>>, <<97, Space>>, <<97, Space, 98>>, <<97, Space, 98, 98>>,
          <<98, 97, 97>>, <<97, 98, 97>>, <<98, 97, 98, 97>>}
SomeNumerals == Strings({Space, 48, 49, 102}, 4) \cup Strings({49, 67, Space, 71}, 3)
    \cup {<<49, 48, Space, 48, 49, 49, 48>>, <<49, Space, 48, 49, 49, 48>>}
SomeBytestrings == Strings({0, 1, 129, 255}, 2) \cup {<<1, 0, 128>>, <<127, 255, 7>>}
SomeWholes == {-257, -256, -129, -128, -1, 0, 1, 127, 128, 255, 256, 257, 32768, 65535, 65536}

Text(t) == [kind |-> "text", text |-> t, by |-> 0]
By(kind, n) == [kind |-> kind, text |-> <<>>, by |-> n]
ToTheEnd == By("last", 0)
Patterns == {Text(<<>>), Text(<<97>>), Text(<<97, 98>>), Text(<<Space>>),
             [kind |-> "variable", name |-> "x"],
             By("ahead", 0), By("ahead", 2), By("back", 1), By("to", 2), By("to", 9)}
Names == {<<>>, <<"x">>, <<"y", "x">>, <<"x", Place, "y">>}
Piece(names, pattern) == [names |-> names, pattern |-> pattern]
Templates3 == {<<Piece(<<"x">>, p), Piece(n, q), Piece(<<"y", "x">>, ToTheEnd)>> :
                  p, q \in Patterns, n \in Names}
    \cup {<<Piece(n, ToTheEnd)>> : n \in Names}
SomeSources == {<<97, 32, 98>>, <<32, 97, 98, 32, 32, 97, 98, 32>>, <<97, 98, 97, 97, 98>>,
                <<98, 32, 66, 65, 98>>, <<>>, <<98, 97, 32, 97, 98, 32, 98>>}

Mantissas == {1, 4, 5, 9, 10, 14, 45, 49, 50, 55, 90, 95, 99, 100, 104, 105, 145, 149,
              449, 450, 495, 500, 505, 945, 950, 995, 999}
LongOnes == {1004, 9495, 9999}

Numbers(mantissas, exps) ==
    {[neg |-> FALSE, m |-> 0, size |-> 1, exp |-> 1]} \cup
    {[neg |-> n, m |-> m, size |-> Cardinality({k \in 0..9 : 10^k <= m}), exp |-> e] :
                    n \in BOOLEAN, m \in mantissas, e \in exps}

SomeLefts == Numbers(Mantissas, {1, 2}) \cup Numbers(LongOnes, {2})
SomeRights == Numbers(Mantissas \cup LongOnes, -1..3)
Unsaid == -1    \* NotGiven
SomeFormats == {Unsaid, 2} \X {Unsaid, 0, 1, 2} \X {Unsaid, 0, 1} \X {Unsaid, 0, 3}
SomeShifts == {-7, -1, 0, 1, 5, 8, 9}
\* Stems for RXFUNCDEFINE: values, strings and bytes with a pointer and without, in
\* containers and arrays in each other, and LIKEs in circles.
Line(type, indirect, bits, count, items) ==
    [type |-> type, indirect |-> indirect, bits |-> bits, like |-> "no line",
     count |-> count, items |-> items]
Leaf(type, indirect, bits) == Line(type, indirect, bits, Unsaid, <<>>)
LikeLine(indirect, name) == [Line("CONTAINER", indirect, Unsaid, Unsaid, <<>>) EXCEPT !.like = name]
Stem(lines, args, return, words) ==
    [lines |-> lines, args |-> args, return |-> return, words |-> words]
Many(type, indirect, items) == Line(type, indirect, Unsaid, 2, items)

Values == {Leaf("INTEGER", FALSE, 32), Leaf("CHAR", TRUE, Unsaid), Leaf("STRING", FALSE, 5),
           Leaf("RAW", TRUE, 16), Leaf("RAW", TRUE, 7), Leaf("UNSIGNED", TRUE, 64)}
Firsts == {Many(t, TRUE, <<"b", "c">>) : t \in {"CONTAINER", "ARRAY"}} \cup Values
Seconds == {Many(t, i, <<"c", "d">>) : t \in {"CONTAINER", "ARRAY"}, i \in BOOLEAN}
    \cup {LikeLine(TRUE, "e")} \cup Values
Nested == {Stem([a |-> a, b |-> b, c |-> c, d |-> Leaf("STRING", TRUE, 3),
                 e |-> Many("ARRAY", FALSE, <<"d">>)], <<"a">>, "no line", <<"CDECL">>) :
              a \in Firsts, b \in Seconds, c \in {Leaf("CHAR", FALSE, 8), Leaf("INTEGER", TRUE, 16)}}
Flat == {Stem([a |-> a, b |-> b, c |-> c], <<"a", "b">>, r, words) :
            a, b \in Values, c \in {Leaf("FLOAT", FALSE, Unsaid), Leaf("INTEGER", TRUE, 32)},
            r \in {"no line", "c"},
            words \in {<<"PASCAL", "WITH", "PARAMETERS">>, <<"STDCALL">>,
                       <<"CDECL", "WITH", "PARAMETERS", "AS", "FUNCTION">>}}
Circles == {Stem([a |-> Line("CONTAINER", TRUE, Unsaid, n, items),
                  b |-> b, c |-> LikeLine(TRUE, "a"), d |-> Leaf("CHAR", FALSE, 8)], <<"a">>, "no line", <<"CDECL">>) :
               n \in {1, 2}, items \in {<<"b", "c">>, <<"c", "b">>},
               b \in {Leaf("CHAR", FALSE, 8), Many("CONTAINER", FALSE, <<"d", "d">>),
                      Line("CONTAINER", FALSE, Unsaid, 1, <<"b">>)}}
Wrongs == {Stem([a |-> a], <<"a">>, r, words) :
              a \in {Leaf("INTEGER", FALSE, 24), Leaf("INTEGER", FALSE, 12), Leaf("FLOAT", TRUE, 16),
                     Leaf("RAW", TRUE, 0), Leaf("RAW", FALSE, 0), Leaf("STRING", FALSE, Unsaid),
                     Leaf("WORD", FALSE, 8), Many("ARRAY", FALSE, <<"a">>),
                     Line("ARRAY", TRUE, Unsaid, 0, <<"a">>), LikeLine(TRUE, "z")},
              r \in {"no line", "a"}, words \in {<<"CDECL">>, <<"AS">>, <<"CDECL", "AS", "FUNCTION">>}}
Longer == {Stem([a |-> Leaf("INTEGER", FALSE, 32), b |-> b, c |-> Leaf("CHAR", TRUE, 8)],
                args, "no line", <<"CDECL">>) :
              b \in {Leaf("RAW", FALSE, 12), Leaf("RAW", FALSE, 8)},
              args \in {<<"a", "b", "c">>, <<"a", "b">>}}
SomeStems == Longer \cup Nested \cup Flat \cup Circles \cup Wrongs
SomeFigures == Strings({Space, 45, 48, 49, 57}, 4)
    \cup {<<49, 50, 55>>, <<49, 50, 56>>, <<45, 49, 50, 56>>, <<45, 49, 50, 57>>, <<50, 53, 53>>,
          <<50, 53, 54>>, <<43, 49>>, <<54, 53, 53, 51, 54>>, <<48, 45, 51, 50, 55, 54, 57>>}

\* Programs: as files, as characters, as the words of a clause.
SomeLayouts == {[lines |-> lines, end |-> end, last |-> last] :
                   lines \in Strings({<<>>, <<"a">>, <<"a", "b">>}, 3),
                   end \in {<<"\n">>, <<"\r", "\n">>, <<"\r">>, <<"\n", "\r">>},
                   last \in {<<>>, <<"sub">>}}
LF == "\n"
OpenComment == <<"/", "*">>
CloseComment == <<"*", "/">>
FirstLines == {a \o b \o c : a, b, c \in {<<"a">>, <<" ">>, <<",">>, OpenComment, CloseComment,
                                         <<"quote">>, <<"-", "-">>}}
SecondLines == {<<>>, <<"b">>, <<"b", ",">>} \cup
    {a \o b : a \in {<<>>, <<"b">>}, b \in {CloseComment, OpenComment, OpenComment \o CloseComment,
                                           CloseComment \o <<",">>, CloseComment \o <<"b">>}}
\* Comments that begin with -- and hold a tab or a letter beyond ASCII.
TabLines == {<<"-", "-">> \o a \o b : a \in {<<"a", "\t">>, <<"\t">>, <<"high">>},
                                       b \in {<<>>, <<"b">>, <<",">>, OpenComment, <<"quote">>}}
SomeWritings == {a \o <<LF>> \o b \o c : a \in FirstLines \cup TabLines, b \in SecondLines,
                    c \in {<<>>, <<LF>> \o CloseComment, <<LF, "a", LF>>, <<LF>> \o CloseComment \o <<LF, "b">>}}

Said(words) == [i \in 1..2 * Len(words) |->
                   IF i = 2 * Len(words) THEN ";" ELSE IF i % 2 = 0 THEN " " ELSE words[(i + 1) \div 2]]
RightClauses == {Said(words) : words \in {
    <<"ADDRESS">>, <<"ADDRESS", "a">>, <<"ADDRESS", "a", "'s'">>, <<"ADDRESS", "VALUE", "a">>,
    <<"ADDRESS", "a", "'s'", "WITH", "INPUT", "NORMAL", "OUTPUT", "STREAM", "b">>,
    <<"ADDRESS", "a", "b", "WITH", "INPUT", "NOEOL", "STEM", "s.", "OUTPUT", "APPEND", "LIFO", "b",
      "ERROR", "REPLACE", "FIFO", "'s'">>,
    <<"ADDRESS", "(", "a", ")">>, <<"ARG", "a", ",", "b", ".", "a">>, <<"ARG", "a", "1", "b", "'s'", "a">>,
    <<"ARG", "a", "+", "2", "b", "(", "a", ")", "b">>, <<"ARG", "a", "=", "2", "b", "-", "(", "a", ")">>,
    <<"CALL", "l">>, <<"CALL", "l", "a", ",", "1">>, <<"CALL", "'s'", "b">>, <<"CALL", "ON", "ERROR", "NAME", "l">>,
    <<"CALL", "OFF", "HALT">>, <<"DO", "a", "=", "1", "TO", "2", "BY", "b">>, <<"DO", "FOREVER">>,
    <<"DO", "1", "WHILE", "a">>, <<"DO", "UNTIL", "b">>, <<"DO", "a", "=", "1", "FOR", "2", "WHILE", "b">>,
    <<"DROP", "a", "(", "b", ")">>, <<"UPPER", "a", "b">>, <<"EXIT">>, <<"EXIT", "a">>,
    <<"INTERPRET", "a">>, <<"ITERATE", "a">>, <<"LEAVE">>, <<"NOP">>, <<"NUMERIC", "DIGITS", "1">>,
    <<"NUMERIC", "FORM", "VALUE", "a">>, <<"NUMERIC", "FORM", "ENGINEERING">>, <<"NUMERIC", "FUZZ">>,
    <<"OPTIONS", "a">>, <<"PARSE", "VAR", "a", "b", ".">>, <<"PARSE", "VALUE", "a", "+", "1", "WITH", "b", "1", "a">>,
    <<"PARSE", "UPPER", "ARG", "a", "'s'">>, <<"PARSE", "CASELESS", "LOWER", "LINEIN", "a">>, <<"PARSE", "SOURCE", "b">>,
    <<"PROCEDURE">>, <<"PROCEDURE", "EXPOSE", "a", "(", "b", ")">>, <<"PULL", "a", ".", "b">>, <<"PUSH", "a">>,
    <<"QUEUE">>, <<"RETURN", "a">>, <<"SAY", "a", "+", "b", "*", "2">>, <<"SAY", "a", "b", "'7'x">>,
    <<"SIGNAL", "l">>, <<"SIGNAL", "VALUE", "a">>, <<"SIGNAL", "ON", "SYNTAX", "NAME", "l">>,
    <<"SIGNAL", "OFF", "NOVALUE">>, <<"TRACE", "a">>, <<"TRACE", "VALUE", "a">>, <<"TRACE", "-", "1">>,
    <<"a", "=", "b">>, <<"a", "+", "=", "b">>, <<"a", "|", "|", "=", "1">>, <<"a", "=">>, <<"a", "b">>,
    <<"l", ":", "a">>, <<"IF", "a", "THEN", "NOP">>, <<"SAY", "a", "(", "b", ",", "1", ")">>}}
Without(clause, i) == SubSeq(clause, 1, i - 1) \o SubSeq(clause, i + 1, Len(clause))
Twice(clause, i) == SubSeq(clause, 1, i) \o SubSeq(clause, i, Len(clause))
SomeClauses == RightClauses
    \cup UNION {{Without(c, i) : i \in 1..Len(c) - 1} : c \in RightClauses}
    \cup UNION {{Twice(c, i) : i \in 1..Len(c) - 1} : c \in RightClauses}

SomeFollowers == {c \in RightClauses : c[1] \in {"a", "ADDRESS", "ARG", "CALL", "DO", "NUMERIC", "l"}}

Chunks == {"if", "then", "else", "when", "do", "select", "end", "otherwise", "label", "nop"}
SomeNests == Strings(Chunks, 4)
    \cup {<<"do">> \o n \o <<"end">> : n \in Strings(Chunks, 3)}
    \cup {<<"select", "when", "then">> \o n \o <<"end">> : n \in Strings(Chunks, 3)}
    \cup {<<"if", "then", "if", "then">> \o n \o <<"else", "nop">> : n \in Strings(Chunks, 3)}

Dyads == {<<"+">>, <<"-">>, <<"*">>, <<"*", "*">>, <<"|", "|">>, <<" ">>, <<"=">>, <<"&">>, <<"|">>}
Monads == {<<>>, <<"-">>, <<"not">>}
SomeExpressions ==
    {m \o <<"a">> \o p \o n \o <<"b">> \o q \o <<"1">> : m, n \in Monads, p, q \in Dyads}
    \cup {<<"(", "a">> \o p \o <<"b", ")">> \o q \o <<"1">> : p, q \in Dyads}
    \cup Strings({"a", "+", "*", "(", ")", "not"}, 4)
SomeActuals == Strings({"a", "+", "(", ")", ","}, 4)
=============================================================================
