------------------------------ MODULE Templates ------------------------------
(***************************************************************************)
(* PARSE: parsing.c fits a string into a template.  A template is a        *)
(* sequence of pieces; a piece has variables, and the pattern that ends it *)
(* (the last one has none).  The pieces are filled from left to right, and *)
(* a pattern in a variable is read when its piece is reached.              *)
(***************************************************************************)
EXTENDS Strings

Place == ""     \* the placeholder among the variables of a piece: a dot

\* doparse3: the words go to the variables, and the last variable gets what is
\* left, without the one blank that ended the word before it.
doparse3(text, count) ==
    LET from[k \in 1..count] ==
            IF k = 1 THEN 1
            ELSE PastSolid(text, PastBlanks(text, from[k - 1]))
        cut == count > 1 /\ from[count] <= Len(text)  \* the blank after a word
    IN  [k \in 1..count |->
            IF k < count
            THEN SubSeq(text, PastBlanks(text, from[k]),
                              PastSolid(text, PastBlanks(text, from[k])) - 1)
            ELSE SubSeq(text, from[k] + (IF cut THEN 1 ELSE 0), Len(text))]

ClampBelow(n, length) == Larger(n, 0)
Clamp(n, length) == Smaller(Larger(n, 0), length)

\* One piece: from start, with the point of the last match.  where: the end of
\* the text the piece gets, where the next one begins, and the next point.
Where(source, start, point, pattern, caseless) ==
    LET length == Len(source)
        at == bmstrstr(source, start, pattern.text, caseless)
        back == Clamp(point - pattern.by, length)
        ahead == Clamp(point + pattern.by, length)
        to == Clamp(pattern.by - 1, length)
    IN  CASE pattern.kind = "last" ->
                [from |-> start, end |-> length, next |-> length, point |-> point]
          [] pattern.kind = "text" /\ (pattern.text = <<>> \/ at < 0) ->
                [from |-> start, end |-> length, next |-> length, point |-> length]
          [] pattern.kind = "text" /\ pattern.text # <<>> /\ at >= 0 ->
                [from |-> start, end |-> at, next |-> at + Len(pattern.text), point |-> at]
          [] pattern.kind = "back" ->
                [from |-> point, end |-> length, next |-> back, point |-> back]
          [] pattern.kind = "ahead" ->
                [from |-> point, end |-> IF ahead <= point THEN length ELSE ahead,
                 next |-> ahead, point |-> ahead]
          [] pattern.kind = "to" ->
                [from |-> start, end |-> IF to <= start THEN length ELSE to,
                 next |-> to, point |-> to]

\* The value a pattern has when its piece is reached; a variable holds a string
\* or, used as a position, a number.
Value(pattern, values) ==
    IF pattern.kind = "variable"
    THEN [kind |-> "text", text |-> values[pattern.name], by |-> 0] ELSE pattern

RECURSIVE Pieces(_, _, _, _, _, _, _)
Pieces(source, template, k, start, point, values, caseless) ==
    IF k > Len(template) THEN <<>>
    ELSE \* the variables of this piece are set before the next pattern is read
         LET w == Where(source, start, point, Value(template[k].pattern, values), caseless)
             text == SubSeq(source, w.from + 1, w.end)
             names == template[k].names
             words == doparse3(text, Len(names))
             set == [v \in DOMAIN values |->
                        LET last == Greatest({i \in 1..Len(names) : names[i] = v}, 0)
                        IN  IF last = 0 THEN values[v] ELSE words[last]]
         IN  <<[from |-> w.from, end |-> w.end, next |-> w.next, point |-> w.point,
                words |-> words, values |-> set]>>
             \o Pieces(source, template, k + 1, w.next, w.point, set, caseless)

\* What doparse does with the whole template, the variables holding values before.
doparse(source, template, values, caseless) ==
    Pieces(source, template, 1, 0, 0, values, caseless)

\* One template for every argument; UPPER and LOWER change the string first.
Translated(source, case) ==
    CASE case = "upper" -> [k \in 1..Len(source) |-> ToUpper(source[k])]
      [] case = "lower" -> [k \in 1..Len(source) |-> ToLower(source[k])]
      [] case = "as is" -> source
parseargtree(arguments, templates, values, case, caseless) ==
    LET parsed[k \in 1..Len(templates)] ==
            doparse(Translated(IF k <= Len(arguments) THEN arguments[k] ELSE <<>>, case),
                    templates[k],
                    IF k = 1 THEN values
                    ELSE parsed[k - 1][Len(templates[k - 1])].values,
                    caseless)
    IN  parsed
=============================================================================
