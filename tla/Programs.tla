------------------------------ MODULE Programs -------------------------------
(***************************************************************************)
(* From the text of a program to its tree: lines, characters without       *)
(* comments, tokens, clauses.  Each step is one action, and its result is  *)
(* compared with what the language says of the whole text.                 *)
(***************************************************************************)
EXTENDS Services
CONSTANTS
    Layouts,        \* files as [lines, end, last]: lines, what ends them, and what is behind them
    Writings,       \* texts, as characters
    Clauses,        \* clauses, as the atoms of Scanner
    Followers,      \* clauses that follow them
    Nests,          \* programs, as the names of clauses
    Expressions,    \* expressions, as atoms
    Actuals       \* what stands behind CALL l, as atoms

L == INSTANCE SourceLines
P == INSTANCE Parser WITH Names <- {"a", "b", "l", "s."}, Numbers <- {"1", "2"}, Literals <- {"'s'"},
                          HexLiterals <- {"'7'x"}, Stems <- {"s."}

ProgramInit ==
    \/ ServiceInit
    \/ /\ answer = [none |-> TRUE]
       /\ \/ op = "file" /\ left \in Layouts /\ right = <<>>
          \/ op = "source text" /\ left \in Writings /\ right \in {<<>>, <<45>>}
          \/ op = "two clauses" /\ left \in Clauses /\ right \in Followers
          \/ op = "clause" /\ left \in Clauses /\ right = <<>>
          \/ op = "nest" /\ left \in Nests /\ right = <<>>
          \/ op = "expression" /\ left \in Expressions /\ right = <<>>
          \/ op = "argument" /\ left \in Actuals /\ right = <<>>

----------------------------------------------------------------------------
RECURSIVE Ended(_, _), LinesOf(_), Written(_)
Ended(lines, end) ==
    IF lines = <<>> THEN <<>> ELSE Head(lines) \o end \o Ended(Tail(lines), end)
Layout(file) == Ended(file.lines, file.end) \o file.last
LinesOf(text) ==
    LET next == L!get_next_line(text)
    IN  IF next.eof THEN <<>>
        ELSE <<SubSeq(next.line, 1, Len(next.line) - 1)>> \o LinesOf(next.rest)

CutLines == Gives("file", "lines", LinesOf(Layout(left)))
TakeComments == Gives("source text", "comments taken", L!ReadAll(L!Reader(left), right # <<>>))
ScanTwo ==
    Gives("two clauses", "scanned",
          [first |-> P!Scanned(left), second |-> P!Scanned(right), both |-> P!Scanned(left \o right)])

(* The text of each clause of a nest.                                      *)
WordOf(c) ==
    CASE c = "if"     -> <<"IF", " ", "a", ";">>
      [] c = "then"   -> <<"THEN", ";">>
      [] c = "else"   -> <<"ELSE", ";">>
      [] c = "when"   -> <<"WHEN", " ", "a", ";">>
      [] c = "do"     -> <<"DO", ";">>
      [] c = "select" -> <<"SELECT", ";">>
      [] c = "end"    -> <<"END", ";">>
      [] c = "otherwise" -> <<"OTHERWISE", ";">>
      [] c = "label"  -> <<"l", ":">>
      [] c = "nop"    -> <<"NOP", ";">>
Written(nest) == IF nest = <<>> THEN <<>> ELSE WordOf(Head(nest)) \o Written(Tail(nest))

Say(text) == <<"SAY", " ">> \o text \o <<";">>
CallL(text) == <<"CALL", " ", "l", " ">> \o text \o <<";">>
(* An argument is parsed in four ways: as CALL has it, in parentheses, with*)
(* its first and last sign taken for parentheses, and as the extended CALL *)
(* has it.                                                                 *)
Ways(sort) == IF sort = "argument" THEN {"plain", "wrapped", "inner", "extended"} ELSE {"plain"}
SourceFor(sort, way) ==
    CASE sort = "clause"     -> left
      [] sort = "nest"       -> Written(left)
      [] sort = "expression" -> Say(left)
      [] sort = "argument"   ->
            CASE way = "wrapped" -> CallL(<<"(">> \o left \o <<")">>)
              [] way = "inner"   -> CallL(SubSeq(left, 2, Len(left) - 1))
              [] OTHER           -> CallL(left)
ParseSource == \E sort \in {"clause", "nest", "expression", "argument"} :
    Gives(sort, "parsed",
        [sort |-> sort,
         by |-> [way \in Ways(sort) |->
                    P!Parsed(SourceFor(sort, way), IF way \in {"wrapped", "extended"} THEN 1 ELSE 0)]])

ProgramNext ==
    \/ ServiceNext
    \/ CutLines \/ TakeComments \/ ScanTwo \/ ParseSource
ProgramSpec == ProgramInit /\ [][ProgramNext]_vars

----------------------------------------------------------------------------
\* A file has the same lines whichever system wrote it.
LinesRight == op = "lines" => answer = left.lines

----------------------------------------------------------------------------
\* The text as one stream, whose lines do not matter to a comment: comments, which
\* nest, become one backquote, a comma and the end of its line a blank.
LOCAL Two(text, i) == IF i < Len(text) THEN SubSeq(text, i, i + 1) ELSE <<>>
Stream(at, depth, mode, out, err) ==
    [at |-> at, depth |-> depth, mode |-> mode, out |-> out, err |-> err]
RECURSIVE Streamed(_, _, _)
Streamed(s, text, ends) ==
    LET c == text[s.at]
        on(by, depth, mode, piece) ==
            Streamed(Stream(s.at + by, depth, mode, s.out \o piece, ""), text, ends)
        starts == Two(text, s.at) = L!Open
    IN  IF s.at > Len(text) THEN [s EXCEPT !.err = IF s.depth > 0 THEN "6.1" ELSE ""]
        ELSE IF s.depth > 0
        THEN IF starts THEN on(2, s.depth + 1, "plain", <<>>)
             ELSE IF Two(text, s.at) = L!Close THEN on(2, s.depth - 1, "plain", <<>>)
             ELSE on(1, s.depth, "plain", <<>>)
        ELSE IF s.mode = "--"
        THEN IF c \in ends THEN on(1, 0, "plain", <<c>>) ELSE on(1, 0, "--", <<>>)
        ELSE IF s.mode # "plain"
        THEN IF c = L!LF THEN [s EXCEPT !.err = "6.2"]
             ELSE on(1, 0, IF c = s.mode THEN "plain" ELSE s.mode, <<c>>)
        ELSE IF c \in L!Quotes THEN on(1, 0, c, <<c>>)
        ELSE IF starts THEN on(2, 1, "plain", <<L!BackTick>>)
        ELSE IF ends # {} /\ Two(text, s.at) = <<"-", "-">> THEN on(2, 0, "--", <<L!BackTick>>)
        ELSE on(1, 0, "plain", <<c>>)
WithEnd(text) ==
    IF text = <<>> \/ text[Len(text)] = L!LF THEN text ELSE text \o <<L!LF>>
StreamOf(text, ends) == Streamed(Stream(1, 0, "plain", <<>>, ""), WithEnd(text), ends)

(* From a comma on: blanks and comments, and the end of the line.          *)
GapEnd(out, i) ==
    CHOOSE j \in i + 1..Len(out) + 1 :
        /\ \A k \in i + 1..j - 1 : out[k] \in L!MY_ISBLANK
        /\ j \in DOMAIN out => out[j] \notin L!MY_ISBLANK
Continues(out, i) ==
    /\ out[i] = ","
    /\ GapEnd(out, i) \in DOMAIN out
    /\ out[GapEnd(out, i)] = L!LF
RECURSIVE OneLine(_, _)
OneLine(out, i) ==
    IF i > Len(out) THEN <<>>
    ELSE IF Continues(out, i) THEN <<" ">> \o OneLine(out, GapEnd(out, i) + 1)
    ELSE <<out[i]>> \o OneLine(out, i + 1)
Squeezed(out) ==
    LET keep == {i \in DOMAIN out : out[i] # L!BackTick \/ i = 1 \/ out[i - 1] # L!BackTick}
    IN  [n \in 1..Cardinality(keep) |->
            out[CHOOSE i \in keep : Cardinality({j \in keep : j <= i}) = n]]
\* The two cases where the end of a line within a comment is mistaken: blanks before
\* the comment hide the comma, and text behind the comment is refused.
CommentOverEnd(text, i) ==
    \E j \in i + 1..Len(text) - 1 :
        /\ Two(text, j) = L!Open
        /\ \A k \in i + 1..j - 1 : text[k] # L!LF
        /\ \E n \in j..Len(text) : text[n] = L!LF
Mistaken(text) == \E i \in DOMAIN text : text[i] = "," /\ CommentOverEnd(text, i)
ReadAs(ends) ==
    LET ref == StreamOf(left, ends)
    IN  answer.err = ref.err /\ (ref.err = "" => Squeezed(answer.out) = Squeezed(OneLine(ref.out, 1)))
\* A third: a tab, or a byte with its highest bit set, ends a comment that began with --,
\* and the rest of the line is read as program.
CutShort(text) ==
    \E i, j \in DOMAIN text :
        /\ i + 1 < j /\ Two(text, i) = <<"-", "-">> /\ text[j] \in L!BelowBlank \ {L!LF}
        /\ \A k \in i..j : text[k] # L!LF
TextRight ==
    op = "comments taken" =>
        \/ ReadAs(IF right = <<>> THEN {} ELSE {L!LF})
        \/ Mistaken(left)
        \/ right # <<>> /\ CutShort(left) /\ ReadAs(L!BelowBlank)

----------------------------------------------------------------------------
\* No clause changes how the next one is scanned.
ScannedRight ==
    op = "scanned" /\ answer.first.err \in {"", "14.0"} =>
        SubSeq(answer.both.out, 1, Len(answer.first.out) + Len(answer.second.out))
            = answer.first.out \o answer.second.out

----------------------------------------------------------------------------
IsParsed(sort) == op = "parsed" /\ answer.sort = sort
Plain == answer.by["plain"]
Accepted(parsed) == parsed.err = ""

\* The grammar of clauses that hold clauses, with the labels left out.
Unlabelled(nest) == SelectSeq(nest, LAMBDA c : c # "label")
RECURSIVE IsStatement(_), IsStatements(_), IsWhens(_)
From(c, i) == SubSeq(c, i, Len(c))
IsStatement(c) ==
    \/ c = <<"nop">>
    \/ /\ Len(c) > 1 /\ c[1] = "do" /\ c[Len(c)] = "end"
       /\ IsStatements(SubSeq(c, 2, Len(c) - 1))
    \/ /\ Len(c) > 2 /\ c[1] = "if" /\ c[2] = "then"
       /\ \/ IsStatement(From(c, 3))
          \/ \E i \in 4..Len(c) : /\ c[i] = "else"
                                  /\ IsStatement(SubSeq(c, 3, i - 1)) /\ IsStatement(From(c, i + 1))
    \/ /\ Len(c) > 2 /\ c[1] = "select" /\ c[Len(c)] = "end"
       /\ \/ IsWhens(SubSeq(c, 2, Len(c) - 1))
          \/ \E i \in 3..Len(c) - 1 : /\ c[i] = "otherwise" /\ IsWhens(SubSeq(c, 2, i - 1))
                                      /\ IsStatements(SubSeq(c, i + 1, Len(c) - 1))
IsStatements(c) ==
    c = <<>> \/ \E i \in 1..Len(c) : IsStatement(SubSeq(c, 1, i)) /\ IsStatements(From(c, i + 1))
IsWhens(c) ==
    /\ Len(c) > 2 /\ c[1] = "when" /\ c[2] = "then"
    /\ \E i \in 3..Len(c) : /\ IsStatement(SubSeq(c, 3, i))
                            /\ i = Len(c) \/ IsWhens(From(c, i + 1))

(* The clauses as the tree holds them, one after the other.                *)
RECURSIVE Shown(_)
ShownNode(n) ==
    CASE n.type = "LABEL"     -> <<"label">>
      [] n.type = "NOP"       -> <<"nop">>
      [] n.type = "DO"        -> <<"do">> \o Shown(n.p[3]) \o <<"end">>
      [] n.type = "IF"        ->
            <<"if">> \o Shown(Tail(n.p[1])) \o <<"then">> \o Shown(n.p[2])
                     \o IF Len(n.p) = 3 THEN <<"else">> \o Shown(n.p[3]) ELSE <<>>
      [] n.type = "SELECT"    -> <<"select">> \o Shown(n.p[1]) \o Shown(n.p[2]) \o <<"end">>
      [] n.type = "WHEN"      ->
            <<"when">> \o Shown(Tail(n.p[1])) \o <<"then">> \o Shown(n.p[2])
      [] n.type = "OTHERWISE" -> <<"otherwise">> \o Shown(n.p[1])
      [] OTHER                -> <<>>
Shown(chain) == IF chain = <<>> THEN <<>> ELSE ShownNode(chain[1]) \o Shown(Tail(chain))

RECURSIVE NodesOf(_)
NodesOf(chain) ==
    UNION {{chain[i]} \cup UNION {NodesOf(chain[i].p[k]) : k \in DOMAIN chain[i].p} :
              i \in DOMAIN chain}
(* An IF at the end of the chain that an ELSE behind would belong to.      *)
RECURSIVE Dangles(_)
Dangles(chain) ==
    LET clauses == SelectSeq(chain, LAMBDA n : n.type # "LABEL")
        n == P!Last(clauses)
    IN  clauses # <<>> /\ n.type = "IF" /\ (Len(n.p) = 2 \/ Dangles(n.p[3]))
\* What is well nested is a program, wherever the labels are, and its tree has every
\* clause at its place: an ELSE belongs to the last IF without one, and a jump finds
\* the labels that are inside no other clause.
NestRight ==
    IsParsed("nest") =>
        LET tree == Plain.vals[1]
        IN  /\ Accepted(Plain) <=> IsStatements(Unlabelled(left))
            /\ Accepted(Plain) =>
                 /\ Shown(tree) = left
                 /\ \A n \in NodesOf(tree) : n.type = "IF" /\ Len(n.p) = 3 => ~Dangles(n.p[2])
                 /\ \A i \in DOMAIN tree : tree[i].type = "LABEL" => tree[i].u = {}
                 /\ \A i \in DOMAIN tree : \A k \in DOMAIN tree[i].p : \A n \in NodesOf(tree[i].p[k]) :
                        n.type = "LABEL" => n.u = {"trace_only"}
                 /\ Len(Plain.labels) = Cardinality({i \in DOMAIN left : left[i] = "label"})

----------------------------------------------------------------------------
\* The tree of an expression, found from outside: the last operator of the lowest
\* level that is in no parentheses, else the sign in front, else what stands in the
\* parentheses.
NoTree == [op |-> "none", name |-> "", kids |-> <<>>]
TreeOf(type, name, kids) ==
    IF \E i \in DOMAIN kids : kids[i] = NoTree THEN NoTree ELSE [op |-> type, name |-> name, kids |-> kids]
Opens(t) == t \in {"(", "INFUNCNAME"}
Depth(tokens, i) ==
    Cardinality({k \in 1..i : Opens(tokens[k].t)}) - Cardinality({k \in 1..i : tokens[k].t = ")"})
EndsOperand(t) == t \in P!Operands \cup {")"}
Dyadic(tokens) ==
    {i \in 2..Len(tokens) : /\ P!Level(tokens[i].t) > 0 /\ EndsOperand(tokens[i - 1].t)
                            /\ Depth(tokens, i) = 0}
PrefixType(t) == CASE t = "+" -> "U_PLUSS" [] t = "-" -> "U_MINUS" [] t = "NOT" -> "NOT"
Enclosed(tokens) ==
    /\ Len(tokens) > 1 /\ tokens[Len(tokens)].t = ")"
    /\ \A i \in 1..Len(tokens) - 1 : Depth(tokens, i) > 0
RECURSIVE Derivation(_)
Derivation(tokens) ==
    LET ops  == Dyadic(tokens)
        low  == {i \in ops : \A j \in ops : P!Level(tokens[i].t) <= P!Level(tokens[j].t)}
        last == CHOOSE i \in low : \A j \in low : j <= i
        inner == SubSeq(tokens, 2, Len(tokens) - 1)
    IN  CASE tokens = <<>> -> NoTree
          [] ops # {} -> TreeOf(tokens[last].t, "", <<Derivation(SubSeq(tokens, 1, last - 1)),
                                                    Derivation(From(tokens, last + 1))>>)
          [] ops = {} /\ tokens[1].t \in {"+", "-", "NOT"} ->
                TreeOf(PrefixType(tokens[1].t), "", <<Derivation(Tail(tokens))>>)
          [] ops = {} /\ Enclosed(tokens) /\ tokens[1].t = "(" -> Derivation(inner)
          [] ops = {} /\ Enclosed(tokens) /\ tokens[1].t = "INFUNCNAME" ->
                IF inner = <<>> THEN TreeOf("IN_FUNC", tokens[1].v, <<>>)
                ELSE TreeOf("IN_FUNC", tokens[1].v, <<Derivation(inner)>>)
          [] Len(tokens) = 1 /\ tokens[1].t \in P!Operands ->
                TreeOf(IF tokens[1].t = "SIMSYMBOL" THEN "SIM_SYMBOL" ELSE "STRING", tokens[1].v, <<>>)
          [] OTHER -> NoTree
RECURSIVE AsTree(_)
AsTree(n) ==
    LET kids == IF n.type # "IN_FUNC" THEN n.p
                ELSE IF n.p[1][1].p[1] = <<>> THEN <<>> ELSE n.p[1][1].p
    IN  [op |-> n.type, name |-> n.name, kids |-> [i \in DOMAIN kids |-> AsTree(kids[i][1])]]
ExpressionRight ==
    IsParsed("expression") =>
        LET tokens == SubSeq(Plain.in, 2, Len(Plain.in) - 2)
            value  == Plain.vals[1][1].p[1]
        IN  /\ Accepted(Plain) <=> (tokens = <<>> \/ Derivation(tokens) # NoTree)
            /\ Accepted(Plain) /\ tokens # <<>> => AsTree(value[1]) = Derivation(tokens)

----------------------------------------------------------------------------
\* CALL with its arguments in parentheses takes what CALL without them takes, and
\* takes it for the same.
SameTree(a, b) == Accepted(a) /\ Accepted(b) /\ a.vals = b.vals
ArgumentRight ==
    IsParsed("argument") =>
        /\ Accepted(Plain) => /\ SameTree(answer.by["extended"], Plain)
                              /\ SameTree(answer.by["wrapped"], Plain)
        /\ Accepted(answer.by["extended"]) /\ ~Accepted(Plain) =>
             /\ left[1] = "(" /\ left[Len(left)] = ")"
             /\ SameTree(answer.by["extended"], answer.by["inner"])

----------------------------------------------------------------------------
\* The names, numbers and strings of a clause, as its tree holds them.
RECURSIVE Listed(_), ListedAll(_)
ListedAll(chains) == IF chains = <<>> THEN <<>> ELSE Listed(chains[1]) \o ListedAll(Tail(chains))
Listed(chain) ==
    IF chain = <<>> THEN <<>>
    ELSE LET n == chain[1]
         IN  (IF n.name \in P!Atoms THEN <<n.name>> ELSE <<>>)
             \o ListedAll(IF n.type = "TPL_SYMBOL" THEN <<n.p[2], n.p[1]>> ELSE n.p)
             \o Listed(Tail(chain))
\* Nothing that a clause names is lost on the way into the tree, doubled or moved.
ClauseKept ==
    IsParsed("clause") /\ Accepted(Plain) =>
        LET named == SelectSeq(Plain.in, LAMBDA tok : tok.v \in P!Atoms)
        IN  Listed(Plain.vals[1]) = [i \in DOMAIN named |-> named[i].v]

----------------------------------------------------------------------------
\* The source of a program becomes the tree that stands for it: its lines whatever
\* ends them, its text without comments and line ends that continue, its tokens
\* clause by clause, and a tree with the clauses nested as they are written.
\* get_next_line, fill_buffer, the rules of lexsrc.l, the productions of yaccsrc.y.
ProgramsRead ==
    /\ LinesRight /\ TextRight /\ ScannedRight
    /\ NestRight /\ ExpressionRight /\ ArgumentRight /\ ClauseKept
=============================================================================
