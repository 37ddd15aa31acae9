--------------------------------- MODULE Gci ---------------------------------
(***************************************************************************)
(* The generic call interface: the stem given to RXFUNCDEFINE becomes a    *)
(* tree of nodes, and every node a place in the one piece of memory that a *)
(* call fills.  gci_tree.c, gci_prepare.c, gci_rxfuncdefine.c and the      *)
(* numbers of gci_convert.c.                                               *)
(*                                                                         *)
(* A description gives the lines of the stem by name:                      *)
(*   lines    name of a branch -> [type, indirect, bits, like, count, items]*)
(*   args     the names of the branches 1, 2, ...                          *)
(*   return   the name of the branch RETURN, or NoLine                     *)
(*   words    the words of CALLTYPE                                        *)
(* A line that is not set is not in the domain of lines; bits is Unsized   *)
(* where no size is written; like is NoLine or the branch after LIKE.      *)
(***************************************************************************)
EXTENDS Integers, Sequences, FiniteSets

CONSTANT MaxLikes       \* how many LIKEs may be open: 100 in gci_tree.c

NoLine == "no line"
Unsized == -1
NoNode == 0             \* -1 in the code, where nodes count from 0

Pointer == 8            \* sizeof( void * ), and the size of a stack element
GCI_ALIGNMENT == 16
GCI_REXX_ARGS == 32

Composite == {"CONTAINER", "ARRAY"}
Text == {"STRING", "RAW"}

----------------------------------------------------------------------------
(* gci_convert.c: which sizes there are functions for, and numbers.        *)
functable == [INTEGER |-> {1, 2, 4, 8}, UNSIGNED |-> {1, 2, 4, 8}, FLOAT |-> {4, 8},
              CHAR |-> {1}]

GCI_validate(size, type, basetype) ==
    IF type \in Text \cup Composite
    THEN IF basetype THEN "no base type" ELSE "ok"
    ELSE IF size \in functable[type] THEN "ok" ELSE "unsupported type"

Blank == 32
Zero == 48
IsDigit(c) == c \in Zero..Zero + 9

\* The text without the blanks around it and without leading zeros; a sign
\* stops the zeros only when it stands before them.
preparenum(str) ==
    LET full == {i \in 1..Len(str) : str[i] # Blank}
        First(set) == CHOOSE i \in set : \A j \in set : i <= j
        Highest(set) == CHOOSE i \in set : \A j \in set : i >= j
    IN  IF full = {} THEN <<>>
        ELSE LET last == Highest(full)
                 start == {i \in First(full)..last : str[i] # Zero} \cup {last}
             IN  SubSeq(str, First(start), last)

iswhole(str) == \A i \in 1..Len(str) : IsDigit(str[i])

ValueOf(digits) ==
    LET v[n \in 0..Len(digits)] == IF n = 0 THEN 0 ELSE 10 * v[n - 1] + digits[n] - Zero
    IN  v[Len(digits)]

\* The limits of a number of so many bytes; a number of four or eight is never
\* out of its range with the few digits tried here.
Least(size) == IF size \in {1, 2} THEN -(2^(8 * size - 1)) ELSE -2147483647
Greatest(size, signed) ==
    IF size \notin {1, 2} THEN 2147483647
    ELSE IF signed THEN 2^(8 * size - 1) - 1 ELSE 2^(8 * size) - 1

Number(value) == [rc |-> "ok", value |-> value]
NoNumber(rc) == [rc |-> rc]

string2int(str, size) ==
    LET text == preparenum(str)
        signed == text # <<>> /\ text[1] \in {43, 45}
        digits == IF signed THEN Tail(text) ELSE text
        value == IF signed /\ text[1] = 45 THEN -ValueOf(digits) ELSE ValueOf(digits)
    IN  IF text = <<>> \/ Len(text) > 79 \/ ~iswhole(digits) THEN NoNumber("wrong input")
        \* strtoll does not go past a sign without digits
        ELSE IF digits = <<>> \/ value \notin Least(size)..Greatest(size, TRUE)
             THEN NoNumber("number range")
        ELSE Number(value)

string2uint(str, size) ==
    LET text == preparenum(str)
    IN  IF text = <<>> \/ Len(text) > 79 \/ ~iswhole(text) THEN NoNumber("wrong input")
        ELSE IF ValueOf(text) > Greatest(size, FALSE) THEN NoNumber("number range")
        ELSE Number(ValueOf(text))

GCI_string2bin(str, size, type) ==
    CASE type \in {"INTEGER", "UNSIGNED"} /\ size \notin functable[type]
            -> NoNumber("unsupported type")
      [] type = "INTEGER" -> string2int(str, size)
      [] type = "UNSIGNED" -> string2uint(str, size)
      [] type = "CHAR" -> IF size # 1 THEN NoNumber("unsupported type")
                          ELSE IF Len(str) # 1 THEN NoNumber("wrong input")
                          ELSE Number(str[1])
      [] OTHER -> NoNumber("unsupported type")

\* The digits of a number as int2string and uint2string write them.
RECURSIVE InFigures(_)
InFigures(n) == IF n < 10 THEN <<Zero + n>> ELSE Append(InFigures(n \div 10), Zero + (n % 10))

GCI_bin2string(value, size, type) ==
    CASE type \in {"INTEGER", "UNSIGNED"} /\ size \in functable[type]
            -> IF value < 0 THEN <<45>> \o InFigures(-value) ELSE InFigures(value)
      [] type = "CHAR" /\ size = 1 -> <<value>>

----------------------------------------------------------------------------
(* gci_tree.c: one line becomes the information about a type.              *)
Info(type, indirect, size, generated) ==
    [type |-> type, indirect |-> indirect, size |-> size, generated |-> generated]

DefaultBits == [INTEGER |-> 32, UNSIGNED |-> 32, FLOAT |-> 64, CHAR |-> 8]

\* Strings count bytes, all others bits.
BytesOf(line) ==
    IF line.type \in Text THEN line.bits
    ELSE (IF line.bits = Unsized THEN DefaultBits[line.type] ELSE line.bits) \div 8

decode(line, depth) ==
    LET Known(size) == [rc |-> "ok", info |-> Info(line.type, line.indirect, size, FALSE)]
        Bad(rc) == [rc |-> rc]
    IN  CASE line.type \notin Composite \cup Text \cup DOMAIN functable
               -> Bad("unsupported type")
          [] line.type \in Composite
               -> IF line.bits # Unsized \/ (line.type = "ARRAY" /\ line.like # NoLine)
                  THEN Bad("unsupported type")
                  ELSE IF depth = 0 /\ ~line.indirect THEN Bad("no base type")
                  ELSE Known(0)
          [] line.type \in Text /\ line.bits = Unsized -> Bad("unsupported type")
          [] line.type \in Text /\ line.bits > 0 -> Known(line.bits)
          [] line.type \notin Text /\ line.bits > 0 /\ line.bits % 8 # 0
               -> Bad("unsupported type")
          [] OTHER -> LET rc == GCI_validate(BytesOf(line), line.type,
                                             depth > 0 \/ line.indirect)
                      IN  IF rc = "ok" THEN Known(BytesOf(line)) ELSE Bad(rc)

----------------------------------------------------------------------------
(* gci_prepare.c: the nodes, linked while the lines are read.              *)
RECURSIVE Chain(_, _)
Chain(nodes, first) ==
    IF first = NoNode THEN <<>> ELSE <<first>> \o Chain(nodes, nodes[first].sibling)

Kids(nodes, n) == Chain(nodes, nodes[n].child)

RECURSIVE SumOver(_, _)
SumOver(f, indices) ==
    IF indices = <<>> THEN 0 ELSE f[Head(indices)] + SumOver(f, Tail(indices))

\* A pointer stands for what is indirect.
Behind(node) ==
    IF node.type.indirect
    THEN [node EXCEPT !.indirect_size = @ + node.direct_size, !.direct_size = Pointer]
    ELSE node

WidthOf(info) ==
    CASE info.type \in Composite -> 0
      [] info.type = "STRING" -> info.size + 1
      [] OTHER -> info.size

NewNode(w, info) ==
    [type |-> info, parent |-> w.parent, child |-> NoNode,
     sibling |-> IF w.parent = NoNode THEN NoNode ELSE w.nodes[w.parent].child,
     direct_size |-> WidthOf(info), indirect_size |-> 0, direct_pos |-> 0, indirect_pos |-> 0]

\* walker for an item: the newest child comes first.
WalkIn(w, info) ==
    LET idx == Len(w.nodes) + 1
        node == NewNode(w, info)
        linked == IF w.parent = NoNode THEN w.nodes
                  ELSE [w.nodes EXCEPT ![w.parent].child = idx]
    IN  IF info.type \in Composite
        THEN [w EXCEPT !.nodes = Append(linked, node), !.parent = idx]
        ELSE [w EXCEPT !.nodes = Append(linked, Behind(node))]

\* walker at the end of a container: the children come into their order; at the
\* end of an array its only child counts for all the items.
WalkOut(w, info) ==
    LET p == w.parent
        kids == Kids(w.nodes, p)
        Reversed(nodes) ==
            [i \in DOMAIN nodes |->
                IF \E k \in DOMAIN kids : kids[k] = i
                THEN LET k == CHOOSE k \in DOMAIN kids : kids[k] = i
                     IN  [nodes[i] EXCEPT !.sibling = IF k = 1 THEN NoNode ELSE kids[k - 1]]
                ELSE nodes[i]]
        direct == SumOver([i \in DOMAIN w.nodes |-> w.nodes[i].direct_size], kids)
        indirect == SumOver([i \in DOMAIN w.nodes |-> w.nodes[i].indirect_size], kids)
        times == IF info.type = "ARRAY" THEN info.size ELSE 1
        closed == [w.nodes[p] EXCEPT !.child = kids[Len(kids)],
                                     !.direct_size = times * direct,
                                     !.indirect_size = times * indirect]
    IN  [w EXCEPT !.parent = w.nodes[p].parent,
                  !.nodes = [Reversed(w.nodes) EXCEPT ![p] = Behind(closed)]]

----------------------------------------------------------------------------
(* gci_tree.c: the lines of a branch, depth first.  cb holds the result so *)
(* far, the count of LIKEs that is to stop a circle of them, the nodes, and*)
(* the depth that no description without such a circle reaches.            *)
Failing(cb, rc) == [cb EXCEPT !.rc = rc]

\* An indirect array is a container of one array, generated.
IndirectArray == Info("CONTAINER", TRUE, 1, TRUE)
IsIndirectArray(info) == info.type = "ARRAY" /\ info.indirect
Plain(info) == [info EXCEPT !.indirect = FALSE]

Opened(cb, info) ==
    [cb EXCEPT !.w = IF IsIndirectArray(info)
                     THEN WalkIn(WalkIn(@, IndirectArray), Plain(info))
                     ELSE WalkIn(@, info)]

\* The count goes down at the end of every container and array, although only a
\* LIKE made it go up.
Closed(cb, info) ==
    IF cb.rc # "ok" THEN cb
    ELSE [cb EXCEPT !.recur = @ - 1,
                    !.w = IF IsIndirectArray(info)
                          THEN WalkOut(WalkOut(@, Plain(info)), IndirectArray)
                          ELSE WalkOut(@, info)]

Item(line, i) == IF i <= Len(line.items) THEN line.items[i] ELSE NoLine

RECURSIVE parse(_, _, _, _), ParseItems(_, _, _, _, _, _)
ParseItems(d, cb, line, i, n, depth) ==
    IF i > n THEN cb
    ELSE ParseItems(d, parse(d, cb, Item(line, i), depth), line, i + 1, n, depth)

\* The number of items and the items are those of the branch after LIKE.
ParseBranch(d, cb, name, info, depth) ==
    IF name \notin DOMAIN d.lines \/ d.lines[name].count = Unsized
    THEN Failing(cb, "missing name")
    ELSE IF d.lines[name].count = 0 THEN Failing(cb, "number range")
    ELSE LET sized == [info EXCEPT !.size = d.lines[name].count]
             items == IF info.type = "ARRAY" THEN 1 ELSE sized.size
         IN  Closed(ParseItems(d, Opened(cb, sized), d.lines[name], 1, items, depth + 1),
                    sized)

ParseLine(d, cb, name, got, depth) ==
    IF got.rc # "ok" THEN Failing(cb, got.rc)
    ELSE IF got.info.type \notin Composite THEN [cb EXCEPT !.w = WalkIn(@, got.info)]
    ELSE IF d.lines[name].like = NoLine THEN ParseBranch(d, cb, name, got.info, depth)
    ELSE IF cb.recur >= MaxLikes THEN Failing(cb, "nesting overflow")
    ELSE ParseBranch(d, [cb EXCEPT !.recur = @ + 1], d.lines[name].like, got.info, depth)

parse(d, cb, name, depth) ==
    IF cb.rc # "ok" THEN cb
    ELSE IF depth > cb.deepest THEN Failing(cb, "never ends")
    ELSE IF name \notin DOMAIN d.lines THEN Failing(cb, "missing name")
    ELSE ParseLine(d, cb, name, decode(d.lines[name], depth), depth)

\* Every LIKE that is open leads through every line at most once.
Deepest(d) == (MaxLikes + 1) * (Cardinality(DOMAIN d.lines) + 1)

GCI_parsetree(d, w, name) ==
    parse(d, [rc |-> "ok", recur |-> 0, w |-> [w EXCEPT !.parent = NoNode],
              deepest |-> Deepest(d)], name, 0)

----------------------------------------------------------------------------
(* gci_prepare.c: the places.  w holds the nodes, the first free byte      *)
(* (runner) and whether every assertion held.                              *)
SPARE(pos) == IF pos % GCI_ALIGNMENT = 0 THEN 0 ELSE GCI_ALIGNMENT - (pos % GCI_ALIGNMENT)
Align(pos) == pos + SPARE(pos)
Aligned(w) == [w EXCEPT !.runner = Align(@)]

RECURSIVE computePosition(_, _, _), EachChild(_, _, _)
EachChild(w, child, direct) ==
    IF child = NoNode THEN w
    ELSE EachChild(computePosition(w, child, direct), w.nodes[child].sibling, direct)

\* The items of an array after the first, each as long as that one was.
Repeated(w, since, times) == [w EXCEPT !.runner = @ + (times - 1) * (@ - since)]

ClaimDirect(w, n, since) ==
    LET node == w.nodes[n]
        times == IF node.type.type = "ARRAY" THEN node.type.size ELSE 1
    IN  Repeated([w EXCEPT !.asserts = @ /\ node.direct_size \div times = w.runner - since],
                 since, times)

DirectPosition(w, n) ==
    LET node == w.nodes[n]
        here == [w EXCEPT !.nodes[n].direct_pos = w.runner]
    IN  CASE node.type.indirect -> [here EXCEPT !.runner = @ + Pointer]
          [] ~node.type.indirect /\ node.type.type \in Composite
                -> ClaimDirect(EachChild(here, node.child, TRUE), n, w.runner)
          [] OTHER -> [here EXCEPT !.runner = @ + node.direct_size]

\* What lies behind the pointers of a direct array or container: nothing, or
\* rounded up, and so for every item.
ForwardEnd(w, n, before, since) ==
    LET node == w.nodes[n]
        times == IF node.type.type = "ARRAY" THEN node.type.size ELSE 1
    IN  IF w.runner = since THEN [w EXCEPT !.runner = before]
        ELSE [w EXCEPT !.nodes[n].indirect_size = times * (Align(w.runner) - since),
                       !.runner = since + times * (Align(@) - since)]

\* The items of an indirect array or container, then what lies behind theirs.
BehindItems(w, n, since, times) ==
    IF w.runner = since THEN w
    ELSE [w EXCEPT !.nodes[n].indirect_size = @ + times * (Align(w.runner) - since),
                   !.runner = since + times * (Align(@) - since)]
ItemsPlaced(w, n, since, times) ==
    LET sized == [Aligned(w) EXCEPT !.nodes[n].indirect_size = Align(w.runner) - since]
    IN  BehindItems(EachChild(sized, w.nodes[n].child, FALSE), n, sized.runner, times)

IndirectPosition(w, n) ==
    LET node == w.nodes[n]
        times == IF node.type.type = "ARRAY" THEN node.type.size ELSE 1
        at == Align(w.runner)
        here == [w EXCEPT !.nodes[n].indirect_pos = at, !.runner = at]
    IN  CASE node.type.type \in Composite /\ node.type.indirect
               -> ItemsPlaced(Repeated(EachChild(here, node.child, TRUE), at, times),
                              n, at, times)
          [] node.type.type \in Composite /\ ~node.type.indirect
               -> ForwardEnd(EachChild(Aligned(w), node.child, FALSE), n, w.runner, at)
          [] node.type.type \notin Composite /\ node.type.indirect
               -> [here EXCEPT !.runner = Align(@ + node.indirect_size),
                               !.nodes[n].indirect_size = Align(at + @) - at]
          [] OTHER -> w

computePosition(w, n, direct) == IF direct THEN DirectPosition(w, n) ELSE IndirectPosition(w, n)

\* An argument, then what lies behind it.
ArgumentEnd(w, start, before, since) ==
    IF w.runner = since THEN [w EXCEPT !.runner = before]
    ELSE [w EXCEPT !.nodes[start].indirect_size = Align(w.runner) - since,
                   !.runner = Align(@)]
ArgumentBehind(w, start) ==
    ArgumentEnd(computePosition(Aligned(w), start, FALSE), start, w.runner, Align(w.runner))
ArgumentPlaced(w, before, since) == IF w.runner = since THEN [w EXCEPT !.runner = before] ELSE w
computePositions(w, start) ==
    ArgumentBehind(ArgumentPlaced(computePosition(Aligned(w), start, TRUE),
                                  w.runner, Align(w.runner)),
                   start)

----------------------------------------------------------------------------
(* gci_rxfuncdefine.c: the stem as a whole.                                *)
Conventions == {"CDECL", "PASCAL", "STDCALL"}

\* The convention comes first; AS FUNCTION and WITH PARAMETERS are two words each.
CallWord(ci, word) ==
    CASE ci.rc # "ok" -> ci
      [] ci.last = "AS" -> IF word = "FUNCTION"
                           THEN [ci EXCEPT !.as_function = TRUE, !.last = ""]
                           ELSE Failing(ci, "unsupported type")
      [] ci.last = "WITH" -> IF word = "PARAMETERS"
                             THEN [ci EXCEPT !.with_parameters = TRUE, !.last = ""]
                             ELSE Failing(ci, "unsupported type")
      [] ci.last = "" /\ ci.type = "" -> IF word \in Conventions THEN [ci EXCEPT !.type = word]
                                         ELSE Failing(ci, "unsupported type")
      [] OTHER -> IF word \in {"AS", "WITH"} THEN [ci EXCEPT !.last = word]
                  ELSE Failing(ci, "unsupported type")

parseCallType(words) ==
    LET ci[k \in 0..Len(words)] ==
            IF k = 0 THEN [rc |-> "ok", type |-> "", last |-> "", as_function |-> FALSE,
                           with_parameters |-> FALSE]
            ELSE CallWord(ci[k - 1], words[k])
        said == ci[Len(words)]
    IN  IF said.rc = "ok" /\ (said.type = "" \/ said.last # "")
        THEN Failing(said, "unsupported type") ELSE said

NoChild(ti, n) == ti.w.nodes[n].child = NoNode
Sized(ti, more) == [ti EXCEPT !.size = ti.w.runner,
                              !.w.asserts = @ /\ ti.w.runner >= ti.size + more]

\* An argument that was read: a single value where parameters are given, and placed.
ArgumentRead(ti, cb, start) ==
    LET read == [ti EXCEPT !.rc = cb.rc, !.w = cb.w, !.args = Append(@, start)]
    IN  IF cb.rc # "ok" THEN read
        ELSE IF ti.callinfo.with_parameters /\ ~NoChild(read, start)
             THEN Failing(read, "no base type")
        ELSE Sized([read EXCEPT !.w = computePositions(@, start)],
                   cb.w.nodes[start].direct_size + cb.w.nodes[start].indirect_size)

RECURSIVE Arguments(_, _, _)
Arguments(d, ti, i) ==
    IF ti.rc # "ok" \/ i > Len(d.args) THEN ti
    ELSE Arguments(d, ArgumentRead(ti, GCI_parsetree(d, ti.w, d.args[i]), Len(ti.w.nodes) + 1),
                   i + 1)

ReturnRead(ti, cb, start) ==
    LET read == [ti EXCEPT !.rc = cb.rc, !.w = cb.w, !.retval = start]
    IN  IF cb.rc # "ok" THEN read
        ELSE IF ti.callinfo.as_function /\ ~NoChild(read, start)
             THEN Failing(read, "no base type")
        ELSE [read EXCEPT !.w = computePositions(@, start)]

\* Room for one byte at least.
Finished(ti) == [ti EXCEPT !.size = IF ti.w.runner = 0 THEN 1 ELSE ti.w.runner]

GCI_parsenodes(d, callinfo) ==
    LET none == [rc |-> "ok", callinfo |-> callinfo, args |-> <<>>, retval |-> NoNode, size |-> 0,
                 w |-> [nodes |-> <<>>, parent |-> NoNode, runner |-> 0, asserts |-> TRUE]]
        Returning(ti) ==
            IF ti.rc # "ok" \/ d.return = NoLine THEN ti
            ELSE ReturnRead(ti, GCI_parsetree(d, ti.w, d.return), Len(ti.w.nodes) + 1)
    IN  Finished(Returning(Arguments(d, none, 1)))

\* A result is handed back as the function's when there is no stem to hold it.
parseTree(d) ==
    LET said == parseCallType(d.words)
        callinfo == [type |-> said.type, with_parameters |-> said.with_parameters,
                     as_function |-> said.as_function
                         \/ (d.return # NoLine /\ said.with_parameters)]
    IN  IF said.rc # "ok" THEN [rc |-> said.rc]
        ELSE IF Len(d.args) > GCI_REXX_ARGS THEN [rc |-> "number range"]
        ELSE IF d.return = NoLine /\ said.as_function THEN [rc |-> "no base type"]
        ELSE GCI_parsenodes(d, callinfo)
=============================================================================
