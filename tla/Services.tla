------------------------------ MODULE Services -------------------------------
(***************************************************************************)
(* The parts of the interpreter that keep no state from one call to the    *)
(* next, called one at a time: the functions on strings and numbers, PARSE,*)
(* and the generic call interface, where a function is defined and called. *)
(***************************************************************************)
EXTENDS Builtins
CONSTANTS
    Descriptions,       \* the stems RXFUNCDEFINE is given
    Figures,            \* numbers as they may stand in a stem
    MaxLikes, GCI_ARGS, \* as in Gci and GciCall
    MaxUnset            \* bound: the variables that are not set in one call

G == INSTANCE GciCall

ASSUME GciAssumption == MaxLikes \in Nat /\ GCI_ARGS \in Nat /\ MaxUnset \in Nat

ServiceInit ==
    \/ CallInit
    \/ /\ answer = [none |-> TRUE]
       /\ right = <<>>
       /\ \/ op = "stem" /\ left \in Descriptions
          \/ op = "figure" /\ left \in Figures

----------------------------------------------------------------------------
(* The items of a description by the paths of their variables, as a reader *)
(* of the stem sees them.                                                  *)
ItemAt(path, line) == [path |-> path, line |-> line]
Source(d, line) == IF line.like = G!NoLine THEN line ELSE d.lines[line.like]
RECURSIVE Places(_, _, _)
Places(d, name, path) ==
    LET line == d.lines[name]
        from == Source(d, line)
    IN  {ItemAt(path, [line EXCEPT !.count = from.count])} \cup
        (IF line.type \notin G!Composite THEN {}
         ELSE UNION {Places(d, from.items[IF line.type = "ARRAY" THEN 1 ELSE i],
                            Append(path, i)) : i \in 1..from.count})
AllPlaces(d) == UNION {Places(d, d.args[i], <<i>>) : i \in DOMAIN d.args}
Above(q, p) == Len(q.path) < Len(p.path) /\ SubSeq(p.path, 1, Len(q.path)) = q.path
IndirectOnes(d) == {p \in AllPlaces(d) : p.line.indirect}
PathsOf(places) == {p.path : p \in places}

Define == Gives("stem", "defined", G!parseTree(left))
Few(set) == {s \in SUBSET set : Cardinality(s) <= MaxUnset}
Call ==
    /\ op = "defined"
    /\ answer.rc = "ok"
    /\ \E unset \in Few(PathsOf(IndirectOnes(left))), nulls \in 0..5,
          wrong \in {{}} \cup {{path} : path \in PathsOf(AllPlaces(left))},
          argc \in {1, Len(left.args), Len(left.args) + 1} :
        LET call == [unset |-> unset, wrong |-> wrong, nulls |-> nulls, argc |-> argc]
        IN  /\ wrong # {} => nulls = 0 /\ argc = 1
            /\ op' = "called"
            /\ answer' = [call |-> call, ti |-> answer, made |-> G!GCI_execute(answer, call)]
            /\ UNCHANGED <<left, right>>
Figure == \E size \in {1, 2} :
    Gives("figure", "number read",
          [size |-> size, int |-> G!GCI_string2bin(left, size, "INTEGER"),
           uint |-> G!GCI_string2bin(left, size, "UNSIGNED")])

ServiceNext == CallNext \/ Define \/ Call \/ Figure
ServiceSpec == ServiceInit /\ [][ServiceNext]_vars

----------------------------------------------------------------------------
\* What must be in the variables after a call that left memory as it was: under an
\* argument that is indirect every variable as it was given, and none behind a
\* pointer that is not set.
Behind(d, p, unset) ==
    \E q \in IndirectOnes(d) : q.path \in unset /\ (q = p \/ Above(q, p))
KindOf(d, p, unset) ==
    IF Behind(d, p, unset) THEN G!Dropped
    ELSE IF p.line.type \in G!Composite THEN G!Count(p.line.count) ELSE G!Given(p.path)
Kept(d, unset) ==
    {G!Set(p.path, KindOf(d, p, unset)) :
        p \in {q \in AllPlaces(d) : d.lines[d.args[q.path[1]]].indirect}}

\* The shift of the outer array is forgotten behind the pointers of its items, so
\* that what lies behind pointers there is written to one place for all items.
ShiftForgotten(d) ==
    \E p, q \in IndirectOnes(d), r \in AllPlaces(d) :
        Above(q, p) /\ Above(r, q) /\ r.line.type = "ARRAY" /\ p.path[Len(r.path) + 1] > 1
\* A RAW that is not set and fills its room is cleared one byte too far.
OneTooFar(d, call) ==
    \E p \in IndirectOnes(d) : p.path \in call.unset /\ p.line.type = "RAW"
                               /\ p.line.bits % G!GCI_ALIGNMENT = 0

\* Bytes that are passed themselves and fill no whole elements of the stack.
OddSized(d) ==
    \E i \in DOMAIN d.args : LET line == d.lines[d.args[i]]
                            IN  ~line.indirect /\ line.type \in G!Text /\ line.bits > G!Pointer
                                /\ line.bits % G!Pointer # 0

Marshalled ==
    \/ answer.ti.callinfo.with_parameters
    \/ IF answer.call.nulls = 0
       THEN Kept(left, answer.call.unset) \subseteq answer.made.set
       ELSE \E nulled \in {{}} \cup {{path} : path \in PathsOf(IndirectOnes(left))} :
                Kept(left, answer.call.unset \cup nulled) \subseteq answer.made.set
AllInside == \A k \in DOMAIN answer.made.written :
    answer.made.written[k].at + answer.made.written[k].length <= answer.ti.size

\* What a call puts into memory lies inside the memory reckoned when the function was
\* defined, and comes back from it as it was, through all the pointers; nothing is
\* called when one of the values cannot be converted.
MarshalRight ==
    op = "called" =>
        /\ answer.ti.w.asserts
        /\ answer.made.rc = "ok" =>
             \/ answer.made.asserts /\ AllInside /\ Marshalled
             \/ ShiftForgotten(left) \/ OneTooFar(left, answer.call) \/ OddSized(left)
        /\ \E p \in AllPlaces(left) : p.path \in answer.call.wrong
               /\ p.line.type \notin G!Composite /\ ~Behind(left, p, answer.call.unset)
           => answer.made.rc # "ok"

----------------------------------------------------------------------------
\* The circle of LIKEs is not counted when a container ends before it goes on.
Miscounted(d) ==
    \E name \in DOMAIN d.lines :
        LET items == d.lines[name].items
        IN  \E i, j \in 1..Len(items) :
               i < j /\ d.lines[items[i]].type \in G!Composite
                     /\ d.lines[items[j]].like # G!NoLine
\* Reading a description ends, LIKE or not, save in that case.
DefineEnds == op = "defined" => (answer.rc = "never ends" => Miscounted(left))

----------------------------------------------------------------------------
\* A number is blanks, a sign, digits and blanks; zeros before the sign are taken too.
Figured(text, signs, digits) ==
    \E from, sign, to \in 1..Len(text) + 1 :
        /\ \A i \in (1..from - 1) \cup (to..Len(text)) : text[i] = Space
        /\ sign \in from..to
        /\ SubSeq(text, from, sign - 1) \in signs
        /\ digits = SubSeq(text, sign, to - 1) /\ digits # <<>>
        /\ \A i \in sign..to - 1 : G!IsDigit(text[i])
DigitStrings(text) == {SubSeq(text, i, j) : i, j \in 1..Len(text)} \ {<<>>}
Signs(text) == {<<>>, <<43>>, <<45>>}
    \cup {[i \in 1..k + 1 |-> IF i > k THEN sign ELSE 48] : k \in 1..Len(text), sign \in {43, 45}}
FigureRight ==
    op = "number read" =>
        /\ answer.uint.rc = "ok" <=>
             \E digits \in DigitStrings(left) : Figured(left, {<<>>}, digits)
                 /\ G!ValueOf(digits) < 2^(8 * answer.size)
                 /\ G!ValueOf(digits) = answer.uint.value
        /\ answer.int.rc = "ok" <=>
             \E digits \in DigitStrings(left), sign \in Signs(left) :
                /\ Figured(left, {sign}, digits)
                /\ LET v == IF sign # <<>> /\ sign[Len(sign)] = 45 THEN -G!ValueOf(digits)
                            ELSE G!ValueOf(digits)
                   IN  v \in -(2^(8 * answer.size - 1))..2^(8 * answer.size - 1) - 1
                       /\ v = answer.int.value
        /\ answer.int.rc = "ok" =>
             LET again == G!GCI_bin2string(answer.int.value, answer.size, "INTEGER")
             IN  G!string2int(again, answer.size) = answer.int

\* Functions of a library that are called by the description of their arguments.
\* GCI_ParseTree, GCI_execute, GCI_string2bin.
ForeignCallsRight == MarshalRight /\ DefineEnds /\ FigureRight
=============================================================================
