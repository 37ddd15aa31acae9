--------------------------- MODULE InterpreterMC ---------------------------
EXTENDS Interpreter
\* A clause, of which only some of the fields matter.
C(kind) == [kind |-> kind, next |-> 0, body |-> 0, other |-> 0, name |-> "", from |-> 0,
            to |-> {}, by |-> {}, count |-> {}, test |-> "none", raises |-> {},
            type |-> "SYNTAX", on |-> TRUE, signal |-> FALSE, value |-> 0, result |-> FALSE,
            trace_only |-> FALSE]
\* do i = 1 to 2; do j = 2 to 1 by -1 until ..; if .. then iterate i; if .. then leave; end; end
Loops2 == <<
    [C("loop") EXCEPT !.name = "I", !.from = 1, !.to = {2}, !.body = 2, !.next = 8],
    [C("loop") EXCEPT !.name = "J", !.from = 2, !.to = {1}, !.by = {-1}, !.test = "until",
                      !.body = 3, !.next = 7],
    [C("if") EXCEPT !.body = 4, !.next = 5],
    [C("iterate") EXCEPT !.name = "I"],
    [C("if") EXCEPT !.body = 6, !.other = 9],
    [C("leave") EXCEPT !.name = ""],
    [C("select") EXCEPT !.body = 10, !.other = 14],
    C("exit"),
    [C("leave") EXCEPT !.name = "I"],
    [C("when") EXCEPT !.body = 11, !.next = 12], [C("leave") EXCEPT !.name = "I"],
    [C("when") EXCEPT !.body = 13], C("do"), [C("otherwise") EXCEPT !.body = 15],
    [C("do") EXCEPT !.body = 16], C("plain")>>
\* A condition that is called for, in a loop, a routine and its own handler.
Called == <<
    [C("trap") EXCEPT !.type = "NOTREADY", !.name = "H", !.next = 2],
    [C("loop") EXCEPT !.name = "I", !.from = 1, !.to = {2}, !.test = "until",
                      !.raises = {"NOTREADY"}, !.body = 3, !.next = 6],
    [C("loop") EXCEPT !.count = {2}, !.test = "until", !.raises = {"NOTREADY"},
                      !.next = 4],
    [C("call") EXCEPT !.name = "F", !.raises = {"NOTREADY"}],
    C("plain"),
    C("exit"),
    [C("label") EXCEPT !.name = "F", !.next = 8],
    [C("procedure") EXCEPT !.next = 9],
    [C("trap") EXCEPT !.type = "NOTREADY", !.name = "H", !.next = 10],
    [C("return") EXCEPT !.raises = {"NOTREADY"}],
    [C("label") EXCEPT !.name = "H", !.next = 12],
    [C("plain") EXCEPT !.raises = {"NOTREADY"}, !.next = 13],
    C("return")>>
\* Errors in a function, in a loop and in an interpreted string.
Signalled == <<
    [C("trap") EXCEPT !.type = "SYNTAX", !.signal = TRUE, !.name = "S", !.next = 2],
    [C("loop") EXCEPT !.count = {2}, !.test = "while", !.raises = {"SYNTAX"},
                      !.body = 3, !.next = 6],
    [C("interpret") EXCEPT !.body = 4, !.next = 9],
    [C("loop") EXCEPT !.count = {1}, !.body = 5],
    [C("if") EXCEPT !.raises = {"SYNTAX"}, !.body = 7, !.other = 8],
    C("exit"),
    C("return"), [C("signal") EXCEPT !.name = "T"],
    [C("function") EXCEPT !.name = "F"],
    [C("label") EXCEPT !.name = "F", !.next = 11],
    [C("procedure") EXCEPT !.next = 12],
    [C("loop") EXCEPT !.count = {1}, !.body = 13, !.next = 15],
    [C("numeric") EXCEPT !.name = "FUZZ", !.value = 9, !.next = 14],
    [C("return") EXCEPT !.result = TRUE],
    C("return"),
    [C("label") EXCEPT !.name = "S", !.next = 17],
    [C("address") EXCEPT !.name = "PATH", !.next = 18],
    [C("label") EXCEPT !.name = "T", !.next = 19],
    [C("return") EXCEPT !.result = TRUE]>>
\* A halt, whose handler asks for another treatment of the next one.
Halted == <<
    [C("trap") EXCEPT !.type = "HALT", !.name = "H", !.next = 2],
    [C("loop") EXCEPT !.name = "I", !.from = 1, !.to = {2}, !.body = 3, !.next = 5],
    [C("loop") EXCEPT !.count = {2}, !.next = 4],
    C("plain"),
    C("exit"),
    [C("label") EXCEPT !.name = "H", !.next = 7],
    [C("loop") EXCEPT !.count = {2}, !.body = 8, !.next = 10],
    [C("plain") EXCEPT !.next = 9],
    [C("trap") EXCEPT !.type = "HALT", !.signal = TRUE, !.name = "S"],
    C("return"),
    [C("label") EXCEPT !.name = "S", !.next = 12],
    [C("select") EXCEPT !.body = 13, !.other = 14],
    C("when"), C("no otherwise")>>
\* A program that changes the variable of its loop.
Assigned == <<
    [C("assign") EXCEPT !.name = "V", !.value = 5, !.next = 2],
    [C("loop") EXCEPT !.name = "I", !.from = 1, !.to = {4}, !.by = {2}, !.body = 3, !.next = 4],
    [C("add") EXCEPT !.name = "I", !.value = -1, !.raises = {"SYNTAX"}],
    [C("loop") EXCEPT !.name = "J", !.from = 1, !.to = {2}, !.test = "while", !.next = 5],
    [C("numeric") EXCEPT !.name = "DIGITS", !.value = 5, !.next = 6],
    [C("numeric") EXCEPT !.name = "FORM", !.value = 1, !.next = 7],
    [C("numeric") EXCEPT !.name = "FORM default", !.next = 8],
    [C("address") EXCEPT !.name = ""]>>
\* A halt that comes in front of an OTHERWISE.
Otherwise == <<
    [C("trap") EXCEPT !.type = "HALT", !.name = "H", !.next = 2],
    [C("select") EXCEPT !.body = 3, !.other = 4],
    C("when"), [C("otherwise") EXCEPT !.body = 5], C("plain"),
    [C("label") EXCEPT !.name = "H", !.next = 7], C("return")>>
MCTrees == {Assigned, Loops2, Called, Signalled, Halted, Otherwise}
=============================================================================
