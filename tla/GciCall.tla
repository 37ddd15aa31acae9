------------------------------- MODULE GciCall -------------------------------
(***************************************************************************)
(* A call through the generic call interface: the values of a stem, or the *)
(* arguments, are put into memory behind each other and behind pointers,   *)
(* the function is called, and what is indirect is read back.              *)
(* gci_execute.c, gci_call.c, gci_reginabridge.c.                          *)
(*                                                                         *)
(* Memory is the list of the writes made to it since it was cleared: at    *)
(* an address, so many bytes, a value.  A value is known by the path of    *)
(* the item it was given for; a call's unset and wrong are the paths of    *)
(* the variables that are not set, or hold what cannot be converted.       *)
(***************************************************************************)
EXTENDS Gci

CONSTANT GCI_ARGS       \* 50: the elements of the stack of a call

\* What may stand in memory or be set in a variable.
Null == [kind |-> "null"]
Garbage == [kind |-> "garbage"]
Dropped == [kind |-> "dropped"]
Result == [kind |-> "result"]
To(address) == [kind |-> "pointer", to |-> address]
Given(path) == [kind |-> "value", of |-> path]
Count(n) == [kind |-> "count", n |-> n]

Write(at, length, what) == [at |-> at, length |-> length, what |-> what]
Overlap(a, b) == a.at < b.at + b.length /\ b.at < a.at + a.length

\* The latest write that touches the bytes, when it is one of just these bytes;
\* memory starts as zeros.
Load(mem, at, length) ==
    LET place == Write(at, length, Null)
        touching == {i \in DOMAIN mem : Overlap(mem[i], place)}
        last == CHOOSE i \in touching : \A j \in touching : j <= i
    IN  IF touching = {} THEN Null
        ELSE IF mem[last].at = at /\ mem[last].length = length THEN mem[last].what
        ELSE Garbage

----------------------------------------------------------------------------
(* Into memory.  rdr holds the result, the writes, the shifts of the       *)
(* direct and of the indirect places, and whether the assertions held.     *)
Stored(rdr, at, length, what) ==
    [rdr EXCEPT !.mem = Append(@, Write(at, length, what)),
                !.asserts = @ /\ at + length <= rdr.max]
Refused(rdr, rc) == [rdr EXCEPT !.rc = rc]

\* A value that is given: readString, readValue.
Converted(rdr, call, node, at, path) ==
    IF path \in call.wrong
    THEN Refused(rdr, IF node.type.type \in Text THEN "string range" ELSE "wrong input")
    ELSE Stored(rdr, at, WidthOf(node.type), Given(path))

\* A pointer whose variable is not set stays NULL; the room of a string is cleared,
\* with one byte more than there is when it holds no end of string.
Unset(rdr, node) ==
    IF node.type.type \in Text
    THEN Stored(rdr, node.indirect_pos + rdr.ishift, node.type.size + 1, Null)
    ELSE rdr

PointerStored(rdr, node) ==
    IF rdr.rc # "ok" THEN rdr
    ELSE Stored(rdr, node.direct_pos + rdr.dshift, Pointer, To(node.indirect_pos + rdr.ishift))

RECURSIVE readTree(_, _, _, _, _), ReadKids(_, _, _, _, _, _), ReadItems(_, _, _, _, _, _)
\* The children of a container; the one child of a generated one has its name.
ReadKids(rdr, nodes, call, kid, path, i) ==
    IF kid = NoNode \/ rdr.rc # "ok" THEN rdr
    ELSE ReadKids(readTree(rdr, nodes, call, kid, IF i = 0 THEN path ELSE Append(path, i)),
                  nodes, call, nodes[kid].sibling, path, i + 1)
\* The items of an array share one child and are told apart by the shifts.
ReadItems(rdr, nodes, call, n, path, i) ==
    LET size == nodes[n].type.size
    IN  IF rdr.rc # "ok" THEN rdr
        ELSE IF i > size
        THEN [rdr EXCEPT !.dshift = @ - nodes[n].direct_size, !.ishift = @ - nodes[n].indirect_size]
        ELSE ReadItems([readTree(rdr, nodes, call, nodes[n].child, Append(path, i))
                            EXCEPT !.dshift = @ + nodes[n].direct_size \div size,
                                   !.ishift = @ + nodes[n].indirect_size \div size],
                       nodes, call, n, path, i + 1)

EnteredUnshifted(rdr) == [rdr EXCEPT !.ishift = 0]
\* Behind a pointer the places are counted from where it points to, and what lies
\* behind those without any shift; back before it they are as they were.
Entered(rdr) == [rdr EXCEPT !.dshift = rdr.ishift, !.ishift = 0]
Restored(rdr, dshift) == [rdr EXCEPT !.ishift = rdr.dshift, !.dshift = dshift]

ReadContainer(rdr, nodes, call, n, path) ==
    LET node == nodes[n]
        first == IF node.type.generated THEN 0 ELSE 1
    IN  IF rdr.rc # "ok" THEN rdr
        ELSE IF node.type.indirect
        THEN Restored(ReadKids(Entered(rdr), nodes, call, node.child, path, first), rdr.dshift)
        ELSE ReadKids(rdr, nodes, call, node.child, path, first)

readTree(rdr, nodes, call, n, path) ==
    LET node == nodes[n]
        type == node.type.type
    IN  CASE rdr.rc # "ok" -> rdr
          [] rdr.rc = "ok" /\ node.type.indirect /\ path \in call.unset -> Unset(rdr, node)
          [] rdr.rc = "ok" /\ node.type.indirect /\ path \notin call.unset ->
               IF type \notin Composite
               THEN PointerStored(Converted(rdr, call, node, node.indirect_pos + rdr.ishift, path),
                                  node)
               \* the number of items in VALUE must be the number defined
               ELSE IF path \in call.wrong THEN Refused(rdr, "number range")
               ELSE ReadContainer(PointerStored(rdr, node), nodes, call, n, path)
          [] rdr.rc = "ok" /\ ~node.type.indirect ->
               CASE type = "CONTAINER" -> ReadContainer(rdr, nodes, call, n, path)
                 [] type = "ARRAY" -> ReadItems(rdr, nodes, call, n, path, 1)
                 [] OTHER -> Converted(rdr, call, node, node.direct_pos + rdr.dshift, path)

Cleared(ti) == [rc |-> "ok", mem |-> <<>>, dshift |-> 0, ishift |-> 0, max |-> ti.size,
                asserts |-> TRUE]

RECURSIVE FromStem(_, _, _, _)
FromStem(rdr, ti, call, i) ==
    IF i > Len(ti.args) THEN rdr
    ELSE FromStem(readTree(rdr, ti.w.nodes, call, ti.args[i], <<i>>), ti, call, i + 1)
assignArgumentsFromStem(ti, call) == FromStem(Cleared(ti), ti, call, 1)

\* A parameter that is left out leaves its pointer NULL.
FromParameter(rdr, node, call, i) ==
    IF rdr.rc # "ok" \/ <<i>> \in call.unset THEN rdr
    ELSE IF node.type.indirect
    THEN Converted(Stored(rdr, node.direct_pos, Pointer, To(node.indirect_pos)), call, node,
                   node.indirect_pos, <<i>>)
    ELSE Converted(rdr, call, node, node.direct_pos, <<i>>)

RECURSIVE FromParameters(_, _, _, _)
FromParameters(rdr, ti, call, i) ==
    IF i > Len(ti.args) THEN rdr
    ELSE FromParameters(FromParameter(rdr, ti.w.nodes[ti.args[i]], call, i), ti, call, i + 1)
assignArgumentsFromParameters(ti, call) == FromParameters(Cleared(ti), ti, call, 1)

\* Only a parameter that is indirect may be left out, and none may be added; a stem
\* is one argument.
validArgs(ti, call) ==
    IF ti.callinfo.with_parameters
    THEN /\ call.argc <= Len(ti.args)
         /\ \A i \in 1..Len(ti.args) :
                <<i>> \in call.unset \/ i > call.argc => ti.w.nodes[ti.args[i]].type.indirect
    ELSE call.argc = 1

----------------------------------------------------------------------------
(* The call: every argument in elements of the stack.                      *)
StackWidth(node) ==
    LET size == IF node.type.indirect THEN Pointer ELSE node.type.size
    IN  IF size >= Pointer THEN size ELSE Pointer

InOrder(ti) ==
    [k \in 1..Len(ti.args) |->
        IF ti.callinfo.type = "PASCAL" THEN ti.args[Len(ti.args) + 1 - k] ELSE ti.args[k]]

\* What the function finds, in the order of the stack; what is larger than an element
\* must fill whole ones; the limit is counted in unsigned integers, half an element each.
RECURSIVE OnStack(_, _, _, _)
OnStack(ti, mem, order, dest) ==
    IF order = <<>> THEN [rc |-> "ok", whole |-> TRUE, pushed |-> <<>>]
    ELSE LET node == ti.w.nodes[Head(order)]
             length == IF node.type.indirect THEN Pointer ELSE node.type.size
             after == dest + StackWidth(node)
             rest == OnStack(ti, mem, Tail(order), after)
         IN  IF after > GCI_ARGS * 4 THEN [rc |-> "argument stack overflow"]
             ELSE IF rest.rc # "ok" THEN rest
             ELSE [rc |-> "ok",
                   whole |-> rest.whole /\ (length <= Pointer \/ length % Pointer = 0),
                   pushed |-> <<Load(mem, node.direct_pos, node.direct_size)>> \o rest.pushed]

\* The function may set one pointer it was given to NULL (call.nulls, a place in the
\* list of writes), and gives its result.
GCI_call(ti, rdr, call) ==
    LET stack == OnStack(ti, rdr.mem, InOrder(ti), 0)
        node == ti.w.nodes[ti.retval]   \* only looked at when there is one
        pointers == {k \in DOMAIN rdr.mem : rdr.mem[k].what.kind = "pointer"}
        nulled == IF call.nulls \notin pointers THEN rdr.mem
                  ELSE Append(rdr.mem, [rdr.mem[call.nulls] EXCEPT !.what = Null])
        width == IF node.type.indirect THEN Pointer ELSE node.type.size
        given == IF node.type.indirect THEN Null ELSE Result
    IN  IF stack.rc # "ok" THEN stack
        ELSE [rc |-> "ok", pushed |-> stack.pushed, whole |-> stack.whole,
              mem |-> IF ti.retval = NoNode THEN nulled
                      ELSE Append(nulled, Write(node.direct_pos, width, given))]

----------------------------------------------------------------------------
(* Back into the stem: the variables set, path and value; a pointer that   *)
(* is NULL drops the variables of everything behind it.                    *)
Set(path, value) == [path |-> path, value |-> value]

RECURSIVE dropStem(_, _, _), DropEach(_, _, _, _, _)
DropEach(nodes, kid, path, i, n) ==
    IF i > n THEN {}
    ELSE dropStem(nodes, kid, Append(path, i))
         \cup DropEach(nodes, IF nodes[kid].sibling = NoNode THEN kid ELSE nodes[kid].sibling,
                       path, i + 1, n)
dropStem(nodes, n, path) ==
    LET node == nodes[n]
    IN  IF node.type.generated THEN dropStem(nodes, node.child, path)
        ELSE {Set(path, Dropped)}
             \cup (IF node.type.type \in Composite
                   THEN DropEach(nodes, node.child, path, 1, node.type.size) ELSE {})

RECURSIVE fillStem(_, _, _, _, _), FillAt(_, _, _, _, _), FillEach(_, _, _, _, _, _, _)
FillEach(nodes, mem, kid, at, path, i, n) ==
    IF i > n THEN {}
    ELSE fillStem(nodes, mem, kid, at, Append(path, i))
         \cup FillEach(nodes, mem, IF nodes[kid].sibling = NoNode THEN kid ELSE nodes[kid].sibling,
                       at + nodes[kid].direct_size, path, i + 1, n)
FillAt(nodes, mem, n, at, path) ==
    LET node == nodes[n]
    IN  IF node.type.generated THEN fillStem(nodes, mem, node.child, at, path)
        ELSE IF node.type.type \in Composite
        THEN {Set(path, Count(node.type.size))}
             \cup FillEach(nodes, mem, node.child, at, path, 1, node.type.size)
        ELSE {Set(path, Load(mem, at, WidthOf(node.type)))}
fillStem(nodes, mem, n, at, path) ==
    IF ~nodes[n].type.indirect THEN FillAt(nodes, mem, n, at, path)
    ELSE LET pointer == Load(mem, at, Pointer)
         IN  IF pointer = Null THEN dropStem(nodes, n, path)
             ELSE IF pointer = Garbage THEN {Set(path, Garbage)}
             ELSE FillAt(nodes, mem, n, pointer.to, path)

setArgumentToStem(ti, mem, n, path) ==
    fillStem(ti.w.nodes, mem, n, ti.w.nodes[n].direct_pos, path)
Counted(ti) == Set(<<0>>, Count(Len(ti.args)))
setArgumentsToStem(ti, mem) ==
    {Counted(ti)} \cup
    UNION {setArgumentToStem(ti, mem, ti.args[i], <<i>>) :
              i \in {k \in DOMAIN ti.args : ti.w.nodes[ti.args[k]].type.indirect}}

\* The result of the function itself: none when it is a pointer that is NULL.
setFunctionReturn(ti, mem) ==
    LET node == ti.w.nodes[ti.retval]
        at == Load(mem, node.direct_pos, Pointer)
    IN  IF ~node.type.indirect THEN Load(mem, node.direct_pos, node.type.size)
        ELSE IF at = Null THEN Null ELSE Load(mem, at.to, node.type.size)

Returned == <<-1>>       \* the branch RETURN
WriteBack(ti, mem) ==
    (IF ti.callinfo.with_parameters THEN {} ELSE setArgumentsToStem(ti, mem))
    \cup (IF ti.callinfo.as_function \/ ti.retval = NoNode THEN {}
          ELSE setArgumentToStem(ti, mem, ti.retval, Returned))

Answered(ti, rdr, made) ==
    IF made.rc # "ok" THEN [rc |-> made.rc]
    ELSE [rc |-> "ok", asserts |-> rdr.asserts /\ made.whole, pushed |-> made.pushed, written |-> rdr.mem,
          set |-> WriteBack(ti, made.mem),
          retval |-> IF ti.callinfo.as_function THEN setFunctionReturn(ti, made.mem) ELSE Null]

GCI_execute(ti, call) ==
    LET rdr == IF ti.callinfo.with_parameters THEN assignArgumentsFromParameters(ti, call)
               ELSE assignArgumentsFromStem(ti, call)
    IN  IF ~validArgs(ti, call) THEN [rc |-> "syntax error"]
        ELSE IF rdr.rc # "ok" THEN [rc |-> rdr.rc]
        ELSE Answered(ti, rdr, GCI_call(ti, rdr, call))
=============================================================================
