---------------------------- MODULE Interpreter ----------------------------
(* The execution of a parsed program: interpret() of interprt.c with the     *)
(* conditions of signals.c, the call stack of tracing.c and the INTERPRET of *)
(* interp.c.  A program is a tree; a node names the clause after it (next)   *)
(* and the first clause inside it (body).  One C function keeps two stacks   *)
(* by hand: nstack holds the nodes to go on with when a list of clauses      *)
(* ends, stack the state of the loops around the innermost one.  It calls    *)
(* itself for a routine, a string to interpret and the handler of a          *)
(* condition; acts are the calls that have not returned, each with its own   *)
(* locals and with the heights of both stacks when it began.                 *)
EXTENDS Integers, Sequences, FiniteSets

CONSTANTS
    Trees,      \* the programs: functions from nodes to records
    MaxRaises,  \* how many conditions are raised
    MaxCalls    \* how many entries the call stack has at most

\* The grammar has no CALL ON SYNTAX (c_action of yaccsrc.y).
ASSUME TreesAssumption ==
    \A t \in Trees : \A n \in DOMAIN t :
        t[n].kind = "trap" /\ t[n].type = "SYNTAX" => t[n].signal

Nil == 0
Conditions == {"SYNTAX", "NOTREADY", "HALT"}
\* What becomes of a condition that nobody traps, and of one that is raised while
\* its own handler runs.
default_action == [c \in Conditions |-> c = "NOTREADY"]
default_ignore == [c \in Conditions |-> c = "NOTREADY"]

VARIABLES
    tree,       \* the program
    nstack,     \* itp_tsd: nodes to go on with
    stack,      \* itp_tsd: the loops around the innermost one
    callstack,  \* systeminfo->cstackcnt
    acts,       \* the calls of interpret()
    levels,     \* currlevel and the levels before it
    nextsig,    \* the condition that waits for the end of the clause, or "none"
    halt,       \* HaltRaised
    iter,       \* the control variables of the loops
    ended,      \* why the program is over, or "no"
    raises

machine == [nstack |-> nstack, stack |-> stack, callstack |-> callstack, acts |-> acts,
            levels |-> levels, nextsig |-> nextsig, iter |-> iter, ended |-> ended]
vars == <<tree, nstack, stack, callstack, acts, levels, nextsig, halt, iter, ended, raises>>
Become(m) ==
    /\ nstack' = m.nstack /\ stack' = m.stack /\ callstack' = m.callstack
    /\ acts' = m.acts /\ levels' = m.levels /\ nextsig' = m.nextsig
    /\ iter' = m.iter /\ ended' = m.ended /\ UNCHANGED tree

----------------------------------------------------------------------------
\* The state of a loop: its count, the value after TO, the one after BY.
NoLoop == [loop |-> Nil, number |-> {}, stopval |-> {}, increment |-> {}, incrdir |-> 1]
Untrapped == [on |-> FALSE, delayed |-> FALSE, signal |-> FALSE, name |-> ""]
FirstLevel == [traps |-> [c \in Conditions |-> Untrapped], jump |-> FALSE, varflag |-> TRUE,
               digits |-> 9, fuzz |-> 0, form |-> "SCI", env |-> "SYSTEM", prev_env |-> "SYSTEM"]
Activation(n, why, mark) ==
    [this |-> n, secure |-> n, inner |-> Nil, s |-> NoLoop, ntrigger |-> 0, strigger |-> 0,
     at |-> "reinterpret", jumps |-> FALSE, why |-> why, mark |-> mark, type |-> "SYNTAX"]

Init == /\ tree \in Trees
        /\ nstack = << >> /\ stack = << >> /\ callstack = 0
        /\ acts = <<[Activation(1, "main", 0) EXCEPT !.jumps = TRUE]>>
        /\ levels = <<[FirstLevel EXCEPT !.jump = TRUE]>>
        /\ nextsig = "none" /\ halt = FALSE /\ ended = "no" /\ raises = 0
        /\ iter = [n \in {tree[l].name : l \in DOMAIN tree} |-> 0]

Cut(q, n) == IF Len(q) > n THEN SubSeq(q, 1, n) ELSE q
Last(q) == q[Len(q)]
Front(q) == SubSeq(q, 1, Len(q) - 1)
Top(m) == Last(m.acts)
Level(m) == Last(m.levels)
Node(m) == tree[Top(m).this]
To(m, n) == [m EXCEPT !.acts[Len(m.acts)].this = n]
At(m, where) == [m EXCEPT !.acts[Len(m.acts)].at = where]
Setting(m, l) == [m EXCEPT !.levels[Len(m.levels)] = l]

nstackpush(m, n) == [m EXCEPT !.nstack = Append(@, n)]
nstackpop(m) == [m EXCEPT !.nstack = Front(@)]
\* Both stacks as they were when this call of interpret() began.
Cleaned(m) == [m EXCEPT !.nstack = Cut(@, Top(m).ntrigger), !.stack = Cut(@, Top(m).strigger)]
\* The nodes above the last occurrence of n go, or all of this call when it has none.
nstackcleanup(m, n) ==
    LET found == {i \in (Top(m).ntrigger + 1)..Len(m.nstack) : m.nstack[i] = n}
    IN  [m EXCEPT !.nstack = Cut(@, IF found = {} THEN Top(m).ntrigger
                                    ELSE CHOOSE i \in found : \A j \in found : i >= j)]
\* The loop around becomes the innermost one again.
Outwards(m) ==
    LET t == Top(m)
    IN  IF Len(m.stack) <= t.strigger THEN [m EXCEPT !.acts[Len(m.acts)].inner = Nil]
        ELSE [m EXCEPT !.stack = Front(@),
                       !.acts[Len(m.acts)].inner = Last(m.stack).loop,
                       !.acts[Len(m.acts)].s = Last(m.stack)]

----------------------------------------------------------------------------
\* Conditions.  A step that has left its clause is over.
Away(m) == m.ended # "no" \/ Top(m).at # "reinterpret"
Then(m, after) == IF Away(m) THEN m ELSE after
Died(m) == [m EXCEPT !.ended = "error"]
\* The longjmp to the first call of interpret() of the level.
jump_rexx_signal(m) ==
    LET to == CHOOSE i \in DOMAIN m.acts :
                m.acts[i].jumps /\ \A j \in DOMAIN m.acts : m.acts[j].jumps => j <= i
        a == m.acts[to]
    IN  Cleaned([m EXCEPT !.acts = Append(SubSeq(@, 1, to - 1),
                     [a EXCEPT !.this = a.secure, !.inner = Nil, !.s = NoLoop,
                               !.at = "fakerecurse"])])
condition_hook(m, type) ==
    LET t == Level(m).traps[type]
    IN  IF ~t.on THEN IF default_action[type] THEN m ELSE Died(m)
        ELSE IF t.delayed /\ default_ignore[type] THEN m
        ELSE IF t.signal
        THEN jump_rexx_signal([m EXCEPT !.nextsig = type,
                                        !.levels[Len(m.levels)].traps[type].delayed = FALSE])
        ELSE [m EXCEPT !.nextsig = type]
exiterror(m) == condition_hook(m, "SYNTAX")
\* An expression is evaluated, and at most one condition is raised meanwhile.
Evaluate(m, raised) == IF raised = "none" THEN m ELSE condition_hook(m, raised)

pushcallstack(m) == [m EXCEPT !.callstack = @ + 1]
popcallstack(m, n) == [m EXCEPT !.callstack = @ - n]
newlevel(m) ==
    [m EXCEPT !.levels = Append(@, [Level(m) EXCEPT !.jump = FALSE, !.varflag = FALSE])]
removelevel(m) == [m EXCEPT !.levels = Front(@)]

\* interpret() is called: the first call of a level is where its conditions jump to.
Enter(m, n, why, mark) ==
    [m EXCEPT !.acts = Append([@ EXCEPT ![Len(m.acts)].at = "waits"],
                [Activation(n, why, mark) EXCEPT !.ntrigger = Len(m.nstack),
                     !.strigger = Len(m.stack), !.jumps = ~Level(m).jump]),
              !.levels[Len(m.levels)].jump = TRUE]
CallInternalFunction(m, n, why) ==
    LET l == pushcallstack(newlevel(m)) IN Enter(l, n, why, l.callstack)
CallReturned(m, a) == removelevel([m EXCEPT !.callstack = a.mark - 1])

getlabel(name) == {l \in DOMAIN tree : tree[l].kind = "label" /\ tree[l].name = name}
\* A label inside a block or a loop is only there for the trace.
Callable(name) == {l \in getlabel(name) : ~tree[l].trace_only}
Entry(name) == CHOOSE l \in Callable(name) : TRUE

----------------------------------------------------------------------------
\* The end of a clause.
Fakerecurse(m) == At(m, "fakerecurse")
Fakereturn(m) ==
    IF Top(m).this # Nil THEN Fakerecurse(m)
    ELSE IF Len(m.nstack) <= Top(m).ntrigger THEN At(m, "nothing")
    ELSE Fakerecurse(nstackpop(To(m, Last(m.nstack))))
\* (Mutant of Advance: the next clause begins without a look at the conditions.)
AdvanceOn(m) ==
    LET n == To(m, Node(m).next)
    IN  IF Top(n).this = Nil THEN Fakereturn(n) ELSE At(n, "reinterpret")
Advance(m) == Fakereturn(To(m, Node(m).next))
Return(m, result) == At(Cleaned(m), result)

\* (Mutant of Returned: the delay does not end with the handler.)
ReturnedDelayed(m) ==
    LET a == Top(m)
        up == [m EXCEPT !.acts = [Front(@) EXCEPT ![Len(m.acts) - 1].at = "reinterpret"]]
    IN  CASE a.why = "main" -> [m EXCEPT !.ended = "end"]
          [] a.why \in {"call", "function"} -> Advance(CallReturned(up, a))
          [] a.why = "interpret" -> Advance(up)
          [] a.why = "handler" -> Fakerecurse(CallReturned(up, a))
\* The call of interpret() that is over, and what its caller does then.
Returned(m) ==
    LET a == Top(m)
        up == [m EXCEPT !.acts = [Front(@) EXCEPT ![Len(m.acts) - 1].at = "reinterpret"]]
        c == CallReturned(up, a)
    IN  CASE a.why = "main" -> [m EXCEPT !.ended = "end"]
          [] a.why = "call" -> Advance(c)
          [] a.why = "function" -> IF a.at = "nothing" THEN exiterror(c) ELSE Advance(c)
          [] a.why = "interpret" -> IF a.at = "nothing" THEN Advance(up) ELSE Return(up, "value")
          [] a.why = "handler" ->
               Fakerecurse([c EXCEPT !.levels[Len(c.levels)].traps[a.type].delayed = FALSE])

\* The condition that waits, at the end of a clause.
SignalTaken(m, type) ==
    LET l == Level(m)
        c == Cleaned([Setting(m, [l EXCEPT !.traps[type].on = FALSE, !.traps[type].delayed = FALSE])
                      EXCEPT !.nextsig = "none"])
        name == l.traps[type].name
    IN  IF Callable(name) = {} THEN exiterror(c) ELSE At(To(c, Entry(name)), "reinterpret")
CallTaken(m, type) ==
    LET name == Level(m).traps[type].name
        c == pushcallstack(newlevel([m EXCEPT !.levels[Len(m.levels)].traps[type].delayed = TRUE,
                                              !.nextsig = "none"]))
        e == Enter(c, tree[Entry(name)].next, "handler", c.callstack)
    IN  IF Callable(name) = {} THEN exiterror(m)
        ELSE [e EXCEPT !.acts[Len(e.acts)].type = type]
Taken(m) ==
    LET t == Level(m).traps[m.nextsig]
    IN  IF t.delayed \/ (~t.on /\ default_action[m.nextsig]) THEN At(m, "reinterpret")
        ELSE IF ~t.on THEN Died(m)
        ELSE IF t.signal THEN SignalTaken(m, m.nextsig) ELSE CallTaken(m, m.nextsig)

----------------------------------------------------------------------------
\* The clauses.
IfClause(m, truth) ==
    Fakerecurse(To(nstackpush(m, Node(m).next), IF truth THEN Node(m).body ELSE Node(m).other))
SelectClause(m) ==
    Fakerecurse(To(nstackpush(nstackpush(m, Node(m).next), Node(m).other), Node(m).body))
WhenClause(m, truth) ==
    IF truth THEN Fakerecurse(To(nstackpop(m), Node(m).body)) ELSE Advance(m)
Group(m) == Fakerecurse(To(nstackpush(m, Node(m).next), Node(m).body))

Endloop(m) == Advance(Outwards(nstackpop(m)))
Past(i, s) == \E x \in s.stopval : (i > x /\ s.incrdir = 1) \/ (i < x /\ s.incrdir = -1)
\* (Mutant of Counted: the rounds of a loop are not counted.)
Uncounted(m) == m
Counted(m) == [m EXCEPT !.acts[Len(m.acts)].s.number = {k - 1 : k \in @}]
\* A loop without a body has nothing to push, and stays in the C code.
Body(m) == Fakerecurse(To([nstackpush(pushcallstack(m), Top(m).this)
                             EXCEPT !.acts[Len(m.acts)].inner = Top(m).this], Node(m).body))
While(m, truth) ==
    Then(m, IF Node(m).test = "while" /\ ~truth THEN Endloop(m)
            ELSE IF Node(m).body = Nil THEN At(m, "until") ELSE Body(m))
Startloop(m, raised, truth) ==
    IF Past(m.iter[Node(m).name], Top(m).s) \/ 0 \in Top(m).s.number THEN Endloop(m)
    ELSE While(IF Node(m).test = "while" THEN Evaluate(Counted(m), raised) ELSE Counted(m), truth)
\* DO with a control variable, a count or a condition: the loop around is put away,
\* the expressions are evaluated.
Entered(m) ==
    LET a == Top(m)
    IN  [m EXCEPT !.nstack = Append(@, Node(m).next),
                  !.stack = IF a.inner = Nil THEN @ ELSE Append(@, [a.s EXCEPT !.loop = a.inner])]
Primed(m, n) ==
    [m EXCEPT !.iter[n.name] = n.from,
              !.acts[Len(m.acts)].s = [NoLoop EXCEPT !.number = n.count, !.stopval = n.to,
                  !.increment = n.by, !.incrdir = IF \E x \in n.by : x < 0 THEN -1 ELSE 1]]
Begun(m, raised, truth) == Then(m, Startloop(Primed(m, Node(m)), raised, truth))
Loop(m, raised, truth) ==
    Begun(IF Node(m).test = "while" THEN Entered(m) ELSE Evaluate(Entered(m), raised),
          raised, truth)
\* After the body: UNTIL, the next value of the control variable, and round again.
Incremented(m) ==
    LET by == Top(m).s.increment
    IN  IF Node(m).name = "" THEN m ELSE [m EXCEPT !.iter[Node(m).name] =
            @ + (IF by = {} THEN 1 ELSE CHOOSE x \in by : TRUE)]
Round(m, raised, truth, halted) ==
    IF m.nextsig # "none" \/ halted THEN Fakerecurse(m) ELSE Startloop(m, raised, truth)
Until(m, raised, truth, halted) ==
    Then(m, IF Node(m).test = "until" /\ truth THEN Endloop(m)
            ELSE Round(Incremented(m), raised, truth, halted))
AfterBody(m, raised, truth, halted) ==
    Until(IF Node(m).test = "while" THEN m ELSE Evaluate(m, raised), raised, truth, halted)
DoClause(m, raised, truth) ==
    IF Top(m).inner = Top(m).this THEN AfterBody(popcallstack(m, 1), raised, truth, FALSE)
    ELSE Loop(m, raised, truth)

\* LEAVE and ITERATE look for their loop among those of this call, from the inside.
Pending(m) == LET a == Top(m) IN
    IF a.inner = Nil THEN m.stack ELSE Append(m.stack, [a.s EXCEPT !.loop = a.inner])
Meant(m, q) ==
    {i \in (Top(m).strigger + 1)..Len(q) : Node(m).name \in {"", tree[q[i].loop].name}}
\* (Mutant of Found: LEAVE forgets the node that stands for the loop itself.)
FoundOnly(m, q, k, gone) ==
    LET c == nstackcleanup(popcallstack(m, Len(q) - k + gone), q[k].loop)
    IN  [c EXCEPT !.stack = SubSeq(q, 1, k - gone)]
\* The loop q[k] is found; `gone` loops of it end too.
Found(m, q, k, gone) ==
    LET c == nstackcleanup(popcallstack(m, Len(q) - k + gone), q[k].loop)
    IN  [c EXCEPT !.nstack = SubSeq(@, 1, Len(@) - gone), !.stack = SubSeq(q, 1, k - gone)]
Continued(m) == Fakereturn(Outwards(nstackpop(To(m, Last(m.nstack)))))
LeaveClause(m, q, gone) ==
    IF Meant(m, q) = {} THEN exiterror(popcallstack(m, Len(q) - Top(m).strigger))
    ELSE Continued(Found(m, q, CHOOSE i \in Meant(m, q) : \A j \in Meant(m, q) : j <= i, gone))

SignalClause(m) ==
    LET c == [Cleaned(m) EXCEPT !.acts[Len(m.acts)].inner = Nil]
    IN  IF Callable(Node(m).name) = {} THEN exiterror(c)
        ELSE Fakerecurse(To(c, tree[Entry(Node(m).name)].next))
TrapClause(m) ==
    LET n == Node(m)
    IN  Advance([m EXCEPT !.levels[Len(m.levels)].traps[n.type] =
                   [on |-> n.on, delayed |-> FALSE, signal |-> n.signal, name |-> n.name]])
CallClause(m, function) ==
    LET name == Node(m).name
    IN  IF Callable(name) = {} THEN exiterror(m)
        ELSE IF function THEN CallInternalFunction(m, tree[Entry(name)].next, "function")
        ELSE CallInternalFunction(m, Entry(name), "call")
dointerpret(m) == Enter(m, Node(m).body, "interpret", 0)
ProcClause(m) ==
    IF Level(m).varflag THEN exiterror(m)
    ELSE Advance(Setting(m, [Level(m) EXCEPT !.varflag = TRUE]))
NumericClause(m) ==
    LET l == Level(m)
        n == Node(m)
        set == CASE n.name = "DIGITS" -> [l EXCEPT !.digits = n.value]
                 [] n.name = "FUZZ" -> [l EXCEPT !.fuzz = n.value]
                 [] n.name = "FORM" -> [l EXCEPT !.form = n.value]
                 [] OTHER -> [l EXCEPT !.fuzz = 0]    \* FORM without a value
    IN  IF set.fuzz >= set.digits \/ set.digits <= 0 \/ set.fuzz < 0 THEN exiterror(m)
        ELSE Advance(Setting(m, set))
AddressClause(m) ==
    LET l == Level(m)
        name == Node(m).name
    IN  Advance(Setting(m, [l EXCEPT !.env = IF name = "" THEN l.prev_env ELSE name,
                                     !.prev_env = l.env]))

----------------------------------------------------------------------------
(* The steps.  One goes from `reinterpret' to the next `reinterpret'.       *)

\* With nothing pending the end of a clause is the beginning of the next.
Settled(m) ==
    IF m.ended = "no" /\ Top(m).at = "fakerecurse" /\ m.nextsig = "none"
    THEN At(m, "reinterpret") ELSE m
\* popcallstack() takes no more than there is: its assertion ends the process.
Checked(m) == IF m.callstack < 0 THEN [m EXCEPT !.ended = "crash"] ELSE m
Goes(m) == m.callstack <= MaxCalls /\ Become(Settled(Checked(m)))
Running(where) == ended = "no" /\ Last(acts).at = where
Raising(raised) ==
    /\ raised # "none" => raises < MaxRaises
    /\ raises' = raises + (IF raised = "none" THEN 0 ELSE 1)

\* The beginning of a clause: a halt that has arrived is raised first.
Current == IF halt THEN condition_hook(machine, "HALT") ELSE machine
Started == Then(Current, [Current EXCEPT !.acts[Len(acts)].secure = Last(acts).this])
Ready(kinds) ==
    /\ Running("reinterpret") /\ Last(acts).this \in DOMAIN tree
    /\ tree[Last(acts).this].kind \in kinds
Can == {"none"} \cup (tree[Last(acts).this].raises \cap Conditions)
\* A clause that does `to' to the machine.
Does(m, to) == halt' = FALSE /\ Goes(Then(m, to))

Plain == Ready({"plain"}) /\ \E raised \in Can : Raising(raised) /\
    \E m \in {Evaluate(Started, raised)} : Does(m, Advance(m))
Assign == Ready({"assign", "add"}) /\ \E raised \in Can : Raising(raised) /\
    \E m \in {Evaluate(Started, raised)} :
        Does(m, Advance([m EXCEPT !.iter[Node(m).name] =
                    Node(m).value + (IF Node(m).kind = "add" THEN @ ELSE 0)]))
Label == Ready({"label"}) /\ Raising("none") /\ Does(Started, Advance(Started))
Wrapped == Ready({"otherwise"}) /\ Raising("none") /\
    Does(Started, At(To(Started, Node(Started).body), "reinterpret"))
Do == Ready({"do"}) /\ Raising("none") /\ Does(Started, Group(Started))
DoLoop == Ready({"loop"}) /\ \E raised \in Can, truth \in BOOLEAN : Raising(raised) /\
    Does(Started, DoClause(Started, raised, truth))
DoNothing == Running("until") /\ \E raised \in Can, truth \in BOOLEAN :
    /\ Raising(raised) /\ UNCHANGED halt
    /\ Goes(AfterBody(At(machine, "reinterpret"), raised, truth, halt))
If == Ready({"if"}) /\ \E raised \in Can, truth \in BOOLEAN : Raising(raised) /\
    \E m \in {Evaluate(Started, raised)} : Does(m, IfClause(m, truth))
Select == Ready({"select"}) /\ Raising("none") /\ Does(Started, SelectClause(Started))
When == Ready({"when"}) /\ \E raised \in Can, truth \in BOOLEAN : Raising(raised) /\
    \E m \in {Evaluate(Started, raised)} : Does(m, WhenClause(m, truth))
NoOtherwise == Ready({"no otherwise"}) /\ Raising("none") /\ Does(Started, exiterror(Started))
Leave == Ready({"leave", "iterate"}) /\ Raising("none") /\
    Does(Started, LeaveClause(Started, Pending(Started),
                              IF Node(Started).kind = "leave" THEN 1 ELSE 0))
Signal == Ready({"signal"}) /\ Raising("none") /\ Does(Started, SignalClause(Started))
Trap == Ready({"trap"}) /\ Raising("none") /\ Does(Started, TrapClause(Started))
Call == Ready({"call", "function"}) /\ \E raised \in Can : Raising(raised) /\
    \E m \in {Evaluate(Started, raised)} :
        Does(m, CallClause(m, Node(m).kind = "function"))
Interpret == Ready({"interpret"}) /\ \E raised \in Can : Raising(raised) /\
    \E m \in {Evaluate(Started, raised)} : Does(m, dointerpret(m))
Procedure == Ready({"procedure"}) /\ Raising("none") /\ Does(Started, ProcClause(Started))
Settings == Ready({"numeric", "address"}) /\ \E raised \in Can : Raising(raised) /\
    \E m \in {Evaluate(Started, raised)} :
        Does(m, IF Node(m).kind = "numeric" THEN NumericClause(m) ELSE AddressClause(m))
ReturnClause == Ready({"return"}) /\ \E raised \in Can : Raising(raised) /\
    \E m \in {Evaluate(Started, raised)} :
        Does(m, Return(m, IF Node(m).result THEN "value" ELSE "nothing"))
Exit == Ready({"exit"}) /\ Raising("none") /\ Does(Started, [Started EXCEPT !.ended = "exit"])

\* The list of clauses is over, and so may be the call of interpret().
NoClause == /\ Running("reinterpret") /\ Last(acts).this = Nil
            /\ Raising("none") /\ Does(Current, Fakereturn(Current))
Returns == /\ Running("nothing") \/ Running("value")
           /\ Raising("none") /\ UNCHANGED halt /\ Goes(Returned(machine))
\* The end of a clause with a condition pending.
Handles == /\ Running("fakerecurse")
           /\ Raising("none") /\ UNCHANGED halt /\ Goes(Taken(machine))
\* The user interrupts the program.
Halts == /\ ended = "no" /\ ~halt /\ Level(machine).traps["HALT"].on
         /\ Raising("HALT") /\ halt' = TRUE
         /\ UNCHANGED <<tree, nstack, stack, callstack, acts, levels, nextsig, iter, ended>>

Clause == Plain \/ Assign \/ Label \/ Wrapped \/ Do \/ DoLoop \/ DoNothing \/ If \/ Select \/ When
          \/ NoOtherwise \/ Leave \/ Signal \/ Trap \/ Call \/ Interpret \/ Procedure
          \/ Settings \/ ReturnClause \/ Exit \/ NoClause \/ Returns \/ Handles
Next == Clause \/ Halts
Spec == Init /\ [][Next]_vars
\* The interpreter goes on by itself until the program is over.
FairSpec == Spec /\ (<>(ended # "no") \/ []<><<Clause>>_vars)

----------------------------------------------------------------------------
(* What the two stacks should hold, from the program alone.                 *)

Inside(p) == {tree[p].next, tree[p].body, tree[p].other}
Has(n) == \E p \in DOMAIN tree : n \in Inside(p)
Up(n) == CHOOSE p \in DOMAIN tree : n \in Inside(p)
\* The clauses to go on with when the list that holds n ends, the outermost first.
Cont[n \in DOMAIN tree] ==
    IF ~Has(n) THEN << >>
    ELSE LET p == Up(n) IN
         CASE n = tree[p].next \/ tree[p].kind = "otherwise" -> Cont[p]
           [] n # tree[p].next /\ tree[p].kind = "loop" -> Cont[p] \o <<tree[p].next, p>>
           [] n # tree[p].next /\ tree[p].kind \in {"do", "if"} -> Append(Cont[p], tree[p].next)
           [] n = tree[p].other /\ tree[p].kind = "select" -> Append(Cont[p], tree[p].next)
           [] n = tree[p].body /\ tree[p].kind = "select" ->
                  Cont[p] \o <<tree[p].next, tree[p].other>>
           [] n = tree[p].body /\ tree[p].kind = "when" -> Front(Cont[p])
           [] n = tree[p].body /\ tree[p].kind = "interpret" -> << >>
\* The loops around n, the outermost first.
Loops[n \in DOMAIN tree] ==
    IF ~Has(n) THEN << >>
    ELSE LET p == Up(n) IN
         IF n = tree[p].body /\ tree[p].kind = "loop" THEN Append(Loops[p], p)
         ELSE IF n = tree[p].body /\ tree[p].kind = "interpret" THEN << >> ELSE Loops[p]

\* The part of a stack that belongs to the i-th call.
NodesOf(i) == SubSeq(nstack, acts[i].ntrigger + 1,
                     IF i = Len(acts) THEN Len(nstack) ELSE acts[i + 1].ntrigger)
LoopsPut(i) == LET q == SubSeq(stack, acts[i].strigger + 1,
                               IF i = Len(acts) THEN Len(stack) ELSE acts[i + 1].strigger)
               IN  [k \in DOMAIN q |-> q[k].loop]
LoopsOf(i) == IF acts[i].inner = Nil THEN LoopsPut(i) ELSE Append(LoopsPut(i), acts[i].inner)

InClause(a, nodes, loops) == nodes = Cont[a.this] /\ loops = Loops[a.this]
\* Back at the head of the loop, whose own entry has been taken off.
AtEnd(a, nodes, loops) ==
    /\ tree[a.this].kind = "loop" /\ a.inner = a.this
    /\ nodes = Append(Cont[a.this], tree[a.this].next) /\ loops = Append(Loops[a.this], a.this)
\* In a loop without a body the loop around is both put away and the innermost one.
InNothing(a, nodes, loops) ==
    /\ a.at = "until" /\ nodes = Append(Cont[a.this], tree[a.this].next)
    /\ loops = IF a.inner = Nil THEN << >> ELSE Append(Loops[a.this], a.inner)
\* Behind the last clause of a list, or in a group without clauses.
BehindLast(a, nodes, loops) ==
    /\ a.this = Nil
    /\ \E n \in DOMAIN tree : loops = Loops[n] /\ nodes \in {Cont[n], Append(Cont[n], tree[n].next)}
Emptied(a, nodes, loops) ==
    /\ nodes = << >> /\ loops = << >>
    /\ a.at \in {"nothing", "value"} \/ (a.at = "fakerecurse" /\ nextsig # "none")
Placed(a, nodes, loops) ==
    \/ a.this # Nil /\ a.at # "until" /\ InClause(a, nodes, loops)
    \/ a.this # Nil /\ AtEnd(a, nodes, loops)
    \/ InNothing(a, nodes, loops)
    \/ BehindLast(a, nodes, loops)
    \/ Emptied(a, nodes, loops)
    \/ a.at \in {"nothing", "value"} /\ nodes = << >>
Nested == ended = "no" => \A i \in DOMAIN acts : Placed(acts[i], NodesOf(i), LoopsOf(i))

IsRoutine(a) == a.why \in {"call", "function", "handler"}
\* The loops and routines that are being executed in the first k calls.
Opened(k) == (IF k = Len(acts) THEN Len(stack) ELSE acts[k + 1].strigger)
             + Cardinality({i \in 1..k : acts[i].inner # Nil})
             + Cardinality({i \in 1..k : IsRoutine(acts[i])})
             - (IF acts[k].at = "until" /\ acts[k].inner # Nil THEN 1 ELSE 0)
CallStackSuffices ==
    ended # "error" =>
        /\ callstack >= Opened(Len(acts))
        /\ \A i \in DOMAIN acts : IsRoutine(acts[i]) => acts[i].mark > Opened(i - 1)

----------------------------------------------------------------------------
(* Properties.                                                              *)

\* What becomes of the innermost call, if it goes on.
Still == acts'[Len(acts)]
\* The two ways in which interpret() loses its place: a loop without clauses is begun
\* again when a condition or a halt is pending at its end (interprt.c:908-920 goes to
\* `fakerecurse', which returns to the head of a loop that is not the innermost one), and a
\* SIGNAL that is carried out at the end of a clause leaves innerloop as it is.
Restarted == /\ Last(acts).at = "until" /\ Len(acts') >= Len(acts)
             /\ Still.this = Last(acts).this /\ Still.at # "until"
LoopForgotten == /\ Last(acts).at = "fakerecurse" /\ Last(acts).inner # Nil
                 /\ Level(machine).traps[nextsig].signal
\* A loop whose end is executed with a condition or a halt pending, and executed again when it
\* has been dealt with, takes its entry off the call stack twice (interprt.c:862, 918).
Twice == /\ Last(acts).this # Nil /\ Last(acts).this = Last(acts).inner
         /\ Len(acts') >= Len(acts)
         /\ Still.this = Last(acts).this /\ Still.inner = Last(acts).inner
\* Whatever is called, left, iterated, raised and signalled, each call of interpret() has
\* on the two stacks exactly the clauses to go on with and the loops that surround the clause
\* it is at (interprt.c:146-480).  The call stack has an entry for each loop and routine that
\* is being executed, so that the assertion of popcallstack() holds (tracing.c:116): a jump
\* leaves the entries of the loops it quits there, but nothing takes too many.
NestingKept ==
    [][/\ Nested /\ ~Restarted /\ ~LoopForgotten => Nested'
       /\ CallStackSuffices /\ ~Twice /\ ~Restarted => CallStackSuffices']_vars

\* How many of the first i calls are routines: so many levels are below that of the i-th.
Depth(i) == Cardinality({j \in 1..i : IsRoutine(acts[j])})
\* While the handler of a condition runs the condition is delayed on the level it was raised
\* on, and it is delayed for no other reason (interprt.c:2400-2425).
DelayedWhileHandled ==
    /\ \A i \in DOMAIN acts : acts[i].why = "handler"
           => levels[Depth(i)].traps[acts[i].type].delayed
    /\ \A k \in DOMAIN levels, c \in Conditions : levels[k].traps[c].delayed
           => \E i \in DOMAIN acts : acts[i].why = "handler" /\ acts[i].type = c /\ Depth(i) <= k

\* A condition that has come up is dealt with before the next clause (interprt.c:2333): only
\* the first clause of a routine or of a string to interpret begins with one pending that is
\* trapped and not being handled, and this one has come up in the clause that called; or the
\* first clause behind OTHERWISE, when a halt has come in front of it (interprt.c:613) or
\* one was pending already.
Waiting == /\ ended = "no" /\ Last(acts).at = "reinterpret" /\ nextsig # "none"
           /\ Level(machine).traps[nextsig].on /\ ~Level(machine).traps[nextsig].delayed
OtherwiseBegun == /\ Last(acts).this \in DOMAIN tree /\ tree[Last(acts).this].kind = "otherwise"
                  /\ halt \/ Waiting
PendingTaken ==
    [][Waiting' /\ acts' # acts => Len(acts') > Len(acts) \/ OtherwiseBegun]_vars

\* A program whose loops are counted and whose jumps go forwards comes to its end.
Ends(n) ==
    /\ tree[n].kind = "loop" => tree[n].to # {} \/ tree[n].count # {}
    /\ tree[n].kind \in {"signal", "trap", "call", "function"} =>
           \A l \in getlabel(tree[n].name) : l > n
    /\ tree[n].kind \in {"assign", "add"} =>
           \A l \in DOMAIN tree : tree[l].kind = "loop" => tree[l].name # tree[n].name
ProgramEnds == (\A n \in DOMAIN tree : Ends(n)) ~> ended # "no"

=============================================================================
