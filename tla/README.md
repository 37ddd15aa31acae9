# Regina Rexx in TLA+

Formal models of the core of the Regina REXX interpreter: the queue daemon
`rxstack`, the stack and the redirection of a command's channels, variables,
files, the flow of a program with its conditions, the interface to applications
and libraries, the built-in functions on strings, the arithmetic, and the way from
the text of a program to its tree.  TLC checks small instances; TLAPS proves the
central invariants for instances of any size.

Contents: 1 the system, 2 the modules and the code, 3 the runs, 4 the theorems,
5 disagreements found, 6 what is left out, 7 the plan.

## 1. The system

| Component | State | Operations | Talks to |
|---|---|---|---|
| `rxstack` daemon (rxstack.c) | queues, each with lines *or* waiting clients and a time of expiry; clients, each with a default queue, a pull timeout and a deadline | the one-letter commands of the protocol, accept, loss of a connection, expiry of waits and queues, signals, shutdown | interpreters and `rxqueue`, over TCP |
| Client side of external queues (extstack.c, rxqueue.c) | a socket, the queue it was last set to | connect, set queue, timeout, queue, pull, number, create, delete | daemon |
| Table of queues and `RXQUEUE` (stack.c) | 100 slots; SESSION in slot 0; the current queue and its name; connections | create, delete, get, set, query, timeout; opening of queues for `ADDRESS ... WITH` | stack, client side |
| Internal queue (stack.c, extstack.h) | double linked buffers of double linked lines, counters; temporary queues of commands | PUSH, QUEUE, PULL, MAKEBUF, DROPBUF, DESBUF, QUEUED, BUFTYPE; copy, feed, crop, purge for commands | pump |
| Pump of a command's channels (shell.c, os_unx.c) | three pipes, the write buffer, half lines of output and error, the waiters of poll() | setup, fork, feed, reap, poll, drain, wait, clean-up | queues, stems, streams, the child |
| Variable pool (variable.c) | hash tables per PROCEDURE, boxes that lead to the caller's boxes, pointers cached in the nodes of the program | set, get, drop, expose, return | interpreter |
| Open files (files.c) | table of boxes with read and write positions and flags; the order of use; few streams | LINEIN, LINEOUT, CHARIN, CHAROUT, LINES, CHARS, STREAM, swapping, redirection | system |
| Flow and conditions (interprt.c, signals.c, interp.c) | stack of nodes, stack of loops, call stack, levels with their traps, pending and delayed conditions | every clause, CALL, SIGNAL, INTERPRET, RETURN, EXIT, traps, HALT | evaluator |
| SAA interface, libraries, macros (rexxsaa.c, client.c, library.c, macros.c) | entries with their libraries, reference counts, orphans; exit handlers; the stack of scripts | registration, RexxStart, RexxCallBack, functions, exits, command handlers and every way they return or fail | applications |
| Generic call interface (gci/) | a tree made from a stem, one block of memory per call | RXFUNCDEFINE, the call | libraries |
| Arithmetic (strmath.c), strings, conversions, templates (builtin.c, convert.c, parsing.c ...) | none between calls | the operations | evaluator |
| Lexer and parser (lexsrc.l, yaccsrc.y) | the line read so far, the scanner's start condition and flags; the parser's stack | lines, comments, tokens, productions | interpreter |
| Memory manager, threads, systems' layers, options, tracing | | | everything |

Hard behaviours, and where they are:

* *Interleaving.*  The daemon is one thread, but a PULL that waits spreads over many
  turns of its loop: until the answer any other client may push a line, delete or
  empty the queue, time may pass, a signal may arrive, and the waiting client may
  hang up or send something else.  The pump interleaves with the child at each read
  and write.  HALT and conditions interrupt the interpreter between clauses.
* *Jumps.*  An error leaves C functions by `longjmp`; what they had still to do is not
  done.  The table of queues, the pump, files, handlers and scripts all see it.
* *Caches.*  Nodes point to boxes of variables; boxes of files remember where the
  stream is; the current queue's name is kept twice.
* *Limits.*  Few streams, few slots, buffers and pipes that are full; digits beyond
  NUMERIC DIGITS.
* *Long sequences of legal calls.*  Links and counters of buffers; loops left and
  entered in every way; exits and libraries of scripts that nest.

## 2. Modules and code

`PROJECT.json` maps every definition to its lines.

**RxStack** -- `rxstack_doit()` and everything it calls.  One action is one
command of one client (`Serve`), one lost connection (`Drop`), one `accept`, one
poll (`Ready`, `PollTimeout`), one client of the sweep (`CheckWaiting`) or the
sweep over all queues (`CheckQueues`).  The phases `poll`, `serve`, `clients`,
`cleanup`, `ended` are the places of the main loop.  Time is relative: a time stamp
is the number of ticks left.  `Tick` is excluded during a sweep because the code reads
the clock once per sweep.  A failing `send` is `Drop`; `out` holds the answers not yet
read.

**RexxBuffers** -- what a *program* sees of one internal queue: a pile of buffers of
lines, the temporary queue of a running command, the answer of the last operation.
It is the abstract specification of **StackLinks**, the same queue in memory:
`StackLine` and `Buffer` cells with `higher`/`lower` links, `top`, `bottom` and the
counters, allocated from a finite set of addresses and freed explicitly.  The
refinement mapping reads the buffers along `lower` from the top.  Where the code departs
from its comments RexxBuffers has a step of its own for it: `DropTooMany` (more buffers
to drop than there are), `FeedFromOwnQueue` and `FinishOwnQueue` (under FLUSHSTACK a
command reads and loses its own output).  RexxBuffers has no run
of its own: TLC checks it, and what it promises, of the queue in memory.
**QueueCommands** holds the arguments of the instance.

**ShellPump** -- `posix_do_command()` with `setup_io`, `fetch_food`, `feed`,
`write_buffered`, `reap`, `line_length`, `drop_crop`, `cleanup` and the Unix layer.
One step of the interpreter is one `read()` or `write()` and what follows from its
result, so the child runs between any two.  The child is any program: it reads,
writes, closes a channel, or exits.  `Fault` is any other error: `exiterror` leaves the
function with everything open, and only the `cleanup` of the next command puts things
right.

**QueueTable** -- the slots, the current queue and its name, RXQUEUE, OPTIONS
INTERNAL_QUEUES, and commands whose WITH opens queues in slots of the same table.  An
error of a command jumps over its end: the environment keeps what it opened.
`Habits` switches on behaviour in which the code breaks its own assertions (section
5): "fill" uses up the table, "mix" turns INTERNAL_QUEUES on while an external queue
is current.

**RexxScopes** -- variables as the language has them: scopes that map names to cells.
It is the abstract specification of **VarPool**: boxes in hash tables, `realbox`
chains made by EXPOSE, the number of the procedure in each box, and the `shortcut`
pointers cached in nodes, with hollow boxes that wait for their nodes, and are lost when
the last of these goes with its tree.  `Habits` switches on the
two uses in which the code departs from RexxScopes (section 5, 7); the runs have none.

**FileBox**, **FileSeek**, **Files** -- one box of the file table and what the low
routines do to it; positioning by bytes and by lines; the table, opening, reopening,
swapping and the functions of the language.

**Interpreter** -- the loop of `interpret()` over a tree given as a constant: the stack
of nodes, the stack of loops, the call stack and levels with their traps.  Expressions
are what they may raise.

**Libraries**, **Api** -- the entries of functions, exits and handlers, the counting and
orphaning of libraries; what runs as a stack of frames (RexxStart, script, native
code, label called back), with every way a frame is left.

**Gci**, **GciCall** -- the description of a foreign function read from a stem into a
tree with places in memory; the call that puts values there and takes them back.

**Decimal**, **Arithmetic**, **Builtins** -- strmath.c digit by digit, and what an
operation must answer by exact arithmetic.  **Strings**, **Conversions**, **Templates**,
**StringCalls** -- functions on strings and words, conversions, PARSE, and their laws.

**SourceLines**, **Scanner**, **Parser**, **Programs** -- `get_next_line` and `fill_buffer`;
the rules of the scanner with its start conditions and flags; the grammar, one
operator per production with its action on the value stack; the steps from text to
tree and what must come out.  The generated tables are replaced by what they
recognise: the longest match of the scanner, and the choice of a production by the
next token.

**Services** puts the parts without state between calls (the last four groups) into one
state machine whose step is one call: `op`, its operands, its answer.

`*MC` modules are instances.  The `*Proofs` modules hold lemmas and
theorems.  Definitions that begin with a comment "Mutant" are variants with a
plausible bug: no specification uses them; put in place of the original each makes
TLC report the property beside it in `PROJECT.json`.

## 3. Runs

| Run | Question | Bounds and why they suffice |
|---|---|---|
| RxStack_wait | Are lists of waiters and deadlines consistent, whatever is sent and whoever vanishes during a wait? Is whoever leaves a list answered, and nobody left when the daemon ends? | 2 interchangeable clients (a waiter and a rival, or two waiters), SESSION and one more queue, timeout 1 < wake-up 2 = week, every command but those that only ask for names and numbers (Q and G are in RxStack_names, N changes nothing), sent and hung up on also during waits without timeout |
| RxStack_names | Does each client keep a queue that exists, does no used queue expire, are waiters served in order, while queues are made (also with made-up names), found, emptied, deleted? | 3 clients: two that wait and one that has a line |
| RxStack_live | Is a wait with a timeout answered, does a daemon told to stop end, does an unused queue go? | 2 clients, 2 queues, timeout 1, fairness below |
| StackLinks_rexx | Do links, counters and ownership of memory stay right, does the linked structure implement RexxBuffers, and is what lies below the top buffer out of reach? | 3 line cells, 3 buffer cells: a first, a middle and a last, so every case of unlinking; DROPBUF from -2 to 2, eight ways of redirection |
| ShellPump_commands | Is the child's input the command's input, do its lines arrive whole, also in a command after an error, and does every command end? | buffer and pipes of 2 bytes, lines shorter and longer than that; output over text, CR and LF, so that each pair of terminators meets each cut |
| VarPool_env | Are cached pointers right, are boxes never freed early, and lost by detach only, and does the program see RexxScopes? | a routine and two procedures; a variable, a literal tail and a tail named by a variable; lists of EXPOSE that meet each branch |
| VarPool_grown | Does a procedure give its caller's number back? *No*, once its table has grown (section 5, 6) | three names in tables of 4, the least REGINA_HASHTABLELENGTH allows |
| QueueTable_rxqueue | Has the current queue its name on both sides, is no name there twice, is a connection open exactly while something stands for it, and does a command leave the current queue as it was? | 4 slots, a local name, two queues of one host and one of another, hosts that fail, commands that run on any queue under INTERNAL_QUEUES |
| Files_positions | Is being swapped out unnoticed? Which routines lose track of the stream, which leave a file without one? | one stream for three files, one of them read-only and one write-only; three calls, up to 4 bytes, positions 0 to 2, every way of opening |
| Interpreter_flow | Does the interpreter keep its place, its call stack and traps, take conditions before the next clause, and come to the end? | trees that put each clause into each other, 3 raises, 12 calls |
| Builtins_laws | Are strings, numbers, templates, foreign calls and programs what their own definitions say? | strings of up to 4 letters and blanks, numbers of up to DIGITS+2 digits with DIGITS 2, byte strings of 2 or 3, stems of a few items, texts of 3 pieces, clauses with a word dropped or doubled, nests of 4 clauses, expressions of 3 operands |
| Api_calls | Is no library unmapped while needed, does every RexxStart have its exits in force, are exits at begin and end paired? | 5 frames: a RexxStart within a function of a script is 5; one library, one exit for all codes; one refused RexxStart, one orphan |

`MaxLines` caps the lines of a queue and `MaxOut` the answers a client leaves unread
before it is served again: one of each gives every case in which a queue is empty or
not, a client behind or not.  Of `Week`, `WakeUp` and timeouts only the order matters.

`Interrupting` is the set of clients that may send or hang up while they wait *without*
a timeout.  The code does not take such a client out of the list before it serves it
(section 5), and whether the list is torn then depends on the command: a second PULL
links it twice, a hang-up leaves a freed record.  The properties name that step
(`Abandons`); once a list is torn the code follows freed or doubly linked records and no
behaviour is defined (`Torn`).  In RxStack_wait every client may do it; the other two
runs ask questions that need whole lists and leave it out; the theorems hold for every
value of `Interrupting`.  `Asserting` is a build with assertions (RxStack_names): there
an unknown command with data ends the daemon (`Asserts`).  What follows a torn list or a
failed assertion is left open, so a wait can stay unanswered there.

*Fairness.*  In RxStack `WF(Server)`: the sweep, the poll's timeout and the clean-up are
steps of the daemon's only thread, which never blocks elsewhere; `WF(Work)`: clients
found ready are served in the same turn, which a stream of new connections could
prevent; `SF(Tick)`: the clock goes on although ticks are excluded during a sweep.
Nothing is assumed of `accept`, signals or clients.  In ShellPump `WF(Pump)` and
`WF(Child)`: both processes are scheduled; errors are never forced.  In Interpreter the
loop runs: either the program ends or clauses are taken for ever, and then FOR,
WHILE and counts, which are finite in the trees, must end them.

Deadlock is checked in the runs of RxStack, StackLinks, ShellPump and
VarPool; RxStack stutters only when the daemon has ended.  The other systems may
stop: a table that is full, a budget of calls that is used up, one call that has been
answered.

## 4. Theorems

All hold for every value of the constants that meets the named assumptions.

| Theorem | Says | Rests on |
|---|---|---|
| RxStackProofs!TypeCorrect, DefaultQueueAlways, DeadlineListed, NoStarvation | the type invariant; default queues exist; who has a deadline is linked in its default queue; no one waits on a queue that holds a line | `HInv` |
| RxStackProofs!ListsIntact | lists of waiters are torn by no step but the service of a client whose endless wait was not ended | `HInv`, `Intact` before the step |
| RxStackProofs!NobodyForgottenAlways | who leaves a list is answered in that step; nobody waits when the daemon has ended | `HInv`, `EndedOK` |
| RxStackProofs!UsedQueueKept | no queue of a connected client expires | `HInv`, `SweepOK` |
| RxStackProofs!FairAlways | waiters keep their order, newcomers go behind, the oldest gets the line, but for the same step | `HInv`; every step is fair (`StepFair`) |
| StackLinksProofs!LinkedAlways | pointers and counters are those of lists that own the memory they link: none lost, none shared, none used after it is freed | `Inv`; `LinksAssumption` |
| StackLinksProofs!Refines | the queue made of pointers does, step by step, what RexxBuffers says, its three departures included | `Inv`; `LinksAssumption`, `ProgramsAssumption` |
| StackLinksProofs!TypeCorrect, Isolation | what a program sees is a pile of at least one buffer; no step changes a buffer below the top | `Refines`; TypeOK of RexxBuffers is inductive |
| ShellPumpProofs!EveryEndWatched | the interpreter sleeps only with every open end under watch | `Watching` |
| ShellPumpProofs!ArrivesAlways | no byte of the input, no line of the output is lost, doubled or swapped between the interpreter and its child | `IInv`; `JobsAssumption`, `NullAssumption`, `CapsAssumption` |
| VarPoolProofs!ShortcutAlways | a box that a node uses without a search is the one a search would find | `IInv`; `PoolAssumption`, `TablesSuffice` |
| VarPoolProofs!HomeAlways | every box is in a table, or hollow while nodes point at it, or free, or lost by detach; counts are exact; exposed boxes lead to live ones of callers | `IInv`; `PoolAssumption`, `TablesSuffice` |
| VarPoolProofs!CallerAlways | current_valid is the number of the running procedure | `IInv`; `PoolAssumption`, `TablesSuffice` |
| VarPoolProofs!Refines | every operation on the pool does, step by step, what RexxScopes says | `IInv`; `PoolAssumption`, `TablesSuffice`, `Habits = {}` |
| QueueTableProofs!TypeCorrect, NamesAlways | the table is well formed; the current queue can be used and has the name RXQUEUE tells; no two queues have one name | `IInv` |
| QueueTableProofs!ConnectionsAlways | as many connections as slots that stand for them, each the current queue or held by an environment | `IInv`, `CInv`; "fill" is not a habit |
| QueueTableProofs!CommandKeeps | a command that does not fail leaves the current queue and its name | `IInv`, `LocalWhenInternal`; "mix" is not a habit |
| ApiProofs!TypeCorrect, ExitsAlways | frames are nested as the C stack nests them; the exit at the end is tried exactly once after a begin that came back and never otherwise, but for `TriedAgain` | `IInv` |
| ApiProofs!HandlersAlways | every RexxStart that runs has its exits in force | `IInv`, `HInv` |
| ApiProofs!LibrariesAlways | references are counted exactly; no library is unmapped while it is needed | `IInv`, `HInv`, `LInv` |
| InterpreterProofs!DelayedAlways | a condition is delayed exactly while a handler of it runs | `IInv`; `TreesAssumption` |
| FilesProofs!SwapAlways | a stream taken away and given back reads and writes next what it would have | `IInv`; `FilesAssumption` |
| FilesProofs!TrackAlways | a box that knows where its stream is goes on knowing it, but for the ways named | `IInv`; `FilesAssumption` |
| FilesProofs!LostAlways | only STREAM RESET leaves a box without a stream that looks fit for use | `IInv`; `FilesAssumption` |
| InterpreterProofs!PendingAlways | a condition that has come up is dealt with before the next clause | `IInv`; `TreesAssumption` |

*RxStackProofs.*  None of its invariants is inductive alone.  When a client
interrupts its wait, it is taken out of the list of its *default* queue: that this is
the list in which it is linked needs DeadlineMeansListed; that nothing else is left of
it in a list needs that it is linked once (`Intact`); that its default queue can be
looked up needs DefaultQueueValid; and a queue can be made under a name only if the
name is not in use, which for made-up names needs `IssuedOK`.  All but `Intact` is the
invariant `HInv` (`Whole`): it survives the step that tears a list, for that step changes
deadlines and buffers as any other does, and no step follows.  The step that serves a
client with `Abandons` and every other step are argued apart.  The parts are stated over
(clients, default queues, deadlines, queues) rather than over the variables, so that one
lemma per operation serves the state before and after the interruption.
NobodyForgotten compares lengths of the queues of answers: no operation shortens one, and
each that takes a client out of a list appends to its (`Tells`).  `SweepOK` says that in the sweep
the queues of the clients already visited have a whole week left, for no time passes
in it; the lemma `Phases` says which steps run in which phase.  FairWaiters is an
action property: a command is split into the interruption of the client's own wait,
which takes one element out of a list and keeps the order of the others (`Without`),
and the rest, which keeps a list, empties it, takes its head or adds the client at the
end (`Joins`), and answers other clients with code 4 but for the head of a list
(`Gives`); `ServedFair` composes the two.  The run RxStack_names checks the property
without timeouts and interruptions, the proof covers both.

*ShellPumpProofs.*  `Watching` says what the waiters are at each place of the turn: the
open ends among those the turn has passed.  ArrivesWhole compares two readings of the
child's bytes: `Cut`, the loop of drop_crop over line_length, which looks for the first
terminator of what it has, and `Lines`, which takes the bytes one by one.  That they
agree on all bytes (`LinesAreCut`), and that a cut in between does no harm if what is
left over is put in front of what comes (`CutOn`), is the core of the proof: a lone
terminator at the end of a read stays, for the next byte may be its second half.  Both are
recursive functions over positions; the lemmas argue over a least position at which they
would part (`LeastNat`, from the well-foundedness of the numbers).  The
property itself is not inductive: it says what would arrive if the child wrote nothing
more.  `ArrivesBy` says it for every continuation, which is what survives a read that
ends between CR and LF.  On the way in, `FedBy` joins what the child has read, the pipe,
the buffer and the string to the lines fetched so far, so that a partial write only
moves the border.  `Ends` says which ends can still carry something: an output
is closed only when the child has closed it and the pipe is empty.  The assumptions say
that lines are made of bytes, that NULL is neither a byte nor a string, that the sizes
are sizes and that no pipe is smaller than PIPE_BUF.

*StackLinksProofs.*  `Inv` says that memory "holds" lists (`Holds`): there are a list d of
buffers and for each buffer b a list ls[b] of lines, without repetition and without
a cell in common, such that the pointers of memory are those of these lists and no
cell is in none of them.  The lists are what is reasoned about, for pointers alone give
no induction.  `Chain`, which follows pointers, then finds exactly d and ls[b]
(`Shown`): it cannot run longer than there are cells, so the bound it is given is no
bound on the queue (`FiniteMemory`, `ListSize`).  Every macro and function has a lemma that
takes a memory which holds lists to one that holds the expected lists: pushing,
queueing and popping a line, emptying a buffer, dropping those above (one at a time, by
well-founded induction over the length), adding and filling the temporary queue.
`mem.elements` is shown to be the number of line cells less those of the temporary
queue (`LinesCounted`), so the counters are right, and what a program sees
changes as RexxBuffers says (`PushStep` to `FinishStep`); both theorems
come from the same lemmas.  RexxBuffers is proved to isolate what is below the top buffer
(`SeenTyped`, `SeenIsolated`: its type invariant is inductive, and each operation cuts the
pile at one buffer, `CutAt`); by Refines this holds of the queue in memory.

*VarPoolProofs.*  A memory is a record, an operation a function of it, and `IInv` an
invariant of that record, with five parts that need each other.  `Numbered`: procedures that
run bear growing numbers, each keeps its caller's, and no number used is given again.
`Tabled`: a table holds, under each name, the box of this procedure and name if it
is live, and nothing else; so do the tables of stems.  `Boxed`: a live box belongs to
a running procedure, a hollow or lost one to an ended one.  `Leads`: an exposed box leads to a live
box of an earlier procedure that leads nowhere itself, and so do the boxes of the
procedures between.  `Pointed`: a box counts the node that points at it; and *if its stamp
is the number of any procedure that runs, then it is what a search from that procedure
finds*.  ShortcutTruth says this of the procedure on top only.  That is not enough: a
pointer made before a call is not looked at during the call and trusted after it, and EXPOSE
stamps the caller's box with the callee's number.  What an operation does is a relation
between memories (`Revalued`, `Inserted`, `TailInserted`, `Released`, `Taken`, `Cleared`,
`Called`, `Restamped`, `Aliased`, `Ended`), with one lemma that it keeps `IInv` and one that
the code's function does it; the paths through the code are chains of these.  That a list
of EXPOSE does so is an induction over its length, with a least name at which it would go
wrong.

That the pool implements RexxScopes is told by the heap alone.  `Owner` of a procedure and
a name is the procedure whose variable it is, along the exposed boxes; `Worth` is the value
kept there, with a tail that has no box taking its stem's.  What an operation does to the two
is `Writes` (a value goes to the owners of some names, whoever looks), `Opens` (a procedure
begins to share some names with its caller) or `Ends` (the last procedure is forgotten, and
no other value with it); most change neither (`Same`).  Each function of the pool has a lemma
that says which of these it does, next to the one that it keeps `IInv`, which it needs:
a value written through a pointer without a search goes to the right box only because the
box can be trusted.  `CellOfIs` and `CellValueIs` say that the mapping of VarPool, which
searches the tables as the code does, finds just `Owner` and `Worth`; then each of the
three is a step of RexxScopes (`WritesSeen`, `OpensSeen`, `EndsSeen`).  A list of EXPOSE is
followed name by name, `Shared` telling what is shared so far: the order matters, for the X
of S.X is the caller's only if X was exposed before it, and a stem may come after its tails.

`Habits = {}` keeps two uses out, in which a program sees something else than the language
promises (section 5, 7): adding to a stem that has tails changes only its default, and
exposing a tail that has its stem's value hides that value.  The invariants above are proved
for programs with these habits too.

`TablesSuffice` says that the tables need not grow: 3 |Names| <= 2 InitSize, that is 151
names with the size the code starts with.  It is no convenience: without it CallerAlways is
false (run VarPool_grown), and so is ShortcutTruth: with a wrong number in force a
pointer is trusted that should not be.  Tables that grow for their collisions alone are not modelled.

*QueueTableProofs.*  A command is a chain of operations on the table: two queues opened,
a queue to run on, and the way back.  Each operation has a lemma which says that it
keeps the table well formed (`TableOK`, `CurrentOK`, `NewNames`) and one for what
it does to the slots an environment holds; the steps put them together.  `CInv`
counts connections: `Extra` of a host is how many are open beyond the slots that stand
for it.  It is never negative whatever happens, and zero if the table is never full.
That a command keeps the current queue needs `LocalWhenInternal`: while INTERNAL_QUEUES
is on, the current queue is internal.

*ApiProofs.*  That the right exits are called as often as they should depends on
which frames may lie on which (`On`): a script only on a RexxStart, a script or a label;
native code only on a script or a label, and the exit at the begin only on a script
that has come to nothing yet; all else only on native code.  `Sound` relates a
script's phase to what has been called for it.  An error cuts the stack (`Failures`);
the lemmas say that what is left is a stack again and that no RexxStart has gone
(`Left`), so that the lists of exits keep their owners.  Steps that only change the
frames are `Steady`: what is new on the stack is in reach of what is registered, in force
or already running.  `LInv` says what is mapped: the frames' libraries and those of
the exits in force.  It is an invariant only while the main program has its name, for
otherwise orphans are unmapped at any time (section 5, 12).  `SafeMeans` is the core of
it: when it is safe to unmap, nothing runs, or only that bare main program.

*InterpreterProofs.*  A clause is a chain of functions of one record, the machine: an
expression that may raise, the clause itself, the loops it leaves, the condition taken
after it.  So the invariant is one of a machine, `OK`, and every function has a lemma
that it keeps it; only at the end is it put back on the variables.  The state of the
traps is not inductive alone.  That a handler's return clears the right level needs
that there is one level for each routine (`Leveled`), counted over the calls of
interpret(), of which those for strings share the level of their routine; and what
happens after an error needs that each routine has a call to jump to (`Called`).
`Delays` is the property itself.  Clauses that move about in the tree leave
all of it alone (`Like`), whatever they find there, so nothing is assumed of the
tree's edges.  For the action property, `Deals` says how a clause may have come to its
end: left by a jump, deeper, with nothing pending or with what was pending before; with
the taking of the condition in front of the clause that leaves the cases the property
names.  `TreesAssumption` is the grammar's: CALL ON has no SYNTAX.  Without it an error
could be trapped by a handler that returns into the clause that failed.

*FilesProofs.*  `IInv` is small: every box has the fields of a FileBox, and the mode its
stream was opened with agrees with the uses it allows (`Matched`), for the mode in which
`swapin_file` opens it again is reckoned from these.  The three properties are about one
step.  Each routine has a lemma that relates the box before to the box after it:
`Sound` (still well formed and matched), `NotLost` (it does not come to lack a stream
unnoticed), and `Fine` (if it knew where its stream is it still does).  `Kept` holds of
the routines that move both together, `Kind` of those that may also note the end, `Step`
of opening, reopening and swapping, `Aside` of the boxes of other files, which lose
their stream at most.  A call is a chain of them (`Does`).  SwapAlways then compares two
boxes that differ only in their streams (`Twin`): what decides the next byte read and
the place written is `thispos` if the stream is where it says.  The proof corrected two
properties.  A file that may only be written comes back with mode "ab" and goes on at
its end; the run had no such file.  A box whose two places are known and which is
turned by RESET and CHAROUT after a failed CHARIN is misled after five calls, more than
the run makes.

*Only model-checked.*  Liveness (LIVE in RxStack, ends of commands in ShellPump and of
programs in Interpreter) is out of this prover's reach.  The laws of Builtins_laws are
about recursive definitions over data.  The places of Interpreter (NestingKept) are
model-checked only.

## 5. Where code and comments disagree

Met while modelling; the models do what the code does.

*Queues and commands.*
1. A wait without a timeout is not interrupted (rxstack.c:2750): the daemon knows a
   waiting client by its deadline, and one that waits for ever has none.  It stays
   listed, against the comment "interrupted wait, assume the client don't want to wait
   for data any longer", is listed twice by its next pull, and freed while listed when
   it leaves (2216).  `redir` ignores the result of `send` (1479).  With assertions on,
   an unknown command that carries data ends the daemon (2371).
2. DROPBUF with a large negative number (stack.c:783) empties the queue and answers 0,
   where the comment at 764 promises -2 (`DropTooMany`).  Under FLUSHSTACK a command that
   reads the queue it writes is not given a copy (shell.c:799): it reads its own output,
   and the rest of it is purged with its input (`FeedFromOwnQueue`, `FinishOwnQueue`).
3. An empty line of INPUT NOEOL (shell.c:471) is never used up: the command never ends.
   INPUT NOEOL STEM (shell.c:1006) reaches `assert( delflag )`.
4. OPTIONS INTERNAL_QUEUES while an external queue is current fails the assertion of
   stack.c:727.  `set_queue` with a full table leaves a connection open (1678).  A
   failing command under INTERNAL_QUEUES leaves the queue current that it was to run on
   (envir.c:700), and the temporary environment stays (729).
5. A timeout of more than 0xFFFFFF ms is cut to six digits (extstack.c:441).

*Variables.*
6. `reorgHashtable` makes the larger table without the slot for the caller's number
   (variable.c:1623), which is read at the procedure's return (3037).  The caller goes on
   under whatever number is found there (run VarPool_grown).  A hollow box is freed by a
   node that looks for its variable anew (3099), not when the last node goes with its
   tree: `detach` only counts (542), and nothing points at the box any more (`lost`).
7. EXPOSE of a tail without a box hides the default of its stem; `DROP a.` misses an
   exposed tail that only has a number; `a. += 1` changes only the default.

*Files.*
8. LINEOUT after LINEIN writes at the read position; so does LINEOUT after a command's
   output went to the file.  CHARIN(f,3,0) then CHAROUT writes one byte too early;
   LINES(f,'C') then CHARIN reads at a wrong place; `SEEK <n LINE` goes one line too far.
   A write-only file is opened "wb", which empties it; swapped out, it goes on at its
   end, wherever it was.
9. RESET of a file that cannot be opened leaves a box without a stream that looks ready:
   the next LINEIN or CHAROUT uses a null pointer.
10. Two files that fail in one clause with CALL ON NOTREADY: the first stays faked.

*Flow.*
11. A condition of CALL ON raised by UNTIL or the increment of a loop pops the call stack
    twice.  A condition in RETURN's expression, with a trap in the routine only, is
    delivered late.  NUMERIC FORM sets FUZZ to 0.  SIGNAL or RETURN in INTERPRET leave
    entries of the call stack.  A halt trapped by CALL ON that arrives in front of
    OTHERWISE is still pending when the first clause behind it begins (interprt.c:613).

*Interface.*
12. A file's script calls the exit RXTER twice (macros.c:380), against "be sure to try
    it only once" four lines above; one that always fails is called for ever (`TriedAgain`).
    RexxStart refused with a bad list leaves its handlers in force.  A RexxStart within a
    function closes the files of the outer script and frees its name.  A library whose
    function is running can be unmapped after it.  `IfcSubCmd` uses an entry which the
    exit before it may have deregistered.
13. Generic calls: the outer shift is forgotten behind pointers of arrays of indirect
    items; INDIRECT RAW that is not set is cleared one byte too far; a LIKE circle with a
    container before it never stops; "0-5" is a number; direct RAW and STRING of more than
    8 bytes must be a multiple of 8; the limit of the arguments is half of what is meant.

*Numbers and strings.*
14. `0**(-1)` does not return (strmath.c:2405).  101*145 at DIGITS 3 is 1.47E+4, rounded
    twice; 10.1-9.99 at DIGITS 3 is 0.1; -0 is less than 0 to `string_test`.
15. WORDPOS and FIND may read one byte behind the string; JUSTIFY copies the byte behind
    it; OVERLAY without a position reckons one byte too few; UPPER and LOWER with too large
    a length touch what lies behind; DATATYPE(s,'B') counts blanks as digits; X2B takes an
    odd group that X2C refuses.

*Source text.*
16. A tab, and a byte with its highest bit set where char is signed, ends a comment that
    begins with `--` (lexsrc.l:2567); the rest of it is read as program (`CutShort`).
    A comma before a comment over the line's end does not continue the clause when text
    follows the comment.  Names of resources behind WITH are errors (53.1), so are
    `address (left('x',2))` (19.1) and `parse var a (b)(f) l` (38.1).  WHEN without THEN
    gives 35 and not 18.2; an error inside SELECT, IF or CALL is reported with the code of
    the construct around it.

## 6. Not modelled

* The websocket protocol of rxstack, whose requests end in the commands modelled; the
  client side of external queues (a command and its argument are one request).
* The memory manager, threads, layers of other systems (Windows, OS/2, VMS, EPOC),
  installers, regutil, options, tracing, texts of errors.
* Expressions of the interpreter: which values they have is Builtins', which conditions
  they raise is the Interpreter's.  Functions on dates and the clock.
* Inside modelled components: stderr joined to stdout at the child; the iteration over
  variables and pool 0; standard streams and the full disk; numbers of lines and
  columns of tokens; the tables of the generated scanner and parser; floating point
  values of foreign calls.

## 7. Plan

1. **RxClient**, composed with RxStack -- request and answer over a stream without
   request numbers (extstack.c, rxqueue.c); timeouts of six digits.  Property: an answer
   belongs to its request; the queue used is the one last set.
2. **MemBins** (memory.c), semaphores of regutil, stems of regutil.
3. A theorem: NestingKept of Interpreter (end of section 4).
