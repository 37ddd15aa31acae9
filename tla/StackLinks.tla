---------------------------- MODULE StackLinks -----------------------------
(***************************************************************************)
(* The internal queue of src/stack.c as it lies in memory: a double linked *)
(* list of buffers (newest at "top"), each with a double linked list of    *)
(* lines, the counters kept beside the lists, and the temporary queue that *)
(* an ADDRESS ... WITH command may use.  Memory is allocated and freed     *)
(* explicitly.  The module implements RexxBuffers, which says what the     *)
(* program sees.                                                           *)
(***************************************************************************)
EXTENDS Integers, SequencesExt

CONSTANTS
    Box,     \* addresses a StackLine can have
    Buf,     \* addresses a Buffer can have
    Temp,    \* the address of the Buffer inside the slot of a temporary queue
    Null,    \* the null pointer
    Line, Number, Ways

ASSUME LinksAssumption ==
    /\ IsFiniteSet(Box) /\ IsFiniteSet(Buf) /\ Buf # {}
    /\ Box \cap Buf = {} /\ Temp \notin Buf
    /\ Null \notin Box \cup Buf \cup {Temp}

VARIABLES
    mem,       \* memory, and the record of the queue (see Fresh)
    command,   \* what the running command reads and where it writes
    reply      \* what the last operation returned

vars == <<mem, command, reply>>

\* What malloc and memset give: an empty Buffer.
EmptyBuffer == [higher |-> Null, lower |-> Null, top |-> Null, bottom |-> Null, elements |-> 0]

\* The queue before its first use.  Functions box and buf hold the live cells.
Fresh == [box |-> << >>, buf |-> << >>,
          top |-> Null, bottom |-> Null, buffers |-> 0, elements |-> 0]

Malloc(addresses, live) == CHOOSE a \in addresses \ DOMAIN live : TRUE
Put(cells, a, cell) == [x \in DOMAIN cells \cup {a} |-> IF x = a THEN cell ELSE cells[x]]
Free(cells, gone) == Restrict(cells, DOMAIN cells \ gone)

\* The cells met from one on, following one of their links; a list that loops
\* gives a sequence longer than there are cells.
Chain(cells, first, link) ==
    LET after[w \in Seq(Box \cup Buf)] ==
            IF w = << >> THEN first
            ELSE IF Last(w) \in DOMAIN cells THEN cells[Last(w)][link] ELSE Null
        longer[w \in Seq(Box \cup Buf)] ==
            IF after[w] = Null THEN w ELSE Append(w, after[w])
        walk[i \in 0 .. Cardinality(DOMAIN cells) + 1] ==
            IF i = 0 THEN << >> ELSE longer[walk[i - 1]]
    IN walk[Cardinality(DOMAIN cells) + 1]

LinesOf(m, b) == Chain(m.box, m.buf[b].top, "lower")
BuffersOf(m) == Chain(m.buf, m.top, "lower")

-----------------------------------------------------------------------------
\* The macros of src/extstack.h and src/stack.c.

EnsureBuffer(m) ==
    LET zeroth == Malloc(Buf, m.buf) IN
    IF m.top # Null THEN m
    ELSE [m EXCEPT !.buf = Put(@, zeroth, EmptyBuffer), !.top = zeroth, !.bottom = zeroth,
                   !.elements = 0, !.buffers = 1]

\* (Mutant of LifoLine: the old top line is not told what lies above it.)
LifoOneWay(m, b, l) ==
    LET n == Malloc(Box, m.box) IN
    [m EXCEPT !.box = Put(@, n, [higher |-> Null, lower |-> m.buf[b].top, contents |-> l]),
              !.buf[b].top = n,
              !.buf[b].bottom = IF m.buf[b].top = Null THEN n ELSE @,
              !.buf[b].elements = @ + 1]

\* A line is put on top of buffer b.
LifoLine(m, b, l) ==
    LET n == Malloc(Box, m.box)
        old == m.buf[b].top
        boxes == Put(m.box, n, [higher |-> Null, lower |-> old, contents |-> l])
    IN [m EXCEPT !.box = IF old = Null THEN boxes ELSE [boxes EXCEPT ![old].higher = n],
                 !.buf[b].top = n,
                 !.buf[b].bottom = IF old = Null THEN n ELSE @,
                 !.buf[b].elements = @ + 1]

\* A line is put at the bottom of buffer b.
FifoLine(m, b, l) ==
    LET n == Malloc(Box, m.box)
        old == m.buf[b].bottom
        boxes == Put(m.box, n, [higher |-> old, lower |-> Null, contents |-> l])
    IN [m EXCEPT !.box = IF old = Null THEN boxes ELSE [boxes EXCEPT ![old].lower = n],
                 !.buf[b].bottom = n,
                 !.buf[b].top = IF old = Null THEN n ELSE @,
                 !.buf[b].elements = @ + 1]

\* The top line of buffer b, which has one, is taken off and freed.
PopLine(m, b) ==
    LET n == m.buf[b].top
        next == m.box[n].lower
        boxes == Free(m.box, {n})
    IN [m EXCEPT !.box = IF next = Null THEN boxes ELSE [boxes EXCEPT ![next].higher = Null],
                 !.buf[b].top = next,
                 !.buf[b].bottom = IF next = Null THEN Null ELSE @,
                 !.buf[b].elements = @ - 1]

\* The number of lines in the queue changes.
Count(m, n) == [m EXCEPT !.elements = @ + n]

-----------------------------------------------------------------------------
\* What the operations do to memory.

DeleteBufferContent(m, b) ==
    [m EXCEPT !.box = Free(@, ToSet(LinesOf(m, b))),
              !.buf[b].top = Null, !.buf[b].bottom = Null, !.buf[b].elements = 0]

\* The buffers of bs lose their lines, one after the other.
EmptyOne(n, b) == DeleteBufferContent(Count(n, -n.buf[b].elements), b)
EmptyBuffers(m, bs) ==
    LET after[i \in 0 .. Len(bs)] == IF i = 0 THEN m ELSE EmptyOne(after[i - 1], bs[i])
    IN after[Len(bs)]

\* (Mutant of DropEmpty: the bottom pointer survives the last buffer.)
BottomKept(m) ==
    LET down == BuffersOf(m)
        filled == {i \in DOMAIN down : m.buf[down[i]].top # Null}
        dropped == IF filled = {} THEN Len(down) ELSE Min(filled) - 1
        buffers == Free(m.buf, ToSet(SubSeq(down, 1, dropped)))
        top == IF filled = {} THEN Null ELSE down[Min(filled)]
    IN [m EXCEPT !.buf = IF top = Null THEN buffers ELSE [buffers EXCEPT ![top].higher = Null],
                 !.top = top,
                 !.buffers = @ - dropped]

\* popline: empty buffers are dropped from the top until there is a line.
DropEmpty(m) ==
    LET down == BuffersOf(m)
        filled == {i \in DOMAIN down : m.buf[down[i]].top # Null}
        dropped == IF filled = {} THEN Len(down) ELSE Min(filled) - 1
        buffers == Free(m.buf, ToSet(SubSeq(down, 1, dropped)))
        top == IF filled = {} THEN Null ELSE down[Min(filled)]
    IN [m EXCEPT !.buf = IF top = Null THEN buffers ELSE [buffers EXCEPT ![top].higher = Null],
                 !.top = top,
                 !.bottom = IF top = Null THEN Null ELSE @,
                 !.buffers = @ - dropped]

\* drop_buffer, when there is such a buffer: the one found by climbing from the
\* bottom and those above it lose their lines; all of them go, or all but the
\* zeroth.
DropBuffers(m, n) ==
    LET up == Chain(m.buf, m.bottom, "higher")
        climbed == IF n > 0 THEN n ELSE 0
        kept == IF climbed = 0 THEN 1 ELSE climbed
        top == up[kept]
        emptied == EmptyBuffers(m, SubSeq(up, climbed + 1, Len(up)))
    IN [emptied EXCEPT !.buf = [Free(@, ToSet(SubSeq(up, kept + 1, Len(up)))) EXCEPT ![top].higher = Null],
                       !.top = top,
                       !.buffers = @ - (Len(up) - kept)]

\* make_buffer, the zeroth buffer being there.
AddBuffer(m) ==
    LET new == Malloc(Buf, m.buf) IN
    [m EXCEPT !.buf = Put([@ EXCEPT ![m.top].higher = new], new, [EmptyBuffer EXCEPT !.lower = m.top]),
              !.top = new,
              !.buffers = @ + 1]

\* (Mutant of TakeTop: the queue still counts the lines taken out of it.)
CountKept(m) ==
    LET lines == [m.buf[m.top] EXCEPT !.higher = Null, !.lower = Null] IN
    IF m.top = Null THEN [m EXCEPT !.buf = Put(@, Temp, EmptyBuffer)]
    ELSE [m EXCEPT !.buf = Put([@ EXCEPT ![m.top].top = Null, ![m.top].bottom = Null,
                                           ![m.top].elements = 0], Temp, lines)]

\* addr_redir_queue: the lines of the top buffer become those of the temporary
\* queue, the buffer stays.
TakeTop(m) ==
    LET lines == [m.buf[m.top] EXCEPT !.higher = Null, !.lower = Null] IN
    IF m.top = Null THEN [m EXCEPT !.buf = Put(@, Temp, EmptyBuffer)]
    ELSE [Count(m, -m.buf[m.top].elements)
            EXCEPT !.buf = Put([@ EXCEPT ![m.top].top = Null, ![m.top].bottom = Null,
                                         ![m.top].elements = 0], Temp, lines)]

\* fill_input_queue_stem and fill_input_queue_stream.
FillTemp(m, lines) ==
    LET after[i \in 0 .. Len(lines)] ==
            IF i = 0 THEN [m EXCEPT !.buf = Put(@, Temp, EmptyBuffer)]
            ELSE FifoLine(after[i - 1], Temp, lines[i])
    IN after[Len(lines)]

\* (Mutant of PurgeTop: REPLACE reaches the buffers below.)
PurgeAll(m) == LET e == EnsureBuffer(m) IN EmptyBuffers(e, BuffersOf(e))

\* addr_purge_queue
PurgeTop(m) == LET e == EnsureBuffer(m) IN EmptyBuffers(e, <<e.top>>)

\* (Mutant of DeleteTemp: the slot is reset before its lines are freed.)
LinesKept(m) == [m EXCEPT !.buf = Free(@, {Temp})]

\* delete_a_temp_queue, of a slot that may be unused.
DeleteTemp(m) ==
    IF Temp \notin DOMAIN m.buf THEN m
    ELSE LET e == DeleteBufferContent(m, Temp) IN [e EXCEPT !.buf = Free(@, {Temp})]

\* delete_an_internal_queue
DeleteQueue(m) ==
    LET e == EmptyBuffers(m, BuffersOf(m))
    IN [Fresh EXCEPT !.box = e.box, !.buf = Free(e.buf, ToSet(BuffersOf(m)))]

-----------------------------------------------------------------------------
\* What the program sees of it: a queue that has no buffer yet, or none left,
\* looks like one that has only the zeroth.
Contents(m, b) ==
    LET texts[s \in Seq(Box)] == [i \in DOMAIN s |-> m.box[s[i]].contents]
    IN texts[LinesOf(m, b)]
StackIn(m) ==
    LET buffers[s \in Seq(Buf)] == [i \in DOMAIN s |-> Contents(m, s[i])]
    IN IF m.top = Null THEN << <<>> >> ELSE buffers[Reverse(BuffersOf(m))]
CopyIn(m) == IF Temp \in DOMAIN m.buf THEN Contents(m, Temp) ELSE <<>>
Stack == StackIn(mem)
Copy == CopyIn(mem)

Rexx == INSTANCE RexxBuffers WITH
    stack <- Stack, copy <- Copy,
    MaxLines <- Cardinality(Box), MaxBuffers <- Cardinality(Buf)

\* What programs ask for is what RexxBuffers expects.
ASSUME ProgramsAssumption == Rexx!BuffersAssumption

Room(n) == Cardinality(DOMAIN mem.box) + n <= Cardinality(Box)

Init ==
    /\ mem = Fresh
    /\ command = Rexx!Idle
    /\ reply = Rexx!Said(0, <<>>)

-----------------------------------------------------------------------------
\* What a program does between commands.

Program == ~command.running /\ UNCHANGED command

Push(l) ==
    LET m == EnsureBuffer(mem) IN
    /\ Program /\ Room(1)
    /\ mem' = Count(LifoLine(m, m.top, l), 1)
    /\ reply' = Rexx!Said(0, <<>>)

Queue(l) ==
    LET m == EnsureBuffer(mem) IN
    /\ Program /\ Room(1)
    /\ mem' = Count(FifoLine(m, m.top, l), 1)
    /\ reply' = Rexx!Said(0, <<>>)

\* Standard input is read when there is no line.
Pull ==
    LET m == DropEmpty(mem) IN
    /\ Program
    /\ IF m.top = Null
       THEN /\ mem' = m
            /\ reply' = Rexx!Said(1, <<>>)
       ELSE /\ mem' = Count(PopLine(m, m.top), -1)
            /\ reply' = Rexx!Said(0, <<m.box[m.buf[m.top].top].contents>>)

MakeBuf ==
    LET m == EnsureBuffer(mem) IN
    /\ Program /\ m.buffers < Cardinality(Buf)
    /\ mem' = AddBuffer(m)
    /\ reply' = Rexx!Said(mem'.buffers - 1, <<>>)

DropBuf(n) ==
    LET m == EnsureBuffer(mem)
        number == IF n < 0 THEN m.buffers + n ELSE n
    IN
    /\ Program
    /\ IF number >= m.buffers
       THEN /\ mem' = m
            /\ reply' = Rexx!Said(-2, <<>>)
       ELSE /\ mem' = DropBuffers(m, number)
            /\ reply' = Rexx!Said(mem'.buffers - 1, <<>>)

Queued ==
    /\ Program
    /\ reply' = Rexx!Said(mem.elements, <<>>)
    /\ UNCHANGED mem

BufType ==
    /\ Program
    /\ mem' = EnsureBuffer(mem)
    /\ reply' = Rexx!Said(0, <<>>)

Purge ==
    /\ Program
    /\ mem' = DeleteQueue(mem)
    /\ reply' = Rexx!Said(0, <<>>)

-----------------------------------------------------------------------------
\* A command with its input or its output redirected.

\* The channels are opened: a copy of the input is made if it needs one, then
\* a queue that is replaced is purged.
Opened(w) ==
    LET m == IF Rexx!IsCopied(w) THEN TakeTop(mem)
             ELSE IF w.reads = "copy" \/ w.writes = "string" THEN FillTemp(mem, w.given)
             ELSE mem
    IN IF w.replace THEN PurgeTop(m) ELSE m

Start(w) ==
    /\ ~command.running /\ Room(Len(w.given))
    /\ mem' = Opened(w)
    /\ command' = Rexx!Running(IF Rexx!IsCopied(w) THEN "copy" ELSE w.reads, w.writes)
    /\ reply' = Rexx!Said(0, <<>>)

FailToStart(w) ==
    /\ ~command.running /\ Room(Len(w.given))
    /\ mem' = DeleteTemp(Opened(w))
    /\ reply' = Rexx!Said(1, <<>>)
    /\ UNCHANGED command

\* One line is read for the command, out of buffer b.
Feed(m, b) ==
    IF m.buf[b].top = Null
    THEN /\ mem' = m
         /\ command' = [command EXCEPT !.eof = TRUE]
         /\ reply' = Rexx!Said(1, <<>>)
    ELSE /\ mem' = IF b = Temp THEN PopLine(m, b) ELSE Count(PopLine(m, b), -1)
         /\ reply' = Rexx!Said(0, <<m.box[m.buf[b].top].contents>>)
         /\ UNCHANGED command

FeedFromCopy ==
    /\ command.reads = "copy" /\ ~command.eof
    /\ Feed(mem, Temp)

FeedFromQueue ==
    LET m == EnsureBuffer(mem) IN
    /\ command.reads = "queue" /\ ~command.eof
    /\ Feed(m, m.top)

\* A line of its output is stored.
Crop(l) ==
    LET m == EnsureBuffer(mem) IN
    /\ Room(1)
    /\ \/ command.writes = "lifo" /\ mem' = LifoLine(Count(m, 1), m.top, l)
       \/ command.writes = "fifo" /\ mem' = FifoLine(Count(m, 1), m.top, l)
       \/ command.writes = "string" /\ mem' = FifoLine(mem, Temp, l)
    /\ reply' = Rexx!Said(0, <<>>)
    /\ UNCHANGED command

Finish ==
    /\ command.running
    /\ mem' = DeleteTemp(IF command.reads = "queue" THEN PurgeTop(mem) ELSE mem)
    /\ command' = Rexx!Idle
    /\ reply' = Rexx!Said(0, IF command.writes = "string" THEN Contents(mem, Temp) ELSE <<>>)

Next ==
    \/ \E l \in Line : Push(l) \/ Queue(l) \/ Crop(l)
    \/ \E n \in Number : DropBuf(n)
    \/ Pull \/ MakeBuf \/ Queued \/ BufType \/ Purge
    \/ \E w \in Ways : Start(w) \/ FailToStart(w)
    \/ FeedFromCopy \/ FeedFromQueue \/ Finish

Spec == Init /\ [][Next]_vars

-----------------------------------------------------------------------------
\* Live cells have the fields of StackLine and Buffer; no pointer to a cell
\* that was freed is left in another cell or in the record of the queue.
TypeOK ==
    LET lines == DOMAIN mem.box \cup {Null}
        buffers == (DOMAIN mem.buf \ {Temp}) \cup {Null}
    IN
    /\ DOMAIN mem.box \subseteq Box /\ DOMAIN mem.buf \subseteq Buf \cup {Temp}
    /\ \A n \in DOMAIN mem.box :
          mem.box[n] \in [higher: lines, lower: lines, contents: Line]
    /\ \A b \in DOMAIN mem.buf :
          mem.buf[b] \in [higher: buffers, lower: buffers, top: lines, bottom: lines,
                          elements: 0 .. Cardinality(Box)]
    /\ mem.top \in buffers /\ mem.bottom \in buffers
    /\ mem.buffers \in 0 .. Cardinality(Buf) /\ mem.elements \in 0 .. Cardinality(Box)

\* Every list, of lines or of buffers, reads the same in both directions.
Mirrored ==
    /\ BuffersOf(mem) = Reverse(Chain(mem.buf, mem.bottom, "higher"))
    /\ \A b \in DOMAIN mem.buf :
          LinesOf(mem, b) = Reverse(Chain(mem.box, mem.buf[b].bottom, "higher"))

\* The counters that QUEUED, MAKEBUF and DROPBUF answer from are right: each
\* buffer's lines, the lines of the queue without those of a temporary queue,
\* the buffers.
Counted ==
    /\ \A b \in DOMAIN mem.buf : mem.buf[b].elements = Len(LinesOf(mem, b))
    /\ mem.buffers = Len(BuffersOf(mem))
    /\ mem.elements = Cardinality(DOMAIN mem.box) - Len(Copy)

\* Nothing leaks and nothing is shared: each live buffer is in the queue, or
\* is the temporary one while a command runs; each live line is in exactly one
\* buffer, once.
NothingLost ==
    /\ DOMAIN mem.buf \ {Temp} = ToSet(BuffersOf(mem))
    /\ Temp \in DOMAIN mem.buf => command.running
    /\ UNION {ToSet(LinesOf(mem, b)) : b \in DOMAIN mem.buf} = DOMAIN mem.box
    /\ \A b, c \in DOMAIN mem.buf :
          b # c => ToSet(LinesOf(mem, b)) \cap ToSet(LinesOf(mem, c)) = {}
    /\ \A b \in DOMAIN mem.buf : IsInjective(LinesOf(mem, b))

\* The pointers and the counters of the queue are those of a list, and it owns the
\* memory it links: DROPBUF, the dropping of empty buffers, the temporary queue of a
\* command and its purge leave no line that is lost or in two buffers.
Linked == TypeOK /\ Mirrored /\ Counted /\ NothingLost

\* The links implement the queue a program sees.
Implements == Rexx!Spec

\* Whoever works above a MAKEBUF leaves what lies below as it was: no operation,
\* and no command with its purges and copies, changes the lines that the links show
\* of a buffer below the top one that is left.
BelowUntouched == Rexx!BelowUntouched
=============================================================================
