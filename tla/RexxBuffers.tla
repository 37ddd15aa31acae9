---------------------------- MODULE RexxBuffers ----------------------------
(***************************************************************************)
(* One internal queue of an interpreter (src/stack.c) as a Rexx program    *)
(* sees it: a pile of buffers, each a sequence of lines, on which PUSH,    *)
(* QUEUE, PULL, MAKEBUF, DROPBUF, DESBUF and QUEUED work, and from and to  *)
(* which a command started by ADDRESS ... WITH (src/shell.c) reads and     *)
(* writes.  Nothing here says how the lines are linked: StackLinks does,   *)
(* and implements this module.                                             *)
(***************************************************************************)
EXTENDS Integers, SequencesExt

CONSTANTS
    Line,        \* the lines a program may queue
    Number,      \* the arguments a program may give DROPBUF
    Ways,        \* the ways a command's channels may be redirected (see Way)
    MaxLines,    \* bound: lines in the queue and in a command's copy together
    MaxBuffers   \* bound: buffers of the queue, the zeroth one included

\* How a command is redirected: what it reads, where its output goes, whether
\* that is replaced (REPLACE), whether FLUSHSTACK is set, and the lines of the
\* stem or stream that must be copied since the command writes there as well.
Way == [reads: {"nothing", "queue", "copy"}, writes: {"nothing", "lifo", "fifo", "string"},
        replace: BOOLEAN, flush: BOOLEAN, given: Seq(Line)]
ToQueue(w) == w.writes \in {"lifo", "fifo"}

\* What the constants must be; a module that takes this one makes it an assumption.
BuffersAssumption ==
    /\ Number \subseteq Int
    /\ MaxLines \in Nat
    /\ MaxBuffers \in Nat \ {0}
    /\ Ways \subseteq Way
    /\ \A w \in Ways :
          /\ w.reads # "copy" => w.given = <<>>
          /\ w.reads = "copy" => w.writes = "nothing"
          /\ w.reads = "queue" => w.writes # "string"
          /\ w.replace => ToQueue(w)

VARIABLES
    stack,     \* the buffers, the zeroth one first; each has its top line first
    copy,      \* the temporary queue of a command: lines it reads, or its output
    command,   \* what the running command reads and where it writes
    reply      \* what the last operation returned: a number and lines

vars == <<stack, copy, command, reply>>

Idle == [running |-> FALSE, reads |-> "nothing", writes |-> "nothing", eof |-> FALSE]
Running(reads, writes) == [running |-> TRUE, reads |-> reads, writes |-> writes, eof |-> FALSE]
Said(rc, lines) == [rc |-> rc, lines |-> lines]

Pristine == << <<>> >>
WithTop(b) == Append(Front(stack), b)
LinesIn(s) == Len(FlattenSeq(s))
Room(n) == LinesIn(stack) + Len(copy) + n <= MaxLines

Init ==
    /\ stack = Pristine
    /\ copy = <<>>
    /\ command = Idle
    /\ reply = Said(0, <<>>)

-----------------------------------------------------------------------------
\* What a program does between commands.

Program == ~command.running /\ UNCHANGED <<command, copy>>

\* PUSH and QUEUE work on the top buffer only.
Push(l) ==
    /\ Program /\ Room(1)
    /\ reply' = Said(0, <<>>)
    /\ stack' = WithTop(<<l>> \o Last(stack))

Queue(l) ==
    /\ Program /\ Room(1)
    /\ reply' = Said(0, <<>>)
    /\ stack' = WithTop(Append(Last(stack), l))

\* PULL takes the top line, and with it every empty buffer above it; of an
\* empty queue nothing is left but the zeroth buffer, and the line comes from
\* standard input.
Pull ==
    /\ Program
    /\ \/ /\ \A i \in DOMAIN stack : stack[i] = <<>>
          /\ reply' = Said(1, <<>>)
          /\ stack' = Pristine
       \/ \E top \in DOMAIN stack :
             /\ stack[top] # <<>>
             /\ \A i \in top + 1 .. Len(stack) : stack[i] = <<>>
             /\ reply' = Said(0, <<Head(stack[top])>>)
             /\ stack' = Append(SubSeq(stack, 1, top - 1), Tail(stack[top]))

MakeBuf ==
    /\ Program /\ Len(stack) < MaxBuffers
    /\ reply' = Said(Len(stack), <<>>)
    /\ stack' = Append(stack, <<>>)

\* DROPBUF(n) removes buffer n and those above it, or the topmost -n buffers;
\* the zeroth buffer is emptied, not removed; a buffer that is not there is told by
\* -2.  DESBUF is DROPBUF(0).
Lowest(n) == IF n < 0 THEN Len(stack) + n ELSE n
DropBuf(n) ==
    /\ Program
    /\ IF Lowest(n) < 0 \/ Lowest(n) >= Len(stack)
       THEN /\ reply' = Said(-2, <<>>)
            /\ UNCHANGED stack
       ELSE LET kept == IF Lowest(n) = 0 THEN Pristine ELSE SubSeq(stack, 1, Lowest(n)) IN
            /\ reply' = Said(Len(kept) - 1, <<>>)
            /\ stack' = kept

\* A departure from "-2: specified buffer doesn't exist" (stack.c:764): more buffers
\* are to go than there are, the queue is emptied and 0 is the answer.
DropTooMany(n) ==
    /\ Program /\ Lowest(n) < 0
    /\ reply' = Said(0, <<>>)
    /\ stack' = Pristine

Queued ==
    /\ Program
    /\ reply' = Said(LinesIn(stack), <<>>)
    /\ UNCHANGED stack

\* BUFTYPE only shows the queue.
BufType ==
    /\ Program
    /\ reply' = Said(0, <<>>)
    /\ UNCHANGED stack

\* The end of the program, and RXQUEUE("DELETE").
Purge ==
    /\ Program
    /\ reply' = Said(0, <<>>)
    /\ stack' = Pristine

-----------------------------------------------------------------------------
\* A command with its input or its output redirected.

\* A queue both read and written is copied first: its top buffer, that is,
\* and not when FLUSHSTACK is set.  A queue to be replaced loses the lines of
\* its top buffer.
IsCopied(w) == w.reads = "queue" /\ ToQueue(w) /\ ~w.flush
Opened(w) == IF IsCopied(w) \/ w.replace THEN WithTop(<<>>) ELSE stack

Start(w) ==
    /\ ~command.running /\ Room(Len(w.given))
    /\ command' = Running(IF IsCopied(w) THEN "copy" ELSE w.reads, w.writes)
    /\ reply' = Said(0, <<>>)
    /\ copy' = IF IsCopied(w) THEN Last(stack) ELSE w.given
    /\ stack' = Opened(w)

\* The command cannot be started: its copy goes, and the lines in it.
FailToStart(w) ==
    /\ ~command.running
    /\ UNCHANGED command
    /\ reply' = Said(1, <<>>)
    /\ copy' = <<>>
    /\ stack' = Opened(w)

\* The command is fed one line, of the top buffer only, until there is none.
AtEof(from) ==
    /\ from = <<>>
    /\ command' = [command EXCEPT !.eof = TRUE]
    /\ reply' = Said(1, <<>>)
    /\ UNCHANGED <<stack, copy>>

Fed(from) ==
    /\ from # <<>>
    /\ reply' = Said(0, <<Head(from)>>)
    /\ UNCHANGED command

FeedFromCopy ==
    /\ command.reads = "copy" /\ ~command.eof
    /\ \/ AtEof(copy)
       \/ Fed(copy) /\ copy' = Tail(copy) /\ UNCHANGED stack

ReadQueue ==
    /\ command.reads = "queue" /\ ~command.eof
    /\ \/ AtEof(Last(stack))
       \/ Fed(Last(stack)) /\ stack' = WithTop(Tail(Last(stack))) /\ UNCHANGED copy

\* A command does not read the queue it writes, but a copy.  A departure from that is
\* the option FLUSHSTACK, which makes no copy: the command reads its own output, and
\* what of it is left is discarded as if it were input.
OwnQueue == command.reads = "queue" /\ ToQueue(command)
FeedFromQueue == ~OwnQueue /\ ReadQueue
FeedFromOwnQueue == OwnQueue /\ ReadQueue

\* A line of the command's output arrives.
Crop(l) ==
    /\ command.writes # "nothing" /\ UNCHANGED command
    /\ reply' = Said(0, <<>>) /\ Room(1)
    /\ \/ command.writes = "lifo" /\ stack' = WithTop(<<l>> \o Last(stack)) /\ UNCHANGED copy
       \/ command.writes = "fifo" /\ stack' = WithTop(Append(Last(stack), l)) /\ UNCHANGED copy
       \/ command.writes = "string" /\ copy' = Append(copy, l) /\ UNCHANGED stack

\* The command has ended: what it did not read of a queue is discarded, its
\* copy is deleted, and output meant for a string is returned.
End ==
    /\ command.running /\ command' = Idle
    /\ reply' = Said(0, IF command.writes = "string" THEN copy ELSE <<>>)
    /\ stack' = IF command.reads = "queue" THEN WithTop(<<>>) ELSE stack
    /\ copy' = <<>>
Finish == ~OwnQueue /\ End
FinishOwnQueue == OwnQueue /\ End

Next ==
    \/ \E l \in Line : Push(l) \/ Queue(l) \/ Crop(l)
    \/ \E n \in Number : DropBuf(n) \/ DropTooMany(n)
    \/ Pull \/ MakeBuf \/ Queued \/ BufType \/ Purge
    \/ \E w \in Ways : Start(w) \/ FailToStart(w)
    \/ FeedFromCopy \/ FeedFromQueue \/ Finish
    \/ FeedFromOwnQueue \/ FinishOwnQueue

Spec == Init /\ [][Next]_vars

-----------------------------------------------------------------------------
TypeOK ==
    /\ stack \in Seq(Seq(Line)) \ {<<>>}
    /\ copy \in Seq(Line)
    /\ command \in [running: BOOLEAN, reads: {"nothing", "queue", "copy"},
                    writes: {"nothing", "lifo", "fifo", "string"}, eof: BOOLEAN]
    /\ reply.lines \in Seq(Line)

\* Whoever works above a MAKEBUF leaves what lies below as it was: no operation,
\* and no command with its purges and copies, changes a buffer below the top one
\* that is left.
BelowUntouched ==
    [][\A i \in DOMAIN stack : i < Len(stack) /\ i < Len(stack') => stack'[i] = stack[i]]_vars
=============================================================================
