------------------------------ MODULE ShellPump ------------------------------
(***************************************************************************)
(* A command run with redirected channels: posix_do_command() of          *)
(* src/shell.c with the Unix routines of src/os_unx.c.  The interpreter    *)
(* forks a child and, in one thread, feeds its standard input from a       *)
(* queue, a stem or a stream, and reaps its standard output and standard   *)
(* error into others.  All three pipes are non-blocking on the             *)
(* interpreter's side; when none can move, it sleeps in poll().  The child *)
(* blocks in its own reads and writes.                                     *)
(*                                                                         *)
(* One step of the interpreter is one read() or write() with what is done  *)
(* on its result, so that the child runs between any two of them.  The     *)
(* child is any program: it reads, writes, closes a channel or exits, in   *)
(* any order.  Left out: the temporary files of systems without pipes      *)
(* (FileRedirected is never set on Unix) and a fork() that fails, which    *)
(* leaves the interpreter where it was.                                    *)
(***************************************************************************)
EXTENDS Integers, Sequences, SequencesExt, FiniteSetsExt

CONSTANTS
  Jobs,       \* the commands: [input, lines, noeol, output, error, talk]; a
              \* child that runs one writes at most talk bytes, a bound
  CR, LF,     \* the bytes of line terminators; LF is REGINA_EOL
  Text,       \* the other bytes
  BufCap,     \* REGINA_MAX_BUFFER_SIZE
  PipeCap,    \* what a pipe of the system holds
  PipeAtomic, \* PIPE_BUF: no write of so many bytes is ever split
  Null

ASSUME CapsAssumption ==
  /\ BufCap \in Nat \ {0} /\ PipeAtomic \in Nat \ {0}
  /\ PipeCap \in Nat /\ PipeAtomic <= PipeCap
ASSUME ByteAssumption == CR # LF /\ CR \notin Text /\ LF \notin Text

VARIABLES
  phase,    \* where posix_do_command is
  job,      \* the command it runs
  food,     \* what fetch_food has still to return
  line,     \* istring
  iobuf,    \* st->IObuf, st->IOBused bytes of it
  open,     \* in, out, err: the interpreter's ends that are not -1
  waits,    \* st->AsyncInfo: the ends to wait for
  partial,  \* ostring and estring: reaped bytes, not yet whole lines
  crop,     \* what was put into the output's and the error's destination
  pipe,     \* the bytes in each pipe
  ends,     \* the child's ends that are open
  want,     \* the blocking call the child is in, or Null
  alive,    \* the child has not exited
  got,      \* what the child read
  wrote     \* what the child wrote

parentVars == <<phase, job, food, line, iobuf, open, waits, partial, crop>>
childVars == <<ends, want, alive, got, wrote>>
vars == <<parentVars, pipe, childVars>>

Byte == Text \union {CR, LF}
ASSUME JobsAssumption == \A j \in Jobs : j.lines \in Seq(Seq(Byte))
ASSUME NullAssumption == Null \notin Byte \union Seq(Byte)

Outputs == {"out", "err"}
Channels == {"in"} \union Outputs

Redirected(j) ==
  {ch \in Channels : CASE ch = "in"  -> j.input # Null
                       [] ch = "out" -> j.output # Null
                       [] ch = "err" -> j.error # Null}

Target(ch) == IF ch = "out" THEN job.output ELSE job.error

-----------------------------------------------------------------------------
(* The line structure of what is fed and reaped.                           *)

\* What fetch_food makes of one line: a stream is fed in blocks as it is, a
\* line of a queue or of a stem gets a newline unless INPUT NOEOL is given.
Meal(j, l) == IF j.input = "STREAM" \/ j.noeol THEN l ELSE Append(l, LF)

FirstOf(s, b) == SelectInSeq(s, LAMBDA c : c = b)

\* Mutant of LineLength: a terminator at the end of the data counts at once.
LineLengthAtOnce(s, eof) ==
  LET ends1 == {i \in DOMAIN s : s[i] \in {CR, LF}}
      i     == Min(ends1)
  IN  IF ends1 = {} THEN [len |-> IF eof THEN Len(s) ELSE -1, term |-> 0]
      ELSE [len  |-> i - 1,
            term |-> IF i < Len(s) /\ s[i + 1] \in {CR, LF} \ {s[i]} THEN 2 ELSE 1]

\* line_length: the first line of s and the length of its terminator.  A
\* lone terminator at the very end may be the first half of a double one and
\* counts only at the end of the data.
LineLength(s, eof) ==
  LET ccr == FirstOf(s, CR)
      clf == FirstOf(s, LF)
      one == Max({ccr, clf})
      two == Min({ccr, clf})
  IN  CASE two > 0 -> [len |-> two - 1, term |-> IF one = two + 1 THEN 2 ELSE 1]
        [] two = 0 /\ one > 0 /\ (one < Len(s) \/ eof)
             -> [len |-> one - 1, term |-> 1]
        [] OTHER -> [len |-> IF eof THEN Len(s) ELSE -1, term |-> 0]

\* The loop of drop_crop: the whole lines of s, and what is left of it.
Cut(s, eof) ==
  LET from[i \in 0..Len(s)] ==
        LET rest == SubSeq(s, i + 1, Len(s))
            l    == LineLength(rest, eof)
        IN  IF rest = <<>> \/ l.len < 0
              THEN [lines |-> <<>>, rest |-> rest]
              ELSE LET more == from[i + (l.len + l.term)]
                   IN  [more EXCEPT !.lines = <<SubSeq(rest, 1, l.len)>> \o @]
  IN  from[0]

\* drop_crop: a stream takes the bytes as they come, the others whole lines,
\* a LIFO queue each line above the one before.
DropCrop(ch, s, eof) ==
  LET done == IF Target(ch) = "STREAM" THEN [lines |-> <<s>>, rest |-> <<>>]
                                       ELSE Cut(s, eof)
  IN  /\ partial' = [partial EXCEPT ![ch] = done.rest]
      /\ crop' = [crop EXCEPT ![ch] =
                    IF Target(ch) = "LIFO" THEN Reverse(done.lines) \o @
                                           ELSE @ \o done.lines]

-----------------------------------------------------------------------------
(* The system's pipes, as the interpreter's end of them sees them.         *)

Room == PipeCap - Len(pipe["in"])

\* The results write() may have for n bytes: -1 is EPIPE, 0 is EAGAIN.
WriteResults(n) ==
  CASE "in" \notin ends -> {-1}
    [] "in" \in ends /\ Room >= n -> {n}
    [] "in" \in ends /\ Room < n  ->
         IF n <= PipeAtomic \/ Room = 0 THEN {0} ELSE 1..Room

\* poll() reports an end ready for what was asked of it, or broken.
Ready(ch) ==
  IF ch = "in" THEN Room >= PipeAtomic \/ "in" \notin ends
               ELSE pipe[ch] # <<>> \/ ch \notin ends

-----------------------------------------------------------------------------
(* The interpreter.                                                        *)

\* Mutant of Cleanup: what is left in the write buffer stays there.
CleanupOfEnds == open' = {} /\ UNCHANGED iobuf

\* cleanup: every end is closed, what the write buffer holds forgotten.
Cleanup == open' = {} /\ iobuf' = <<>>

\* setup_io, up to the pipes.  A child that an error left behind is followed no
\* further.
Setup(j) ==
  /\ phase = "idle"
  /\ Cleanup
  /\ phase' = "fork"
  /\ job' = j
  /\ food' = j.lines
  /\ line' = Null
  /\ partial' = [ch \in Outputs |-> <<>>]
  /\ crop' = [ch \in Outputs |-> <<>>]
  /\ ends' = {} /\ want' = Null /\ alive' = FALSE
  /\ UNCHANGED <<waits, pipe, got, wrote>>

\* The pipes, fork_exec, and the closing of the child's ends of them.
Fork ==
  /\ phase = "fork"
  /\ phase' = "in"
  /\ open' = Redirected(job)
  /\ ends' = Redirected(job)
  /\ pipe' = [ch \in Channels |-> <<>>]
  /\ waits' = {}
  /\ alive' = TRUE
  /\ got' = <<>>
  /\ wrote' = [ch \in Outputs |-> <<>>]
  /\ UNCHANGED <<job, food, line, iobuf, partial, crop, want>>

\* fork_exec returns -1.
ForkFails ==
  /\ phase = "fork"
  /\ Cleanup
  /\ phase' = "idle"
  /\ UNCHANGED <<job, food, line, waits, partial, crop, pipe, childVars>>

\* The end of a turn of the loop at one of the three ends.
Leave(ch) ==
  phase' = CASE ch = "in" -> "out" [] ch = "out" -> "err" [] ch = "err" -> "poll"

\* Mutant of AddWaiter: each waiter takes the first slot.
AddOnlyWaiter(ch) == Leave(ch) /\ waits' = {ch} /\ open' = open

AddWaiter(ch) == Leave(ch) /\ waits' = waits \union {ch} /\ open' = open

Close(ch) == Leave(ch) /\ open' = open \ {ch} /\ waits' = waits

Again == UNCHANGED <<phase, open, waits>>

\* An end that is not redirected, or closed already.
Skip(ch) ==
  /\ phase = ch /\ ch \notin open
  /\ Leave(ch)
  /\ UNCHANGED <<job, food, line, iobuf, open, waits, partial, crop, pipe, childVars>>

\* fetch_food finds something.  With NOEOL it insists on a line it may free,
\* which the value of a stem's variable is not.  (A stem that is also written
\* is copied to a queue first; such a command has input QUEUE here.)
Fetch ==
  /\ phase = "in" /\ "in" \in open
  /\ line = Null /\ food # <<>>
  /\ food' = Tail(food)
  /\ IF job.noeol /\ job.input = "STEM"
       THEN phase' = "aborted" /\ UNCHANGED line
       ELSE line' = Meal(job, Head(food)) /\ UNCHANGED phase
  /\ UNCHANGED <<job, iobuf, open, waits, partial, crop, pipe, childVars>>

\* The first n bytes of s go into the pipe, the rest stays in the buffer.
WriteOut(s, n) ==
  /\ pipe' = [pipe EXCEPT !["in"] = @ \o SubSeq(s, 1, n)]
  /\ iobuf' = SubSeq(s, n + 1, Len(s))

\* feed of an empty line, which write_buffered is not called with.
FeedNothing ==
  /\ phase = "in" /\ "in" \in open
  /\ line = <<>>
  /\ AddWaiter("in")
  /\ UNCHANGED <<job, food, line, iobuf, partial, crop, pipe, childVars>>

\* Mutant of Feed: the buffer is filled without regard to its size.
FeedUnbounded ==
  /\ phase = "in" /\ "in" \in open
  /\ line \notin {Null, <<>>}
  /\ iobuf' = iobuf \o line
  /\ line' = Null
  /\ UNCHANGED <<phase, open, waits, pipe, job, food, partial, crop, childVars>>

\* feed: a turn of the loop of write_buffered.  What fits of the line is
\* added to the buffer and counts as written, whatever becomes of a write; a
\* full buffer is written out.  An error is returned when nothing was added.
Feed ==
  /\ phase = "in" /\ "in" \in open
  /\ line \notin {Null, <<>>}
  /\ LET todo   == Min({Len(line), BufCap - Len(iobuf)})
         filled == iobuf \o SubSeq(line, 1, todo)
         rest   == SubSeq(line, todo + 1, Len(line))
     IN  /\ line' = IF rest = <<>> THEN Null ELSE rest
         /\ \/ /\ Len(filled) < BufCap
               /\ iobuf' = filled
               /\ Again /\ UNCHANGED pipe
            \/ /\ Len(filled) = BufCap
               /\ \E n \in WriteResults(BufCap) :
                    /\ WriteOut(filled, Max({n, 0}))
                    /\ CASE n > 0 \/ (todo > 0 /\ rest = <<>>) -> Again
                         [] n = -1 /\ todo = 0                 -> Close("in")
                         [] OTHER                              -> AddWaiter("in")
  /\ UNCHANGED <<job, food, partial, crop, childVars>>

\* Mutant of Flush: a partial write ends the input.
FlushOnce ==
  /\ phase = "in" /\ "in" \in open
  /\ line = Null /\ food = <<>>
  /\ Close("in")
  /\ IF iobuf = <<>> THEN UNCHANGED <<iobuf, pipe>>
     ELSE \E n \in WriteResults(Len(iobuf)) : WriteOut(iobuf, Max({n, 0}))
  /\ UNCHANGED <<job, food, line, partial, crop, childVars>>

\* There is no more food: write_buffered writes the buffer out, and the end
\* is closed after the last byte of it or when the child has closed its own.
Flush ==
  /\ phase = "in" /\ "in" \in open
  /\ line = Null /\ food = <<>>
  /\ \/ iobuf = <<>> /\ Close("in") /\ UNCHANGED <<iobuf, pipe>>
     \/ /\ iobuf # <<>>
        /\ \E n \in WriteResults(Len(iobuf)) :
             /\ WriteOut(iobuf, Max({n, 0}))
             /\ CASE n \in {-1, Len(iobuf)} -> Close("in")
                  [] n = 0                  -> AddWaiter("in")
                  [] OTHER                  -> Again
  /\ UNCHANGED <<job, food, line, partial, crop, childVars>>

\* reap, and drop_crop of what it got.
Reap(ch) ==
  /\ phase = ch /\ ch \in open
  /\ \/ /\ pipe[ch] # <<>>
        /\ LET n == Min({Len(pipe[ch]), BufCap})
           IN  /\ DropCrop(ch, partial[ch] \o SubSeq(pipe[ch], 1, n), FALSE)
               /\ pipe' = [pipe EXCEPT ![ch] = SubSeq(@, n + 1, Len(@))]
        /\ Again
     \/ /\ pipe[ch] = <<>>
        /\ IF ch \in ends THEN AddWaiter(ch) ELSE Close(ch)
        /\ UNCHANGED <<partial, crop, pipe>>
  /\ UNCHANGED <<job, food, line, iobuf, childVars>>

\* The condition and the first statement of the loop.
NextTurn ==
  /\ waits' = {}
  /\ phase' = IF open = {} THEN "drain" ELSE "in"
  /\ UNCHANGED <<job, food, line, iobuf, open, partial, crop, pipe, childVars>>

\* wait_async_info.
Poll ==
  /\ phase = "poll"
  /\ waits = {} \/ \E ch \in waits : Ready(ch)
  /\ NextTurn

\* A signal ends the poll early.
PollInterrupted == phase = "poll" /\ NextTurn

\* Mutant of Drain: a last line without a terminator is forgotten.
DrainNothing ==
  /\ phase = "drain"
  /\ phase' = "wait"
  /\ line' = Null
  /\ partial' = [ch \in Outputs |-> <<>>]
  /\ food' = IF job.input = "QUEUE" THEN <<>> ELSE food
  /\ UNCHANGED <<job, iobuf, open, waits, crop, pipe, childVars>>

\* What is left of istring is freed, what is left of ostring and of estring
\* are lines without a terminator, and the input's queue is purged.
Drain ==
  /\ phase = "drain"
  /\ phase' = "wait"
  /\ line' = Null
  /\ LET last == [ch \in Outputs |-> Cut(partial[ch], TRUE).lines]
     IN  crop' = [ch \in Outputs |->
                    IF Target(ch) = "LIFO" THEN Reverse(last[ch]) \o crop[ch]
                                           ELSE crop[ch] \o last[ch]]
  /\ partial' = [ch \in Outputs |-> <<>>]
  /\ food' = IF job.input = "QUEUE" THEN <<>> ELSE food
  /\ UNCHANGED <<job, iobuf, open, waits, pipe, childVars>>

\* wait_exec and the final cleanup.
Wait ==
  /\ phase = "wait" /\ ~alive
  /\ Cleanup
  /\ phase' = "idle"
  /\ UNCHANGED <<job, food, line, waits, partial, crop, pipe, childVars>>

\* Any other error of a read or a write: exiterror raises SYNTAX, and the
\* program may go on from there.
Fault ==
  /\ phase \in open
  /\ phase' = "idle"
  /\ UNCHANGED <<job, food, line, iobuf, open, waits, partial, crop, pipe, childVars>>

Pump ==
  \/ Fork \/ Fetch \/ FeedNothing \/ Feed \/ Flush \/ Poll \/ Drain \/ Wait
  \/ \E ch \in Channels : Skip(ch)
  \/ \E ch \in Outputs : Reap(ch)

-----------------------------------------------------------------------------
(* The child.                                                              *)

Calls == [op : {"read"}] \union [op : {"write"}, ch : Outputs, byte : Byte]

\* The child enters a call that may block.
Call(c) ==
  /\ alive /\ want = Null
  /\ IF c.op = "read" THEN "in" \in ends
                      ELSE c.ch \in ends /\ Len(wrote["out"] \o wrote["err"]) < job.talk
  /\ want' = c
  /\ UNCHANGED <<parentVars, pipe, ends, alive, got, wrote>>

ChildReads ==
  /\ want # Null /\ want.op = "read"
  /\ pipe["in"] # <<>>
  /\ got' = Append(got, Head(pipe["in"]))
  /\ pipe' = [pipe EXCEPT !["in"] = Tail(@)]
  /\ want' = Null
  /\ UNCHANGED <<parentVars, ends, alive, wrote>>

\* The child reads the end of its input and closes its end.
ChildReadsEnd ==
  /\ want # Null /\ want.op = "read"
  /\ pipe["in"] = <<>> /\ "in" \notin open
  /\ ends' = ends \ {"in"}
  /\ want' = Null
  /\ UNCHANGED <<parentVars, pipe, alive, got, wrote>>

ChildWrites ==
  /\ want # Null /\ want.op = "write"
  /\ Len(pipe[want.ch]) < PipeCap
  /\ pipe' = [pipe EXCEPT ![want.ch] = Append(@, want.byte)]
  /\ wrote' = [wrote EXCEPT ![want.ch] = Append(@, want.byte)]
  /\ want' = Null
  /\ UNCHANGED <<parentVars, ends, alive, got>>

ChildCloses(ch) ==
  /\ alive /\ want = Null /\ ch \in ends
  /\ ends' = ends \ {ch}
  /\ UNCHANGED <<parentVars, pipe, want, alive, got, wrote>>

Exit ==
  /\ alive /\ want = Null
  /\ alive' = FALSE
  /\ ends' = {}
  /\ UNCHANGED <<parentVars, pipe, want, got, wrote>>

Child ==
  \/ \E c \in Calls : Call(c)
  \/ \E ch \in Channels : ChildCloses(ch)
  \/ ChildReads \/ ChildReadsEnd \/ ChildWrites \/ Exit

-----------------------------------------------------------------------------
Init ==
  /\ phase = "idle"
  /\ job \in Jobs
  /\ food = <<>>
  /\ line = Null
  /\ iobuf = <<>>
  /\ open = {}
  /\ waits = {}
  /\ partial = [ch \in Outputs |-> <<>>]
  /\ crop = [ch \in Outputs |-> <<>>]
  /\ pipe = [ch \in Channels |-> <<>>]
  /\ ends = {}
  /\ want = Null
  /\ alive = FALSE
  /\ got = <<>>
  /\ wrote = [ch \in Outputs |-> <<>>]

Next == Pump \/ Child \/ Fault \/ ForkFails \/ PollInterrupted \/ \E j \in Jobs : Setup(j)

Spec == Init /\ [][Next]_vars

\* Both processes are scheduled, and the child's program ends: whatever it
\* does, there is only so much of it.
FairSpec == Spec /\ WF_vars(Pump) /\ WF_vars(Child)

-----------------------------------------------------------------------------
(* Properties.                                                             *)

Running == phase \in Channels \union {"poll", "drain", "wait"}

\* The bytes that lines are served as.
Served(lines) == FlattenSeq([i \in DOMAIN lines |-> Meal(job, lines[i])])

\* The lines of bytes, by the rule in line_length's comment (shell.c:1119-1120):
\* CR, LF, CR LF and LF CR each end a line.  Byte by byte: half is the
\* terminator just seen, which may be the first of a pair.
Lines(bytes) ==
  LET after[i \in 0..Len(bytes)] ==
        IF i = 0 THEN [done |-> <<>>, now |-> <<>>, half |-> Null]
        ELSE LET st == after[i - 1]
                 b  == bytes[i]
             IN  CASE b \in {CR, LF} /\ st.half \in {CR, LF} \ {b} -> [st EXCEPT !.half = Null]
                   [] b \in {CR, LF} /\ st.half \in {b, Null}
                        -> [done |-> Append(st.done, st.now), now |-> <<>>, half |-> b]
                   [] OTHER -> [st EXCEPT !.now = Append(@, b), !.half = Null]
      end == after[Len(bytes)]
  IN  IF end.now = <<>> THEN end.done ELSE Append(end.done, end.now)

\* The child reads exactly what the command's input holds.  Between the lines
\* fetched and the bytes the child has read, none is lost, doubled or swapped in
\* the string, the buffer or the pipe, through partial writes and EAGAIN; and
\* the child meets the end of its input only behind the last of them.  The buffer and
\* the pipe never hold more than they can.
FedWhole ==
  Running =>
    /\ Len(iobuf) <= BufCap /\ Len(pipe["in"]) <= PipeCap
    /\ "in" \in open =>
         got \o pipe["in"] \o iobuf \o (IF line = Null THEN <<>> ELSE line)
           = Served(SubSeq(job.lines, 1, Len(job.lines) - Len(food)))
    /\ "in" \in ends \ open => got \o pipe["in"] = Served(job.lines)

\* What the child writes arrives whole: wherever the reads cut it, the lines put
\* into the destination, with those of the bytes on their way, are the lines of
\* all the child wrote; and when the child is waited for nothing is on its way.
CroppedWhole ==
  Running =>
    \A ch \in Redirected(job) \ {"in"} :
      LET rest == partial[ch] \o pipe[ch]
      IN  /\ IF Target(ch) = "STREAM"
               THEN FlattenSeq(crop[ch]) \o rest = wrote[ch]
               ELSE (IF Target(ch) = "LIFO" THEN Reverse(crop[ch]) ELSE crop[ch])
                      \o Cut(rest, TRUE).lines = Lines(wrote[ch])
          /\ phase = "wait" => rest = <<>>

\* Both ways: what is fed and what is written arrives whole (feed, crop, posix_do_command).
ArrivesWhole == FedWhole /\ CroppedWhole

\* The interpreter sleeps on every end it still has open.  Were one missing,
\* the child could block on it while the interpreter waits for another.
WatchesAll == phase = "poll" => waits = open

\* Every command comes to its end: the interpreter and the child never wait for
\* one another forever, whichever fills its pipe or closes its end first.  Not so
\* when INPUT NOEOL has an empty line: feed never deletes it.
Exhaustible(j) == j.noeol => <<>> \notin ToSet(j.lines)
CommandEnds == (phase # "idle" /\ Exhaustible(job)) ~> (phase = "idle")
=============================================================================
