----------------------------- MODULE ShellPumpMC -----------------------------
(***************************************************************************)
(* Small commands for TLC to run through ShellPump.                        *)
(***************************************************************************)
EXTENDS ShellPump

CONSTANT x

Job(input, lines, noeol, output, error, talk) ==
  [input |-> input, lines |-> lines, noeol |-> noeol,
   output |-> output, error |-> error, talk |-> talk]

\* Lines shorter and longer than the buffer, of each kind of input; the second
\* command never ends by itself, for its last line is empty.
FeedJobs ==
  { Job("QUEUE", << <<x>>, <<>>, <<CR, x, CR>> >>, FALSE, Null, Null, 0),
    Job("QUEUE", << <<x>>, <<CR, x>>, <<x, x, CR, CR>>, <<>> >>, TRUE, "FIFO", Null, 1),
    Job("STREAM", << <<x, LF, CR>>, <<x, CR>> >>, FALSE, Null, Null, 0),
    Job("STEM", << <<CR, CR, CR, CR, x>>, <<>> >>, FALSE, Null, "FIFO", 1) }

\* Output and error into each kind of destination.
CropJobs ==
  { Job(Null, <<>>, FALSE, out, err, 3) :
      <<out, err>> \in {<<"FIFO", Null>>, <<"LIFO", Null>>, <<"STREAM", "FIFO">>} }

\* All three channels at once.
FullJobs ==
  { Job("QUEUE", << <<x, CR, x>> >>, FALSE, "FIFO", "FIFO", 1),
    Job("STEM", << <<x>>, <<x>> >>, FALSE, "FIFO", Null, 3) }

AllJobs == FeedJobs \union CropJobs \union FullJobs
=============================================================================
