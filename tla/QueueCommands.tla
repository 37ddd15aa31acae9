--------------------------- MODULE QueueCommands ---------------------------
(***************************************************************************)
(* What the programs of the small instance of StackLinks ask for:          *)
(* arguments of DROPBUF and redirections of commands.                      *)
(***************************************************************************)
EXTENDS Integers

CONSTANTS a, b

DropNumbers == -2 .. 2

Plain(reads, writes) ==
    [reads |-> reads, writes |-> writes, replace |-> FALSE, flush |-> FALSE, given |-> <<>>]

\* Input, output and both on the queue, REPLACE and FLUSHSTACK, a command in an
\* expression, and a stem that is both read and written.
CommandWays ==
    {Plain("queue", "nothing"), Plain("nothing", "fifo"), Plain("queue", "lifo"),
     Plain("nothing", "string"),
     [Plain("nothing", "lifo") EXCEPT !.replace = TRUE],
     [Plain("queue", "fifo") EXCEPT !.replace = TRUE],
     [Plain("queue", "fifo") EXCEPT !.flush = TRUE],
     [Plain("copy", "nothing") EXCEPT !.given = <<a, b>>]}
=============================================================================
