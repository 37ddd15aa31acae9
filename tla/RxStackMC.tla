----------------------------- MODULE RxStackMC -----------------------------
(***************************************************************************)
(* Small instances of RxStack for TLC: sets of commands, one per question. *)
(***************************************************************************)
EXTENDS RxStack, TLC

CONSTANTS q1, a, b, u1

Cmd(op, arg) == [op |-> op, arg |-> arg]

\* Pulling, with and without timeouts, against pushing, clearing and deleting.
WaitRequests ==
    {Cmd("P", NoArg), Cmd("T", 0), Cmd("T", 1), Cmd("F", a), Cmd("S", q1), Cmd("D", q1)}

\* Making, finding, deleting queues and falling back to SESSION, by three clients of
\* whom two can wait while one has a line.
NameRequests ==
    {Cmd("T", 0), Cmd("P", NoArg), Cmd("F", a), Cmd("C", Session), Cmd("C", u1),
     Cmd("S", u1), Cmd("S", Session), Cmd("D", u1), Cmd("D", NoArg),
     Cmd("D", Session), Cmd("S", NoArg), Cmd("Q", NoArg), Cmd("G", NoArg),
     Cmd("T", NoArg), Cmd("other", a)}

\* The rest: lines at the other end, looks, clearing, timeouts that are not
\* numbers, shutdown and nonsense. (What only asks for names and numbers is left out.)
OtherRequests ==
    {Cmd("L", a), Cmd("p", NoArg), Cmd("E", q1),
     Cmd("T", Garbled), Cmd("X", NoArg), Cmd("Z", NoArg),
     Cmd("?", NoArg)}

AllRequests == WaitRequests \cup OtherRequests

LiveRequests ==
    {Cmd("P", NoArg), Cmd("T", 1), Cmd("F", a), Cmd("Z", NoArg), Cmd("S", q1)}

Symmetry == Permutations(Client)
=============================================================================
