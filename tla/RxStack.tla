------------------------------ MODULE RxStack ------------------------------
(***************************************************************************)
(* rxstack, the queue daemon (src/rxstack.c): one thread that polls its    *)
(* sockets, serves one command of every client found ready, and then       *)
(* sweeps over all clients (expired waits) and all queues (unused ones).   *)
(*                                                                         *)
(* A queue holds lines or waiting clients. A PULL on an empty queue by a   *)
(* client that has a timeout is not answered: the client is linked into    *)
(* the queue's list of waiters, and the answer comes with the next line,   *)
(* with the clearing or deletion of the queue, or with the timeout.        *)
(*                                                                         *)
(* Time is counted in ticks. A time stamp of the program is represented by *)
(* the ticks left until it is reached, 0 when it is reached or passed.     *)
(***************************************************************************)
EXTENDS Integers, Sequences, FiniteSets, SequencesExt

CONSTANTS
    Client,       \* the connections the daemon may have
    Name,         \* the queue names its clients know from the start
    Fresh,        \* the names unique_name() can still make up
    Session,      \* the queue that is always there
    Line,         \* the contents of lines
    Timeout,      \* the finite pull timeouts clients ask for, in ticks
    WakeUp,       \* DEFAULT_WAKEUP in ticks
    Week,         \* QUEUE_TIMEOUT in ticks
    Request,      \* the commands clients send
    Interrupting, \* the clients that may send or hang up while they wait forever
    Asserting,    \* the build keeps its assertions (no NDEBUG)
    MaxLines,     \* bound: lines in one queue
    MaxOut,       \* bound: unread answers of a client that is served again
    NoArg,        \* a command or an answer without data
    Garbled       \* a timeout that is no hexadecimal number

NoDeadline == -1       \* RxTime.milli = -1
Forever    == -1       \* Client.queue_timeout: wait until the end of the world
AtOnce     == 0        \* Client.queue_timeout: do not wait

QName == Name \cup Fresh

ASSUME NameAssumption == Session \in Name /\ Name \cap Fresh = {}
ASSUME TimeAssumption == /\ WakeUp \in Nat \ {0}
                         /\ Week \in Nat \ {0}
                         /\ Timeout \subseteq Nat \ {0}
ASSUME BoundAssumption == MaxLines \in Nat /\ MaxOut \in Nat
ASSUME InterruptingAssumption == Interrupting \subseteq Client
ASSUME AssertingAssumption == Asserting \in BOOLEAN
\* A line may be empty; the data of a command that takes none is ignored.
ASSUME RequestAssumption ==
    \A r \in Request :
        \/ r.op \in {"F", "L"} /\ r.arg \in Line
        \/ r.op \in {"P", "p", "N", "Q", "G", "X", "Z", "?", "other"} /\ r.arg \in Line \cup {NoArg}
        \/ r.op \in {"S", "E", "C", "D"} /\ r.arg \in QName \cup {NoArg}
        \/ r.op = "T" /\ r.arg \in Timeout \cup {0, Garbled, NoArg}

VARIABLES
    clients,   \* the connected clients
    dflt,      \* Client.default_queue
    tmo,       \* Client.queue_timeout
    left,      \* Client.deadline
    queue,     \* the queues, by name
    qleft,     \* queue_deadline
    issued,    \* the names unique_name() has returned
    phase,     \* where rxstack_doit() is
    todo,      \* the clients the running loop of rxstack_doit() has still to visit
    wake,      \* timeout, the end of the next poll()
    running,   \* running
    out        \* the answers sent and not yet read by the client

vars == <<clients, dflt, tmo, left, queue, qleft, issued, phase, todo, wake,
          running, out>>

-----------------------------------------------------------------------------
(* Queues.  buf[1] is the top of the buffer, waiters[1] the oldest waiter. *)

QueueRec == [real : BOOLEAN, buf : Seq(Line), waiters : Seq(Client), left : 0..Week]

NewQueue(isReal) == [real |-> isReal, buf |-> <<>>, waiters |-> <<>>, left |-> qleft]

\* Mutants of the next definitions: a stack of waiters, a queue that is emptied
\* but stays linked.
EnlistInFront(Q, n, c) == [Q EXCEPT ![n].waiters = <<c>> \o @]
UnlinkForgotten(Q, S)  == Q

Enlist(Q, n, c)   == [Q EXCEPT ![n].waiters = Append(@, c)]
Dequeue(Q, n, c)  == [Q EXCEPT ![n].waiters = RemoveFirst(@, c)]
Cleared(Q, S)     == [n \in DOMAIN Q |->
                        IF n \in S THEN [Q[n] EXCEPT !.buf = <<>>, !.waiters = <<>>]
                                   ELSE Q[n]]
Unlink(Q, S)      == [n \in DOMAIN Q \ S |-> Q[n]]
Link(Q, n, q)     == [m \in DOMAIN Q \cup {n} |-> IF m = n THEN q ELSE Q[m]]
WaitersOf(Q, S)   == UNION {ToSet(Q[n].waiters) : n \in S}

IsWaiting(c) == \E n \in DOMAIN queue : c \in ToSet(queue[n].waiters)

\* The lists the C code maintains are intact: every linked waiter is a client
\* that exists, and is linked once. Where this fails the next walk along the
\* list reads freed or doubly linked records, so nothing is said of what follows.
Intact ==
    /\ \A n \in DOMAIN queue : ToSet(queue[n].waiters) \subseteq clients
    /\ \A n \in DOMAIN queue : IsInjective(queue[n].waiters)
    /\ \A m, n \in DOMAIN queue :
         m # n => ToSet(queue[m].waiters) \cap ToSet(queue[n].waiters) = {}

-----------------------------------------------------------------------------
(* Answers.                                                                *)

Answer(code, data) == [code |-> code, data |-> data]
AnswerData == Line \cup QName \cup Nat \cup {NoArg}

\* Mutants: waiters that are not told, or keep their deadline.
NoNews(O, S)       == O
DeadlineKept(L, S) == L

Reply(O, c, a)   == [O EXCEPT ![c] = Append(@, a)]
BadNews(O, S)    == [c \in Client |-> IF c \in S THEN Append(O[c], Answer(4, NoArg))
                                                 ELSE O[c]]
NoLonger(L, S)   == [c \in Client |-> IF c \in S THEN NoDeadline ELSE L[c]]

\* Mutants: clients keep a deleted queue; SESSION is not emptied.
ClientsKept(D, S) == D
SessionKept(Q, S) == Unlink(Q, S \ {Session})

\* delete_a_queue for every queue of S: the waiters are told, SESSION stays
\* (emptied), the clients of a deleted queue drop to SESSION.
DeletedFrom(D, S) == [c \in Client |-> IF D[c] \in S \ {Session} THEN Session ELSE D[c]]
Deleted(Q, S)     == Unlink(Cleared(Q, S), S \ {Session})

\* The record of a deleted client is freed; its queue's list is not looked at.
Free(c, D, T, L) == /\ clients' = clients \ {c}
                    /\ dflt' = [D EXCEPT ![c] = Session]
                    /\ tmo'  = [T EXCEPT ![c] = AtOnce]
                    /\ left' = [L EXCEPT ![c] = NoDeadline]

-----------------------------------------------------------------------------
(* rxstack_process_command: a client that sends something while it waits   *)
(* with a deadline is first taken from the list and told.                  *)

Interrupted(c) == left[c] # NoDeadline
\* Mutant: the client that interrupts its wait is left in the list.
WaitKept(c)    == queue
QueueSeen(c)   == IF Interrupted(c) THEN Dequeue(queue, dflt[c], c) ELSE queue
OutSeen(c)     == IF Interrupted(c) THEN BadNews(out, {c}) ELSE out
LeftSeen(c)    == [left EXCEPT ![c] = NoDeadline]

(***************************************************************************)
(* The commands. Each takes the client, the command's argument and the     *)
(* queues Q, deadlines L and answers O as they are after the interruption. *)
(***************************************************************************)

\* Mutant: rxstack_queue_data does not look for waiters.
QueuedPastWaiters(c, op, line, Q, L, O) ==
    /\ Len(Q[dflt[c]].buf) < MaxLines
    /\ queue' = [Q EXCEPT ![dflt[c]].buf = Append(@, line)]
    /\ left'  = L
    /\ out'   = Reply(O, c, Answer(0, NoArg))
    /\ UNCHANGED <<clients, dflt, tmo, issued, running>>

\* rxstack_queue_data and redir
QueueData(c, op, line, Q, L, O) ==
    LET n == dflt[c]
        w == Head(Q[n].waiters)
    IN  /\ IF Q[n].waiters # <<>>
           THEN /\ queue' = Dequeue(Q, n, w)
                /\ left'  = [L EXCEPT ![w] = NoDeadline]
                /\ out'   = Reply(Reply(O, w, Answer(0, line)), c, Answer(0, NoArg))
           ELSE /\ Len(Q[n].buf) < MaxLines
                /\ queue' = [Q EXCEPT ![n].buf = IF op = "F" THEN Append(@, line)
                                                             ELSE <<line>> \o @]
                /\ left'  = L
                /\ out'   = Reply(O, c, Answer(0, NoArg))
        /\ UNCHANGED <<clients, dflt, tmo, issued, running>>

\* rxstack_pull_line_off_queue
Pull(c, nowait, Q, L, O) ==
    LET n == dflt[c]
    IN  /\ CASE Q[n].buf # <<>> ->
                  /\ queue' = [Q EXCEPT ![n].buf = Tail(@)]
                  /\ left'  = L
                  /\ out'   = Reply(O, c, Answer(0, Head(Q[n].buf)))
             [] Q[n].buf = <<>> /\ (nowait \/ tmo[c] = AtOnce) ->
                  /\ queue' = Q
                  /\ left'  = L
                  /\ out'   = Reply(O, c, Answer(1, NoArg))
             [] OTHER ->
                  /\ queue' = Enlist(Q, n, c)
                  /\ left'  = [L EXCEPT ![c] = IF tmo[c] = Forever THEN NoDeadline
                                                                   ELSE tmo[c]]
                  /\ out'   = O
        /\ UNCHANGED <<clients, dflt, tmo, issued, running>>

\* rxstack_set_default_queue
SetQueue(c, n, Q, L, O) ==
    /\ IF n = NoArg
       THEN /\ queue' = Q
            /\ out'   = Reply(O, c, Answer(6, NoArg))
            /\ UNCHANGED <<dflt, tmo>>
       ELSE /\ queue' = IF n \in DOMAIN Q THEN Q ELSE Link(Q, n, NewQueue(FALSE))
            /\ dflt'  = [dflt EXCEPT ![c] = n]
            /\ tmo'   = [tmo EXCEPT ![c] = AtOnce]
            /\ out'   = Reply(O, c, Answer(0, n))
    /\ left' = L
    /\ UNCHANGED <<clients, issued, running>>

\* rxstack_create_queue and unique_name
CreateQueue(c, n, Q, L, O) ==
    LET taken == n # NoArg /\ n \in DOMAIN Q
    IN  /\ IF taken /\ ~Q[n].real
           THEN /\ queue' = [Q EXCEPT ![n].real = TRUE]
                /\ out'   = Reply(O, c, Answer(0, n))
                /\ UNCHANGED issued
           ELSE IF taken \/ n = NoArg
           THEN \E u \in Fresh \ issued :
                   /\ queue'  = Link(Q, u, NewQueue(TRUE))
                   /\ issued' = issued \cup {u}
                   /\ out'    = Reply(O, c, Answer(IF taken THEN 1 ELSE 0, u))
           ELSE /\ queue' = Link(Q, n, NewQueue(TRUE))
                /\ out'   = Reply(O, c, Answer(0, n))
                /\ UNCHANGED issued
        /\ tmo'  = [tmo EXCEPT ![c] = AtOnce]
        /\ left' = L
        /\ UNCHANGED <<clients, dflt, running>>

\* rxstack_delete_queue
DeleteQueue(c, n, Q, L, O) ==
    LET found == n # NoArg /\ n \in DOMAIN Q /\ n # Session
        code  == CASE n = NoArg   -> 6
                   [] n = Session -> 5
                   [] OTHER       -> IF found /\ Q[n].real THEN 0 ELSE 9
        gone  == IF found THEN {n} ELSE {}
        told  == WaitersOf(Q, gone)
    IN  /\ queue' = Deleted(Q, gone)
        /\ dflt'  = DeletedFrom(dflt, gone)
        /\ left'  = NoLonger(L, told)
        /\ out'   = Reply(BadNews(O, told), c, Answer(code, NoArg))
        /\ UNCHANGED <<clients, tmo, issued, running>>

\* rxstack_empty_queue and empty_queue
EmptyQueue(c, n, Q, L, O) ==
    LET m    == IF n = NoArg THEN dflt[c] ELSE n
        S    == {m} \cap DOMAIN Q
        told == WaitersOf(Q, S)
    IN  /\ queue' = Cleared(Q, S)
        /\ left'  = NoLonger(L, told)
        /\ out'   = Reply(BadNews(O, told), c, Answer(IF S = {} THEN 2 ELSE 0, NoArg))
        /\ UNCHANGED <<clients, dflt, tmo, issued, running>>

\* rxstack_timeout_queue: a timeout of zero means to wait forever
SetTimeout(c, w, Q, L, O) ==
    /\ IF w \in {NoArg, Garbled}
       THEN /\ out' = Reply(O, c, Answer(IF w = NoArg THEN 6 ELSE 2, NoArg))
            /\ UNCHANGED tmo
       ELSE /\ out' = Reply(O, c, Answer(0, NoArg))
            /\ tmo' = [tmo EXCEPT ![c] = IF w = 0 THEN Forever ELSE w]
    /\ queue' = Q /\ left' = L
    /\ UNCHANGED <<clients, dflt, issued, running>>

\* NUMBER_IN_QUEUE, SHOW_QUEUES (the text of the list is left out), GET_QUEUE,
\* an unknown command: only an answer
Query(c, op, Q, L, O) ==
    /\ out' = CASE op = "N" -> Reply(O, c, Answer(0, Len(Q[dflt[c]].buf)))
                [] op = "Q" -> Reply(O, c, Answer(0, NoArg))
                [] op = "G" -> Reply(O, c, Answer(0, dflt[c]))
                [] op = "?" -> O
                [] OTHER    -> Reply(O, c, Answer(9, NoArg))
    /\ queue' = Q /\ left' = L
    /\ UNCHANGED <<clients, dflt, tmo, issued, running>>

\* RXSTACK_EXIT and RXSTACK_KILL
Exit(c, op, Q, L, O) ==
    /\ out' = Reply(O, c, Answer(0, NoArg))
    /\ Free(c, dflt, tmo, L)
    /\ queue' = Q
    /\ running' = (running /\ op # "Z")
    /\ UNCHANGED issued

\* send_response_to_client
Command(c, r, Q, L, O) ==
    \/ r.op \in {"F", "L"} /\ QueueData(c, r.op, r.arg, Q, L, O)
    \/ r.op \in {"P", "p"} /\ Pull(c, r.op = "p", Q, L, O)
    \/ r.op = "S" /\ SetQueue(c, r.arg, Q, L, O)
    \/ r.op = "C" /\ CreateQueue(c, r.arg, Q, L, O)
    \/ r.op = "D" /\ DeleteQueue(c, r.arg, Q, L, O)
    \/ r.op = "E" /\ EmptyQueue(c, r.arg, Q, L, O)
    \/ r.op = "T" /\ SetTimeout(c, r.arg, Q, L, O)
    \/ r.op \in {"N", "Q", "G", "?", "other"} /\ Query(c, r.op, Q, L, O)
    \/ r.op \in {"X", "Z"} /\ Exit(c, r.op, Q, L, O)

\* The connection is gone, or what it sent is no header.
Lost(c, told, Q, L, O) ==
    /\ out' = IF told THEN Reply(O, c, Answer(9, NoArg)) ELSE O
    /\ Free(c, dflt, tmo, L)
    /\ queue' = Q
    /\ UNCHANGED <<issued, running>>

-----------------------------------------------------------------------------
(* rxstack_doit                                                            *)

Init ==
    /\ clients = {}
    /\ dflt = [c \in Client |-> Session]
    /\ tmo  = [c \in Client |-> AtOnce]
    /\ left = [c \in Client |-> NoDeadline]
    /\ queue = [n \in {Session} |->
                  [real |-> TRUE, buf |-> <<>>, waiters |-> <<>>, left |-> 0]]
    /\ qleft = 0
    /\ issued = {}
    /\ phase = "poll"
    /\ todo = {}
    /\ wake = WakeUp
    /\ running = TRUE
    /\ out = [c \in Client |-> <<>>]

\* A connection is accepted; the ready clients wait for the next round.
Accept(c) ==
    /\ phase = "poll" /\ c \notin clients
    /\ clients' = clients \cup {c}
    /\ dflt' = [dflt EXCEPT ![c] = Session]
    /\ tmo'  = [tmo EXCEPT ![c] = AtOnce]
    /\ left' = [left EXCEPT ![c] = NoDeadline]
    /\ out'  = [out EXCEPT ![c] = <<>>]
    /\ phase' = "serve" /\ todo' = {}
    /\ UNCHANGED <<queue, qleft, issued, wake, running>>

\* poll() found the clients of S ready for reading.
Ready(S) ==
    /\ phase = "poll" /\ S # {}
    /\ phase' = "serve" /\ todo' = S
    /\ UNCHANGED <<clients, dflt, tmo, left, queue, qleft, issued, wake, running, out>>

MayBeReady(c) == /\ c \in clients
                 /\ Len(out[c]) < MaxOut
                 /\ (IsWaiting(c) /\ left[c] = NoDeadline) => c \in Interrupting

PollTimeout ==
    /\ phase = "poll" /\ wake = 0
    /\ phase' = "serve" /\ todo' = {}
    /\ UNCHANGED <<clients, dflt, tmo, left, queue, qleft, issued, wake, running, out>>

\* assert(buffer == NULL) behind the commands: nobody has taken the data of a
\* command the daemon does not know. Without assertions it is dropped.
Asserts(r) == Asserting /\ r.op \in {"?", "other"} /\ r.arg # NoArg

\* rxstack_process_command for a client whose command is r
Serve(c, r) ==
    /\ phase = "serve" /\ c \in todo
    /\ Command(c, r, QueueSeen(c), LeftSeen(c), OutSeen(c))
    /\ todo' = todo \ {c}
    /\ phase' = IF Asserts(r) THEN "aborted" ELSE phase
    /\ UNCHANGED <<qleft, wake>>

\* Mutant: the loop goes on with the client it has just deleted.
DropAgain(c, told) ==
    /\ phase = "serve" /\ c \in todo
    /\ Lost(c, told, QueueSeen(c), LeftSeen(c), OutSeen(c))
    /\ UNCHANGED <<qleft, phase, wake, todo>>

\* rxstack_process_command for a client that is gone or sent no valid header
Drop(c, told) ==
    /\ phase = "serve" /\ c \in todo
    /\ Lost(c, told, QueueSeen(c), LeftSeen(c), OutSeen(c))
    /\ todo' = todo \ {c}
    /\ UNCHANGED <<qleft, phase, wake>>

BeginSweep ==
    /\ phase = "serve" /\ todo = {}
    /\ qleft' = Week /\ wake' = WakeUp
    /\ phase' = "clients" /\ todo' = clients
    /\ UNCHANGED <<clients, dflt, tmo, left, queue, issued, running, out>>

\* Mutant: a client does not keep its queue alive.
NotRefreshed(Q, n) == Q

Refreshed(Q, n) == [Q EXCEPT ![n].left = qleft]
Earlier(t1, t2) == IF t1 < t2 THEN t1 ELSE t2

\* check_for_waiting
CheckWaiting(c) ==
    LET Q == Refreshed(queue, dflt[c])
    IN  /\ phase = "clients" /\ c \in todo
        /\ IF left[c] = 0
           THEN /\ queue' = Dequeue(Q, dflt[c], c)
                /\ left'  = [left EXCEPT ![c] = NoDeadline]
                /\ out'   = BadNews(out, {c})
                /\ UNCHANGED wake
           ELSE /\ queue' = Q
                /\ wake'  = IF left[c] = NoDeadline THEN wake ELSE Earlier(wake, left[c])
                /\ UNCHANGED <<left, out>>
        /\ todo' = todo \ {c}
        /\ UNCHANGED <<clients, dflt, tmo, qleft, issued, phase, running>>

\* Mutant: the loop does not look at running.
AfterSweepOn == "poll"

AfterSweep == IF running THEN "poll" ELSE "cleanup"

\* check_queue for all queues
CheckQueues ==
    LET expired == {n \in DOMAIN queue : queue[n].left = 0}
        purged  == expired \ {dflt[c] : c \in clients}
        told    == WaitersOf(queue, purged)
        renewed == [n \in DOMAIN queue |->
                      IF n \in expired THEN [queue[n] EXCEPT !.left = qleft] ELSE queue[n]]
        nearest == {wake} \cup {renewed[n].left : n \in DOMAIN queue}
    IN  /\ phase = "clients" /\ todo = {}
        /\ queue' = Deleted(renewed, purged)
        /\ dflt'  = DeletedFrom(dflt, purged)
        /\ left'  = NoLonger(left, told)
        /\ out'   = BadNews(out, told)
        /\ \E t \in nearest : (\A u \in nearest : t <= u) /\ wake' = t
        /\ phase' = AfterSweep
        /\ UNCHANGED <<clients, tmo, qleft, issued, todo, running>>

\* rxstack_cleanup: every queue but SESSION goes, every waiter is told.
Cleanup ==
    LET told == WaitersOf(queue, DOMAIN queue)
    IN  /\ phase = "cleanup"
        /\ queue' = Deleted(queue, DOMAIN queue)
        /\ dflt'  = DeletedFrom(dflt, DOMAIN queue)
        /\ left'  = NoLonger(left, told)
        /\ out'   = BadNews(out, told)
        /\ phase' = "ended"
        /\ UNCHANGED <<clients, tmo, qleft, issued, todo, wake, running>>

\* rxstack_signal_handler. A poll() that has begun is interrupted and the loop
\* ends; a signal just before it leaves poll() sleeping until its timeout.
Signal ==
    /\ phase \in {"poll", "serve", "clients"} /\ running
    /\ running' = FALSE
    /\ phase' \in IF phase = "poll" THEN {"poll", "cleanup"} ELSE {phase}
    /\ UNCHANGED <<clients, dflt, tmo, left, queue, qleft, issued, todo, wake, out>>

-----------------------------------------------------------------------------
(* The environment                                                         *)

Less(t) == IF t > 0 THEN t - 1 ELSE t

\* A tick of the clock. The sweep reads the clock once, at its beginning, so
\* the time it takes counts after it.
Tick ==
    /\ phase \in {"poll", "serve"}
    /\ left'  = [c \in Client |-> Less(left[c])]
    /\ queue' = [n \in DOMAIN queue |-> [queue[n] EXCEPT !.left = Less(@)]]
    /\ qleft' = Less(qleft)
    /\ wake'  = Less(wake)
    /\ UNCHANGED <<clients, dflt, tmo, issued, phase, todo, running, out>>

\* A client reads the answer that has arrived first.
Receive(c) ==
    /\ out[c] # <<>>
    /\ out' = [out EXCEPT ![c] = Tail(@)]
    /\ UNCHANGED <<clients, dflt, tmo, left, queue, qleft, issued, phase, todo, wake, running>>

Ended == phase \in {"ended", "aborted"} /\ UNCHANGED vars

\* The daemon has torn a list.
Torn == ~Intact /\ UNCHANGED vars

Known(r) == r.arg \in Fresh => r.arg \in issued

Sweep  == BeginSweep \/ (\E c \in Client : CheckWaiting(c)) \/ CheckQueues
Server == PollTimeout \/ Sweep \/ Cleanup
Work   == \E c \in Client : (\E r \in Request : Known(r) /\ Serve(c, r)) \/ Drop(c, FALSE)

Next ==
    \/ /\ Intact
       /\ \/ \E c \in Client : Accept(c)
          \/ \E S \in SUBSET {c \in clients : MayBeReady(c)} : Ready(S)
          \/ \E c \in Client, r \in Request : Known(r) /\ Serve(c, r)
          \/ \E c \in Client, told \in BOOLEAN : Drop(c, told)
          \/ Server
          \/ Signal
          \/ Tick
          \/ \E c \in Client : Receive(c)
          \/ Ended
    \/ Torn

\* The daemon takes its steps, and time passes.
Fairness == WF_vars(Server) /\ WF_vars(Work) /\ SF_vars(Tick)

Spec     == Init /\ [][Next]_vars
FairSpec == Spec /\ Fairness

-----------------------------------------------------------------------------
(* What the daemon guarantees                                              *)

TypeOK ==
    /\ clients \subseteq Client
    /\ dflt \in [Client -> QName]
    /\ tmo \in [Client -> Timeout \cup {Forever, AtOnce}]
    /\ left \in [Client -> Nat \cup {NoDeadline}]
    /\ DOMAIN queue \subseteq QName
    /\ \A n \in DOMAIN queue : queue[n] \in QueueRec
    /\ qleft \in 0..Week
    /\ issued \subseteq Fresh
    /\ phase \in {"poll", "serve", "clients", "cleanup", "ended", "aborted"}
    /\ todo \subseteq clients
    /\ wake \in Nat
    /\ running \in BOOLEAN
    /\ out \in [Client -> Seq([code : 0..9, data : AnswerData])]

\* The clients whose command is being served; a wait with a deadline is over for them.
BeingServed == IF phase = "serve" THEN todo \ todo' ELSE {}

\* The client served now waits without a deadline: rxstack_process_command takes only
\* a client with one from its list ("assume the client don't want to wait for data
\* any longer"), so this one stays linked while its command is carried out.
Abandons == \E c \in BeingServed : IsWaiting(c) /\ left[c] = NoDeadline

\* No step makes a list of waiters hold a freed record or a client twice: not the
\* interruption of a timed wait, not a timeout, a deletion, a pull or a hang-up. Only
\* serving a client whose endless wait was not ended first does.
IntactKept == [][Intact' \/ Abandons]_vars

\* Every client has a default queue that exists at all times (the comment on
\* Client.default_queue), whatever the other clients create, delete or let
\* expire, and SESSION is never deleted.
DefaultQueueValid ==
    /\ Session \in DOMAIN queue /\ queue[Session].real
    /\ \A c \in clients : dflt[c] \in DOMAIN queue

\* A client with a running deadline is linked in the list of its current default
\* queue. Both places that end a wait early, rxstack_process_command and
\* check_for_waiting, take it from that queue's list without looking.
DeadlineMeansListed ==
    \A c \in Client : left[c] # NoDeadline =>
        c \in clients /\ dflt[c] \in DOMAIN queue /\ c \in ToSet(queue[dflt[c]].waiters)

\* No client waits on a queue that holds a line: lines go to the waiters first
\* and every way of enlisting looks into the buffer.
NoStarvedWaiter ==
    \A n \in DOMAIN queue : queue[n].waiters # <<>> => queue[n].buf = <<>>

\* When check_queue looks for expired queues, no queue of a connected client is
\* among them, however long that client has been silent.
UsedQueueNotExpired ==
    phase = "clients" /\ todo = {} => \A c \in clients : queue[dflt[c]].left > 0

\* A client leaves the list of waiters with an answer, or with its connection.
LeavesAnswered ==
    \A c \in clients' : IsWaiting(c) /\ ~IsWaiting(c)' => Len(out'[c]) > Len(out[c])

\* No waiter is forgotten: whatever ends its wait, a line, a timeout, a command of its
\* own, the clearing, deletion or expiry of the queue by others or the end of the
\* daemon, it is told in that step, and at the end nobody is left waiting.
NobodyForgotten ==
    [][LeavesAnswered /\ (phase' = "ended" => \A c \in Client : ~IsWaiting(c)')]_vars

\* In front of a client that waits on are only those who were in front of it before,
\* a newcomer goes behind, and who gets a line was not behind one who waits on.
FairStep ==
    \A n \in DOMAIN queue \cap DOMAIN queue' :
        LET old == queue[n].waiters
            new == queue'[n].waiters
            Stays(c) == c \in (ToSet(old) \cap ToSet(new)) \ BeingServed
            GetsLine(c) == /\ c \in clients \ BeingServed
                           /\ out'[c] # out[c] /\ Last(out'[c]).code = 0
        IN  /\ \A k, l \in DOMAIN new : k < l /\ Stays(new[l]) =>
                  /\ new[k] \notin BeingServed
                  /\ \E i, j \in DOMAIN old : i < j /\ old[i] = new[k] /\ old[j] = new[l]
            /\ \A i, j \in DOMAIN old : i < j /\ ~Stays(old[j]) /\ GetsLine(old[j])
                                            => ~Stays(old[i])

\* Waiters of a queue get its lines in the order of their PULLs (the fair queue
\* of the comment on RxQueue), as long as none leaves its endless wait by itself.
FairWaiters == [][FairStep \/ Abandons]_vars

\* A client that waits with a timeout is answered, whatever the others do, unless
\* it is gone first: no chain of pushes, clears, deletions and interrupted waits
\* makes the daemon forget it, even when it serves other clients all the time.
TimedWaitIsAnswered ==
    \A c \in Client : left[c] # NoDeadline ~> (out[c] # <<>> \/ c \notin clients)

\* A queue that no client uses any more is removed in the end, or used again.
UnusedQueueGoes ==
    \A n \in QName \ {Session} :
        (n \in DOMAIN queue /\ \A c \in clients : dflt[c] # n)
            ~> (n \notin DOMAIN queue \/ \E c \in clients : dflt[c] = n)

\* Once told to stop (by RXSTACK_KILL or a signal) the daemon does end.
ShutdownCompletes == ~running ~> phase = "ended"
=============================================================================
