----------------------------- MODULE QueueTable -----------------------------
(***************************************************************************)
(* The queues of one interpreter (stack.c): a table of slots for internal  *)
(* queues and for connections to rxstack, the current queue and its name,  *)
(* RXQUEUE, and the commands whose input and output are redirected to      *)
(* queues (envir.c, shell.c).  A command opens its queues in slots of the  *)
(* same table; an error leaves by a jump, so that what comes after the     *)
(* jump, cleaning up included, does not happen.                            *)
(***************************************************************************)
EXTENDS Naturals, Sequences, FiniteSets

CONSTANTS
  LocalNames,   \* names without a host, <<"A">>
  RemoteNames,  \* names with a host, <<"A", "h">>
  Hosts,
  Withs,        \* the redirections of commands: where input comes from, where output goes
  NumberQueues, \* NUMBER_QUEUES; slot 0 is SESSION
  Habits,       \* what the programs do of: "fail" (a queue is missing or a host
                \* unreachable), "mix" (turn INTERNAL_QUEUES on while an external
                \* queue is current), "fill" (use up the table)
  MaxEnv,       \* bound: instances of the command environment
  MaxRunner     \* bound: names made by RXQUEUE('C')

ASSUME TableAssumption ==
  /\ NumberQueues \in Nat \ {0} /\ MaxEnv \in Nat \ {0} /\ MaxRunner \in Nat
  /\ \A n \in LocalNames : Len(n) = 1 /\ n[1] # "SESSION"
  /\ \A n \in RemoteNames : Len(n) = 2 /\ n[2] \in Hosts
  /\ \A w \in Withs : {w[1], w[2]} \subseteq {<< >>} \union LocalNames \union RemoteNames

None == << >>
Session == <<"SESSION">>
Unique(r) == <<r, r, r>>   \* a name made of the process, the time and a counter
GivenNames == LocalNames \union RemoteNames \union {Session}   \* what programs may say
Slots == 0 .. NumberQueues - 1
NoSlot == NumberQueues

VARIABLES
  t,         \* the table: slots, open connections per host, the current slot and its name
  envs,      \* the instances of the environment, the one in force last
  internal,  \* OPTIONS INTERNAL_QUEUES
  runner     \* names made so far

vars == <<t, envs, internal, runner>>

(***************************************************************************)
(* The table.                                                              *)
(***************************************************************************)
Unused == [type |-> "unused", name |-> None, real |-> FALSE, open |-> FALSE]
Internal(n, real) == [type |-> "internal", name |-> n, real |-> real, open |-> FALSE]
\* A connection; its name is the queue rxstack has as default for it
External(n, open) == [type |-> "external", name |-> n, real |-> FALSE, open |-> open]

\* (Mutant of find_queue: a false queue is not found.)
FindReal(w, n) ==
  IF \E i \in Slots : w.slot[i].type = "internal" /\ w.slot[i].name = n /\ w.slot[i].real
  THEN CHOOSE i \in Slots : w.slot[i].type = "internal" /\ w.slot[i].name = n /\ w.slot[i].real
  ELSE NoSlot

find_queue(w, n) ==
  IF \E i \in Slots : w.slot[i].type = "internal" /\ w.slot[i].name = n
  THEN CHOOSE i \in Slots : w.slot[i].type = "internal" /\ w.slot[i].name = n
  ELSE NoSlot

\* The lowest unused slot, SESSION's never; NoSlot when there is none
find_free_slot(w) ==
  IF \E i \in Slots \ {0} : w.slot[i].type = "unused"
  THEN CHOOSE i \in Slots \ {0} :
         /\ w.slot[i].type = "unused"
         /\ \A j \in Slots \ {0} : j < i => w.slot[j].type # "unused"
  ELSE NoSlot

\* delete_an_external_queue: rxstack is told, the connection is closed
delete_an_external_queue(w, i) ==
  LET gone == [w EXCEPT !.slot[i] = Unused]
  IN  IF w.slot[i].open THEN [gone EXCEPT !.conns[w.slot[i].name[2]] = @ - 1] ELSE gone

SetCurrentQueue(w, i, n) ==
  LET left == IF w.slot[w.cur].type = "external" /\ w.cur # i
              THEN delete_an_external_queue(w, w.cur) ELSE w
  IN  [left EXCEPT !.cur = i, !.name = n]

use_external(n) == ~ internal /\ Len(n) = 2

\* open_external with ignore_name goes by the current connection when it leads to
\* the host; otherwise it makes one, in no slot yet
Reuses(w, h) == w.slot[w.cur].type = "external" /\ w.slot[w.cur].name[2] = h

(***************************************************************************)
(* RXQUEUE.  Creating an external queue leaves the table as it is: the     *)
(* name goes to rxstack on the current connection or on one for the        *)
(* purpose.  So do Get, Timeout and access to lines.                       *)
(***************************************************************************)
\* What set_queue does with a name the table has, with one that is made a false
\* queue, and nothing when the table is full (an error)
SetLocal(w, n) ==
  LET i == find_queue(w, n)
      j == find_free_slot(w)
  IN  IF i # NoSlot THEN SetCurrentQueue(w, i, w.slot[i].name)
      ELSE IF j = NoSlot THEN w
      ELSE SetCurrentQueue([w EXCEPT !.slot[j] = Internal(n, FALSE)], j, n)

\* (Mutant of SetRemote: the name is set on the connection and not in the client.)
SetThere(w, n) ==
  LET made == [w EXCEPT !.conns[n[2]] = @ + 1]
      j == find_free_slot(w)
  IN  IF Reuses(w, n[2]) THEN [w EXCEPT !.slot[w.cur].name = n]
      ELSE IF j = NoSlot THEN made
      ELSE SetCurrentQueue([made EXCEPT !.slot[j] = External(n, TRUE)], j, n)

\* When no slot is free the connection was made already, and stays
SetRemote(w, n) ==
  LET made == [w EXCEPT !.conns[n[2]] = @ + 1]
      j == find_free_slot(w)
  IN  IF Reuses(w, n[2]) THEN [w EXCEPT !.slot[w.cur].name = n, !.name = n]
      ELSE IF j = NoSlot THEN made
      ELSE SetCurrentQueue([made EXCEPT !.slot[j] = External(n, TRUE)], j, n)

set_queue(n) ==
  /\ "fill" \in Habits \/ find_free_slot(t) # NoSlot
  /\ t' = IF use_external(n) THEN SetRemote(t, n) ELSE SetLocal(t, n)
  /\ UNCHANGED <<envs, internal, runner>>

\* RXQUEUE('C', n): a queue that is there and real gets a sibling with a new name,
\* SESSION is refused; the current queue stays
create_queue(n) ==
  LET i == find_queue(t, n)
      unique == Unique(runner)
      new == IF i = NoSlot THEN n ELSE unique
      j == find_free_slot(t)
  IN  /\ ~ use_external(n)
      /\ i # 0
      /\ IF i # NoSlot /\ ~ t.slot[i].real
         THEN t' = [t EXCEPT !.slot[i].real = TRUE] /\ UNCHANGED runner
         ELSE /\ new = unique => runner < MaxRunner
              /\ runner' = IF new = unique THEN runner + 1 ELSE runner
              /\ j # NoSlot
              /\ t' = [t EXCEPT !.slot[j] = Internal(new, TRUE)]
      /\ UNCHANGED <<envs, internal>>

\* RXQUEUE('D', n): whatever queue goes, SESSION becomes the current one
delete_queue(n) ==
  LET i == find_queue(t, n) IN
  /\ use_external(n) \/ i \notin {0, NoSlot}
  /\ t' = SetCurrentQueue(IF use_external(n) THEN t ELSE [t EXCEPT !.slot[i] = Unused],
                          0, Session)
  /\ UNCHANGED <<envs, internal, runner>>

\* (Mutant of purge_stacks: slots are reset, connections are not closed.)
PurgeOpen ==
  /\ t' = [slot |-> [i \in Slots |-> IF i = 0 THEN Internal(Session, TRUE) ELSE Unused],
           conns |-> t.conns, cur |-> 0, name |-> Session]
  /\ UNCHANGED <<envs, internal, runner>>

\* The end of RexxStart.  SESSION has its name again at the next access.
purge_stacks ==
  /\ t' = [slot |-> [i \in Slots |-> IF i = 0 THEN Internal(Session, TRUE) ELSE Unused],
           conns |-> [h \in Hosts |-> t.conns[h] - Cardinality({i \in Slots :
                        t.slot[i].open /\ t.slot[i].name[2] = h})],
           cur |-> 0, name |-> Session]
  /\ UNCHANGED <<envs, internal, runner>>

\* OPTIONS
SetOption ==
  /\ internal \/ "mix" \in Habits
     \/ \A i \in Slots : t.slot[i].type # "external"
  /\ internal' = ~ internal
  /\ UNCHANGED <<t, envs, runner>>

(***************************************************************************)
(* Commands.  An environment says where a command's input comes from and   *)
(* where its output goes, and keeps the queues opened for them.            *)
(***************************************************************************)
Env(in, out) == [in |-> in, out |-> out, inq |-> NoSlot, outq |-> NoSlot]
Top == Len(envs)

\* addr_close_queue: only a connection that is not the current queue's is given up
addr_close_queue(w, i) ==
  IF i # NoSlot /\ i # w.cur /\ w.slot[i].type = "external"
  THEN delete_an_external_queue(w, i) ELSE w
\* (Mutant of cleanup: the queue of the output is forgotten.)
CleanInput(w, e) == addr_close_queue(w, e.inq)
cleanup(w, e) == addr_close_queue(addr_close_queue(w, e.inq), e.outq)

\* addr_reopen_queue: the table after it, the queue's slot, and whether it failed.
\* The slot of a host that is not reached has become a connection's already.
Opened(w, i) == [w |-> w, q |-> i, ok |-> TRUE]
Failed(w) == [w |-> w, q |-> NoSlot, ok |-> FALSE]
addr_reopen_queue(w, n, input) ==
  LET i == find_queue(w, n)
      j == find_free_slot(w)
      taken == [w EXCEPT !.slot[j] = External(n, FALSE)]
      reached == [w EXCEPT !.slot[j] = External(n, TRUE), !.conns[n[2]] = @ + 1]
  IN  IF n = None THEN {Opened(w, NoSlot)}
      ELSE IF use_external(n)
      THEN IF j = NoSlot THEN {Failed(w)}
           ELSE {Opened(reached, j)} \union (IF "fail" \in Habits THEN {Failed(taken)} ELSE {})
      ELSE IF i # NoSlot THEN {Opened([w EXCEPT !.slot[i].real = TRUE], i)}
      ELSE IF input \/ j = NoSlot THEN {Failed(w)}
      ELSE {Opened([w EXCEPT !.slot[j] = Internal(n, TRUE)], j)}

\* setup_io
setup_io(w, e) ==
  UNION {IF a.ok THEN {[w |-> b.w, in |-> a.q, out |-> b.q, ok |-> b.ok] :
                         b \in addr_reopen_queue(a.w, e.out, FALSE)}
         ELSE {[w |-> a.w, in |-> NoSlot, out |-> NoSlot, ok |-> FALSE]} :
         a \in addr_reopen_queue(cleanup(w, e), e.in, TRUE)}

\* With INTERNAL_QUEUES a command runs on the queue named behind RXQUEUE at its end, or
\* by the environment, or on SESSION: any name, which set_queue puts into the table.
\* (What is cleared after the command are lines, which are not told apart here.)
RunsOn == IF internal THEN GivenNames ELSE {None}
Switched(n) == IF internal THEN SetLocal(t, n) ELSE t
Back(w) == IF internal THEN SetLocal(w, t.name) ELSE w
Fits(w, n) == internal => find_queue(w, n) # NoSlot \/ find_free_slot(w) # NoSlot

\* (Mutant of perform: the queue is set back to SESSION, not to the saved one.)
PerformForgets(e, below, after) ==
  /\ Len(below) < MaxEnv
  /\ \E n \in RunsOn : Fits(t, n) /\ \E o \in setup_io(Switched(n), e) :
       /\ o.ok
       /\ LET done == cleanup(o.w, [e EXCEPT !.inq = o.in, !.outq = o.out])
          IN  t' = IF internal THEN SetLocal(done, Session) ELSE done
       /\ envs' = after
  /\ UNCHANGED <<internal, runner>>

\* perform: a command in instance e, the one in force or a temporary one made for its
\* own WITH, and what the instances are after it.  An error jumps over the end: the
\* instance stays, the queues it opened stay open, and with INTERNAL_QUEUES the queue
\* is not set back.  A table that is full is such an error, before and after the command.
perform(e, below, after) ==
  /\ Len(below) < MaxEnv
  /\ \E n \in RunsOn :
       IF Fits(t, n)
       THEN \E o \in setup_io(Switched(n), e) :
              LET held == [e EXCEPT !.inq = o.in, !.outq = o.out]
                  done == cleanup(o.w, held)
              IN  IF o.ok
                  THEN /\ t' = Back(done)
                       /\ envs' = IF Fits(done, t.name) THEN after
                                  ELSE Append(below, Env(e.in, e.out))
                  ELSE /\ "fail" \in Habits
                       /\ t' = o.w
                       /\ envs' = Append(below, held)
       ELSE /\ "fill" \in Habits
            /\ UNCHANGED t
            /\ envs' = Append(below, e)
  /\ UNCHANGED <<internal, runner>>

Command ==
  LET e == envs[Top]
      below == SubSeq(envs, 1, Top - 1)
  IN  perform(e, below, below \o <<Env(e.in, e.out)>>)
CommandWith(in, out) == perform(Env(in, out), envs, envs)

\* ADDRESS env WITH: the old parts are cleaned, the new ones are for every command
set_envir(in, out) ==
  /\ t' = cleanup(t, envs[Top])
  /\ envs' = [envs EXCEPT ![Top] = Env(in, out)]
  /\ UNCHANGED <<internal, runner>>

Init ==
  /\ t = [slot |-> [i \in Slots |-> IF i = 0 THEN Internal(Session, TRUE) ELSE Unused],
          conns |-> [h \in Hosts |-> 0], cur |-> 0, name |-> Session]
  /\ envs = <<Env(None, None)>>
  /\ internal = FALSE
  /\ runner = 0

Next ==
  \/ \E n \in GivenNames : set_queue(n) \/ create_queue(n) \/ delete_queue(n)
  \/ purge_stacks \/ SetOption \/ Command
  \/ \E w \in Withs : CommandWith(w[1], w[2]) \/ set_envir(w[1], w[2])

Spec == Init /\ [][Next]_vars

(***************************************************************************)
(* Properties.                                                             *)
(***************************************************************************)
SlotType ==
  [type : {"unused", "internal", "external"},
   name : LocalNames \union RemoteNames \union {None, Session}
            \union {Unique(r) : r \in 0 .. MaxRunner},
   real : BOOLEAN, open : BOOLEAN]

\* Slot 0 is SESSION for ever, and an external slot's name has a host.
TypeOK ==
  /\ t.slot \in [Slots -> SlotType] /\ t.conns \in [Hosts -> Nat] /\ t.cur \in Slots
  /\ t.slot[0] = Internal(Session, TRUE)
  /\ \A i \in Slots : t.slot[i].type = "external" => t.slot[i].name \in RemoteNames
  /\ \A k \in 1 .. Top : {envs[k].inq, envs[k].outq} \subseteq 0 .. NumberQueues
  /\ internal \in BOOLEAN /\ runner \in 0 .. MaxRunner

\* The current queue is one that can be used, a connection that is open if it is
\* external, and current_queue_name is its name, on either side of the connection:
\* what RXQUEUE('G') tells is where lines go (SetCurrentQueue, set_queue, delete_queue).
CurrentNamed ==
  LET c == t.slot[t.cur]
  IN  /\ c.type # "unused" /\ (c.type = "external" => c.open)
      /\ t.name = c.name

\* No name is there twice, whatever was set, created, opened and deleted: find_queue
\* takes the first it meets, and the other could never be reached again.
NamesUnique ==
  \A i, j \in Slots : t.slot[i].type = "internal" /\ t.slot[j].type = "internal"
                      /\ t.slot[i].name = t.slot[j].name => i = j

\* A queue has one name and a name one queue (find_queue, SetCurrentQueue).
NamesKept == CurrentNamed /\ NamesUnique

\* A connection to rxstack is open exactly while a slot stands for it, and between
\* commands such a slot is the current queue's ("a maximum of 1 permanent connection",
\* parse_queue), or a failed command's, whose environment still holds it for the
\* cleaning.
ConnectionsOwned ==
  /\ \A h \in Hosts :
       t.conns[h] = Cardinality({i \in Slots : t.slot[i].open /\ t.slot[i].name[2] = h})
  /\ \A i \in Slots : t.slot[i].open =>
       i = t.cur \/ \E k \in 1 .. Top : i \in {envs[k].inq, envs[k].outq}

\* A command that comes to its end leaves the current queue as it was, though it may
\* run on another one (perform with INTERNAL_QUEUES) and open and close connections.
CommandKeepsCurrent ==
  [][\A w \in Withs :
       CommandWith(w[1], w[2]) /\ envs' = envs => t'.cur = t.cur /\ t'.name = t.name]_vars
=============================================================================
