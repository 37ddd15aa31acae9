----------------------------- MODULE RexxScopes -----------------------------
(***************************************************************************)
(* What the variable pool shows a program.  Every routine sees its         *)
(* variables through a scope, a scope maps a variable to a cell, and       *)
(* PROCEDURE EXPOSE lets two scopes share a cell.  A stem is a variable of *)
(* its own and all its tails: assigning or dropping the stem reaches every *)
(* tail the routine sees, those it shares with a caller included.          *)
(***************************************************************************)
EXTENDS Naturals, Sequences

CONSTANTS
  Simples,    \* the simple variables
  Tails,      \* the tails of the one stem, S.
  Vals,       \* the values a program assigns
  MaxLevel    \* bound: how deep routines nest

None == "no value"
TailVar(t) == <<"S", t>>
TailVars == {TailVar(t) : t \in Tails}
StemVars == {<<"S">>} \union TailVars
Vars == {<<x>> : x \in Simples} \union StemVars
Cells == (1 .. MaxLevel) \X Vars

VARIABLES
  scope,      \* scope[d][x]: the cell routine d sees as x; a cell is named by the
              \* routine that owns it and the variable
  val         \* val[c]: the value of cell c, None when it has none

vars == <<scope, val>>

Own(d) == [x \in Vars |-> <<d, x>>]
Top == scope[Len(scope)]
Put(C, v) == val' = [c \in Cells |-> IF c \in C THEN v ELSE val[c]]

Init ==
  /\ scope = <<Own(1)>>
  /\ val = [c \in Cells |-> None]

\* An assignment, or DROP, where v is None
Assign(x, v) == UNCHANGED scope /\ val' = [val EXCEPT ![Top[x]] = v]
AssignStem(v) == UNCHANGED scope /\ Put({Top[x] : x \in StemVars}, v)

\* CALL of a routine that starts with PROCEDURE EXPOSE, and its RETURN
Enter(shared) ==
  /\ Len(scope) < MaxLevel
  /\ UNCHANGED val
  /\ <<"S">> \in shared => TailVars \subseteq shared
  /\ scope' = Append(scope, [x \in Vars |->
                IF x \in shared THEN Top[x] ELSE <<Len(scope) + 1, x>>])

Leave ==
  /\ Len(scope) > 1
  /\ scope' = SubSeq(scope, 1, Len(scope) - 1)
  /\ Put({<<Len(scope), x>> : x \in Vars}, None)

Next ==
  \/ \E x \in Vars \ {<<"S">>}, v \in Vals \union {None} : Assign(x, v)
  \/ \E v \in Vals \union {None} : AssignStem(v)
  \/ \E shared \in SUBSET Vars : Enter(shared)
  \/ Leave

Spec == Init /\ [][Next]_vars
=============================================================================
