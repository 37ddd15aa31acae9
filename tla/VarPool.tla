------------------------------ MODULE VarPool ------------------------------
(***************************************************************************)
(* The variable pool of variable.c: boxes in hash tables, one table for    *)
(* every PROCEDURE, boxes of a callee that lead to the caller's (realbox), *)
(* stems with a table of their own, and the pointers the nodes of the      *)
(* parsing tree keep to the boxes they found (u.varbx).  A node trusts its *)
(* pointer while the number in the box (valid) is the number of the        *)
(* running procedure (current_valid).  A hash table is a function from     *)
(* names; of its size the model keeps what decides when it is reorganised. *)
(***************************************************************************)
EXTENDS Naturals, Sequences, FiniteSets

CONSTANTS
  Simples,     \* the simple variables; "X" is the one the nodes refer to
  Tails,       \* the tails of the stem S.: the values X takes, and "X" itself
  ConstTails,  \* the tails a program writes literally
  Vals,        \* the values a program assigns
  ExposeLists, \* the lists of names of PROCEDURE EXPOSE
  Habits,      \* what the programs do of: "add to a stem", "expose a default"
  InitSize,    \* initialHashTableLength
  MaxLevel,    \* bound: procedures that nest
  MaxId        \* bound: numbers given to procedures

ASSUME PoolAssumption ==
  /\ "X" \in Simples /\ "S" \notin Simples /\ IsFiniteSet(Simples)
  /\ ConstTails \subseteq Tails /\ "X" \in Tails
  /\ ExposeLists \subseteq Seq({<<n>> : n \in Simples \union {"S"}} \union {<<"S", t>> : t \in Tails})
  /\ InitSize \in Nat \ {0} /\ MaxLevel \in Nat /\ MaxId \in Nat \ (0 .. 2)

None == "no value"
Names == Simples \union {"S"}
TailVar(t) == <<"S", t>>

\* A box is named by the procedure it was made for and what it holds
Box == (3 .. MaxId) \X ({<<n>> : n \in Names} \union {TailVar(t) : t \in Tails})
Nil == <<0, << >> >>

\* The nodes that remember a box, one for each kind: NodeX refers to X, sets it, or is
\* the X in S.X, and NodeHead is the head of S.X or the stem in S. += 1
NodeX == "X"
NodeHead == "S."
Nodes == {NodeX, NodeHead}

VARIABLES
  m            \* the memory: heap, tables, the two counters, the nodes' pointers

NoIndex == << >>
NoTails == [t \in Tails |-> Nil]

\* A hollow box has lost all but the count of the nodes that still point to it; a lost
\* one is memory that was not given back and that nothing points to
FreeBox == [state |-> "free", val |-> None, real |-> Nil, valid |-> 0, hwired |-> 0,
            index |-> NoIndex]
Hollow(n) == [FreeBox EXCEPT !.state = "hollow", !.hwired = n]

\* newbox; the index is the table make_stem gives a stem
newbox(mem, v, index) ==
  [FreeBox EXCEPT !.state = "used", !.val = v, !.valid = mem.cur, !.index = index]

\* SEEK_EXPOSED
Seek(mem, b) ==
  LET walk[c \in Box] == IF mem.heap[c].real = Nil THEN c ELSE walk[mem.heap[c].real]
  IN  IF b = Nil THEN Nil ELSE walk[b]

(***************************************************************************)
(* Tables.  The slot behind the last one keeps the caller's number; a      *)
(* reorganised table is allocated without it.                              *)
(***************************************************************************)
Lost == MaxId + 1

create_new_varpool(mem) ==
  [mem EXCEPT
    !.lev = Append(@, [of |-> [n \in Names |-> Nil], size |-> InitSize,
                       elements |-> 0, saved |-> mem.cur, id |-> mem.next]),
    !.cur = mem.next,
    !.next = @ + 1]

reorgHashtable(t) ==
  IF t.elements * 3 > t.size * 2
  THEN [t EXCEPT !.size = 2 * @ + 1, !.saved = Lost]
  ELSE t

Entered(t, n, b) == [t EXCEPT !.of[n] = b, !.elements = @ + 1]
Insert(mem, d, n, rec) ==
  LET b == <<mem.lev[d].id, <<n>> >> IN
  [mem EXCEPT !.heap[b] = rec, !.lev[d] = reorgHashtable(Entered(@, n, b))]

InsertTail(mem, s, t, rec) ==
  LET b == <<s[1], TailVar(t)>>
  IN  [mem EXCEPT !.heap[b] = rec, !.heap[s].index[t] = b]

Cur(mem) == Len(mem.lev)
findsimple(mem, d, n) == Seek(mem, mem.lev[d].of[n])
FindTail(mem, s, t) == Seek(mem, mem.heap[s].index[t])

\* REPLACE_VALUE and REPLACE_NUMBER
Replace(mem, b, v) == [mem EXCEPT !.heap[b].val = v]

(***************************************************************************)
(* Access by name: INTERPRET, VALUE, the interface of the API.             *)
(***************************************************************************)
setvalue_simple(mem, n, v) ==
  LET b == findsimple(mem, Cur(mem), n) IN
  IF b # Nil THEN Replace(mem, b, v)
  ELSE Insert(mem, Cur(mem), n, newbox(mem, v, NoIndex))

make_stem(mem, d) == Insert(mem, d, "S", newbox(mem, None, NoTails))

\* (Mutant of assign_foliage: what leads elsewhere is left alone.)
AssignOwn(mem, s, v) ==
  LET idx == mem.heap[s].index
      local == {idx[t] : t \in {u \in Tails : idx[u] # Nil /\ mem.heap[idx[u]].real = Nil}}
  IN  [mem EXCEPT !.heap = [b \in Box |->
         CASE b \in local /\ v = None -> FreeBox
           [] b \in local /\ v # None -> [@[b] EXCEPT !.val = v]
           [] b = s -> [@[b] EXCEPT !.index = [t \in Tails |->
                          IF v = None /\ idx[t] \in local THEN Nil ELSE idx[t]]]
           [] OTHER -> @[b]]]

\* assign_foliage: local tails are removed when v is None, those that lead elsewhere
\* get v too
assign_foliage(mem, s, v) ==
  LET idx == mem.heap[s].index
      local == {t \in Tails : idx[t] # Nil /\ mem.heap[idx[t]].real = Nil}
      real == {Seek(mem, idx[t]) : t \in {u \in Tails : idx[u] # Nil} \ local}
      removed == IF v = None THEN local ELSE {}
      replaced == real \union {idx[t] : t \in local \ removed}
  IN  [mem EXCEPT !.heap = [b \in Box |->
         CASE b \in {idx[t] : t \in removed} -> FreeBox
           [] b = s -> [@[b] EXCEPT !.index = [t \in Tails |->
                          IF t \in removed THEN Nil ELSE idx[t]]]
           [] b \in replaced -> [@[b] EXCEPT !.val = v]
           [] OTHER -> @[b]]]

setvalue_stem(mem, v) ==
  LET s == findsimple(mem, Cur(mem), "S") IN
  IF s # Nil THEN assign_foliage(Replace(mem, s, v), s, v)
  ELSE Insert(mem, Cur(mem), "S", newbox(mem, v, NoTails))

setvalue(mem, n, v) ==
  IF n = "S" THEN setvalue_stem(mem, v) ELSE setvalue_simple(mem, n, v)

setvalue_compound(mem, t, v) ==
  LET found == findsimple(mem, Cur(mem), "S")
      mem1 == IF found # Nil THEN mem ELSE make_stem(mem, Cur(mem))
      s == findsimple(mem1, Cur(mem1), "S")
      b == FindTail(mem1, s, t)
  IN  IF b # Nil THEN Replace(mem1, b, v)
      ELSE InsertTail(mem1, s, t, newbox(mem1, v, NoIndex))

\* subst_index: the tail X stands for
subst_index(mem, d) ==
  LET b == findsimple(mem, d, "X") IN
  IF b = Nil \/ mem.heap[b].val = None THEN "X" ELSE mem.heap[b].val

drop_var_simple(mem, n) ==
  LET b == findsimple(mem, Cur(mem), n) IN
  IF b = Nil THEN mem ELSE Replace(mem, b, None)

drop_var_stem(mem) ==
  LET s == findsimple(mem, Cur(mem), "S") IN
  IF s = Nil THEN mem ELSE assign_foliage(Replace(mem, s, None), s, None)

\* A tail without a box gets an empty one, so that the stem's value is hidden
drop_var_compound(mem, t) ==
  LET s == findsimple(mem, Cur(mem), "S")
      b == IF s = Nil THEN Nil ELSE FindTail(mem, s, t)
  IN  CASE s = Nil -> mem
        [] b # Nil -> Replace(mem, b, None)
        [] OTHER -> setvalue_compound(mem, t, None)

(***************************************************************************)
(* Access through a node: shortcut, setshortcut and fix_compound.          *)
(***************************************************************************)
Hit(mem, nd) == mem.node[nd] # Nil /\ mem.heap[mem.node[nd]].valid = mem.cur

\* (Mutant of Uncache: no node gives a hollow box back.)
UncacheOnly(mem, nd) ==
  IF mem.node[nd] = Nil THEN mem
  ELSE [mem EXCEPT !.node[nd] = Nil, !.heap[mem.node[nd]].hwired = @ - 1]

\* A pointer that is not valid is given up; the last one frees a hollow box
Uncache(mem, nd) ==
  LET b == mem.node[nd]
      h == mem.heap[b].hwired - 1
  IN  IF b = Nil THEN mem
      ELSE [mem EXCEPT
             !.node[nd] = Nil,
             !.heap[b] = IF h = 0 /\ mem.heap[b].valid = 0 THEN FreeBox
                         ELSE [@ EXCEPT !.hwired = h]]

Cache(mem, nd, b) ==
  [mem EXCEPT !.node[nd] = b, !.heap[b].hwired = @ + 1]

NodeName(nd) == IF nd = NodeX THEN "X" ELSE "S"

\* The box a node reads, Nil when there is none, and the memory after it: a
\* pointer is kept to a box that was found with a value
ShortBox(mem, nd) == IF Hit(mem, nd) THEN Seek(mem, mem.node[nd])
                     ELSE findsimple(mem, Cur(mem), NodeName(nd))
ShortValue(mem, nd) ==
  LET b == ShortBox(mem, nd) IN IF b = Nil THEN None ELSE mem.heap[b].val
shortcut(mem, nd) ==
  CASE Hit(mem, nd) -> mem
    [] ~ Hit(mem, nd) /\ ShortValue(mem, nd) = None -> Uncache(mem, nd)
    [] OTHER -> Cache(Uncache(mem, nd), nd, ShortBox(mem, nd))

\* setshortcut.  A stem assigned by name leaves no pointer (vt->thespot is NULL).
setshortcut(mem, nd, v) ==
  LET n == NodeName(nd)
      set == setvalue(Uncache(mem, nd), n, v)
  IN  IF Hit(mem, nd) THEN Replace(mem, Seek(mem, mem.node[nd]), v)
      ELSE IF n = "S" THEN set
      ELSE Cache(set, nd, findsimple(set, Cur(set), n))

\* The head of a compound variable: its stem, made when the tail is assigned
HeadFound(mem, making) ==
  LET miss == Uncache(mem, NodeHead)
      s == findsimple(miss, Cur(miss), "S")
  IN  IF Hit(mem, NodeHead) THEN mem
      ELSE IF s # Nil THEN Cache(miss, NodeHead, s)
      ELSE IF making THEN make_stem(miss, Cur(miss)) ELSE miss
HeadBox(mem) == IF mem.node[NodeHead] # Nil THEN mem.node[NodeHead]
                ELSE findsimple(mem, Cur(mem), "S")

\* fix_index: the value of the variable tail, or its name
TailOf(mem) == LET v == ShortValue(mem, NodeX) IN IF v = None THEN "X" ELSE v

\* fix_compound, when S.X is assigned and when it is read
fix_compound_set(mem, v) ==
  LET mem1 == HeadFound(mem, TRUE)
      s == HeadBox(mem1)
      mem2 == shortcut(mem1, NodeX)
      b == FindTail(mem2, s, TailOf(mem1))
  IN  IF b # Nil THEN Replace(mem2, b, v)
      ELSE InsertTail(mem2, s, TailOf(mem1), newbox(mem2, v, NoIndex))

fix_compound_get(mem) == shortcut(HeadFound(mem, FALSE), NodeX)

(***************************************************************************)
(* PROCEDURE EXPOSE and the end of the routine.  While names are exposed   *)
(* the new table is the last one, and the caller's the one before it.      *)
(***************************************************************************)
\* A box of the new table that leads to one of the caller's
Alias(mem, b) == [newbox(mem, None, NoIndex) EXCEPT !.real = b]

expose_simple(mem, n) ==
  LET old == Cur(mem) - 1
      new == Cur(mem)
      mem1 == IF findsimple(mem, old, n) # Nil THEN mem
              ELSE Insert(mem, old, n, newbox(mem, None, NoIndex))
      b == findsimple(mem1, old, n)
  IN  IF mem.lev[new].of[n] # Nil THEN mem
      ELSE [Insert(mem1, new, n, Alias(mem1, b)) EXCEPT !.heap[b].valid = mem.cur]

\* (Mutant of expose_stem: the stem that tails of the list made keeps its table.)
ExposeKeeping(mem) ==
  LET old == Cur(mem) - 1
      new == Cur(mem)
      q == mem.lev[new].of["S"]
      mem1 == IF findsimple(mem, old, "S") # Nil THEN mem ELSE make_stem(mem, old)
      s == findsimple(mem1, old, "S")
  IN  IF q = Nil THEN Insert(mem1, new, "S", Alias(mem1, s))
      ELSE [mem1 EXCEPT !.heap[q].real = s]

\* (Mutant of expose_stem: the table goes, and the boxes in it stay.)
ExposeLeaking(mem) ==
  LET old == Cur(mem) - 1
      new == Cur(mem)
      q == mem.lev[new].of["S"]
      mem1 == IF findsimple(mem, old, "S") # Nil THEN mem ELSE make_stem(mem, old)
      s == findsimple(mem1, old, "S")
  IN  IF q = Nil THEN Insert(mem1, new, "S", Alias(mem1, s))
      ELSE [mem1 EXCEPT !.heap[q].index = NoIndex, !.heap[q].real = s]

expose_stem(mem) ==
  LET old == Cur(mem) - 1
      new == Cur(mem)
      q == mem.lev[new].of["S"]
      mem1 == IF findsimple(mem, old, "S") # Nil THEN mem ELSE make_stem(mem, old)
      s == findsimple(mem1, old, "S")
      foliage == {mem1.heap[q].index[t] : t \in Tails} \ {Nil}
  IN  IF q = Nil THEN Insert(mem1, new, "S", Alias(mem1, s))
      ELSE IF mem.heap[q].real # Nil THEN mem
      ELSE [mem1 EXCEPT !.heap = [b \in Box |->
              IF b \in foliage THEN FreeBox
              ELSE IF b = q THEN [@[b] EXCEPT !.index = NoIndex, !.real = s]
              ELSE @[b]]]

expose_compound(mem, tail) ==
  LET old == Cur(mem) - 1
      new == Cur(mem)
      q == mem.lev[new].of["S"]
      mem1 == IF q # Nil THEN mem ELSE make_stem(mem, new)
      s == mem1.lev[new].of["S"]
      t == IF tail = "X" THEN subst_index(mem1, new) ELSE tail
      mem2 == IF findsimple(mem1, old, "S") # Nil THEN mem1 ELSE make_stem(mem1, old)
      s2 == findsimple(mem2, old, "S")
      mem3 == IF FindTail(mem2, s2, t) # Nil THEN mem2
              ELSE InsertTail(mem2, s2, t, newbox(mem2, None, NoIndex))
  IN  IF q # Nil /\ mem.heap[q].real # Nil THEN mem
      ELSE IF mem1.heap[s].index[t] # Nil THEN mem1
      ELSE InsertTail(mem3, s, t, Alias(mem3, FindTail(mem3, s2, t)))

\* A name of an EXPOSE list: a simple variable, the stem, or a tail
expose_var(mem, x) ==
  CASE x[1] # "S" -> expose_simple(mem, x[1])
    [] x = <<"S">> -> expose_stem(mem)
    [] OTHER -> expose_compound(mem, x[2])

exposed(mem, list) ==
  LET step[i \in 0 .. Len(list)] ==
        IF i = 0 THEN create_new_varpool(mem) ELSE expose_var(step[i - 1], list[i])
  IN  step[Len(list)]

\* kill_variables with REMOVE_ELEMENT: a box some node points to stays, hollow.
\* The caller's number is read from behind the table, whatever is there.
Dead(mem, d) ==
  LET own == {mem.lev[d].of[n] : n \in Names} \ {Nil}
      stems == {b \in own : mem.heap[b].index # NoIndex}
  IN  own \union ({mem.heap[b].index[t] : b \in stems, t \in Tails} \ {Nil})
\* (Mutant of killed: a box goes although nodes point to it.)
FreedAll(mem, number) ==
  [mem EXCEPT
    !.heap = [b \in Box |-> IF b \in Dead(mem, Cur(mem)) THEN FreeBox ELSE @[b]],
    !.lev = SubSeq(@, 1, Len(@) - 1),
    !.cur = number]

\* (Mutant of killed: the next number is taken back, as in the scheme the comment at
\* var_tsd_t warns of.)
NumberReused(mem, number) ==
  [mem EXCEPT
    !.heap = [b \in Box |-> IF b \notin Dead(mem, Cur(mem)) THEN @[b]
                            ELSE IF @[b].hwired > 0 THEN Hollow(@[b].hwired) ELSE FreeBox],
    !.lev = SubSeq(@, 1, Len(@) - 1),
    !.cur = number,
    !.next = @ - 1]

killed(mem, number) ==
  [mem EXCEPT
    !.heap = [b \in Box |-> IF b \notin Dead(mem, Cur(mem)) THEN @[b]
                            ELSE IF @[b].hwired > 0 THEN Hollow(@[b].hwired) ELSE FreeBox],
    !.lev = SubSeq(@, 1, Len(@) - 1),
    !.cur = number,
    !.next = IF number = 1 THEN 2 ELSE @]
kill_variables(mem) ==
  LET saved == mem.lev[Cur(mem)].saved
  IN  {killed(mem, number) : number \in IF saved = Lost THEN 0 .. MaxId ELSE {saved}}

(***************************************************************************)
(* The program.                                                            *)
(***************************************************************************)
\* init_vars took the numbers 1 and 2 for pool 0
Init ==
  /\ m = [heap |-> [b \in Box |-> FreeBox],
          lev |-> <<[of |-> [n \in Names |-> Nil], size |-> InitSize,
                     elements |-> 0, saved |-> 2, id |-> 3]>>,
          cur |-> 3, next |-> 4,
          node |-> [nd \in Nodes |-> Nil]]

Refer == m' = shortcut(m, NodeX)
Set(v) == m' = setshortcut(m, NodeX, v)
ReferCompound == m' = fix_compound_get(m)
SetCompound(v) == m' = fix_compound_set(m, v)
SetByName(n, v) == m' = setvalue(m, n, v)
SetTail(t, v) == m' = setvalue_compound(m, t, v)
Drop(n) == m' = drop_var_simple(m, n)
DropTail(t) == m' = drop_var_compound(m, t)
DropStem == m' = drop_var_stem(m)

\* S. += 1: the stem is read and set through one node
AddToStem(v) ==
  LET s == findsimple(m, Cur(m), "S") IN
  /\ ShortValue(m, NodeHead) # None
  /\ "add to a stem" \in Habits \/ m.heap[s].index = NoTails
  /\ m' = setshortcut(shortcut(m, NodeHead), NodeHead, v)

\* The i-th name of the list is a tail that has no box of its own though the stem
\* has a value; the X in S.X is the caller's when X was exposed before it
Inherits(mem, list, i) ==
  LET s == findsimple(mem, Cur(mem), "S")
      t == IF list[i][2] = "X" /\ \E j \in 1 .. i : list[j] = <<"X">>
           THEN subst_index(mem, Cur(mem)) ELSE list[i][2]
  IN  s # Nil /\ mem.heap[s].val # None /\ FindTail(mem, s, t) = Nil

Procedure(list) ==
  /\ Cur(m) < MaxLevel /\ m.next <= MaxId
  /\ \/ "expose a default" \in Habits
     \/ \A i \in DOMAIN list : Len(list[i]) = 2 => ~ Inherits(m, list, i)
  /\ m' = exposed(m, list)

Return ==
  /\ Cur(m) > 1
  /\ m' \in kill_variables(m)

\* The tree of an INTERPRET or of a program goes, and detach gives up its pointers. It
\* only counts: a hollow box that no other node points to is lost.
detach(nd) ==
  LET b == m.node[nd]
      last == m.heap[b].state = "hollow" /\ m.heap[b].hwired = 1
  IN  /\ b # Nil
      /\ m' = [m EXCEPT !.node[nd] = Nil,
                        !.heap[b].hwired = @ - 1,
                        !.heap[b].state = IF last THEN "lost" ELSE @]

Next ==
  \/ Refer \/ ReferCompound \/ DropStem \/ Return
  \/ \E v \in Vals : SetCompound(v) \/ SetByName("S", v) \/ AddToStem(v)
  \/ \E v \in Vals \cap Tails : Set(v) \/ \E n \in Simples : SetByName(n, v)
  \/ \E t \in ConstTails, v \in Vals : SetTail(t, v)
  \/ \E n \in Simples : Drop(n)
  \/ \E t \in ConstTails : DropTail(t)
  \/ \E list \in ExposeLists : Procedure(list)
  \/ \E nd \in Nodes : detach(nd)

Spec == Init /\ [][Next]_m

(***************************************************************************)
(* Properties.                                                             *)
(***************************************************************************)
\* The box a node would use without a look into the tables (shortcut,
\* setshortcut, fix_compound) is the box the tables lead to: numbers of
\* procedures that ended, and boxes exposed to them, never make an old pointer
\* look valid (the comment at var_tsd_t tells how an earlier scheme failed).
ShortcutTruth ==
  \A nd \in Nodes : Hit(m, nd) => findsimple(m, Cur(m), NodeName(nd)) = Seek(m, m.node[nd])

\* The count in a box is the number of nodes that point to it, and no node points
\* to memory that was given back (REMOVE_ELEMENT, shortcut and detach share the work).
PointersCounted ==
  \A b \in Box :
    LET held == {nd \in Nodes : m.node[nd] = b}
    IN  /\ m.heap[b].hwired = Cardinality(held)
        /\ held # {} => m.heap[b].state # "free"

\* What the tables of the procedures hold, stems' tables included
InTables == UNION {Dead(m, d) : d \in 1 .. Cur(m)}
LevelOf(b) == CHOOSE d \in 1 .. Cur(m) : m.lev[d].id = b[1]

\* Every box is free, in the tables, hollow and waiting for its nodes, or was lost when
\* detach gave up the last pointer to a hollow one: the end of a procedure, DROP, EXPOSE
\* and the nodes that look for their variable anew lose none.  What a box leads to
\* (realbox) is in the tables of an earlier procedure, and a box that leads to another
\* has neither a value nor tails of its own.
EveryBoxHasAHome ==
  /\ PointersCounted
  /\ \A b \in Box :
       /\ m.heap[b].state = "used" <=> b \in InTables
       /\ m.heap[b].state = "hollow" => m.heap[b].hwired > 0
       /\ m.heap[b].state = "lost" => m.heap[b].hwired = 0
       /\ m.heap[b].real # Nil => /\ m.heap[b].real \in InTables
                                  /\ LevelOf(m.heap[b].real) < LevelOf(b)
                                  /\ m.heap[b].val = None /\ m.heap[b].index = NoIndex

\* current_valid is the number of the running procedure, also when a procedure has
\* returned: else the pointers of all nodes are judged by a wrong number, and the
\* number in the boxes of the caller never matches again.  It holds as long as no
\* table of a procedure has grown (kill_variables, reorgHashtable).
CallerRestored == m.cur = m.lev[Cur(m)].id

(***************************************************************************)
(* What the program sees is RexxScopes: the cell of a variable is named by *)
(* the procedure that keeps its box, or would.                             *)
(***************************************************************************)
CellOf(d, x) ==
  LET s == m.lev[d].of["S"]
      t == FindTail(m, Seek(m, s), x[2])
      home == IF s = Nil THEN d ELSE LevelOf(Seek(m, s))
  IN  CASE x[1] # "S" ->
             LET b == findsimple(m, d, x[1]) IN <<IF b = Nil THEN d ELSE LevelOf(b), x>>
        [] x = <<"S">> -> <<home, x>>
        [] OTHER -> <<IF s = Nil \/ t = Nil THEN home ELSE LevelOf(t), x>>

\* A box that leads elsewhere has no value of its own
OwnValue(b) == IF b = Nil THEN None ELSE m.heap[b].val
CellValue(d, x) ==
  LET s == m.lev[d].of["S"]
      t == m.heap[s].index[x[2]]
  IN  CASE x[1] # "S" -> OwnValue(m.lev[d].of[x[1]])
        [] x = <<"S">> -> OwnValue(s)
        [] OTHER -> IF s = Nil \/ m.heap[s].real # Nil THEN None
                    ELSE IF t = Nil THEN m.heap[s].val ELSE OwnValue(t)

Scopes_Vars == {<<x>> : x \in Simples} \union {<<"S">>} \union {TailVar(t) : t \in Tails}
VisibleScope == [d \in 1 .. Cur(m) |-> [x \in Scopes_Vars |-> CellOf(d, x)]]
VisibleVal == [c \in (1 .. MaxLevel) \X Scopes_Vars |->
                 IF c[1] <= Cur(m) THEN CellValue(c[1], c[2]) ELSE None]
Scopes == INSTANCE RexxScopes WITH scope <- VisibleScope, val <- VisibleVal

\* Every step of the pool is what RexxScopes lets the program see: assignments,
\* drops and references reach the cell the scope names, EXPOSE shares exactly what
\* was listed, and a procedure that returns leaves its caller's values alone.
Implements == Scopes!Spec
=============================================================================
