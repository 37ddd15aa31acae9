-------------------------- MODULE InterpreterProofs --------------------------
(***************************************************************************)
(* Proofs about Interpreter, for any programs: conditions are delayed      *)
(* exactly while their handlers run, and are taken before the next clause. *)
(* What an operation does to the machine depends on places in the tree and *)
(* on stacks which the properties do not look at: of the records it is     *)
(* only known which fields they have.                                      *)
(***************************************************************************)
EXTENDS Interpreter, TLAPS, SequenceTheorems, FiniteSetTheorems, WellFoundedInduction

-----------------------------------------------------------------------------
(* Lists and records of unknown contents.                                  *)

Members(q) == {q[i] : i \in DOMAIN q}
IsList(q) == q \in Seq(Members(q))
HasFields(r, F) == DOMAIN r = F /\ r = [f \in DOMAIN r |-> r[f]]

ActFields == {"this", "secure", "inner", "s", "ntrigger", "strigger", "at", "jumps", "why",
              "mark", "type"}
LevelFields == {"traps", "jump", "varflag", "digits", "fuzz", "form", "env", "prev_env"}
TrapFields == {"on", "delayed", "signal", "name"}
MachineFields == {"nstack", "stack", "callstack", "acts", "levels", "nextsig", "iter", "ended"}
IsAct(a) == HasFields(a, ActFields)
IsTraps(t) == HasFields(t, Conditions) /\ \A c \in Conditions : HasFields(t[c], TrapFields)
IsLevel(l) == HasFields(l, LevelFields) /\ IsTraps(l.traps)
IsMachine(m) == HasFields(m, MachineFields)

LEMMA ListOf ==
  ASSUME NEW S, NEW q \in Seq(S)
  PROVE  IsList(q) /\ Len(q) \in Nat /\ DOMAIN q = 1 .. Len(q)
<1>1. Len(q) \in Nat /\ DOMAIN q = 1 .. Len(q)
    OBVIOUS
<1>2. \A i \in 1 .. Len(q) : q[i] \in Members(q)
    BY <1>1 DEF Members
<1>3. q = [i \in 1 .. Len(q) |-> q[i]]
    OBVIOUS
<1> HIDE DEF Members
<1>4. [i \in 1 .. Len(q) |-> q[i]] \in Seq(Members(q))
    BY <1>1, <1>2
<1> QED  BY <1>1, <1>3, <1>4 DEF IsList

LEMMA ListLen ==
  ASSUME NEW q, IsList(q)
  PROVE  Len(q) \in Nat /\ DOMAIN q = 1 .. Len(q) /\ (q = <<>> <=> Len(q) = 0)
BY DEF IsList

LEMMA ListAppend ==
  ASSUME NEW q, IsList(q), NEW e
  PROVE  LET r == Append(q, e)
         IN  IsList(r) /\ Len(r) = Len(q) + 1 /\ r[Len(r)] = e /\ \A i \in 1 .. Len(q) : r[i] = q[i]
BY DEF IsList, Members

Put(q, k, e) == [q EXCEPT ![k] = e]
LEMMA ListPut ==
  ASSUME NEW q, IsList(q), NEW e, NEW k \in 1 .. Len(q)
  PROVE  LET r == Put(q, k, e)
         IN  IsList(r) /\ Len(r) = Len(q) /\ r[k] = e /\ \A i \in 1 .. Len(q) : i # k => r[i] = q[i]
<1> DEFINE S == Members(q) \cup {e}
           r == [q EXCEPT ![k] = e]
<1>1. q \in Seq(Members(q))
    BY DEF IsList
<1>2. q \in Seq(S)
  <2> DEFINE T == Members(q)
  <2>1. q \in Seq(T) /\ T \subseteq S
      BY <1>1
  <2> HIDE DEF T, S
  <2> QED  BY <2>1
<1>3. e \in S
    OBVIOUS
<1> HIDE DEF S
<1>4. r \in Seq(S) /\ Len(r) = Len(q) /\ r[k] = e /\ \A i \in 1 .. Len(q) : i # k => r[i] = q[i]
    BY <1>2, <1>3
<1> HIDE DEF r
<1>5. IsList(r)
    BY <1>4, ListOf
<1> QED  BY <1>4, <1>5 DEF r, Put

LEMMA ListPrefix ==
  ASSUME NEW q, IsList(q), NEW k \in 0 .. Len(q)
  PROVE  LET r == SubSeq(q, 1, k)
         IN  IsList(r) /\ Len(r) = k /\ \A i \in 1 .. k : r[i] = q[i]
<1> DEFINE r == SubSeq(q, 1, k)
           S == Members(q)
<1>1. q \in Seq(S) /\ k \in Nat
    BY DEF IsList
<1> HIDE DEF S
<1>2. \A i \in 1 .. k : q[i] \in S
    BY <1>1
<1>3. /\ r \in Seq(S)
      /\ Len(r) = IF 1 <= k THEN k - 1 + 1 ELSE 0
      /\ \A i \in 1 .. k - 1 + 1 : r[i] = q[1 + i - 1]
    BY <1>1, <1>2, SubSeqProperties
<1> HIDE DEF r
<1>4. r \in Seq(S) /\ Len(r) = k /\ \A i \in 1 .. k : r[i] = q[i]
    BY <1>1, <1>3
<1>5. IsList(r)
    BY <1>4, ListOf
<1> QED  BY <1>4, <1>5 DEF r

LEMMA FieldSet ==
  ASSUME NEW r, NEW F, HasFields(r, F), NEW f \in F, NEW x
  PROVE  LET t == [r EXCEPT ![f] = x]
         IN  HasFields(t, F) /\ t[f] = x /\ \A g \in F : g # f => t[g] = r[g]
BY DEF HasFields

-----------------------------------------------------------------------------
(* The invariant, of a machine.                                            *)

DepthOf(q, i) == Cardinality({j \in 1 .. i : IsRoutine(q[j])})

Shape(m) ==
  /\ IsMachine(m)
  /\ IsList(m.acts) /\ Len(m.acts) > 0 /\ \A i \in 1 .. Len(m.acts) : IsAct(m.acts[i])
  /\ IsList(m.levels) /\ Len(m.levels) > 0 /\ \A k \in 1 .. Len(m.levels) : IsLevel(m.levels[k])
  /\ m.nextsig \in Conditions \cup {"none"}
\* Why interpret() was called, and which calls a condition jumps to.
Called(q) == \A i \in 1 .. Len(q) :
  /\ q[i].why \in IF i = 1 THEN {"main"} ELSE {"call", "function", "interpret", "handler"}
  /\ q[i].jumps <=> i = 1 \/ IsRoutine(q[i])
  /\ q[i].why = "handler" => q[i].type \in Conditions
\* There is a level for every routine, which has a call to jump to.
Leveled(m) ==
  /\ Len(m.levels) = DepthOf(m.acts, Len(m.acts)) + 1
  /\ \A k \in 1 .. Len(m.levels) :
        m.levels[k].jump /\ (m.levels[k].traps["SYNTAX"].on => m.levels[k].traps["SYNTAX"].signal)
Delays(m) ==
  /\ \A i \in 1 .. Len(m.acts) : m.acts[i].why = "handler" =>
        m.levels[DepthOf(m.acts, i)].traps[m.acts[i].type].delayed
  /\ \A k \in 1 .. Len(m.levels) : \A c \in Conditions : m.levels[k].traps[c].delayed =>
        \E i \in 1 .. Len(m.acts) : m.acts[i].why = "handler" /\ m.acts[i].type = c
                                    /\ DepthOf(m.acts, i) <= k
OK(m) == Shape(m) /\ Called(m.acts) /\ Leveled(m) /\ Delays(m)

LEMMA DepthNat ==
  ASSUME NEW q, NEW i \in Nat
  PROVE  DepthOf(q, i) \in Nat /\ IsFiniteSet({j \in 1 .. i : IsRoutine(q[j])})
<1> DEFINE S == {j \in 1 .. i : IsRoutine(q[j])}
<1>1. IsFiniteSet(1 .. i) /\ S \subseteq 1 .. i
    BY FS_Interval
<1> HIDE DEF S
<1>2. IsFiniteSet(S)
    BY <1>1, FS_Subset
<1> QED  BY <1>2, FS_CardinalityType DEF DepthOf, S

LEMMA DepthSame ==
  ASSUME NEW q, NEW r, NEW i, \A j \in 1 .. i : IsRoutine(q[j]) <=> IsRoutine(r[j])
  PROVE  DepthOf(q, i) = DepthOf(r, i)
<1>1. {j \in 1 .. i : IsRoutine(q[j])} = {j \in 1 .. i : IsRoutine(r[j])}
    OBVIOUS
<1> QED  BY <1>1 DEF DepthOf

LEMMA DepthNext ==
  ASSUME NEW q, NEW i \in Nat
  PROVE  DepthOf(q, i + 1) = DepthOf(q, i) + IF IsRoutine(q[i + 1]) THEN 1 ELSE 0
<1> DEFINE S == {j \in 1 .. i : IsRoutine(q[j])}
           T == {j \in 1 .. i + 1 : IsRoutine(q[j])}
<1>1. IsFiniteSet(S) /\ Cardinality(S) \in Nat
    BY DepthNat DEF DepthOf
<1>2. CASE IsRoutine(q[i + 1])
  <2>1. T = S \cup {i + 1} /\ i + 1 \notin S
      BY <1>2
  <2> HIDE DEF S, T
  <2>2. Cardinality(T) = Cardinality(S) + 1
      BY <1>1, <2>1, FS_AddElement
  <2> QED  BY <1>2, <2>2 DEF DepthOf, S, T
<1>3. CASE ~IsRoutine(q[i + 1])
  <2>1. T = S
      BY <1>3
  <2> HIDE DEF S, T
  <2> QED  BY <1>1, <1>3, <2>1 DEF DepthOf, S, T
<1> QED  BY <1>2, <1>3

LEMMA DepthLess ==
  ASSUME NEW q, NEW n \in Nat, NEW i \in 0 .. n
  PROVE  DepthOf(q, i) <= DepthOf(q, n)
<1> DEFINE S == {j \in 1 .. i : IsRoutine(q[j])}
           T == {j \in 1 .. n : IsRoutine(q[j])}
<1>1. IsFiniteSet(T) /\ S \subseteq T
    BY DepthNat
<1> HIDE DEF S, T
<1>2. Cardinality(S) <= Cardinality(T)
    BY <1>1, FS_Subset
<1> QED  BY <1>2 DEF DepthOf, S, T

LEMMA DepthRange ==
  ASSUME NEW q, NEW n \in Nat, NEW i \in 1 .. n, IsRoutine(q[i])
  PROVE  DepthOf(q, i) \in 1 .. DepthOf(q, n)
<1>1. i - 1 \in Nat /\ i \in 0 .. n /\ i - 1 + 1 = i
    OBVIOUS
<1>2. DepthOf(q, i) = DepthOf(q, i - 1) + 1
    BY <1>1, DepthNext
<1>3. DepthOf(q, i - 1) \in Nat /\ DepthOf(q, i) <= DepthOf(q, n) /\ DepthOf(q, n) \in Nat
    BY <1>1, DepthNat, DepthLess
<1> QED  BY <1>2, <1>3

\* Machine n is m but for what the invariant does not look at, and for calls that are over
\* and are not those of routines.
Like(n, m) ==
  /\ IsMachine(n)
  /\ IsList(n.acts) /\ Len(n.acts) > 0 /\ Len(n.acts) <= Len(m.acts)
  /\ \A i \in 1 .. Len(n.acts) :
        IsAct(n.acts[i]) /\ n.acts[i].why = m.acts[i].why /\ n.acts[i].type = m.acts[i].type
        /\ (n.acts[i].jumps <=> m.acts[i].jumps)
  /\ \A i \in 1 .. Len(m.acts) : IsRoutine(m.acts[i]) => i <= Len(n.acts)
  /\ IsList(n.levels) /\ Len(n.levels) = Len(m.levels)
  /\ \A k \in 1 .. Len(m.levels) :
        /\ k < Len(m.levels) => n.levels[k] = m.levels[k]
        /\ IsLevel(n.levels[k])
        /\ n.levels[k].jump
        /\ n.levels[k].traps["SYNTAX"].on => n.levels[k].traps["SYNTAX"].signal
        /\ \A c \in Conditions : n.levels[k].traps[c].delayed => m.levels[k].traps[c].delayed
  /\ n.nextsig \in Conditions \cup {"none"}

LEMMA Sizes ==
  ASSUME NEW m, Shape(m)
  PROVE  /\ Len(m.acts) \in Nat /\ Len(m.acts) > 0 /\ Len(m.acts) \in 1 .. Len(m.acts)
         /\ Len(m.levels) \in Nat /\ Len(m.levels) > 0 /\ Len(m.levels) \in 1 .. Len(m.levels)
         /\ IsList(m.acts) /\ IsList(m.levels) /\ IsMachine(m)
         /\ IsAct(Top(m)) /\ Top(m) = m.acts[Len(m.acts)]
         /\ IsLevel(Level(m)) /\ Level(m) = m.levels[Len(m.levels)]
         /\ DOMAIN m.acts = 1 .. Len(m.acts) /\ DOMAIN m.levels = 1 .. Len(m.levels)
BY ListLen DEF Shape, Top, Level, Last

LEMMA LikeOK ==
  ASSUME NEW m, OK(m), NEW n, Like(n, m)
  PROVE  OK(n)
<1> DEFINE a == Len(m.acts)
           b == Len(n.acts)
           v == Len(m.levels)
<1>1. Shape(m) /\ Called(m.acts) /\ Leveled(m) /\ Delays(m)
    BY DEF OK
<1>2. a \in Nat /\ b \in Nat /\ 0 < b /\ b <= a /\ v \in Nat /\ v > 0 /\ Len(n.levels) = v
    BY <1>1, Sizes, ListLen DEF Like
<1>3. v = DepthOf(m.acts, a) + 1
    BY <1>1 DEF Leveled
<1>4. \A i \in 1 .. b : IsRoutine(n.acts[i]) <=> IsRoutine(m.acts[i])
    BY DEF Like, IsRoutine
<1>5. \A i \in 1 .. a : IsRoutine(m.acts[i]) => i <= b
    BY DEF Like
<1> HIDE DEF a, b, v
<1>6. Shape(n)
    BY <1>1, <1>2 DEF Like, Shape, b, v
<1>7. Called(n.acts)
    BY <1>1, <1>2, <1>4, SMTT(30) DEF Like, Called, a, b
<1>8. ASSUME NEW i \in 0 .. b  PROVE DepthOf(n.acts, i) = DepthOf(m.acts, i)
  <2>1. \A j \in 1 .. i : IsRoutine(n.acts[j]) <=> IsRoutine(m.acts[j])
      BY <1>2, <1>4
  <2> QED  BY <2>1, DepthSame
<1>9. DepthOf(m.acts, b) = DepthOf(m.acts, a)
  <2>1. {j \in 1 .. b : IsRoutine(m.acts[j])} = {j \in 1 .. a : IsRoutine(m.acts[j])}
      BY <1>2, <1>5
  <2> QED  BY <2>1 DEF DepthOf
<1>10. DepthOf(n.acts, b) = DepthOf(m.acts, a)
    BY <1>2, <1>8, <1>9
<1>11. Leveled(n)
    BY <1>2, <1>3, <1>10 DEF Leveled, Like, b, v
<1>12. ASSUME NEW i \in 1 .. b, n.acts[i].why = "handler"
       PROVE  n.levels[DepthOf(n.acts, i)].traps[n.acts[i].type].delayed
  <2>1. m.acts[i].why = "handler" /\ n.acts[i].type = m.acts[i].type /\ i \in 1 .. a
      BY <1>2, <1>12 DEF Like, b
  <2>2. DepthOf(m.acts, i) \in 1 .. DepthOf(m.acts, a) /\ DepthOf(m.acts, a) \in Nat
      BY <1>2, <2>1, DepthRange, DepthNat DEF IsRoutine
  <2>3. DepthOf(m.acts, i) \in 1 .. v /\ DepthOf(m.acts, i) < v
      BY <1>2, <1>3, <2>2
  <2>4. n.levels[DepthOf(m.acts, i)] = m.levels[DepthOf(m.acts, i)]
      BY <2>3 DEF Like, v
  <2>5. DepthOf(n.acts, i) = DepthOf(m.acts, i)
      BY <1>2, <1>8
  <2> QED  BY <1>1, <2>1, <2>4, <2>5 DEF Delays, a
<1>13. ASSUME NEW k \in 1 .. v, NEW c \in Conditions, n.levels[k].traps[c].delayed
       PROVE  \E i \in 1 .. b : n.acts[i].why = "handler" /\ n.acts[i].type = c
                                /\ DepthOf(n.acts, i) <= k
  <2>1. m.levels[k].traps[c].delayed
      BY <1>13 DEF Like, v
  <2>2. PICK i \in 1 .. a : m.acts[i].why = "handler" /\ m.acts[i].type = c
                           /\ DepthOf(m.acts, i) <= k
      BY <1>1, <2>1 DEF Delays, a, v
  <2>3. i \in 1 .. b
      BY <1>2, <1>5, <2>2 DEF IsRoutine
  <2>4. DepthOf(n.acts, i) = DepthOf(m.acts, i)
      BY <1>2, <1>8, <2>3
  <2> QED  BY <2>2, <2>3, <2>4 DEF Like, b
<1>14. Delays(n)
    BY <1>2, <1>12, <1>13 DEF Delays, b, v
<1> QED  BY <1>6, <1>7, <1>11, <1>14 DEF OK

LEMMA Alike ==
  ASSUME NEW m, OK(m)
  PROVE  Like(m, m)
<1>1. Shape(m) /\ Leveled(m)
    BY DEF OK
<1>2. Len(m.acts) \in Nat /\ Len(m.acts) > 0
    BY <1>1, Sizes
<1> QED  BY <1>1, <1>2 DEF Like, Shape, Leveled

-----------------------------------------------------------------------------
(* The operations of the machine.                                          *)

LEMMA FieldsOK ==
  ASSUME NEW m, OK(m), NEW x
  PROVE  /\ OK([m EXCEPT !.nstack = x]) /\ (Away([m EXCEPT !.nstack = x]) <=> Away(m))
         /\ OK([m EXCEPT !.stack = x]) /\ (Away([m EXCEPT !.stack = x]) <=> Away(m))
         /\ OK([m EXCEPT !.callstack = x]) /\ (Away([m EXCEPT !.callstack = x]) <=> Away(m))
         /\ OK([m EXCEPT !.iter = x]) /\ (Away([m EXCEPT !.iter = x]) <=> Away(m))
         /\ OK([m EXCEPT !.ended = x]) /\ (x # "no" => Away([m EXCEPT !.ended = x]))
         /\ x \in Conditions \cup {"none"} => OK([m EXCEPT !.nextsig = x])
         /\ Away([m EXCEPT !.nextsig = x]) <=> Away(m)
<1>1. IsMachine(m) /\ Like(m, m)
    BY Alike DEF OK, Shape
<1> DEFINE Of(n) == /\ IsMachine(n) /\ n.acts = m.acts /\ n.levels = m.levels
                    /\ n.nextsig \in Conditions \cup {"none"}
<1>2. ASSUME NEW n, Of(n)  PROVE OK(n)
  <2>1. Like(n, m)
      BY <1>1, <1>2 DEF Like
  <2> QED  BY <2>1, LikeOK
<1>3. m.nextsig \in Conditions \cup {"none"}
    BY <1>1 DEF Like
<1>4. ASSUME NEW n, n.acts = m.acts, n.ended = m.ended  PROVE Away(n) <=> Away(m)
    BY <1>4 DEF Away, Top
<1> DEFINE n1 == [m EXCEPT !.nstack = x]
           n2 == [m EXCEPT !.stack = x]
           n3 == [m EXCEPT !.callstack = x]
           n4 == [m EXCEPT !.iter = x]
           n5 == [m EXCEPT !.ended = x]
           n6 == [m EXCEPT !.nextsig = x]
<1>5. /\ Of(n1) /\ Of(n2) /\ Of(n3) /\ Of(n4) /\ Of(n5)
      /\ n1.acts = m.acts /\ n2.acts = m.acts /\ n3.acts = m.acts /\ n4.acts = m.acts
      /\ n1.ended = m.ended /\ n2.ended = m.ended /\ n3.ended = m.ended /\ n4.ended = m.ended
      /\ n5.ended = x
      /\ x \in Conditions \cup {"none"} => Of(n6)
      /\ n6.acts = m.acts /\ n6.ended = m.ended
  <2> DEFINE Set(n) == /\ IsMachine(n) /\ n.nextsig = m.nextsig /\ n.acts = m.acts
                      /\ n.levels = m.levels
  <2>1. Set(n1) /\ n1.ended = m.ended
      BY <1>1 DEF IsMachine, MachineFields, HasFields
  <2>2. Set(n2) /\ n2.ended = m.ended
      BY <1>1 DEF IsMachine, MachineFields, HasFields
  <2>3. Set(n3) /\ n3.ended = m.ended
      BY <1>1 DEF IsMachine, MachineFields, HasFields
  <2>4. Set(n4) /\ n4.ended = m.ended
      BY <1>1 DEF IsMachine, MachineFields, HasFields
  <2>5. Set(n5) /\ n5.ended = x
      BY <1>1 DEF IsMachine, MachineFields, HasFields
  <2>6. IsMachine(n6) /\ n6.nextsig = x /\ n6.acts = m.acts /\ n6.levels = m.levels
        /\ n6.ended = m.ended
      BY <1>1 DEF IsMachine, MachineFields, HasFields
  <2> HIDE DEF n1, n2, n3, n4, n5, n6
  <2> QED  BY <1>3, <2>1, <2>2, <2>3, <2>4, <2>5, <2>6
<1> HIDE DEF n1, n2, n3, n4, n5, n6, Of
<1>6. OK(n1) /\ OK(n2) /\ OK(n3) /\ OK(n4) /\ OK(n5) /\ (x \in Conditions \cup {"none"} => OK(n6))
    BY <1>2, <1>5
<1>7. (Away(n1) <=> Away(m)) /\ (Away(n2) <=> Away(m)) /\ (Away(n3) <=> Away(m))
      /\ (Away(n4) <=> Away(m)) /\ (Away(n6) <=> Away(m))
    BY <1>4, <1>5
<1>8. x # "no" => Away(n5)
    BY <1>5 DEF Away
<1> QED  BY <1>6, <1>7, <1>8 DEF n1, n2, n3, n4, n5, n6

LEMMA TopOK ==
  ASSUME NEW m, OK(m), NEW a, IsAct(a), a.why = Top(m).why, a.type = Top(m).type,
         a.jumps <=> Top(m).jumps
  PROVE  LET n == [m EXCEPT !.acts[Len(m.acts)] = a]
         IN  OK(n) /\ Top(n) = a /\ n.ended = m.ended /\ n.nextsig = m.nextsig
             /\ n.levels = m.levels /\ Len(n.acts) = Len(m.acts)
             /\ (Away(n) <=> m.ended # "no" \/ a.at # "reinterpret")
<1> DEFINE q == [m.acts EXCEPT ![Len(m.acts)] = a]
           n == [m EXCEPT !.acts = q]
<1>1. n = [m EXCEPT !.acts[Len(m.acts)] = a]
    OBVIOUS
<1>2. Shape(m) /\ Like(m, m)
    BY Alike DEF OK
<1>3. IsList(m.acts) /\ Len(m.acts) \in 1 .. Len(m.acts) /\ Len(m.acts) > 0
      /\ Top(m) = m.acts[Len(m.acts)]
    BY <1>2, Sizes
<1>4. IsList(q) /\ Len(q) = Len(m.acts) /\ q[Len(m.acts)] = a
      /\ \A i \in 1 .. Len(m.acts) : i # Len(m.acts) => q[i] = m.acts[i]
  <2>1. q = Put(m.acts, Len(m.acts), a)
      BY DEF Put
  <2> HIDE DEF q
  <2> QED  BY <1>3, <2>1, ListPut
<1> HIDE DEF q
<1>5. IsMachine(n) /\ n.acts = q /\ n.levels = m.levels /\ n.nextsig = m.nextsig
      /\ n.ended = m.ended
  <2>1. IsMachine(m)
      BY <1>2 DEF Shape
  <2> QED  BY <2>1 DEF IsMachine, MachineFields, HasFields
<1> HIDE DEF n
<1>6. Like(n, m)
    BY <1>2, <1>3, <1>4, <1>5 DEF Like
<1>7. OK(n)
    BY <1>6, LikeOK
<1>8. Top(n) = a
    BY <1>4, <1>5 DEF Top, Last
<1> QED  BY <1>1, <1>4, <1>5, <1>7, <1>8 DEF Away

LEMMA TopFields ==
  ASSUME NEW m, OK(m), NEW x
  PROVE  /\ LET n == [m EXCEPT !.acts[Len(m.acts)].this = x]
            IN OK(n) /\ (Away(n) <=> Away(m)) /\ n.nextsig = m.nextsig
         /\ LET n == [m EXCEPT !.acts[Len(m.acts)].secure = x] IN OK(n) /\ (Away(n) <=> Away(m))
         /\ LET n == [m EXCEPT !.acts[Len(m.acts)].inner = x] IN OK(n) /\ (Away(n) <=> Away(m))
         /\ LET n == [m EXCEPT !.acts[Len(m.acts)].s = x] IN OK(n) /\ (Away(n) <=> Away(m))
         /\ LET n == [m EXCEPT !.acts[Len(m.acts)].at = x]
            IN OK(n) /\ (Away(n) <=> m.ended # "no" \/ x # "reinterpret")
               /\ n.levels = m.levels /\ n.nextsig = m.nextsig
<1> DEFINE a == m.acts[Len(m.acts)]
           a1 == [a EXCEPT !.this = x]
           a2 == [a EXCEPT !.secure = x]
           a3 == [a EXCEPT !.inner = x]
           a4 == [a EXCEPT !.s = x]
           a5 == [a EXCEPT !.at = x]
           Is(b) == IsAct(b) /\ b.why = a.why /\ b.type = a.type /\ b.jumps = a.jumps
<1>1. IsAct(a) /\ a = Top(m)
    BY Sizes DEF OK
<1>2. Is(a1) /\ Is(a2) /\ Is(a3) /\ Is(a4) /\ Is(a5)
      /\ a1.at = a.at /\ a2.at = a.at /\ a3.at = a.at /\ a4.at = a.at /\ a5.at = x
  <2>1. DOMAIN a = ActFields /\ a = [f \in DOMAIN a |-> a[f]]
      BY <1>1 DEF IsAct, HasFields
  <2> HIDE DEF a
  <2>2. Is(a1) /\ a1.at = a.at
      BY <2>1 DEF IsAct, ActFields, HasFields
  <2>3. Is(a2) /\ a2.at = a.at
      BY <2>1 DEF IsAct, ActFields, HasFields
  <2>4. Is(a3) /\ a3.at = a.at
      BY <2>1 DEF IsAct, ActFields, HasFields
  <2>5. Is(a4) /\ a4.at = a.at
      BY <2>1 DEF IsAct, ActFields, HasFields
  <2>6. Is(a5) /\ a5.at = x
      BY <2>1 DEF IsAct, ActFields, HasFields
  <2> QED  BY <2>2, <2>3, <2>4, <2>5, <2>6
<1>3. /\ [m EXCEPT !.acts[Len(m.acts)].this = x] = [m EXCEPT !.acts[Len(m.acts)] = a1]
      /\ [m EXCEPT !.acts[Len(m.acts)].secure = x] = [m EXCEPT !.acts[Len(m.acts)] = a2]
      /\ [m EXCEPT !.acts[Len(m.acts)].inner = x] = [m EXCEPT !.acts[Len(m.acts)] = a3]
      /\ [m EXCEPT !.acts[Len(m.acts)].s = x] = [m EXCEPT !.acts[Len(m.acts)] = a4]
      /\ [m EXCEPT !.acts[Len(m.acts)].at = x] = [m EXCEPT !.acts[Len(m.acts)] = a5]
    OBVIOUS
<1> DEFINE N(b) == [m EXCEPT !.acts[Len(m.acts)] = b]
<1> HIDE DEF a1, a2, a3, a4, a5, a
<1>4. ASSUME NEW b, Is(b)
      PROVE  OK(N(b)) /\ (Away(N(b)) <=> m.ended # "no" \/ b.at # "reinterpret")
             /\ N(b).levels = m.levels /\ N(b).nextsig = m.nextsig
    BY <1>1, <1>4, TopOK
<1>5. Away(m) <=> m.ended # "no" \/ a.at # "reinterpret"
    BY <1>1 DEF Away
<1> HIDE DEF N, Is
<1>6. /\ OK(N(a1)) /\ (Away(N(a1)) <=> Away(m)) /\ N(a1).nextsig = m.nextsig
      /\ OK(N(a2)) /\ (Away(N(a2)) <=> Away(m))
      /\ OK(N(a3)) /\ (Away(N(a3)) <=> Away(m))
      /\ OK(N(a4)) /\ (Away(N(a4)) <=> Away(m))
      /\ OK(N(a5)) /\ (Away(N(a5)) <=> m.ended # "no" \/ x # "reinterpret")
      /\ N(a5).levels = m.levels /\ N(a5).nextsig = m.nextsig
    BY <1>2, <1>4, <1>5
<1> QED  BY <1>3, <1>6 DEF N

\* A level whose conditions are delayed less, in the place of the innermost one.
LessDelayed(l, k) ==
  /\ IsLevel(l) /\ l.jump /\ (l.traps["SYNTAX"].on => l.traps["SYNTAX"].signal)
  /\ \A c \in Conditions : l.traps[c].delayed => k.traps[c].delayed

LEMMA LevelOK ==
  ASSUME NEW m, OK(m), NEW l, LessDelayed(l, Level(m))
  PROVE  LET n == Setting(m, l)
         IN  OK(n) /\ Level(n) = l /\ n.acts = m.acts /\ n.nextsig = m.nextsig
             /\ (Away(n) <=> Away(m))
<1> DEFINE q == Put(m.levels, Len(m.levels), l)
           n == [m EXCEPT !.levels = q]
<1>1. n = Setting(m, l)
    BY DEF Setting, Put
<1>2. Shape(m) /\ Like(m, m)
    BY Alike DEF OK
<1>3. IsList(m.levels) /\ Len(m.levels) \in 1 .. Len(m.levels) /\ Len(m.levels) > 0
      /\ Level(m) = m.levels[Len(m.levels)] /\ Len(m.levels) \in Nat
    BY <1>2, Sizes
<1>4. IsList(q) /\ Len(q) = Len(m.levels) /\ q[Len(m.levels)] = l
      /\ \A i \in 1 .. Len(m.levels) : i # Len(m.levels) => q[i] = m.levels[i]
    BY <1>3, ListPut
<1> HIDE DEF q
<1>5. IsMachine(n) /\ n.acts = m.acts /\ n.levels = q /\ n.nextsig = m.nextsig
      /\ n.ended = m.ended
  <2>1. IsMachine(m)
      BY <1>2 DEF Shape
  <2> QED  BY <2>1 DEF IsMachine, MachineFields, HasFields
<1> HIDE DEF n
<1>6. Like(n, m)
  <2>1. ASSUME NEW k \in 1 .. Len(m.levels)
        PROVE  /\ k < Len(m.levels) => n.levels[k] = m.levels[k]
               /\ IsLevel(n.levels[k])
               /\ n.levels[k].jump
               /\ n.levels[k].traps["SYNTAX"].on => n.levels[k].traps["SYNTAX"].signal
               /\ \A c \in Conditions : n.levels[k].traps[c].delayed => m.levels[k].traps[c].delayed
    <3>1. CASE k = Len(m.levels)
        BY <1>3, <1>4, <1>5, <3>1 DEF LessDelayed
    <3>2. CASE k # Len(m.levels)
        BY <1>2, <1>3, <1>4, <1>5, <3>2 DEF Like
    <3> QED  BY <3>1, <3>2
  <2> QED  BY <1>2, <1>4, <1>5, <2>1 DEF Like
<1>7. OK(n)
    BY <1>6, LikeOK
<1>8. Level(n) = l
    BY <1>4, <1>5 DEF Level, Last
<1>9. Away(n) <=> Away(m)
    BY <1>5 DEF Away, Top
<1> QED  BY <1>1, <1>5, <1>7, <1>8, <1>9

\* A trap is set on a level.
LEMMA TrapSet ==
  ASSUME NEW l, IsLevel(l), l.jump, l.traps["SYNTAX"].on => l.traps["SYNTAX"].signal,
         NEW type \in Conditions, NEW u, HasFields(u, TrapFields),
         u.delayed => l.traps[type].delayed, type = "SYNTAX" /\ u.on => u.signal
  PROVE  LET k == [l EXCEPT !.traps[type] = u] IN LessDelayed(k, l) /\ k.traps[type] = u
<1> DEFINE tt == [l.traps EXCEPT ![type] = u]
           k == [l EXCEPT !.traps = tt]
<1>1. k = [l EXCEPT !.traps[type] = u]
    OBVIOUS
<1>2. HasFields(l, LevelFields) /\ HasFields(l.traps, Conditions)
      /\ \A c \in Conditions : HasFields(l.traps[c], TrapFields)
    BY DEF IsLevel, IsTraps
<1>3. HasFields(tt, Conditions) /\ tt[type] = u
      /\ \A c \in Conditions : c # type => tt[c] = l.traps[c]
    BY <1>2 DEF HasFields
<1> HIDE DEF tt
<1>4. ASSUME NEW c \in Conditions
      PROVE  HasFields(tt[c], TrapFields) /\ (tt[c].delayed => l.traps[c].delayed)
  <2>1. CASE c = type
      BY <1>3, <2>1
  <2>2. CASE c # type
      BY <1>2, <1>3, <2>2
  <2> QED  BY <2>1, <2>2
<1>5. tt["SYNTAX"].on => tt["SYNTAX"].signal
  <2>1. CASE type = "SYNTAX"
      BY <1>3, <2>1
  <2>2. CASE type # "SYNTAX"
    <3>1. "SYNTAX" \in Conditions
        BY DEF Conditions
    <3> QED  BY <1>3, <2>2, <3>1
  <2> QED  BY <2>1, <2>2
<1>6. HasFields(k, LevelFields) /\ k.traps = tt /\ k.jump = l.jump
    BY <1>2 DEF HasFields, LevelFields
<1> HIDE DEF k
<1> QED  BY <1>1, <1>3, <1>4, <1>5, <1>6 DEF LessDelayed, IsLevel, IsTraps

LEMMA Delayless ==
  ASSUME NEW l, IsLevel(l), l.jump, l.traps["SYNTAX"].on => l.traps["SYNTAX"].signal,
         NEW type \in Conditions
  PROVE  LET k == [l EXCEPT !.traps[type].delayed = FALSE]
         IN  LessDelayed(k, l) /\ k.traps[type].delayed = FALSE
<1> DEFINE t == l.traps[type]
           u == [t EXCEPT !.delayed = FALSE]
           k == [l EXCEPT !.traps[type] = u]
<1>1. k = [l EXCEPT !.traps[type].delayed = FALSE]
    OBVIOUS
<1>2. HasFields(t, TrapFields) /\ (type = "SYNTAX" /\ t.on => t.signal)
    BY DEF IsLevel, IsTraps
<1>3. HasFields(u, TrapFields) /\ u.delayed = FALSE /\ u.on = t.on /\ u.signal = t.signal
    BY <1>2 DEF HasFields, TrapFields
<1> HIDE DEF u
<1>4. LessDelayed(k, l) /\ k.traps[type] = u
    BY <1>2, <1>3, TrapSet
<1> HIDE DEF k
<1> QED  BY <1>1, <1>3, <1>4

\* The trap of a condition that is signalled is off.
LEMMA TrapOff ==
  ASSUME NEW l, IsLevel(l), l.jump, l.traps["SYNTAX"].on => l.traps["SYNTAX"].signal,
         NEW type \in Conditions
  PROVE  LessDelayed([l EXCEPT !.traps[type].on = FALSE, !.traps[type].delayed = FALSE], l)
<1> DEFINE t == l.traps[type]
           u == [t EXCEPT !.on = FALSE]
           k == [l EXCEPT !.traps[type] = u]
           j == [k EXCEPT !.traps[type].delayed = FALSE]
<1>1. j = [l EXCEPT !.traps[type].on = FALSE, !.traps[type].delayed = FALSE]
    OBVIOUS
<1>2. HasFields(t, TrapFields)
    BY DEF IsLevel, IsTraps
<1>3. HasFields(u, TrapFields) /\ u.delayed = t.delayed /\ ~u.on
    BY <1>2 DEF HasFields, TrapFields
<1> HIDE DEF u
<1>4. LessDelayed(k, l)
    BY <1>3, TrapSet
<1> HIDE DEF k
<1>5. LessDelayed(j, k)
    BY <1>4, Delayless DEF LessDelayed
<1> HIDE DEF j
<1> QED  BY <1>1, <1>4, <1>5 DEF LessDelayed

LEMMA CleanedOK ==
  ASSUME NEW m, OK(m)
  PROVE  OK(Cleaned(m)) /\ (Away(Cleaned(m)) <=> Away(m)) /\ Cleaned(m).nextsig = m.nextsig
<1> DEFINE x == Cut(m.nstack, Top(m).ntrigger)
           n == [m EXCEPT !.nstack = x]
           y == Cut(n.stack, Top(m).strigger)
           p == [n EXCEPT !.stack = y]
<1>1. p = Cleaned(m)
    BY DEF Cleaned
<1>2. OK(n) /\ (Away(n) <=> Away(m))
    BY FieldsOK
<1>3. IsMachine(m)
    BY DEF OK, Shape
<1> HIDE DEF x
<1>4. IsMachine(n) /\ n.nextsig = m.nextsig
    BY <1>3 DEF IsMachine, MachineFields, HasFields
<1> HIDE DEF n, y
<1>5. OK(p) /\ (Away(p) <=> Away(n))
    BY <1>2, FieldsOK
<1>6. p.nextsig = n.nextsig
    BY <1>4 DEF IsMachine, MachineFields, HasFields
<1> QED  BY <1>1, <1>2, <1>4, <1>5, <1>6

\* Of positions in a list one is the last.
LEMMA LastOf ==
  ASSUME NEW n \in Nat, NEW S, S \subseteq 1 .. n, S # {}
  PROVE  \E m \in S : \A j \in S : j <= m
<1> DEFINE T == {n - k : k \in S}
           R == {ss \in Nat \X Nat : ss[1] < ss[2]}
<1>1. T \subseteq Nat /\ T # {}
  <2>1. \A k \in S : n - k \in Nat
      OBVIOUS
  <2> QED  BY <2>1
<1>2. PICK x \in T : \A y \in T : ~(<<y, x>> \in R)
  <2> HIDE DEF T, R
  <2>1. IsWellFoundedOn(R, Nat)
      BY NatLessThanWellFounded DEF R, OpToRel
  <2> QED  BY <1>1, <2>1, WFMin
<1>3. PICK m \in S : x = n - m
    OBVIOUS
<1>4. \A j \in S : j <= m
  <2> SUFFICES ASSUME NEW j \in S, m < j  PROVE FALSE
      OBVIOUS
  <2>1. n - j \in T /\ n - j \in Nat /\ x \in Nat /\ n - j < x
      BY <1>1, <1>3
  <2>2. <<n - j, x>> \in R
      BY <2>1
  <2> QED  BY <1>2, <2>1, <2>2
<1> QED  BY <1>4

LEMMA JumpOK ==
  ASSUME NEW m, OK(m)
  PROVE  OK(jump_rexx_signal(m)) /\ Away(jump_rexx_signal(m))
<1> DEFINE a == Len(m.acts)
           S == {i \in 1 .. a : m.acts[i].jumps}
           Is(i) == i \in DOMAIN m.acts /\ m.acts[i].jumps
                    /\ \A j \in DOMAIN m.acts : m.acts[j].jumps => j <= i
           to == CHOOSE i \in DOMAIN m.acts :
                   m.acts[i].jumps /\ \A j \in DOMAIN m.acts : m.acts[j].jumps => j <= i
           b == m.acts[to]
           b1 == [b EXCEPT !.this = b.secure]
           b2 == [b1 EXCEPT !.inner = Nil]
           b3 == [b2 EXCEPT !.s = NoLoop]
           b4 == [b3 EXCEPT !.at = "fakerecurse"]
           p == SubSeq(m.acts, 1, to - 1)
           q == Append(p, b4)
           n == [m EXCEPT !.acts = q]
<1>1. Shape(m) /\ Called(m.acts) /\ Like(m, m)
    BY Alike DEF OK
<1>2. a \in Nat /\ a > 0 /\ DOMAIN m.acts = 1 .. a /\ IsList(m.acts)
    BY <1>1, Sizes
<1>3. to \in 1 .. a /\ m.acts[to].jumps /\ \A j \in 1 .. a : m.acts[j].jumps => j <= to
  <2>1. 1 \in S /\ S \subseteq 1 .. a
      BY <1>1, <1>2 DEF Called
  <2> HIDE DEF a
  <2>2. PICK k \in S : \A j \in S : j <= k
    <3> HIDE DEF S
    <3>1. S # {}
        BY <2>1
    <3> QED  BY <1>2, <2>1, <3>1, LastOf
  <2>3. k \in DOMAIN m.acts /\ m.acts[k].jumps /\ \A j \in DOMAIN m.acts : m.acts[j].jumps => j <= k
      BY <1>2, <2>2
  <2> HIDE DEF S
  <2>4. to \in DOMAIN m.acts /\ m.acts[to].jumps
        /\ \A j \in DOMAIN m.acts : m.acts[j].jumps => j <= to
      BY <2>3
  <2> HIDE DEF to
  <2> QED  BY <1>2, <2>4
<1> HIDE DEF S, to, Is
<1>4. IsAct(b4) /\ b4.why = b.why /\ b4.type = b.type /\ b4.jumps = b.jumps
      /\ b4.at = "fakerecurse"
  <2>1. IsAct(b)
      BY <1>1, <1>3 DEF Shape
  <2> HIDE DEF b
  <2>2. IsAct(b1) /\ b1.why = b.why /\ b1.type = b.type /\ b1.jumps = b.jumps
      BY <2>1 DEF IsAct, ActFields, HasFields
  <2> HIDE DEF b1
  <2>3. IsAct(b2) /\ b2.why = b.why /\ b2.type = b.type /\ b2.jumps = b.jumps
      BY <2>2 DEF IsAct, ActFields, HasFields
  <2> HIDE DEF b2
  <2>4. IsAct(b3) /\ b3.why = b.why /\ b3.type = b.type /\ b3.jumps = b.jumps
      BY <2>3 DEF IsAct, ActFields, HasFields
  <2> HIDE DEF b3
  <2> QED  BY <2>4 DEF IsAct, ActFields, HasFields
<1>5. b4 = [b EXCEPT !.this = b.secure, !.inner = Nil, !.s = NoLoop, !.at = "fakerecurse"]
    OBVIOUS
<1> HIDE DEF b4
<1>6. IsList(p) /\ Len(p) = to - 1 /\ \A i \in 1 .. to - 1 : p[i] = m.acts[i]
  <2> DEFINE k == to - 1
  <2>1. k \in 0 .. Len(m.acts)
      BY <1>2, <1>3
  <2> HIDE DEF k
  <2>2. LET r == SubSeq(m.acts, 1, k)
        IN  IsList(r) /\ Len(r) = k /\ \A i \in 1 .. k : r[i] = m.acts[i]
      BY <1>2, <2>1, ListPrefix
  <2> QED  BY <2>2 DEF k
<1> HIDE DEF p
<1>7. IsList(q) /\ Len(q) = to /\ q[to] = b4 /\ \A i \in 1 .. to - 1 : q[i] = m.acts[i]
  <2>1. IsList(q) /\ Len(q) = Len(p) + 1 /\ q[Len(q)] = b4 /\ \A i \in 1 .. Len(p) : q[i] = p[i]
      BY <1>6, ListAppend
  <2> HIDE DEF q, a
  <2>2. Len(q) = to
      BY <1>2, <1>3, <1>6, <2>1
  <2> QED  BY <1>2, <1>3, <1>6, <2>1, <2>2
<1> HIDE DEF q
<1>8. IsMachine(n) /\ n.acts = q /\ n.levels = m.levels /\ n.nextsig = m.nextsig
  <2>1. IsMachine(m)
      BY <1>1 DEF Shape
  <2> QED  BY <2>1 DEF IsMachine, MachineFields, HasFields
<1>9. Cleaned(n) = jump_rexx_signal(m)
    BY <1>5 DEF jump_rexx_signal, to, q, p
<1> HIDE DEF n
<1>10. Like(n, m)
  <2>1. ASSUME NEW i \in 1 .. to
        PROVE  IsAct(q[i]) /\ q[i].why = m.acts[i].why /\ q[i].type = m.acts[i].type
               /\ (q[i].jumps <=> m.acts[i].jumps)
    <3>1. CASE i = to
        BY <1>4, <1>7, <3>1
    <3>2. CASE i # to
      <4> HIDE DEF a
      <4>1. i \in 1 .. to - 1 /\ i \in 1 .. a
          BY <1>2, <1>3, <3>2
      <4>2. IsAct(m.acts[i])
          BY <1>1, <4>1 DEF Shape, a
      <4> QED  BY <1>7, <4>1, <4>2
    <3> QED  BY <3>1, <3>2
  <2>2. ASSUME NEW i \in 1 .. a, IsRoutine(m.acts[i])  PROVE i <= to
      BY <1>1, <1>3, <2>2 DEF Called
  <2>3. to \in Nat /\ to > 0 /\ to <= a
      BY <1>2, <1>3
  <2> QED  BY <1>1, <1>7, <1>8, <2>1, <2>2, <2>3 DEF Like
<1>11. OK(n)
    BY <1>10, LikeOK
<1>12. Away(n)
    BY <1>4, <1>7, <1>8 DEF Away, Top, Last
<1> QED  BY <1>9, <1>11, <1>12, CleanedOK

\* A condition that is raised leaves the clause, or only waits for its end.
LEMMA HookOK ==
  ASSUME NEW m, OK(m), NEW type \in Conditions
  PROVE  LET n == condition_hook(m, type)
         IN  /\ OK(n)
             /\ Away(n) \/ (n.acts = m.acts /\ n.ended = m.ended /\ n.levels = m.levels)
             /\ type = "SYNTAX" => Away(n)
<1> DEFINE t == Level(m).traps[type]
           l == [Level(m) EXCEPT !.traps[type].delayed = FALSE]
           n1 == [m EXCEPT !.nextsig = type]
           n2 == Setting(n1, l)
<1>1. IsMachine(m) /\ Shape(m) /\ Leveled(m)
    BY DEF OK, Shape
<1>2. IsLevel(Level(m)) /\ Level(m).jump
      /\ (Level(m).traps["SYNTAX"].on => Level(m).traps["SYNTAX"].signal)
    BY <1>1, Sizes DEF Leveled
<1>3. LessDelayed(l, Level(m))
    BY <1>2, Delayless
<1>4. OK(n1) /\ n1.acts = m.acts /\ n1.ended = m.ended /\ n1.levels = m.levels
  <2>1. OK(n1)
      BY FieldsOK
  <2> QED  BY <1>1, <2>1 DEF IsMachine, MachineFields, HasFields
<1>5. Level(n1) = Level(m)
    BY <1>4 DEF Level
<1>6. n2 = [m EXCEPT !.nextsig = type, !.levels[Len(m.levels)].traps[type].delayed = FALSE]
    BY <1>4 DEF Setting, Level, Last
<1> HIDE DEF l, n1
<1>7. OK(n2)
    BY <1>3, <1>4, <1>5, LevelOK
<1>8. OK(jump_rexx_signal(n2)) /\ Away(jump_rexx_signal(n2))
  <2> HIDE DEF n2
  <2> QED  BY <1>7, JumpOK
<1>9. OK(Died(m)) /\ Away(Died(m))
    BY FieldsOK DEF Died
<1>10. condition_hook(m, type) =
        IF ~t.on THEN IF default_action[type] THEN m ELSE Died(m)
        ELSE IF t.delayed /\ default_ignore[type] THEN m
        ELSE IF t.signal THEN jump_rexx_signal(n2) ELSE n1
    BY <1>6 DEF condition_hook, n1
<1>11. ~default_action["SYNTAX"] /\ ~default_ignore["SYNTAX"]
    BY DEF default_action, default_ignore, Conditions
<1> HIDE DEF n2
<1> QED  BY <1>2, <1>4, <1>8, <1>9, <1>10, <1>11

LEMMA ExiterrorOK ==
  ASSUME NEW m, OK(m)
  PROVE  OK(exiterror(m)) /\ Away(exiterror(m))
<1>1. "SYNTAX" \in Conditions
    BY DEF Conditions
<1> QED  BY <1>1, HookOK DEF exiterror

LEMMA EvaluateOK ==
  ASSUME NEW m, OK(m), NEW raised \in Conditions \cup {"none"}
  PROVE  LET n == Evaluate(m, raised)
         IN  /\ OK(n)
             /\ Away(n) \/ (n.acts = m.acts /\ n.ended = m.ended /\ n.levels = m.levels)
<1>1. CASE raised = "none"
    BY <1>1 DEF Evaluate
<1>2. CASE raised # "none"
    BY <1>2, HookOK DEF Evaluate
<1> QED  BY <1>1, <1>2

-----------------------------------------------------------------------------
(* interpret() is called, and returns.                                     *)

LEMMA NewLevel ==
  ASSUME NEW m, Shape(m)
  PROVE  LET n == pushcallstack(newlevel(m))
         IN  /\ Shape(n) /\ n.acts = m.acts /\ n.nextsig = m.nextsig /\ n.ended = m.ended
             /\ Len(n.levels) = Len(m.levels) + 1
             /\ \A k \in 1 .. Len(m.levels) : n.levels[k] = m.levels[k]
             /\ Level(n).traps = Level(m).traps /\ Level(n).jump = FALSE
<1> DEFINE l == [Level(m) EXCEPT !.jump = FALSE]
           l2 == [l EXCEPT !.varflag = FALSE]
           q == Append(m.levels, l2)
           n1 == [m EXCEPT !.levels = q]
           x == n1.callstack + 1
           n == [n1 EXCEPT !.callstack = x]
<1>1. IsMachine(m) /\ IsLevel(Level(m)) /\ IsList(m.levels) /\ Len(m.levels) \in Nat
    BY Sizes
<1>2. n = pushcallstack(newlevel(m))
    BY DEF pushcallstack, newlevel
<1>3. IsLevel(l2) /\ l2.traps = Level(m).traps /\ l2.jump = FALSE
  <2>1. IsLevel(l) /\ l.traps = Level(m).traps /\ l.jump = FALSE
      BY <1>1 DEF IsLevel, HasFields, LevelFields
  <2> HIDE DEF l
  <2> QED  BY <2>1 DEF IsLevel, HasFields, LevelFields
<1> HIDE DEF l2
<1>4. IsList(q) /\ Len(q) = Len(m.levels) + 1 /\ q[Len(q)] = l2
      /\ \A k \in 1 .. Len(m.levels) : q[k] = m.levels[k]
    BY <1>1, ListAppend
<1> HIDE DEF q
<1>5. IsMachine(n1) /\ n1.acts = m.acts /\ n1.nextsig = m.nextsig /\ n1.ended = m.ended
      /\ n1.levels = q
    BY <1>1 DEF IsMachine, MachineFields, HasFields
<1> HIDE DEF n1, x
<1>6. IsMachine(n) /\ n.acts = m.acts /\ n.nextsig = m.nextsig /\ n.ended = m.ended
      /\ n.levels = q
    BY <1>5 DEF IsMachine, MachineFields, HasFields
<1> HIDE DEF n
<1>7. \A k \in 1 .. Len(q) : IsLevel(q[k])
  <2> SUFFICES ASSUME NEW k \in 1 .. Len(q)  PROVE IsLevel(q[k])
      OBVIOUS
  <2>1. CASE k = Len(q)
      BY <1>3, <1>4, <2>1
  <2>2. CASE k # Len(q)
    <3>1. k \in 1 .. Len(m.levels)
        BY <1>1, <1>4, <2>2
    <3> QED  BY <1>4, <3>1 DEF Shape
  <2> QED  BY <2>1, <2>2
<1>8. Shape(n)
    BY <1>1, <1>4, <1>6, <1>7 DEF Shape
<1>9. Level(n) = l2
    BY <1>4, <1>6 DEF Level, Last
<1> QED  BY <1>2, <1>3, <1>4, <1>6, <1>8, <1>9

LEMMA Entering ==
  ASSUME NEW m, Shape(m), NEW to, NEW why, NEW mark
  PROVE  LET n == Enter(m, to, why, mark)
         IN  /\ Shape(n) /\ n.nextsig = m.nextsig /\ n.ended = m.ended
             /\ Len(n.acts) = Len(m.acts) + 1
             /\ \A i \in 1 .. Len(m.acts) :
                   n.acts[i].why = m.acts[i].why /\ n.acts[i].type = m.acts[i].type
                   /\ n.acts[i].jumps = m.acts[i].jumps
             /\ Top(n).why = why /\ (Top(n).jumps <=> ~Level(m).jump)
             /\ Len(n.levels) = Len(m.levels)
             /\ \A k \in 1 .. Len(m.levels) :
                   /\ k < Len(m.levels) => n.levels[k] = m.levels[k]
                   /\ n.levels[k].traps = m.levels[k].traps
             /\ Level(n).jump
<1> DEFINE a == Len(m.acts)
           v == Len(m.levels)
           old == [m.acts[a] EXCEPT !.at = "waits"]
           p == Put(m.acts, a, old)
           new == Activation(to, why, mark)
           x == Len(m.nstack)
           y == Len(m.stack)
           z == ~Level(m).jump
           b1 == [new EXCEPT !.ntrigger = x]
           b2 == [b1 EXCEPT !.strigger = y]
           b == [b2 EXCEPT !.jumps = z]
           q == Append(p, b)
           n1 == [m EXCEPT !.acts = q]
           l == [m.levels[v] EXCEPT !.jump = TRUE]
           r == Put(m.levels, v, l)
           n == [n1 EXCEPT !.levels = r]
<1>1. /\ IsMachine(m) /\ IsList(m.acts) /\ IsList(m.levels)
      /\ a \in Nat /\ a > 0 /\ a \in 1 .. a /\ v \in Nat /\ v > 0 /\ v \in 1 .. v
    BY Sizes
<1>2. n = Enter(m, to, why, mark)
  <2>1. n1.levels = m.levels
      BY <1>1 DEF IsMachine, MachineFields, HasFields
  <2> QED  BY <2>1 DEF Enter, Put
<1>3. IsAct(old) /\ old.why = m.acts[a].why /\ old.type = m.acts[a].type
      /\ old.jumps = m.acts[a].jumps
  <2> DEFINE o == m.acts[a]
  <2>1. IsAct(o)
      BY <1>1 DEF Shape
  <2> HIDE DEF o
  <2>2. LET c == [o EXCEPT !.at = "waits"]
        IN  IsAct(c) /\ c.why = o.why /\ c.type = o.type /\ c.jumps = o.jumps
      BY <2>1 DEF IsAct, ActFields, HasFields
  <2> QED  BY <2>2 DEF o
<1> HIDE DEF old
<1>4. IsList(p) /\ Len(p) = a /\ p[a] = old /\ \A i \in 1 .. a : i # a => p[i] = m.acts[i]
    BY <1>1, ListPut
<1> HIDE DEF p
<1>5. IsAct(b) /\ b.why = why /\ (b.jumps <=> z)
  <2>1. IsAct(new) /\ new.why = why
      BY DEF IsAct, ActFields, Activation, HasFields
  <2> HIDE DEF new, x, y, z
  <2>2. IsAct(b1) /\ b1.why = why
      BY <2>1 DEF IsAct, ActFields, HasFields
  <2> HIDE DEF b1
  <2>3. IsAct(b2) /\ b2.why = why
      BY <2>2 DEF IsAct, ActFields, HasFields
  <2> HIDE DEF b2
  <2> QED  BY <2>3 DEF IsAct, ActFields, HasFields
<1> HIDE DEF b
<1>6. IsList(q) /\ Len(q) = a + 1 /\ q[a + 1] = b /\ \A i \in 1 .. a : q[i] = p[i]
  <2> HIDE DEF a
  <2> QED  BY <1>4, ListAppend
<1> HIDE DEF q
<1>7. IsMachine(n1) /\ n1.acts = q /\ n1.nextsig = m.nextsig /\ n1.ended = m.ended
    BY <1>1 DEF IsMachine, MachineFields, HasFields
<1> HIDE DEF n1
<1>8. IsLevel(l) /\ l.traps = m.levels[v].traps /\ l.jump
  <2> DEFINE o == m.levels[v]
  <2>1. IsLevel(o)
      BY <1>1 DEF Shape
  <2> HIDE DEF o
  <2>2. LET c == [o EXCEPT !.jump = TRUE]
        IN  IsLevel(c) /\ c.traps = o.traps /\ c.jump
      BY <2>1 DEF IsLevel, LevelFields, HasFields
  <2> QED  BY <2>2 DEF o
<1> HIDE DEF l
<1>9. IsList(r) /\ Len(r) = v /\ r[v] = l /\ \A k \in 1 .. v : k # v => r[k] = m.levels[k]
    BY <1>1, ListPut
<1> HIDE DEF r
<1>10. IsMachine(n) /\ n.acts = q /\ n.levels = r /\ n.nextsig = m.nextsig /\ n.ended = m.ended
    BY <1>7 DEF IsMachine, MachineFields, HasFields
<1> HIDE DEF n
<1>11. ASSUME NEW i \in 1 .. a
       PROVE  IsAct(q[i]) /\ q[i].why = m.acts[i].why /\ q[i].type = m.acts[i].type
              /\ q[i].jumps = m.acts[i].jumps
  <2>1. CASE i = a
      BY <1>3, <1>4, <1>6, <2>1
  <2>2. CASE i # a
      BY <1>4, <1>6, <2>2 DEF Shape
  <2> QED  BY <2>1, <2>2
<1>12. ASSUME NEW k \in 1 .. v
       PROVE  (k < v => r[k] = m.levels[k]) /\ r[k].traps = m.levels[k].traps /\ IsLevel(r[k])
  <2>1. CASE k = v
      BY <1>8, <1>9, <2>1
  <2>2. CASE k # v
      BY <1>9, <2>2 DEF Shape
  <2> QED  BY <2>1, <2>2
<1>13. Shape(n)
  <2>1. \A i \in 1 .. Len(q) : IsAct(q[i])
    <3> SUFFICES ASSUME NEW i \in 1 .. Len(q)  PROVE IsAct(q[i])
        OBVIOUS
    <3>1. i \in 1 .. a \/ i = a + 1
        BY <1>1, <1>6
    <3> QED  BY <1>5, <1>6, <1>11, <3>1
  <2>2. Len(q) > 0 /\ Len(r) > 0
      BY <1>1, <1>6, <1>9
  <2>3. m.nextsig \in Conditions \cup {"none"}
      BY DEF Shape
  <2> QED  BY <1>6, <1>9, <1>10, <1>12, <2>1, <2>2, <2>3 DEF Shape
<1>14. Top(n) = b /\ Level(n) = l
    BY <1>6, <1>9, <1>10 DEF Top, Level, Last
<1> QED  BY <1>2, <1>5, <1>6, <1>8, <1>9, <1>10, <1>11, <1>12, <1>13, <1>14

\* A routine is entered: a level and a call to jump to are added.
LEMMA RoutineOK ==
  ASSUME NEW m, OK(m), NEW n, Shape(n), NEW type \in Conditions,
         Len(n.acts) = Len(m.acts) + 1,
         \A i \in 1 .. Len(m.acts) :
            n.acts[i].why = m.acts[i].why /\ n.acts[i].type = m.acts[i].type
            /\ (n.acts[i].jumps <=> m.acts[i].jumps),
         Top(n).why \in {"call", "function", "handler"}, Top(n).jumps,
         Top(n).why = "handler" =>
            Top(n).type = type /\ n.levels[Len(m.levels)].traps[type].delayed,
         Len(n.levels) = Len(m.levels) + 1,
         \A k \in 1 .. Len(n.levels) :
            /\ n.levels[k].jump
            /\ n.levels[k].traps["SYNTAX"].on => n.levels[k].traps["SYNTAX"].signal,
         \A k \in 1 .. Len(m.levels) : k < Len(m.levels) => n.levels[k] = m.levels[k],
         \A k \in {Len(m.levels), Len(n.levels)} : \A c \in Conditions :
            n.levels[k].traps[c].delayed =>
               m.levels[Len(m.levels)].traps[c].delayed \/ (Top(n).why = "handler" /\ c = type)
  PROVE  OK(n)
<1> DEFINE a == Len(m.acts)
           v == Len(m.levels)
           b == n.acts[a + 1]
<1>1. Shape(m) /\ Called(m.acts) /\ Leveled(m) /\ Delays(m)
    BY DEF OK
<1>2. a \in Nat /\ a > 0 /\ v \in Nat /\ v > 0 /\ Len(n.acts) = a + 1 /\ Len(n.levels) = v + 1
    BY <1>1, Sizes
<1>3. Top(n) = b /\ IsRoutine(b)
    BY <1>2 DEF Top, Last, IsRoutine
<1>4. v = DepthOf(m.acts, a) + 1 /\ DepthOf(m.acts, a) \in Nat
    BY <1>1, <1>2, DepthNat DEF Leveled
<1> HIDE DEF a, v, b
<1>5. \A i \in 1 .. a : IsRoutine(n.acts[i]) <=> IsRoutine(m.acts[i])
    BY DEF IsRoutine, a
<1>6. Called(n.acts)
  <2> SUFFICES ASSUME NEW i \in 1 .. a + 1
               PROVE  /\ n.acts[i].why \in IF i = 1 THEN {"main"}
                                           ELSE {"call", "function", "interpret", "handler"}
                      /\ n.acts[i].jumps <=> i = 1 \/ IsRoutine(n.acts[i])
                      /\ n.acts[i].why = "handler" => n.acts[i].type \in Conditions
      BY <1>2 DEF Called
  <2>1. CASE i = a + 1
    <3>1. n.acts[i] = b /\ i # 1
        BY <1>2, <2>1 DEF b
    <3> QED  BY <1>3, <3>1
  <2>2. CASE i # a + 1
    <3>1. i \in 1 .. a
        BY <1>2, <2>2
    <3> QED  BY <1>1, <1>5, <3>1 DEF Called, a
  <2> QED  BY <2>1, <2>2
<1>7. ASSUME NEW i \in 0 .. a  PROVE DepthOf(n.acts, i) = DepthOf(m.acts, i)
  <2>1. \A j \in 1 .. i : IsRoutine(n.acts[j]) <=> IsRoutine(m.acts[j])
      BY <1>2, <1>5
  <2> QED  BY <2>1, DepthSame
<1>8. DepthOf(n.acts, a + 1) = v
  <2>1. DepthOf(n.acts, a + 1) = DepthOf(n.acts, a) + 1
      BY <1>2, <1>3, DepthNext DEF b
  <2>2. DepthOf(n.acts, a) = DepthOf(m.acts, a)
      BY <1>2, <1>7
  <2> QED  BY <1>4, <2>1, <2>2
<1>9. Leveled(n)
    BY <1>2, <1>8 DEF Leveled
<1>10. ASSUME NEW i \in 1 .. a + 1, n.acts[i].why = "handler"
       PROVE  n.levels[DepthOf(n.acts, i)].traps[n.acts[i].type].delayed
  <2>1. CASE i = a + 1
      BY <1>3, <1>8, <1>10, <2>1 DEF b, v
  <2>2. CASE i # a + 1
    <3>1. i \in 1 .. a /\ i \in 0 .. a
        BY <1>2, <2>2
    <3>2. m.acts[i].why = "handler" /\ n.acts[i].type = m.acts[i].type
        BY <1>10, <3>1 DEF a
    <3>3. DepthOf(m.acts, i) \in 1 .. DepthOf(m.acts, a)
        BY <1>2, <3>1, <3>2, DepthRange DEF IsRoutine
    <3>4. DepthOf(m.acts, i) \in 1 .. v /\ DepthOf(m.acts, i) < v
      <4> DEFINE d == DepthOf(m.acts, i)
                 e == DepthOf(m.acts, a)
      <4>1. d \in 1 .. e /\ e \in Nat /\ v = e + 1
          BY <1>4, <3>3
      <4> HIDE DEF d, e
      <4>2. d \in 1 .. v /\ d < v
          BY <4>1
      <4> QED  BY <4>2 DEF d
    <3>5. n.levels[DepthOf(m.acts, i)] = m.levels[DepthOf(m.acts, i)]
        BY <3>4 DEF v
    <3>6. DepthOf(n.acts, i) = DepthOf(m.acts, i)
        BY <1>7, <3>1
    <3> QED  BY <1>1, <3>1, <3>2, <3>5, <3>6 DEF Delays, a
  <2> QED  BY <2>1, <2>2
<1>11. ASSUME NEW k \in 1 .. v + 1, NEW c \in Conditions, n.levels[k].traps[c].delayed
       PROVE  \E i \in 1 .. a + 1 : n.acts[i].why = "handler" /\ n.acts[i].type = c
                                    /\ DepthOf(n.acts, i) <= k
  <2>1. ASSUME NEW j \in 1 .. v, j <= k, m.levels[j].traps[c].delayed
        PROVE  \E i \in 1 .. a + 1 : n.acts[i].why = "handler" /\ n.acts[i].type = c
                                     /\ DepthOf(n.acts, i) <= k
    <3>1. PICK i \in 1 .. a : m.acts[i].why = "handler" /\ m.acts[i].type = c
                              /\ DepthOf(m.acts, i) <= j
        BY <1>1, <2>1 DEF Delays, a, v
    <3>2. i \in 1 .. a + 1 /\ i \in Nat /\ j \in Nat /\ k \in Nat
        BY <1>2
    <3>3. DepthOf(n.acts, i) = DepthOf(m.acts, i) /\ DepthOf(m.acts, i) \in Nat
      <4>1. i \in 0 .. a
          BY <1>2
      <4> QED  BY <1>7, <3>2, <4>1, DepthNat
    <3>4. n.acts[i].why = "handler" /\ n.acts[i].type = c
        BY <3>1 DEF a
    <3>5. DepthOf(n.acts, i) <= k
        BY <2>1, <3>1, <3>2, <3>3
    <3> QED  BY <3>2, <3>4, <3>5
  <2>2. CASE k < v
    <3>1. k \in 1 .. v /\ n.levels[k] = m.levels[k]
        BY <1>2, <2>2 DEF v
    <3>2. k <= k
        BY <1>2
    <3> QED  BY <1>11, <2>1, <3>1, <3>2
  <2>3. CASE ~(k < v)
    <3>1. k \in {v, v + 1} /\ v \in 1 .. v /\ v <= k
        BY <1>2, <2>3
    <3>2. m.levels[v].traps[c].delayed \/ (Top(n).why = "handler" /\ c = type)
        BY <1>2, <1>11, <3>1 DEF v
    <3>3. CASE m.levels[v].traps[c].delayed
        BY <2>1, <3>1, <3>3
    <3>4. CASE Top(n).why = "handler" /\ c = type
      <4>1. a + 1 \in 1 .. a + 1 /\ DepthOf(n.acts, a + 1) <= k
          BY <1>2, <1>8, <3>1
      <4>2. n.acts[a + 1].why = "handler" /\ n.acts[a + 1].type = c
          BY <1>3, <3>4 DEF b
      <4> QED  BY <4>1, <4>2
    <3> QED  BY <3>2, <3>3, <3>4
  <2> QED  BY <2>2, <2>3
<1>12. Delays(n)
    BY <1>2, <1>10, <1>11 DEF Delays
<1> QED  BY <1>6, <1>9, <1>12 DEF OK

\* A string is interpreted: a call without a level is added.
LEMMA InterpretOK ==
  ASSUME NEW m, OK(m), NEW to
  PROVE  LET n == Enter(m, to, "interpret", 0) IN OK(n) /\ Len(n.acts) > Len(m.acts)
<1> DEFINE n == Enter(m, to, "interpret", 0)
           a == Len(m.acts)
           v == Len(m.levels)
<1>1. Shape(m) /\ Called(m.acts) /\ Leveled(m) /\ Delays(m)
    BY DEF OK
<1>2. a \in Nat /\ a > 0 /\ v \in Nat /\ v > 0 /\ v \in 1 .. v
    BY <1>1, Sizes
<1>3. /\ Shape(n) /\ Len(n.acts) = a + 1 /\ Len(n.levels) = v
      /\ \A i \in 1 .. a : n.acts[i].why = m.acts[i].why /\ n.acts[i].type = m.acts[i].type
                           /\ n.acts[i].jumps = m.acts[i].jumps
      /\ Top(n).why = "interpret" /\ (Top(n).jumps <=> ~Level(m).jump)
      /\ \A k \in 1 .. v : /\ k < v => n.levels[k] = m.levels[k]
                           /\ n.levels[k].traps = m.levels[k].traps
      /\ Level(n).jump
    BY <1>1, Entering
<1> HIDE DEF n
<1>4. Level(m).jump
    BY <1>1, <1>2 DEF Leveled, Level, Last
<1>5. Top(n) = n.acts[a + 1] /\ Level(n) = n.levels[v] /\ ~IsRoutine(n.acts[a + 1])
      /\ n.acts[a + 1].why = "interpret" /\ ~n.acts[a + 1].jumps
    BY <1>3, <1>4 DEF Top, Level, Last, IsRoutine
<1> HIDE DEF a, v
<1>6. \A i \in 1 .. a : IsRoutine(n.acts[i]) <=> IsRoutine(m.acts[i])
    BY <1>3 DEF IsRoutine
<1>7. Called(n.acts)
  <2> SUFFICES ASSUME NEW i \in 1 .. a + 1
               PROVE  /\ n.acts[i].why \in IF i = 1 THEN {"main"}
                                           ELSE {"call", "function", "interpret", "handler"}
                      /\ n.acts[i].jumps <=> i = 1 \/ IsRoutine(n.acts[i])
                      /\ n.acts[i].why = "handler" => n.acts[i].type \in Conditions
      BY <1>3 DEF Called
  <2>1. CASE i = a + 1
      BY <1>2, <1>5, <2>1
  <2>2. CASE i # a + 1
    <3>1. i \in 1 .. a
        BY <1>2, <2>2
    <3> QED  BY <1>1, <1>3, <1>6, <3>1 DEF Called, a
  <2> QED  BY <2>1, <2>2
<1>8. ASSUME NEW i \in 0 .. a  PROVE DepthOf(n.acts, i) = DepthOf(m.acts, i)
  <2>1. \A j \in 1 .. i : IsRoutine(n.acts[j]) <=> IsRoutine(m.acts[j])
      BY <1>2, <1>6
  <2> QED  BY <2>1, DepthSame
<1>9. DepthOf(n.acts, a + 1) = DepthOf(m.acts, a)
  <2>1. DepthOf(n.acts, a + 1) = DepthOf(n.acts, a) + 0
      BY <1>2, <1>5, DepthNext
  <2>2. DepthOf(n.acts, a) = DepthOf(m.acts, a) /\ DepthOf(m.acts, a) \in Nat
    <3>1. a \in 0 .. a
        BY <1>2
    <3> QED  BY <1>2, <1>8, <3>1, DepthNat
  <2> QED  BY <2>1, <2>2
<1>10. v = DepthOf(m.acts, a) + 1 /\ DepthOf(m.acts, a) \in Nat
    BY <1>1, <1>2, DepthNat DEF Leveled, a, v
<1>11. Leveled(n)
  <2>1. ASSUME NEW k \in 1 .. v
        PROVE  n.levels[k].jump
               /\ (n.levels[k].traps["SYNTAX"].on => n.levels[k].traps["SYNTAX"].signal)
    <3>1. CASE k = v
        BY <1>1, <1>3, <1>5, <3>1 DEF Leveled, v
    <3>2. CASE k # v
      <4>1. n.levels[k] = m.levels[k]
          BY <1>2, <1>3, <3>2
      <4> QED  BY <1>1, <4>1 DEF Leveled, v
    <3> QED  BY <3>1, <3>2
  <2> QED  BY <1>3, <1>9, <1>10, <2>1 DEF Leveled
<1>12. ASSUME NEW i \in 1 .. a + 1, n.acts[i].why = "handler"
       PROVE  n.levels[DepthOf(n.acts, i)].traps[n.acts[i].type].delayed
  <2>1. i \in 1 .. a /\ i \in 0 .. a
      BY <1>2, <1>5, <1>12
  <2>2. m.acts[i].why = "handler" /\ n.acts[i].type = m.acts[i].type
      BY <1>3, <1>12, <2>1
  <2>3. DepthOf(m.acts, i) \in 1 .. DepthOf(m.acts, a)
      BY <1>2, <2>1, <2>2, DepthRange DEF IsRoutine
  <2>4. DepthOf(m.acts, i) \in 1 .. v
    <3> DEFINE d == DepthOf(m.acts, i)
               e == DepthOf(m.acts, a)
    <3>1. d \in 1 .. e /\ e \in Nat /\ v = e + 1
        BY <1>10, <2>3
    <3> HIDE DEF d, e
    <3>2. d \in 1 .. v
        BY <3>1
    <3> QED  BY <3>2 DEF d
  <2>5. n.levels[DepthOf(m.acts, i)].traps = m.levels[DepthOf(m.acts, i)].traps
      BY <1>3, <2>4
  <2>6. DepthOf(n.acts, i) = DepthOf(m.acts, i)
      BY <1>8, <2>1
  <2> QED  BY <1>1, <2>1, <2>2, <2>5, <2>6 DEF Delays, a
<1>13. ASSUME NEW k \in 1 .. v, NEW c \in Conditions, n.levels[k].traps[c].delayed
       PROVE  \E i \in 1 .. a + 1 : n.acts[i].why = "handler" /\ n.acts[i].type = c
                                    /\ DepthOf(n.acts, i) <= k
  <2>1. m.levels[k].traps[c].delayed
      BY <1>3, <1>13
  <2>2. PICK i \in 1 .. a : m.acts[i].why = "handler" /\ m.acts[i].type = c
                            /\ DepthOf(m.acts, i) <= k
      BY <1>1, <2>1 DEF Delays, a, v
  <2>3. i \in 1 .. a + 1 /\ i \in 0 .. a
      BY <1>2
  <2>4. DepthOf(n.acts, i) = DepthOf(m.acts, i)
      BY <1>8, <2>3
  <2> QED  BY <1>3, <2>2, <2>3, <2>4
<1>14. Delays(n)
    BY <1>3, <1>12, <1>13, ZenonT(30) DEF Delays
<1>15. OK(n) /\ Len(n.acts) > a
    BY <1>2, <1>3, <1>7, <1>11, <1>14 DEF OK
<1> QED  BY <1>15 DEF n, a

LEMMA CallInternalOK ==
  ASSUME NEW m, OK(m), NEW to, NEW why \in {"call", "function"}
  PROVE  LET n == CallInternalFunction(m, to, why) IN OK(n) /\ Len(n.acts) > Len(m.acts)
<1> DEFINE l == pushcallstack(newlevel(m))
           n == Enter(l, to, why, l.callstack)
           v == Len(m.levels)
<1>1. Shape(m) /\ Leveled(m)
    BY DEF OK
<1>2. Len(m.acts) \in Nat /\ v \in Nat /\ v > 0 /\ Level(m) = m.levels[v] /\ v \in 1 .. v
    BY <1>1, Sizes
<1>3. /\ Shape(l) /\ l.acts = m.acts /\ Len(l.levels) = v + 1
      /\ \A k \in 1 .. v : l.levels[k] = m.levels[k]
      /\ Level(l).traps = Level(m).traps /\ Level(l).jump = FALSE
    BY <1>1, NewLevel
<1> HIDE DEF l
<1>4. /\ Shape(n) /\ Len(n.acts) = Len(l.acts) + 1 /\ Len(n.levels) = Len(l.levels)
      /\ \A i \in 1 .. Len(l.acts) :
            n.acts[i].why = l.acts[i].why /\ n.acts[i].type = l.acts[i].type
            /\ n.acts[i].jumps = l.acts[i].jumps
      /\ Top(n).why = why /\ (Top(n).jumps <=> ~Level(l).jump)
      /\ \A k \in 1 .. Len(l.levels) : /\ k < Len(l.levels) => n.levels[k] = l.levels[k]
                                       /\ n.levels[k].traps = l.levels[k].traps
      /\ Level(n).jump
    BY <1>3, Entering, SMTT(30)
<1> HIDE DEF n
<1>5. Level(n) = n.levels[v + 1] /\ Level(l) = l.levels[v + 1]
    BY <1>3, <1>4 DEF Level, Last
<1> HIDE DEF v
<1>6. ASSUME NEW k \in 1 .. v  PROVE n.levels[k] = m.levels[k]
    BY <1>2, <1>3, <1>4
<1>7. n.levels[v + 1].traps = m.levels[v].traps /\ n.levels[v + 1].jump
  <2>1. v + 1 \in 1 .. v + 1
      BY <1>2
  <2> QED  BY <1>2, <1>3, <1>4, <1>5, <2>1
<1>8. ASSUME NEW k \in 1 .. v + 1
      PROVE  n.levels[k].jump
             /\ (n.levels[k].traps["SYNTAX"].on => n.levels[k].traps["SYNTAX"].signal)
  <2>1. CASE k = v + 1
      BY <1>1, <1>2, <1>7, <2>1 DEF Leveled, v
  <2>2. CASE k # v + 1
    <3>1. k \in 1 .. v
        BY <1>2, <2>2
    <3> QED  BY <1>1, <1>6, <3>1 DEF Leveled, v
  <2> QED  BY <2>1, <2>2
<1>9. "HALT" \in Conditions
    BY DEF Conditions
<1>10. OK(n)
  <2>1. /\ Len(n.acts) = Len(m.acts) + 1 /\ Len(n.levels) = Len(m.levels) + 1
        /\ Top(n).why \in {"call", "function", "handler"} /\ Top(n).jumps
        /\ Top(n).why # "handler"
      BY <1>3, <1>4 DEF v
  <2>2. \A i \in 1 .. Len(m.acts) :
            n.acts[i].why = m.acts[i].why /\ n.acts[i].type = m.acts[i].type
            /\ (n.acts[i].jumps <=> m.acts[i].jumps)
      BY <1>3, <1>4
  <2>3. \A k \in 1 .. Len(n.levels) :
            /\ n.levels[k].jump
            /\ n.levels[k].traps["SYNTAX"].on => n.levels[k].traps["SYNTAX"].signal
      BY <1>3, <1>4, <1>8
  <2>4. \A k \in 1 .. Len(m.levels) : k < Len(m.levels) => n.levels[k] = m.levels[k]
      BY <1>6 DEF v
  <2>5. \A k \in {Len(m.levels), Len(n.levels)} : \A c \in Conditions :
            n.levels[k].traps[c].delayed => m.levels[Len(m.levels)].traps[c].delayed
    <3>1. n.levels[v].traps = m.levels[v].traps
        BY <1>2, <1>6
    <3> QED  BY <1>3, <1>4, <1>7, <3>1, SMTT(30) DEF v
  <2> QED  BY <1>4, <1>9, <2>1, <2>2, <2>3, <2>4, <2>5, RoutineOK
<1>11. Len(n.acts) > Len(m.acts)
    BY <1>2, <1>3, <1>4
<1> QED  BY <1>10, <1>11 DEF CallInternalFunction, l, n

LEMMA Delaying ==
  ASSUME NEW l, IsLevel(l), NEW type \in Conditions
  PROVE  LET k == [l EXCEPT !.traps[type].delayed = TRUE]
         IN  /\ IsLevel(k) /\ k.jump = l.jump /\ k.traps[type].delayed
             /\ \A c \in Conditions : c # type => k.traps[c] = l.traps[c]
             /\ k.traps[type].on = l.traps[type].on /\ k.traps[type].signal = l.traps[type].signal
<1> DEFINE t == l.traps[type]
           u == [t EXCEPT !.delayed = TRUE]
           tt == [l.traps EXCEPT ![type] = u]
           k == [l EXCEPT !.traps = tt]
<1>1. k = [l EXCEPT !.traps[type].delayed = TRUE]
    OBVIOUS
<1>2. HasFields(l, LevelFields) /\ HasFields(l.traps, Conditions)
      /\ \A c \in Conditions : HasFields(l.traps[c], TrapFields)
    BY DEF IsLevel, IsTraps
<1>3. HasFields(u, TrapFields) /\ u.delayed = TRUE /\ u.on = t.on /\ u.signal = t.signal
    BY <1>2 DEF HasFields, TrapFields
<1> HIDE DEF u
<1>4. HasFields(tt, Conditions) /\ tt[type] = u
      /\ \A c \in Conditions : c # type => tt[c] = l.traps[c]
    BY <1>2 DEF HasFields
<1> HIDE DEF tt
<1>5. IsTraps(tt)
  <2> SUFFICES ASSUME NEW c \in Conditions  PROVE HasFields(tt[c], TrapFields)
      BY <1>4 DEF IsTraps
  <2>1. CASE c = type
      BY <1>3, <1>4, <2>1
  <2>2. CASE c # type
      BY <1>2, <1>4, <2>2
  <2> QED  BY <2>1, <2>2
<1>6. HasFields(k, LevelFields) /\ k.traps = tt /\ k.jump = l.jump
    BY <1>2 DEF HasFields, LevelFields
<1> HIDE DEF k
<1> QED  BY <1>1, <1>3, <1>4, <1>5, <1>6 DEF IsLevel

LEMMA CallTakenOK ==
  ASSUME NEW m, OK(m), NEW type \in Conditions
  PROVE  LET n == CallTaken(m, type)
         IN  OK(n) /\ (Away(n) \/ Len(n.acts) > Len(m.acts))
<1> DEFINE name == Level(m).traps[type].name
           v == Len(m.levels)
           k == [m.levels[v] EXCEPT !.traps[type].delayed = TRUE]
           q == Put(m.levels, v, k)
           n1 == [m EXCEPT !.levels = q]
           n2 == [n1 EXCEPT !.nextsig = "none"]
           c == pushcallstack(newlevel(n2))
           e == Enter(c, tree[Entry(name)].next, "handler", c.callstack)
           a == Len(e.acts)
           b == [e.acts[a] EXCEPT !.type = type]
           r == Put(e.acts, a, b)
           n == [e EXCEPT !.acts = r]
<1>1. Shape(m) /\ Leveled(m) /\ IsMachine(m)
    BY DEF OK, Shape
<1>2. Len(m.acts) \in Nat /\ Len(m.acts) > 0 /\ v \in Nat /\ v > 0 /\ Level(m) = m.levels[v]
      /\ v \in 1 .. v /\ IsList(m.levels)
    BY <1>1, Sizes
<1>3. CallTaken(m, type) = IF Callable(name) = {} THEN exiterror(m) ELSE n
  <2>1. n2 = [m EXCEPT !.levels[Len(m.levels)].traps[type].delayed = TRUE, !.nextsig = "none"]
      BY DEF Put
  <2> HIDE DEF n2
  <2>2. n = [e EXCEPT !.acts[Len(e.acts)].type = type]
      BY DEF Put
  <2> HIDE DEF n
  <2> QED  BY <2>1, <2>2 DEF CallTaken
<1>4. /\ IsLevel(k) /\ k.jump = m.levels[v].jump /\ k.traps[type].delayed
      /\ \A d \in Conditions : d # type => k.traps[d] = m.levels[v].traps[d]
      /\ k.traps[type].on = m.levels[v].traps[type].on
      /\ k.traps[type].signal = m.levels[v].traps[type].signal
  <2> DEFINE l == m.levels[v]
  <2>1. IsLevel(l)
      BY <1>1, <1>2 DEF Shape
  <2> HIDE DEF l
  <2>2. LET j == [l EXCEPT !.traps[type].delayed = TRUE]
        IN  /\ IsLevel(j) /\ j.jump = l.jump /\ j.traps[type].delayed
            /\ \A d \in Conditions : d # type => j.traps[d] = l.traps[d]
            /\ j.traps[type].on = l.traps[type].on /\ j.traps[type].signal = l.traps[type].signal
      BY <2>1, Delaying
  <2> QED  BY <2>2 DEF l
<1> HIDE DEF k
<1>5. k.jump /\ (k.traps["SYNTAX"].on => k.traps["SYNTAX"].signal)
  <2>1. m.levels[v].jump /\ (m.levels[v].traps["SYNTAX"].on => m.levels[v].traps["SYNTAX"].signal)
      BY <1>1, <1>2 DEF Leveled
  <2>2. "SYNTAX" \in Conditions
      BY DEF Conditions
  <2>3. CASE type = "SYNTAX"
      BY <1>4, <2>1, <2>3
  <2>4. CASE type # "SYNTAX"
      BY <1>4, <2>1, <2>2, <2>4
  <2> QED  BY <2>3, <2>4
<1>6. IsList(q) /\ Len(q) = v /\ q[v] = k /\ \A j \in 1 .. v : j # v => q[j] = m.levels[j]
    BY <1>2, ListPut
<1> HIDE DEF q
<1>7. Shape(n2) /\ n2.acts = m.acts /\ n2.levels = q
  <2>1. IsMachine(n1) /\ n1.acts = m.acts /\ n1.levels = q
      BY <1>1 DEF IsMachine, MachineFields, HasFields
  <2> HIDE DEF n1
  <2>2. IsMachine(n2) /\ n2.acts = m.acts /\ n2.levels = q /\ n2.nextsig = "none"
      BY <2>1 DEF IsMachine, MachineFields, HasFields
  <2> HIDE DEF n2
  <2>3. \A j \in 1 .. Len(q) : IsLevel(q[j])
    <3> SUFFICES ASSUME NEW j \in 1 .. v  PROVE IsLevel(q[j])
        BY <1>6
    <3>1. CASE j = v
        BY <1>4, <1>6, <3>1
    <3>2. CASE j # v
        BY <1>1, <1>6, <3>2 DEF Shape
    <3> QED  BY <3>1, <3>2
  <2> QED  BY <1>1, <1>2, <1>6, <2>2, <2>3 DEF Shape
<1> HIDE DEF n2
<1>8. Level(n2) = k
    BY <1>6, <1>7 DEF Level, Last
<1>9. /\ Shape(c) /\ c.acts = m.acts /\ Len(c.levels) = v + 1
      /\ \A j \in 1 .. v : c.levels[j] = q[j]
      /\ Level(c).traps = k.traps /\ Level(c).jump = FALSE
  <2>1. /\ Shape(c) /\ c.acts = n2.acts /\ Len(c.levels) = Len(n2.levels) + 1
        /\ \A j \in 1 .. Len(n2.levels) : c.levels[j] = n2.levels[j]
        /\ Level(c).traps = Level(n2).traps /\ Level(c).jump = FALSE
      BY <1>7, NewLevel
  <2> QED  BY <1>6, <1>7, <1>8, <2>1
<1> HIDE DEF c
<1>10. /\ Shape(e) /\ a = Len(c.acts) + 1 /\ Len(e.levels) = Len(c.levels)
       /\ \A i \in 1 .. Len(c.acts) :
            e.acts[i].why = c.acts[i].why /\ e.acts[i].type = c.acts[i].type
            /\ e.acts[i].jumps = c.acts[i].jumps
       /\ Top(e).why = "handler" /\ (Top(e).jumps <=> ~Level(c).jump)
       /\ \A j \in 1 .. Len(c.levels) : /\ j < Len(c.levels) => e.levels[j] = c.levels[j]
                                        /\ e.levels[j].traps = c.levels[j].traps
       /\ Level(e).jump
  <2> DEFINE to == tree[Entry(name)].next
             mark == c.callstack
             f == Enter(c, to, "handler", mark)
  <2>1. e = f
      OBVIOUS
  <2> HIDE DEF to, mark, e
  <2>2. /\ Shape(f) /\ Len(f.acts) = Len(c.acts) + 1 /\ Len(f.levels) = Len(c.levels)
        /\ \A i \in 1 .. Len(c.acts) :
             f.acts[i].why = c.acts[i].why /\ f.acts[i].type = c.acts[i].type
             /\ f.acts[i].jumps = c.acts[i].jumps
        /\ Top(f).why = "handler" /\ (Top(f).jumps <=> ~Level(c).jump)
        /\ \A j \in 1 .. Len(c.levels) : /\ j < Len(c.levels) => f.levels[j] = c.levels[j]
                                         /\ f.levels[j].traps = c.levels[j].traps
        /\ Level(f).jump
      BY <1>9, Entering
  <2> HIDE DEF f
  <2> QED  BY <2>1, <2>2
<1> HIDE DEF e
<1>11. /\ a = Len(m.acts) + 1 /\ Len(e.levels) = v + 1
       /\ Top(e) = e.acts[a] /\ Level(e) = e.levels[v + 1] /\ Level(c) = c.levels[v + 1]
    BY <1>9, <1>10 DEF Top, Level, Last
<1>12. a \in Nat /\ a \in 1 .. a /\ IsList(e.acts) /\ IsMachine(e) /\ IsAct(e.acts[a])
    BY <1>10, Sizes
<1>13. IsAct(b) /\ b.why = "handler" /\ b.jumps /\ b.type = type
  <2> DEFINE o == e.acts[a]
  <2>1. IsAct(o) /\ o.why = "handler" /\ o.jumps
      BY <1>9, <1>10, <1>11, <1>12
  <2> HIDE DEF o
  <2>2. LET x == [o EXCEPT !.type = type]
        IN  IsAct(x) /\ x.why = o.why /\ x.jumps = o.jumps /\ x.type = type
      BY <2>1 DEF IsAct, ActFields, HasFields
  <2> QED  BY <2>1, <2>2 DEF o
<1> HIDE DEF b
<1>14. IsList(r) /\ Len(r) = a /\ r[a] = b /\ \A i \in 1 .. a : i # a => r[i] = e.acts[i]
    BY <1>12, ListPut
<1> HIDE DEF r
<1>15. IsMachine(n) /\ n.acts = r /\ n.levels = e.levels /\ n.nextsig = e.nextsig
    BY <1>12 DEF IsMachine, MachineFields, HasFields
<1> HIDE DEF n
<1>16. Shape(n) /\ Top(n) = b
  <2>1. \A i \in 1 .. a : IsAct(r[i])
    <3> SUFFICES ASSUME NEW i \in 1 .. a  PROVE IsAct(r[i])
        OBVIOUS
    <3>1. CASE i = a
        BY <1>13, <1>14, <3>1
    <3>2. CASE i # a
        BY <1>10, <1>14, <3>2 DEF Shape
    <3> QED  BY <3>1, <3>2
  <2>2. a > 0
      BY <1>2, <1>11
  <2>3. Top(n) = b
      BY <1>14, <1>15 DEF Top, Last
  <2> QED  BY <1>10, <1>14, <1>15, <2>1, <2>2, <2>3 DEF Shape
<1> HIDE DEF a, v
<1>17. \A i \in 1 .. Len(m.acts) :
         n.acts[i].why = m.acts[i].why /\ n.acts[i].type = m.acts[i].type
         /\ (n.acts[i].jumps <=> m.acts[i].jumps)
  <2> SUFFICES ASSUME NEW i \in 1 .. Len(m.acts)
               PROVE  n.acts[i].why = m.acts[i].why /\ n.acts[i].type = m.acts[i].type
                      /\ (n.acts[i].jumps <=> m.acts[i].jumps)
      OBVIOUS
  <2>1. i \in 1 .. a /\ i # a
      BY <1>2, <1>11
  <2>2. n.acts[i] = e.acts[i]
      BY <1>14, <1>15, <2>1
  <2> QED  BY <1>9, <1>10, <2>2
<1>18. \A j \in 1 .. v : n.levels[j] = q[j]
    BY <1>2, <1>9, <1>10, <1>15
<1>19. n.levels[v + 1].traps = k.traps /\ n.levels[v + 1].jump
  <2>1. v + 1 \in 1 .. v + 1
      BY <1>2
  <2> QED  BY <1>9, <1>10, <1>11, <1>15, <2>1
<1>20. \A j \in 1 .. Len(n.levels) :
         n.levels[j].jump /\ (n.levels[j].traps["SYNTAX"].on => n.levels[j].traps["SYNTAX"].signal)
  <2> SUFFICES ASSUME NEW j \in 1 .. v + 1
               PROVE  n.levels[j].jump
                      /\ (n.levels[j].traps["SYNTAX"].on => n.levels[j].traps["SYNTAX"].signal)
      BY <1>11, <1>15
  <2>1. CASE j = v + 1
      BY <1>5, <1>19, <2>1
  <2>2. CASE j = v
      BY <1>2, <1>5, <1>6, <1>18, <2>2
  <2>3. CASE j # v /\ j # v + 1
    <3>1. j \in 1 .. v
        BY <1>2, <2>3
    <3>2. n.levels[j] = m.levels[j]
        BY <1>6, <1>18, <2>3, <3>1
    <3> QED  BY <1>1, <3>1, <3>2 DEF Leveled, v
  <2> QED  BY <2>1, <2>2, <2>3
<1>21. \A j \in 1 .. Len(m.levels) : j < Len(m.levels) => n.levels[j] = m.levels[j]
    BY <1>2, <1>6, <1>18 DEF v
<1>22. n.levels[v].traps = k.traps
    BY <1>2, <1>6, <1>18
<1>23. \A j \in {Len(m.levels), Len(n.levels)} : \A d \in Conditions :
          n.levels[j].traps[d].delayed =>
            m.levels[Len(m.levels)].traps[d].delayed \/ (Top(n).why = "handler" /\ d = type)
  <2>1. \A d \in Conditions : k.traps[d].delayed =>
          m.levels[v].traps[d].delayed \/ (Top(n).why = "handler" /\ d = type)
      BY <1>4, <1>13, <1>16
  <2> QED  BY <1>11, <1>15, <1>19, <1>22, <2>1 DEF v
<1>24. /\ Len(n.acts) = Len(m.acts) + 1 /\ Len(n.levels) = Len(m.levels) + 1
       /\ Top(n).why \in {"call", "function", "handler"} /\ Top(n).jumps
       /\ Top(n).why = "handler" =>
            Top(n).type = type /\ n.levels[Len(m.levels)].traps[type].delayed
    BY <1>4, <1>11, <1>13, <1>14, <1>15, <1>16, <1>22 DEF v
<1>25. OK(n)
    BY <1>16, <1>17, <1>20, <1>21, <1>23, <1>24, RoutineOK
<1>26. Len(n.acts) > Len(m.acts)
    BY <1>2, <1>24
<1>27. OK(exiterror(m)) /\ Away(exiterror(m))
    BY ExiterrorOK
<1> QED  BY <1>3, <1>25, <1>26, <1>27

-----------------------------------------------------------------------------
(* The end of a clause.                                                    *)

LEMMA ToOK ==
  ASSUME NEW m, OK(m), NEW n
  PROVE  OK(To(m, n)) /\ (Away(To(m, n)) <=> Away(m))
BY TopFields DEF To

LEMMA AtOK ==
  ASSUME NEW m, OK(m), NEW where
  PROVE  LET n == At(m, where)
         IN  OK(n) /\ (Away(n) <=> m.ended # "no" \/ where # "reinterpret")
             /\ n.levels = m.levels /\ n.nextsig = m.nextsig
BY TopFields DEF At

LEMMA FakerecurseOK ==
  ASSUME NEW m, OK(m)
  PROVE  OK(Fakerecurse(m)) /\ Away(Fakerecurse(m))
BY AtOK DEF Fakerecurse

LEMMA NodesOK ==
  ASSUME NEW m, OK(m)
  PROVE  /\ OK(nstackpop(m)) /\ (Away(nstackpop(m)) <=> Away(m))
         /\ \A n : OK(nstackpush(m, n)) /\ (Away(nstackpush(m, n)) <=> Away(m))
BY FieldsOK DEF nstackpop, nstackpush

LEMMA FakereturnOK ==
  ASSUME NEW m, OK(m)
  PROVE  OK(Fakereturn(m)) /\ Away(Fakereturn(m))
<1> DEFINE n == To(m, Last(m.nstack))
<1>1. OK(n)
    BY ToOK
<1>2. OK(nstackpop(n))
  <2> HIDE DEF n
  <2> QED  BY <1>1, NodesOK
<1>3. OK(Fakerecurse(nstackpop(n))) /\ Away(Fakerecurse(nstackpop(n)))
  <2> HIDE DEF n
  <2> QED  BY <1>2, FakerecurseOK
<1>4. OK(At(m, "nothing")) /\ Away(At(m, "nothing"))
    BY AtOK
<1>5. OK(Fakerecurse(m)) /\ Away(Fakerecurse(m))
    BY FakerecurseOK
<1> QED  BY <1>3, <1>4, <1>5 DEF Fakereturn

LEMMA AdvanceOK ==
  ASSUME NEW m, OK(m)
  PROVE  OK(Advance(m)) /\ Away(Advance(m))
<1>1. OK(To(m, Node(m).next))
    BY ToOK
<1> QED  BY <1>1, FakereturnOK DEF Advance

LEMMA ReturnOK ==
  ASSUME NEW m, OK(m), NEW result, result # "reinterpret"
  PROVE  OK(Return(m, result)) /\ Away(Return(m, result))
<1>1. OK(Cleaned(m))
    BY CleanedOK
<1> QED  BY <1>1, AtOK DEF Return

\* The call of interpret() that is over has been taken off.
Popped(m) == [m EXCEPT !.acts = [Front(@) EXCEPT ![Len(m.acts) - 1].at = "reinterpret"]]

LEMMA Popping ==
  ASSUME NEW m, Shape(m), Len(m.acts) # 1
  PROVE  LET n == Popped(m)
         IN  /\ Shape(n) /\ Len(n.acts) = Len(m.acts) - 1
             /\ n.levels = m.levels /\ n.nextsig = m.nextsig
             /\ \A i \in 1 .. Len(n.acts) :
                   n.acts[i].why = m.acts[i].why /\ n.acts[i].type = m.acts[i].type
                   /\ n.acts[i].jumps = m.acts[i].jumps
<1> DEFINE a == Len(m.acts)
           k == a - 1
           p == SubSeq(m.acts, 1, k)
           b == [p[k] EXCEPT !.at = "reinterpret"]
           q == Put(p, k, b)
           n == [m EXCEPT !.acts = q]
<1>1. IsMachine(m) /\ IsList(m.acts) /\ a \in Nat /\ a > 0
    BY Sizes
<1>2. n = Popped(m)
    BY DEF Popped, Front, Put
<1>3. k \in Nat /\ k > 0 /\ k \in 1 .. k /\ k \in 0 .. Len(m.acts) /\ k \in 1 .. Len(m.acts)
      /\ k <= a
  <2>1. a \in Nat /\ a > 0
      BY <1>1
  <2>2. a = Len(m.acts)
      BY Zenon
  <2>3. a # 1
      BY Zenon
  <2> HIDE DEF a
  <2>4. a > 1
    <3>1. a = 1 \/ a > 1
        BY <2>1
    <3> QED  BY <2>3, <3>1
  <2> QED  BY <2>1, <2>4, <2>2
<1> HIDE DEF k
<1>4. IsList(p) /\ Len(p) = k /\ \A i \in 1 .. k : p[i] = m.acts[i]
    BY <1>1, <1>3, ListPrefix
<1> HIDE DEF p
<1>5. IsAct(b) /\ b.why = p[k].why /\ b.type = p[k].type /\ b.jumps = p[k].jumps
  <2> DEFINE o == p[k]
  <2>1. IsAct(o)
      BY <1>3, <1>4 DEF Shape
  <2> HIDE DEF o
  <2>2. LET x == [o EXCEPT !.at = "reinterpret"]
        IN  IsAct(x) /\ x.why = o.why /\ x.type = o.type /\ x.jumps = o.jumps
      BY <2>1 DEF IsAct, ActFields, HasFields
  <2> QED  BY <2>2 DEF o
<1> HIDE DEF b
<1>6. IsList(q) /\ Len(q) = k /\ q[k] = b /\ \A i \in 1 .. k : i # k => q[i] = p[i]
    BY <1>3, <1>4, ListPut
<1> HIDE DEF q
<1>7. IsMachine(n) /\ n.acts = q /\ n.levels = m.levels /\ n.nextsig = m.nextsig
    BY <1>1 DEF IsMachine, MachineFields, HasFields
<1> HIDE DEF n
<1>8. ASSUME NEW i \in 1 .. k
      PROVE  IsAct(q[i]) /\ q[i].why = m.acts[i].why /\ q[i].type = m.acts[i].type
             /\ q[i].jumps = m.acts[i].jumps
  <2>1. CASE i = k
      BY <1>4, <1>5, <1>6, <2>1
  <2>2. CASE i # k
    <3>1. q[i] = m.acts[i] /\ i \in 1 .. Len(m.acts)
      <4> HIDE DEF a
      <4>1. i \in 1 .. a
          BY <1>1, <1>3
      <4> QED  BY <1>4, <1>6, <2>2, <4>1 DEF a
    <3> QED  BY <3>1 DEF Shape
  <2> QED  BY <2>1, <2>2
<1>9. Shape(n)
    BY <1>3, <1>6, <1>7, <1>8 DEF Shape
<1> QED  BY <1>2, <1>6, <1>7, <1>8, <1>9 DEF k

LEMMA Removing ==
  ASSUME NEW m, Shape(m), NEW a, Len(m.levels) # 1
  PROVE  LET n == CallReturned(m, a)
         IN  /\ Shape(n) /\ n.acts = m.acts /\ n.nextsig = m.nextsig
             /\ Len(n.levels) = Len(m.levels) - 1
             /\ \A k \in 1 .. Len(n.levels) : n.levels[k] = m.levels[k]
<1> DEFINE v == Len(m.levels)
           k == v - 1
           q == SubSeq(m.levels, 1, k)
           x == a.mark - 1
           n1 == [m EXCEPT !.callstack = x]
           n == [n1 EXCEPT !.levels = q]
<1>1. IsMachine(m) /\ IsList(m.levels) /\ v \in Nat /\ v > 0
    BY Sizes
<1>2. k \in Nat /\ k > 0 /\ k \in 0 .. Len(m.levels) /\ k <= v
  <2>1. v \in Nat /\ v > 0
      BY <1>1
  <2>2. v = Len(m.levels)
      BY Zenon
  <2>3. v # 1
      BY Zenon
  <2> HIDE DEF v
  <2>4. v > 1
    <3>1. v = 1 \/ v > 1
        BY <2>1
    <3> QED  BY <2>3, <3>1
  <2> QED  BY <2>1, <2>4, <2>2
<1>3. IsMachine(n1) /\ n1.acts = m.acts /\ n1.levels = m.levels /\ n1.nextsig = m.nextsig
  <2> HIDE DEF x
  <2> QED  BY <1>1 DEF IsMachine, MachineFields, HasFields
<1>4. n = CallReturned(m, a)
    BY <1>3 DEF CallReturned, removelevel, Front
<1> HIDE DEF n1, k
<1>5. IsList(q) /\ Len(q) = k /\ \A i \in 1 .. k : q[i] = m.levels[i]
    BY <1>1, <1>2, ListPrefix
<1> HIDE DEF q
<1>6. IsMachine(n) /\ n.acts = m.acts /\ n.levels = q /\ n.nextsig = m.nextsig
    BY <1>3 DEF IsMachine, MachineFields, HasFields
<1> HIDE DEF n
<1>7. \A i \in 1 .. k : IsLevel(q[i])
  <2> SUFFICES ASSUME NEW i \in 1 .. k  PROVE IsLevel(q[i])
      OBVIOUS
  <2> HIDE DEF v
  <2>1. i \in 1 .. v
      BY <1>1, <1>2
  <2> QED  BY <1>5, <2>1 DEF Shape, v
<1>8. Shape(n)
    BY <1>2, <1>5, <1>6, <1>7 DEF Shape
<1> QED  BY <1>4, <1>5, <1>6, <1>8 DEF k

\* A routine returns: its call and its level are gone, and a condition that its handler
\* has dealt with is delayed no longer.
LEMMA RoutineOverOK ==
  ASSUME NEW m, OK(m), IsRoutine(Top(m)), NEW n, Shape(n), NEW b, NEW w,
         b = Len(n.acts), w = Len(n.levels), Len(m.acts) = b + 1, Len(m.levels) = w + 1,
         \A i \in 1 .. b :
            n.acts[i].why = m.acts[i].why /\ n.acts[i].type = m.acts[i].type
            /\ (n.acts[i].jumps <=> m.acts[i].jumps),
         \A k \in 1 .. w :
            /\ n.levels[k].jump
            /\ n.levels[k].traps["SYNTAX"].on => n.levels[k].traps["SYNTAX"].signal
            /\ k < w => n.levels[k] = m.levels[k],
         \A c \in Conditions : n.levels[w].traps[c].delayed =>
            m.levels[w].traps[c].delayed /\ ~(Top(m).why = "handler" /\ c = Top(m).type)
  PROVE  OK(n)
<1>1. Shape(m) /\ Called(m.acts) /\ Leveled(m) /\ Delays(m)
    BY DEF OK
<1>2. b \in Nat /\ b > 0 /\ w \in Nat /\ w > 0
    BY Sizes
<1>3. Top(m) = m.acts[b + 1]
    BY DEF Top, Last
<1>4. w = DepthOf(m.acts, b) + 1 /\ DepthOf(m.acts, b) \in Nat /\ DepthOf(m.acts, b + 1) = w
  <2>1. w + 1 = DepthOf(m.acts, b + 1) + 1
      BY <1>1 DEF Leveled
  <2>2. DepthOf(m.acts, b + 1) = DepthOf(m.acts, b) + 1
      BY <1>2, <1>3, DepthNext, ZenonT(30)
  <2>3. DepthOf(m.acts, b) \in Nat
      BY <1>2, DepthNat
  <2> DEFINE d == DepthOf(m.acts, b)
             e == DepthOf(m.acts, b + 1)
  <2>4. w + 1 = e + 1 /\ e = d + 1 /\ d \in Nat
      BY <2>1, <2>2, <2>3
  <2> HIDE DEF d, e
  <2>5. w = d + 1 /\ e = w
      BY <1>2, <2>4
  <2> QED  BY <2>3, <2>5 DEF d, e
<1>5. \A i \in 1 .. b : IsRoutine(n.acts[i]) <=> IsRoutine(m.acts[i])
    BY DEF IsRoutine
<1>6. Called(n.acts)
  <2> SUFFICES ASSUME NEW i \in 1 .. b
               PROVE  /\ n.acts[i].why \in IF i = 1 THEN {"main"}
                                           ELSE {"call", "function", "interpret", "handler"}
                      /\ n.acts[i].jumps <=> i = 1 \/ IsRoutine(n.acts[i])
                      /\ n.acts[i].why = "handler" => n.acts[i].type \in Conditions
      BY DEF Called
  <2>1. i \in 1 .. b + 1
      BY <1>2
  <2> QED  BY <1>1, <1>5, <2>1 DEF Called
<1>7. ASSUME NEW i \in 0 .. b  PROVE DepthOf(n.acts, i) = DepthOf(m.acts, i)
  <2>1. \A j \in 1 .. i : IsRoutine(n.acts[j]) <=> IsRoutine(m.acts[j])
      BY <1>2, <1>5
  <2> QED  BY <2>1, DepthSame, SMTT(30)
<1>8. DepthOf(n.acts, b) + 1 = w
  <2>1. b \in 0 .. b
      BY <1>2
  <2> QED  BY <1>4, <1>7, <2>1
<1>9. Leveled(n)
    BY <1>8 DEF Leveled
<1>10. ASSUME NEW i \in 1 .. b, n.acts[i].why = "handler"
       PROVE  n.levels[DepthOf(n.acts, i)].traps[n.acts[i].type].delayed
  <2>1. m.acts[i].why = "handler" /\ n.acts[i].type = m.acts[i].type
      BY <1>10
  <2>2. DepthOf(m.acts, i) \in 1 .. DepthOf(m.acts, b)
      BY <1>2, <2>1, DepthRange DEF IsRoutine
  <2>3. DepthOf(m.acts, i) \in 1 .. w /\ DepthOf(m.acts, i) < w
    <3> DEFINE d == DepthOf(m.acts, i)
               e == DepthOf(m.acts, b)
    <3>1. d \in 1 .. e /\ e \in Nat /\ w = e + 1
        BY <1>4, <2>2
    <3> HIDE DEF d, e
    <3>2. d \in 1 .. w /\ d < w
        BY <3>1
    <3> QED  BY <3>2 DEF d
  <2>4. n.levels[DepthOf(m.acts, i)] = m.levels[DepthOf(m.acts, i)]
      BY <2>3
  <2>5. DepthOf(n.acts, i) = DepthOf(m.acts, i)
    <3>1. i \in 0 .. b
        BY <1>2
    <3> QED  BY <1>7, <3>1
  <2>6. i \in 1 .. Len(m.acts)
      BY <1>2
  <2> QED  BY <1>1, <2>1, <2>4, <2>5, <2>6 DEF Delays
<1>11. ASSUME NEW k \in 1 .. w, NEW c \in Conditions, n.levels[k].traps[c].delayed
       PROVE  \E i \in 1 .. b : n.acts[i].why = "handler" /\ n.acts[i].type = c
                                /\ DepthOf(n.acts, i) <= k
  <2>1. k \in 1 .. Len(m.levels) /\ k <= w /\ (k < w \/ k = w) /\ k \in Nat
      BY <1>2
  <2>2. m.levels[k].traps[c].delayed
      BY <1>11, <2>1
  <2>3. PICK i \in 1 .. b + 1 : m.acts[i].why = "handler" /\ m.acts[i].type = c
                               /\ DepthOf(m.acts, i) <= k
      BY <1>1, <2>1, <2>2 DEF Delays
  <2>4. i # b + 1
    <3> SUFFICES ASSUME i = b + 1  PROVE FALSE
        OBVIOUS
    <3>1. w <= k
        BY <1>4, <2>3
    <3>2. k = w
        BY <1>2, <2>1, <3>1
    <3> QED  BY <1>3, <1>11, <2>3, <3>2
  <2>5. i \in 1 .. b /\ i \in 0 .. b
      BY <1>2, <2>4
  <2>6. DepthOf(n.acts, i) = DepthOf(m.acts, i)
      BY <1>7, <2>5
  <2> QED  BY <2>3, <2>5, <2>6
<1>12. Delays(n)
    BY <1>10, <1>11 DEF Delays
<1> QED  BY <1>6, <1>9, <1>12 DEF OK

LEMMA ReturnedOK ==
  ASSUME NEW m, OK(m)
  PROVE  OK(Returned(m)) /\ Away(Returned(m))
<1> DEFINE a == Top(m)
           u == Popped(m)
           c == CallReturned(u, a)
           l == [Level(c) EXCEPT !.traps[a.type].delayed = FALSE]
           h == Setting(c, l)
           k == Len(m.acts)
           v == Len(m.levels)
<1>1. Shape(m) /\ Called(m.acts) /\ Leveled(m) /\ Like(m, m)
    BY Alike DEF OK
<1>2. k \in Nat /\ k > 0 /\ k \in 1 .. k /\ v \in Nat /\ v > 0 /\ a = m.acts[k]
    BY <1>1, Sizes
<1>3. Returned(m) =
        CASE a.why = "main" -> [m EXCEPT !.ended = "end"]
          [] a.why = "call" -> Advance(c)
          [] a.why = "function" -> IF a.at = "nothing" THEN exiterror(c) ELSE Advance(c)
          [] a.why = "interpret" -> IF a.at = "nothing" THEN Advance(u) ELSE Return(u, "value")
          [] a.why = "handler" -> Fakerecurse(h)
  <2>1. h = [c EXCEPT !.levels[Len(c.levels)].traps[a.type].delayed = FALSE]
      BY DEF Setting, Level, Last
  <2> QED  BY <2>1 DEF Returned, Popped
<1>4. a.why \in {"main", "call", "function", "interpret", "handler"}
      /\ (a.why # "main" => k # 1) /\ (a.why = "handler" => a.type \in Conditions)
    BY <1>1, <1>2 DEF Called
<1>5. CASE a.why = "main"
  <2>1. Returned(m) = [m EXCEPT !.ended = "end"]
      BY <1>3, <1>5
  <2>2. OK([m EXCEPT !.ended = "end"]) /\ Away([m EXCEPT !.ended = "end"])
      BY FieldsOK
  <2> QED  BY <2>1, <2>2
<1> HIDE DEF l, h, c, u, k, v
<1>6. ASSUME a.why # "main"
      PROVE  /\ Shape(u) /\ Len(u.acts) = k - 1 /\ u.levels = m.levels /\ u.nextsig = m.nextsig
             /\ \A i \in 1 .. k - 1 :
                   u.acts[i].why = m.acts[i].why /\ u.acts[i].type = m.acts[i].type
                   /\ u.acts[i].jumps = m.acts[i].jumps
  <2>1. Len(m.acts) # 1
      BY <1>4, <1>6 DEF k
  <2> QED  BY <1>1, <2>1, Popping DEF u, k
<1>7. CASE a.why = "interpret"
  <2>1. /\ Shape(u) /\ Len(u.acts) = k - 1 /\ u.levels = m.levels
        /\ \A i \in 1 .. k - 1 :
              u.acts[i].why = m.acts[i].why /\ u.acts[i].type = m.acts[i].type
              /\ u.acts[i].jumps = m.acts[i].jumps
      BY <1>6, <1>7
  <2>2. k - 1 \in Nat /\ k - 1 <= k
      BY <1>2
  <2>3. \A i \in 1 .. k : IsRoutine(m.acts[i]) => i <= k - 1
    <3>1. ~IsRoutine(m.acts[k])
        BY <1>2, <1>7 DEF IsRoutine
    <3> QED  BY <1>2, <3>1
  <2>4. Like(u, m)
    <3>1. Len(u.acts) > 0
        BY <2>1, Sizes
    <3>2. \A i \in 1 .. Len(u.acts) :
            IsAct(u.acts[i]) /\ u.acts[i].why = m.acts[i].why /\ u.acts[i].type = m.acts[i].type
            /\ (u.acts[i].jumps <=> m.acts[i].jumps)
        BY <2>1 DEF Shape
    <3> QED  BY <1>1, <2>1, <2>2, <2>3, <3>1, <3>2 DEF Like, Shape, k
  <2>5. OK(u)
      BY <2>4, LikeOK
  <2>6. Returned(m) = IF a.at = "nothing" THEN Advance(u) ELSE Return(u, "value")
      BY <1>3, <1>7
  <2> QED  BY <2>5, <2>6, AdvanceOK, ReturnOK
<1>8. CASE IsRoutine(a)
  <2>1. a.why # "main" /\ a.why \in {"call", "function", "handler"}
      BY <1>8 DEF IsRoutine
  <2>2. /\ Shape(u) /\ Len(u.acts) = k - 1 /\ u.levels = m.levels
        /\ \A i \in 1 .. k - 1 :
              u.acts[i].why = m.acts[i].why /\ u.acts[i].type = m.acts[i].type
              /\ u.acts[i].jumps = m.acts[i].jumps
      BY <1>6, <2>1
  <2>3. v # 1 /\ v - 1 \in Nat /\ v - 1 > 0 /\ v = (v - 1) + 1
    <3> DEFINE d == DepthOf(m.acts, k)
    <3>1. d \in 1 .. d
        BY <1>2, <1>8, DepthRange
    <3>2. v = d + 1
        BY <1>1 DEF Leveled, v, k
    <3>3. d \in Nat
        BY <1>2, DepthNat
    <3> HIDE DEF d
    <3> QED  BY <3>1, <3>2, <3>3
  <2>4. /\ Shape(c) /\ c.acts = u.acts /\ Len(c.levels) = v - 1
        /\ \A i \in 1 .. v - 1 : c.levels[i] = m.levels[i]
    <3>1. Len(u.levels) # 1
        BY <2>2, <2>3 DEF v
    <3>2. /\ Shape(c) /\ c.acts = u.acts /\ Len(c.levels) = Len(u.levels) - 1
          /\ \A i \in 1 .. Len(c.levels) : c.levels[i] = u.levels[i]
        BY <2>2, <3>1, Removing DEF c
    <3> QED  BY <2>2, <3>2 DEF v
  <2>5. Level(c) = c.levels[v - 1] /\ v - 1 \in 1 .. v - 1 /\ Level(c) = m.levels[v - 1]
        /\ v - 1 \in 1 .. v
    <3>1. v - 1 \in 1 .. v - 1 /\ v - 1 \in 1 .. v
        BY <2>3
    <3> QED  BY <2>4, <3>1 DEF Level, Last
  <2>6. Level(c).jump /\ (Level(c).traps["SYNTAX"].on => Level(c).traps["SYNTAX"].signal)
        /\ IsLevel(Level(c))
      BY <1>1, <2>5 DEF Leveled, Shape, v
  <2>7. ASSUME NEW n, Shape(n), n.acts = c.acts, Len(n.levels) = v - 1,
               \A i \in 1 .. v - 1 : i < v - 1 => n.levels[i] = c.levels[i],
               n.levels[v - 1].jump,
               n.levels[v - 1].traps["SYNTAX"].on => n.levels[v - 1].traps["SYNTAX"].signal,
               \A d \in Conditions : n.levels[v - 1].traps[d].delayed =>
                  m.levels[v - 1].traps[d].delayed /\ ~(a.why = "handler" /\ d = a.type)
        PROVE  OK(n)
    <3> DEFINE b == k - 1
               w == v - 1
    <3>1. b = Len(n.acts) /\ w = Len(n.levels)
        BY <2>2, <2>4, <2>7
    <3>2. Len(m.acts) = b + 1 /\ Len(m.levels) = w + 1
        BY <1>2 DEF k, v
    <3>3. \A i \in 1 .. b : n.acts[i].why = m.acts[i].why /\ n.acts[i].type = m.acts[i].type
                            /\ (n.acts[i].jumps <=> m.acts[i].jumps)
        BY <2>2, <2>4, <2>7
    <3>4. ASSUME NEW i \in 1 .. w
          PROVE  /\ n.levels[i].jump
                 /\ n.levels[i].traps["SYNTAX"].on => n.levels[i].traps["SYNTAX"].signal
                 /\ i < w => n.levels[i] = m.levels[i]
      <4>1. i < w \/ i = w
          BY <2>3
      <4>2. i \in 1 .. v
          BY <1>2
      <4>3. CASE i < w
        <5>1. n.levels[i] = m.levels[i]
            BY <2>4, <2>7, <4>3
        <5> QED  BY <1>1, <4>2, <5>1 DEF Leveled, v
      <4>4. CASE i = w
          BY <2>3, <2>7, <4>4
      <4> QED  BY <4>1, <4>3, <4>4
    <3>5. \A d \in Conditions : n.levels[w].traps[d].delayed =>
            m.levels[w].traps[d].delayed /\ ~(a.why = "handler" /\ d = a.type)
        BY <2>7
    <3> HIDE DEF b, w
    <3> QED  BY <1>8, <2>7, <3>1, <3>2, <3>3, <3>4, <3>5, RoutineOverOK, ZenonT(30)
  <2>8. CASE a.why # "handler"
    <3>1. OK(c)
        BY <2>4, <2>5, <2>6, <2>7, <2>8
    <3>2. Returned(m) = IF a.why = "function" /\ a.at = "nothing" THEN exiterror(c) ELSE Advance(c)
        BY <1>3, <2>1, <2>8
    <3> QED  BY <3>1, <3>2, AdvanceOK, ExiterrorOK
  <2>9. CASE a.why = "handler"
    <3>1. a.type \in Conditions
        BY <1>4, <2>9
    <3>2. LessDelayed(l, Level(c)) /\ l.traps[a.type].delayed = FALSE
        BY <2>6, <3>1, Delayless DEF l
    <3> DEFINE p == c.levels
               w == v - 1
               q == Put(p, w, l)
    <3>3. IsList(p) /\ Len(p) = w /\ w \in 1 .. Len(p)
        BY <2>4, <2>5 DEF Shape
    <3>4. IsList(q) /\ Len(q) = w /\ q[w] = l /\ \A i \in 1 .. w : i # w => q[i] = p[i]
      <4> HIDE DEF p, w
      <4> QED  BY <3>3, ListPut
    <3>5. h = [c EXCEPT !.levels = q]
        BY <2>4 DEF h, Setting, Put
    <3> HIDE DEF q
    <3>6. IsMachine(h) /\ h.acts = c.acts /\ h.levels = q /\ h.nextsig = c.nextsig
      <4>1. IsMachine(c)
          BY <2>4 DEF Shape
      <4> QED  BY <3>5, <4>1 DEF IsMachine, MachineFields, HasFields
    <3>7. \A i \in 1 .. w : IsLevel(q[i])
      <4> SUFFICES ASSUME NEW i \in 1 .. w  PROVE IsLevel(q[i])
          OBVIOUS
      <4>1. CASE i = w
          BY <3>2, <3>4, <4>1 DEF LessDelayed
      <4>2. CASE i # w
          BY <2>4, <3>4, <4>2 DEF Shape
      <4> QED  BY <4>1, <4>2
    <3>8. Shape(h)
        BY <2>3, <2>4, <3>4, <3>6, <3>7 DEF Shape
    <3>9. \A i \in 1 .. w : i < w => h.levels[i] = c.levels[i]
        BY <2>3, <3>4, <3>6
    <3>10. h.levels[w] = l
        BY <3>4, <3>6
    <3>11. l.jump /\ (l.traps["SYNTAX"].on => l.traps["SYNTAX"].signal)
          /\ \A d \in Conditions : l.traps[d].delayed => m.levels[w].traps[d].delayed
        BY <2>5, <3>2 DEF LessDelayed
    <3>12. OK(h)
        BY <2>7, <3>2, <3>4, <3>6, <3>8, <3>9, <3>10, <3>11
    <3>13. Returned(m) = Fakerecurse(h)
        BY <1>3, <2>9
    <3> QED  BY <3>12, <3>13, FakerecurseOK
  <2> QED  BY <2>8, <2>9
<1> QED  BY <1>4, <1>5, <1>7, <1>8 DEF IsRoutine

LEMMA TakenOK ==
  ASSUME NEW m, OK(m), m.nextsig # "none"
  PROVE  LET n == Taken(m)
         IN  /\ OK(n)
             /\ \/ Away(n) \/ Len(n.acts) > Len(m.acts) \/ n.nextsig = "none"
                \/ n.levels = m.levels /\ n.nextsig = m.nextsig
                   /\ ~(Level(m).traps[m.nextsig].on /\ ~Level(m).traps[m.nextsig].delayed)
<1> DEFINE type == m.nextsig
           t == Level(m).traps[type]
<1>1. Shape(m) /\ Leveled(m) /\ type \in Conditions
    BY DEF OK, Shape
<1>2. Taken(m) =
        IF t.delayed \/ (~t.on /\ default_action[type]) THEN At(m, "reinterpret")
        ELSE IF ~t.on THEN Died(m)
        ELSE IF t.signal THEN SignalTaken(m, type) ELSE CallTaken(m, type)
    BY DEF Taken
<1>3. /\ OK(At(m, "reinterpret")) /\ At(m, "reinterpret").levels = m.levels
      /\ At(m, "reinterpret").nextsig = m.nextsig
    BY AtOK
<1>4. OK(Died(m)) /\ Away(Died(m))
    BY FieldsOK DEF Died
<1>5. /\ OK(SignalTaken(m, type))
      /\ Away(SignalTaken(m, type)) \/ SignalTaken(m, type).nextsig = "none"
  <2> DEFINE l == [Level(m) EXCEPT !.traps[type].on = FALSE, !.traps[type].delayed = FALSE]
             n1 == Setting(m, l)
             n2 == [n1 EXCEPT !.nextsig = "none"]
             c == Cleaned(n2)
             name == Level(m).traps[type].name
             e == To(c, Entry(name))
             f == At(e, "reinterpret")
  <2>1. LessDelayed(l, Level(m))
    <3>1. IsLevel(Level(m)) /\ Level(m).jump
          /\ (Level(m).traps["SYNTAX"].on => Level(m).traps["SYNTAX"].signal)
        BY <1>1, Sizes DEF Leveled
    <3> HIDE DEF type
    <3> QED  BY <1>1, <3>1, TrapOff
  <2>2. SignalTaken(m, type) = IF Callable(name) = {} THEN exiterror(c) ELSE f
      BY DEF SignalTaken
  <2> HIDE DEF l
  <2>3. OK(n1)
      BY <2>1, LevelOK
  <2> HIDE DEF n1
  <2>4. OK(n2) /\ n2.nextsig = "none"
    <3>1. IsMachine(n1)
        BY <2>3 DEF OK, Shape
    <3>2. n2.nextsig = "none"
        BY <3>1 DEF IsMachine, MachineFields, HasFields
    <3>3. OK(n2)
        BY <2>3, FieldsOK
    <3> QED  BY <3>2, <3>3
  <2> HIDE DEF n2
  <2>5. OK(c) /\ c.nextsig = "none"
      BY <2>4, CleanedOK
  <2> HIDE DEF c
  <2>6. OK(e) /\ e.nextsig = "none"
      BY <2>5, TopFields DEF To
  <2> HIDE DEF e
  <2>7. OK(f) /\ f.nextsig = "none"
      BY <2>6, AtOK
  <2>8. OK(exiterror(c)) /\ Away(exiterror(c))
      BY <2>5, ExiterrorOK
  <2> HIDE DEF f
  <2> QED  BY <2>2, <2>7, <2>8
<1>6. /\ OK(CallTaken(m, type))
      /\ Away(CallTaken(m, type)) \/ Len(CallTaken(m, type).acts) > Len(m.acts)
    BY <1>1, CallTakenOK
<1> HIDE DEF t
<1> QED  BY <1>2, <1>3, <1>4, <1>5, <1>6 DEF t

-----------------------------------------------------------------------------
(* The clauses.                                                            *)

LEMMA ThenOK ==
  ASSUME NEW m, OK(m), NEW n, ~Away(m) => OK(n) /\ Away(n)
  PROVE  OK(Then(m, n)) /\ Away(Then(m, n))
BY DEF Then

\* Clauses that push nodes to go on with.
LEMMA GoesInto ==
  ASSUME NEW m, OK(m), NEW n
  PROVE  OK(Fakerecurse(To(m, n))) /\ Away(Fakerecurse(To(m, n)))
BY ToOK, FakerecurseOK

LEMMA GroupsOK ==
  ASSUME NEW m, OK(m), NEW truth
  PROVE  /\ OK(IfClause(m, truth)) /\ Away(IfClause(m, truth))
         /\ OK(SelectClause(m)) /\ Away(SelectClause(m))
         /\ OK(WhenClause(m, truth)) /\ Away(WhenClause(m, truth))
         /\ OK(Group(m)) /\ Away(Group(m))
<1>1. OK(nstackpush(m, Node(m).next)) /\ OK(nstackpop(m))
    BY NodesOK
<1>2. OK(nstackpush(nstackpush(m, Node(m).next), Node(m).other))
    BY <1>1, NodesOK
<1>3. OK(IfClause(m, truth)) /\ Away(IfClause(m, truth))
    BY <1>1, GoesInto DEF IfClause
<1>4. OK(SelectClause(m)) /\ Away(SelectClause(m))
    BY <1>2, GoesInto DEF SelectClause
<1>5. OK(WhenClause(m, truth)) /\ Away(WhenClause(m, truth))
    BY <1>1, GoesInto, AdvanceOK DEF WhenClause
<1>6. OK(Group(m)) /\ Away(Group(m))
    BY <1>1, GoesInto DEF Group
<1> QED  BY <1>3, <1>4, <1>5, <1>6

\* A change of what is not in the calls leaves the innermost call where it is.
LEMMA Elsewhere ==
  ASSUME NEW m, OK(m), NEW x
  PROVE  /\ [m EXCEPT !.stack = x].acts = m.acts
         /\ [m EXCEPT !.nstack = x].acts = m.acts
         /\ [m EXCEPT !.callstack = x].acts = m.acts
         /\ [m EXCEPT !.iter = x].acts = m.acts
<1>1. IsMachine(m)
    BY DEF OK, Shape
<1> QED  BY <1>1 DEF IsMachine, MachineFields, HasFields

LEMMA TopKept ==
  ASSUME NEW m, OK(m), NEW x
  PROVE  /\ Len([m EXCEPT !.acts[Len(m.acts)].inner = x].acts) = Len(m.acts)
         /\ Len([m EXCEPT !.acts[Len(m.acts)].s = x].acts) = Len(m.acts)
<1> DEFINE k == Len(m.acts)
           b1 == [m.acts[k] EXCEPT !.inner = x]
           b2 == [m.acts[k] EXCEPT !.s = x]
           q1 == Put(m.acts, k, b1)
           q2 == Put(m.acts, k, b2)
<1>1. IsMachine(m) /\ IsList(m.acts) /\ k \in 1 .. Len(m.acts)
    BY Sizes DEF OK
<1>2. [m EXCEPT !.acts[Len(m.acts)].inner = x] = [m EXCEPT !.acts = q1]
    BY DEF Put
<1>3. [m EXCEPT !.acts[Len(m.acts)].s = x] = [m EXCEPT !.acts = q2]
    BY DEF Put
<1> HIDE DEF b1, b2
<1>4. Len(q1) = k /\ Len(q2) = k
    BY <1>1, ListPut
<1> HIDE DEF q1, q2
<1>5. [m EXCEPT !.acts = q1].acts = q1 /\ [m EXCEPT !.acts = q2].acts = q2
    BY <1>1 DEF IsMachine, MachineFields, HasFields
<1> QED  BY <1>2, <1>3, <1>4, <1>5

LEMMA OutwardsOK ==
  ASSUME NEW m, OK(m)
  PROVE  OK(Outwards(m)) /\ (Away(Outwards(m)) <=> Away(m))
<1> DEFINE x == Front(m.stack)
           n1 == [m EXCEPT !.stack = x]
           y == Last(m.stack).loop
           n2 == [n1 EXCEPT !.acts[Len(n1.acts)].inner = y]
           z == Last(m.stack)
           n3 == [n2 EXCEPT !.acts[Len(n2.acts)].s = z]
           n4 == [m EXCEPT !.acts[Len(m.acts)].inner = Nil]
<1>1. OK(n4) /\ (Away(n4) <=> Away(m))
    BY TopFields
<1>2. OK(n1) /\ (Away(n1) <=> Away(m))
    BY FieldsOK
<1>3. n1.acts = m.acts
    BY Elsewhere
<1> HIDE DEF x, y, z
<1>4. OK(n2) /\ (Away(n2) <=> Away(n1)) /\ Len(n2.acts) = Len(n1.acts)
  <2> HIDE DEF n1
  <2> QED  BY <1>2, TopFields, TopKept
<1>5. OK(n3) /\ (Away(n3) <=> Away(n2))
  <2> HIDE DEF n2
  <2> QED  BY <1>4, TopFields
<1>6. Outwards(m) = IF Len(m.stack) <= Top(m).strigger THEN n4 ELSE n3
  <2>1. n3 = [n2 EXCEPT !.acts[Len(m.acts)].s = z]
      BY <1>3, <1>4
  <2>2. n2 = [n1 EXCEPT !.acts[Len(m.acts)].inner = y]
      BY <1>3
  <2> HIDE DEF n3, n2
  <2> QED  BY <2>1, <2>2 DEF Outwards, x, y, z
<1> HIDE DEF n3, n4
<1> QED  BY <1>1, <1>2, <1>4, <1>5, <1>6

LEMMA EndloopOK ==
  ASSUME NEW m, OK(m)
  PROVE  OK(Endloop(m)) /\ Away(Endloop(m))
BY NodesOK, OutwardsOK, AdvanceOK DEF Endloop

LEMMA CallstackOK ==
  ASSUME NEW m, OK(m)
  PROVE  /\ OK(pushcallstack(m)) /\ (Away(pushcallstack(m)) <=> Away(m))
         /\ pushcallstack(m).acts = m.acts
         /\ \A n : OK(popcallstack(m, n)) /\ (Away(popcallstack(m, n)) <=> Away(m))
                   /\ popcallstack(m, n).acts = m.acts
<1>1. OK(pushcallstack(m)) /\ (Away(pushcallstack(m)) <=> Away(m)) /\ pushcallstack(m).acts = m.acts
    BY FieldsOK, Elsewhere DEF pushcallstack
<1>2. ASSUME NEW n
      PROVE  OK(popcallstack(m, n)) /\ (Away(popcallstack(m, n)) <=> Away(m))
             /\ popcallstack(m, n).acts = m.acts
    BY FieldsOK, Elsewhere DEF popcallstack
<1> QED  BY <1>1, <1>2

LEMMA CountedOK ==
  ASSUME NEW m, OK(m)
  PROVE  OK(Counted(m)) /\ (Away(Counted(m)) <=> Away(m))
<1> DEFINE s == m.acts[Len(m.acts)].s
           x == [s EXCEPT !.number = {k - 1 : k \in s.number}]
           n == [m EXCEPT !.acts[Len(m.acts)].s = x]
<1>1. Counted(m) = n
    BY DEF Counted
<1> HIDE DEF x
<1>2. OK(n) /\ (Away(n) <=> Away(m))
    BY TopFields
<1> QED  BY <1>1, <1>2

LEMMA BodyOK ==
  ASSUME NEW m, OK(m)
  PROVE  OK(Body(m)) /\ Away(Body(m))
<1> DEFINE n1 == nstackpush(pushcallstack(m), Top(m).this)
           x == Top(m).this
           n2 == [n1 EXCEPT !.acts[Len(n1.acts)].inner = x]
<1>1. OK(pushcallstack(m)) /\ pushcallstack(m).acts = m.acts
    BY CallstackOK
<1>2. OK(n1)
    BY <1>1, NodesOK
<1>3. n1.acts = m.acts
    BY <1>1, Elsewhere DEF nstackpush
<1>4. Body(m) = Fakerecurse(To(n2, Node(m).body))
    BY <1>3 DEF Body
<1> HIDE DEF n1, x
<1>5. OK(n2)
    BY <1>2, TopFields
<1> HIDE DEF n2
<1> QED  BY <1>4, <1>5, GoesInto

LEMMA StartloopOK ==
  ASSUME NEW m, OK(m), NEW raised \in Conditions \cup {"none"}, NEW truth
  PROVE  OK(Startloop(m, raised, truth)) /\ Away(Startloop(m, raised, truth))
<1>1. ASSUME NEW n, OK(n)  PROVE OK(While(n, truth)) /\ Away(While(n, truth))
  <2> DEFINE w == IF Node(n).test = "while" /\ ~truth THEN Endloop(n)
                  ELSE IF Node(n).body = Nil THEN At(n, "until") ELSE Body(n)
  <2>1. OK(At(n, "until")) /\ Away(At(n, "until"))
      BY <1>1, AtOK
  <2>2. OK(w) /\ Away(w)
      BY <1>1, <2>1, EndloopOK, BodyOK
  <2>3. While(n, truth) = Then(n, w)
      BY DEF While
  <2> HIDE DEF w
  <2> QED  BY <1>1, <2>2, <2>3, ThenOK
<1>2. OK(Counted(m)) /\ OK(Evaluate(Counted(m), raised))
    BY CountedOK, EvaluateOK
<1> QED  BY <1>1, <1>2, EndloopOK DEF Startloop

LEMMA EnteredOK ==
  ASSUME NEW m, OK(m)
  PROVE  OK(Entered(m)) /\ OK(Incremented(m)) /\ \A n : OK(Primed(m, n))
<1>1. OK(Entered(m))
  <2> DEFINE x == Append(m.nstack, Node(m).next)
             n == [m EXCEPT !.nstack = x]
             y == IF Top(m).inner = Nil THEN n.stack
                  ELSE Append(n.stack, [Top(m).s EXCEPT !.loop = Top(m).inner])
             p == [n EXCEPT !.stack = y]
  <2>1. p = Entered(m)
      BY DEF Entered
  <2> HIDE DEF x, y
  <2>2. OK(n)
      BY FieldsOK
  <2> HIDE DEF n
  <2>3. OK(p)
      BY <2>2, FieldsOK
  <2> QED  BY <2>1, <2>3
<1>2. OK(Incremented(m))
  <2> DEFINE by == Top(m).s.increment
             v == m.iter[Node(m).name] + (IF by = {} THEN 1 ELSE CHOOSE x \in by : TRUE)
             z == [m.iter EXCEPT ![Node(m).name] = v]
             n == [m EXCEPT !.iter = z]
  <2>1. Incremented(m) = IF Node(m).name = "" THEN m ELSE n
      BY DEF Incremented
  <2> HIDE DEF z
  <2>2. OK(n)
      BY FieldsOK
  <2> QED  BY <2>1, <2>2
<1>3. ASSUME NEW n  PROVE OK(Primed(m, n))
  <2> DEFINE x == [m.iter EXCEPT ![n.name] = n.from]
             p == [m EXCEPT !.iter = x]
             y == [NoLoop EXCEPT !.number = n.count, !.stopval = n.to, !.increment = n.by,
                                 !.incrdir = IF \E i \in n.by : i < 0 THEN -1 ELSE 1]
             q == [p EXCEPT !.acts[Len(p.acts)].s = y]
  <2>1. p.acts = m.acts
    <3> HIDE DEF x
    <3> QED  BY Elsewhere
  <2>2. q = Primed(m, n)
      BY <2>1 DEF Primed
  <2> HIDE DEF x, y
  <2>3. OK(p)
      BY FieldsOK
  <2> HIDE DEF p
  <2>4. OK(q)
      BY <2>3, TopFields
  <2> QED  BY <2>2, <2>4
<1> QED  BY <1>1, <1>2, <1>3

LEMMA LoopOK ==
  ASSUME NEW m, OK(m), NEW raised \in Conditions \cup {"none"}, NEW truth
  PROVE  OK(Loop(m, raised, truth)) /\ Away(Loop(m, raised, truth))
<1> DEFINE e == IF Node(m).test = "while" THEN Entered(m) ELSE Evaluate(Entered(m), raised)
           p == Primed(e, Node(e))
<1>1. OK(e)
    BY EnteredOK, EvaluateOK
<1>2. Loop(m, raised, truth) = Then(e, Startloop(p, raised, truth))
    BY DEF Loop, Begun
<1> HIDE DEF e
<1>3. OK(p)
    BY <1>1, EnteredOK
<1> HIDE DEF p
<1>4. OK(Startloop(p, raised, truth)) /\ Away(Startloop(p, raised, truth))
    BY <1>3, StartloopOK
<1> QED  BY <1>1, <1>2, <1>4, ThenOK

LEMMA AfterBodyOK ==
  ASSUME NEW m, OK(m), NEW raised \in Conditions \cup {"none"}, NEW truth, NEW halted
  PROVE  OK(AfterBody(m, raised, truth, halted)) /\ Away(AfterBody(m, raised, truth, halted))
<1>1. ASSUME NEW n, OK(n)
      PROVE  OK(Round(n, raised, truth, halted)) /\ Away(Round(n, raised, truth, halted))
    BY <1>1, FakerecurseOK, StartloopOK DEF Round
<1>2. ASSUME NEW n, OK(n)
      PROVE  OK(Until(n, raised, truth, halted)) /\ Away(Until(n, raised, truth, halted))
  <2> DEFINE u == IF Node(n).test = "until" /\ truth THEN Endloop(n)
                  ELSE Round(Incremented(n), raised, truth, halted)
  <2>1. OK(u) /\ Away(u)
      BY <1>1, <1>2, EndloopOK, EnteredOK
  <2>2. Until(n, raised, truth, halted) = Then(n, u)
      BY DEF Until
  <2> HIDE DEF u
  <2> QED  BY <1>2, <2>1, <2>2, ThenOK
<1>3. OK(Evaluate(m, raised))
    BY EvaluateOK
<1> QED  BY <1>2, <1>3 DEF AfterBody

LEMMA DoClauseOK ==
  ASSUME NEW m, OK(m), NEW raised \in Conditions \cup {"none"}, NEW truth
  PROVE  OK(DoClause(m, raised, truth)) /\ Away(DoClause(m, raised, truth))
<1>1. OK(popcallstack(m, 1))
    BY CallstackOK
<1> QED  BY <1>1, AfterBodyOK, LoopOK DEF DoClause

LEMMA FoundOK ==
  ASSUME NEW m, OK(m), NEW q, NEW k, NEW gone
  PROVE  OK(Found(m, q, k, gone))
<1> DEFINE p == popcallstack(m, Len(q) - k + gone)
           x == Cut(p.nstack,
                    LET found == {i \in (Top(p).ntrigger + 1)..Len(p.nstack) :
                                    p.nstack[i] = q[k].loop}
                    IN  IF found = {} THEN Top(p).ntrigger
                        ELSE CHOOSE i \in found : \A j \in found : i >= j)
           c == [p EXCEPT !.nstack = x]
           y == SubSeq(c.nstack, 1, Len(c.nstack) - gone)
           d == [c EXCEPT !.nstack = y]
           z == SubSeq(q, 1, k - gone)
           e == [d EXCEPT !.stack = z]
<1>1. Found(m, q, k, gone) = e
    BY DEF Found, nstackcleanup
<1>2. OK(p)
    BY CallstackOK
<1> HIDE DEF p, x, y, z
<1>3. OK(c)
    BY <1>2, FieldsOK
<1> HIDE DEF c
<1>4. OK(d)
    BY <1>3, FieldsOK
<1> HIDE DEF d
<1>5. OK(e)
    BY <1>4, FieldsOK
<1> QED  BY <1>1, <1>5

LEMMA LeaveOK ==
  ASSUME NEW m, OK(m), NEW q, NEW gone
  PROVE  OK(LeaveClause(m, q, gone)) /\ Away(LeaveClause(m, q, gone))
<1>1. ASSUME NEW n, OK(n)  PROVE OK(Continued(n)) /\ Away(Continued(n))
  <2>1. OK(To(n, Last(n.nstack)))
      BY <1>1, ToOK
  <2>2. OK(nstackpop(To(n, Last(n.nstack))))
      BY <2>1, NodesOK
  <2>3. OK(Outwards(nstackpop(To(n, Last(n.nstack)))))
      BY <2>2, OutwardsOK
  <2> QED  BY <2>3, FakereturnOK DEF Continued
<1>2. \A k : OK(Found(m, q, k, gone))
    BY FoundOK
<1>3. OK(popcallstack(m, Len(q) - Top(m).strigger))
    BY CallstackOK
<1> QED  BY <1>1, <1>2, <1>3, ExiterrorOK DEF LeaveClause

LEMMA SignalOK ==
  ASSUME NEW m, OK(m)
  PROVE  OK(SignalClause(m)) /\ Away(SignalClause(m))
<1> DEFINE n == Cleaned(m)
           c == [n EXCEPT !.acts[Len(n.acts)].inner = Nil]
<1>1. n.acts = m.acts
  <2> DEFINE x == Cut(m.nstack, Top(m).ntrigger)
             p == [m EXCEPT !.nstack = x]
             y == Cut(p.stack, Top(m).strigger)
             q == [p EXCEPT !.stack = y]
  <2>1. q = Cleaned(m)
      BY DEF Cleaned
  <2> HIDE DEF x, y
  <2>2. OK(p) /\ p.acts = m.acts
      BY FieldsOK, Elsewhere
  <2> HIDE DEF p
  <2>3. q.acts = p.acts
      BY <2>2, Elsewhere
  <2> QED  BY <2>1, <2>2, <2>3
<1>2. SignalClause(m) = IF Callable(Node(m).name) = {} THEN exiterror(c)
                        ELSE Fakerecurse(To(c, tree[Entry(Node(m).name)].next))
    BY <1>1 DEF SignalClause
<1>3. OK(n)
    BY CleanedOK
<1> HIDE DEF n
<1>4. OK(c)
    BY <1>3, TopFields
<1> HIDE DEF c
<1> QED  BY <1>2, <1>4, ExiterrorOK, GoesInto

LEMMA LevelFieldsOK ==
  ASSUME NEW l, IsLevel(l), l.jump, l.traps["SYNTAX"].on => l.traps["SYNTAX"].signal,
         NEW f \in LevelFields \ {"traps", "jump"}, NEW x
  PROVE  LessDelayed([l EXCEPT ![f] = x], l)
<1> DEFINE k == [l EXCEPT ![f] = x]
<1>1. HasFields(l, LevelFields) /\ IsTraps(l.traps)
    BY DEF IsLevel
<1>2. HasFields(k, LevelFields) /\ k.traps = l.traps /\ k.jump = l.jump
    BY <1>1 DEF HasFields, LevelFields
<1> HIDE DEF k
<1>3. LessDelayed(k, l)
    BY <1>1, <1>2 DEF LessDelayed, IsLevel
<1> QED  BY <1>3 DEF k

LEMMA InnermostLevel ==
  ASSUME NEW m, OK(m)
  PROVE  /\ IsLevel(Level(m)) /\ Level(m).jump
         /\ Level(m).traps["SYNTAX"].on => Level(m).traps["SYNTAX"].signal
         /\ LessDelayed(Level(m), Level(m))
<1>1. Shape(m) /\ Leveled(m)
    BY DEF OK
<1>2. IsLevel(Level(m)) /\ Level(m).jump
      /\ (Level(m).traps["SYNTAX"].on => Level(m).traps["SYNTAX"].signal)
    BY <1>1, Sizes DEF Leveled
<1> QED  BY <1>2 DEF LessDelayed

LEMMA SettingOK ==
  ASSUME NEW m, OK(m), NEW l, LessDelayed(l, Level(m))
  PROVE  OK(Advance(Setting(m, l))) /\ Away(Advance(Setting(m, l)))
BY LevelOK, AdvanceOK

LEMMA ProcOK ==
  ASSUME NEW m, OK(m)
  PROVE  OK(ProcClause(m)) /\ Away(ProcClause(m))
<1>1. LessDelayed([Level(m) EXCEPT !.varflag = TRUE], Level(m))
    BY InnermostLevel, LevelFieldsOK DEF LevelFields
<1> QED  BY <1>1, SettingOK, ExiterrorOK DEF ProcClause

LEMMA NumericOK ==
  ASSUME NEW m, OK(m)
  PROVE  OK(NumericClause(m)) /\ Away(NumericClause(m))
<1> DEFINE l == Level(m)
           n == Node(m)
           set == CASE n.name = "DIGITS" -> [l EXCEPT !.digits = n.value]
                    [] n.name = "FUZZ" -> [l EXCEPT !.fuzz = n.value]
                    [] n.name = "FORM" -> [l EXCEPT !.form = n.value]
                    [] OTHER -> [l EXCEPT !.fuzz = 0]
<1>1. /\ IsLevel(l) /\ l.jump /\ (l.traps["SYNTAX"].on => l.traps["SYNTAX"].signal)
    BY InnermostLevel
<1>2. NumericClause(m) = IF set.fuzz >= set.digits \/ set.digits <= 0 \/ set.fuzz < 0
                         THEN exiterror(m) ELSE Advance(Setting(m, set))
    BY DEF NumericClause
<1>3. LessDelayed(set, Level(m))
  <2> HIDE DEF l
  <2>1. \A x : LessDelayed([l EXCEPT !.digits = x], l)
      BY <1>1, LevelFieldsOK DEF LevelFields
  <2>2. \A x : LessDelayed([l EXCEPT !.fuzz = x], l)
      BY <1>1, LevelFieldsOK DEF LevelFields
  <2>3. \A x : LessDelayed([l EXCEPT !.form = x], l)
      BY <1>1, LevelFieldsOK DEF LevelFields
  <2>4. LessDelayed(set, l)
    <3> HIDE DEF n
    <3>1. CASE n.name = "DIGITS"
        BY <2>1, <3>1
    <3>2. CASE n.name = "FUZZ"
        BY <2>2, <3>2
    <3>3. CASE n.name = "FORM"
        BY <2>3, <3>3
    <3>4. CASE n.name \notin {"DIGITS", "FUZZ", "FORM"}
        BY <2>2, <3>4
    <3> QED  BY <3>1, <3>2, <3>3, <3>4
  <2> QED  BY <2>4 DEF l
<1> HIDE DEF set
<1> QED  BY <1>2, <1>3, SettingOK, ExiterrorOK

LEMMA AddressOK ==
  ASSUME NEW m, OK(m)
  PROVE  OK(AddressClause(m)) /\ Away(AddressClause(m))
<1> DEFINE l == Level(m)
           name == Node(m).name
           x == IF name = "" THEN l.prev_env ELSE name
           l1 == [l EXCEPT !.env = x]
           y == l.env
           l2 == [l1 EXCEPT !.prev_env = y]
<1>1. /\ IsLevel(l) /\ l.jump /\ (l.traps["SYNTAX"].on => l.traps["SYNTAX"].signal)
    BY InnermostLevel
<1>2. AddressClause(m) = Advance(Setting(m, l2))
    BY DEF AddressClause
<1> HIDE DEF x, y
<1>3. LessDelayed(l1, l)
  <2> HIDE DEF l
  <2> QED  BY <1>1, LevelFieldsOK DEF LevelFields
<1> HIDE DEF l1
<1>4. LessDelayed(l2, l1)
    BY <1>3, LevelFieldsOK DEF LevelFields, LessDelayed
<1> HIDE DEF l2
<1>5. LessDelayed(l2, Level(m))
    BY <1>3, <1>4 DEF LessDelayed
<1> QED  BY <1>2, <1>5, SettingOK

LEMMA TrapOK ==
  ASSUME NEW m, OK(m), Node(m).type = "SYNTAX" => Node(m).signal
  PROVE  OK(TrapClause(m)) /\ Away(TrapClause(m))
<1> DEFINE n == Node(m)
           u == [on |-> n.on, delayed |-> FALSE, signal |-> n.signal, name |-> n.name]
           l == [Level(m) EXCEPT !.traps[n.type] = u]
<1>1. TrapClause(m) = Advance(Setting(m, l))
    BY DEF TrapClause, Setting, Level, Last
<1>2. HasFields(u, TrapFields) /\ ~u.delayed /\ u.signal = n.signal
    BY DEF HasFields, TrapFields
<1>3. LessDelayed(l, Level(m))
  <2> HIDE DEF u
  <2>1. CASE n.type \in Conditions
    <3> HIDE DEF n
    <3> QED  BY <1>2, <2>1, InnermostLevel, TrapSet DEF n
  <2>2. CASE n.type \notin Conditions
    <3>1. HasFields(Level(m), LevelFields) /\ HasFields(Level(m).traps, Conditions)
        BY InnermostLevel DEF IsLevel, IsTraps
    <3> DEFINE k == Level(m)
               tt == [k.traps EXCEPT ![n.type] = u]
               j == [k EXCEPT !.traps = tt]
    <3>2. j = l
        OBVIOUS
    <3> HIDE DEF k, n
    <3>3. tt = k.traps
        BY <2>2, <3>1 DEF HasFields, k
    <3> HIDE DEF tt
    <3>4. j = k
        BY <3>1, <3>3 DEF HasFields, k, LevelFields
    <3> QED  BY <3>2, <3>4, InnermostLevel DEF k
  <2> QED  BY <2>1, <2>2
<1> HIDE DEF l
<1> QED  BY <1>1, <1>3, SettingOK

LEMMA CallOK ==
  ASSUME NEW m, OK(m), NEW function
  PROVE  LET n == CallClause(m, function)
         IN  OK(n) /\ (Away(n) \/ Len(n.acts) > Len(m.acts))
BY ExiterrorOK, CallInternalOK DEF CallClause

-----------------------------------------------------------------------------
(* The steps.                                                              *)

IInv ==
  /\ OK(machine) /\ tree \in Trees
  /\ ended = "no" /\ Last(acts).at = "fakerecurse" => nextsig # "none"

LEMMA MachineIs ==
  /\ machine.nstack = nstack /\ machine.stack = stack /\ machine.callstack = callstack
  /\ machine.acts = acts /\ machine.levels = levels /\ machine.nextsig = nextsig
  /\ machine.iter = iter /\ machine.ended = ended
BY DEF machine

\* The machine stands before a clause with a condition that is trapped and not handled.
Waits(m) ==
  /\ m.ended = "no" /\ Top(m).at = "reinterpret" /\ m.nextsig # "none"
  /\ Level(m).traps[m.nextsig].on /\ ~Level(m).traps[m.nextsig].delayed

LEMMA SettledOK ==
  ASSUME NEW x, OK(x)
  PROVE  LET r == Settled(Checked(x))
         IN  /\ OK(r) /\ r.levels = x.levels /\ r.nextsig = x.nextsig
             /\ Len(r.acts) = Len(x.acts)
             /\ r.ended = "no" /\ Top(r).at = "fakerecurse" => r.nextsig # "none"
             /\ Waits(r) => ~Away(x)
<1> DEFINE y == Checked(x)
           z == At(y, "reinterpret")
           r == Settled(y)
<1>1. IsMachine(x)
    BY DEF OK, Shape
<1>2. OK(y) /\ y.levels = x.levels /\ y.nextsig = x.nextsig /\ y.acts = x.acts
      /\ (y.ended = "no" => x.ended = "no")
  <2> DEFINE w == [x EXCEPT !.ended = "crash"]
  <2>1. y = IF x.callstack < 0 THEN w ELSE x
      BY DEF Checked
  <2>2. w.levels = x.levels /\ w.nextsig = x.nextsig /\ w.acts = x.acts /\ w.ended = "crash"
      BY <1>1 DEF IsMachine, MachineFields, HasFields
  <2>3. OK(w)
      BY FieldsOK
  <2> HIDE DEF w, y
  <2> QED  BY <2>1, <2>2, <2>3
<1>3. r = IF y.ended = "no" /\ Top(y).at = "fakerecurse" /\ y.nextsig = "none" THEN z ELSE y
    BY DEF Settled
<1> HIDE DEF y
<1>4. OK(z) /\ z.levels = y.levels /\ z.nextsig = y.nextsig /\ Len(z.acts) = Len(y.acts)
      /\ Top(z).at = "reinterpret"
  <2> DEFINE a == Top(y)
             b == [a EXCEPT !.at = "reinterpret"]
             n == [y EXCEPT !.acts[Len(y.acts)] = b]
  <2>1. IsAct(a) /\ a = y.acts[Len(y.acts)]
      BY <1>2, Sizes DEF OK
  <2>2. n = z
      BY <2>1 DEF At
  <2>3. IsAct(b) /\ b.why = a.why /\ b.type = a.type /\ b.jumps = a.jumps /\ b.at = "reinterpret"
    <3> HIDE DEF a
    <3> QED  BY <2>1 DEF IsAct, ActFields, HasFields
  <2> HIDE DEF b
  <2>4. OK(n) /\ Top(n) = b /\ n.nextsig = y.nextsig /\ n.levels = y.levels
        /\ Len(n.acts) = Len(y.acts)
      BY <1>2, <2>3, TopOK
  <2> HIDE DEF n, z
  <2> QED  BY <2>2, <2>3, <2>4
<1>5. OK(r) /\ r.levels = x.levels /\ r.nextsig = x.nextsig /\ Len(r.acts) = Len(x.acts)
  <2> HIDE DEF r, z
  <2> QED  BY <1>2, <1>3, <1>4
<1>6. r.ended = "no" /\ Top(r).at = "fakerecurse" => r.nextsig # "none"
  <2> HIDE DEF r, z
  <2> QED  BY <1>3, <1>4
<1>7. ASSUME Waits(r)  PROVE ~Away(x)
  <2>1. r = y
    <3>1. r # z \/ r.nextsig = "none" \/ r = y
      <4> HIDE DEF r, z
      <4> QED  BY <1>3, <1>4
    <3> HIDE DEF r, z
    <3> QED  BY <1>3, <1>7, <3>1 DEF Waits
  <2>2. Top(y) = Top(x)
      BY <1>2 DEF Top
  <2> HIDE DEF r, z
  <2> QED  BY <1>2, <1>7, <2>1, <2>2 DEF Waits, Away
<1> QED  BY <1>5, <1>6, <1>7 DEF y

\* A step leaves the clause, or enters a call, or has nothing to deal with.
Deals(x) ==
  \/ Away(x) \/ Len(x.acts) > Len(acts) \/ x.nextsig = "none"
  \/ x.levels = levels /\ x.nextsig = nextsig
     /\ ~(Level(machine).traps[nextsig].on /\ ~Level(machine).traps[nextsig].delayed)
  \/ OtherwiseBegun
Dealt == Waiting' => Len(acts') > Len(acts) \/ OtherwiseBegun

LEMMA GoesOK ==
  ASSUME tree \in Trees, NEW x, OK(x), Goes(x), Deals(x)
  PROVE  IInv' /\ Dealt
<1> DEFINE r == Settled(Checked(x))
<1>1. /\ OK(r) /\ r.levels = x.levels /\ r.nextsig = x.nextsig /\ Len(r.acts) = Len(x.acts)
      /\ r.ended = "no" /\ Top(r).at = "fakerecurse" => r.nextsig # "none"
      /\ Waits(r) => ~Away(x)
    BY SettledOK
<1>2. Become(r)
    BY DEF Goes
<1> HIDE DEF r
<1>3. machine' = r
  <2>1. HasFields(r, MachineFields)
      BY <1>1 DEF OK, Shape, IsMachine
  <2>2. machine' = [nstack |-> r.nstack, stack |-> r.stack, callstack |-> r.callstack,
                    acts |-> r.acts, levels |-> r.levels, nextsig |-> r.nextsig,
                    iter |-> r.iter, ended |-> r.ended]
      BY <1>2 DEF Become, machine
  <2> QED  BY <2>1, <2>2 DEF HasFields, MachineFields
<1>4. acts' = r.acts /\ levels' = r.levels /\ nextsig' = r.nextsig /\ ended' = r.ended
      /\ tree' = tree
    BY <1>2 DEF Become
<1>5. OK(machine)'
  <2>1. OK(machine')
      BY <1>1, <1>3
  <2> QED  BY <2>1 DEF OK, Shape, Called, Leveled, Delays, DepthOf, IsMachine, machine, HasFields
<1>6. IInv'
    BY <1>1, <1>4, <1>5 DEF IInv, Top
<1>7. Waiting' => Waits(r)
    BY <1>3, <1>4 DEF Waiting, Waits, Top, Level, machine
<1>8. ASSUME Waiting'  PROVE Len(acts') > Len(acts) \/ OtherwiseBegun
  <2>1. Waits(r)
      BY <1>7, <1>8
  <2>2. ~Away(x) /\ x.nextsig # "none" /\ Level(r).traps[r.nextsig].on
        /\ ~Level(r).traps[r.nextsig].delayed
      BY <1>1, <2>1 DEF Waits
  <2>3. CASE x.levels = levels /\ x.nextsig = nextsig
             /\ ~(Level(machine).traps[nextsig].on /\ ~Level(machine).traps[nextsig].delayed)
    <3>1. Level(r) = Level(machine)
        BY <1>1, <2>3, MachineIs DEF Level
    <3> QED  BY <1>1, <2>2, <2>3, <3>1
  <2> QED  BY <1>1, <1>4, <2>2, <2>3 DEF Deals
<1> QED  BY <1>6, <1>8 DEF Dealt

\* The beginning of a clause.
LEMMA StartedOK ==
  ASSUME IInv
  PROVE  /\ OK(Current) /\ OK(Started)
         /\ ~Away(Started) =>
               /\ Top(Started).this = Last(acts).this /\ Len(Started.acts) = Len(acts)
               /\ Started.levels = levels /\ (halt \/ Started.nextsig = nextsig)
<1>1. OK(machine) /\ "HALT" \in Conditions
    BY DEF IInv, Conditions
<1>2. /\ OK(Current)
      /\ Away(Current) \/ (Current.acts = acts /\ Current.levels = levels)
      /\ halt \/ Current.nextsig = nextsig
  <2> DEFINE h == condition_hook(machine, "HALT")
  <2>1. OK(h) /\ (Away(h) \/ (h.acts = machine.acts /\ h.levels = machine.levels))
      BY <1>1, HookOK
  <2> HIDE DEF h
  <2>2. Current = IF halt THEN h ELSE machine
      BY DEF Current, h
  <2> QED  BY <1>1, <2>1, <2>2, MachineIs
<1> DEFINE c == Current
           x == Last(acts).this
           k == Len(acts)
           n == [c EXCEPT !.acts[k].secure = x]
<1>3. Started = Then(c, n)
    BY DEF Started
<1> HIDE DEF c, x
<1>4. CASE Away(c)
    BY <1>2, <1>3, <1>4 DEF Then, c
<1>5. CASE ~Away(c)
  <2>1. c.acts = acts /\ OK(c) /\ c.levels = levels /\ (halt \/ c.nextsig = nextsig)
      BY <1>2, <1>5 DEF c
  <2> DEFINE a == Top(c)
             b == [a EXCEPT !.secure = x]
             p == [c EXCEPT !.acts[Len(c.acts)] = b]
  <2>2. IsAct(a) /\ a = c.acts[Len(c.acts)] /\ a = Last(acts)
      BY <2>1, Sizes DEF OK, Top
  <2>3. p = n
      BY <2>1, <2>2
  <2>4. IsAct(b) /\ b.why = a.why /\ b.type = a.type /\ b.jumps = a.jumps /\ b.this = a.this
    <3> HIDE DEF a
    <3> QED  BY <2>2 DEF IsAct, ActFields, HasFields
  <2> HIDE DEF b
  <2>5. OK(p) /\ Top(p) = b /\ p.nextsig = c.nextsig /\ p.levels = c.levels
        /\ Len(p.acts) = Len(c.acts)
      BY <2>1, <2>4, TopOK
  <2> HIDE DEF p, n
  <2>6. Started = p
      BY <1>3, <1>5, <2>3 DEF Then
  <2> QED  BY <1>2, <2>1, <2>2, <2>4, <2>5, <2>6
<1> QED  BY <1>4, <1>5

\* A clause of which every way out is dealt with.
LEMMA DoesOK ==
  ASSUME IInv, NEW m, OK(m), NEW to, ~Away(m) => OK(to) /\ Deals(to), Does(m, to)
  PROVE  IInv' /\ Dealt
<1> DEFINE x == Then(m, to)
<1>1. OK(x) /\ Deals(x)
  <2>1. CASE Away(m)
      BY <2>1 DEF Then, Deals
  <2>2. CASE ~Away(m)
      BY <2>2 DEF Then
  <2> QED  BY <2>1, <2>2
<1>2. Goes(x) /\ tree \in Trees
    BY DEF Does, IInv
<1> HIDE DEF x
<1> QED  BY <1>1, <1>2, GoesOK

\* The expression of a clause has been evaluated.
LEMMA EvaluatedOK ==
  ASSUME IInv, NEW raised \in Can
  PROVE  LET m == Evaluate(Started, raised)
         IN  /\ raised \in Conditions \cup {"none"} /\ OK(m)
             /\ ~Away(m) => Len(m.acts) = Len(acts) /\ Top(m).this = Last(acts).this
<1>1. raised \in Conditions \cup {"none"}
    BY DEF Can
<1>2. OK(Started)
    BY StartedOK
<1> DEFINE m == Evaluate(Started, raised)
<1>3. OK(m) /\ (Away(m) \/ (m.acts = Started.acts /\ m.ended = Started.ended))
    BY <1>1, <1>2, EvaluateOK
<1> HIDE DEF m
<1>4. ASSUME ~Away(m)  PROVE Len(m.acts) = Len(acts) /\ Top(m).this = Last(acts).this
  <2>1. m.acts = Started.acts /\ Top(m) = Top(Started) /\ ~Away(Started)
      BY <1>3, <1>4 DEF Away, Top
  <2> QED  BY <2>1, StartedOK
<1> QED  BY <1>1, <1>3, <1>4 DEF m

LEMMA AwayDeals ==
  ASSUME NEW x, Away(x)
  PROVE  Deals(x)
BY DEF Deals

LEMMA LoopClauses ==
  ASSUME IInv, Plain \/ Assign \/ Label \/ Wrapped \/ Do \/ DoLoop \/ DoNothing
  PROVE  IInv' /\ Dealt
<1>1. CASE Plain
  <2>1. PICK raised \in Can : Does(Evaluate(Started, raised), Advance(Evaluate(Started, raised)))
      BY <1>1 DEF Plain
  <2> DEFINE m == Evaluate(Started, raised)
  <2>2. OK(m)
      BY EvaluatedOK
  <2>3. Does(m, Advance(m))
      BY <2>1
  <2> HIDE DEF m
  <2>4. OK(Advance(m)) /\ Deals(Advance(m))
      BY <2>2, AdvanceOK, AwayDeals
  <2> QED  BY <2>2, <2>3, <2>4, DoesOK
<1>2. CASE Assign
  <2>1. PICK raised \in Can : \E m \in {Evaluate(Started, raised)} :
          Does(m, Advance([m EXCEPT !.iter[Node(m).name] =
                    Node(m).value + (IF Node(m).kind = "add" THEN @ ELSE 0)]))
      BY <1>2 DEF Assign
  <2> DEFINE m == Evaluate(Started, raised)
             v == Node(m).value + (IF Node(m).kind = "add" THEN m.iter[Node(m).name] ELSE 0)
             z == [m.iter EXCEPT ![Node(m).name] = v]
             n == [m EXCEPT !.iter = z]
  <2>2. OK(m)
      BY EvaluatedOK
  <2>3. Does(m, Advance(n))
      BY <2>1
  <2> HIDE DEF z, m
  <2>4. OK(n)
      BY <2>2, FieldsOK
  <2> HIDE DEF n
  <2>5. OK(Advance(n)) /\ Deals(Advance(n))
      BY <2>4, AdvanceOK, AwayDeals
  <2> QED  BY <2>2, <2>3, <2>5, DoesOK
<1>3. CASE Label
  <2>1. OK(Started) /\ Does(Started, Advance(Started))
      BY <1>3, StartedOK DEF Label
  <2>2. OK(Advance(Started)) /\ Deals(Advance(Started))
      BY <2>1, AdvanceOK, AwayDeals
  <2> QED  BY <2>1, <2>2, DoesOK
<1>4. CASE Wrapped
  <2> DEFINE t == To(Started, Node(Started).body)
             x == At(t, "reinterpret")
  <2>1. OK(Started) /\ Does(Started, x)
      BY <1>4, StartedOK DEF Wrapped
  <2>2. ASSUME ~Away(Started)  PROVE OK(x) /\ Deals(x)
    <3>1. OK(t) /\ t.nextsig = Started.nextsig
        BY <2>1, TopFields DEF To
    <3>2. t.levels = Started.levels
      <4>1. IsMachine(Started)
          BY <2>1 DEF OK, Shape
      <4> QED  BY <4>1 DEF To, IsMachine, MachineFields, HasFields
    <3> HIDE DEF t
    <3>3. OK(x) /\ x.levels = Started.levels /\ x.nextsig = Started.nextsig
        BY <3>1, <3>2, AtOK
    <3> HIDE DEF x
    <3>4. x.levels = levels /\ (halt \/ x.nextsig = nextsig)
        BY <2>2, <3>3, StartedOK
    <3>5. /\ ended = "no" /\ Last(acts).at = "reinterpret" /\ Last(acts).this \in DOMAIN tree
          /\ tree[Last(acts).this].kind = "otherwise"
        BY <1>4 DEF Wrapped, Ready, Running
    <3> QED  BY <3>3, <3>4, <3>5 DEF Deals, OtherwiseBegun, Waiting
  <2> HIDE DEF x
  <2> QED  BY <2>1, <2>2, DoesOK
<1>5. CASE Do
  <2>1. OK(Started) /\ Does(Started, Group(Started))
      BY <1>5, StartedOK DEF Do
  <2>2. OK(Group(Started)) /\ Deals(Group(Started))
      BY <2>1, GroupsOK, AwayDeals
  <2> QED  BY <2>1, <2>2, DoesOK
<1>6. CASE DoLoop
  <2>1. PICK raised \in Can, truth \in BOOLEAN : Does(Started, DoClause(Started, raised, truth))
      BY <1>6 DEF DoLoop
  <2>2. OK(Started) /\ raised \in Conditions \cup {"none"}
      BY StartedOK, EvaluatedOK
  <2>3. OK(DoClause(Started, raised, truth)) /\ Deals(DoClause(Started, raised, truth))
      BY <2>2, DoClauseOK, AwayDeals
  <2> QED  BY <2>1, <2>2, <2>3, DoesOK
<1>7. CASE DoNothing
  <2>1. PICK raised \in Can, truth \in BOOLEAN :
          Goes(AfterBody(At(machine, "reinterpret"), raised, truth, halt))
      BY <1>7 DEF DoNothing
  <2>2. raised \in Conditions \cup {"none"} /\ OK(machine) /\ tree \in Trees
      BY EvaluatedOK DEF IInv
  <2>3. OK(At(machine, "reinterpret"))
      BY <2>2, AtOK
  <2> DEFINE x == AfterBody(At(machine, "reinterpret"), raised, truth, halt)
  <2>4. OK(x) /\ Deals(x)
      BY <2>2, <2>3, AfterBodyOK, AwayDeals
  <2> HIDE DEF x
  <2>5. Goes(x)
      BY <2>1 DEF x
  <2> QED  BY <2>2, <2>4, <2>5, GoesOK
<1> QED  BY <1>1, <1>2, <1>3, <1>4, <1>5, <1>6, <1>7

LEMMA GroupClauses ==
  ASSUME IInv, If \/ Select \/ When \/ NoOtherwise \/ Leave \/ Signal \/ Trap
  PROVE  IInv' /\ Dealt
<1>1. OK(Started)
    BY StartedOK
<1>2. CASE If \/ When
  <2>1. PICK raised \in Can, truth \in BOOLEAN :
          \/ Does(Evaluate(Started, raised), IfClause(Evaluate(Started, raised), truth))
          \/ Does(Evaluate(Started, raised), WhenClause(Evaluate(Started, raised), truth))
      BY <1>2 DEF If, When
  <2> DEFINE m == Evaluate(Started, raised)
  <2>2. OK(m)
      BY EvaluatedOK
  <2>3. Does(m, IfClause(m, truth)) \/ Does(m, WhenClause(m, truth))
      BY <2>1
  <2> HIDE DEF m
  <2>4. /\ OK(IfClause(m, truth)) /\ Deals(IfClause(m, truth))
        /\ OK(WhenClause(m, truth)) /\ Deals(WhenClause(m, truth))
      BY <2>2, GroupsOK, AwayDeals
  <2> QED  BY <2>2, <2>3, <2>4, DoesOK
<1>3. CASE Select
  <2>1. Does(Started, SelectClause(Started))
      BY <1>3 DEF Select
  <2>2. OK(SelectClause(Started)) /\ Deals(SelectClause(Started))
      BY <1>1, GroupsOK, AwayDeals
  <2> QED  BY <1>1, <2>1, <2>2, DoesOK
<1>4. CASE NoOtherwise
  <2>1. Does(Started, exiterror(Started))
      BY <1>4 DEF NoOtherwise
  <2>2. OK(exiterror(Started)) /\ Deals(exiterror(Started))
      BY <1>1, ExiterrorOK, AwayDeals
  <2> QED  BY <1>1, <2>1, <2>2, DoesOK
<1>5. CASE Leave
  <2> DEFINE q == Pending(Started)
             gone == IF Node(Started).kind = "leave" THEN 1 ELSE 0
  <2>1. Does(Started, LeaveClause(Started, q, gone))
      BY <1>5 DEF Leave
  <2> HIDE DEF q, gone
  <2>2. OK(LeaveClause(Started, q, gone)) /\ Deals(LeaveClause(Started, q, gone))
      BY <1>1, LeaveOK, AwayDeals
  <2> QED  BY <1>1, <2>1, <2>2, DoesOK
<1>6. CASE Signal
  <2>1. Does(Started, SignalClause(Started))
      BY <1>6 DEF Signal
  <2>2. OK(SignalClause(Started)) /\ Deals(SignalClause(Started))
      BY <1>1, SignalOK, AwayDeals
  <2> QED  BY <1>1, <2>1, <2>2, DoesOK
<1>7. CASE Trap
  <2>1. Does(Started, TrapClause(Started))
      BY <1>7 DEF Trap
  <2>2. ASSUME ~Away(Started)  PROVE OK(TrapClause(Started)) /\ Deals(TrapClause(Started))
    <3>1. Last(acts).this \in DOMAIN tree /\ tree[Last(acts).this].kind = "trap" /\ tree \in Trees
        BY <1>7 DEF Trap, Ready, IInv
    <3>2. tree[Last(acts).this].type = "SYNTAX" => tree[Last(acts).this].signal
        BY <3>1, TreesAssumption
    <3>3. Node(Started) = tree[Last(acts).this]
        BY <2>2, StartedOK DEF Node
    <3>4. Node(Started).type = "SYNTAX" => Node(Started).signal
        BY <3>2, <3>3
    <3> QED  BY <1>1, <3>4, TrapOK, AwayDeals
  <2> QED  BY <1>1, <2>1, <2>2, DoesOK
<1> QED  BY <1>2, <1>3, <1>4, <1>5, <1>6, <1>7

LEMMA OtherClauses ==
  ASSUME IInv,
         Call \/ Interpret \/ Procedure \/ Settings \/ ReturnClause \/ Exit \/ NoClause
         \/ Returns \/ Handles
  PROVE  IInv' /\ Dealt
<1>1. OK(Started) /\ OK(Current) /\ OK(machine) /\ tree \in Trees
    BY StartedOK DEF IInv
<1>2. CASE Call
  <2>1. PICK raised \in Can : \E m \in {Evaluate(Started, raised)} :
          Does(m, CallClause(m, Node(m).kind = "function"))
      BY <1>2 DEF Call
  <2> DEFINE m == Evaluate(Started, raised)
             f == Node(m).kind = "function"
             x == CallClause(m, f)
  <2>2. OK(m) /\ (~Away(m) => Len(m.acts) = Len(acts))
      BY EvaluatedOK
  <2>3. Does(m, x)
      BY <2>1
  <2> HIDE DEF m, f
  <2>4. OK(x) /\ (Away(x) \/ Len(x.acts) > Len(m.acts))
      BY <2>2, CallOK
  <2> HIDE DEF x
  <2>5. ~Away(m) => OK(x) /\ Deals(x)
      BY <2>2, <2>4 DEF Deals
  <2> QED  BY <2>2, <2>3, <2>5, DoesOK
<1>3. CASE Interpret
  <2>1. PICK raised \in Can :
          Does(Evaluate(Started, raised), dointerpret(Evaluate(Started, raised)))
      BY <1>3 DEF Interpret
  <2> DEFINE m == Evaluate(Started, raised)
             x == dointerpret(m)
  <2>2. OK(m) /\ (~Away(m) => Len(m.acts) = Len(acts))
      BY EvaluatedOK
  <2>3. Does(m, x)
      BY <2>1
  <2> HIDE DEF m
  <2>4. OK(x) /\ Len(x.acts) > Len(m.acts)
      BY <2>2, InterpretOK DEF dointerpret
  <2> HIDE DEF x
  <2>5. ~Away(m) => OK(x) /\ Deals(x)
      BY <2>2, <2>4 DEF Deals
  <2> QED  BY <2>2, <2>3, <2>5, DoesOK
<1>4. CASE Procedure
  <2>1. Does(Started, ProcClause(Started))
      BY <1>4 DEF Procedure
  <2>2. OK(ProcClause(Started)) /\ Deals(ProcClause(Started))
      BY <1>1, ProcOK, AwayDeals
  <2> QED  BY <1>1, <2>1, <2>2, DoesOK
<1>5. CASE Settings
  <2>1. PICK raised \in Can : \E m \in {Evaluate(Started, raised)} :
          Does(m, IF Node(m).kind = "numeric" THEN NumericClause(m) ELSE AddressClause(m))
      BY <1>5 DEF Settings
  <2> DEFINE m == Evaluate(Started, raised)
             x == IF Node(m).kind = "numeric" THEN NumericClause(m) ELSE AddressClause(m)
  <2>2. OK(m)
      BY EvaluatedOK
  <2>3. Does(m, x)
      BY <2>1
  <2> HIDE DEF m
  <2>4. OK(x) /\ Deals(x)
      BY <2>2, NumericOK, AddressOK, AwayDeals
  <2> HIDE DEF x
  <2> QED  BY <2>2, <2>3, <2>4, DoesOK
<1>6. CASE ReturnClause
  <2>1. PICK raised \in Can : \E m \in {Evaluate(Started, raised)} :
          Does(m, Return(m, IF Node(m).result THEN "value" ELSE "nothing"))
      BY <1>6 DEF ReturnClause
  <2> DEFINE m == Evaluate(Started, raised)
             result == IF Node(m).result THEN "value" ELSE "nothing"
             x == Return(m, result)
  <2>2. OK(m)
      BY EvaluatedOK
  <2>3. Does(m, x)
      BY <2>1
  <2>4. result # "reinterpret"
      OBVIOUS
  <2> HIDE DEF m, result
  <2>5. OK(x) /\ Deals(x)
      BY <2>2, <2>4, ReturnOK, AwayDeals
  <2> HIDE DEF x
  <2> QED  BY <2>2, <2>3, <2>5, DoesOK
<1>7. CASE Exit
  <2> DEFINE x == [Started EXCEPT !.ended = "exit"]
  <2>1. Does(Started, x)
      BY <1>7 DEF Exit
  <2>2. OK(x) /\ Away(x)
      BY <1>1, FieldsOK
  <2> HIDE DEF x
  <2>3. OK(x) /\ Deals(x)
      BY <2>2, AwayDeals
  <2> QED  BY <1>1, <2>1, <2>3, DoesOK
<1>8. CASE NoClause
  <2>1. Does(Current, Fakereturn(Current))
      BY <1>8 DEF NoClause
  <2>2. OK(Fakereturn(Current)) /\ Deals(Fakereturn(Current))
      BY <1>1, FakereturnOK, AwayDeals
  <2> QED  BY <1>1, <2>1, <2>2, DoesOK
<1>9. CASE Returns
  <2>1. Goes(Returned(machine))
      BY <1>9 DEF Returns
  <2>2. OK(Returned(machine)) /\ Deals(Returned(machine))
      BY <1>1, ReturnedOK, AwayDeals
  <2> QED  BY <1>1, <2>1, <2>2, GoesOK
<1>10. CASE Handles
  <2> DEFINE m == machine
             x == Taken(m)
  <2>1. Goes(x)
      BY <1>10 DEF Handles
  <2>2. nextsig # "none"
      BY <1>10 DEF Handles, Running, IInv
  <2>3. OK(m) /\ m.nextsig # "none" /\ m.acts = acts /\ m.levels = levels /\ m.nextsig = nextsig
      BY <1>1, <2>2, MachineIs
  <2>4. /\ OK(x)
        /\ \/ Away(x) \/ Len(x.acts) > Len(m.acts) \/ x.nextsig = "none"
           \/ x.levels = m.levels /\ x.nextsig = m.nextsig
              /\ ~(Level(m).traps[m.nextsig].on /\ ~Level(m).traps[m.nextsig].delayed)
    <3> HIDE DEF m
    <3> QED  BY <2>3, TakenOK
  <2>5. Deals(x)
    <3> HIDE DEF x
    <3> QED  BY <2>3, <2>4 DEF Deals
  <2> HIDE DEF x
  <2> QED  BY <1>1, <2>1, <2>4, <2>5, GoesOK
<1> QED  BY <1>2, <1>3, <1>4, <1>5, <1>6, <1>7, <1>8, <1>9, <1>10

LEMMA InitOK == Init => IInv
<1> SUFFICES ASSUME Init  PROVE IInv
    OBVIOUS
<1> DEFINE n == Activation(1, "main", 0)
           a == [n EXCEPT !.jumps = TRUE]
           l == [FirstLevel EXCEPT !.jump = TRUE]
<1>1. acts = <<a>> /\ levels = <<l>> /\ nextsig = "none" /\ tree \in Trees
    BY DEF Init
<1>2. IsAct(a) /\ a.why = "main" /\ a.jumps /\ a.at = "reinterpret"
  <2>1. IsAct(n) /\ n.why = "main" /\ n.at = "reinterpret"
      BY DEF IsAct, ActFields, Activation, HasFields
  <2> HIDE DEF n
  <2> QED  BY <2>1 DEF IsAct, ActFields, HasFields
<1>3. IsLevel(l) /\ l.jump /\ \A c \in Conditions : l.traps[c] = Untrapped
  <2>1. /\ HasFields(FirstLevel, LevelFields)
        /\ FirstLevel.traps = [c \in Conditions |-> Untrapped]
      BY DEF FirstLevel, HasFields, LevelFields
  <2>2. HasFields(Untrapped, TrapFields)
      BY DEF Untrapped, HasFields, TrapFields
  <2>3. HasFields(l, LevelFields) /\ l.traps = FirstLevel.traps /\ l.jump
      BY <2>1 DEF HasFields, LevelFields
  <2> HIDE DEF l
  <2>4. HasFields(l.traps, Conditions) /\ \A c \in Conditions : l.traps[c] = Untrapped
      BY <2>1, <2>3 DEF HasFields
  <2> QED  BY <2>2, <2>3, <2>4 DEF IsLevel, IsTraps
<1>4. ~Untrapped.on /\ ~Untrapped.delayed
    BY DEF Untrapped
<1>5. "SYNTAX" \in Conditions
    BY DEF Conditions
<1> HIDE DEF a, l
<1>6. IsMachine(machine)
    BY DEF machine, IsMachine, MachineFields, HasFields
<1>7. IsList(acts) /\ Len(acts) = 1 /\ acts[1] = a /\ IsList(levels) /\ Len(levels) = 1
      /\ levels[1] = l
  <2>1. acts \in Seq({a}) /\ levels \in Seq({l})
      BY <1>1
  <2> QED  BY <1>1, <2>1, ListOf
<1>8. Shape(machine)
    BY <1>1, <1>2, <1>3, <1>6, <1>7, MachineIs DEF Shape
<1>9. ~IsRoutine(a)
    BY <1>2 DEF IsRoutine
<1>10. Called(acts)
    BY <1>2, <1>7, <1>9 DEF Called
<1>11. DepthOf(acts, 1) = 0
  <2>1. {j \in 1 .. 1 : IsRoutine(acts[j])} = {}
      BY <1>7, <1>9
  <2> QED  BY <2>1, FS_EmptySet DEF DepthOf
<1>12. Leveled(machine)
  <2>1. Len(levels) = DepthOf(acts, Len(acts)) + 1
      BY <1>7, <1>11
  <2>2. levels[1].jump /\ ~levels[1].traps["SYNTAX"].on
      BY <1>3, <1>4, <1>5, <1>7
  <2>3. \A k \in 1 .. Len(levels) : k = 1
      BY <1>7
  <2> QED  BY <2>1, <2>2, <2>3, MachineIs DEF Leveled
<1>13. Delays(machine)
  <2>1. \A i \in 1 .. Len(acts) : acts[i].why = "main"
      BY <1>2, <1>7
  <2>2. \A k \in 1 .. Len(levels) : \A c \in Conditions : ~levels[k].traps[c].delayed
    <3>1. \A k \in 1 .. Len(levels) : levels[k] = l
        BY <1>7
    <3> QED  BY <1>3, <1>4, <3>1
  <2> QED  BY <2>1, <2>2, MachineIs DEF Delays
<1>14. Last(acts).at = "reinterpret"
    BY <1>2, <1>7 DEF Last
<1> QED  BY <1>1, <1>8, <1>10, <1>12, <1>13, <1>14, MachineIs DEF IInv, OK

LEMMA StepOK == IInv /\ [Next]_vars => IInv' /\ (acts' # acts => Dealt)
<1> SUFFICES ASSUME IInv, [Next]_vars  PROVE IInv' /\ (acts' # acts => Dealt)
    OBVIOUS
<1>1. CASE Clause
  <2>1. IInv' /\ Dealt
      BY <1>1, LoopClauses, GroupClauses, OtherClauses DEF Clause
  <2> QED  BY <2>1
<1>2. CASE Halts \/ UNCHANGED vars
  <2>1. /\ tree' = tree /\ acts' = acts /\ levels' = levels /\ nextsig' = nextsig /\ ended' = ended
        /\ nstack' = nstack /\ stack' = stack /\ callstack' = callstack /\ iter' = iter
      BY <1>2 DEF Halts, vars
  <2>2. machine' = machine
      BY <2>1 DEF machine
  <2>3. OK(machine)'
    <3>1. OK(machine')
        BY <2>2 DEF IInv
    <3> QED  BY <3>1 DEF OK, Shape, Called, Leveled, Delays, DepthOf, IsMachine, machine, HasFields
  <2> QED  BY <2>1, <2>3 DEF IInv
<1> QED  BY <1>1, <1>2 DEF Next

\* While the handler of a condition runs the condition is delayed on the level it was raised
\* on, and for no other reason, whatever the program is and however deep its routines, its
\* strings to interpret and its handlers are in each other (CallTaken, Returned,
\* condition_hook: interprt.c:2400-2425, signals.c).
THEOREM DelayedAlways == Spec => []DelayedWhileHandled
<1>1. IInv => DelayedWhileHandled
  <2> SUFFICES ASSUME IInv  PROVE DelayedWhileHandled
      OBVIOUS
  <2>1. Delays(machine) /\ Shape(machine)
      BY DEF IInv, OK
  <2>2. DOMAIN acts = 1 .. Len(acts) /\ DOMAIN levels = 1 .. Len(levels)
      BY <2>1, Sizes, MachineIs
  <2>3. \A i : Depth(i) = DepthOf(acts, i)
      BY DEF Depth, DepthOf
  <2> QED  BY <2>1, <2>2, <2>3, MachineIs DEF Delays, DelayedWhileHandled
<1>2. IInv /\ [Next]_vars => IInv'
    BY StepOK
<1> QED  BY <1>1, <1>2, InitOK, PTL DEF Spec

\* No clause begins with a condition pending that it should have been interrupted by, but in
\* the three places the property names (Handles, Settled: interprt.c:2333).
THEOREM PendingAlways == Spec => PendingTaken
<1>1. IInv /\ [Next]_vars => IInv'
    BY StepOK
<1>2. IInv /\ [Next]_vars
        => [Waiting' /\ acts' # acts => Len(acts') > Len(acts) \/ OtherwiseBegun]_vars
    BY StepOK DEF Dealt
<1> QED  BY <1>1, <1>2, InitOK, PTL DEF Spec, PendingTaken

=============================================================================
