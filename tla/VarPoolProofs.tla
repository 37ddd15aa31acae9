---------------------------- MODULE VarPoolProofs ----------------------------
(***************************************************************************)
(* Proofs about VarPool, for any simple names, tails, values, lists of     *)
(* PROCEDURE EXPOSE and depths, as long as the tables do not grow: a       *)
(* pointer that is trusted is the right one, and no box is lost or freed   *)
(* too early; and a program sees its variables as RexxScopes says.         *)
(*                                                                         *)
(* The invariant, in five parts.  Numbered: the running procedures bear    *)
(* numbers that grow with the depth.  Tabled: a table holds boxes of its   *)
(* own procedure, each under its name.  Boxed: a live box is one that a    *)
(* table holds, and a dead one waits for the nodes that point at it.       *)
(* Leads: an exposed box leads to one of an earlier procedure that is live *)
(* and leads nowhere itself.  Pointed: a node points at a box of its name, *)
(* and a box that can be trusted is the one a search would find.  Each     *)
(* operation is a relation between two memories (Revalued, Inserted,       *)
(* Released ...) that keeps the five.                                      *)
(*                                                                         *)
(* The refinement is told by the heap alone.  Owner is the procedure that  *)
(* keeps a variable of another, Worth the value it keeps.  Writes, Opens   *)
(* and Ends say what an operation does to the two: a value is put into the *)
(* boxes of some names, a procedure shares some names with its caller, the *)
(* last procedure is forgotten.  Each operation is shown to be one of the  *)
(* three, and each of the three to be a step of RexxScopes.                *)
(***************************************************************************)
EXTENDS VarPool, SequenceTheorems, FiniteSetTheorems, WellFoundedInduction, TLAPS

-----------------------------------------------------------------------------
(* The memory. *)

NameKinds == {<<n>> : n \in Names}
TailKinds == {TailVar(t) : t \in Tails}
Kinds == NameKinds \union TailKinds
Numbers == 3 .. MaxId
Place == Box \union {Nil}
Tables == {NoIndex} \union [Tails -> Place]
Cell == [state : {"free", "used", "hollow", "lost"}, val : Vals \union Tails \union {None},
         real : Place, valid : Nat, hwired : Nat, index : Tables]
Level == [of : [Names -> Place], size : Nat, elements : Nat, saved : Nat, id : Numbers]
Memory == [heap : [Box -> Cell], lev : Seq(Level), cur : Nat, next : Nat,
           node : [Nodes -> Place]]

Id(mem, d) == mem.lev[d].id
Depths(mem) == 1 .. Len(mem.lev)
Ids(mem) == {Id(mem, d) : d \in Depths(mem)}
Used(mem, b) == mem.heap[b].state = "used"
Held(mem, b) == \E nd \in Nodes : mem.node[nd] = b

\* The numbers of the procedures.
Numbered(mem) ==
  /\ Len(mem.lev) > 0 /\ mem.next > 3 /\ mem.cur = Id(mem, Len(mem.lev))
  /\ \A d, e \in Depths(mem) : d < e => Id(mem, d) < Id(mem, e)
  /\ \A d \in Depths(mem) : /\ Id(mem, d) < mem.next
                            /\ mem.lev[d].saved = IF d = 1 THEN 2 ELSE Id(mem, d - 1)
                            /\ mem.lev[d].size = InitSize
                            /\ mem.lev[d].elements =
                                 Cardinality({n \in Names : mem.lev[d].of[n] # Nil})
\* The tables name the boxes in use.
Tabled(mem) ==
  /\ \A d \in Depths(mem), n \in Names :
        mem.lev[d].of[n] = IF Used(mem, <<Id(mem, d), <<n>>>>) THEN <<Id(mem, d), <<n>>>> ELSE Nil
  /\ \A b \in Box : mem.heap[b].index # NoIndex <=>
        b[2] = <<"S">> /\ Used(mem, b) /\ mem.heap[b].real = Nil
  /\ \A b \in Box : mem.heap[b].index # NoIndex => \A t \in Tails :
        mem.heap[b].index[t] =
            IF Used(mem, <<b[1], TailVar(t)>>) THEN <<b[1], TailVar(t)>> ELSE Nil
  /\ \A a \in Numbers, t \in Tails :
        Used(mem, <<a, TailVar(t)>>) => mem.heap[<<a, <<"S">>>>].index # NoIndex
\* A box that is not in use.
Leaked == [FreeBox EXCEPT !.state = "lost"]
Empty == {Hollow(1), Leaked}
Boxed(mem) ==
  \A b \in Box :
    /\ mem.heap[b].state = "free" => mem.heap[b] = FreeBox
    /\ mem.heap[b].state \notin {"free", "used"} =>
          mem.heap[b] \in Empty /\ b[1] < mem.next /\ b[1] \notin Ids(mem)
    /\ Used(mem, b) => /\ b[1] \in Ids(mem)
                       /\ mem.heap[b].valid >= b[1] /\ mem.heap[b].valid < mem.next
    /\ b[2] = <<"X">> => mem.heap[b].val \in Tails \union {None}
\* What a box leads to.
Leads(mem) ==
  \A b \in Box : LET r == mem.heap[b].real IN r # Nil =>
    /\ mem.heap[b].val = None /\ mem.heap[b].index = NoIndex
    /\ r \in Box /\ r[2] = b[2] /\ r[1] < b[1]
    /\ Used(mem, r) /\ mem.heap[r].real = Nil
    /\ b[2] \in NameKinds => \A c \in Ids(mem) :
          r[1] < c /\ c < b[1] => mem.heap[<<c, b[2]>>].real = r
\* The root of a box in use.
Root(mem, b) == IF mem.heap[b].real = Nil THEN b ELSE mem.heap[b].real
\* The pointers of the nodes.
Pointed(mem) ==
  /\ \A b \in Box : mem.heap[b].hwired = IF Held(mem, b) THEN 1 ELSE 0
  /\ \A nd \in Nodes : LET b == mem.node[nd] IN b # Nil =>
        /\ b[2] = <<NodeName(nd)>> /\ mem.heap[b].state # "free" /\ mem.heap[b].real = Nil
        /\ \A c \in Ids(mem) : mem.heap[b].valid = c =>
              Used(mem, <<c, b[2]>>) /\ Root(mem, <<c, b[2]>>) = b
Parts(mem) ==
  /\ Numbered(mem) /\ Tabled(mem) /\ Boxed(mem) /\ Leads(mem) /\ Pointed(mem)
IInv(mem) == mem \in Memory /\ Parts(mem)

-----------------------------------------------------------------------------
(* Boxes. *)

\* A box is named by a number and by what it holds.
LEMMA BoxFacts ==
    /\ \A a \in Numbers, w \in Kinds : <<a, w>> \in Box
    /\ \A b \in Box : b[1] \in Numbers /\ b[2] \in Kinds /\ b = <<b[1], b[2]>> /\ b # Nil
    /\ Nil \notin Box
<1>1. Box = Numbers \X Kinds
    BY DEF Box, Numbers, Kinds, NameKinds, TailKinds
<1>2. \A a \in Numbers, w \in Kinds : <<a, w>> \in Box
    BY <1>1
<1>3. ASSUME NEW b \in Box PROVE b[1] \in Numbers /\ b[2] \in Kinds /\ b = <<b[1], b[2]>>
    BY <1>1
<1>4. \A a \in Numbers : a # 0
    BY PoolAssumption DEF Numbers
<1>5. ASSUME NEW b \in Box PROVE b # Nil
    BY <1>3, <1>4 DEF Nil
<1> QED  BY <1>2, <1>3, <1>5

\* What a box holds tells which it is.
LEMMA KindFacts ==
    /\ \A n \in Names : <<n>> \in NameKinds /\ <<n>> \in Kinds
    /\ \A t \in Tails : TailVar(t) \in TailKinds /\ TailVar(t) \in Kinds
    /\ \A n, o \in Names : <<n>> = <<o>> => n = o
    /\ \A t, u \in Tails : TailVar(t) = TailVar(u) => t = u
    /\ NameKinds \cap TailKinds = {}
    /\ "X" \in Names /\ "S" \in Names /\ "X" # "S" /\ \A n \in Simples : n # "S" /\ n \in Names
<1>1. \A n \in Names, t \in Tails : <<n>> # TailVar(t)
    BY DEF TailVar
<1>2. \A n, o \in Names : <<n>> = <<o>> => n = o
    OBVIOUS
<1>3. \A t, u \in Tails : TailVar(t) = TailVar(u) => t = u
    BY DEF TailVar
<1>4. "X" \in Names /\ "S" \in Names /\ "X" # "S" /\ \A n \in Simples : n # "S" /\ n \in Names
    BY PoolAssumption DEF Names
<1>5. NameKinds \cap TailKinds = {}
    BY <1>1 DEF NameKinds, TailKinds
<1> QED  BY <1>2, <1>3, <1>4, <1>5 DEF Kinds, NameKinds, TailKinds

\* A stem's table is not the table of what is no stem.
LEMMA TablesDiffer ==
    NoTails # NoIndex /\ \A f \in [Tails -> Place] : f # NoIndex
<1>1. DOMAIN NoIndex = {}
    BY DEF NoIndex
<1>2. "X" \in Tails /\ NoTails \in [Tails -> Place]
    BY PoolAssumption DEF NoTails, Place
<1> QED  BY <1>1, <1>2

\* No box leads further than one step.
Flat(mem) == \A b \in Box : mem.heap[b].real \in Place
                /\ (mem.heap[b].real # Nil => mem.heap[mem.heap[b].real].real = Nil)

\* SEEK_EXPOSED is one step.
LEMMA SeekIs ==
    ASSUME NEW mem, Flat(mem)
    PROVE  /\ Seek(mem, Nil) = Nil
           /\ \A b \in Box : Seek(mem, b) = Root(mem, b)
<1> DEFINE F(walk) == [c \in Box |-> IF mem.heap[c].real = Nil THEN c ELSE walk[mem.heap[c].real]]
           walk == CHOOSE w : w = F(w)
           r == [c \in Box |-> Root(mem, c)]
<1>1. r = F(r)
  <2>1. ASSUME NEW c \in Box
        PROVE  r[c] = IF mem.heap[c].real = Nil THEN c ELSE r[mem.heap[c].real]
      <3>1. CASE mem.heap[c].real = Nil
          BY <3>1 DEF Root
      <3>2. CASE mem.heap[c].real # Nil
          <4>1. mem.heap[c].real \in Box /\ mem.heap[mem.heap[c].real].real = Nil
              BY <3>2 DEF Flat, Place
          <4> QED  BY <3>2, <4>1 DEF Root
      <3> QED  BY <3>1, <3>2
  <2> HIDE DEF r
  <2>2. r = [c \in Box |-> r[c]]
      BY DEF r
  <2> QED  BY <2>1, <2>2
<1>2. walk = F(walk)
    BY <1>1
<1>3. \A b : Seek(mem, b) = IF b = Nil THEN Nil ELSE walk[b]
    BY DEF Seek
<1> HIDE DEF walk
<1>4. ASSUME NEW b \in Box PROVE walk[b] = Root(mem, b)
  <2>1. \A c \in Box : walk[c] = IF mem.heap[c].real = Nil THEN c ELSE walk[mem.heap[c].real]
      BY <1>2
  <2>2. CASE mem.heap[b].real = Nil
      BY <2>1, <2>2 DEF Root
  <2>3. CASE mem.heap[b].real # Nil
      <3>1. mem.heap[b].real \in Box /\ mem.heap[mem.heap[b].real].real = Nil
          BY <2>3 DEF Flat, Place
      <3> QED  BY <2>1, <2>3, <3>1 DEF Root
  <2> QED  BY <2>2, <2>3
<1> QED  BY <1>3, <1>4, BoxFacts

\* The types of what a memory is made of.
LEMMA MemoryType ==
    ASSUME NEW mem \in Memory
    PROVE  /\ mem.heap \in [Box -> Cell] /\ mem.lev \in Seq(Level) /\ mem.cur \in Nat
           /\ mem.next \in Nat /\ mem.node \in [Nodes -> Place]
           /\ Len(mem.lev) \in Nat /\ DOMAIN mem.lev = Depths(mem)
           /\ \A d \in Depths(mem) : mem.lev[d] \in Level /\ Id(mem, d) \in Numbers
           /\ \A b \in Box : /\ mem.heap[b].real \in Place /\ mem.heap[b].valid \in Nat
                             /\ mem.heap[b].hwired \in Nat /\ mem.heap[b].index \in Tables
                             /\ mem.heap[b] \in Cell
           /\ Ids(mem) \subseteq Numbers
<1>1. /\ mem.heap \in [Box -> Cell] /\ mem.lev \in Seq(Level) /\ mem.cur \in Nat
      /\ mem.next \in Nat /\ mem.node \in [Nodes -> Place]
    BY DEF Memory
<1>2. Len(mem.lev) \in Nat /\ DOMAIN mem.lev = Depths(mem)
    BY <1>1 DEF Depths
<1>3. \A d \in Depths(mem) : mem.lev[d] \in Level
    BY <1>1, <1>2
<1>4. \A d \in Depths(mem) : Id(mem, d) \in Numbers
    BY <1>3 DEF Id, Level
<1>5. \A b \in Box : mem.heap[b] \in Cell
    BY <1>1
<1>6. \A b \in Box : /\ mem.heap[b].real \in Place /\ mem.heap[b].valid \in Nat
                     /\ mem.heap[b].hwired \in Nat /\ mem.heap[b].index \in Tables
    BY <1>5 DEF Cell
<1> QED  BY <1>1, <1>2, <1>3, <1>4, <1>5, <1>6 DEF Ids

\* The last procedure.
LEMMA CurIs ==
    ASSUME NEW mem, IInv(mem)
    PROVE  /\ Cur(mem) \in Depths(mem) /\ Cur(mem) = Len(mem.lev) /\ Id(mem, Cur(mem)) = mem.cur
           /\ mem.cur \in Ids(mem) /\ mem.cur \in Numbers
           /\ \A d \in Depths(mem) : d <= Cur(mem) /\ Id(mem, d) <= mem.cur /\ Id(mem, d) \in Ids(mem)
           /\ \A c \in Ids(mem) : c <= mem.cur /\ c < mem.next /\ c \in Numbers /\ c # 0
           /\ \A d, e \in Depths(mem) : Id(mem, d) = Id(mem, e) => d = e
<1>1. /\ Len(mem.lev) \in Nat /\ Len(mem.lev) > 0 /\ mem.cur = Id(mem, Len(mem.lev))
      /\ \A d, e \in Depths(mem) : d < e => Id(mem, d) < Id(mem, e)
      /\ \A d \in Depths(mem) : Id(mem, d) \in Numbers /\ Id(mem, d) < mem.next
    BY MemoryType DEF IInv, Parts, Numbered
<1>2. Len(mem.lev) \in Depths(mem) /\ Cur(mem) = Len(mem.lev)
    BY <1>1 DEF Depths, Cur
<1>3. ASSUME NEW d \in Depths(mem) PROVE d <= Cur(mem) /\ Id(mem, d) <= mem.cur
  <2>1. d = Len(mem.lev) \/ d < Len(mem.lev)
      BY <1>1 DEF Depths
  <2>2. Id(mem, d) \in Nat /\ mem.cur \in Nat
      BY <1>1, <1>2 DEF Numbers
  <2>3. d <= Cur(mem)
      BY <1>1, <1>2 DEF Depths
  <2> QED  BY <1>1, <1>2, <2>1, <2>2, <2>3
<1>4. ASSUME NEW d \in Depths(mem), NEW e \in Depths(mem), Id(mem, d) = Id(mem, e) PROVE d = e
  <2>1. ~(d < e) /\ ~(e < d)
      BY <1>1, <1>4 DEF Numbers
  <2> QED  BY <2>1 DEF Depths
<1>5. \A c \in Ids(mem) : c <= mem.cur /\ c < mem.next /\ c \in Numbers
    BY <1>1, <1>3 DEF Ids
<1>6. \A c \in Numbers : c # 0
    BY DEF Numbers
<1> QED  BY <1>1, <1>2, <1>3, <1>4, <1>5, <1>6 DEF Ids

\* A box leads to a box, or to nothing.
LEMMA FlatIs ==
    ASSUME NEW mem, IInv(mem)
    PROVE  Flat(mem)
BY MemoryType DEF IInv, Parts, Leads, Flat

\* What a table leads to.
LEMMA FindIs ==
    ASSUME NEW mem, IInv(mem), NEW d \in Depths(mem), NEW n \in Names
    PROVE  LET b == <<Id(mem, d), <<n>>>>
               r == findsimple(mem, d, n)
           IN  /\ b \in Box /\ b[1] = Id(mem, d) /\ b[2] = <<n>>
               /\ r = IF Used(mem, b) THEN Root(mem, b) ELSE Nil
               /\ r # Nil <=> Used(mem, b)
               /\ r # Nil => /\ r \in Box /\ Used(mem, r) /\ mem.heap[r].real = Nil
                             /\ r[2] = <<n>> /\ r[1] <= Id(mem, d) /\ r[1] \in Ids(mem)
<1> DEFINE b == <<Id(mem, d), <<n>>>>
           r == findsimple(mem, d, n)
<1>1. b \in Box /\ b[1] = Id(mem, d) /\ b[2] = <<n>> /\ b # Nil /\ Id(mem, d) \in Numbers
    BY BoxFacts, KindFacts, MemoryType DEF IInv
<1>2. mem.lev[d].of[n] = IF Used(mem, b) THEN b ELSE Nil
    BY DEF IInv, Parts, Tabled
<1> HIDE DEF b
<1>3. r = IF Used(mem, b) THEN Root(mem, b) ELSE Nil
    BY <1>1, <1>2, FlatIs, SeekIs DEF findsimple
<1>4. ASSUME Used(mem, b)
      PROVE  /\ Root(mem, b) \in Box /\ Used(mem, Root(mem, b)) /\ mem.heap[Root(mem, b)].real = Nil
             /\ Root(mem, b)[2] = <<n>> /\ Root(mem, b)[1] <= Id(mem, d)
             /\ Root(mem, b)[1] \in Ids(mem)
  <2>1. CASE mem.heap[b].real = Nil
      BY <1>1, <1>4, <2>1, BoxFacts DEF Root, IInv, Parts, Boxed, Numbers
  <2>2. CASE mem.heap[b].real # Nil
      <3> DEFINE q == mem.heap[b].real
      <3>1. q \in Box /\ q[2] = b[2] /\ q[1] < b[1] /\ Used(mem, q) /\ mem.heap[q].real = Nil
          BY <1>1, <2>2 DEF IInv, Parts, Leads
      <3>2. q[1] \in Ids(mem) /\ q[1] \in Numbers
          BY <3>1, BoxFacts DEF IInv, Parts, Boxed
      <3>3. Root(mem, b) = q
          BY <2>2 DEF Root
      <3> HIDE DEF q
      <3> QED  BY <1>1, <3>1, <3>2, <3>3 DEF Numbers
  <2> QED  BY <2>1, <2>2
<1>5. Used(mem, b) => Root(mem, b) # Nil
    BY <1>4, BoxFacts
<1> QED  BY <1>1, <1>3, <1>4, <1>5 DEF b

\* A stem that leads nowhere has its tails in its table.
LEMMA FindTailIs ==
    ASSUME NEW mem, IInv(mem), NEW s \in Box, s[2] = <<"S">>, Used(mem, s), mem.heap[s].real = Nil,
           NEW t \in Tails
    PROVE  LET b == <<s[1], TailVar(t)>>
               r == FindTail(mem, s, t)
           IN  /\ b \in Box /\ b[1] = s[1] /\ b[2] = TailVar(t)
               /\ mem.heap[s].index \in [Tails -> Place]
               /\ mem.heap[s].index[t] = IF Used(mem, b) THEN b ELSE Nil
               /\ r = IF Used(mem, b) THEN Root(mem, b) ELSE Nil
               /\ r # Nil <=> Used(mem, b)
               /\ r # Nil => /\ r \in Box /\ Used(mem, r) /\ mem.heap[r].real = Nil
                             /\ r[2] = TailVar(t) /\ r[1] <= s[1] /\ r[1] \in Ids(mem)
<1> DEFINE b == <<s[1], TailVar(t)>>
           r == FindTail(mem, s, t)
<1>1. b \in Box /\ b[1] = s[1] /\ b[2] = TailVar(t) /\ b # Nil /\ s[1] \in Numbers
    BY BoxFacts, KindFacts
<1>2. mem.heap[s].index # NoIndex /\ mem.heap[s].index[t] = IF Used(mem, b) THEN b ELSE Nil
    BY DEF IInv, Parts, Tabled
<1>3. mem.heap[s].index \in [Tails -> Place]
    BY <1>2, MemoryType DEF IInv, Tables
<1> HIDE DEF b
<1>4. r = IF Used(mem, b) THEN Root(mem, b) ELSE Nil
    BY <1>1, <1>2, FlatIs, SeekIs DEF FindTail
<1>5. ASSUME Used(mem, b)
      PROVE  /\ Root(mem, b) \in Box /\ Used(mem, Root(mem, b)) /\ mem.heap[Root(mem, b)].real = Nil
             /\ Root(mem, b)[2] = TailVar(t) /\ Root(mem, b)[1] <= s[1]
             /\ Root(mem, b)[1] \in Ids(mem)
  <2>1. CASE mem.heap[b].real = Nil
      BY <1>1, <1>5, <2>1, BoxFacts DEF Root, IInv, Parts, Boxed, Numbers
  <2>2. CASE mem.heap[b].real # Nil
      <3> DEFINE q == mem.heap[b].real
      <3>1. q \in Box /\ q[2] = b[2] /\ q[1] < b[1] /\ Used(mem, q) /\ mem.heap[q].real = Nil
          BY <1>1, <2>2 DEF IInv, Parts, Leads
      <3>2. q[1] \in Ids(mem) /\ q[1] \in Numbers
          BY <3>1, BoxFacts DEF IInv, Parts, Boxed
      <3>3. Root(mem, b) = q
          BY <2>2 DEF Root
      <3> HIDE DEF q
      <3> QED  BY <1>1, <3>1, <3>2, <3>3 DEF Numbers
  <2> QED  BY <2>1, <2>2
<1>6. Used(mem, b) => Root(mem, b) # Nil
    BY <1>5, BoxFacts
<1> QED  BY <1>1, <1>2, <1>3, <1>4, <1>5, <1>6 DEF b

-----------------------------------------------------------------------------
(* Values change. *)

\* Only values change, and only those of boxes that lead nowhere.
Revalued(mem, r) ==
  /\ r \in Memory
  /\ r.lev = mem.lev /\ r.cur = mem.cur /\ r.next = mem.next /\ r.node = mem.node
  /\ \A b \in Box :
       /\ r.heap[b].state = mem.heap[b].state /\ r.heap[b].real = mem.heap[b].real
       /\ r.heap[b].valid = mem.heap[b].valid /\ r.heap[b].hwired = mem.heap[b].hwired
       /\ r.heap[b].index = mem.heap[b].index
       /\ \/ r.heap[b] = mem.heap[b]
          \/ /\ Used(mem, b) /\ mem.heap[b].real = Nil
             /\ b[2] = <<"X">> => r.heap[b].val \in Tails \union {None}

\* When values change, nothing else is touched: the invariant is kept.
LEMMA RevaluedInv ==
    ASSUME NEW mem, IInv(mem), NEW r, Revalued(mem, r)
    PROVE  IInv(r)
<1>1. /\ Depths(r) = Depths(mem) /\ Ids(r) = Ids(mem)
      /\ \A d : Id(r, d) = Id(mem, d)
    BY DEF Revalued, Depths, Ids, Id
<1>2. /\ \A b \in Box : Used(r, b) <=> Used(mem, b)
      /\ \A b \in Box : Root(r, b) = Root(mem, b)
      /\ \A b : Held(r, b) <=> Held(mem, b)
    BY DEF Revalued, Used, Root, Held
<1>3. Numbered(r)
    BY <1>1 DEF IInv, Parts, Numbered, Revalued
<1>4. Tabled(r)
  <2>1. \A d \in Depths(r), n \in Names :
        r.lev[d].of[n] = IF Used(r, <<Id(r, d), <<n>>>>) THEN <<Id(r, d), <<n>>>> ELSE Nil
      <3>1. \A d \in Depths(r), n \in Names : <<Id(mem, d), <<n>>>> \in Box
          BY <1>1, BoxFacts, KindFacts, MemoryType DEF IInv
      <3> QED  BY <1>1, <1>2, <3>1 DEF IInv, Parts, Tabled, Revalued
  <2>2. \A b \in Box : r.heap[b].index # NoIndex <=>
          b[2] = <<"S">> /\ Used(r, b) /\ r.heap[b].real = Nil
      BY <1>2 DEF IInv, Parts, Tabled, Revalued
  <2>3. \A b \in Box : r.heap[b].index # NoIndex => \A t \in Tails :
          r.heap[b].index[t] =
              IF Used(r, <<b[1], TailVar(t)>>) THEN <<b[1], TailVar(t)>> ELSE Nil
      <3>1. \A b \in Box, t \in Tails : <<b[1], TailVar(t)>> \in Box
          BY BoxFacts, KindFacts
      <3> QED  BY <1>2, <3>1 DEF IInv, Parts, Tabled, Revalued
  <2>4. \A a \in Numbers, t \in Tails :
          Used(r, <<a, TailVar(t)>>) => r.heap[<<a, <<"S">>>>].index # NoIndex
      <3>1. \A a \in Numbers, t \in Tails : <<a, TailVar(t)>> \in Box /\ <<a, <<"S">>>> \in Box
          BY BoxFacts, KindFacts
      <3> QED  BY <1>2, <3>1 DEF IInv, Parts, Tabled, Revalued
  <2> QED  BY <2>1, <2>2, <2>3, <2>4 DEF Tabled
<1>5. Boxed(r)
  <2>1. ASSUME NEW b \in Box
        PROVE  /\ r.heap[b].state = "free" => r.heap[b] = FreeBox
               /\ r.heap[b].state \notin {"free", "used"} =>
                     r.heap[b] \in Empty /\ b[1] < r.next /\ b[1] \notin Ids(r)
               /\ Used(r, b) => /\ b[1] \in Ids(r)
                                /\ r.heap[b].valid >= b[1] /\ r.heap[b].valid < r.next
               /\ b[2] = <<"X">> => r.heap[b].val \in Tails \union {None}
      BY <1>1, <1>2 DEF IInv, Parts, Boxed, Revalued, Used
  <2> QED  BY <2>1 DEF Boxed
<1>6. Leads(r)
  <2>1. ASSUME NEW b \in Box, r.heap[b].real # Nil
        PROVE  LET q == r.heap[b].real IN
               /\ r.heap[b].val = None /\ r.heap[b].index = NoIndex
               /\ q \in Box /\ q[2] = b[2] /\ q[1] < b[1]
               /\ Used(r, q) /\ r.heap[q].real = Nil
               /\ b[2] \in NameKinds => \A c \in Ids(r) :
                     q[1] < c /\ c < b[1] => r.heap[<<c, b[2]>>].real = q
      <3>1. r.heap[b].real = mem.heap[b].real /\ r.heap[b] = mem.heap[b]
          BY <2>1 DEF Revalued
      <3> DEFINE q == mem.heap[b].real
      <3>2. /\ mem.heap[b].val = None /\ mem.heap[b].index = NoIndex
            /\ q \in Box /\ q[2] = b[2] /\ q[1] < b[1]
            /\ Used(mem, q) /\ mem.heap[q].real = Nil
            /\ b[2] \in NameKinds => \A c \in Ids(mem) :
                     q[1] < c /\ c < b[1] => mem.heap[<<c, b[2]>>].real = q
          BY <2>1, <3>1 DEF IInv, Parts, Leads
      <3>3. b[2] \in NameKinds => \A c \in Ids(mem) : <<c, b[2]>> \in Box
          BY BoxFacts, MemoryType DEF IInv, Kinds
      <3> QED  BY <1>1, <1>2, <3>1, <3>2, <3>3 DEF Revalued
  <2> QED  BY <2>1 DEF Leads
<1>7. Pointed(r)
  <2>1. \A b \in Box : r.heap[b].hwired = IF Held(r, b) THEN 1 ELSE 0
      BY <1>2 DEF IInv, Parts, Pointed, Revalued
  <2>2. ASSUME NEW nd \in Nodes, r.node[nd] # Nil
        PROVE  LET b == r.node[nd] IN
               /\ b[2] = <<NodeName(nd)>> /\ r.heap[b].state # "free" /\ r.heap[b].real = Nil
               /\ \A c \in Ids(r) : r.heap[b].valid = c =>
                     Used(r, <<c, b[2]>>) /\ Root(r, <<c, b[2]>>) = b
      <3> DEFINE b == mem.node[nd]
      <3>1. b \in Box /\ r.node[nd] = b
          BY <2>2, MemoryType DEF IInv, Revalued, Place
      <3>2. /\ b[2] = <<NodeName(nd)>> /\ mem.heap[b].state # "free" /\ mem.heap[b].real = Nil
            /\ \A c \in Ids(mem) : mem.heap[b].valid = c =>
                     Used(mem, <<c, b[2]>>) /\ Root(mem, <<c, b[2]>>) = b
          BY <2>2, <3>1 DEF IInv, Parts, Pointed
      <3>3. \A c \in Ids(mem) : <<c, b[2]>> \in Box
          BY <3>1, BoxFacts, MemoryType DEF IInv
      <3> QED  BY <1>1, <1>2, <3>1, <3>2, <3>3 DEF Revalued
  <2> QED  BY <2>1, <2>2 DEF Pointed
<1> QED  BY <1>3, <1>4, <1>5, <1>6, <1>7 DEF IInv, Parts, Revalued

-----------------------------------------------------------------------------
(* A variable gets a box. *)

\* The tables of the procedures are large enough for their variables.
TablesSuffice == 3 * Cardinality(Names) <= 2 * InitSize

\* A box that fits where a procedure has none of the name.
Fits(mem, d, n, rec) ==
  /\ rec \in Cell /\ rec.state = "used" /\ rec.hwired = 0 /\ rec.valid = mem.cur
  /\ \/ /\ rec.real = Nil /\ rec.index = IF n = "S" THEN NoTails ELSE NoIndex
        /\ n = "X" => rec.val \in Tails \union {None}
     \/ /\ d > 1 /\ rec.real = findsimple(mem, d - 1, n) /\ rec.real # Nil
        /\ rec.val = None /\ rec.index = NoIndex

\* What Insert does to the memory.
Inserted(mem, d, n, rec, r) ==
  LET b == <<Id(mem, d), <<n>>>> IN
  /\ r \in Memory /\ r.heap = [mem.heap EXCEPT ![b] = rec]
  /\ r.cur = mem.cur /\ r.next = mem.next /\ r.node = mem.node
  /\ Len(r.lev) = Len(mem.lev)
  /\ \A e \in Depths(mem) :
        /\ Id(r, e) = Id(mem, e) /\ r.lev[e].size = mem.lev[e].size
        /\ r.lev[e].saved = mem.lev[e].saved
        /\ e # d => r.lev[e] = mem.lev[e]
  /\ r.lev[d].of = [mem.lev[d].of EXCEPT ![n] = b]
  /\ r.lev[d].elements = mem.lev[d].elements + 1

\* A procedure can use finitely many names.
LEMMA NamesFinite == IsFiniteSet(Names) /\ Cardinality(Names) \in Nat
  <1>1. IsFiniteSet(Simples \union {"S"})
      BY PoolAssumption, FS_AddElement
  <1> QED  BY <1>1, FS_CardinalityType DEF Names

\* A box that waits for one node.
LEMMA HollowIs ==
    Hollow(1) = [state |-> "hollow", val |-> None, real |-> Nil, valid |-> 0, hwired |-> 1,
                 index |-> NoIndex]
<1> DEFINE e == [FreeBox EXCEPT !.state = "hollow"]
<1>1. e = [state |-> "hollow", val |-> None, real |-> Nil, valid |-> 0, hwired |-> 0,
           index |-> NoIndex]
    BY DEF FreeBox
<1>2. Hollow(1) = [e EXCEPT !.hwired = 1]
    BY DEF Hollow
<1> HIDE DEF e
<1> QED  BY <1>1, <1>2

\* A box that is lost.
LEMMA LeakedIs ==
    Leaked = [state |-> "lost", val |-> None, real |-> Nil, valid |-> 0, hwired |-> 0,
              index |-> NoIndex]
BY DEF Leaked, FreeBox

\* What is not in use in a procedure that runs has been free.
LEMMA FreeAt ==
    ASSUME NEW mem, IInv(mem), NEW b \in Box, ~Used(mem, b), b[1] \in Ids(mem)
    PROVE  mem.heap[b] = FreeBox /\ ~Held(mem, b)
<1>1. mem.heap[b].state \in {"free", "used", "hollow", "lost"}
    BY MemoryType DEF IInv, Cell
<1>2. mem.heap[b] = FreeBox
    BY <1>1 DEF IInv, Parts, Boxed, Used
<1>3. mem.heap[b].hwired = 0
    BY <1>2 DEF FreeBox
<1> QED  BY <1>2, <1>3 DEF IInv, Parts, Pointed

\* Insert puts the variable in the table, which has room for it and does not
\* grow.
LEMMA InsertIs ==
    ASSUME TablesSuffice, NEW mem, IInv(mem), NEW d \in Depths(mem), NEW n \in Names,
           mem.lev[d].of[n] = Nil, NEW rec \in Cell
    PROVE  Inserted(mem, d, n, rec, Insert(mem, d, n, rec))
<1> DEFINE b == <<Id(mem, d), <<n>>>>
           t == mem.lev[d]
           u == Entered(t, n, b)
           r == Insert(mem, d, n, rec)
<1>1. b \in Box /\ b # Nil
    BY FindIs, BoxFacts
<1>2. mem \in Memory /\ t \in Level /\ t.of \in [Names -> Place]
    BY MemoryType DEF IInv, Level
<1>3. u = [of |-> [t.of EXCEPT ![n] = b], size |-> t.size, elements |-> t.elements + 1,
           saved |-> t.saved, id |-> t.id]
  <2> HIDE DEF b
  <2>1. t = [of |-> t.of, size |-> t.size, elements |-> t.elements, saved |-> t.saved, id |-> t.id]
      BY <1>2 DEF Level
  <2>2. u = [[of |-> t.of, size |-> t.size, elements |-> t.elements, saved |-> t.saved,
              id |-> t.id] EXCEPT !.of[n] = b, !.elements = @ + 1]
      BY <2>1, Zenon DEF Entered
  <2> HIDE DEF t, u
  <2> QED  BY <2>2
<1>4. t.elements = Cardinality({o \in Names : t.of[o] # Nil}) /\ t.size = InitSize
    BY DEF IInv, Parts, Numbered
<1>5. t.elements + 1 <= Cardinality(Names) /\ t.elements \in Nat
  <2> DEFINE S == {o \in Names : t.of[o] # Nil}
  <2>1. S \subseteq Names /\ n \notin S /\ IsFiniteSet(S)
      BY NamesFinite, FS_Subset
  <2> HIDE DEF S
  <2>2. Cardinality(S \union {n}) = Cardinality(S) + 1 /\ Cardinality(S) \in Nat
      BY <2>1, FS_AddElement, FS_CardinalityType
  <2>3. Cardinality(S \union {n}) <= Cardinality(Names)
      BY <2>1, NamesFinite, FS_Subset
  <2> QED  BY <1>4, <2>2, <2>3 DEF S
<1>6. reorgHashtable(u) = u
  <2>1. u.elements = t.elements + 1 /\ u.size = InitSize
      BY <1>3, <1>4
  <2>2. ~(u.elements * 3 > u.size * 2)
      BY <1>5, <2>1, NamesFinite, PoolAssumption DEF TablesSuffice
  <2> HIDE DEF u
  <2> QED  BY <2>2 DEF reorgHashtable
<1>7. u \in Level
    BY <1>1, <1>2, <1>3, <1>5 DEF Level, Place
<1> DEFINE heap == [mem.heap EXCEPT ![b] = rec]
           lev == [mem.lev EXCEPT ![d] = u]
<1>8. r = [mem EXCEPT !.heap = heap, !.lev = lev]
  <2>1. r = [mem EXCEPT !.heap[b] = rec, !.lev[d] = reorgHashtable(u)]
      BY Zenon DEF Insert, Id
  <2> HIDE DEF u, b, r
  <2> QED  BY <1>6, <2>1
<1> HIDE DEF u, b
<1>9. heap \in [Box -> Cell] /\ lev \in Seq(Level) /\ Len(lev) = Len(mem.lev)
      /\ \A e \in Depths(mem) : lev[e] = IF e = d THEN u ELSE mem.lev[e]
    BY <1>1, <1>2, <1>7, MemoryType
<1> HIDE DEF heap, lev
<1>10. r = [heap |-> heap, lev |-> lev, cur |-> mem.cur, next |-> mem.next, node |-> mem.node]
    BY <1>2, <1>8 DEF Memory
<1> HIDE DEF r
<1>11. r \in Memory
    BY <1>2, <1>9, <1>10 DEF Memory
<1>12. /\ r.lev[d].of = [mem.lev[d].of EXCEPT ![n] = b]
       /\ r.lev[d].elements = mem.lev[d].elements + 1
       /\ r.lev[d].id = t.id /\ r.lev[d].size = t.size /\ r.lev[d].saved = t.saved
    BY <1>3, <1>9, <1>10
<1>13. \A e \in Depths(mem) :
        /\ Id(r, e) = Id(mem, e) /\ r.lev[e].size = mem.lev[e].size
        /\ r.lev[e].saved = mem.lev[e].saved
        /\ e # d => r.lev[e] = mem.lev[e]
    BY <1>9, <1>10, <1>12 DEF Id
<1>14. /\ r.heap = [mem.heap EXCEPT ![b] = rec] /\ Len(r.lev) = Len(mem.lev)
       /\ r.cur = mem.cur /\ r.next = mem.next /\ r.node = mem.node
    BY <1>9, <1>10 DEF heap
<1>15. Inserted(mem, d, n, rec, r)
    BY <1>11, <1>12, <1>13, <1>14 DEF Inserted, b
<1> QED  BY <1>15 DEF r

\* A variable that is put in the table of a procedure keeps the invariant.
LEMMA InsertedInv ==
    ASSUME NEW mem, IInv(mem), NEW d \in Depths(mem), NEW n \in Names,
           mem.lev[d].of[n] = Nil, NEW rec, Fits(mem, d, n, rec),
           NEW r, Inserted(mem, d, n, rec, r)
    PROVE  IInv(r)
<1> DEFINE b == <<Id(mem, d), <<n>>>>
<1>1. b \in Box /\ b[1] = Id(mem, d) /\ b[2] = <<n>> /\ b # Nil /\ b[1] \in Ids(mem)
    BY FindIs, BoxFacts, CurIs
<1>2. ~Used(mem, b) /\ mem.heap[b] = FreeBox /\ ~Held(mem, b)
  <2>1. ~Used(mem, b)
      BY <1>1 DEF IInv, Parts, Tabled
  <2> QED  BY <1>1, <2>1, FreeAt
<1>3. /\ Depths(r) = Depths(mem) /\ Ids(r) = Ids(mem) /\ Len(r.lev) = Len(mem.lev)
      /\ \A e \in Depths(mem) : Id(r, e) = Id(mem, e)
      /\ r.cur = mem.cur /\ r.next = mem.next /\ r.node = mem.node
    BY DEF Inserted, Depths, Ids
<1>4. /\ r.heap[b] = rec /\ \A c \in Box : c # b => r.heap[c] = mem.heap[c]
      /\ mem.heap[b].real = Nil /\ mem.heap[b].index = NoIndex
    BY <1>1, <1>2, MemoryType DEF Inserted, IInv, FreeBox
<1>5. /\ \A c : Held(r, c) <=> Held(mem, c)
      /\ \A c \in Box : c # b => (Used(r, c) <=> Used(mem, c)) /\ Root(r, c) = Root(mem, c)
      /\ Used(r, b)
    BY <1>3, <1>4 DEF Held, Used, Root, Fits
<1>6. Id(mem, d) \in Numbers /\ Id(mem, d) <= mem.cur /\ mem.cur \in Nat
    BY CurIs, MemoryType DEF IInv
<1>7. /\ rec \in Cell /\ rec.state = "used" /\ rec.hwired = 0 /\ rec.valid = mem.cur
      /\ rec.index # NoIndex <=> n = "S" /\ rec.real = Nil
      /\ rec.index # NoIndex => rec.index = NoTails
      /\ n = "X" => rec.val \in Tails \union {None}
      /\ rec.real # Nil => /\ d > 1 /\ rec.real = findsimple(mem, d - 1, n)
                           /\ rec.val = None /\ rec.index = NoIndex
    BY TablesDiffer DEF Fits
<1>8. Numbered(r)
  <2>1. r.lev[d].elements = Cardinality({o \in Names : r.lev[d].of[o] # Nil})
      <3> DEFINE S == {o \in Names : mem.lev[d].of[o] # Nil}
      <3>1. mem.lev[d].of \in [Names -> Place]
          BY MemoryType DEF IInv, Level
      <3>2. {o \in Names : r.lev[d].of[o] # Nil} = S \union {n} /\ n \notin S
          BY <1>1, <3>1 DEF Inserted
      <3>3. IsFiniteSet(S) /\ mem.lev[d].elements = Cardinality(S)
          <4>1. S \subseteq Names
              OBVIOUS
          <4>2. mem.lev[d].elements = Cardinality(S)
              BY DEF IInv, Parts, Numbered
          <4> QED  BY <4>1, <4>2, NamesFinite, FS_Subset
      <3> HIDE DEF S
      <3>4. Cardinality(S \union {n}) = Cardinality(S) + 1
          BY <3>2, <3>3, FS_AddElement
      <3> QED  BY <3>2, <3>3, <3>4 DEF Inserted
  <2>2. \A e \in Depths(mem) : e # d => r.lev[e] = mem.lev[e]
      BY DEF Inserted
  <2>3. \A e \in Depths(mem) : r.lev[e].saved = mem.lev[e].saved /\ r.lev[e].size = mem.lev[e].size
      BY DEF Inserted
  <2>4. \A e \in Depths(mem) : e - 1 \in Depths(mem) \/ e = 1
      BY MemoryType DEF IInv, Depths
  <2>5. Len(mem.lev) \in Depths(mem)
      BY CurIs
  <2>6. /\ Len(r.lev) > 0 /\ r.next > 3 /\ r.cur = Id(r, Len(r.lev))
        /\ \A e, f \in Depths(r) : e < f => Id(r, e) < Id(r, f)
      BY <1>3, <2>5 DEF IInv, Parts, Numbered
  <2>7. ASSUME NEW e \in Depths(r)
        PROVE  /\ Id(r, e) < r.next /\ r.lev[e].saved = IF e = 1 THEN 2 ELSE Id(r, e - 1)
               /\ r.lev[e].size = InitSize
      <3>1. /\ Id(mem, e) < mem.next /\ mem.lev[e].saved = IF e = 1 THEN 2 ELSE Id(mem, e - 1)
            /\ mem.lev[e].size = InitSize
          BY <1>3, <2>7 DEF IInv, Parts, Numbered
      <3> QED  BY <1>3, <2>3, <2>4, <2>7, <3>1
  <2>8. ASSUME NEW e \in Depths(r)
        PROVE  r.lev[e].elements = Cardinality({o \in Names : r.lev[e].of[o] # Nil})
      <3>1. mem.lev[e].elements = Cardinality({o \in Names : mem.lev[e].of[o] # Nil})
          BY <1>3 DEF IInv, Parts, Numbered
      <3> QED  BY <1>3, <2>1, <2>2, <3>1
  <2> QED  BY <2>6, <2>7, <2>8 DEF Numbered
<1>9. Tabled(r)
  <2>1. ASSUME NEW e \in Depths(r), NEW o \in Names
        PROVE  r.lev[e].of[o] = IF Used(r, <<Id(r, e), <<o>>>>) THEN <<Id(r, e), <<o>>>> ELSE Nil
      <3> DEFINE c == <<Id(mem, e), <<o>>>>
      <3>1. c \in Box /\ e \in Depths(mem) /\ Id(r, e) = Id(mem, e)
          BY <1>3, FindIs
      <3>2. CASE e = d /\ o = n
          <4>1. mem.lev[d].of \in [Names -> Place]
              BY MemoryType DEF IInv, Level
          <4>2. r.lev[d].of = [mem.lev[d].of EXCEPT ![n] = b]
              BY DEF Inserted
          <4>3. r.lev[d].of[n] = b
              BY <4>1, <4>2
          <4> QED  BY <1>5, <3>1, <3>2, <4>3
      <3>3. CASE e # d \/ o # n
          <4>1. c # b
              <5>1. Id(mem, e) = Id(mem, d) => e = d
                  BY <3>1, CurIs
              <5>2. <<o>> = <<n>> => o = n
                  OBVIOUS
              <5> QED  BY <3>3, <5>1, <5>2
          <4>2. r.lev[e].of[o] = mem.lev[e].of[o]
              <5>1. mem.lev[d].of \in [Names -> Place]
                  BY MemoryType DEF IInv, Level
              <5>2. /\ r.lev[d].of = [mem.lev[d].of EXCEPT ![n] = b]
                    /\ e # d => r.lev[e] = mem.lev[e]
                  BY <3>1 DEF Inserted
              <5> HIDE DEF b
              <5> QED  BY <3>3, <5>1, <5>2
          <4>3. mem.lev[e].of[o] = IF Used(mem, c) THEN c ELSE Nil
              BY <3>1 DEF IInv, Parts, Tabled
          <4> HIDE DEF c, b
          <4> QED  BY <1>5, <3>1, <4>1, <4>2, <4>3 DEF c
      <3> QED  BY <3>2, <3>3
  <2> HIDE DEF b
  <2>2. ASSUME NEW c \in Box
        PROVE  r.heap[c].index # NoIndex <=> c[2] = <<"S">> /\ Used(r, c) /\ r.heap[c].real = Nil
      <3>1. CASE c = b
          <4>1. <<n>> = <<"S">> <=> n = "S"
              OBVIOUS
          <4> QED  BY <1>1, <1>4, <1>5, <1>7, <3>1, <4>1
      <3>2. CASE c # b
          BY <1>4, <1>5, <3>2 DEF IInv, Parts, Tabled
      <3> QED  BY <3>1, <3>2
  <2>3. \A a \in Numbers, t \in Tails :
          /\ <<a, TailVar(t)>> \in Box /\ <<a, TailVar(t)>> # b /\ <<a, <<"S">>>> \in Box
      BY <1>1, BoxFacts, KindFacts
  <2>4. \A a \in Numbers, t \in Tails :
          Used(r, <<a, TailVar(t)>>) => mem.heap[<<a, <<"S">>>>].index # NoIndex
      BY <1>5, <2>3 DEF IInv, Parts, Tabled
  <2>5. ASSUME NEW c \in Box, r.heap[c].index # NoIndex, NEW t \in Tails
        PROVE  r.heap[c].index[t] =
                  IF Used(r, <<c[1], TailVar(t)>>) THEN <<c[1], TailVar(t)>> ELSE Nil
      <3>1. c[1] \in Numbers
          BY BoxFacts
      <3>2. CASE c = b
          <4>1. r.heap[c].index = NoTails /\ n = "S"
              BY <1>4, <1>7, <2>5, <3>2
          <4>2. c = <<c[1], <<"S">>>>
              BY <1>1, <3>2, <4>1, BoxFacts
          <4>3. ~Used(r, <<c[1], TailVar(t)>>)
              BY <1>4, <2>4, <3>1, <3>2, <4>2
          <4> QED  BY <4>1, <4>3 DEF NoTails
      <3>3. CASE c # b
          <4>1. r.heap[c] = mem.heap[c]
              BY <1>4, <3>3
          <4>2. mem.heap[c].index[t] =
                   IF Used(mem, <<c[1], TailVar(t)>>) THEN <<c[1], TailVar(t)>> ELSE Nil
              BY <2>5, <4>1 DEF IInv, Parts, Tabled
          <4>3. Used(mem, <<c[1], TailVar(t)>>) <=> Used(r, <<c[1], TailVar(t)>>)
              BY <1>5, <2>3, <3>1
          <4> QED  BY <4>1, <4>2, <4>3
      <3> QED  BY <3>2, <3>3
  <2>6. ASSUME NEW a \in Numbers, NEW t \in Tails, Used(r, <<a, TailVar(t)>>)
        PROVE  r.heap[<<a, <<"S">>>>].index # NoIndex
      BY <1>4, <2>3, <2>4, <2>6
  <2> QED  BY <2>1, <2>2, <2>5, <2>6 DEF Tabled
<1>10. Boxed(r)
  <2>1. ASSUME NEW c \in Box
        PROVE  /\ r.heap[c].state = "free" => r.heap[c] = FreeBox
               /\ r.heap[c].state \notin {"free", "used"} =>
                     r.heap[c] \in Empty /\ c[1] < r.next /\ c[1] \notin Ids(r)
               /\ Used(r, c) => /\ c[1] \in Ids(r)
                                /\ r.heap[c].valid >= c[1] /\ r.heap[c].valid < r.next
               /\ c[2] = <<"X">> => r.heap[c].val \in Tails \union {None}
      <3>1. CASE c = b
          <4>1. <<n>> = <<"X">> => n = "X"
              OBVIOUS
          <4> HIDE DEF b
          <4>2. Used(r, c) /\ c[1] \in Ids(r) /\ r.heap[c] = rec /\ c[2] = <<n>> /\ c[1] = Id(mem, d)
              BY <1>1, <1>3, <1>4, <1>5, <3>1
          <4>3. mem.cur < r.next
              BY <1>3, CurIs
          <4> QED  BY <1>6, <1>7, <4>1, <4>2, <4>3 DEF Numbers
      <3>2. CASE c # b
          <4> HIDE DEF b
          <4> QED  BY <1>3, <1>4, <1>5, <3>2 DEF IInv, Parts, Boxed
      <3> QED  BY <3>1, <3>2
  <2> QED  BY <2>1 DEF Boxed
<1>11. Leads(r)
  <2>1. ASSUME NEW c \in Box, r.heap[c].real # Nil
        PROVE  LET q == r.heap[c].real IN
               /\ r.heap[c].val = None /\ r.heap[c].index = NoIndex
               /\ q \in Box /\ q[2] = c[2] /\ q[1] < c[1]
               /\ Used(r, q) /\ r.heap[q].real = Nil
               /\ c[2] \in NameKinds => \A x \in Ids(r) :
                     q[1] < x /\ x < c[1] => r.heap[<<x, c[2]>>].real = q
      <3> DEFINE q == r.heap[c].real
      <3>1. \A x \in Ids(mem) : <<x, <<n>>>> \in Box
          BY BoxFacts, KindFacts, MemoryType DEF IInv
      <3>2. CASE c = b
          <4>1. /\ d > 1 /\ q = findsimple(mem, d - 1, n) /\ q # Nil
                /\ rec.val = None /\ rec.index = NoIndex /\ r.heap[c] = rec
              BY <1>4, <1>7, <2>1, <3>2
          <4>2. d - 1 \in Depths(mem)
              BY <4>1, MemoryType DEF Depths, IInv
          <4> DEFINE p == <<Id(mem, d - 1), <<n>>>>
          <4>3. /\ q \in Box /\ Used(mem, q) /\ mem.heap[q].real = Nil /\ q[2] = <<n>>
                /\ q[1] <= Id(mem, d - 1) /\ p \in Box /\ p[1] = Id(mem, d - 1) /\ p[2] = <<n>>
                /\ q = Root(mem, p) /\ Used(mem, p)
              BY <4>1, <4>2, FindIs
          <4>4. Id(mem, d - 1) < Id(mem, d) /\ Id(mem, d - 1) \in Nat /\ q[1] \in Nat
              <5>1. d - 1 < d
                  BY <4>2 DEF Depths
              <5> QED  BY <4>2, <4>3, <5>1, BoxFacts, MemoryType DEF IInv, Parts, Numbered, Numbers
          <4>5. q # b /\ q[1] < c[1]
              BY <1>1, <1>6, <3>2, <4>3, <4>4 DEF Numbers
          <4>6. Used(r, q) /\ r.heap[q].real = Nil
              BY <1>4, <1>5, <4>3, <4>5
          <4>7. ASSUME NEW x \in Ids(r), q[1] < x, x < c[1] PROVE r.heap[<<x, c[2]>>].real = q
              <5>1. x \in Ids(mem) /\ x \in Numbers /\ <<x, <<n>>>> \in Box
                  BY <1>3, <3>1, <4>7, MemoryType DEF IInv
              <5>2. x <= Id(mem, d - 1)
                  <6>1. PICK e \in Depths(mem) : x = Id(mem, e)
                      BY <5>1 DEF Ids
                  <6>2. ~(d < e) /\ e # d
                      <7>1. x < Id(mem, d) /\ Id(mem, d) \in Nat /\ x \in Nat
                          BY <1>1, <1>6, <3>2, <4>7, <5>1 DEF Numbers
                      <7>2. d < e => Id(mem, d) < Id(mem, e)
                          BY DEF IInv, Parts, Numbered
                      <7> HIDE DEF b
                      <7> QED  BY <6>1, <7>1, <7>2
                  <6>3. e = d - 1 \/ e < d - 1
                      BY <4>2, <6>2 DEF Depths
                  <6> QED  BY <4>2, <4>4, <5>1, <6>1, <6>3 DEF IInv, Parts, Numbered, Numbers
              <5>3. mem.heap[p].real = q
                  BY <4>3, <4>4, <4>7, <5>1, <5>2 DEF Root, Numbers
              <5>4. mem.heap[<<x, <<n>>>>].real = q
                  <6>1. CASE x = Id(mem, d - 1)
                      BY <5>3, <6>1
                  <6>2. CASE x # Id(mem, d - 1)
                      <7>1. x < p[1] /\ <<n>> \in NameKinds
                          BY <4>3, <4>4, <5>1, <5>2, <6>2, KindFacts DEF Numbers
                      <7> HIDE DEF p, q
                      <7>2. /\ mem.heap[p].real # Nil /\ p[2] \in NameKinds /\ p[2] = <<n>> /\ p \in Box
                            /\ q[1] < x /\ x < p[1]
                          BY <4>1, <4>3, <4>7, <5>3, <7>1
                      <7> QED  BY <5>1, <5>3, <7>2 DEF IInv, Parts, Leads
                  <6> QED  BY <6>1, <6>2
              <5>5. <<x, <<n>>>> # b
                  BY <1>1, <3>2, <4>7, <5>1 DEF Numbers
              <5> QED  BY <1>1, <1>4, <3>2, <5>1, <5>4, <5>5
          <4> HIDE DEF b, q
          <4> QED  BY <1>1, <3>2, <4>1, <4>3, <4>5, <4>6, <4>7 DEF q
      <3>3. CASE c # b
          <4>1. r.heap[c] = mem.heap[c]
              BY <1>4, <3>3
          <4>2. /\ mem.heap[c].val = None /\ mem.heap[c].index = NoIndex
                /\ q \in Box /\ q[2] = c[2] /\ q[1] < c[1]
                /\ Used(mem, q) /\ mem.heap[q].real = Nil
                /\ c[2] \in NameKinds => \A x \in Ids(mem) :
                     q[1] < x /\ x < c[1] => mem.heap[<<x, c[2]>>].real = q
              BY <2>1, <4>1 DEF IInv, Parts, Leads
          <4>3. q # b /\ q # Nil
              BY <1>2, <2>1, <4>2
          <4>4. ASSUME c[2] \in NameKinds, NEW x \in Ids(r), q[1] < x, x < c[1]
                PROVE  r.heap[<<x, c[2]>>].real = q
              <5>1. mem.heap[<<x, c[2]>>].real = q /\ <<x, c[2]>> \in Box
                  BY <1>3, <4>2, <4>4, BoxFacts, MemoryType DEF IInv
              <5>2. <<x, c[2]>> # b
                  BY <1>4, <4>3, <5>1
              <5> HIDE DEF b, q
              <5> QED  BY <1>4, <5>1, <5>2
          <4> HIDE DEF b
          <4> QED  BY <1>4, <1>5, <4>1, <4>2, <4>3, <4>4
      <3> QED  BY <3>2, <3>3
  <2> QED  BY <2>1 DEF Leads
<1>12. Pointed(r)
  <2> HIDE DEF b
  <2>1. ASSUME NEW c \in Box PROVE r.heap[c].hwired = IF Held(r, c) THEN 1 ELSE 0
      BY <1>2, <1>4, <1>5, <1>7 DEF IInv, Parts, Pointed
  <2>2. ASSUME NEW nd \in Nodes, r.node[nd] # Nil
        PROVE  LET c == r.node[nd] IN
               /\ c[2] = <<NodeName(nd)>> /\ r.heap[c].state # "free" /\ r.heap[c].real = Nil
               /\ \A x \in Ids(r) : r.heap[c].valid = x =>
                     Used(r, <<x, c[2]>>) /\ Root(r, <<x, c[2]>>) = c
      <3> DEFINE c == mem.node[nd]
      <3>1. c \in Box /\ r.node[nd] = c /\ c # b
          BY <1>2, <1>3, <2>2, MemoryType DEF IInv, Place, Held
      <3>2. /\ c[2] = <<NodeName(nd)>> /\ mem.heap[c].state # "free" /\ mem.heap[c].real = Nil
            /\ \A x \in Ids(mem) : mem.heap[c].valid = x =>
                     Used(mem, <<x, c[2]>>) /\ Root(mem, <<x, c[2]>>) = c
          BY <1>3, <2>2, <3>1 DEF IInv, Parts, Pointed
      <3>3. \A x \in Ids(mem) : <<x, c[2]>> \in Box
          BY <3>1, BoxFacts, MemoryType DEF IInv
      <3> HIDE DEF c
      <3> QED  BY <1>2, <1>3, <1>4, <1>5, <3>1, <3>2, <3>3
  <2> QED  BY <2>1, <2>2 DEF Pointed
<1> QED  BY <1>8, <1>9, <1>10, <1>11, <1>12 DEF IInv, Parts, Inserted

-----------------------------------------------------------------------------
(* A tail gets a box. *)

\* A stem that has a table of tails.
Stem(mem, s) == s \in Box /\ s[2] = <<"S">> /\ Used(mem, s) /\ mem.heap[s].real = Nil

\* A box that fits where a stem has no tail t.
FitsTail(mem, s, t, rec) ==
  /\ rec \in Cell /\ rec.state = "used" /\ rec.hwired = 0 /\ rec.valid = mem.cur
  /\ rec.index = NoIndex
  /\ rec.real # Nil => /\ rec.val = None /\ rec.real \in Box /\ rec.real[2] = TailVar(t)
                       /\ rec.real[1] < s[1] /\ Used(mem, rec.real)
                       /\ mem.heap[rec.real].real = Nil

\* The procedures and the nodes stay as they are.
SameFrame(mem, r) ==
  /\ r \in Memory /\ r.lev = mem.lev /\ r.cur = mem.cur /\ r.next = mem.next /\ r.node = mem.node

\* A box is the same but for its table.
SameButIndex(c, e) ==
  /\ c.state = e.state /\ c.val = e.val /\ c.real = e.real /\ c.valid = e.valid
  /\ c.hwired = e.hwired

TailInserted(mem, s, t, rec, r) ==
  LET b == <<s[1], TailVar(t)>> IN
  /\ SameFrame(mem, r)
  /\ r.heap[b] = rec
  /\ SameButIndex(r.heap[s], mem.heap[s])
  /\ r.heap[s].index = [mem.heap[s].index EXCEPT ![t] = b]
  /\ \A c \in Box : c # b /\ c # s => r.heap[c] = mem.heap[c]

\* The procedures stay as they are.
SameLevels(mem, r) == r.lev = mem.lev /\ r.cur = mem.cur /\ r.next = mem.next

\* The same procedures run under the same numbers.
LEMMA LevelsSame ==
    ASSUME NEW mem, NEW r, SameLevels(mem, r)
    PROVE  /\ Depths(r) = Depths(mem) /\ Ids(r) = Ids(mem) /\ \A d : Id(r, d) = Id(mem, d)
           /\ Cur(r) = Cur(mem)
           /\ IInv(mem) => Numbered(r)
<1>1. /\ Depths(r) = Depths(mem) /\ Ids(r) = Ids(mem) /\ \A d : Id(r, d) = Id(mem, d)
      /\ Cur(r) = Cur(mem)
    BY DEF SameLevels, Depths, Ids, Id, Cur
<1>2. ASSUME IInv(mem) PROVE Numbered(r)
  <2>1. Numbered(mem) /\ r.lev = mem.lev /\ r.cur = mem.cur /\ r.next = mem.next
      BY <1>2 DEF IInv, Parts, SameLevels
  <2>2. /\ Len(r.lev) > 0 /\ r.next > 3 /\ r.cur = Id(r, Len(r.lev))
        /\ \A d, e \in Depths(r) : d < e => Id(r, d) < Id(r, e)
      BY <1>1, <2>1 DEF Numbered
  <2>3. ASSUME NEW d \in Depths(r)
        PROVE  /\ Id(r, d) < r.next /\ r.lev[d].saved = IF d = 1 THEN 2 ELSE Id(r, d - 1)
               /\ r.lev[d].size = InitSize
      <3>1. /\ Id(mem, d) < mem.next /\ mem.lev[d].saved = IF d = 1 THEN 2 ELSE Id(mem, d - 1)
            /\ mem.lev[d].size = InitSize
          BY <1>1, <2>1, <2>3 DEF Numbered
      <3> QED  BY <1>1, <2>1, <3>1
  <2>4. ASSUME NEW d \in Depths(r)
        PROVE  r.lev[d].elements = Cardinality({n \in Names : r.lev[d].of[n] # Nil})
      <3>1. mem.lev[d].elements = Cardinality({n \in Names : mem.lev[d].of[n] # Nil})
          BY <1>1, <2>1, <2>4 DEF Numbered
      <3> QED  BY <2>1, <3>1
  <2> QED  BY <2>2, <2>3, <2>4 DEF Numbered
<1> QED  BY <1>1, <1>2

\* The same procedures run, and the same nodes point at the same boxes.
LEMMA FrameSame ==
    ASSUME NEW mem, NEW r, SameFrame(mem, r)
    PROVE  /\ Depths(r) = Depths(mem) /\ Ids(r) = Ids(mem) /\ \A d : Id(r, d) = Id(mem, d)
           /\ Cur(r) = Cur(mem)
           /\ \A b : Held(r, b) <=> Held(mem, b)
           /\ IInv(mem) => Numbered(r)
<1>1. SameLevels(mem, r) /\ \A b : Held(r, b) <=> Held(mem, b)
    BY DEF SameFrame, SameLevels, Held
<1> QED  BY <1>1, LevelsSame

\* InsertTail puts the tail in the stem's table.
LEMMA InsertTailIs ==
    ASSUME NEW mem, IInv(mem), NEW s, Stem(mem, s), NEW t \in Tails, NEW rec \in Cell
    PROVE  TailInserted(mem, s, t, rec, InsertTail(mem, s, t, rec))
<1> DEFINE b == <<s[1], TailVar(t)>>
           c == mem.heap[s]
           r == InsertTail(mem, s, t, rec)
           one == [mem.heap EXCEPT ![b] = rec]
           heap == [one EXCEPT ![s].index[t] = b]
<1>1. /\ b \in Box /\ b # s /\ s \in Box /\ mem.heap[s].index \in [Tails -> Place]
      /\ s[2] # TailVar(t)
  <2>1. s \in Box /\ s[2] = <<"S">> /\ Used(mem, s) /\ mem.heap[s].real = Nil
      BY DEF Stem
  <2>2. b \in Box /\ b[2] = TailVar(t) /\ mem.heap[s].index \in [Tails -> Place]
      BY <2>1, FindTailIs
  <2>3. <<"S">> # TailVar(t)
      BY KindFacts
  <2> HIDE DEF b
  <2> QED  BY <2>1, <2>2, <2>3
<1>2. mem \in Memory /\ c \in Cell /\ mem.heap \in [Box -> Cell]
    BY <1>1, MemoryType DEF IInv
<1>3. r = [mem EXCEPT !.heap = heap]
    BY DEF InsertTail
<1> HIDE DEF b, r
<1>4. one \in [Box -> Cell] /\ one[s] = c /\ one[b] = rec
      /\ \A x \in Box : x # b => one[x] = mem.heap[x]
    BY <1>1, <1>2
<1> DEFINE e == [c EXCEPT !.index[t] = b]
<1> HIDE DEF one
<1>5. c = [state |-> c.state, val |-> c.val, real |-> c.real, valid |-> c.valid,
           hwired |-> c.hwired, index |-> c.index]
    BY <1>2 DEF Cell
<1>6. e = [state |-> c.state, val |-> c.val, real |-> c.real, valid |-> c.valid,
           hwired |-> c.hwired, index |-> [c.index EXCEPT ![t] = b]]
  <2>1. e = [[state |-> c.state, val |-> c.val, real |-> c.real, valid |-> c.valid,
           hwired |-> c.hwired, index |-> c.index] EXCEPT !.index[t] = b]
      BY <1>5, Zenon
  <2> HIDE DEF e, c
  <2> QED  BY <2>1
<1>7. heap = [one EXCEPT ![s] = e]
    BY <1>4, <1>1
<1>8. e \in Cell /\ e.index = [c.index EXCEPT ![t] = b] /\ SameButIndex(e, c)
  <2>1. [c.index EXCEPT ![t] = b] \in [Tails -> Place]
      BY <1>1 DEF Place
  <2> HIDE DEF e
  <2> QED  BY <1>2, <1>6, <2>1 DEF Cell, Tables, SameButIndex
<1> HIDE DEF e, heap
<1>9. heap \in [Box -> Cell] /\ heap[b] = rec /\ heap[s] = e
      /\ \A x \in Box : x # b /\ x # s => heap[x] = mem.heap[x]
    BY <1>1, <1>4, <1>7, <1>8
<1>10. r = [heap |-> heap, lev |-> mem.lev, cur |-> mem.cur, next |-> mem.next, node |-> mem.node]
    BY <1>2, <1>3 DEF Memory
<1>11. SameFrame(mem, r) /\ r.heap = heap
    BY <1>2, <1>9, <1>10 DEF Memory, SameFrame
<1> QED  BY <1>8, <1>9, <1>11 DEF TailInserted, b, r, c

\* A tail that is put in the table of a stem keeps the invariant.
LEMMA TailInsertedInv ==
    ASSUME NEW mem, IInv(mem), NEW s, Stem(mem, s), NEW t \in Tails,
           mem.heap[s].index[t] = Nil, NEW rec, FitsTail(mem, s, t, rec),
           NEW r, TailInserted(mem, s, t, rec, r)
    PROVE  IInv(r) /\ Stem(r, s)
<1> DEFINE b == <<s[1], TailVar(t)>>
<1>1. /\ b \in Box /\ b[1] = s[1] /\ b[2] = TailVar(t) /\ b # Nil /\ b # s /\ s \in Box
      /\ mem.heap[s].index \in [Tails -> Place] /\ b[2] \notin NameKinds
    BY FindTailIs, BoxFacts, KindFacts DEF Stem
<1>2. s[1] \in Ids(mem) /\ s[1] \in Numbers
    BY <1>1, BoxFacts DEF IInv, Parts, Boxed, Stem
<1>3. ~Used(mem, b) /\ mem.heap[b] = FreeBox /\ ~Held(mem, b)
  <2>1. ~Used(mem, b)
      BY <1>1, FindTailIs DEF Stem
  <2> QED  BY <1>1, <1>2, <2>1, FreeAt
<1>4. /\ SameFrame(mem, r) /\ r.heap[b] = rec /\ SameButIndex(r.heap[s], mem.heap[s])
      /\ r.heap[s].index = [mem.heap[s].index EXCEPT ![t] = b]
      /\ \A c \in Box : c # b /\ c # s => r.heap[c] = mem.heap[c]
    BY DEF TailInserted
<1>5. /\ Depths(r) = Depths(mem) /\ Ids(r) = Ids(mem) /\ \A d : Id(r, d) = Id(mem, d)
      /\ \A c : Held(r, c) <=> Held(mem, c)
      /\ Numbered(r)
    BY <1>4, FrameSame
<1> HIDE DEF b
<1>6. /\ \A c \in Box : c # b => SameButIndex(r.heap[c], mem.heap[c])
      /\ \A c \in Box : c # b => (Used(r, c) <=> Used(mem, c)) /\ Root(r, c) = Root(mem, c)
      /\ Used(r, b)
    BY <1>4 DEF SameButIndex, Used, Root, FitsTail
<1>7. /\ mem.heap[b].real = Nil /\ mem.heap[b].index = NoIndex
      /\ mem.heap[s].index # NoIndex /\ r.heap[s].index # NoIndex
  <2>1. mem.heap[s].index \in [Tails -> Place] /\ r.heap[s].index \in [Tails -> Place]
      BY <1>1, <1>4 DEF Place
  <2> QED  BY <1>3, <2>1, TablesDiffer DEF FreeBox
<1>8. Tabled(r)
  <2>1. ASSUME NEW e \in Depths(r), NEW o \in Names
        PROVE  r.lev[e].of[o] = IF Used(r, <<Id(r, e), <<o>>>>) THEN <<Id(r, e), <<o>>>> ELSE Nil
      <3> DEFINE c == <<Id(mem, e), <<o>>>>
      <3>1. c \in Box /\ e \in Depths(mem) /\ Id(r, e) = Id(mem, e) /\ c[2] = <<o>>
          BY <1>5, FindIs
      <3>2. c # b
          BY <1>1, <3>1, KindFacts
      <3>3. mem.lev[e].of[o] = IF Used(mem, c) THEN c ELSE Nil
          BY <3>1 DEF IInv, Parts, Tabled
      <3> HIDE DEF c
      <3> QED  BY <1>4, <1>6, <3>1, <3>2, <3>3 DEF c, SameFrame
  <2>2. ASSUME NEW c \in Box
        PROVE  r.heap[c].index # NoIndex <=> c[2] = <<"S">> /\ Used(r, c) /\ r.heap[c].real = Nil
      <3>1. CASE c = b
          BY <1>1, <1>4, <3>1, KindFacts DEF FitsTail
      <3>2. CASE c = s
          BY <1>1, <1>4, <1>6, <1>7, <3>2 DEF Stem, SameButIndex
      <3>3. CASE c # b /\ c # s
          BY <1>4, <1>6, <3>3 DEF IInv, Parts, Tabled
      <3> QED  BY <3>1, <3>2, <3>3
  <2>3. \A a \in Numbers, u \in Tails : <<a, TailVar(u)>> \in Box /\ <<a, <<"S">>>> \in Box
      BY BoxFacts, KindFacts
  <2>4. ASSUME NEW c \in Box, r.heap[c].index # NoIndex, NEW u \in Tails
        PROVE  r.heap[c].index[u] =
                  IF Used(r, <<c[1], TailVar(u)>>) THEN <<c[1], TailVar(u)>> ELSE Nil
      <3> DEFINE x == <<c[1], TailVar(u)>>
      <3>1. c[1] \in Numbers /\ x \in Box /\ x[1] = c[1] /\ x[2] = TailVar(u)
          BY <2>3, BoxFacts
      <3>2. c # b
          BY <1>4, <2>4 DEF FitsTail
      <3>3. mem.heap[c].index # NoIndex /\ c[2] = <<"S">>
          BY <1>4, <1>7, <2>4, <3>2 DEF IInv, Parts, Tabled, Stem
      <3>4. mem.heap[c].index[u] = IF Used(mem, x) THEN x ELSE Nil
          BY <3>3 DEF IInv, Parts, Tabled
      <3>5. x = b <=> c = s /\ u = t
          <4>1. c = <<c[1], <<"S">>>> /\ s = <<s[1], <<"S">>>>
              BY <1>1, <3>3, BoxFacts DEF Stem
          <4>2. x = b => TailVar(u) = TailVar(t) /\ c[1] = s[1]
              BY <1>1, <3>1
          <4>3. c = s /\ u = t => x = b
              BY DEF b
          <4> QED  BY <4>1, <4>2, <4>3, KindFacts
      <3>6. CASE x = b
          BY <1>1, <1>4, <1>6, <3>5, <3>6
      <3>7. CASE x # b
          <4>1. r.heap[c].index[u] = mem.heap[c].index[u]
              BY <1>1, <1>4, <3>2, <3>5, <3>7
          <4> HIDE DEF x
          <4>2. Used(r, x) <=> Used(mem, x)
              BY <1>6, <3>1, <3>7
          <4> QED  BY <3>4, <4>1, <4>2 DEF x
      <3> QED  BY <3>6, <3>7
  <2>5. ASSUME NEW a \in Numbers, NEW u \in Tails, Used(r, <<a, TailVar(u)>>)
        PROVE  r.heap[<<a, <<"S">>>>].index # NoIndex
      <3> DEFINE x == <<a, TailVar(u)>>
                 y == <<a, <<"S">>>>
      <3>1. x \in Box /\ x[1] = a /\ y \in Box /\ y[2] = <<"S">>
          BY <2>3
      <3>2. y # b
          BY <1>1, <3>1, KindFacts
      <3>3. CASE x = b
          <4>1. a = s[1] /\ s = <<s[1], <<"S">>>>
              BY <1>1, <3>1, <3>3, BoxFacts DEF Stem
          <4> QED  BY <1>7, <4>1
      <3>4. CASE x # b
          <4>1. Used(mem, x)
              BY <1>6, <2>5, <3>1, <3>4
          <4>2. mem.heap[y].index # NoIndex
              BY <4>1 DEF IInv, Parts, Tabled
          <4> HIDE DEF x, y
          <4>3. r.heap[y].index # NoIndex
              BY <1>4, <1>7, <3>1, <3>2, <4>2
          <4> QED  BY <4>3 DEF y
      <3> QED  BY <3>3, <3>4
  <2> QED  BY <2>1, <2>2, <2>4, <2>5 DEF Tabled
<1>9. Boxed(r)
  <2>1. ASSUME NEW c \in Box
        PROVE  /\ r.heap[c].state = "free" => r.heap[c] = FreeBox
               /\ r.heap[c].state \notin {"free", "used"} =>
                     r.heap[c] \in Empty /\ c[1] < r.next /\ c[1] \notin Ids(r)
               /\ Used(r, c) => /\ c[1] \in Ids(r)
                                /\ r.heap[c].valid >= c[1] /\ r.heap[c].valid < r.next
               /\ c[2] = <<"X">> => r.heap[c].val \in Tails \union {None}
      <3>1. CASE c = b
          <4>1. s[1] <= mem.cur /\ mem.cur < mem.next
              BY <1>2, CurIs
          <4>2. TailVar(t) # <<"X">> /\ mem.cur \in Nat
              BY KindFacts, MemoryType DEF IInv
          <4> QED  BY <1>1, <1>2, <1>4, <1>5, <3>1, <4>1, <4>2 DEF FitsTail, Numbers, SameFrame
      <3>2. CASE c = s
          <4>1. /\ <<"S">> # <<"X">> /\ mem.heap[s].state = "used"
                /\ mem.heap[s].valid >= s[1] /\ mem.heap[s].valid < mem.next
              BY <1>1 DEF IInv, Parts, Boxed, Stem, Used
          <4> QED  BY <1>1, <1>2, <1>4, <1>5, <3>2, <4>1 DEF SameButIndex, SameFrame, Stem, Used
      <3>3. CASE c # b /\ c # s
          <4>1. r.heap[c] = mem.heap[c]
              BY <1>4, <3>3
          <4> QED  BY <1>4, <1>5, <1>6, <3>3, <4>1 DEF IInv, Parts, Boxed, SameFrame
      <3> QED  BY <3>1, <3>2, <3>3
  <2> QED  BY <2>1 DEF Boxed
<1>10. Leads(r)
  <2>1. ASSUME NEW c \in Box, r.heap[c].real # Nil
        PROVE  LET q == r.heap[c].real IN
               /\ r.heap[c].val = None /\ r.heap[c].index = NoIndex
               /\ q \in Box /\ q[2] = c[2] /\ q[1] < c[1]
               /\ Used(r, q) /\ r.heap[q].real = Nil
               /\ c[2] \in NameKinds => \A x \in Ids(r) :
                     q[1] < x /\ x < c[1] => r.heap[<<x, c[2]>>].real = q
      <3> DEFINE q == r.heap[c].real
      <3>1. CASE c = b
          <4>1. /\ rec.val = None /\ q = rec.real /\ q \in Box /\ q[2] = TailVar(t) /\ q[1] < s[1]
                /\ Used(mem, q) /\ mem.heap[q].real = Nil /\ rec.index = NoIndex
              BY <1>4, <2>1, <3>1 DEF FitsTail
          <4>2. q # b
              BY <1>3, <4>1
          <4>3. Used(r, q) /\ r.heap[q].real = Nil
              BY <1>6, <4>1, <4>2 DEF SameButIndex
          <4> HIDE DEF q
          <4> QED  BY <1>1, <1>4, <3>1, <4>1, <4>3 DEF q
      <3>2. CASE c # b
          <4>1. c # s /\ r.heap[c] = mem.heap[c]
              BY <1>4, <2>1, <3>2 DEF Stem, SameButIndex
          <4>2. /\ mem.heap[c].val = None /\ mem.heap[c].index = NoIndex
                /\ q \in Box /\ q[2] = c[2] /\ q[1] < c[1]
                /\ Used(mem, q) /\ mem.heap[q].real = Nil
                /\ c[2] \in NameKinds => \A x \in Ids(mem) :
                     q[1] < x /\ x < c[1] => mem.heap[<<x, c[2]>>].real = q
              BY <2>1, <4>1 DEF IInv, Parts, Leads
          <4>3. q # b
              BY <1>3, <4>2
          <4>4. ASSUME c[2] \in NameKinds, NEW x \in Ids(r), q[1] < x, x < c[1]
                PROVE  r.heap[<<x, c[2]>>].real = q
              <5>1. mem.heap[<<x, c[2]>>].real = q /\ <<x, c[2]>> \in Box
                  BY <1>5, <4>2, <4>4, BoxFacts, MemoryType DEF IInv
              <5>2. <<x, c[2]>> # b
                  BY <1>1, <4>4
              <5> HIDE DEF q
              <5> QED  BY <1>6, <5>1, <5>2 DEF SameButIndex
          <4>5. Used(r, q) /\ r.heap[q].real = Nil
              BY <1>6, <4>2, <4>3 DEF SameButIndex
          <4> HIDE DEF q
          <4> QED  BY <4>1, <4>2, <4>4, <4>5 DEF q
      <3> QED  BY <3>1, <3>2
  <2> QED  BY <2>1 DEF Leads
<1>11. Pointed(r)
  <2>1. ASSUME NEW c \in Box PROVE r.heap[c].hwired = IF Held(r, c) THEN 1 ELSE 0
      <3>1. CASE c = b
          BY <1>3, <1>4, <1>5, <3>1 DEF FitsTail
      <3>2. CASE c # b
          BY <1>5, <1>6, <3>2 DEF IInv, Parts, Pointed, SameButIndex
      <3> QED  BY <3>1, <3>2
  <2>2. ASSUME NEW nd \in Nodes, r.node[nd] # Nil
        PROVE  LET c == r.node[nd] IN
               /\ c[2] = <<NodeName(nd)>> /\ r.heap[c].state # "free" /\ r.heap[c].real = Nil
               /\ \A x \in Ids(r) : r.heap[c].valid = x =>
                     Used(r, <<x, c[2]>>) /\ Root(r, <<x, c[2]>>) = c
      <3> DEFINE c == mem.node[nd]
      <3>1. c \in Box /\ r.node[nd] = c /\ c # b
          BY <1>3, <1>4, <2>2, MemoryType DEF IInv, Place, Held, SameFrame
      <3>2. /\ c[2] = <<NodeName(nd)>> /\ mem.heap[c].state # "free" /\ mem.heap[c].real = Nil
            /\ \A x \in Ids(mem) : mem.heap[c].valid = x =>
                     Used(mem, <<x, c[2]>>) /\ Root(mem, <<x, c[2]>>) = c
          BY <2>2, <3>1 DEF IInv, Parts, Pointed
      <3>3. \A x \in Ids(mem) : <<x, c[2]>> \in Box
          BY <3>1, BoxFacts, MemoryType DEF IInv
      <3>4. \A x \in Ids(mem) : mem.heap[c].valid = x => <<x, c[2]>> # b
          BY <1>3, <3>2
      <3> HIDE DEF c
      <3> QED  BY <1>5, <1>6, <3>1, <3>2, <3>3, <3>4 DEF SameButIndex
  <2> QED  BY <2>1, <2>2 DEF Pointed
<1>12. Stem(r, s)
    BY <1>1, <1>4, <1>6 DEF Stem, SameButIndex
<1> QED  BY <1>4, <1>5, <1>8, <1>9, <1>10, <1>11, <1>12 DEF IInv, Parts, SameFrame

-----------------------------------------------------------------------------
(* Pointers of nodes. *)

\* The two nodes point to boxes of different names.
LEMMA NodesDiffer ==
    /\ \A nd \in Nodes : NodeName(nd) \in Names /\ <<NodeName(nd)>> \in NameKinds
    /\ \A nd, other \in Nodes : <<NodeName(nd)>> = <<NodeName(other)>> => nd = other
<1>1. NodeX # NodeHead /\ Nodes = {NodeX, NodeHead}
    BY DEF NodeX, NodeHead, Nodes
<1>2. NodeName(NodeX) = "X" /\ NodeName(NodeHead) = "S"
    BY <1>1 DEF NodeName
<1> QED  BY <1>1, <1>2, KindFacts

\* A box that leads to another is in use.
LEMMA LeadingUsed ==
    ASSUME NEW mem, IInv(mem), NEW b \in Box, mem.heap[b].real # Nil
    PROVE  Used(mem, b)
<1>1. mem.heap[b].state \in {"free", "used", "hollow", "lost"}
    BY MemoryType DEF IInv, Cell
<1>2. FreeBox.real = Nil /\ Hollow(1).real = Nil /\ Leaked.real = Nil
    BY HollowIs, LeakedIs DEF FreeBox
<1> QED  BY <1>1, <1>2 DEF IInv, Parts, Boxed, Used, Empty

\* What the tables depend on stays as it is.
Kept(mem, r) ==
  /\ SameLevels(mem, r)
  /\ \A b \in Box :
       /\ r.heap[b].val = mem.heap[b].val /\ r.heap[b].real = mem.heap[b].real
       /\ r.heap[b].valid = mem.heap[b].valid /\ r.heap[b].index = mem.heap[b].index
       /\ Used(r, b) <=> Used(mem, b)

\* What speaks of levels and of live boxes is kept by changes of the nodes.
LEMMA KeptInv ==
    ASSUME NEW mem, IInv(mem), NEW r, Kept(mem, r)
    PROVE  Numbered(r) /\ Tabled(r) /\ Leads(r)
<1>1. /\ Depths(r) = Depths(mem) /\ Ids(r) = Ids(mem) /\ \A d : Id(r, d) = Id(mem, d)
      /\ Numbered(r) /\ r.lev = mem.lev
    BY LevelsSame DEF Kept, SameLevels
<1>2. Tabled(r)
  <2>1. \A d \in Depths(r), n \in Names :
        r.lev[d].of[n] = IF Used(r, <<Id(r, d), <<n>>>>) THEN <<Id(r, d), <<n>>>> ELSE Nil
      <3>1. \A d \in Depths(r), n \in Names : <<Id(mem, d), <<n>>>> \in Box
          BY <1>1, BoxFacts, KindFacts, MemoryType DEF IInv
      <3> QED  BY <1>1, <3>1 DEF IInv, Parts, Tabled, Kept
  <2>2. \A b \in Box : r.heap[b].index # NoIndex <=>
          b[2] = <<"S">> /\ Used(r, b) /\ r.heap[b].real = Nil
      BY DEF IInv, Parts, Tabled, Kept
  <2>3. \A b \in Box : r.heap[b].index # NoIndex => \A t \in Tails :
          r.heap[b].index[t] =
              IF Used(r, <<b[1], TailVar(t)>>) THEN <<b[1], TailVar(t)>> ELSE Nil
      <3>1. \A b \in Box, t \in Tails : <<b[1], TailVar(t)>> \in Box
          BY BoxFacts, KindFacts
      <3> QED  BY <3>1 DEF IInv, Parts, Tabled, Kept
  <2>4. \A a \in Numbers, t \in Tails :
          Used(r, <<a, TailVar(t)>>) => r.heap[<<a, <<"S">>>>].index # NoIndex
      <3>1. \A a \in Numbers, t \in Tails : <<a, TailVar(t)>> \in Box /\ <<a, <<"S">>>> \in Box
          BY BoxFacts, KindFacts
      <3> QED  BY <3>1 DEF IInv, Parts, Tabled, Kept
  <2> QED  BY <2>1, <2>2, <2>3, <2>4 DEF Tabled
<1>3. Leads(r)
  <2>1. ASSUME NEW b \in Box, r.heap[b].real # Nil
        PROVE  LET q == r.heap[b].real IN
               /\ r.heap[b].val = None /\ r.heap[b].index = NoIndex
               /\ q \in Box /\ q[2] = b[2] /\ q[1] < b[1]
               /\ Used(r, q) /\ r.heap[q].real = Nil
               /\ b[2] \in NameKinds => \A c \in Ids(r) :
                     q[1] < c /\ c < b[1] => r.heap[<<c, b[2]>>].real = q
      <3> DEFINE q == mem.heap[b].real
      <3>1. r.heap[b].real = q /\ r.heap[b].val = mem.heap[b].val
            /\ r.heap[b].index = mem.heap[b].index
          BY DEF Kept
      <3>2. /\ mem.heap[b].val = None /\ mem.heap[b].index = NoIndex
            /\ q \in Box /\ q[2] = b[2] /\ q[1] < b[1]
            /\ Used(mem, q) /\ mem.heap[q].real = Nil
            /\ b[2] \in NameKinds => \A c \in Ids(mem) :
                     q[1] < c /\ c < b[1] => mem.heap[<<c, b[2]>>].real = q
          BY <2>1, <3>1 DEF IInv, Parts, Leads
      <3>3. b[2] \in NameKinds => \A c \in Ids(mem) : <<c, b[2]>> \in Box
          BY BoxFacts, MemoryType DEF IInv, Kinds
      <3> HIDE DEF q
      <3> QED  BY <1>1, <3>1, <3>2, <3>3 DEF Kept
  <2> QED  BY <2>1 DEF Leads
<1> QED  BY <1>1, <1>2, <1>3

\* Only the pointer of one node changes, and the box b it points or pointed to.
Repointed(mem, nd, p, b, r) ==
  /\ r \in Memory /\ SameLevels(mem, r)
  /\ r.node = [mem.node EXCEPT ![nd] = p]
  /\ \A c \in Box : c # b => r.heap[c] = mem.heap[c]
SameButCount(c, e) ==
  /\ c.state = e.state /\ c.val = e.val /\ c.real = e.real /\ c.valid = e.valid
  /\ c.index = e.index

\* A node gives its pointer up.
Released(mem, nd, r) ==
  LET b == mem.node[nd] IN
  /\ Repointed(mem, nd, Nil, b, r)
  /\ Used(mem, b) => SameButCount(r.heap[b], mem.heap[b]) /\ r.heap[b].hwired = 0
  /\ ~Used(mem, b) => r.heap[b] \in {FreeBox, Leaked}

\* A box a node points to is in use or waits for it.
LEMMA HeldHollow ==
    ASSUME NEW mem, IInv(mem), NEW nd \in Nodes, mem.node[nd] # Nil, ~Used(mem, mem.node[nd])
    PROVE  LET b == mem.node[nd] IN mem.heap[b] = Hollow(1) /\ mem.heap[b].state = "hollow"
<1> DEFINE b == mem.node[nd]
<1>1. b \in Box /\ mem.heap[b].state # "free" /\ Held(mem, b)
    BY MemoryType DEF IInv, Parts, Pointed, Place, Held
<1>2. mem.heap[b].hwired = 1
    BY <1>1 DEF IInv, Parts, Pointed
<1>3. mem.heap[b] \in Empty
    BY <1>1 DEF IInv, Parts, Boxed, Used
<1> QED  BY <1>2, <1>3, HollowIs, LeakedIs DEF Empty

\* A node that gives up its pointer keeps the invariant.
LEMMA ReleasedInv ==
    ASSUME NEW mem, IInv(mem), NEW nd \in Nodes, mem.node[nd] # Nil, NEW r, Released(mem, nd, r)
    PROVE  IInv(r) /\ Kept(mem, r) /\ r.node[nd] = Nil
<1> DEFINE b == mem.node[nd]
<1>1. /\ mem.node \in [Nodes -> Place] /\ b \in Box /\ mem.heap[b].state # "free"
      /\ b[2] = <<NodeName(nd)>>
    BY MemoryType DEF IInv, Parts, Pointed, Place
<1> HIDE DEF b
<1>2. /\ r \in Memory /\ SameLevels(mem, r) /\ r.node = [mem.node EXCEPT ![nd] = Nil]
      /\ \A c \in Box : c # b => r.heap[c] = mem.heap[c]
      /\ Used(mem, b) => SameButCount(r.heap[b], mem.heap[b]) /\ r.heap[b].hwired = 0
      /\ ~Used(mem, b) => r.heap[b] \in {FreeBox, Leaked}
    BY DEF Released, Repointed, b
<1>3. ~Used(mem, b) => mem.heap[b] = Hollow(1) /\ mem.heap[b].state = "hollow"
    BY HeldHollow DEF b
<1>4. /\ r.heap[b].val = mem.heap[b].val /\ r.heap[b].real = mem.heap[b].real
      /\ r.heap[b].valid = mem.heap[b].valid /\ r.heap[b].index = mem.heap[b].index
      /\ Used(r, b) <=> Used(mem, b)
      /\ r.heap[b].hwired = 0
  <2>1. CASE Used(mem, b)
      BY <1>2, <2>1 DEF SameButCount, Used
  <2>2. CASE ~Used(mem, b)
      <3>1. /\ Hollow(1).val = None /\ Hollow(1).real = Nil /\ Hollow(1).valid = 0
            /\ Hollow(1).index = NoIndex
          BY DEF Hollow, FreeBox
      <3>2. \A e \in {FreeBox, Leaked} :
              /\ e.val = None /\ e.real = Nil /\ e.valid = 0
              /\ e.index = NoIndex /\ e.hwired = 0 /\ e.state # "used"
          BY LeakedIs DEF FreeBox
      <3> QED  BY <1>2, <1>3, <2>2, <3>1, <3>2 DEF Used
  <2> QED  BY <2>1, <2>2
<1>5. Kept(mem, r)
    BY <1>2, <1>4 DEF Kept, Used
<1>6. Numbered(r) /\ Tabled(r) /\ Leads(r) /\ Ids(r) = Ids(mem) /\ r.next = mem.next
    BY <1>2, <1>5, KeptInv, LevelsSame DEF SameLevels
<1>7. Boxed(r)
  <2>1. ASSUME NEW c \in Box
        PROVE  /\ r.heap[c].state = "free" => r.heap[c] = FreeBox
               /\ r.heap[c].state \notin {"free", "used"} =>
                     r.heap[c] \in Empty /\ c[1] < r.next /\ c[1] \notin Ids(r)
               /\ Used(r, c) => /\ c[1] \in Ids(r)
                                /\ r.heap[c].valid >= c[1] /\ r.heap[c].valid < r.next
               /\ c[2] = <<"X">> => r.heap[c].val \in Tails \union {None}
      <3>1. /\ mem.heap[c].state = "free" => mem.heap[c] = FreeBox
            /\ mem.heap[c].state \notin {"free", "used"} =>
                     mem.heap[c] \in Empty /\ c[1] < mem.next /\ c[1] \notin Ids(mem)
            /\ Used(mem, c) => /\ c[1] \in Ids(mem)
                               /\ mem.heap[c].valid >= c[1] /\ mem.heap[c].valid < mem.next
            /\ c[2] = <<"X">> => mem.heap[c].val \in Tails \union {None}
          BY DEF IInv, Parts, Boxed
      <3>2. CASE c # b
          BY <1>2, <1>6, <3>1, <3>2 DEF Used
      <3>3. CASE c = b /\ Used(mem, b)
          BY <1>2, <1>4, <1>6, <3>1, <3>3 DEF Used, SameButCount
      <3>4. CASE c = b /\ ~Used(mem, b)
          <4>1. FreeBox.state = "free" /\ FreeBox.val = None /\ Leaked.state = "lost"
                /\ Leaked.val = None
              BY LeakedIs DEF FreeBox
          <4> QED  BY <1>2, <1>3, <1>4, <1>6, <3>1, <3>4, <4>1 DEF Used, Empty
      <3> QED  BY <3>2, <3>3, <3>4
  <2> QED  BY <2>1 DEF Boxed
<1>8. \A other \in Nodes : other # nd => r.node[other] = mem.node[other] /\ mem.node[other] # b
  <2>1. \A other \in Nodes : mem.node[other] = b => <<NodeName(other)>> = b[2]
      BY <1>1, BoxFacts DEF IInv, Parts, Pointed
  <2> QED  BY <1>1, <1>2, <2>1, NodesDiffer
<1>9. r.node[nd] = Nil /\ b # Nil
    BY <1>1, <1>2, BoxFacts
<1>10. Pointed(r)
  <2>1. ASSUME NEW c \in Box PROVE r.heap[c].hwired = IF Held(r, c) THEN 1 ELSE 0
      <3>1. CASE c = b
          <4>1. ~Held(r, c)
              BY <1>8, <1>9, <3>1 DEF Held
          <4> QED  BY <1>4, <3>1, <4>1
      <3>2. CASE c # b
          <4>1. Held(r, c) <=> Held(mem, c)
              BY <1>8, <1>9, <3>2, BoxFacts DEF Held, b
          <4> QED  BY <1>2, <3>2, <4>1 DEF IInv, Parts, Pointed
      <3> QED  BY <3>1, <3>2
  <2>2. ASSUME NEW other \in Nodes, r.node[other] # Nil
        PROVE  LET c == r.node[other] IN
               /\ c[2] = <<NodeName(other)>> /\ r.heap[c].state # "free" /\ r.heap[c].real = Nil
               /\ \A x \in Ids(r) : r.heap[c].valid = x =>
                     Used(r, <<x, c[2]>>) /\ Root(r, <<x, c[2]>>) = c
      <3> DEFINE c == mem.node[other]
      <3>1. c \in Box /\ r.node[other] = c /\ c # b
          BY <1>1, <1>8, <1>9, <2>2 DEF Place
      <3>2. /\ c[2] = <<NodeName(other)>> /\ mem.heap[c].state # "free" /\ mem.heap[c].real = Nil
            /\ \A x \in Ids(mem) : mem.heap[c].valid = x =>
                     Used(mem, <<x, c[2]>>) /\ Root(mem, <<x, c[2]>>) = c
          BY <3>1, BoxFacts DEF IInv, Parts, Pointed
      <3>3. \A x \in Ids(mem) : <<x, c[2]>> \in Box
          BY <3>1, BoxFacts, MemoryType DEF IInv
      <3> HIDE DEF c
      <3>4. /\ r.heap[c] = mem.heap[c]
            /\ \A x \in Ids(mem) : /\ Used(r, <<x, c[2]>>) <=> Used(mem, <<x, c[2]>>)
                                   /\ Root(r, <<x, c[2]>>) = Root(mem, <<x, c[2]>>)
          BY <1>2, <1>5, <3>1, <3>3 DEF Kept, Root
      <3> QED  BY <1>6, <3>1, <3>2, <3>4
  <2> QED  BY <2>1, <2>2 DEF Pointed
<1> QED  BY <1>2, <1>5, <1>6, <1>7, <1>9, <1>10 DEF IInv, Parts

\* Uncache gives up a pointer, and frees the box of a dead variable nobody else
\* points at.
LEMMA UncacheIs ==
    ASSUME NEW mem, IInv(mem), NEW nd \in Nodes, mem.node[nd] # Nil
    PROVE  Released(mem, nd, Uncache(mem, nd))
<1> DEFINE b == mem.node[nd]
           e == mem.heap[b]
           h == mem.heap[b].hwired - 1
           new == IF h = 0 /\ mem.heap[b].valid = 0 THEN FreeBox ELSE [e EXCEPT !.hwired = h]
           r == Uncache(mem, nd)
<1>1. /\ mem \in Memory /\ mem.node \in [Nodes -> Place] /\ b \in Box /\ e.state # "free"
      /\ e \in Cell /\ mem.heap \in [Box -> Cell]
    BY MemoryType DEF IInv, Parts, Pointed, Place
<1>2. r = [mem EXCEPT !.node = [mem.node EXCEPT ![nd] = Nil],
                      !.heap = [mem.heap EXCEPT ![b] = new]]
    BY DEF Uncache
<1>3. h = 0
  <2>1. Held(mem, b)
      BY DEF Held
  <2> QED  BY <1>1, <2>1 DEF IInv, Parts, Pointed
<1>4. (e.valid = 0 <=> ~Used(mem, b)) /\ (~Used(mem, b) => e.state = "hollow")
  <2>1. ~Used(mem, b) => e = Hollow(1) /\ e.state = "hollow"
      BY HeldHollow
  <2>2. Hollow(1).valid = 0
      BY HollowIs
  <2>3. b[1] \in Numbers /\ e.valid \in Nat
      BY <1>1, BoxFacts DEF Cell
  <2> QED  BY <1>1, <2>1, <2>2, <2>3 DEF IInv, Parts, Boxed, Used, Numbers
<1>5. e = [state |-> e.state, val |-> e.val, real |-> e.real, valid |-> e.valid,
           hwired |-> e.hwired, index |-> e.index]
    BY <1>1 DEF Cell
<1>6. /\ Used(mem, b) => /\ new = [state |-> e.state, val |-> e.val, real |-> e.real,
                                   valid |-> e.valid, hwired |-> 0, index |-> e.index]
      /\ ~Used(mem, b) => new = FreeBox
  <2>1. ASSUME Used(mem, b) PROVE new = [e EXCEPT !.hwired = 0]
      BY <1>3, <1>4, <2>1
  <2>2. ASSUME ~Used(mem, b) PROVE new = FreeBox
      BY <1>3, <1>4, <2>2
  <2> HIDE DEF new, e
  <2> QED  BY <1>5, <2>1, <2>2
<1> HIDE DEF new, b, e, h, r
<1>7. /\ Used(mem, b) => SameButCount(new, e) /\ new.hwired = 0
      /\ new \in Cell
  <2>1. FreeBox \in Cell
      BY DEF FreeBox, Cell, Place, Tables
  <2>2. Used(mem, b) => SameButCount(new, e) /\ new.hwired = 0
      BY <1>6 DEF SameButCount
  <2>3. Used(mem, b) => new \in Cell
      BY <1>1, <1>6 DEF Cell
  <2> QED  BY <1>6, <2>1, <2>2, <2>3
<1> DEFINE heap == [mem.heap EXCEPT ![b] = new]
           node == [mem.node EXCEPT ![nd] = Nil]
<1>8. /\ heap \in [Box -> Cell] /\ heap[b] = new /\ \A c \in Box : c # b => heap[c] = mem.heap[c]
      /\ node \in [Nodes -> Place]
    BY <1>1, <1>7 DEF Place
<1> HIDE DEF heap
<1>9. r = [heap |-> heap, lev |-> mem.lev, cur |-> mem.cur, next |-> mem.next, node |-> node]
  <2>1. r = [mem EXCEPT !.node = node, !.heap = heap]
      BY <1>2 DEF heap
  <2> HIDE DEF node
  <2> QED  BY <1>1, <2>1 DEF Memory
<1>10. Repointed(mem, nd, Nil, b, r) /\ r.heap[b] = new
    BY <1>1, <1>8, <1>9 DEF Repointed, SameLevels, Memory
<1> QED  BY <1>6, <1>7, <1>10 DEF Released, b, e, r

\* A box that a look into the tables of the running procedure finds.
Fetched(mem, nd, b) ==
  /\ mem.node[nd] = Nil
  /\ b = findsimple(mem, Cur(mem), NodeName(nd)) /\ b # Nil

\* A node takes a pointer.
Taken(mem, nd, b, r) ==
  /\ Repointed(mem, nd, b, b, r)
  /\ SameButCount(r.heap[b], mem.heap[b]) /\ r.heap[b].hwired = 1

\* While a box a procedure found carries a procedure's number, the tables of that
\* procedure lead to it.
LEMMA ChainLeads ==
    ASSUME NEW mem, IInv(mem), NEW n \in Names,
           NEW b, b = findsimple(mem, Cur(mem), n), b # Nil,
           NEW c \in Ids(mem), mem.heap[b].valid = c
    PROVE  Used(mem, <<c, <<n>>>>) /\ Root(mem, <<c, <<n>>>>) = b
<1> DEFINE top == <<mem.cur, <<n>>>>
<1>1. /\ b \in Box /\ Used(mem, b) /\ mem.heap[b].real = Nil /\ b[2] = <<n>>
      /\ top \in Box /\ Used(mem, top) /\ b = Root(mem, top) /\ top[1] = mem.cur /\ top[2] = <<n>>
    BY CurIs, FindIs
<1>2. b = <<b[1], <<n>>>> /\ b[1] \in Numbers /\ <<n>> \in NameKinds
    BY <1>1, BoxFacts, KindFacts
<1>3. c >= b[1] /\ c <= mem.cur /\ c \in Numbers /\ mem.cur \in Numbers
    BY <1>1, CurIs DEF IInv, Parts, Boxed
<1> HIDE DEF top
<1>4. CASE c = b[1]
    BY <1>1, <1>2, <1>4 DEF Root
<1>5. CASE c = mem.cur
    BY <1>1, <1>5 DEF top
<1>6. CASE c # b[1] /\ c # mem.cur
  <2>1. b[1] < c /\ c < mem.cur
      BY <1>2, <1>3, <1>6 DEF Numbers
  <2>2. mem.heap[top].real = b
      <3>1. b # top
          BY <1>1, <1>3, <2>1 DEF Numbers
      <3> QED  BY <1>1, <3>1 DEF Root
  <2>3. mem.heap[<<c, <<n>>>>].real = b
      BY <1>1, <1>2, <2>1, <2>2 DEF IInv, Parts, Leads
  <2>4. <<c, <<n>>>> \in Box
      BY <1>3, BoxFacts, KindFacts
  <2>5. Used(mem, <<c, <<n>>>>)
      BY <2>3, <2>4, LeadingUsed
  <2> QED  BY <2>3, <2>5 DEF Root
<1> QED  BY <1>4, <1>5, <1>6

\* A node that takes a pointer keeps the invariant.
LEMMA TakenInv ==
    ASSUME NEW mem, IInv(mem), NEW nd \in Nodes, NEW b, Fetched(mem, nd, b),
           NEW r, Taken(mem, nd, b, r)
    PROVE  IInv(r) /\ Kept(mem, r) /\ r.node[nd] = b
<1>1. /\ mem.node \in [Nodes -> Place] /\ b \in Box /\ b # Nil /\ b[2] = <<NodeName(nd)>>
      /\ Used(mem, b) /\ mem.heap[b].real = Nil /\ NodeName(nd) \in Names
  <2>1. NodeName(nd) \in Names /\ Cur(mem) \in Depths(mem)
      BY NodesDiffer, CurIs
  <2> QED  BY <2>1, FindIs, MemoryType DEF IInv, Fetched
<1>2. /\ r \in Memory /\ SameLevels(mem, r) /\ r.node = [mem.node EXCEPT ![nd] = b]
      /\ \A c \in Box : c # b => r.heap[c] = mem.heap[c]
      /\ SameButCount(r.heap[b], mem.heap[b]) /\ r.heap[b].hwired = 1
    BY DEF Taken, Repointed
<1>3. Kept(mem, r)
    BY <1>2 DEF Kept, SameButCount, Used
<1>4. Numbered(r) /\ Tabled(r) /\ Leads(r) /\ Ids(r) = Ids(mem) /\ r.next = mem.next
    BY <1>2, <1>3, KeptInv, LevelsSame DEF SameLevels
<1>5. Boxed(r)
  <2>1. ASSUME NEW c \in Box
        PROVE  /\ r.heap[c].state = "free" => r.heap[c] = FreeBox
               /\ r.heap[c].state \notin {"free", "used"} =>
                     r.heap[c] \in Empty /\ c[1] < r.next /\ c[1] \notin Ids(r)
               /\ Used(r, c) => /\ c[1] \in Ids(r)
                                /\ r.heap[c].valid >= c[1] /\ r.heap[c].valid < r.next
               /\ c[2] = <<"X">> => r.heap[c].val \in Tails \union {None}
      <3>1. /\ mem.heap[c].state = "free" => mem.heap[c] = FreeBox
            /\ mem.heap[c].state \notin {"free", "used"} =>
                     mem.heap[c] \in Empty /\ c[1] < mem.next /\ c[1] \notin Ids(mem)
            /\ Used(mem, c) => /\ c[1] \in Ids(mem)
                               /\ mem.heap[c].valid >= c[1] /\ mem.heap[c].valid < mem.next
            /\ c[2] = <<"X">> => mem.heap[c].val \in Tails \union {None}
          BY DEF IInv, Parts, Boxed
      <3>2. CASE c # b
          BY <1>2, <1>4, <3>1, <3>2 DEF Used
      <3>3. CASE c = b
          BY <1>1, <1>2, <1>4, <3>1, <3>3 DEF Used, SameButCount
      <3> QED  BY <3>2, <3>3
  <2> QED  BY <2>1 DEF Boxed
<1>6. /\ r.node[nd] = b
      /\ \A other \in Nodes : other # nd => r.node[other] = mem.node[other] /\ mem.node[other] # b
  <2>1. \A other \in Nodes : mem.node[other] = b => <<NodeName(other)>> = b[2]
      BY <1>1, BoxFacts DEF IInv, Parts, Pointed
  <2> QED  BY <1>1, <1>2, <2>1, NodesDiffer
<1>7. Pointed(r)
  <2>1. ASSUME NEW c \in Box PROVE r.heap[c].hwired = IF Held(r, c) THEN 1 ELSE 0
      <3>1. CASE c = b
          BY <1>2, <1>6, <3>1 DEF Held
      <3>2. CASE c # b
          <4>1. Held(r, c) <=> Held(mem, c)
              BY <1>6, <3>2, BoxFacts DEF Held, Fetched
          <4> QED  BY <1>2, <3>2, <4>1 DEF IInv, Parts, Pointed
      <3> QED  BY <3>1, <3>2
  <2>2. \A c \in Box, x \in Ids(mem) : /\ Used(r, <<x, c[2]>>) <=> Used(mem, <<x, c[2]>>)
                                       /\ Root(r, <<x, c[2]>>) = Root(mem, <<x, c[2]>>)
      <3>1. \A c \in Box, x \in Ids(mem) : <<x, c[2]>> \in Box
          BY BoxFacts, MemoryType DEF IInv
      <3> QED  BY <1>3, <3>1 DEF Kept, Root
  <2>3. ASSUME NEW other \in Nodes, r.node[other] # Nil
        PROVE  LET c == r.node[other] IN
               /\ c[2] = <<NodeName(other)>> /\ r.heap[c].state # "free" /\ r.heap[c].real = Nil
               /\ \A x \in Ids(r) : r.heap[c].valid = x =>
                     Used(r, <<x, c[2]>>) /\ Root(r, <<x, c[2]>>) = c
      <3>1. CASE other # nd
          <4> DEFINE c == mem.node[other]
          <4>1. c \in Box /\ r.node[other] = c /\ c # b
              BY <1>1, <1>6, <2>3, <3>1 DEF Place
          <4>2. /\ c[2] = <<NodeName(other)>> /\ mem.heap[c].state # "free"
                /\ mem.heap[c].real = Nil
                /\ \A x \in Ids(mem) : mem.heap[c].valid = x =>
                         Used(mem, <<x, c[2]>>) /\ Root(mem, <<x, c[2]>>) = c
              BY <4>1, BoxFacts DEF IInv, Parts, Pointed
          <4> HIDE DEF c
          <4>3. r.heap[c] = mem.heap[c]
              BY <1>2, <4>1
          <4> QED  BY <1>4, <2>2, <4>1, <4>2, <4>3
      <3>2. CASE other = nd
          <4>1. \A x \in Ids(mem) : mem.heap[b].valid = x =>
                    Used(mem, <<x, <<NodeName(nd)>>>>) /\ Root(mem, <<x, <<NodeName(nd)>>>>) = b
              BY <1>1, ChainLeads DEF Fetched
          <4>2. r.node[other] = b /\ r.heap[b].state # "free" /\ r.heap[b].real = Nil
                /\ r.heap[b].valid = mem.heap[b].valid
              BY <1>1, <1>2, <1>6, <3>2 DEF Used, SameButCount
          <4> QED  BY <1>1, <1>4, <2>2, <3>2, <4>1, <4>2
      <3> QED  BY <3>1, <3>2
  <2> QED  BY <2>1, <2>3 DEF Pointed
<1> QED  BY <1>2, <1>3, <1>4, <1>5, <1>6, <1>7 DEF IInv, Parts

\* Cache points a node at the box that was found.
LEMMA CacheIs ==
    ASSUME NEW mem, IInv(mem), NEW nd \in Nodes, NEW b, Fetched(mem, nd, b)
    PROVE  Taken(mem, nd, b, Cache(mem, nd, b))
<1> DEFINE e == mem.heap[b]
           r == Cache(mem, nd, b)
           new == [e EXCEPT !.hwired = @ + 1]
<1>1. /\ mem \in Memory /\ mem.node \in [Nodes -> Place] /\ b \in Box /\ b[2] = <<NodeName(nd)>>
      /\ e \in Cell /\ mem.heap \in [Box -> Cell] /\ mem.node[nd] = Nil
  <2>1. NodeName(nd) \in Names /\ Cur(mem) \in Depths(mem)
      BY NodesDiffer, CurIs
  <2> QED  BY <2>1, FindIs, MemoryType DEF IInv, Fetched
<1>2. e.hwired = 0
  <2>1. \A other \in Nodes : mem.node[other] = b => other = nd
      BY <1>1, BoxFacts, NodesDiffer DEF IInv, Parts, Pointed
  <2>2. ~Held(mem, b)
      BY <1>1, <2>1, BoxFacts DEF Held
  <2> QED  BY <1>1, <2>2 DEF IInv, Parts, Pointed
<1> HIDE DEF e
<1>3. e = [state |-> e.state, val |-> e.val, real |-> e.real, valid |-> e.valid,
           hwired |-> e.hwired, index |-> e.index]
    BY <1>1 DEF Cell
<1>4. new = [state |-> e.state, val |-> e.val, real |-> e.real, valid |-> e.valid,
             hwired |-> 1, index |-> e.index]
    BY <1>2, <1>3
<1> HIDE DEF new
<1>5. SameButCount(new, e) /\ new.hwired = 1 /\ new \in Cell
    BY <1>1, <1>4 DEF SameButCount, Cell
<1> DEFINE heap == [mem.heap EXCEPT ![b] = new]
           node == [mem.node EXCEPT ![nd] = b]
<1>6. /\ heap \in [Box -> Cell] /\ heap[b] = new /\ \A c \in Box : c # b => heap[c] = mem.heap[c]
      /\ node \in [Nodes -> Place]
    BY <1>1, <1>5 DEF Place
<1>7. r = [mem EXCEPT !.node = node, !.heap = heap]
    BY DEF Cache, new, e
<1> HIDE DEF heap, r
<1>8. r = [heap |-> heap, lev |-> mem.lev, cur |-> mem.cur, next |-> mem.next, node |-> node]
  <2> HIDE DEF node
  <2> QED  BY <1>1, <1>7 DEF Memory
<1>9. Repointed(mem, nd, b, b, r) /\ r.heap[b] = new
    BY <1>1, <1>6, <1>8 DEF Repointed, SameLevels, Memory
<1> QED  BY <1>5, <1>9 DEF Taken, e, r

-----------------------------------------------------------------------------
(* A stem is assigned or dropped. *)

\* A tail of the stem that leads nowhere.
OwnTail(mem, s, b) ==
  b[1] = s[1] /\ b[2] \in TailKinds /\ Used(mem, b) /\ mem.heap[b].real = Nil

\* The stem loses the tails that lead nowhere; what others lead to has no value.
Cleared(mem, s, r) ==
  /\ SameFrame(mem, r)
  /\ SameButIndex(r.heap[s], mem.heap[s])
  /\ r.heap[s].index = [t \in Tails |-> IF OwnTail(mem, s, <<s[1], TailVar(t)>>) THEN Nil
                                        ELSE mem.heap[s].index[t]]
  /\ \A b \in Box : OwnTail(mem, s, b) => r.heap[b] = FreeBox
  /\ \A b \in Box : ~OwnTail(mem, s, b) /\ b # s =>
       /\ r.heap[b].state = mem.heap[b].state /\ r.heap[b].real = mem.heap[b].real
       /\ r.heap[b].valid = mem.heap[b].valid /\ r.heap[b].hwired = mem.heap[b].hwired
       /\ r.heap[b].index = mem.heap[b].index
       /\ \/ r.heap[b] = mem.heap[b]
          \/ Used(mem, b) /\ mem.heap[b].real = Nil /\ r.heap[b].val = None

\* Nothing leads to the tails of the stem the running procedure uses.
LEMMA NothingLeads ==
    ASSUME NEW mem, IInv(mem), NEW s, s = findsimple(mem, Cur(mem), "S"), s # Nil,
           NEW b \in Box, mem.heap[b].real # Nil, mem.heap[b].real[1] = s[1]
    PROVE  mem.heap[b].real[2] \notin TailKinds
<1> DEFINE q == mem.heap[b].real
           top == <<mem.cur, <<"S">>>>
           y == <<b[1], <<"S">>>>
<1>1. /\ top \in Box /\ Used(mem, top) /\ s = Root(mem, top) /\ top[1] = mem.cur
      /\ top[2] = <<"S">> /\ s \in Box /\ s[2] = <<"S">> /\ mem.heap[s].real = Nil
    BY CurIs, FindIs, KindFacts
<1>2. /\ q \in Box /\ q[2] = b[2] /\ q[1] < b[1] /\ q[1] = s[1] /\ Used(mem, b)
    BY LeadingUsed DEF IInv, Parts, Leads
<1>3. b[1] \in Ids(mem) /\ b[1] <= mem.cur /\ b[1] \in Numbers /\ mem.cur \in Numbers
    BY <1>2, CurIs DEF IInv, Parts, Boxed
<1>4. s[1] \in Numbers /\ b = <<b[1], b[2]>>
    BY <1>1, BoxFacts
<1> SUFFICES ASSUME q[2] \in TailKinds PROVE FALSE
    OBVIOUS
<1>5. PICK t \in Tails : b = <<b[1], TailVar(t)>>
    BY <1>2, <1>4 DEF TailKinds
<1>6. mem.heap[y].index # NoIndex /\ y \in Box
    BY <1>2, <1>3, <1>5, BoxFacts, KindFacts DEF IInv, Parts, Tabled
<1>7. mem.heap[y].real = Nil
    BY <1>6 DEF IInv, Parts, Leads
<1>8. s[1] < mem.cur /\ top # s
    BY <1>1, <1>2, <1>3, <1>4 DEF Numbers
<1>9. mem.heap[top].real = s /\ s # Nil
    BY <1>1, <1>8 DEF Root
<1> HIDE DEF q, top, y
<1>10. CASE b[1] = mem.cur
    BY <1>7, <1>9, <1>10 DEF top, y
<1>11. CASE b[1] # mem.cur
  <2>1. s[1] < b[1] /\ b[1] < mem.cur
      BY <1>2, <1>3, <1>4, <1>11 DEF Numbers
  <2>2. <<"S">> \in NameKinds
      BY KindFacts
  <2>3. mem.heap[y].real = s
      BY <1>1, <1>3, <1>9, <2>1, <2>2 DEF IInv, Parts, Leads, y
  <2> QED  BY <1>7, <1>9, <2>3
<1> QED  BY <1>10, <1>11

\* A stem that loses its tails keeps the invariant.
LEMMA ClearedInv ==
    ASSUME NEW mem, IInv(mem), NEW s, s = findsimple(mem, Cur(mem), "S"), s # Nil,
           NEW r, Cleared(mem, s, r)
    PROVE  IInv(r)
<1>1. /\ s \in Box /\ s[2] = <<"S">> /\ Used(mem, s) /\ mem.heap[s].real = Nil
      /\ s[2] \notin TailKinds
  <2>1. s \in Box /\ s[2] = <<"S">> /\ Used(mem, s) /\ mem.heap[s].real = Nil
      <3>1. Cur(mem) \in Depths(mem) /\ "S" \in Names
          BY CurIs, KindFacts
      <3>2. findsimple(mem, Cur(mem), "S") # Nil
          OBVIOUS
      <3> QED  BY <3>1, <3>2, FindIs
  <2> QED  BY <2>1, KindFacts
<1>2. mem.heap[s].index \in [Tails -> Place] /\ mem.heap[s].index # NoIndex
  <2>1. "X" \in Tails
      BY PoolAssumption
  <2>2. mem.heap[s].index \in [Tails -> Place]
      BY <1>1, <2>1, FindTailIs
  <2> QED  BY <2>2, TablesDiffer
<1> DEFINE Own(b) == OwnTail(mem, s, b)
<1>3. /\ SameFrame(mem, r) /\ SameButIndex(r.heap[s], mem.heap[s])
      /\ r.heap[s].index = [t \in Tails |-> IF Own(<<s[1], TailVar(t)>>) THEN Nil
                                            ELSE mem.heap[s].index[t]]
      /\ \A b \in Box : Own(b) => r.heap[b] = FreeBox
      /\ \A b \in Box : ~Own(b) /\ b # s =>
           /\ r.heap[b].state = mem.heap[b].state /\ r.heap[b].real = mem.heap[b].real
           /\ r.heap[b].valid = mem.heap[b].valid /\ r.heap[b].hwired = mem.heap[b].hwired
           /\ r.heap[b].index = mem.heap[b].index
           /\ \/ r.heap[b] = mem.heap[b]
              \/ Used(mem, b) /\ mem.heap[b].real = Nil /\ r.heap[b].val = None
    BY DEF Cleared
<1>4. /\ Depths(r) = Depths(mem) /\ Ids(r) = Ids(mem) /\ \A d : Id(r, d) = Id(mem, d)
      /\ \A b : Held(r, b) <=> Held(mem, b)
      /\ Numbered(r) /\ r.lev = mem.lev /\ r.next = mem.next /\ r.node = mem.node /\ r \in Memory
    BY <1>3, FrameSame DEF SameFrame
<1>5. /\ \A b : Own(b) <=> /\ b[1] = s[1] /\ b[2] \in TailKinds /\ Used(mem, b)
                           /\ mem.heap[b].real = Nil
      /\ ~Own(s)
    BY <1>1 DEF OwnTail
<1> HIDE DEF Own
<1>6. /\ FreeBox.state = "free" /\ FreeBox.real = Nil /\ FreeBox.index = NoIndex
      /\ FreeBox.hwired = 0 /\ FreeBox.val = None
    BY DEF FreeBox
<1>7. ASSUME NEW b \in Box
      PROVE  /\ r.heap[b].real = mem.heap[b].real
             /\ Used(r, b) <=> Used(mem, b) /\ ~Own(b)
             /\ r.heap[b].index # NoIndex <=> mem.heap[b].index # NoIndex
             /\ b # s => r.heap[b].index = mem.heap[b].index
  <2>1. CASE b = s
      <3>1. r.heap[s].index # NoIndex
          <4>1. DOMAIN r.heap[s].index = Tails /\ "X" \in Tails
              BY <1>3, PoolAssumption
          <4>2. DOMAIN NoIndex = {}
              BY DEF NoIndex
          <4> QED  BY <4>1, <4>2
      <3> QED  BY <1>1, <1>2, <1>3, <1>5, <2>1, <3>1 DEF SameButIndex, Used
  <2>2. CASE b # s /\ Own(b)
      <3>1. mem.heap[b].index = NoIndex
          <4>1. b[2] # <<"S">>
              BY <1>1, <1>5, <2>2
          <4> QED  BY <4>1 DEF IInv, Parts, Tabled
      <3> QED  BY <1>3, <1>5, <1>6, <2>2, <3>1 DEF Used
  <2>3. CASE b # s /\ ~Own(b)
      BY <1>3, <2>3 DEF Used
  <2> QED  BY <2>1, <2>2, <2>3
<1>8. \A b \in Box : b[2] \in NameKinds => ~Own(b)
    BY <1>5, KindFacts
<1>9. Tabled(r)
  <2>1. \A d \in Depths(r), n \in Names :
        r.lev[d].of[n] = IF Used(r, <<Id(r, d), <<n>>>>) THEN <<Id(r, d), <<n>>>> ELSE Nil
      <3>1. \A d \in Depths(r), n \in Names :
               <<Id(mem, d), <<n>>>> \in Box /\ <<Id(mem, d), <<n>>>>[2] \in NameKinds
          BY <1>4, BoxFacts, KindFacts, MemoryType DEF IInv
      <3> QED  BY <1>4, <1>7, <1>8, <3>1 DEF IInv, Parts, Tabled
  <2>2. \A b \in Box : r.heap[b].index # NoIndex <=>
          b[2] = <<"S">> /\ Used(r, b) /\ r.heap[b].real = Nil
      <3>1. <<"S">> \in NameKinds
          BY KindFacts
      <3> QED  BY <1>7, <1>8, <3>1 DEF IInv, Parts, Tabled
  <2>3. ASSUME NEW c \in Box, r.heap[c].index # NoIndex, NEW u \in Tails
        PROVE  r.heap[c].index[u] =
                  IF Used(r, <<c[1], TailVar(u)>>) THEN <<c[1], TailVar(u)>> ELSE Nil
      <3> DEFINE x == <<c[1], TailVar(u)>>
      <3>1. x \in Box /\ x[1] = c[1] /\ x[2] \in TailKinds
          BY BoxFacts, KindFacts
      <3>2. mem.heap[c].index # NoIndex /\ mem.heap[c].index[u] = IF Used(mem, x) THEN x ELSE Nil
          BY <1>7, <2>3 DEF IInv, Parts, Tabled
      <3>3. CASE c = s
          <4>1. r.heap[s].index[u] = IF Own(x) THEN Nil ELSE mem.heap[s].index[u]
              BY <1>3, <3>3
          <4> HIDE DEF x
          <4> QED  BY <1>7, <3>1, <3>2, <3>3, <4>1 DEF x
      <3>4. CASE c # s
          <4>1. c[2] = <<"S">> /\ c = <<c[1], c[2]>> /\ s = <<s[1], s[2]>>
              BY <1>1, <3>2, BoxFacts DEF IInv, Parts, Tabled
          <4>2. c[1] # s[1]
              BY <1>1, <3>4, <4>1
          <4>3. ~Own(x)
              BY <1>5, <3>1, <4>2
          <4> HIDE DEF x
          <4> QED  BY <1>7, <3>1, <3>2, <3>4, <4>3 DEF x
      <3> QED  BY <3>3, <3>4
  <2>4. \A a \in Numbers, t \in Tails :
          Used(r, <<a, TailVar(t)>>) => r.heap[<<a, <<"S">>>>].index # NoIndex
      <3>1. \A a \in Numbers, t \in Tails : <<a, TailVar(t)>> \in Box /\ <<a, <<"S">>>> \in Box
          BY BoxFacts, KindFacts
      <3> QED  BY <1>7, <3>1 DEF IInv, Parts, Tabled
  <2> QED  BY <2>1, <2>2, <2>3, <2>4 DEF Tabled
<1>10. Boxed(r)
  <2>1. ASSUME NEW c \in Box
        PROVE  /\ r.heap[c].state = "free" => r.heap[c] = FreeBox
               /\ r.heap[c].state \notin {"free", "used"} =>
                     r.heap[c] \in Empty /\ c[1] < r.next /\ c[1] \notin Ids(r)
               /\ Used(r, c) => /\ c[1] \in Ids(r)
                                /\ r.heap[c].valid >= c[1] /\ r.heap[c].valid < r.next
               /\ c[2] = <<"X">> => r.heap[c].val \in Tails \union {None}
      <3>1. /\ mem.heap[c].state = "free" => mem.heap[c] = FreeBox
            /\ mem.heap[c].state \notin {"free", "used"} =>
                     mem.heap[c] \in Empty /\ c[1] < mem.next /\ c[1] \notin Ids(mem)
            /\ Used(mem, c) => /\ c[1] \in Ids(mem)
                               /\ mem.heap[c].valid >= c[1] /\ mem.heap[c].valid < mem.next
            /\ c[2] = <<"X">> => mem.heap[c].val \in Tails \union {None}
          BY DEF IInv, Parts, Boxed
      <3>2. CASE c = s
          BY <1>1, <1>3, <1>4, <3>1, <3>2 DEF SameButIndex, Used
      <3>3. CASE Own(c)
          BY <1>3, <1>6, <1>7, <3>3
      <3>4. CASE c # s /\ ~Own(c)
          <4>1. CASE r.heap[c] = mem.heap[c]
              BY <1>4, <3>1, <4>1 DEF Used
          <4>2. CASE Used(mem, c) /\ r.heap[c].val = None
              BY <1>3, <1>4, <3>1, <3>4, <4>2 DEF Used
          <4> QED  BY <1>3, <3>4, <4>1, <4>2
      <3> QED  BY <3>2, <3>3, <3>4
  <2> QED  BY <2>1 DEF Boxed
<1>11. Leads(r)
  <2>1. ASSUME NEW c \in Box, r.heap[c].real # Nil
        PROVE  LET q == r.heap[c].real IN
               /\ r.heap[c].val = None /\ r.heap[c].index = NoIndex
               /\ q \in Box /\ q[2] = c[2] /\ q[1] < c[1]
               /\ Used(r, q) /\ r.heap[q].real = Nil
               /\ c[2] \in NameKinds => \A x \in Ids(r) :
                     q[1] < x /\ x < c[1] => r.heap[<<x, c[2]>>].real = q
      <3> DEFINE q == mem.heap[c].real
      <3>1. r.heap[c].real = q /\ q # Nil /\ ~Own(c) /\ c # s
          BY <1>1, <1>5, <1>7, <2>1
      <3>2. /\ mem.heap[c].val = None /\ mem.heap[c].index = NoIndex
            /\ q \in Box /\ q[2] = c[2] /\ q[1] < c[1]
            /\ Used(mem, q) /\ mem.heap[q].real = Nil
            /\ c[2] \in NameKinds => \A x \in Ids(mem) :
                     q[1] < x /\ x < c[1] => mem.heap[<<x, c[2]>>].real = q
          BY <3>1 DEF IInv, Parts, Leads
      <3>3. ~Own(q)
          BY <1>5, <3>1, NothingLeads
      <3>4. c[2] \in NameKinds => \A x \in Ids(mem) : <<x, c[2]>> \in Box
          BY BoxFacts, MemoryType DEF IInv, Kinds
      <3>5. r.heap[c] = mem.heap[c]
          BY <1>3, <3>1
      <3> HIDE DEF q
      <3> QED  BY <1>4, <1>7, <3>1, <3>2, <3>3, <3>4, <3>5
  <2> QED  BY <2>1 DEF Leads
<1>12. Pointed(r)
  <2>1. ASSUME NEW c \in Box PROVE r.heap[c].hwired = IF Held(r, c) THEN 1 ELSE 0
      <3>1. CASE Own(c)
          <4>1. ~Held(mem, c)
              <5>1. ASSUME NEW nd \in Nodes, mem.node[nd] = c PROVE FALSE
                  <6>1. c[2] = <<NodeName(nd)>>
                      BY <5>1, BoxFacts DEF IInv, Parts, Pointed
                  <6> QED  BY <1>8, <3>1, <6>1, NodesDiffer
              <5> QED  BY <5>1 DEF Held
          <4> QED  BY <1>3, <1>4, <1>6, <3>1, <4>1
      <3>2. CASE ~Own(c)
          <4>1. r.heap[c].hwired = mem.heap[c].hwired
              BY <1>3, <3>2 DEF SameButIndex
          <4> QED  BY <1>4, <4>1 DEF IInv, Parts, Pointed
      <3> QED  BY <3>1, <3>2
  <2>2. \A c \in Box, x \in Ids(mem) : c[2] \in NameKinds =>
            /\ Used(r, <<x, c[2]>>) <=> Used(mem, <<x, c[2]>>)
            /\ Root(r, <<x, c[2]>>) = Root(mem, <<x, c[2]>>)
      <3>1. \A c \in Box, x \in Ids(mem) : <<x, c[2]>> \in Box
          BY BoxFacts, MemoryType DEF IInv
      <3> QED  BY <1>7, <1>8, <3>1 DEF Root
  <2>3. ASSUME NEW nd \in Nodes, r.node[nd] # Nil
        PROVE  LET c == r.node[nd] IN
               /\ c[2] = <<NodeName(nd)>> /\ r.heap[c].state # "free" /\ r.heap[c].real = Nil
               /\ \A x \in Ids(r) : r.heap[c].valid = x =>
                     Used(r, <<x, c[2]>>) /\ Root(r, <<x, c[2]>>) = c
      <3> DEFINE c == mem.node[nd]
      <3>1. c \in Box /\ r.node[nd] = c
          BY <1>4, <2>3, MemoryType DEF IInv, Place
      <3>2. /\ c[2] = <<NodeName(nd)>> /\ mem.heap[c].state # "free" /\ mem.heap[c].real = Nil
            /\ \A x \in Ids(mem) : mem.heap[c].valid = x =>
                     Used(mem, <<x, c[2]>>) /\ Root(mem, <<x, c[2]>>) = c
          BY <3>1, BoxFacts DEF IInv, Parts, Pointed
      <3> HIDE DEF c
      <3>3. c[2] \in NameKinds /\ ~Own(c)
          BY <1>8, <3>1, <3>2, NodesDiffer
      <3>4. r.heap[c].state = mem.heap[c].state /\ r.heap[c].valid = mem.heap[c].valid
            /\ r.heap[c].real = mem.heap[c].real
          BY <1>3, <3>1, <3>3 DEF SameButIndex
      <3> QED  BY <1>4, <2>2, <3>1, <3>2, <3>3, <3>4
  <2> QED  BY <2>1, <2>3 DEF Pointed
<1> QED  BY <1>4, <1>9, <1>10, <1>11, <1>12 DEF IInv, Parts

\* Replace changes the value of one box.
LEMMA ReplaceIs ==
    ASSUME NEW mem, IInv(mem), NEW b \in Box, Used(mem, b), mem.heap[b].real = Nil,
           NEW v \in Vals \union Tails \union {None}, b[2] = <<"X">> => v \in Tails \union {None}
    PROVE  Revalued(mem, Replace(mem, b, v))
<1> DEFINE e == mem.heap[b]
           new == [e EXCEPT !.val = v]
           heap == [mem.heap EXCEPT ![b] = new]
           r == Replace(mem, b, v)
<1>1. mem \in Memory /\ mem.heap \in [Box -> Cell] /\ e \in Cell
    BY MemoryType DEF IInv
<1>2. r = [mem EXCEPT !.heap = heap]
    BY DEF Replace
<1>3. e = [state |-> e.state, val |-> e.val, real |-> e.real, valid |-> e.valid,
           hwired |-> e.hwired, index |-> e.index]
    BY <1>1 DEF Cell
<1>4. new = [state |-> e.state, val |-> v, real |-> e.real, valid |-> e.valid,
             hwired |-> e.hwired, index |-> e.index]
  <2> HIDE DEF e
  <2> QED  BY <1>3
<1>5. new \in Cell
  <2> HIDE DEF e, new
  <2> QED  BY <1>1, <1>4 DEF Cell
<1> HIDE DEF new, e, r
<1>6. /\ heap \in [Box -> Cell] /\ heap[b] = new /\ \A c \in Box : c # b => heap[c] = mem.heap[c]
    BY <1>1, <1>5
<1> HIDE DEF heap
<1>7. r = [heap |-> heap, lev |-> mem.lev, cur |-> mem.cur, next |-> mem.next, node |-> mem.node]
    BY <1>1, <1>2 DEF Memory
<1>8. r \in Memory
    BY <1>1, <1>6, <1>7 DEF Memory
<1>9. ASSUME NEW c \in Box
      PROVE  /\ r.heap[c].state = mem.heap[c].state /\ r.heap[c].real = mem.heap[c].real
             /\ r.heap[c].valid = mem.heap[c].valid /\ r.heap[c].hwired = mem.heap[c].hwired
             /\ r.heap[c].index = mem.heap[c].index
             /\ \/ r.heap[c] = mem.heap[c]
                \/ /\ Used(mem, c) /\ mem.heap[c].real = Nil
                   /\ c[2] = <<"X">> => r.heap[c].val \in Tails \union {None}
  <2>1. CASE c = b
      BY <1>4, <1>6, <1>7, <2>1 DEF e
  <2>2. CASE c # b
      BY <1>6, <1>7, <2>2
  <2> QED  BY <2>1, <2>2
<1>10. Revalued(mem, r)
    BY <1>7, <1>8, <1>9 DEF Revalued
<1> QED  BY <1>10 DEF r

\* A change of values alone changes nothing a table leads to.
LEMMA RevaluedFinds ==
    ASSUME NEW mem, IInv(mem), NEW r, Revalued(mem, r)
    PROVE  /\ Cur(r) = Cur(mem) /\ Depths(r) = Depths(mem)
           /\ \A d \in Depths(mem), n \in Names : findsimple(r, d, n) = findsimple(mem, d, n)
           /\ \A b \in Box : /\ Used(r, b) <=> Used(mem, b)
                             /\ r.heap[b].real = mem.heap[b].real
                             /\ r.heap[b].index = mem.heap[b].index
<1>1. /\ Cur(r) = Cur(mem) /\ Depths(r) = Depths(mem)
      /\ \A b \in Box : /\ Used(r, b) <=> Used(mem, b)
                        /\ r.heap[b].real = mem.heap[b].real
                        /\ r.heap[b].index = mem.heap[b].index
      /\ \A d \in Depths(mem) : Id(r, d) = Id(mem, d)
    BY DEF Revalued, Cur, Depths, Used, Id
<1>2. IInv(r)
    BY RevaluedInv
<1>3. ASSUME NEW d \in Depths(mem), NEW n \in Names
      PROVE  findsimple(r, d, n) = findsimple(mem, d, n)
  <2> DEFINE b == <<Id(mem, d), <<n>>>>
  <2>1. b \in Box /\ findsimple(mem, d, n) = IF Used(mem, b) THEN Root(mem, b) ELSE Nil
      BY FindIs
  <2>2. b = <<Id(r, d), <<n>>>> /\ d \in Depths(r)
      BY <1>1
  <2> HIDE DEF b
  <2>3. findsimple(r, d, n) = IF Used(r, b) THEN Root(r, b) ELSE Nil
      BY <1>2, <2>2, FindIs
  <2> QED  BY <1>1, <2>1, <2>3 DEF Root
<1> QED  BY <1>1, <1>3

\* assign_foliage clears the stem's own tails, or changes values of them.
LEMMA AssignIs ==
    ASSUME NEW mem, IInv(mem), NEW s, Stem(mem, s), NEW v \in Vals \union {None}
    PROVE  /\ v = None => Cleared(mem, s, assign_foliage(mem, s, v))
           /\ v # None => Revalued(mem, assign_foliage(mem, s, v))
<1> DEFINE idx == mem.heap[s].index
           local == {t \in Tails : idx[t] # Nil /\ mem.heap[idx[t]].real = Nil}
           real == {Seek(mem, idx[t]) : t \in {u \in Tails : idx[u] # Nil} \ local}
           removed == IF v = None THEN local ELSE {}
           gone == {idx[t] : t \in removed}
           replaced == real \union {idx[t] : t \in local \ removed}
           r == assign_foliage(mem, s, v)
           table == [t \in Tails |-> IF t \in removed THEN Nil ELSE idx[t]]
           TailBox(t) == <<s[1], TailVar(t)>>
           New(b) == CASE b \in gone -> FreeBox
                       [] b = s -> [mem.heap[b] EXCEPT !.index = table]
                       [] b \in replaced -> [mem.heap[b] EXCEPT !.val = v]
                       [] OTHER -> mem.heap[b]
           heap == [b \in Box |-> New(b)]
<1>1. /\ s \in Box /\ s[2] = <<"S">> /\ Used(mem, s) /\ mem.heap[s].real = Nil
      /\ s[2] \notin TailKinds
    BY KindFacts DEF Stem
<1>2. ASSUME NEW t \in Tails
      PROVE  /\ TailBox(t) \in Box /\ TailBox(t)[1] = s[1] /\ TailBox(t)[2] = TailVar(t)
             /\ idx[t] = IF Used(mem, TailBox(t)) THEN TailBox(t) ELSE Nil
             /\ TailBox(t)[2] \in TailKinds /\ TailBox(t) # Nil
    BY <1>1, FindTailIs, BoxFacts, KindFacts
<1>3. mem \in Memory /\ mem.heap \in [Box -> Cell] /\ idx \in [Tails -> Place] /\ idx # NoIndex
  <2>1. "X" \in Tails
      BY PoolAssumption
  <2>2. idx \in [Tails -> Place]
      BY <1>1, <2>1, FindTailIs
  <2> QED  BY <2>2, TablesDiffer, MemoryType DEF IInv
<1>4. r = [mem EXCEPT !.heap = heap]
    BY DEF assign_foliage
<1> HIDE DEF TailBox, idx, r
<1>5. \A t \in Tails : t \in local <=> OwnTail(mem, s, TailBox(t))
    BY <1>2, BoxFacts DEF OwnTail
<1>6. ASSUME NEW b \in Box
      PROVE  (\E t \in local : b = idx[t]) <=> OwnTail(mem, s, b)
  <2>1. ASSUME NEW t \in local, b = idx[t] PROVE OwnTail(mem, s, b)
      BY <1>2, <1>5, <2>1
  <2>2. ASSUME OwnTail(mem, s, b) PROVE \E t \in local : b = idx[t]
      <3>1. PICK t \in Tails : b = TailBox(t)
          BY <2>2, BoxFacts DEF OwnTail, TailKinds, TailBox
      <3>2. idx[t] = b /\ t \in local
          BY <1>2, <1>5, <2>2, <3>1 DEF OwnTail
      <3> QED  BY <3>2
  <2> QED  BY <2>1, <2>2
<1>7. ASSUME NEW b \in real
      PROVE  /\ b \in Box /\ Used(mem, b) /\ mem.heap[b].real = Nil /\ b[2] \in TailKinds
             /\ b[1] # s[1]
  <2>1. PICK t \in Tails : idx[t] # Nil /\ t \notin local /\ b = Seek(mem, idx[t])
      OBVIOUS
  <2>2. idx[t] = TailBox(t) /\ mem.heap[TailBox(t)].real # Nil /\ TailBox(t) \in Box
      BY <1>2, <2>1
  <2>3. b = mem.heap[TailBox(t)].real
      BY <2>1, <2>2, FlatIs, SeekIs DEF Root
  <2>4. b \in Box /\ Used(mem, b) /\ mem.heap[b].real = Nil /\ b[2] \in TailKinds /\ b[1] < s[1]
      BY <1>2, <2>2, <2>3 DEF IInv, Parts, Leads
  <2>5. b[1] \in Nat /\ s[1] \in Nat
      BY <1>1, <2>4, BoxFacts DEF Numbers
  <2> QED  BY <2>4, <2>5
<1>8. ASSUME NEW b \in Box
      PROVE  /\ b \in gone <=> v = None /\ OwnTail(mem, s, b)
             /\ b \in replaced => /\ Used(mem, b) /\ mem.heap[b].real = Nil /\ b[2] \in TailKinds
                                  /\ b \notin gone
  <2>1. b \in gone <=> v = None /\ OwnTail(mem, s, b)
      BY <1>6
  <2>2. b \in replaced => b \in real \/ OwnTail(mem, s, b)
      BY <1>6
  <2>3. b \in replaced /\ b \in gone => b \in real
      OBVIOUS
  <2> QED  BY <1>7, <2>1, <2>2, <2>3 DEF OwnTail
<1>9. \A t \in Tails : t \in removed <=> v = None /\ OwnTail(mem, s, TailBox(t))
    BY <1>5
<1> HIDE DEF local, real, removed, gone, replaced
<1>10. table \in [Tails -> Place] /\ (v # None => table = idx)
    BY <1>3, <1>9 DEF Place
<1> HIDE DEF table
<1>11. ASSUME NEW b \in Box
       PROVE  /\ OwnTail(mem, s, b) /\ v = None => New(b) = FreeBox
              /\ b = s => SameButIndex(New(b), mem.heap[b]) /\ New(b).index = table
              /\ b # s /\ ~(OwnTail(mem, s, b) /\ v = None) =>
                   \/ New(b) = mem.heap[b]
                   \/ /\ Used(mem, b) /\ mem.heap[b].real = Nil /\ b[2] \in TailKinds
                      /\ New(b).val = v /\ New(b).state = mem.heap[b].state
                      /\ New(b).real = mem.heap[b].real /\ New(b).valid = mem.heap[b].valid
                      /\ New(b).hwired = mem.heap[b].hwired /\ New(b).index = mem.heap[b].index
              /\ New(b) \in Cell
  <2> DEFINE e == mem.heap[b]
  <2>1. e \in Cell /\ e = [state |-> e.state, val |-> e.val, real |-> e.real, valid |-> e.valid,
                           hwired |-> e.hwired, index |-> e.index]
      <3>1. e \in Cell
          BY <1>3
      <3> QED  BY <3>1 DEF Cell
  <2> HIDE DEF e
  <2>2. FreeBox \in Cell
      BY DEF FreeBox, Cell, Place, Tables
  <2>3. CASE b \in gone
      <3>1. b # s
          BY <1>1, <1>8, <2>3 DEF OwnTail
      <3>2. New(b) = FreeBox /\ b # s
          BY <1>8, <2>3, <3>1
      <3> QED  BY <1>8, <2>2, <2>3, <3>2
  <2>4. CASE b \notin gone /\ b = s
      <3>1. b \notin replaced
          BY <1>1, <1>8, <2>4
      <3>2. New(b) = [mem.heap[b] EXCEPT !.index = table]
          BY <2>4, <3>1
      <3>3. New(b) = [e EXCEPT !.index = table]
          BY <3>2, Zenon DEF e
      <3>4. New(b) = [state |-> e.state, val |-> e.val, real |-> e.real, valid |-> e.valid,
                      hwired |-> e.hwired, index |-> table]
          BY <2>1, <3>3
      <3> HIDE DEF New
      <3>5. New(b) \in Cell /\ SameButIndex(New(b), e) /\ New(b).index = table
          BY <1>10, <2>1, <3>4 DEF Cell, Tables, SameButIndex
      <3> QED  BY <1>8, <2>4, <3>5 DEF e
  <2>5. CASE b \notin gone /\ b # s /\ b \in replaced
      <3>1. New(b) = [e EXCEPT !.val = v]
          BY <2>5 DEF e
      <3>2. New(b) = [state |-> e.state, val |-> v, real |-> e.real, valid |-> e.valid,
                      hwired |-> e.hwired, index |-> e.index]
          BY <2>1, <3>1
      <3> HIDE DEF New
      <3>3. New(b) \in Cell
          BY <2>1, <3>2 DEF Cell
      <3> QED  BY <1>8, <2>5, <3>2, <3>3 DEF e
  <2>6. CASE b \notin gone /\ b # s /\ b \notin replaced
      <3>1. New(b) = e
          BY <2>6 DEF e
      <3> QED  BY <1>8, <2>1, <2>6, <3>1 DEF e
  <2> QED  BY <2>3, <2>4, <2>5, <2>6
<1>12. heap \in [Box -> Cell] /\ \A b \in Box : heap[b] = New(b)
    BY <1>11
<1> HIDE DEF heap, New
<1>13. r = [heap |-> heap, lev |-> mem.lev, cur |-> mem.cur, next |-> mem.next, node |-> mem.node]
    BY <1>3, <1>4 DEF Memory
<1>14. SameFrame(mem, r) /\ r.heap = heap
    BY <1>3, <1>12, <1>13 DEF SameFrame, Memory
<1>15. ASSUME v = None PROVE Cleared(mem, s, r)
  <2>1. SameButIndex(r.heap[s], mem.heap[s]) /\ r.heap[s].index = table
      BY <1>1, <1>11, <1>12, <1>14
  <2>2. table = [t \in Tails |-> IF OwnTail(mem, s, TailBox(t)) THEN Nil ELSE idx[t]]
      BY <1>9, <1>15 DEF table
  <2>3. \A b \in Box : OwnTail(mem, s, b) => r.heap[b] = FreeBox
      BY <1>11, <1>12, <1>14, <1>15
  <2>4. \A b \in Box : ~OwnTail(mem, s, b) /\ b # s =>
       /\ r.heap[b].state = mem.heap[b].state /\ r.heap[b].real = mem.heap[b].real
       /\ r.heap[b].valid = mem.heap[b].valid /\ r.heap[b].hwired = mem.heap[b].hwired
       /\ r.heap[b].index = mem.heap[b].index
       /\ \/ r.heap[b] = mem.heap[b]
          \/ Used(mem, b) /\ mem.heap[b].real = Nil /\ r.heap[b].val = None
      BY <1>11, <1>12, <1>14, <1>15
  <2> QED  BY <1>14, <2>1, <2>2, <2>3, <2>4 DEF Cleared, TailBox, idx
<1>16. ASSUME v # None PROVE Revalued(mem, r)
  <2>1. ASSUME NEW b \in Box
        PROVE  /\ r.heap[b].state = mem.heap[b].state /\ r.heap[b].real = mem.heap[b].real
               /\ r.heap[b].valid = mem.heap[b].valid /\ r.heap[b].hwired = mem.heap[b].hwired
               /\ r.heap[b].index = mem.heap[b].index
               /\ \/ r.heap[b] = mem.heap[b]
                  \/ /\ Used(mem, b) /\ mem.heap[b].real = Nil
                     /\ b[2] = <<"X">> => r.heap[b].val \in Tails \union {None}
      <3>1. <<"X">> \notin TailKinds /\ <<"S">> # <<"X">>
          BY KindFacts
      <3>2. CASE b = s
          BY <1>1, <1>10, <1>11, <1>12, <1>14, <1>16, <3>1, <3>2 DEF SameButIndex, idx
      <3>3. CASE b # s
          BY <1>11, <1>12, <1>14, <1>16, <3>1, <3>3
      <3> QED  BY <3>2, <3>3
  <2> QED  BY <1>14, <2>1 DEF Revalued, SameFrame
<1> QED  BY <1>15, <1>16 DEF r

-----------------------------------------------------------------------------
(* Assignments and drops by name. *)

\* What a new box holds.
LEMMA NewboxIs ==
    ASSUME NEW mem, NEW v, NEW index
    PROVE  newbox(mem, v, index) = [state |-> "used", val |-> v, real |-> Nil, valid |-> mem.cur,
                                    hwired |-> 0, index |-> index]
<1>1. FreeBox = [state |-> "free", val |-> None, real |-> Nil, valid |-> 0, hwired |-> 0,
                 index |-> NoIndex]
    BY DEF FreeBox
<1>2. newbox(mem, v, index) = [FreeBox EXCEPT !.state = "used", !.val = v, !.valid = mem.cur,
                                              !.index = index]
    BY Zenon DEF newbox
<1> DEFINE c == mem.cur
<1>3. newbox(mem, v, index) =
        [[state |-> "free", val |-> None, real |-> Nil, valid |-> 0, hwired |-> 0,
          index |-> NoIndex] EXCEPT !.state = "used", !.val = v, !.valid = c, !.index = index]
    BY <1>1, <1>2, Zenon
<1> HIDE DEF c
<1>4. newbox(mem, v, index) = [state |-> "used", val |-> v, real |-> Nil, valid |-> c,
                               hwired |-> 0, index |-> index]
    BY <1>3
<1> QED  BY <1>4 DEF c

\* A new box fits where a procedure has none of the name.
LEMMA NewboxFits ==
    ASSUME NEW mem, IInv(mem), NEW d, NEW n \in Names, NEW v \in Vals \union Tails \union {None},
           n = "X" => v \in Tails \union {None}
    PROVE  Fits(mem, d, n, newbox(mem, v, IF n = "S" THEN NoTails ELSE NoIndex))
<1> DEFINE index == IF n = "S" THEN NoTails ELSE NoIndex
           rec == newbox(mem, v, index)
<1>1. rec = [state |-> "used", val |-> v, real |-> Nil, valid |-> mem.cur, hwired |-> 0,
             index |-> index]
    BY NewboxIs
<1>2. mem.cur \in Nat /\ index \in Tables /\ Nil \in Place
    BY MemoryType DEF IInv, Tables, NoTails, Place
<1> HIDE DEF rec, index
<1>3. rec \in Cell
    BY <1>1, <1>2 DEF Cell
<1>4. rec.state = "used" /\ rec.hwired = 0 /\ rec.valid = mem.cur /\ rec.real = Nil /\ rec.index = index
      /\ rec.val = v
    BY <1>1
<1> QED  BY <1>3, <1>4 DEF Fits, rec, index

\* A name that a table leads nowhere is not in the table.
LEMMA NotFound ==
    ASSUME NEW mem, IInv(mem), NEW d \in Depths(mem), NEW n \in Names, findsimple(mem, d, n) = Nil
    PROVE  mem.lev[d].of[n] = Nil
BY FindIs DEF IInv, Parts, Tabled

\* A procedure gets a variable.
LEMMA InsertNew ==
    ASSUME TablesSuffice, NEW mem, IInv(mem), NEW d \in Depths(mem), NEW n \in Names,
           mem.lev[d].of[n] = Nil, NEW rec, Fits(mem, d, n, rec)
    PROVE  LET r == Insert(mem, d, n, rec)
               b == <<Id(mem, d), <<n>>>>
           IN  /\ IInv(r) /\ Inserted(mem, d, n, rec, r)
               /\ r.node = mem.node /\ Cur(r) = Cur(mem) /\ Depths(r) = Depths(mem)
               /\ Ids(r) = Ids(mem) /\ r.cur = mem.cur
               /\ \A e \in Depths(mem) : Id(r, e) = Id(mem, e)
               /\ r.heap[b] = rec /\ ~Used(mem, b)
               /\ \A c \in Box : c # b => r.heap[c] = mem.heap[c]
<1> DEFINE r == Insert(mem, d, n, rec)
           b == <<Id(mem, d), <<n>>>>
<1>1. Inserted(mem, d, n, rec, r)
    BY InsertIs DEF Fits
<1> HIDE DEF r
<1>2. IInv(r)
    BY <1>1, InsertedInv
<1>3. b \in Box /\ ~Used(mem, b)
    BY FindIs, BoxFacts DEF IInv, Parts, Tabled
<1>4. /\ r.heap = [mem.heap EXCEPT ![b] = rec] /\ r.node = mem.node
      /\ Len(r.lev) = Len(mem.lev) /\ r.cur = mem.cur
      /\ \A e \in Depths(mem) : Id(r, e) = Id(mem, e)
    BY <1>1 DEF Inserted
<1>5. r.heap[b] = rec /\ \A c \in Box : c # b => r.heap[c] = mem.heap[c]
    BY <1>3, <1>4, MemoryType DEF IInv
<1>6. Cur(r) = Cur(mem) /\ Depths(r) = Depths(mem) /\ Ids(r) = Ids(mem)
    BY <1>4 DEF Cur, Depths, Ids
<1> QED  BY <1>1, <1>2, <1>3, <1>4, <1>5, <1>6 DEF r

\* A simple variable is assigned, through the chain of exposed boxes.
LEMMA SetSimpleInv ==
    ASSUME TablesSuffice, NEW mem, IInv(mem), NEW n \in Simples, NEW v \in Vals \union {None},
           n = "X" => v \in Tails \union {None}
    PROVE  LET r == setvalue_simple(mem, n, v)
           IN  IInv(r) /\ r.node = mem.node /\ findsimple(r, Cur(r), n) # Nil
<1> DEFINE b == findsimple(mem, Cur(mem), n)
           r == setvalue_simple(mem, n, v)
<1>1. n \in Names /\ n # "S" /\ Cur(mem) \in Depths(mem)
    BY KindFacts, CurIs
<1>2. CASE b # Nil
  <2>1. b \in Box /\ Used(mem, b) /\ mem.heap[b].real = Nil /\ b[2] = <<n>>
      BY <1>1, <1>2, FindIs
  <2>2. b[2] = <<"X">> => n = "X"
      BY <2>1
  <2>3. r = Replace(mem, b, v)
      BY <1>2 DEF setvalue_simple
  <2> HIDE DEF b, r
  <2>4. Revalued(mem, r)
      BY <2>1, <2>2, <2>3, ReplaceIs
  <2>5. IInv(r) /\ findsimple(r, Cur(r), n) = b /\ r.node = mem.node
      <3>1. IInv(r) /\ r.node = mem.node
          BY <2>4, RevaluedInv DEF Revalued
      <3>2. findsimple(r, Cur(r), n) = findsimple(mem, Cur(mem), n)
          BY <1>1, <2>4, RevaluedFinds
      <3> QED  BY <3>1, <3>2 DEF b
  <2> QED  BY <1>2, <2>5 DEF r
<1>3. CASE b = Nil
  <2> DEFINE rec == newbox(mem, v, NoIndex)
             d == Cur(mem)
  <2>1. mem.lev[d].of[n] = Nil
      BY <1>1, <1>3, NotFound
  <2>2. Fits(mem, d, n, rec)
      BY <1>1, NewboxFits
  <2>3. r = Insert(mem, d, n, rec)
      BY <1>3 DEF setvalue_simple
  <2>4. rec.state = "used"
      BY NewboxIs
  <2> HIDE DEF r, rec, d
  <2>5. /\ IInv(r) /\ r.node = mem.node /\ Cur(r) = Cur(mem) /\ Depths(r) = Depths(mem)
        /\ Id(r, d) = Id(mem, d) /\ r.heap[<<Id(mem, d), <<n>>>>] = rec
      BY <1>1, <2>1, <2>2, <2>3, InsertNew DEF d
  <2>6. findsimple(r, d, n) # Nil
      BY <1>1, <2>4, <2>5, FindIs DEF Used, d
  <2> QED  BY <2>5, <2>6 DEF r, d
<1> QED  BY <1>2, <1>3

\* A procedure without the stem gets it.
LEMMA MakeStem ==
    ASSUME TablesSuffice, NEW mem, IInv(mem), NEW d \in Depths(mem), mem.lev[d].of["S"] = Nil,
           NEW v \in Vals \union {None}
    PROVE  LET r == Insert(mem, d, "S", newbox(mem, v, NoTails))
               s == <<Id(mem, d), <<"S">>>>
           IN  /\ IInv(r) /\ r.node = mem.node /\ Cur(r) = Cur(mem) /\ Depths(r) = Depths(mem)
               /\ r.cur = mem.cur /\ Ids(r) = Ids(mem)
               /\ \A e \in Depths(mem) : Id(r, e) = Id(mem, e)
               /\ Stem(r, s) /\ findsimple(r, d, "S") = s /\ s # Nil
               /\ r.heap[s].valid = mem.cur /\ ~Used(mem, s)
               /\ \A c \in Box : c # s => r.heap[c] = mem.heap[c]
<1> DEFINE rec == newbox(mem, v, NoTails)
           r == Insert(mem, d, "S", rec)
           s == <<Id(mem, d), <<"S">>>>
<1>1. "S" \in Names /\ "S" # "X"
    BY KindFacts
<1>2. Fits(mem, d, "S", rec)
    BY <1>1, NewboxFits
<1>3. rec.state = "used" /\ rec.real = Nil /\ rec.valid = mem.cur
    BY NewboxIs
<1> HIDE DEF rec
<1>4. /\ IInv(r) /\ r.node = mem.node /\ Cur(r) = Cur(mem) /\ Depths(r) = Depths(mem)
      /\ r.cur = mem.cur /\ Ids(r) = Ids(mem) /\ ~Used(mem, s)
      /\ \A e \in Depths(mem) : Id(r, e) = Id(mem, e)
      /\ r.heap[s] = rec
      /\ \A c \in Box : c # s => r.heap[c] = mem.heap[c]
    BY <1>1, <1>2, InsertNew
<1>5. s \in Box /\ s[2] = <<"S">> /\ s # Nil
    BY <1>1, FindIs, BoxFacts
<1> HIDE DEF r, s
<1>6. Stem(r, s)
    BY <1>3, <1>4, <1>5 DEF Stem, Used
<1>7. findsimple(r, d, "S") = s
  <2>1. s = <<Id(r, d), <<"S">>>> /\ d \in Depths(r)
      BY <1>4 DEF s
  <2>2. Used(r, s) /\ Root(r, s) = s
      BY <1>6 DEF Stem, Root
  <2> QED  BY <1>1, <1>4, <2>1, <2>2, FindIs
<1> QED  BY <1>3, <1>4, <1>5, <1>6, <1>7 DEF r, s, rec

\* A stem is assigned, through the chain of exposed boxes.
LEMMA SetStemInv ==
    ASSUME TablesSuffice, NEW mem, IInv(mem), NEW v \in Vals \union {None}
    PROVE  LET r == setvalue_stem(mem, v)
           IN  IInv(r) /\ r.node = mem.node
<1> DEFINE s == findsimple(mem, Cur(mem), "S")
           r == setvalue_stem(mem, v)
<1>1. "S" \in Names /\ "S" # "X" /\ Cur(mem) \in Depths(mem)
    BY KindFacts, CurIs
<1>2. CASE s # Nil
  <2> DEFINE one == Replace(mem, s, v)
  <2>1. Stem(mem, s)
      BY <1>1, <1>2, FindIs DEF Stem
  <2>2. r = assign_foliage(one, s, v)
      BY <1>2 DEF setvalue_stem
  <2>3. s[2] # <<"X">> /\ s \in Box
      BY <1>1, <2>1 DEF Stem
  <2> HIDE DEF r
  <2>4. Revalued(mem, one)
      BY <2>1, <2>3, ReplaceIs DEF Stem
  <2> HIDE DEF one, s
  <2>5. IInv(one) /\ s = findsimple(one, Cur(one), "S") /\ one.node = mem.node /\ Stem(one, s)
      <3>1. IInv(one) /\ one.node = mem.node
          BY <2>4, RevaluedInv DEF Revalued
      <3>2. findsimple(one, Cur(one), "S") = findsimple(mem, Cur(mem), "S")
          BY <1>1, <2>4, RevaluedFinds
      <3>3. Stem(one, s)
          BY <2>1, <2>4, RevaluedFinds DEF Stem
      <3> QED  BY <3>1, <3>2, <3>3 DEF s
  <2>6. CASE v = None
      <3>1. Cleared(one, s, r)
          BY <2>2, <2>5, <2>6, AssignIs
      <3>2. IInv(r) /\ r.node = one.node
          BY <1>2, <2>5, <3>1, ClearedInv DEF Cleared, SameFrame
      <3> QED  BY <2>5, <3>2 DEF r
  <2>7. CASE v # None
      <3>1. Revalued(one, r)
          BY <2>2, <2>5, <2>7, AssignIs
      <3>2. IInv(r) /\ r.node = one.node
          BY <2>5, <3>1, RevaluedInv DEF Revalued
      <3> QED  BY <2>5, <3>2 DEF r
  <2> QED  BY <2>6, <2>7
<1>3. CASE s = Nil
  <2>1. mem.lev[Cur(mem)].of["S"] = Nil
      BY <1>1, <1>3, NotFound
  <2>2. r = Insert(mem, Cur(mem), "S", newbox(mem, v, NoTails))
      BY <1>3 DEF setvalue_stem
  <2> HIDE DEF r
  <2>3. IInv(r) /\ r.node = mem.node
      BY <1>1, <2>1, <2>2, MakeStem
  <2> QED  BY <2>3 DEF r
<1> QED  BY <1>2, <1>3

\* What the table of a stem leads to.
LEMMA TailFound ==
    ASSUME NEW mem, IInv(mem), NEW s, Stem(mem, s), NEW t \in Tails
    PROVE  LET b == FindTail(mem, s, t)
               x == <<s[1], TailVar(t)>>
           IN  /\ b # Nil => /\ b \in Box /\ Used(mem, b) /\ mem.heap[b].real = Nil
                             /\ b[2] = TailVar(t) /\ b[1] <= s[1] /\ b[1] \in Ids(mem)
               /\ x \in Box /\ mem.heap[s].index[t] = IF Used(mem, x) THEN x ELSE Nil
               /\ b # Nil <=> Used(mem, x)
               /\ x # Nil
<1>1. s \in Box /\ s[2] = <<"S">> /\ Used(mem, s) /\ mem.heap[s].real = Nil
    BY DEF Stem
<1> DEFINE b == FindTail(mem, s, t)
<1>2. /\ b # Nil <=> Used(mem, <<s[1], TailVar(t)>>)
      /\ mem.heap[s].index[t] =
             IF Used(mem, <<s[1], TailVar(t)>>) THEN <<s[1], TailVar(t)>> ELSE Nil
      /\ <<s[1], TailVar(t)>> \in Box
      /\ b # Nil => /\ b \in Box /\ Used(mem, b) /\ mem.heap[b].real = Nil
                    /\ b[2] = TailVar(t) /\ b[1] <= s[1] /\ b[1] \in Ids(mem)
    BY <1>1, FindTailIs
<1> QED  BY <1>2, BoxFacts

\* A tail of a stem gets a value, and a box if it has none.
LEMMA TailSet ==
    ASSUME NEW mem, IInv(mem), NEW s, Stem(mem, s), NEW t \in Tails, NEW v \in Vals \union {None}
    PROVE  LET b == FindTail(mem, s, t)
               r == IF b # Nil THEN Replace(mem, b, v)
                    ELSE InsertTail(mem, s, t, newbox(mem, v, NoIndex))
           IN  IInv(r) /\ r.node = mem.node
<1> DEFINE b == FindTail(mem, s, t)
           rec == newbox(mem, v, NoIndex)
<1>1. /\ b # Nil => /\ b \in Box /\ Used(mem, b) /\ mem.heap[b].real = Nil /\ b[2] = TailVar(t)
      /\ mem.heap[s].index[t] = Nil <=> b = Nil
  <2>1. s \in Box /\ s[2] = <<"S">> /\ Used(mem, s) /\ mem.heap[s].real = Nil
      BY DEF Stem
  <2>2. /\ b # Nil <=> Used(mem, <<s[1], TailVar(t)>>)
        /\ mem.heap[s].index[t] =
               IF Used(mem, <<s[1], TailVar(t)>>) THEN <<s[1], TailVar(t)>> ELSE Nil
        /\ <<s[1], TailVar(t)>> \in Box
        /\ b # Nil => b \in Box /\ Used(mem, b) /\ mem.heap[b].real = Nil /\ b[2] = TailVar(t)
      BY <2>1, FindTailIs
  <2> HIDE DEF b
  <2> QED  BY <2>2, BoxFacts
<1>2. TailVar(t) # <<"X">>
    BY KindFacts
<1> HIDE DEF b
<1>3. CASE b # Nil
  <2>1. Revalued(mem, Replace(mem, b, v))
      BY <1>1, <1>2, <1>3, ReplaceIs
  <2>2. IInv(Replace(mem, b, v)) /\ Replace(mem, b, v).node = mem.node
      BY <2>1, RevaluedInv DEF Revalued
  <2> QED  BY <1>3, <2>2 DEF b
<1>4. CASE b = Nil
  <2> DEFINE r == InsertTail(mem, s, t, rec)
  <2>1. rec = [state |-> "used", val |-> v, real |-> Nil, valid |-> mem.cur,
               hwired |-> 0, index |-> NoIndex]
      BY NewboxIs
  <2>2. mem.cur \in Nat /\ NoIndex \in Tables /\ Nil \in Place
      BY MemoryType DEF IInv, Tables, Place
  <2> HIDE DEF rec
  <2>3. rec \in Cell /\ FitsTail(mem, s, t, rec)
      BY <2>1, <2>2 DEF Cell, FitsTail
  <2>4. TailInserted(mem, s, t, rec, r)
      BY <2>3, InsertTailIs
  <2> HIDE DEF r
  <2>5. IInv(r) /\ r.node = mem.node
      BY <1>1, <1>4, <2>3, <2>4, TailInsertedInv DEF TailInserted, SameFrame
  <2> QED  BY <1>4, <2>5 DEF r, rec, b
<1> QED  BY <1>3, <1>4

\* A compound variable is assigned, after its stem is made if need be.
LEMMA SetCompoundInv ==
    ASSUME TablesSuffice, NEW mem, IInv(mem), NEW t \in Tails, NEW v \in Vals \union {None}
    PROVE  LET r == setvalue_compound(mem, t, v)
           IN  IInv(r) /\ r.node = mem.node
<1> DEFINE found == findsimple(mem, Cur(mem), "S")
           one == IF found # Nil THEN mem ELSE make_stem(mem, Cur(mem))
           s == findsimple(one, Cur(one), "S")
<1>1. "S" \in Names /\ Cur(mem) \in Depths(mem)
    BY KindFacts, CurIs
<1>2. IInv(one) /\ Stem(one, s) /\ one.node = mem.node
  <2>1. CASE found # Nil
      <3>1. one = mem
          BY <2>1
      <3>2. Stem(mem, found)
          BY <1>1, <2>1, FindIs DEF Stem
      <3> HIDE DEF one, found
      <3> QED  BY <3>1, <3>2 DEF found
  <2>2. CASE found = Nil
      <3>1. one = Insert(mem, Cur(mem), "S", newbox(mem, None, NoTails))
          BY <2>2 DEF make_stem
      <3>2. mem.lev[Cur(mem)].of["S"] = Nil
          BY <1>1, <2>2, NotFound
      <3> HIDE DEF one
      <3>3. /\ IInv(one) /\ one.node = mem.node /\ Cur(one) = Cur(mem)
            /\ Stem(one, findsimple(one, Cur(mem), "S"))
          BY <1>1, <3>1, <3>2, MakeStem
      <3> QED  BY <3>3
  <2> QED  BY <2>1, <2>2
<1> HIDE DEF one, s
<1>3. setvalue_compound(mem, t, v) =
        LET b == FindTail(one, s, t)
        IN  IF b # Nil THEN Replace(one, b, v)
            ELSE InsertTail(one, s, t, newbox(one, v, NoIndex))
    BY DEF setvalue_compound, one, s
<1> QED  BY <1>2, <1>3, TailSet

\* An assignment by name, of any kind of variable.
LEMMA SetInv ==
    ASSUME TablesSuffice, NEW mem, IInv(mem), NEW n \in Names, NEW v \in Vals \union {None},
           n = "X" => v \in Tails \union {None}
    PROVE  LET r == setvalue(mem, n, v)
           IN  IInv(r) /\ r.node = mem.node /\ (n # "S" => findsimple(r, Cur(r), n) # Nil)
<1>1. n # "S" => n \in Simples
    BY DEF Names
<1> QED  BY <1>1, SetSimpleInv, SetStemInv DEF setvalue

\* A simple variable is dropped.
LEMMA DropSimpleInv ==
    ASSUME NEW mem, IInv(mem), NEW n \in Simples
    PROVE  IInv(drop_var_simple(mem, n))
<1> DEFINE b == findsimple(mem, Cur(mem), n)
<1>1. n \in Names /\ Cur(mem) \in Depths(mem)
    BY KindFacts, CurIs
<1>2. CASE b # Nil
  <2>1. b \in Box /\ Used(mem, b) /\ mem.heap[b].real = Nil
      BY <1>1, <1>2, FindIs
  <2>2. drop_var_simple(mem, n) = Replace(mem, b, None)
      BY <1>2 DEF drop_var_simple
  <2> HIDE DEF b
  <2> QED  BY <2>1, <2>2, ReplaceIs, RevaluedInv
<1>3. CASE b = Nil
    BY <1>3 DEF drop_var_simple
<1> QED  BY <1>2, <1>3

\* A stem is dropped.
LEMMA DropStemInv ==
    ASSUME NEW mem, IInv(mem)
    PROVE  IInv(drop_var_stem(mem))
<1> DEFINE s == findsimple(mem, Cur(mem), "S")
           one == Replace(mem, s, None)
           r == drop_var_stem(mem)
<1>1. "S" \in Names /\ "S" # "X" /\ Cur(mem) \in Depths(mem)
    BY KindFacts, CurIs
<1>2. CASE s # Nil
  <2>1. Stem(mem, s)
      BY <1>1, <1>2, FindIs DEF Stem
  <2>2. r = assign_foliage(one, s, None)
      BY <1>2 DEF drop_var_stem
  <2>3. s[2] # <<"X">> /\ s \in Box
      BY <1>1, <2>1 DEF Stem
  <2> HIDE DEF r
  <2>4. Revalued(mem, one)
      BY <2>1, <2>3, ReplaceIs DEF Stem
  <2> HIDE DEF one, s
  <2>5. IInv(one) /\ s = findsimple(one, Cur(one), "S") /\ Stem(one, s)
      <3>1. IInv(one)
          BY <2>4, RevaluedInv
      <3>2. findsimple(one, Cur(one), "S") = findsimple(mem, Cur(mem), "S")
          BY <1>1, <2>4, RevaluedFinds
      <3>3. Stem(one, s)
          BY <2>1, <2>4, RevaluedFinds DEF Stem
      <3> QED  BY <3>1, <3>2, <3>3 DEF s
  <2>6. Cleared(one, s, r)
      BY <2>2, <2>5, AssignIs
  <2>7. IInv(r)
      BY <1>2, <2>5, <2>6, ClearedInv
  <2> QED  BY <2>7 DEF r
<1>3. CASE s = Nil
    BY <1>3 DEF drop_var_stem
<1> QED  BY <1>2, <1>3

\* A compound variable is dropped.
LEMMA DropTailInv ==
    ASSUME TablesSuffice, NEW mem, IInv(mem), NEW t \in Tails
    PROVE  IInv(drop_var_compound(mem, t))
<1> DEFINE s == findsimple(mem, Cur(mem), "S")
           b == IF s = Nil THEN Nil ELSE FindTail(mem, s, t)
<1>1. "S" \in Names /\ Cur(mem) \in Depths(mem)
    BY KindFacts, CurIs
<1>2. CASE s = Nil
    BY <1>2 DEF drop_var_compound
<1>3. CASE s # Nil /\ b # Nil
  <2>1. Stem(mem, s)
      BY <1>1, <1>3, FindIs DEF Stem
  <2>2. b = FindTail(mem, s, t)
      BY <1>3
  <2> HIDE DEF s
  <2>3. b \in Box /\ Used(mem, b) /\ mem.heap[b].real = Nil
      <3>1. FindTail(mem, s, t) # Nil
          BY <1>3, <2>2
      <3> HIDE DEF b
      <3> QED  BY <2>1, <2>2, <3>1, TailFound
  <2>4. drop_var_compound(mem, t) = Replace(mem, b, None)
      BY <1>3 DEF drop_var_compound, s
  <2> HIDE DEF b
  <2> QED  BY <2>3, <2>4, ReplaceIs, RevaluedInv
<1>4. CASE s # Nil /\ b = Nil
  <2>1. drop_var_compound(mem, t) = setvalue_compound(mem, t, None)
      BY <1>4 DEF drop_var_compound
  <2> QED  BY <2>1, SetCompoundInv
<1> QED  BY <1>2, <1>3, <1>4

-----------------------------------------------------------------------------
(* References and assignments through the nodes. *)

\* Changes of the nodes do not change which box a name finds.
LEMMA KeptFinds ==
    ASSUME NEW mem, IInv(mem), NEW r, IInv(r), Kept(mem, r)
    PROVE  /\ Cur(r) = Cur(mem) /\ Depths(r) = Depths(mem) /\ r.cur = mem.cur
           /\ \A n \in Names : findsimple(r, Cur(r), n) = findsimple(mem, Cur(mem), n)
           /\ \A s : Stem(mem, s) => Stem(r, s)
<1>1. /\ Cur(r) = Cur(mem) /\ Depths(r) = Depths(mem) /\ r.cur = mem.cur
      /\ \A d : Id(r, d) = Id(mem, d)
    BY LevelsSame DEF Kept, SameLevels
<1>2. \A b \in Box : (Used(r, b) <=> Used(mem, b)) /\ Root(r, b) = Root(mem, b)
                     /\ r.heap[b].real = mem.heap[b].real
    BY DEF Kept, Root
<1>3. ASSUME NEW n \in Names
      PROVE  findsimple(r, Cur(r), n) = findsimple(mem, Cur(mem), n)
  <2> DEFINE d == Cur(mem)
             b == <<Id(mem, d), <<n>>>>
  <2>1. d \in Depths(mem) /\ d \in Depths(r)
      BY <1>1, CurIs
  <2>2. b \in Box /\ findsimple(mem, d, n) = IF Used(mem, b) THEN Root(mem, b) ELSE Nil
      BY <2>1, FindIs
  <2>3. b = <<Id(r, d), <<n>>>>
      BY <1>1
  <2> HIDE DEF b, d
  <2>4. findsimple(r, d, n) = IF Used(r, b) THEN Root(r, b) ELSE Nil
      BY <2>1, <2>3, FindIs
  <2> QED  BY <1>1, <1>2, <2>2, <2>4 DEF d
<1>4. \A s : Stem(mem, s) => Stem(r, s)
    BY <1>2 DEF Stem
<1> QED  BY <1>1, <1>3, <1>4

\* Two such changes are one.
LEMMA KeptAgain ==
    ASSUME NEW mem, NEW r, NEW q, Kept(mem, r), Kept(r, q)
    PROVE  Kept(mem, q)
BY DEF Kept, SameLevels

\* No change is one.
LEMMA KeptSelf == ASSUME NEW mem PROVE Kept(mem, mem)
BY DEF Kept, SameLevels

\* Giving up a pointer, if there is one, is a change of the nodes.
LEMMA UncacheKeeps ==
    ASSUME NEW mem, IInv(mem), NEW nd \in Nodes
    PROVE  LET r == Uncache(mem, nd)
           IN  IInv(r) /\ Kept(mem, r) /\ r.node[nd] = Nil
<1>1. CASE mem.node[nd] = Nil
  <2>1. Uncache(mem, nd) = mem
      BY <1>1 DEF Uncache
  <2> QED  BY <1>1, <2>1, KeptSelf
<1>2. CASE mem.node[nd] # Nil
    BY <1>2, UncacheIs, ReleasedInv
<1> QED  BY <1>1, <1>2

\* Taking a pointer is a change of the nodes.
LEMMA CacheKeeps ==
    ASSUME NEW mem, IInv(mem), NEW nd \in Nodes, NEW b, Fetched(mem, nd, b)
    PROVE  LET r == Cache(mem, nd, b)
           IN  IInv(r) /\ Kept(mem, r) /\ r.node[nd] = b
BY CacheIs, TakenInv

\* A pointer that is valid is the box the tables lead to.
LEMMA HitIs ==
    ASSUME NEW mem, IInv(mem), NEW nd \in Nodes, Hit(mem, nd)
    PROVE  LET b == mem.node[nd] IN
           /\ b \in Box /\ Used(mem, b) /\ mem.heap[b].real = Nil /\ b[2] = <<NodeName(nd)>>
           /\ findsimple(mem, Cur(mem), NodeName(nd)) = b /\ Seek(mem, b) = b /\ b # Nil
<1> DEFINE b == mem.node[nd]
           top == <<mem.cur, <<NodeName(nd)>>>>
<1>1. b \in Box /\ b # Nil /\ mem.heap[b].valid = mem.cur
    BY MemoryType DEF Hit, IInv, Place
<1>2. mem.cur \in Ids(mem) /\ Cur(mem) \in Depths(mem) /\ Id(mem, Cur(mem)) = mem.cur
      /\ NodeName(nd) \in Names
    BY CurIs, NodesDiffer
<1>3. b[2] = <<NodeName(nd)>> /\ mem.heap[b].real = Nil /\ Used(mem, top) /\ Root(mem, top) = b
    BY <1>1, <1>2 DEF IInv, Parts, Pointed
<1>4. findsimple(mem, Cur(mem), NodeName(nd)) = Root(mem, top)
    BY <1>2, <1>3, FindIs
<1>5. Used(mem, b)
    BY <1>1, <1>2, <1>3, <1>4, FindIs
<1>6. Seek(mem, b) = b
    BY <1>1, <1>3, FlatIs, SeekIs DEF Root
<1> QED  BY <1>1, <1>3, <1>4, <1>5, <1>6

\* The box a node reads.
LEMMA ShortBoxIs ==
    ASSUME NEW mem, IInv(mem), NEW nd \in Nodes
    PROVE  ShortBox(mem, nd) = findsimple(mem, Cur(mem), NodeName(nd))
BY HitIs DEF ShortBox

\* A reference through a node is a change of the nodes.
LEMMA ShortcutKeeps ==
    ASSUME NEW mem, IInv(mem), NEW nd \in Nodes
    PROVE  LET r == shortcut(mem, nd) IN IInv(r) /\ Kept(mem, r)
<1>1. CASE Hit(mem, nd)
  <2>1. shortcut(mem, nd) = mem
      BY <1>1 DEF shortcut
  <2> QED  BY <2>1, KeptSelf
<1>2. CASE ~Hit(mem, nd) /\ ShortValue(mem, nd) = None
  <2>1. shortcut(mem, nd) = Uncache(mem, nd)
      BY <1>2 DEF shortcut
  <2> QED  BY <2>1, UncacheKeeps
<1>3. CASE ~Hit(mem, nd) /\ ShortValue(mem, nd) # None
  <2> DEFINE one == Uncache(mem, nd)
             b == ShortBox(mem, nd)
  <2>1. shortcut(mem, nd) = Cache(one, nd, b)
      BY <1>3 DEF shortcut
  <2>2. b # Nil
      BY <1>3 DEF ShortValue
  <2>3. b = findsimple(mem, Cur(mem), NodeName(nd)) /\ NodeName(nd) \in Names
      BY ShortBoxIs, NodesDiffer
  <2> HIDE DEF b, one
  <2>4. IInv(one) /\ Kept(mem, one) /\ one.node[nd] = Nil
      BY UncacheKeeps DEF one
  <2>5. Fetched(one, nd, b)
      BY <2>2, <2>3, <2>4, KeptFinds DEF Fetched
  <2>6. IInv(Cache(one, nd, b)) /\ Kept(one, Cache(one, nd, b))
      BY <2>4, <2>5, CacheKeeps
  <2> QED  BY <2>1, <2>4, <2>6, KeptAgain
<1> QED  BY <1>1, <1>2, <1>3

\* An assignment through a node.
LEMMA SetshortcutInv ==
    ASSUME TablesSuffice, NEW mem, IInv(mem), NEW nd \in Nodes, NEW v \in Vals,
           nd = NodeX => v \in Tails
    PROVE  IInv(setshortcut(mem, nd, v))
<1> DEFINE n == NodeName(nd)
           one == Uncache(mem, nd)
           set == setvalue(one, n, v)
<1>1. n \in Names /\ (n = "X" => nd = NodeX)
    BY NodesDiffer, KindFacts DEF NodeName
<1>2. CASE Hit(mem, nd)
  <2> DEFINE b == mem.node[nd]
  <2>1. b \in Box /\ Used(mem, b) /\ mem.heap[b].real = Nil /\ b[2] = <<n>> /\ Seek(mem, b) = b
      BY <1>2, HitIs
  <2>2. b[2] = <<"X">> => v \in Tails
      BY <1>1, <2>1
  <2>3. setshortcut(mem, nd, v) = Replace(mem, b, v)
      BY <1>2, <2>1 DEF setshortcut
  <2> HIDE DEF b
  <2> QED  BY <2>1, <2>2, <2>3, ReplaceIs, RevaluedInv
<1>3. IInv(one) /\ one.node[nd] = Nil
    BY UncacheKeeps
<1> HIDE DEF one
<1>4. IInv(set) /\ set.node = one.node /\ (n # "S" => findsimple(set, Cur(set), n) # Nil)
    BY <1>1, <1>3, SetInv
<1>5. CASE ~Hit(mem, nd) /\ n = "S"
  <2>1. setshortcut(mem, nd, v) = set
      BY <1>5 DEF setshortcut, one
  <2> QED  BY <1>4, <2>1
<1>6. CASE ~Hit(mem, nd) /\ n # "S"
  <2> DEFINE b == findsimple(set, Cur(set), n)
  <2>1. setshortcut(mem, nd, v) = Cache(set, nd, b)
      BY <1>6 DEF setshortcut, one
  <2> HIDE DEF set
  <2>2. Fetched(set, nd, b)
      BY <1>3, <1>4, <1>6 DEF Fetched
  <2> QED  BY <1>4, <2>1, <2>2, CacheKeeps
<1> QED  BY <1>2, <1>5, <1>6

\* The head of a compound variable is the stem of the running procedure.
LEMMA HeadFoundInv ==
    ASSUME TablesSuffice, NEW mem, IInv(mem), NEW making \in BOOLEAN
    PROVE  LET r == HeadFound(mem, making) IN
           /\ IInv(r)
           /\ making => Stem(r, HeadBox(r))
<1> DEFINE miss == Uncache(mem, NodeHead)
           s == findsimple(miss, Cur(miss), "S")
           r == HeadFound(mem, making)
<1>1. NodeHead \in Nodes /\ NodeName(NodeHead) = "S" /\ "S" \in Names
    BY KindFacts DEF Nodes, NodeX, NodeHead, NodeName
<1>2. CASE Hit(mem, NodeHead)
  <2>1. r = mem
      BY <1>2 DEF HeadFound
  <2> DEFINE b == mem.node[NodeHead]
  <2>2. b \in Box /\ Used(mem, b) /\ mem.heap[b].real = Nil /\ b[2] = <<"S">> /\ b # Nil
      BY <1>1, <1>2, HitIs
  <2>3. HeadBox(mem) = b
      BY <2>2 DEF HeadBox
  <2> HIDE DEF b, r
  <2> QED  BY <2>1, <2>2, <2>3 DEF Stem, r
<1>3. IInv(miss) /\ miss.node[NodeHead] = Nil /\ Cur(miss) \in Depths(miss)
    BY <1>1, UncacheKeeps, CurIs
<1> HIDE DEF miss
<1>4. CASE ~Hit(mem, NodeHead) /\ s # Nil
  <2>1. r = Cache(miss, NodeHead, s)
      BY <1>4 DEF HeadFound, miss
  <2>2. Stem(miss, s)
      BY <1>1, <1>3, <1>4, FindIs DEF Stem
  <2>3. Fetched(miss, NodeHead, s)
      BY <1>1, <1>3, <1>4 DEF Fetched
  <2> HIDE DEF r, s
  <2>4. IInv(r) /\ Kept(miss, r) /\ r.node[NodeHead] = s
      BY <1>1, <1>3, <2>1, <2>3, CacheKeeps
  <2>5. Stem(r, s)
      BY <1>3, <2>2, <2>4, KeptFinds
  <2>6. HeadBox(r) = s
      BY <1>4, <2>4 DEF HeadBox
  <2> QED  BY <2>4, <2>5, <2>6 DEF r
<1>5. CASE ~Hit(mem, NodeHead) /\ s = Nil /\ making
  <2>1. r = Insert(miss, Cur(miss), "S", newbox(miss, None, NoTails))
      BY <1>5 DEF HeadFound, miss, make_stem
  <2>2. miss.lev[Cur(miss)].of["S"] = Nil
      BY <1>1, <1>3, <1>5, NotFound
  <2> HIDE DEF r, s
  <2>3. /\ IInv(r) /\ r.node = miss.node /\ Cur(r) = Cur(miss)
        /\ Stem(r, findsimple(r, Cur(miss), "S"))
      BY <1>3, <2>1, <2>2, MakeStem
  <2>4. HeadBox(r) = findsimple(r, Cur(r), "S")
      BY <1>3, <2>3 DEF HeadBox
  <2> QED  BY <2>3, <2>4 DEF r
<1>6. CASE ~Hit(mem, NodeHead) /\ s = Nil /\ ~making
  <2>1. r = miss
      BY <1>6 DEF HeadFound, miss
  <2> QED  BY <1>3, <1>6, <2>1
<1> QED  BY <1>2, <1>4, <1>5, <1>6

\* A reference to a compound variable, through the nodes of its stem and its
\* tail.
LEMMA CompoundGetInv ==
    ASSUME TablesSuffice, NEW mem, IInv(mem)
    PROVE  IInv(fix_compound_get(mem))
<1>1. NodeX \in Nodes
    BY DEF Nodes
<1> QED  BY <1>1, HeadFoundInv, ShortcutKeeps DEF fix_compound_get

\* The tail X stands for.
LEMMA TailOfIs ==
    ASSUME NEW mem, IInv(mem)
    PROVE  TailOf(mem) \in Tails
<1> DEFINE b == findsimple(mem, Cur(mem), "X")
<1>1. NodeX \in Nodes /\ NodeName(NodeX) = "X" /\ "X" \in Names /\ Cur(mem) \in Depths(mem)
    BY KindFacts, CurIs DEF Nodes, NodeX, NodeName
<1>2. b # Nil => b \in Box /\ b[2] = <<"X">>
    BY <1>1, FindIs
<1>3. ShortBox(mem, NodeX) = b
    BY <1>1, ShortBoxIs
<1> HIDE DEF b
<1>4. b # Nil => mem.heap[b].val \in Tails \union {None}
    BY <1>2 DEF IInv, Parts, Boxed
<1> QED  BY <1>3, <1>4, PoolAssumption DEF TailOf, ShortValue

\* An assignment to a compound variable, through the nodes of its stem and its
\* tail.
LEMMA CompoundSetInv ==
    ASSUME TablesSuffice, NEW mem, IInv(mem), NEW v \in Vals
    PROVE  IInv(fix_compound_set(mem, v))
<1> DEFINE one == HeadFound(mem, TRUE)
           s == HeadBox(one)
           two == shortcut(one, NodeX)
           t == TailOf(one)
<1>1. NodeX \in Nodes
    BY DEF Nodes
<1>2. IInv(one) /\ Stem(one, s)
    BY HeadFoundInv
<1>3. fix_compound_set(mem, v) =
        LET b == FindTail(two, s, t)
        IN  IF b # Nil THEN Replace(two, b, v)
            ELSE InsertTail(two, s, t, newbox(two, v, NoIndex))
    BY DEF fix_compound_set
<1> HIDE DEF one, s
<1>4. IInv(two) /\ Stem(two, s) /\ t \in Tails
    BY <1>1, <1>2, ShortcutKeeps, KeptFinds, TailOfIs
<1> HIDE DEF two, t
<1> QED  BY <1>3, <1>4, TailSet

-----------------------------------------------------------------------------
(* A procedure is called. *)

\* The running procedure has a caller, and no value and no pointer of a node yet.
Fresh(mem) ==
  /\ Len(mem.lev) > 1
  /\ \A b \in Box : b[1] = mem.cur => mem.heap[b].val = None /\ ~Held(mem, b)

\* A procedure is called.
Called(mem, r) ==
  LET new == Len(mem.lev) + 1 IN
  /\ r \in Memory /\ r.heap = mem.heap /\ r.node = mem.node
  /\ r.cur = mem.next /\ r.next = mem.next + 1
  /\ Len(r.lev) = new
  /\ \A d \in Depths(mem) : r.lev[d] = mem.lev[d]
  /\ r.lev[new].of = [n \in Names |-> Nil] /\ r.lev[new].size = InitSize
  /\ r.lev[new].elements = 0 /\ r.lev[new].saved = mem.cur /\ r.lev[new].id = mem.next

\* create_new_varpool puts an empty table on top, under a number never used
\* before.
LEMMA CreateIs ==
    ASSUME NEW mem, IInv(mem), mem.next <= MaxId
    PROVE  Called(mem, create_new_varpool(mem))
<1> DEFINE L == [of |-> [n \in Names |-> Nil], size |-> InitSize, elements |-> 0,
                 saved |-> mem.cur, id |-> mem.next]
           lev == Append(mem.lev, L)
           r == create_new_varpool(mem)
<1>1. /\ mem \in Memory /\ mem.next \in Numbers /\ mem.lev \in Seq(Level) /\ Len(mem.lev) \in Nat
      /\ mem.cur \in Nat /\ mem.next \in Nat
    BY MemoryType, PoolAssumption DEF IInv, Parts, Numbered, Numbers
<1>2. L \in Level
    BY <1>1, PoolAssumption DEF Level, Place
<1>3. r = [mem EXCEPT !.lev = lev, !.cur = mem.next, !.next = mem.next + 1]
    BY DEF create_new_varpool
<1> DEFINE new == Len(mem.lev) + 1
<1>4. /\ L.of = [n \in Names |-> Nil] /\ L.size = InitSize
      /\ L.elements = 0 /\ L.saved = mem.cur /\ L.id = mem.next
    OBVIOUS
<1> HIDE DEF L
<1>5. /\ lev \in Seq(Level) /\ Len(lev) = new /\ lev[new] = L
      /\ \A d \in Depths(mem) : lev[d] = mem.lev[d]
    BY <1>1, <1>2 DEF Depths
<1> HIDE DEF lev, r
<1> DEFINE next == mem.next + 1
           cur == mem.next
<1>6. r = [heap |-> mem.heap, lev |-> lev, cur |-> cur, next |-> next, node |-> mem.node]
  <2>1. r = [mem EXCEPT !.lev = lev, !.cur = cur, !.next = next]
      BY <1>3
  <2> HIDE DEF next, cur
  <2> QED  BY <1>1, <2>1 DEF Memory
<1>7. r \in Memory
    BY <1>1, <1>5, <1>6 DEF Memory
<1> QED  BY <1>4, <1>5, <1>6, <1>7 DEF Called, r

\* The call of a procedure keeps the invariant, and nothing bears the new
\* number.
LEMMA CalledInv ==
    ASSUME NEW mem, IInv(mem), mem.next <= MaxId, NEW r, Called(mem, r)
    PROVE  IInv(r) /\ Fresh(r)
<1> DEFINE new == Len(mem.lev) + 1
           last == Len(mem.lev)
<1>1. /\ Len(mem.lev) \in Nat /\ Len(mem.lev) > 0 /\ last \in Depths(mem) /\ Id(mem, last) = mem.cur
      /\ mem.next \in Numbers /\ mem.next > 3 /\ mem.cur \in Nat /\ mem.next \in Nat
  <2>1. last \in Depths(mem) /\ Id(mem, last) = mem.cur
      BY CurIs
  <2> QED  BY <2>1, MemoryType, PoolAssumption DEF IInv, Parts, Numbered, Numbers
<1>2. /\ r \in Memory /\ r.heap = mem.heap /\ r.node = mem.node
      /\ r.cur = mem.next /\ r.next = mem.next + 1 /\ Len(r.lev) = new
      /\ \A d \in Depths(mem) : r.lev[d] = mem.lev[d]
      /\ r.lev[new].of = [n \in Names |-> Nil] /\ r.lev[new].size = InitSize
      /\ r.lev[new].elements = 0 /\ r.lev[new].saved = mem.cur /\ r.lev[new].id = mem.next
    BY DEF Called
<1>3. /\ \A d : d \in Depths(r) <=> d \in Depths(mem) \/ d = new
      /\ new \notin Depths(mem) /\ new \in Nat
    BY <1>1, <1>2 DEF Depths
<1>4. /\ \A d \in Depths(mem) : Id(r, d) = Id(mem, d)
      /\ Id(r, new) = mem.next
    BY <1>2 DEF Id
<1>5. /\ \A c : c \in Ids(r) <=> c \in Ids(mem) \/ c = mem.next
      /\ \A c \in Ids(mem) : c < mem.next /\ c \in Numbers
    BY <1>3, <1>4, CurIs DEF Ids
<1>6. ASSUME NEW b \in Box, b[1] = mem.next
      PROVE  ~Used(mem, b) /\ mem.heap[b] = FreeBox /\ ~Held(mem, b)
  <2>1. mem.heap[b].state \in {"free", "used", "hollow", "lost"}
      BY MemoryType DEF IInv, Cell
  <2>2. ~(mem.next < mem.next) /\ mem.next \notin Ids(mem)
      BY <1>1, <1>5
  <2>3. ~Used(mem, b) /\ mem.heap[b] = FreeBox
      BY <1>6, <2>1, <2>2 DEF IInv, Parts, Boxed, Used
  <2>4. mem.heap[b].hwired = 0
      BY <2>3 DEF FreeBox
  <2> QED  BY <2>3, <2>4 DEF IInv, Parts, Pointed
<1>7. /\ \A b : Used(r, b) <=> Used(mem, b)
      /\ \A b : Held(r, b) <=> Held(mem, b)
      /\ \A b : Root(r, b) = Root(mem, b)
    BY <1>2 DEF Used, Held, Root
<1>8. Numbered(r)
  <2>1. /\ Len(r.lev) > 0 /\ r.next > 3 /\ r.cur = Id(r, Len(r.lev))
      BY <1>1, <1>2, <1>4
  <2>2. ASSUME NEW d \in Depths(r), NEW e \in Depths(r), d < e PROVE Id(r, d) < Id(r, e)
      <3>1. d \in Depths(mem)
          BY <1>1, <1>3, <2>2 DEF Depths
      <3>2. CASE e = new
          BY <1>4, <3>1, <3>2, CurIs
      <3>3. CASE e # new
          BY <1>3, <1>4, <2>2, <3>1, <3>3 DEF IInv, Parts, Numbered
      <3> QED  BY <3>2, <3>3
  <2>3. ASSUME NEW d \in Depths(r)
        PROVE  /\ Id(r, d) < r.next /\ r.lev[d].saved = IF d = 1 THEN 2 ELSE Id(r, d - 1)
               /\ r.lev[d].size = InitSize
      <3>1. CASE d = new
          <4>1. d # 1 /\ d - 1 = last
              BY <1>1, <3>1
          <4>2. Id(r, d - 1) = mem.cur
              BY <1>1, <1>4, <4>1
          <4> QED  BY <1>1, <1>2, <1>4, <3>1, <4>1, <4>2
      <3>2. CASE d # new
          <4>1. d \in Depths(mem) /\ (d # 1 => d - 1 \in Depths(mem))
              BY <1>1, <1>3, <3>2 DEF Depths
          <4>2. /\ Id(mem, d) < mem.next /\ mem.lev[d].saved = IF d = 1 THEN 2 ELSE Id(mem, d - 1)
                /\ mem.lev[d].size = InitSize
              BY <4>1 DEF IInv, Parts, Numbered
          <4>3. Id(mem, d) \in Nat
              BY <4>1, <1>5, CurIs DEF Numbers
          <4> QED  BY <1>1, <1>2, <1>4, <4>1, <4>2, <4>3
      <3> QED  BY <3>1, <3>2
  <2>4. ASSUME NEW d \in Depths(r)
        PROVE  r.lev[d].elements = Cardinality({n \in Names : r.lev[d].of[n] # Nil})
      <3>1. CASE d = new
          <4>1. {n \in Names : r.lev[d].of[n] # Nil} = {}
              BY <1>2, <3>1
          <4> QED  BY <1>2, <3>1, <4>1, FS_EmptySet
      <3>2. CASE d # new
          <4>1. d \in Depths(mem) /\ r.lev[d] = mem.lev[d]
              BY <1>2, <1>3, <3>2
          <4>2. mem.lev[d].elements = Cardinality({n \in Names : mem.lev[d].of[n] # Nil})
              BY <4>1 DEF IInv, Parts, Numbered
          <4> QED  BY <4>1, <4>2
      <3> QED  BY <3>1, <3>2
  <2> QED  BY <2>1, <2>2, <2>3, <2>4 DEF Numbered
<1>9. Tabled(r)
  <2>1. ASSUME NEW d \in Depths(r), NEW n \in Names
        PROVE  r.lev[d].of[n] = IF Used(r, <<Id(r, d), <<n>>>>) THEN <<Id(r, d), <<n>>>> ELSE Nil
      <3>1. CASE d = new
          <4>1. <<mem.next, <<n>>>> \in Box
              BY <1>1, BoxFacts, KindFacts
          <4>2. ~Used(r, <<mem.next, <<n>>>>)
              BY <1>6, <1>7, <4>1
          <4> QED  BY <1>2, <1>4, <3>1, <4>2
      <3>2. CASE d # new
          BY <1>2, <1>3, <1>4, <1>7, <3>2 DEF IInv, Parts, Tabled
      <3> QED  BY <3>1, <3>2
  <2>2. \A b \in Box : r.heap[b].index # NoIndex <=>
          b[2] = <<"S">> /\ Used(r, b) /\ r.heap[b].real = Nil
      BY <1>2, <1>7 DEF IInv, Parts, Tabled
  <2>3. \A b \in Box : r.heap[b].index # NoIndex => \A t \in Tails :
          r.heap[b].index[t] =
              IF Used(r, <<b[1], TailVar(t)>>) THEN <<b[1], TailVar(t)>> ELSE Nil
      BY <1>2, <1>7 DEF IInv, Parts, Tabled
  <2>4. \A a \in Numbers, t \in Tails :
          Used(r, <<a, TailVar(t)>>) => r.heap[<<a, <<"S">>>>].index # NoIndex
      BY <1>2, <1>7 DEF IInv, Parts, Tabled
  <2> QED  BY <2>1, <2>2, <2>3, <2>4 DEF Tabled
<1>10. Boxed(r)
  <2>1. ASSUME NEW c \in Box
        PROVE  /\ r.heap[c].state = "free" => r.heap[c] = FreeBox
               /\ r.heap[c].state \notin {"free", "used"} =>
                     r.heap[c] \in Empty /\ c[1] < r.next /\ c[1] \notin Ids(r)
               /\ Used(r, c) => /\ c[1] \in Ids(r) /\ r.heap[c].valid >= c[1]
                                /\ r.heap[c].valid < r.next
               /\ c[2] = <<"X">> => r.heap[c].val \in Tails \union {None}
      <3>1. /\ mem.heap[c].state = "free" => mem.heap[c] = FreeBox
            /\ mem.heap[c].state \notin {"free", "used"} =>
                     mem.heap[c] \in Empty /\ c[1] < mem.next /\ c[1] \notin Ids(mem)
            /\ Used(mem, c) => /\ c[1] \in Ids(mem) /\ mem.heap[c].valid >= c[1]
                               /\ mem.heap[c].valid < mem.next
            /\ c[2] = <<"X">> => mem.heap[c].val \in Tails \union {None}
          BY DEF IInv, Parts, Boxed
      <3>2. mem.heap[c].valid \in Nat /\ c[1] \in Nat
          BY MemoryType, BoxFacts DEF IInv, Numbers
      <3> QED  BY <1>1, <1>2, <1>5, <1>7, <3>1, <3>2
  <2> QED  BY <2>1 DEF Boxed
<1>11. Leads(r)
  <2>1. ASSUME NEW c \in Box, r.heap[c].real # Nil
        PROVE  LET q == r.heap[c].real IN
               /\ r.heap[c].val = None /\ r.heap[c].index = NoIndex
               /\ q \in Box /\ q[2] = c[2] /\ q[1] < c[1]
               /\ Used(r, q) /\ r.heap[q].real = Nil
               /\ c[2] \in NameKinds => \A x \in Ids(r) :
                     q[1] < x /\ x < c[1] => r.heap[<<x, c[2]>>].real = q
      <3> DEFINE q == mem.heap[c].real
      <3>1. /\ mem.heap[c].val = None /\ mem.heap[c].index = NoIndex
            /\ q \in Box /\ q[2] = c[2] /\ q[1] < c[1]
            /\ Used(mem, q) /\ mem.heap[q].real = Nil
            /\ c[2] \in NameKinds => \A x \in Ids(mem) :
                     q[1] < x /\ x < c[1] => mem.heap[<<x, c[2]>>].real = q
          BY <1>2, <2>1 DEF IInv, Parts, Leads
      <3>2. c[1] \in Ids(mem)
          <4>1. Used(mem, c)
              BY <1>2, <2>1, LeadingUsed
          <4> QED  BY <4>1 DEF IInv, Parts, Boxed
      <3>3. ~(mem.next < c[1])
          BY <1>1, <1>5, <3>2 DEF Numbers
      <3> QED  BY <1>2, <1>5, <1>7, <3>1, <3>3
  <2> QED  BY <2>1 DEF Leads
<1>12. Pointed(r)
  <2>1. \A c \in Box : r.heap[c].hwired = IF Held(r, c) THEN 1 ELSE 0
      BY <1>2, <1>7 DEF IInv, Parts, Pointed
  <2>2. ASSUME NEW nd \in Nodes, r.node[nd] # Nil
        PROVE  LET c == r.node[nd] IN
               /\ c[2] = <<NodeName(nd)>> /\ r.heap[c].state # "free" /\ r.heap[c].real = Nil
               /\ \A x \in Ids(r) : r.heap[c].valid = x =>
                     Used(r, <<x, c[2]>>) /\ Root(r, <<x, c[2]>>) = c
      <3> DEFINE c == mem.node[nd]
      <3>1. c \in Box /\ r.node[nd] = c
          BY <1>2, <2>2, MemoryType DEF IInv, Place
      <3>2. /\ c[2] = <<NodeName(nd)>> /\ mem.heap[c].state # "free" /\ mem.heap[c].real = Nil
            /\ \A x \in Ids(mem) : mem.heap[c].valid = x =>
                     Used(mem, <<x, c[2]>>) /\ Root(mem, <<x, c[2]>>) = c
          BY <3>1, BoxFacts DEF IInv, Parts, Pointed
      <3> HIDE DEF c
      <3>3. mem.heap[c].valid # mem.next
          <4>1. mem.heap[c].state \in {"used", "hollow", "lost"} /\ mem.heap[c].valid \in Nat
              BY <3>1, <3>2, MemoryType DEF IInv, Cell
          <4>2. \A e \in Empty : e.valid = 0
              BY HollowIs, LeakedIs DEF Empty
          <4>3. mem.heap[c].valid < mem.next \/ mem.heap[c].valid = 0
              BY <3>1, <4>1, <4>2 DEF IInv, Parts, Boxed, Used
          <4> QED  BY <1>1, <4>1, <4>3
      <3> QED  BY <1>2, <1>5, <1>7, <3>1, <3>2, <3>3
  <2> QED  BY <2>1, <2>2 DEF Pointed
<1>13. Fresh(r)
  <2>1. \A b \in Box : b[1] = mem.next => mem.heap[b].val = None
      BY <1>6 DEF FreeBox
  <2> QED  BY <1>1, <1>2, <1>6, <1>7, <2>1 DEF Fresh
<1> QED  BY <1>2, <1>8, <1>9, <1>10, <1>11, <1>12, <1>13 DEF IInv, Parts

-----------------------------------------------------------------------------
(* Names are exposed to the procedure. *)

\* What a box that leads to another holds.
LEMMA AliasIs ==
    ASSUME NEW mem, NEW b
    PROVE  Alias(mem, b) = [state |-> "used", val |-> None, real |-> b, valid |-> mem.cur,
                            hwired |-> 0, index |-> NoIndex]
<1> DEFINE c == mem.cur
<1>1. newbox(mem, None, NoIndex) = [state |-> "used", val |-> None, real |-> Nil, valid |-> c,
                                    hwired |-> 0, index |-> NoIndex]
    BY NewboxIs
<1>2. Alias(mem, b) = [newbox(mem, None, NoIndex) EXCEPT !.real = b]
    BY DEF Alias
<1> HIDE DEF c
<1>3. Alias(mem, b) = [state |-> "used", val |-> None, real |-> b, valid |-> c,
                       hwired |-> 0, index |-> NoIndex]
    BY <1>1, <1>2
<1> QED  BY <1>3 DEF c

\* It fits where a procedure has none of the name its caller has.
LEMMA AliasFits ==
    ASSUME NEW mem, IInv(mem), NEW d \in Depths(mem), d > 1, NEW n \in Names,
           NEW b, b = findsimple(mem, d - 1, n), b # Nil
    PROVE  Fits(mem, d, n, Alias(mem, b))
<1>1. d - 1 \in Depths(mem) /\ mem.cur \in Nat
    BY MemoryType DEF IInv, Depths
<1>2. b \in Box
    BY <1>1, FindIs
<1> DEFINE rec == Alias(mem, b)
<1>3. rec = [state |-> "used", val |-> None, real |-> b, valid |-> mem.cur,
             hwired |-> 0, index |-> NoIndex]
    BY AliasIs
<1> HIDE DEF rec
<1>4. rec \in Cell
    BY <1>1, <1>2, <1>3 DEF Cell, Place, Tables
<1> QED  BY <1>3, <1>4 DEF Fits, rec

\* The caller of the procedure.
LEMMA CallerIs ==
    ASSUME NEW mem, IInv(mem), Fresh(mem)
    PROVE  /\ Cur(mem) \in Depths(mem) /\ Cur(mem) > 1 /\ Cur(mem) - 1 \in Depths(mem)
           /\ Cur(mem) \in Nat /\ Cur(mem) - 1 # Cur(mem)
           /\ Id(mem, Cur(mem)) = mem.cur /\ Id(mem, Cur(mem) - 1) < mem.cur
           /\ Id(mem, Cur(mem) - 1) # mem.cur /\ mem.cur \in Numbers
           /\ \A c \in Ids(mem) : c < mem.cur => c <= Id(mem, Cur(mem) - 1)
<1>1. /\ Cur(mem) \in Depths(mem) /\ Cur(mem) > 1 /\ Cur(mem) - 1 \in Depths(mem)
      /\ Cur(mem) \in Nat /\ Cur(mem) - 1 # Cur(mem)
      /\ Id(mem, Cur(mem)) = mem.cur /\ mem.cur \in Numbers
    BY CurIs, MemoryType DEF IInv, Fresh, Depths
<1>2. Id(mem, Cur(mem) - 1) < mem.cur /\ Id(mem, Cur(mem) - 1) \in Numbers
    BY <1>1, MemoryType DEF IInv, Parts, Numbered
<1>3. ASSUME NEW c \in Ids(mem), c < mem.cur PROVE c <= Id(mem, Cur(mem) - 1)
  <2>1. PICK d \in Depths(mem) : c = Id(mem, d)
      BY DEF Ids
  <2>2. d # Cur(mem) /\ d <= Cur(mem) /\ d \in Nat /\ c \in Nat
      BY <1>1, <1>3, <2>1, CurIs DEF Depths, Numbers
  <2>3. d = Cur(mem) - 1 \/ d < Cur(mem) - 1
      BY <1>1, <2>2
  <2> QED  BY <1>1, <1>2, <2>1, <2>2, <2>3 DEF IInv, Parts, Numbered, Numbers
<1> QED  BY <1>1, <1>2, <1>3 DEF Numbers

\* A variable of the caller, or one without a value, leaves the procedure fresh.
LEMMA InsertFresh ==
    ASSUME TablesSuffice, NEW mem, IInv(mem), Fresh(mem), NEW d \in Depths(mem), NEW n \in Names,
           mem.lev[d].of[n] = Nil, NEW rec, Fits(mem, d, n, rec),
           d = Cur(mem) => rec.val = None
    PROVE  Fresh(Insert(mem, d, n, rec))
<1> DEFINE r == Insert(mem, d, n, rec)
           b == <<Id(mem, d), <<n>>>>
<1>1. /\ Cur(r) = Cur(mem) /\ r.cur = mem.cur /\ r.node = mem.node /\ r.heap[b] = rec
      /\ \A c \in Box : c # b => r.heap[c] = mem.heap[c]
    BY InsertNew
<1>2. b[1] = mem.cur => d = Cur(mem)
    BY CurIs
<1> HIDE DEF b, r
<1> QED  BY <1>1, <1>2 DEF Fresh, Cur, Held, r

\* The number in the box a procedure finds becomes its own.
Restamped(mem, b, r) ==
  /\ SameFrame(mem, r)
  /\ r.heap[b].state = mem.heap[b].state /\ r.heap[b].val = mem.heap[b].val
  /\ r.heap[b].real = mem.heap[b].real /\ r.heap[b].hwired = mem.heap[b].hwired
  /\ r.heap[b].index = mem.heap[b].index /\ r.heap[b].valid = mem.cur
  /\ \A c \in Box : c # b => r.heap[c] = mem.heap[c]

\* A box that is stamped with the number of the procedure called keeps the
\* invariant.
LEMMA RestampedInv ==
    ASSUME NEW mem, IInv(mem), NEW n \in Names, NEW b, b = findsimple(mem, Cur(mem), n), b # Nil,
           NEW r, Restamped(mem, b, r)
    PROVE  IInv(r)
<1> DEFINE top == <<mem.cur, <<n>>>>
<1>1. /\ b \in Box /\ Used(mem, b) /\ mem.heap[b].real = Nil /\ b[2] = <<n>> /\ b[1] <= mem.cur
      /\ top \in Box /\ Used(mem, top) /\ Root(mem, top) = b
  <2>1. Cur(mem) \in Depths(mem) /\ Id(mem, Cur(mem)) = mem.cur
      BY CurIs
  <2> QED  BY <2>1, FindIs
<1>2. /\ SameFrame(mem, r)
      /\ r.heap[b].state = mem.heap[b].state /\ r.heap[b].val = mem.heap[b].val
      /\ r.heap[b].real = mem.heap[b].real /\ r.heap[b].hwired = mem.heap[b].hwired
      /\ r.heap[b].index = mem.heap[b].index /\ r.heap[b].valid = mem.cur
      /\ \A c \in Box : c # b => r.heap[c] = mem.heap[c]
    BY DEF Restamped
<1>3. /\ Ids(r) = Ids(mem) /\ Depths(r) = Depths(mem) /\ \A d : Id(r, d) = Id(mem, d)
      /\ \A c : Held(r, c) <=> Held(mem, c)
      /\ Numbered(r) /\ r \in Memory /\ r.lev = mem.lev /\ r.next = mem.next /\ r.node = mem.node
    BY <1>2, FrameSame DEF SameFrame
<1>4. /\ \A c \in Box : /\ Used(r, c) <=> Used(mem, c)
                        /\ r.heap[c].real = mem.heap[c].real /\ r.heap[c].val = mem.heap[c].val
                        /\ r.heap[c].index = mem.heap[c].index
                        /\ r.heap[c].hwired = mem.heap[c].hwired
                        /\ r.heap[c].state = mem.heap[c].state
      /\ \A c \in Box : Root(r, c) = Root(mem, c)
    BY <1>2 DEF Used, Root
<1>5. Tabled(r)
  <2>1. \A d \in Depths(r), k \in Names :
        r.lev[d].of[k] = IF Used(r, <<Id(r, d), <<k>>>>) THEN <<Id(r, d), <<k>>>> ELSE Nil
      <3>1. \A d \in Depths(r), k \in Names : <<Id(mem, d), <<k>>>> \in Box
          BY <1>3, BoxFacts, KindFacts, MemoryType DEF IInv
      <3> QED  BY <1>3, <1>4, <3>1 DEF IInv, Parts, Tabled
  <2>2. \A c \in Box : r.heap[c].index # NoIndex <=>
          c[2] = <<"S">> /\ Used(r, c) /\ r.heap[c].real = Nil
      BY <1>4 DEF IInv, Parts, Tabled
  <2>3. \A c \in Box : r.heap[c].index # NoIndex => \A t \in Tails :
          r.heap[c].index[t] =
              IF Used(r, <<c[1], TailVar(t)>>) THEN <<c[1], TailVar(t)>> ELSE Nil
      <3>1. \A c \in Box, t \in Tails : <<c[1], TailVar(t)>> \in Box
          BY BoxFacts, KindFacts
      <3> QED  BY <1>4, <3>1 DEF IInv, Parts, Tabled
  <2>4. \A a \in Numbers, t \in Tails :
          Used(r, <<a, TailVar(t)>>) => r.heap[<<a, <<"S">>>>].index # NoIndex
      <3>1. \A a \in Numbers, t \in Tails : <<a, TailVar(t)>> \in Box /\ <<a, <<"S">>>> \in Box
          BY BoxFacts, KindFacts
      <3> QED  BY <1>4, <3>1 DEF IInv, Parts, Tabled
  <2> QED  BY <2>1, <2>2, <2>3, <2>4 DEF Tabled
<1>6. Boxed(r)
  <2>1. ASSUME NEW c \in Box
        PROVE  /\ r.heap[c].state = "free" => r.heap[c] = FreeBox
               /\ r.heap[c].state \notin {"free", "used"} =>
                     r.heap[c] \in Empty /\ c[1] < r.next /\ c[1] \notin Ids(r)
               /\ Used(r, c) => /\ c[1] \in Ids(r) /\ r.heap[c].valid >= c[1]
                                /\ r.heap[c].valid < r.next
               /\ c[2] = <<"X">> => r.heap[c].val \in Tails \union {None}
      <3>1. CASE c # b
          BY <1>2, <1>3, <3>1 DEF IInv, Parts, Boxed, Used
      <3>2. CASE c = b
          <4>1. mem.heap[b].state = "used" /\ b[1] \in Ids(mem) /\ b[1] \in Numbers
                /\ (b[2] = <<"X">> => mem.heap[b].val \in Tails \union {None})
              BY <1>1, BoxFacts DEF IInv, Parts, Boxed, Used
          <4>2. mem.cur < mem.next /\ mem.cur \in Numbers
              BY CurIs
          <4> QED  BY <1>1, <1>2, <1>3, <3>2, <4>1, <4>2 DEF Used, Numbers
      <3> QED  BY <3>1, <3>2
  <2> QED  BY <2>1 DEF Boxed
<1>7. Leads(r)
  <2>1. ASSUME NEW c \in Box, r.heap[c].real # Nil
        PROVE  LET q == r.heap[c].real IN
               /\ r.heap[c].val = None /\ r.heap[c].index = NoIndex
               /\ q \in Box /\ q[2] = c[2] /\ q[1] < c[1]
               /\ Used(r, q) /\ r.heap[q].real = Nil
               /\ c[2] \in NameKinds => \A x \in Ids(r) :
                     q[1] < x /\ x < c[1] => r.heap[<<x, c[2]>>].real = q
      <3> DEFINE q == mem.heap[c].real
      <3>1. /\ mem.heap[c].val = None /\ mem.heap[c].index = NoIndex
            /\ q \in Box /\ q[2] = c[2] /\ q[1] < c[1]
            /\ Used(mem, q) /\ mem.heap[q].real = Nil
            /\ c[2] \in NameKinds => \A x \in Ids(mem) :
                     q[1] < x /\ x < c[1] => mem.heap[<<x, c[2]>>].real = q
          BY <1>4, <2>1 DEF IInv, Parts, Leads
      <3>2. \A x \in Ids(mem) : <<x, c[2]>> \in Box
          BY BoxFacts, MemoryType DEF IInv
      <3>3. r.heap[c].real = q
          BY <1>4
      <3> HIDE DEF q
      <3> QED  BY <1>3, <1>4, <3>1, <3>2, <3>3
  <2> QED  BY <2>1 DEF Leads
<1>8. Pointed(r)
  <2>1. \A c \in Box : r.heap[c].hwired = IF Held(r, c) THEN 1 ELSE 0
      BY <1>3, <1>4 DEF IInv, Parts, Pointed
  <2>2. ASSUME NEW nd \in Nodes, r.node[nd] # Nil
        PROVE  LET c == r.node[nd] IN
               /\ c[2] = <<NodeName(nd)>> /\ r.heap[c].state # "free" /\ r.heap[c].real = Nil
               /\ \A x \in Ids(r) : r.heap[c].valid = x =>
                     Used(r, <<x, c[2]>>) /\ Root(r, <<x, c[2]>>) = c
      <3> DEFINE c == mem.node[nd]
      <3>1. c \in Box /\ r.node[nd] = c
          BY <1>3, <2>2, MemoryType DEF IInv, Place
      <3>2. /\ c[2] = <<NodeName(nd)>> /\ mem.heap[c].state # "free" /\ mem.heap[c].real = Nil
            /\ \A x \in Ids(mem) : mem.heap[c].valid = x =>
                     Used(mem, <<x, c[2]>>) /\ Root(mem, <<x, c[2]>>) = c
          BY <3>1, BoxFacts DEF IInv, Parts, Pointed
      <3>3. \A x \in Ids(mem) : <<x, c[2]>> \in Box
          BY <3>1, BoxFacts, MemoryType DEF IInv
      <3> HIDE DEF c
      <3>4. CASE c = b
          BY <1>1, <1>2, <1>3, <1>4, <3>1, <3>2, <3>3, <3>4
      <3>5. CASE c # b
          BY <1>2, <1>3, <1>4, <3>1, <3>2, <3>3, <3>5
      <3> QED  BY <3>4, <3>5
  <2> QED  BY <2>1, <2>2 DEF Pointed
<1> QED  BY <1>3, <1>5, <1>6, <1>7, <1>8 DEF IInv, Parts

\* The stamp changes, and nothing else.
LEMMA RestampIs ==
    ASSUME NEW mem, IInv(mem), NEW b \in Box
    PROVE  Restamped(mem, b, [mem EXCEPT !.heap[b].valid = mem.cur])
<1> DEFINE e == mem.heap[b]
           c == mem.cur
           new == [e EXCEPT !.valid = c]
           heap == [mem.heap EXCEPT ![b] = new]
           r == [mem EXCEPT !.heap[b].valid = mem.cur]
<1>1. mem \in Memory /\ mem.heap \in [Box -> Cell] /\ e \in Cell /\ c \in Nat
    BY MemoryType DEF IInv
<1>2. r = [mem EXCEPT !.heap = heap]
    OBVIOUS
<1> HIDE DEF e, c
<1>3. e = [state |-> e.state, val |-> e.val, real |-> e.real, valid |-> e.valid,
           hwired |-> e.hwired, index |-> e.index]
    BY <1>1 DEF Cell
<1>4. new = [state |-> e.state, val |-> e.val, real |-> e.real, valid |-> c,
             hwired |-> e.hwired, index |-> e.index]
    BY <1>3
<1>5. new \in Cell
  <2> HIDE DEF new
  <2> QED  BY <1>1, <1>4 DEF Cell
<1> HIDE DEF new, r
<1>6. /\ heap \in [Box -> Cell] /\ heap[b] = new /\ \A x \in Box : x # b => heap[x] = mem.heap[x]
    BY <1>1, <1>5
<1> HIDE DEF heap
<1>7. r = [heap |-> heap, lev |-> mem.lev, cur |-> mem.cur, next |-> mem.next, node |-> mem.node]
    BY <1>1, <1>2 DEF Memory
<1>8. SameFrame(mem, r) /\ r.heap = heap
    BY <1>1, <1>6, <1>7 DEF Memory, SameFrame
<1>9. Restamped(mem, b, r)
    BY <1>4, <1>6, <1>8 DEF Restamped, e, c
<1> QED  BY <1>9 DEF r

\* A simple variable is exposed.
LEMMA ExposeSimpleInv ==
    ASSUME TablesSuffice, NEW mem, IInv(mem), Fresh(mem), NEW n \in Simples
    PROVE  LET r == expose_simple(mem, n) IN IInv(r) /\ Fresh(r)
<1> DEFINE old == Cur(mem) - 1
           new == Cur(mem)
           one == IF findsimple(mem, old, n) # Nil THEN mem
                  ELSE Insert(mem, old, n, newbox(mem, None, NoIndex))
           b == findsimple(one, old, n)
           two == Insert(one, new, n, Alias(one, b))
           r == expose_simple(mem, n)
<1>1. n \in Names /\ n # "S"
    BY KindFacts
<1>2. /\ old \in Depths(mem) /\ new \in Depths(mem) /\ new > 1 /\ old # new /\ new \in Nat
      /\ Id(mem, new) = mem.cur /\ Id(mem, old) # mem.cur
    BY CallerIs
<1>3. CASE mem.lev[new].of[n] # Nil
    BY <1>3 DEF expose_simple
<1>4. CASE mem.lev[new].of[n] = Nil
  <2>1. /\ IInv(one) /\ Fresh(one) /\ Cur(one) = new /\ one.cur = mem.cur /\ b # Nil
        /\ Depths(one) = Depths(mem) /\ one.lev[new].of[n] = Nil
      <3>1. CASE findsimple(mem, old, n) # Nil
          <4>1. one = mem
              BY <3>1
          <4> HIDE DEF one
          <4> QED  BY <1>4, <3>1, <4>1
      <3>2. CASE findsimple(mem, old, n) = Nil
          <4> DEFINE rec == newbox(mem, None, NoIndex)
          <4>1. one = Insert(mem, old, n, rec)
              BY <3>2
          <4>2. mem.lev[old].of[n] = Nil
              BY <1>1, <1>2, <3>2, NotFound
          <4>3. Fits(mem, old, n, rec)
              BY <1>1, NewboxFits
          <4>4. rec.state = "used"
              BY NewboxIs
          <4> HIDE DEF one, rec, old, new
          <4>5. /\ IInv(one) /\ Inserted(mem, old, n, rec, one) /\ Cur(one) = Cur(mem)
                /\ one.cur = mem.cur /\ Depths(one) = Depths(mem)
                /\ Id(one, old) = Id(mem, old) /\ one.heap[<<Id(mem, old), <<n>>>>] = rec
              <5> DEFINE ins == Insert(mem, old, n, rec)
              <5>1. old \in Depths(mem) /\ n \in Names
                  BY <1>1, <1>2
              <5>2. /\ IInv(ins) /\ Inserted(mem, old, n, rec, ins) /\ Cur(ins) = Cur(mem)
                    /\ ins.cur = mem.cur /\ Depths(ins) = Depths(mem)
                    /\ \A e \in Depths(mem) : Id(ins, e) = Id(mem, e)
                    /\ ins.heap[<<Id(mem, old), <<n>>>>] = rec
                  BY <4>2, <4>3, <5>1, InsertNew
              <5> HIDE DEF ins
              <5>3. one = ins
                  BY <4>1 DEF ins
              <5> QED  BY <5>1, <5>2, <5>3
          <4>6. Fresh(one)
              BY <1>1, <1>2, <4>1, <4>2, <4>3, InsertFresh DEF new
          <4>7. b # Nil
              <5>1. old \in Depths(one) /\ n \in Names /\ IInv(one)
                  BY <1>1, <1>2, <4>5
              <5>2. Used(one, <<Id(one, old), <<n>>>>)
                  BY <4>4, <4>5 DEF Used
              <5> QED  BY <5>1, <5>2, FindIs
          <4>8. one.lev[new] = mem.lev[new]
              BY <1>2, <4>5 DEF Inserted
          <4> QED  BY <1>4, <4>5, <4>6, <4>7, <4>8 DEF new
      <3> QED  BY <3>1, <3>2
  <2> HIDE DEF one
  <2>2. Fits(one, new, n, Alias(one, b)) /\ Alias(one, b).val = None /\ Alias(one, b).real = b
        /\ Alias(one, b).state = "used"
      <3>1. Fits(one, new, n, Alias(one, b))
          BY <1>1, <1>2, <2>1, AliasFits
      <3> QED  BY <3>1, AliasIs
  <2> DEFINE rec == Alias(one, b)
             top == <<mem.cur, <<n>>>>
  <2> HIDE DEF rec
  <2>3. /\ IInv(two) /\ Cur(two) = new /\ two.cur = mem.cur /\ Fresh(two)
        /\ Depths(two) = Depths(mem) /\ two.heap[top] = rec /\ Id(two, new) = mem.cur
      <3>1. Id(one, new) = mem.cur
          BY <2>1, CurIs
      <3>2. /\ IInv(two) /\ Cur(two) = Cur(one) /\ two.cur = one.cur
            /\ Depths(two) = Depths(one) /\ Id(two, new) = Id(one, new)
            /\ two.heap[<<Id(one, new), <<n>>>>] = rec
          BY <1>1, <1>2, <2>1, <2>2, InsertNew DEF rec
      <3>3. Fresh(two)
          BY <1>1, <1>2, <2>1, <2>2, InsertFresh DEF rec
      <3> QED  BY <2>1, <3>1, <3>2, <3>3
  <2>4. r = [two EXCEPT !.heap[b].valid = mem.cur]
      BY <1>4 DEF expose_simple, one
  <2> HIDE DEF two, r, new, b
  <2>5. findsimple(two, Cur(two), n) = b
      <3>1. Used(two, top) /\ Root(two, top) = b
          BY <2>1, <2>2, <2>3 DEF Used, Root, rec
      <3> QED  BY <1>1, <1>2, <2>3, <3>1, FindIs
  <2>6. b \in Box
      BY <1>1, <1>2, <2>1, <2>3, <2>5, FindIs
  <2>7. Restamped(two, b, r)
      BY <2>3, <2>4, <2>6, RestampIs
  <2>8. IInv(r)
      BY <1>1, <2>1, <2>3, <2>5, <2>7, RestampedInv
  <2>9. Fresh(r)
      <3>1. SameFrame(two, r) /\ \A c \in Box : r.heap[c].val = two.heap[c].val
          BY <2>7 DEF Restamped
      <3>2. \A c : Held(r, c) <=> Held(two, c)
          BY <3>1, FrameSame
      <3> QED  BY <2>3, <3>1, <3>2 DEF Fresh, SameFrame
  <2> QED  BY <2>8, <2>9 DEF r
<1> QED  BY <1>3, <1>4

-----------------------------------------------------------------------------
(* The stem, or a tail of it, is exposed. *)

\* The memory when the caller has the stem.
CallerStem(mem) ==
  IF findsimple(mem, Cur(mem) - 1, "S") # Nil THEN mem ELSE make_stem(mem, Cur(mem) - 1)

\* The caller's stem is there when the procedure exposes it.
LEMMA CallerStemIs ==
    ASSUME TablesSuffice, NEW mem, IInv(mem), Fresh(mem)
    PROVE  LET r == CallerStem(mem)
               s == findsimple(r, Cur(mem) - 1, "S")
           IN  /\ IInv(r) /\ Fresh(r) /\ Cur(r) = Cur(mem) /\ r.cur = mem.cur
               /\ Depths(r) = Depths(mem) /\ Ids(r) = Ids(mem) /\ r.node = mem.node
               /\ Stem(r, s) /\ s # Nil /\ s[1] < mem.cur /\ s[1] # mem.cur
               /\ \A b \in Box : b[1] = mem.cur => r.heap[b] = mem.heap[b]
               /\ r.lev[Cur(mem)] = mem.lev[Cur(mem)]
<1> DEFINE r == CallerStem(mem)
           old == Cur(mem) - 1
           s == findsimple(r, old, "S")
<1>1. "S" \in Names /\ "S" # "X"
    BY KindFacts
<1>2. /\ old \in Depths(mem) /\ Cur(mem) \in Depths(mem) /\ old # Cur(mem)
      /\ Id(mem, old) < mem.cur /\ Id(mem, old) # mem.cur /\ Id(mem, old) \in Numbers
      /\ mem.cur \in Numbers
    BY CallerIs, MemoryType DEF IInv
<1>3. CASE findsimple(mem, old, "S") # Nil
  <2>1. r = mem
      BY <1>3 DEF CallerStem
  <2> HIDE DEF r, old
  <2>2. s # Nil /\ s \in Box /\ Used(mem, s) /\ mem.heap[s].real = Nil /\ s[2] = <<"S">>
        /\ s[1] <= Id(mem, old)
      BY <1>1, <1>2, <1>3, <2>1, FindIs
  <2>3. s[1] < mem.cur /\ s[1] # mem.cur
      BY <1>2, <2>2, BoxFacts DEF Numbers
  <2> HIDE DEF s
  <2>4. Stem(r, s)
      BY <2>1, <2>2 DEF Stem
  <2> QED  BY <2>1, <2>2, <2>3, <2>4 DEF r, s, old
<1>4. CASE findsimple(mem, old, "S") = Nil
  <2>1. r = Insert(mem, old, "S", newbox(mem, None, NoTails))
      BY <1>4 DEF CallerStem, make_stem
  <2>2. mem.lev[old].of["S"] = Nil
      BY <1>1, <1>2, <1>4, NotFound
  <2> DEFINE rec == newbox(mem, None, NoTails)
  <2>3. Fits(mem, old, "S", rec)
      BY <1>1, NewboxFits
  <2> HIDE DEF rec
  <2> DEFINE ins == Insert(mem, old, "S", rec)
  <2>4. /\ IInv(ins) /\ Cur(ins) = Cur(mem) /\ ins.cur = mem.cur /\ Depths(ins) = Depths(mem)
        /\ Ids(ins) = Ids(mem) /\ ins.node = mem.node
        /\ Stem(ins, <<Id(mem, old), <<"S">>>>) /\ findsimple(ins, old, "S") = <<Id(mem, old), <<"S">>>>
        /\ <<Id(mem, old), <<"S">>>> # Nil
        /\ \A c \in Box : c # <<Id(mem, old), <<"S">>>> => ins.heap[c] = mem.heap[c]
      BY <1>2, <2>2, MakeStem DEF rec
  <2>5. Inserted(mem, old, "S", rec, ins) /\ Fresh(ins)
      BY <1>1, <1>2, <2>2, <2>3, InsertNew, InsertFresh
  <2>6. ins.lev[Cur(mem)] = mem.lev[Cur(mem)]
      BY <1>2, <2>5 DEF Inserted
  <2>7. r = ins
      BY <2>1 DEF rec
  <2> HIDE DEF ins, r, old
  <2> QED  BY <1>2, <2>4, <2>5, <2>6, <2>7 DEF r, old
<1> QED  BY <1>3, <1>4

\* The stem that exposed tails made leads to the caller's now, and its tails are gone.
Aliased(mem, q, s, r) ==
  /\ SameFrame(mem, r)
  /\ r.heap[q].state = mem.heap[q].state /\ r.heap[q].val = mem.heap[q].val
  /\ r.heap[q].valid = mem.heap[q].valid /\ r.heap[q].hwired = mem.heap[q].hwired
  /\ r.heap[q].index = NoIndex /\ r.heap[q].real = s
  /\ \A b \in Box : b # q => r.heap[b] = IF b[1] = q[1] /\ b[2] \in TailKinds THEN FreeBox
                                         ELSE mem.heap[b]

\* The procedure's stem leads to the caller's.
LEMMA AliasedInv ==
    ASSUME NEW mem, IInv(mem), Fresh(mem), NEW q, q = <<mem.cur, <<"S">>>>, Stem(mem, q),
           NEW s, s = findsimple(mem, Cur(mem) - 1, "S"), s # Nil,
           NEW r, Aliased(mem, q, s, r)
    PROVE  IInv(r) /\ Fresh(r)
<1> DEFINE caller == <<Id(mem, Cur(mem) - 1), <<"S">>>>
           IsTail(b) == b[1] = mem.cur /\ b[2] \in TailKinds
<1>1. "S" \in Names /\ <<"S">> \in NameKinds /\ <<"S">> # <<"X">> /\ <<"S">> \notin TailKinds
    BY KindFacts
<1>2. /\ Cur(mem) - 1 \in Depths(mem) /\ Id(mem, Cur(mem) - 1) < mem.cur
      /\ mem.cur \in Numbers /\ Id(mem, Cur(mem) - 1) \in Numbers
      /\ \A c \in Ids(mem) : c < mem.cur => c <= Id(mem, Cur(mem) - 1)
    BY CallerIs, MemoryType DEF IInv
<1>3. /\ s \in Box /\ Used(mem, s) /\ mem.heap[s].real = Nil /\ s[2] = <<"S">>
      /\ s[1] <= Id(mem, Cur(mem) - 1)
      /\ caller \in Box /\ Used(mem, caller) /\ Root(mem, caller) = s
    BY <1>1, <1>2, FindIs
<1>4. s[1] < mem.cur /\ s[1] \in Numbers /\ s[1] # mem.cur
    BY <1>2, <1>3, BoxFacts DEF Numbers
<1>5. /\ q \in Box /\ q[1] = mem.cur /\ q[2] = <<"S">> /\ Used(mem, q) /\ mem.heap[q].real = Nil
      /\ q # s /\ q # Nil
    BY <1>4, BoxFacts DEF Stem
<1>6. /\ SameFrame(mem, r)
      /\ r.heap[q].state = mem.heap[q].state /\ r.heap[q].val = mem.heap[q].val
      /\ r.heap[q].valid = mem.heap[q].valid /\ r.heap[q].hwired = mem.heap[q].hwired
      /\ r.heap[q].index = NoIndex /\ r.heap[q].real = s
      /\ \A b \in Box : b # q => r.heap[b] = IF IsTail(b) THEN FreeBox ELSE mem.heap[b]
    BY <1>5 DEF Aliased
<1>7. /\ Ids(r) = Ids(mem) /\ Depths(r) = Depths(mem) /\ \A d : Id(r, d) = Id(mem, d)
      /\ \A c : Held(r, c) <=> Held(mem, c)
      /\ Numbered(r) /\ r \in Memory /\ r.lev = mem.lev /\ r.next = mem.next /\ r.node = mem.node
      /\ r.cur = mem.cur
    BY <1>6, FrameSame DEF SameFrame
<1>8. /\ FreeBox.state = "free" /\ FreeBox.real = Nil /\ FreeBox.index = NoIndex
      /\ FreeBox.hwired = 0 /\ FreeBox.val = None
    BY DEF FreeBox
<1>9. /\ \A b \in Box : b[2] \in NameKinds => ~IsTail(b)
      /\ \A b \in Box : ~IsTail(b) /\ b # q => r.heap[b] = mem.heap[b]
      /\ \A b \in Box : IsTail(b) => r.heap[b] = FreeBox /\ b # q /\ ~Used(r, b)
      /\ \A b \in Box : ~IsTail(b) => (Used(r, b) <=> Used(mem, b))
      /\ \A b \in Box : ~IsTail(b) /\ b # q => Root(r, b) = Root(mem, b)
      /\ IsTail(q) = FALSE /\ IsTail(s) = FALSE
    BY <1>1, <1>3, <1>4, <1>5, <1>6, <1>8, KindFacts DEF Used, Root
<1>10. \A b \in Box : b[1] = mem.cur => mem.heap[b].val = None /\ ~Held(mem, b)
    BY DEF Fresh
<1>11. \A b \in Box : /\ Used(mem, b) => b[1] \in Ids(mem) /\ b[1] <= mem.cur
                      /\ mem.heap[b].real # Nil => Used(mem, b)
                      /\ mem.heap[b].real # Nil => mem.heap[b].real[1] # mem.cur
  <2>1. \A b \in Box : Used(mem, b) => b[1] \in Ids(mem) /\ b[1] <= mem.cur
      BY CurIs DEF IInv, Parts, Boxed
  <2>2. ASSUME NEW b \in Box, mem.heap[b].real # Nil
        PROVE  Used(mem, b) /\ mem.heap[b].real[1] # mem.cur
      <3>1. Used(mem, b)
          BY <2>2, LeadingUsed
      <3>2. mem.heap[b].real[1] < b[1] /\ mem.heap[b].real \in Box
          BY <2>2 DEF IInv, Parts, Leads
      <3> QED  BY <1>2, <2>1, <3>1, <3>2, BoxFacts DEF Numbers
  <2> QED  BY <2>1, <2>2
<1> HIDE DEF IsTail, caller
<1>12. Tabled(r)
  <2>1. \A d \in Depths(r), n \in Names :
        r.lev[d].of[n] = IF Used(r, <<Id(r, d), <<n>>>>) THEN <<Id(r, d), <<n>>>> ELSE Nil
      <3>1. \A d \in Depths(r), n \in Names :
               <<Id(mem, d), <<n>>>> \in Box /\ <<Id(mem, d), <<n>>>>[2] \in NameKinds
          BY <1>7, BoxFacts, KindFacts, MemoryType DEF IInv
      <3> QED  BY <1>7, <1>9, <3>1 DEF IInv, Parts, Tabled
  <2>2. ASSUME NEW c \in Box
        PROVE  r.heap[c].index # NoIndex <=> c[2] = <<"S">> /\ Used(r, c) /\ r.heap[c].real = Nil
      <3>1. CASE c = q
          BY <1>3, <1>6, <3>1, BoxFacts
      <3>2. CASE IsTail(c)
          BY <1>8, <1>9, <3>2
      <3>3. CASE c # q /\ ~IsTail(c)
          BY <1>9, <3>3 DEF IInv, Parts, Tabled
      <3> QED  BY <3>1, <3>2, <3>3
  <2>3. ASSUME NEW c \in Box, r.heap[c].index # NoIndex, NEW u \in Tails
        PROVE  r.heap[c].index[u] =
                  IF Used(r, <<c[1], TailVar(u)>>) THEN <<c[1], TailVar(u)>> ELSE Nil
      <3> DEFINE x == <<c[1], TailVar(u)>>
      <3>1. x \in Box /\ x[1] = c[1] /\ x[2] \in TailKinds
          BY BoxFacts, KindFacts
      <3>2. c # q /\ ~IsTail(c)
          BY <1>6, <1>8, <1>9, <2>3
      <3>3. r.heap[c] = mem.heap[c]
          BY <1>9, <3>2
      <3>4. c[1] # mem.cur
          <4>1. c[2] = <<"S">> /\ c = <<c[1], c[2]>>
              BY <2>3, <3>3, BoxFacts DEF IInv, Parts, Tabled
          <4> QED  BY <3>2, <4>1
      <3>5. ~IsTail(x)
          BY <3>1, <3>4 DEF IsTail
      <3>6. mem.heap[c].index[u] = IF Used(mem, x) THEN x ELSE Nil
          BY <2>3, <3>3 DEF IInv, Parts, Tabled
      <3> HIDE DEF x
      <3> QED  BY <1>9, <3>1, <3>3, <3>5, <3>6 DEF x
  <2>4. ASSUME NEW a \in Numbers, NEW t \in Tails, Used(r, <<a, TailVar(t)>>)
        PROVE  r.heap[<<a, <<"S">>>>].index # NoIndex
      <3> DEFINE x == <<a, TailVar(t)>>
                 y == <<a, <<"S">>>>
      <3>1. x \in Box /\ x[1] = a /\ x[2] \in TailKinds /\ y \in Box /\ y[1] = a /\ y[2] = <<"S">>
          BY <1>1, BoxFacts, KindFacts
      <3>2. ~IsTail(x)
          BY <1>9, <2>4, <3>1
      <3>3. a # mem.cur
          BY <3>1, <3>2 DEF IsTail
      <3>4. Used(mem, x)
          BY <1>9, <2>4, <3>1, <3>2
      <3>5. mem.heap[y].index # NoIndex
          BY <3>4 DEF IInv, Parts, Tabled
      <3> HIDE DEF x, y
      <3>6. y # q /\ ~IsTail(y)
          BY <1>5, <3>1, <3>3 DEF IsTail
      <3>7. r.heap[y] = mem.heap[y]
          BY <1>9, <3>1, <3>6
      <3> QED  BY <3>5, <3>7 DEF y
  <2> QED  BY <2>1, <2>2, <2>3, <2>4 DEF Tabled
<1>13. Boxed(r)
  <2>1. ASSUME NEW c \in Box
        PROVE  /\ r.heap[c].state = "free" => r.heap[c] = FreeBox
               /\ r.heap[c].state \notin {"free", "used"} =>
                     r.heap[c] \in Empty /\ c[1] < r.next /\ c[1] \notin Ids(r)
               /\ Used(r, c) => /\ c[1] \in Ids(r) /\ r.heap[c].valid >= c[1]
                                /\ r.heap[c].valid < r.next
               /\ c[2] = <<"X">> => r.heap[c].val \in Tails \union {None}
      <3>1. /\ mem.heap[c].state = "free" => mem.heap[c] = FreeBox
            /\ mem.heap[c].state \notin {"free", "used"} =>
                     mem.heap[c] \in Empty /\ c[1] < mem.next /\ c[1] \notin Ids(mem)
            /\ Used(mem, c) => /\ c[1] \in Ids(mem) /\ mem.heap[c].valid >= c[1]
                               /\ mem.heap[c].valid < mem.next
            /\ c[2] = <<"X">> => mem.heap[c].val \in Tails \union {None}
          BY DEF IInv, Parts, Boxed
      <3>2. CASE c = q
          BY <1>1, <1>5, <1>6, <1>7, <3>1, <3>2 DEF Used
      <3>3. CASE IsTail(c)
          BY <1>8, <1>9, <3>3
      <3>4. CASE c # q /\ ~IsTail(c)
          BY <1>7, <1>9, <3>1, <3>4
      <3> QED  BY <3>2, <3>3, <3>4
  <2> QED  BY <2>1 DEF Boxed
<1>14. Leads(r)
  <2>1. ASSUME NEW c \in Box, r.heap[c].real # Nil
        PROVE  LET p == r.heap[c].real IN
               /\ r.heap[c].val = None /\ r.heap[c].index = NoIndex
               /\ p \in Box /\ p[2] = c[2] /\ p[1] < c[1]
               /\ Used(r, p) /\ r.heap[p].real = Nil
               /\ c[2] \in NameKinds => \A x \in Ids(r) :
                     p[1] < x /\ x < c[1] => r.heap[<<x, c[2]>>].real = p
      <3>1. CASE c = q
          <4>1. r.heap[q].val = None /\ r.heap[q].index = NoIndex /\ r.heap[q].real = s
              BY <1>5, <1>6, <1>10
          <4>2. Used(r, s) /\ r.heap[s].real = Nil
              BY <1>3, <1>5, <1>9
          <4>3. ASSUME NEW x \in Ids(mem), s[1] < x, x < mem.cur
                PROVE  r.heap[<<x, <<"S">>>>].real = s
              <5>1. x <= Id(mem, Cur(mem) - 1) /\ x \in Numbers
                  BY <1>2, <4>3, CurIs
              <5>2. caller # s /\ caller[1] = Id(mem, Cur(mem) - 1) /\ caller[2] = <<"S">>
                  BY <1>2, <1>4, <4>3, <5>1 DEF caller, Numbers
              <5>3. mem.heap[caller].real = s
                  BY <1>3, <5>2 DEF Root
              <5>4. mem.heap[<<x, <<"S">>>>].real = s
                  <6>1. CASE x = Id(mem, Cur(mem) - 1)
                      BY <5>3, <6>1 DEF caller
                  <6>2. CASE x # Id(mem, Cur(mem) - 1)
                      <7>1. x < caller[1]
                          BY <1>2, <5>1, <5>2, <6>2 DEF Numbers
                      <7> QED  BY <1>1, <1>3, <4>3, <5>2, <5>3, <7>1, BoxFacts
                               DEF IInv, Parts, Leads
                  <6> QED  BY <6>1, <6>2
              <5>5. <<x, <<"S">>>> \in Box /\ <<x, <<"S">>>> # q /\ ~IsTail(<<x, <<"S">>>>)
                  <6>1. <<x, <<"S">>>> \in Box /\ x # mem.cur
                      BY <1>1, <1>2, <4>3, <5>1, BoxFacts, KindFacts DEF Numbers
                  <6> QED  BY <1>5, <6>1 DEF IsTail
              <5> QED  BY <1>9, <5>4, <5>5
          <4> QED  BY <1>3, <1>4, <1>5, <1>7, <3>1, <4>1, <4>2, <4>3
      <3>2. CASE c # q
          <4> DEFINE p == mem.heap[c].real
          <4>1. ~IsTail(c) /\ r.heap[c] = mem.heap[c]
              BY <1>8, <1>9, <2>1, <3>2
          <4>2. /\ mem.heap[c].val = None /\ mem.heap[c].index = NoIndex
                /\ p \in Box /\ p[2] = c[2] /\ p[1] < c[1]
                /\ Used(mem, p) /\ mem.heap[p].real = Nil
                /\ c[2] \in NameKinds => \A x \in Ids(mem) :
                         p[1] < x /\ x < c[1] => mem.heap[<<x, c[2]>>].real = p
              BY <2>1, <4>1 DEF IInv, Parts, Leads
          <4>3. p[1] # mem.cur
              BY <1>11, <2>1, <4>1
          <4>4. p # q /\ ~IsTail(p) /\ p # Nil
              BY <1>5, <4>2, <4>3, BoxFacts DEF IsTail
          <4>5. c[1] <= mem.cur /\ c[1] \in Numbers
              BY <1>11, <2>1, <4>1, BoxFacts
          <4>6. ASSUME c[2] \in NameKinds, NEW x \in Ids(mem), p[1] < x, x < c[1]
                PROVE  r.heap[<<x, c[2]>>].real = p
              <5>1. mem.heap[<<x, c[2]>>].real = p
                  BY <4>2, <4>6
              <5>2. <<x, c[2]>> \in Box /\ x # mem.cur
                  BY <1>2, <4>5, <4>6, BoxFacts, CurIs DEF Numbers
              <5>3. <<x, c[2]>> # q /\ ~IsTail(<<x, c[2]>>)
                  BY <1>5, <5>2 DEF IsTail
              <5> HIDE DEF p
              <5> QED  BY <1>9, <5>1, <5>2, <5>3
          <4> HIDE DEF p
          <4>7. Used(r, p) /\ r.heap[p].real = Nil
              BY <1>9, <4>2, <4>4
          <4> QED  BY <1>7, <4>1, <4>2, <4>6, <4>7 DEF p
      <3> QED  BY <3>1, <3>2
  <2> QED  BY <2>1 DEF Leads
<1>15. Pointed(r)
  <2>1. ASSUME NEW c \in Box PROVE r.heap[c].hwired = IF Held(r, c) THEN 1 ELSE 0
      <3>1. CASE c = q
          BY <1>6, <1>7, <3>1 DEF IInv, Parts, Pointed
      <3>2. CASE IsTail(c)
          <4>1. ~Held(mem, c)
              BY <1>10, <3>2 DEF IsTail
          <4> QED  BY <1>7, <1>8, <1>9, <3>2, <4>1
      <3>3. CASE c # q /\ ~IsTail(c)
          BY <1>7, <1>9, <3>3 DEF IInv, Parts, Pointed
      <3> QED  BY <3>1, <3>2, <3>3
  <2>2. ASSUME NEW nd \in Nodes, r.node[nd] # Nil
        PROVE  LET c == r.node[nd] IN
               /\ c[2] = <<NodeName(nd)>> /\ r.heap[c].state # "free" /\ r.heap[c].real = Nil
               /\ \A x \in Ids(r) : r.heap[c].valid = x =>
                     Used(r, <<x, c[2]>>) /\ Root(r, <<x, c[2]>>) = c
      <3> DEFINE c == mem.node[nd]
      <3>1. c \in Box /\ r.node[nd] = c /\ Held(mem, c)
          BY <1>7, <2>2, MemoryType DEF IInv, Place, Held
      <3>2. /\ c[2] = <<NodeName(nd)>> /\ mem.heap[c].state # "free" /\ mem.heap[c].real = Nil
            /\ \A x \in Ids(mem) : mem.heap[c].valid = x =>
                     Used(mem, <<x, c[2]>>) /\ Root(mem, <<x, c[2]>>) = c
          BY <3>1, BoxFacts DEF IInv, Parts, Pointed
      <3>3. c[1] # mem.cur /\ c # q /\ ~IsTail(c) /\ c[2] \in NameKinds
          BY <1>5, <1>10, <3>1, <3>2, NodesDiffer DEF IsTail
      <3> HIDE DEF c
      <3>4. r.heap[c] = mem.heap[c]
          BY <1>9, <3>1, <3>3
      <3>5. ASSUME NEW x \in Ids(mem), mem.heap[c].valid = x
            PROVE  Used(r, <<x, c[2]>>) /\ Root(r, <<x, c[2]>>) = c
          <4> DEFINE y == <<x, c[2]>>
          <4>1. y \in Box /\ y[2] = c[2] /\ y[1] = x /\ Used(mem, y) /\ Root(mem, y) = c
              BY <3>1, <3>2, <3>5, BoxFacts, MemoryType DEF IInv
          <4>2. y # q
              BY <1>5, <3>3, <4>1 DEF Root
          <4>3. ~IsTail(y)
              BY <1>9, <3>3, <4>1
          <4> HIDE DEF y
          <4> QED  BY <1>9, <4>1, <4>2, <4>3 DEF y
      <3> QED  BY <1>7, <3>1, <3>2, <3>4, <3>5
  <2> QED  BY <2>1, <2>2 DEF Pointed
<1>16. Fresh(r)
  <2>1. \A b \in Box : b[1] = mem.cur => r.heap[b].val = None
      BY <1>5, <1>6, <1>8, <1>9, <1>10
  <2> QED  BY <1>7, <1>10, <2>1 DEF Fresh
<1> QED  BY <1>7, <1>12, <1>13, <1>14, <1>15, <1>16 DEF IInv, Parts

\* What exposing the stem does: its table is given up and it leads to the caller's.
LEMMA ExposeStemIs ==
    ASSUME TablesSuffice, NEW mem, IInv(mem), Fresh(mem),
           NEW q, q = mem.lev[Cur(mem)].of["S"], q # Nil, mem.heap[q].real = Nil,
           NEW one, one = CallerStem(mem), NEW s, s = findsimple(one, Cur(mem) - 1, "S")
    PROVE  /\ q = <<one.cur, <<"S">>>> /\ Stem(one, q) /\ s = findsimple(one, Cur(one) - 1, "S")
           /\ s # Nil /\ Aliased(one, q, s, expose_stem(mem))
<1> DEFINE old == Cur(mem) - 1
           new == Cur(mem)
           r == expose_stem(mem)
<1>1. "S" \in Names
    BY KindFacts
<1>2. /\ old \in Depths(mem) /\ new \in Depths(mem) /\ Id(mem, new) = mem.cur /\ mem.cur \in Numbers
    BY CallerIs
<1>3. /\ IInv(one) /\ Cur(one) = Cur(mem) /\ one.cur = mem.cur
      /\ Depths(one) = Depths(mem) /\ s # Nil
      /\ \A b \in Box : b[1] = mem.cur => one.heap[b] = mem.heap[b]
    BY CallerStemIs
<1> DEFINE foliage == {one.heap[q].index[t] : t \in Tails} \ {Nil}
           heap == [b \in Box |-> IF b \in foliage THEN FreeBox
                                  ELSE IF b = q THEN [one.heap[b] EXCEPT !.index = NoIndex,
                                                                         !.real = s]
                                  ELSE one.heap[b]]
<1>4. r = [one EXCEPT !.heap = heap]
    BY DEF expose_stem, CallerStem
<1>5. q = <<mem.cur, <<"S">>>> /\ Used(mem, q)
    BY <1>1, <1>2 DEF IInv, Parts, Tabled
<1>6. q \in Box /\ q[1] = mem.cur /\ q[2] = <<"S">> /\ <<"S">> \notin TailKinds /\ s \in Box
      /\ q \in Place /\ s \in Place
  <2>1. s \in Box
      BY <1>1, <1>2, <1>3, FindIs
  <2> QED  BY <1>1, <1>2, <1>5, <2>1, BoxFacts, KindFacts DEF Place
<1> HIDE DEF r, new, old
<1>7. Stem(one, q)
    BY <1>3, <1>5, <1>6 DEF Stem, Used
<1>8. ASSUME NEW b \in Box
      PROVE  b \in foliage <=> b[1] = mem.cur /\ b[2] \in TailKinds /\ Used(one, b)
  <2>1. \A t \in Tails : /\ <<mem.cur, TailVar(t)>> \in Box
                         /\ one.heap[q].index[t] = IF Used(one, <<mem.cur, TailVar(t)>>)
                                                   THEN <<mem.cur, TailVar(t)>> ELSE Nil
      BY <1>3, <1>6, <1>7, TailFound
  <2>2. ASSUME b \in foliage PROVE b[1] = mem.cur /\ b[2] \in TailKinds /\ Used(one, b)
      <3>1. PICK t \in Tails : b = one.heap[q].index[t] /\ b # Nil
          BY <2>2, BoxFacts
      <3>2. b = <<mem.cur, TailVar(t)>> /\ Used(one, b)
          BY <2>1, <3>1
      <3> QED  BY <3>2, KindFacts
  <2>3. ASSUME b[1] = mem.cur, b[2] \in TailKinds, Used(one, b) PROVE b \in foliage
      <3>1. PICK t \in Tails : b = <<mem.cur, TailVar(t)>>
          BY <2>3, BoxFacts DEF TailKinds
      <3> QED  BY <2>1, <2>3, <3>1, BoxFacts
  <2> QED  BY <2>2, <2>3
<1>9. \A b \in Box : b[1] = mem.cur /\ ~Used(one, b) => one.heap[b] = FreeBox
    BY <1>3, CurIs, FreeAt
<1> HIDE DEF foliage
<1>10. one \in Memory /\ one.heap \in [Box -> Cell] /\ FreeBox \in Cell
    BY <1>3, MemoryType DEF IInv, FreeBox, Cell, Place, Tables
<1> DEFINE e == one.heap[q]
           new1 == [e EXCEPT !.index = NoIndex, !.real = s]
<1>11. e \in Cell /\ e = [state |-> e.state, val |-> e.val, real |-> e.real, valid |-> e.valid,
                          hwired |-> e.hwired, index |-> e.index]
  <2>1. e \in Cell
      BY <1>6, <1>10
  <2> QED  BY <2>1 DEF Cell
<1>12. heap[q] = new1
    BY <1>6, <1>8
<1> HIDE DEF e
<1>13. new1 = [state |-> e.state, val |-> e.val, real |-> s, valid |-> e.valid,
               hwired |-> e.hwired, index |-> NoIndex]
  <2> DEFINE bare == [e EXCEPT !.index = NoIndex]
  <2>1. bare = [state |-> e.state, val |-> e.val, real |-> e.real, valid |-> e.valid,
                hwired |-> e.hwired, index |-> NoIndex]
      BY <1>11
  <2>2. new1 = [bare EXCEPT !.real = s]
      OBVIOUS
  <2> HIDE DEF new1, bare
  <2> QED  BY <2>1, <2>2
<1> HIDE DEF new1
<1>14. new1 \in Cell
    BY <1>6, <1>11, <1>13 DEF Cell, Tables
<1>15. \A b \in Box : b # q => heap[b] = IF b[1] = q[1] /\ b[2] \in TailKinds THEN FreeBox
                                         ELSE one.heap[b]
    BY <1>6, <1>8, <1>9
<1>16. heap \in [Box -> Cell]
  <2>1. heap = [b \in Box |-> heap[b]]
      OBVIOUS
  <2>2. \A b \in Box : heap[b] \in Cell
      BY <1>10, <1>12, <1>14, <1>15
  <2> HIDE DEF heap
  <2> QED  BY <2>1, <2>2
<1> HIDE DEF heap
<1>17. r = [heap |-> heap, lev |-> one.lev, cur |-> one.cur, next |-> one.next,
            node |-> one.node]
    BY <1>4, <1>10 DEF Memory
<1>18. SameFrame(one, r) /\ r.heap = heap
    BY <1>10, <1>16, <1>17 DEF SameFrame, Memory
<1>19. Aliased(one, q, s, r)
  <2>1. /\ r.heap[q].state = e.state /\ r.heap[q].val = e.val /\ r.heap[q].valid = e.valid
        /\ r.heap[q].hwired = e.hwired /\ r.heap[q].index = NoIndex /\ r.heap[q].real = s
      BY <1>12, <1>13, <1>18
  <2>2. \A b \in Box : b # q => r.heap[b] = IF b[1] = q[1] /\ b[2] \in TailKinds THEN FreeBox
                                            ELSE one.heap[b]
      BY <1>15, <1>18
  <2> QED  BY <1>18, <2>1, <2>2 DEF Aliased, e
<1> QED  BY <1>3, <1>5, <1>7, <1>19 DEF r

\* A stem is exposed.
LEMMA ExposeStemInv ==
    ASSUME TablesSuffice, NEW mem, IInv(mem), Fresh(mem)
    PROVE  LET r == expose_stem(mem) IN IInv(r) /\ Fresh(r)
<1> DEFINE old == Cur(mem) - 1
           new == Cur(mem)
           q == mem.lev[new].of["S"]
           one == CallerStem(mem)
           s == findsimple(one, old, "S")
           r == expose_stem(mem)
<1>1. "S" \in Names
    BY KindFacts
<1>2. /\ old \in Depths(mem) /\ new \in Depths(mem) /\ new > 1 /\ old # new /\ new \in Nat
      /\ Id(mem, new) = mem.cur /\ mem.cur \in Numbers /\ old = new - 1
    BY CallerIs
<1>3. /\ IInv(one) /\ Fresh(one) /\ Cur(one) = Cur(mem) /\ one.cur = mem.cur
      /\ Depths(one) = Depths(mem) /\ s # Nil
      /\ \A b \in Box : b[1] = mem.cur => one.heap[b] = mem.heap[b]
      /\ one.lev[new] = mem.lev[new]
    BY CallerStemIs
<1>4. CASE q = Nil
  <2> DEFINE rec == Alias(one, s)
  <2>1. r = Insert(one, new, "S", rec)
      BY <1>4 DEF expose_stem, CallerStem
  <2> HIDE DEF r, one
  <2>2. Fits(one, new, "S", rec)
      BY <1>1, <1>2, <1>3, AliasFits
  <2>3. rec.val = None
      BY AliasIs
  <2>4. one.lev[new].of["S"] = Nil
      BY <1>3, <1>4
  <2> HIDE DEF rec, new
  <2>5. new \in Depths(one)
      BY <1>2, <1>3
  <2> DEFINE ins == Insert(one, new, "S", rec)
  <2>6. IInv(ins)
      BY <1>1, <1>3, <2>2, <2>4, <2>5, InsertNew
  <2>7. Fresh(ins)
      BY <1>1, <1>3, <2>2, <2>3, <2>4, <2>5, InsertFresh
  <2> HIDE DEF ins
  <2>8. r = ins
      BY <2>1 DEF ins
  <2> QED  BY <2>6, <2>7, <2>8 DEF r
<1>5. CASE q # Nil /\ mem.heap[q].real # Nil
    BY <1>5 DEF expose_stem
<1>6. CASE q # Nil /\ mem.heap[q].real = Nil
  <2>1. /\ q = <<one.cur, <<"S">>>> /\ Stem(one, q) /\ s = findsimple(one, Cur(one) - 1, "S")
        /\ s # Nil /\ Aliased(one, q, s, r)
      BY <1>6, ExposeStemIs
  <2> HIDE DEF q, one, r, s, new, old
  <2>2. IInv(r) /\ Fresh(r)
      BY <1>3, <2>1, AliasedInv
  <2> QED  BY <2>2 DEF r
<1> QED  BY <1>4, <1>5, <1>6

\* A tail of the new stem that leads to the caller's.
LEMMA AliasFitsTail ==
    ASSUME NEW mem, IInv(mem), NEW s, Stem(mem, s), NEW s2, Stem(mem, s2), s2[1] < s[1],
           NEW t \in Tails, NEW f, f = FindTail(mem, s2, t), f # Nil
    PROVE  FitsTail(mem, s, t, Alias(mem, f))
<1> DEFINE rec == Alias(mem, f)
<1>1. rec = [state |-> "used", val |-> None, real |-> f, valid |-> mem.cur,
             hwired |-> 0, index |-> NoIndex]
    BY AliasIs
<1>2. /\ f \in Box /\ Used(mem, f) /\ mem.heap[f].real = Nil /\ f[2] = TailVar(t)
      /\ f[1] <= s2[1]
    BY TailFound
<1>3. f[1] < s[1]
  <2>1. f[1] \in Nat /\ s2[1] \in Nat /\ s[1] \in Nat
      BY <1>2, BoxFacts DEF Stem, Numbers
  <2> QED  BY <1>2, <2>1
<1>4. mem.cur \in Nat
    BY MemoryType DEF IInv
<1> HIDE DEF rec
<1>5. rec \in Cell
    BY <1>1, <1>2, <1>4 DEF Cell, Place, Tables
<1> QED  BY <1>1, <1>2, <1>3, <1>5 DEF FitsTail, rec

\* A tail without a value, or one of the caller, leaves the procedure fresh.
LEMMA TailFresh ==
    ASSUME NEW mem, IInv(mem), Fresh(mem), NEW s, Stem(mem, s), NEW t \in Tails,
           NEW rec, rec.val = None, NEW r, TailInserted(mem, s, t, rec, r)
    PROVE  Fresh(r)
<1> DEFINE b == <<s[1], TailVar(t)>>
<1>1. /\ SameFrame(mem, r) /\ r.heap[b] = rec /\ SameButIndex(r.heap[s], mem.heap[s])
      /\ \A c \in Box : c # b /\ c # s => r.heap[c] = mem.heap[c]
    BY DEF TailInserted
<1> HIDE DEF b
<1>2. \A c \in Box : r.heap[c].val = None \/ r.heap[c].val = mem.heap[c].val
    BY <1>1 DEF SameButIndex
<1>3. \A c : Held(r, c) <=> Held(mem, c)
    BY <1>1, FrameSame
<1> QED  BY <1>1, <1>2, <1>3 DEF Fresh, SameFrame

\* A compound variable is exposed: its stem leads nowhere, its tail to the
\* caller's.
LEMMA ExposeCompoundInv ==
    ASSUME TablesSuffice, NEW mem, IInv(mem), Fresh(mem), NEW tail \in Tails
    PROVE  LET r == expose_compound(mem, tail) IN IInv(r) /\ Fresh(r)
<1> DEFINE old == Cur(mem) - 1
           new == Cur(mem)
           q == mem.lev[new].of["S"]
           one == IF q # Nil THEN mem ELSE make_stem(mem, new)
           s == one.lev[new].of["S"]
           t == IF tail = "X" THEN subst_index(one, new) ELSE tail
           two == CallerStem(one)
           s2 == findsimple(two, old, "S")
           three == IF FindTail(two, s2, t) # Nil THEN two
                    ELSE InsertTail(two, s2, t, newbox(two, None, NoIndex))
           r == expose_compound(mem, tail)
<1>1. "S" \in Names /\ "X" \in Names /\ "S" # "X"
    BY KindFacts
<1>2. /\ old \in Depths(mem) /\ new \in Depths(mem) /\ new > 1 /\ old # new /\ new \in Nat
      /\ Id(mem, new) = mem.cur /\ mem.cur \in Numbers
    BY CallerIs
<1>3. CASE q # Nil /\ mem.heap[q].real # Nil
    BY <1>3 DEF expose_compound
<1>4. CASE ~(q # Nil /\ mem.heap[q].real # Nil)
  <2>1. /\ IInv(one) /\ Fresh(one) /\ Cur(one) = new /\ one.cur = mem.cur
        /\ Depths(one) = Depths(mem)
        /\ s = <<mem.cur, <<"S">>>> /\ Stem(one, s)
      <3>1. CASE q # Nil
          <4>1. one = mem
              BY <3>1
          <4>2. q = <<mem.cur, <<"S">>>> /\ Used(mem, q)
              BY <1>1, <1>2, <3>1 DEF IInv, Parts, Tabled
          <4>3. q \in Box /\ q[2] = <<"S">>
              BY <1>1, <1>2, <4>2, BoxFacts, KindFacts
          <4>4. Stem(mem, q)
              BY <1>4, <3>1, <4>2, <4>3 DEF Stem
          <4>5. s = q
              BY <4>1
          <4> HIDE DEF one, q, s
          <4> QED  BY <4>1, <4>2, <4>4, <4>5
      <3>2. CASE q = Nil
          <4> DEFINE rec == newbox(mem, None, NoTails)
                     ins == Insert(mem, new, "S", rec)
          <4>1. one = ins
              BY <3>2 DEF make_stem
          <4>2. Fits(mem, new, "S", rec) /\ rec.val = None
              BY <1>1, NewboxFits, NewboxIs
          <4> HIDE DEF rec
          <4>3. /\ IInv(ins) /\ Cur(ins) = Cur(mem) /\ ins.cur = mem.cur
                /\ Depths(ins) = Depths(mem) /\ Id(ins, new) = Id(mem, new)
                /\ Stem(ins, <<Id(mem, new), <<"S">>>>)
              BY <1>2, <3>2, MakeStem DEF rec
          <4>4. Fresh(ins)
              BY <1>1, <1>2, <3>2, <4>2, InsertFresh
          <4> HIDE DEF ins, new
          <4>5. ins.lev[new].of["S"] = <<mem.cur, <<"S">>>>
              BY <1>1, <1>2, <4>3 DEF IInv, Parts, Tabled, Stem
          <4>6. s = ins.lev[new].of["S"]
              BY <4>1
          <4> HIDE DEF one, s
          <4> QED  BY <1>2, <4>1, <4>3, <4>4, <4>5, <4>6 DEF new
      <3> QED  BY <3>1, <3>2
  <2>2. r = IF one.heap[s].index[t] # Nil THEN one
            ELSE InsertTail(three, s, t, Alias(three, FindTail(three, s2, t)))
      <3>1. two = IF findsimple(one, old, "S") # Nil THEN one ELSE make_stem(one, old)
          BY <2>1 DEF CallerStem
      <3> QED  BY <1>4, <3>1 DEF expose_compound
  <2> HIDE DEF r, one, s
  <2>3. t \in Tails
      <3> DEFINE b == findsimple(one, new, "X")
      <3>1. b # Nil => b \in Box /\ b[2] = <<"X">>
          BY <1>1, <1>2, <2>1, FindIs
      <3> HIDE DEF b
      <3>2. b # Nil => one.heap[b].val \in Tails \union {None}
          BY <2>1, <3>1 DEF IInv, Parts, Boxed
      <3>3. subst_index(one, new) \in Tails
          BY <3>2, PoolAssumption DEF subst_index, b
      <3> QED  BY <3>3
  <2> HIDE DEF t
  <2>4. /\ IInv(two) /\ Fresh(two) /\ Cur(two) = new /\ two.cur = mem.cur
        /\ Stem(two, s2) /\ s2[1] < mem.cur /\ s2[1] # mem.cur
        /\ \A b \in Box : b[1] = mem.cur => two.heap[b] = one.heap[b]
      BY <2>1, CallerStemIs
  <2>5. s \in Box /\ s[1] = mem.cur /\ s # s2
      BY <1>2, <2>1, <2>4 DEF Stem
  <2> HIDE DEF two, s2
  <2>6. Stem(two, s) /\ two.heap[s] = one.heap[s]
      BY <2>1, <2>4, <2>5 DEF Stem, Used
  <2>7. /\ IInv(three) /\ Fresh(three) /\ Stem(three, s2) /\ Stem(three, s)
        /\ three.heap[s] = one.heap[s] /\ FindTail(three, s2, t) # Nil
      <3>1. CASE FindTail(two, s2, t) # Nil
          <4>1. three = two
              BY <3>1
          <4> HIDE DEF three
          <4> QED  BY <2>4, <2>6, <3>1, <4>1
      <3>2. CASE FindTail(two, s2, t) = Nil
          <4> DEFINE rec == newbox(two, None, NoIndex)
                     b == <<s2[1], TailVar(t)>>
          <4>1. three = InsertTail(two, s2, t, rec)
              BY <3>2
          <4>2. rec = [state |-> "used", val |-> None, real |-> Nil, valid |-> two.cur,
                       hwired |-> 0, index |-> NoIndex]
              BY NewboxIs
          <4>3. two.cur \in Nat /\ NoIndex \in Tables /\ Nil \in Place
              BY <2>4, MemoryType DEF IInv, Tables, Place
          <4> HIDE DEF rec, three
          <4>4. rec \in Cell /\ FitsTail(two, s2, t, rec) /\ rec.val = None /\ rec.state = "used"
              BY <4>2, <4>3 DEF Cell, FitsTail
          <4>5. TailInserted(two, s2, t, rec, three)
              BY <2>3, <2>4, <4>1, <4>4, InsertTailIs
          <4>6. two.heap[s2].index[t] = Nil /\ b \in Box
              BY <2>3, <2>4, <3>2, TailFound
          <4>7. IInv(three) /\ Stem(three, s2)
              BY <2>3, <2>4, <4>4, <4>5, <4>6, TailInsertedInv
          <4>8. Fresh(three)
              BY <2>3, <2>4, <4>4, <4>5, TailFresh
          <4>9. three.heap[b] = rec /\ s # b /\ three.heap[s] = two.heap[s]
              <5>1. b[1] # s[1]
                  BY <2>4, <2>5
              <5>2. s # b
                  BY <5>1
              <5> QED  BY <2>5, <4>5, <5>2 DEF TailInserted
          <4>10. FindTail(three, s2, t) # Nil
              BY <2>3, <4>4, <4>7, <4>9, TailFound DEF Used
          <4> QED  BY <2>6, <4>7, <4>8, <4>9, <4>10 DEF Stem, Used
      <3> QED  BY <3>1, <3>2
  <2> HIDE DEF three
  <2>8. CASE one.heap[s].index[t] # Nil
      BY <2>1, <2>2, <2>8 DEF r
  <2>9. CASE one.heap[s].index[t] = Nil
      <3> DEFINE f == FindTail(three, s2, t)
                 rec == Alias(three, f)
      <3>1. FitsTail(three, s, t, rec) /\ rec.val = None
          <4>1. s2[1] < s[1]
              BY <2>4, <2>5
          <4>2. FitsTail(three, s, t, rec)
              BY <2>3, <2>7, <4>1, AliasFitsTail
          <4> QED  BY <4>2, AliasIs
      <3>2. r = InsertTail(three, s, t, rec)
          BY <2>2, <2>9
      <3> HIDE DEF rec
      <3>3. TailInserted(three, s, t, rec, r)
          BY <2>3, <2>7, <3>1, <3>2, InsertTailIs DEF FitsTail
      <3>4. IInv(r)
          BY <2>3, <2>7, <2>9, <3>1, <3>3, TailInsertedInv
      <3>5. Fresh(r)
          BY <2>3, <2>7, <3>1, <3>3, TailFresh
      <3> QED  BY <3>4, <3>5 DEF r
  <2> QED  BY <2>8, <2>9
<1> QED  BY <1>3, <1>4

-----------------------------------------------------------------------------
(* The list of a PROCEDURE. *)

\* The names a list may hold.
Exposable == {<<n>> : n \in Simples \union {"S"}} \union {<<"S", t>> : t \in Tails}

\* A name of PROCEDURE EXPOSE, of any kind of variable.
LEMMA ExposeInv ==
    ASSUME TablesSuffice, NEW mem, IInv(mem), Fresh(mem), NEW x \in Exposable
    PROVE  LET r == expose_var(mem, x) IN IInv(r) /\ Fresh(r)
<1>1. CASE \E n \in Simples : x = <<n>>
  <2>1. PICK n \in Simples : x = <<n>>
      BY <1>1
  <2>2. n # "S" /\ x[1] = n /\ x # <<"S">>
      BY <2>1, KindFacts
  <2>3. expose_var(mem, x) = expose_simple(mem, n)
      BY <2>2 DEF expose_var
  <2> QED  BY <2>3, ExposeSimpleInv
<1>2. CASE x = <<"S">>
  <2>1. expose_var(mem, x) = expose_stem(mem)
      BY <1>2 DEF expose_var
  <2> QED  BY <2>1, ExposeStemInv
<1>3. CASE \E t \in Tails : x = <<"S", t>>
  <2>1. PICK t \in Tails : x = <<"S", t>>
      BY <1>3
  <2>2. x[1] = "S" /\ x # <<"S">> /\ x[2] = t
      BY <2>1
  <2>3. expose_var(mem, x) = expose_compound(mem, t)
      BY <2>2 DEF expose_var
  <2> QED  BY <2>3, ExposeCompoundInv
<1> QED  BY <1>1, <1>2, <1>3 DEF Exposable

\* A set of numbers that is not empty has a least one.
LEMMA LeastNat ==
    ASSUME NEW T, T \subseteq Nat, T # {}
    PROVE  \E least \in T : \A k \in T : least <= k
<1> DEFINE R == {p \in Nat \X Nat : p[1] < p[2]}
<1>1. IsWellFoundedOn(R, Nat)
    BY NatLessThanWellFounded DEF R, OpToRel
<1>2. PICK least \in T : \A k \in T : <<k, least>> \notin R
    BY <1>1, WFMin
<1>3. \A k \in T : ~(k < least)
    BY <1>2
<1>4. least \in Nat /\ \A k \in T : k \in Nat
    OBVIOUS
<1>5. \A k \in T : least <= k
    BY <1>3, <1>4
<1> QED  BY <1>5

\* The memory after the first names of a list: f is the function exposed is defined by.
Exposing(mem, list, n, f) ==
  f = [i \in 0 .. n |-> IF i = 0 THEN create_new_varpool(mem)
                        ELSE expose_var(f[i - 1], list[i])]

\* That function exists.
LEMMA ExposingSteps ==
    ASSUME NEW mem, NEW list, NEW n \in Nat
    PROVE  \E f : Exposing(mem, list, n, f)
<1> DEFINE Start == create_new_varpool(mem)
           Made(k) == \E f : f = [i \in 0 .. k |-> IF i = 0 THEN Start
                                                   ELSE expose_var(f[i - 1], list[i])]
           T == {k \in Nat : ~Made(k)}
<1> HIDE DEF Start
<1>1. SUFFICES ASSUME T # {}  PROVE FALSE
    BY DEF Start, Exposing
<1>2. PICK k \in T : \A j \in T : k <= j
  <2>1. T \subseteq Nat
      OBVIOUS
  <2> HIDE DEF T
  <2> QED  BY <1>1, <2>1, LeastNat
<1>3. CASE k = 0
  <2> DEFINE f == [i \in 0 .. 0 |-> Start]
  <2>1. f = [i \in 0 .. 0 |-> IF i = 0 THEN Start ELSE expose_var(f[i - 1], list[i])]
      OBVIOUS
  <2> QED  BY <1>2, <1>3, <2>1
<1>4. CASE k > 0
  <2>1. k \in Nat
      BY <1>2
  <2>2. k - 1 \in Nat /\ k - 1 \notin T
      <3>1. k - 1 \in Nat /\ ~(k <= k - 1)
          BY <2>1, <1>4
      <3> HIDE DEF T
      <3> QED  BY <3>1, <1>2
  <2>3. PICK f : f = [i \in 0 .. k - 1 |-> IF i = 0 THEN Start ELSE expose_var(f[i - 1], list[i])]
      BY <2>2
  <2> DEFINE h == [i \in 0 .. k |-> IF i < k THEN f[i] ELSE expose_var(f[k - 1], list[k])]
  <2>4. ASSUME NEW i \in 0 .. k
        PROVE  h[i] = IF i = 0 THEN Start ELSE expose_var(h[i - 1], list[i])
      <3> HIDE DEF T
      <3>1. CASE i = k
          <4>1. k - 1 \in 0 .. k /\ k - 1 < k
              BY <2>1, <2>2
          <4> QED  BY <3>1, <4>1, <1>4
      <3>2. CASE i # k
          <4>1. i \in 0 .. k - 1 /\ i < k
              BY <3>2, <2>1, <2>2
          <4>2. h[i] = f[i] /\ (i # 0 => i - 1 \in 0 .. k /\ i - 1 < k)
              BY <4>1, <2>1, <2>2
          <4>3. i # 0 => h[i - 1] = f[i - 1]
              BY <4>2
          <4>4. f[i] = IF i = 0 THEN Start ELSE expose_var(f[i - 1], list[i])
              BY <2>3, <4>1
          <4> HIDE DEF h
          <4> QED  BY <4>2, <4>3, <4>4
      <3> QED  BY <3>1, <3>2
  <2>5. h = [i \in 0 .. k |-> h[i]]
      OBVIOUS
  <2> HIDE DEF h
  <2>6. h = [i \in 0 .. k |-> IF i = 0 THEN Start ELSE expose_var(h[i - 1], list[i])]
      BY <2>4, <2>5
  <2> QED  BY <1>2, <2>6
<1> QED  BY <1>2, <1>3, <1>4

\* A list of names is exposed in a new procedure.
LEMMA ExposedInv ==
    ASSUME TablesSuffice, NEW mem, IInv(mem), mem.next <= MaxId, NEW list \in Seq(Exposable)
    PROVE  IInv(exposed(mem, list))
<1> DEFINE n == Len(list)
           after == CHOOSE f : Exposing(mem, list, n, f)
           Good(i) == IInv(after[i]) /\ Fresh(after[i])
           T == {i \in 0 .. n : ~Good(i)}
<1>1. n \in Nat /\ exposed(mem, list) = after[n] /\ \A i \in 1 .. n : list[i] \in Exposable
    BY DEF exposed, Exposing
<1> HIDE DEF n
<1>2. after = [i \in 0 .. n |-> IF i = 0 THEN create_new_varpool(mem)
                                ELSE expose_var(after[i - 1], list[i])]
  <2>1. n \in Nat
      BY <1>1
  <2>2. Exposing(mem, list, n, after)
      BY <2>1, ExposingSteps
  <2> HIDE DEF after
  <2> QED  BY <2>2 DEF Exposing
<1> HIDE DEF after
<1>3. T = {}
  <2>1. SUFFICES ASSUME T # {} PROVE FALSE
      OBVIOUS
  <2>2. PICK i \in T : \A j \in T : i <= j
      <3>1. T \subseteq Nat
          BY <1>1
      <3> HIDE DEF T
      <3> QED  BY <2>1, <3>1, LeastNat
  <2>3. i \in Nat /\ i \in 0 .. n /\ ~Good(i)
      BY <1>1, <2>2
  <2>4. CASE i = 0
      <3>1. after[0] = create_new_varpool(mem)
          BY <1>1, <1>2
      <3>2. Good(0)
          BY <3>1, CreateIs, CalledInv
      <3> QED  BY <2>3, <2>4, <3>2
  <2>5. CASE i # 0
      <3>1. i - 1 \in 0 .. n /\ ~(i <= i - 1) /\ i \in 1 .. n
          BY <1>1, <2>3, <2>5
      <3>2. i - 1 \notin T
          <4> HIDE DEF T
          <4> QED  BY <3>1, <2>2
      <3>3. Good(i - 1)
          BY <3>1, <3>2
      <3>4. after[i] = expose_var(after[i - 1], list[i])
          BY <1>2, <2>3, <2>5
      <3>5. list[i] \in Exposable
          BY <1>1, <3>1
      <3>6. Good(i)
          BY <3>3, <3>4, <3>5, ExposeInv
      <3> QED  BY <2>3, <3>6
  <2> QED  BY <2>4, <2>5
<1>4. Good(n)
  <2>1. n \in 0 .. n
      BY <1>1
  <2> QED  BY <2>1, <1>3
<1> QED  BY <1>1, <1>4

-----------------------------------------------------------------------------
(* A procedure ends. *)

\* What a procedure's tables hold are its boxes in use.
LEMMA DeadIs ==
    ASSUME NEW mem, IInv(mem), NEW d \in Depths(mem), NEW b
    PROVE  b \in Dead(mem, d) <=> b \in Box /\ b[1] = Id(mem, d) /\ Used(mem, b)
<1> DEFINE a == Id(mem, d)
           own == {mem.lev[d].of[n] : n \in Names} \ {Nil}
           stems == {c \in own : mem.heap[c].index # NoIndex}
           tails == {mem.heap[c].index[t] : c \in stems, t \in Tails} \ {Nil}
           s == <<a, <<"S">>>>
<1>1. Dead(mem, d) = own \union tails
    BY DEF Dead
<1>2. a \in Numbers /\ s \in Box /\ s[1] = a /\ s[2] = <<"S">> /\ "S" \in Names
    BY MemoryType, BoxFacts, KindFacts DEF IInv
<1>3. \A n \in Names : /\ <<a, <<n>>>> \in Box /\ <<a, <<n>>>> # Nil
                       /\ mem.lev[d].of[n] = IF Used(mem, <<a, <<n>>>>) THEN <<a, <<n>>>> ELSE Nil
    BY <1>2, BoxFacts, KindFacts DEF IInv, Parts, Tabled
<1>4. \A t \in Tails : <<a, TailVar(t)>> \in Box /\ <<a, TailVar(t)>> # Nil
    BY <1>2, BoxFacts, KindFacts
<1> HIDE DEF a
<1>5. ASSUME NEW c, c \in own
      PROVE  \E n \in Names : c = <<a, <<n>>>> /\ Used(mem, c) /\ c \in Box /\ c[2] = <<n>>
  <2>1. PICK n \in Names : c = mem.lev[d].of[n] /\ c # Nil
      BY <1>5
  <2>2. c = <<a, <<n>>>> /\ Used(mem, c) /\ c \in Box
      BY <1>3, <2>1
  <2> QED  BY <2>2
<1>6. \A c \in stems : c = s
  <2>1. TAKE c \in stems
  <2>2. PICK n \in Names : c = <<a, <<n>>>> /\ c \in Box
      BY <1>5
  <2>3. c[2] = <<"S">>
      BY <2>2 DEF IInv, Parts, Tabled
  <2> QED  BY <2>2, <2>3 DEF s
<1>7. mem.heap[s].index # NoIndex => \A t \in Tails : mem.heap[s].index[t] =
            IF Used(mem, <<a, TailVar(t)>>) THEN <<a, TailVar(t)>> ELSE Nil
    BY <1>2 DEF IInv, Parts, Tabled
<1>8. ASSUME NEW c, c \in tails
      PROVE  c \in Box /\ c[1] = a /\ Used(mem, c)
  <2>1. PICK e \in stems, t \in Tails : c = mem.heap[e].index[t] /\ c # Nil
      BY <1>8
  <2>2. e = s /\ mem.heap[s].index # NoIndex
      BY <1>6, <2>1
  <2>3. c = <<a, TailVar(t)>> /\ Used(mem, c)
      BY <1>7, <2>1, <2>2
  <2> QED  BY <1>4, <2>3
<1>9. ASSUME b \in Box, b[1] = a, Used(mem, b) PROVE b \in own \union tails
  <2>1. b[2] \in Kinds /\ b = <<a, b[2]>>
      BY <1>9, BoxFacts
  <2>2. CASE b[2] \in NameKinds
      <3>1. PICK n \in Names : b = <<a, <<n>>>>
          BY <2>1, <2>2 DEF NameKinds
      <3>2. mem.lev[d].of[n] = b /\ b # Nil
          BY <1>3, <1>9, <3>1
      <3> QED  BY <3>2
  <2>3. CASE b[2] \in TailKinds
      <3>1. PICK t \in Tails : b = <<a, TailVar(t)>>
          BY <2>1, <2>3 DEF TailKinds
      <3>2. mem.heap[s].index # NoIndex
          BY <1>2, <1>9, <3>1 DEF IInv, Parts, Tabled
      <3>3. mem.heap[s].index[t] = b /\ b # Nil
          BY <1>4, <1>7, <1>9, <3>1, <3>2
      <3>4. Used(mem, s)
          BY <1>2, <3>2 DEF IInv, Parts, Tabled
      <3>5. mem.lev[d].of["S"] = s /\ s # Nil
          BY <1>2, <1>3, <3>4
      <3>6. s \in own
          BY <1>2, <3>5
      <3>7. s \in stems
          BY <3>2, <3>6
      <3> HIDE DEF stems, own
      <3> QED  BY <3>3, <3>7
  <2> QED  BY <2>1, <2>2, <2>3 DEF Kinds
<1>10. ASSUME b \in own PROVE b \in Box /\ b[1] = a /\ Used(mem, b)
  <2>1. PICK n \in Names : b = <<a, <<n>>>> /\ Used(mem, b) /\ b \in Box
      BY <1>5, <1>10
  <2> QED  BY <2>1
<1> HIDE DEF own, tails, stems
<1> QED  BY <1>1, <1>8, <1>9, <1>10 DEF a

\* The running procedure ends, and its caller goes on.
Ended(mem, r) ==
  LET last == Len(mem.lev) IN
  /\ r \in Memory
  /\ r.next = mem.next /\ r.node = mem.node /\ r.cur = Id(mem, last - 1)
  /\ Len(r.lev) = last - 1 /\ \A d \in 1 .. last - 1 : r.lev[d] = mem.lev[d]
  /\ \A b \in Box : r.heap[b] = IF b[1] # mem.cur THEN mem.heap[b]
                                ELSE IF Held(mem, b) THEN Hollow(1) ELSE FreeBox

\* The end of a procedure keeps the invariant.
LEMMA EndedInv ==
    ASSUME NEW mem, IInv(mem), Len(mem.lev) > 1, NEW r, Ended(mem, r)
    PROVE  IInv(r)
<1> DEFINE last == Len(mem.lev)
<1>1. /\ last \in Nat /\ last > 1 /\ last - 1 \in Nat /\ last - 1 \in Depths(mem)
      /\ last \in Depths(mem) /\ Id(mem, last) = mem.cur /\ mem.cur \in Ids(mem)
      /\ mem.cur \in Numbers /\ mem.cur < mem.next
  <2>1. last \in Nat
      BY MemoryType DEF IInv
  <2> QED  BY <2>1, CurIs DEF Depths
<1>2. /\ r \in Memory
      /\ r.next = mem.next /\ r.node = mem.node /\ r.cur = Id(mem, last - 1)
      /\ Len(r.lev) = last - 1 /\ \A d \in 1 .. last - 1 : r.lev[d] = mem.lev[d]
      /\ \A b \in Box : r.heap[b] = IF b[1] # mem.cur THEN mem.heap[b]
                                    ELSE IF Held(mem, b) THEN Hollow(1) ELSE FreeBox
    BY DEF Ended
<1>3. /\ Depths(r) = 1 .. last - 1
      /\ \A d \in Depths(r) : d \in Depths(mem) /\ d # last /\ Id(r, d) = Id(mem, d)
                              /\ r.lev[d] = mem.lev[d] /\ Id(mem, d) # mem.cur
  <2>1. /\ Depths(r) = 1 .. last - 1
        /\ \A d \in Depths(r) : d \in Depths(mem) /\ d # last /\ Id(r, d) = Id(mem, d)
                              /\ r.lev[d] = mem.lev[d]
      BY <1>1, <1>2 DEF Depths, Id
  <2> QED  BY <1>1, <2>1, CurIs
<1>4. \A c : c \in Ids(r) <=> c \in Ids(mem) /\ c # mem.cur
  <2>1. \A c \in Ids(r) : c \in Ids(mem) /\ c # mem.cur
      BY <1>3 DEF Ids
  <2>2. ASSUME NEW c \in Ids(mem), c # mem.cur PROVE c \in Ids(r)
      <3>1. PICK d \in Depths(mem) : c = Id(mem, d)
          BY DEF Ids
      <3>2. d \in 1 .. last - 1
          BY <1>1, <2>2, <3>1 DEF Depths
      <3> QED  BY <1>3, <3>1, <3>2 DEF Ids
  <2> QED  BY <2>1, <2>2
<1> HIDE DEF last
<1>5. ASSUME NEW b \in Box
      PROVE  /\ b[1] # mem.cur => r.heap[b] = mem.heap[b] /\ (Used(r, b) <=> Used(mem, b))
             /\ b[1] = mem.cur => /\ r.heap[b].state # "used" /\ ~Used(r, b)
                                  /\ r.heap[b].real = Nil /\ r.heap[b].index = NoIndex
                                  /\ r.heap[b].val = None /\ r.heap[b].valid = 0
                                  /\ Held(mem, b) => r.heap[b] = Hollow(1)
                                                     /\ r.heap[b].state = "hollow"
                                                     /\ r.heap[b].hwired = 1
                                  /\ ~Held(mem, b) => r.heap[b] = FreeBox
                                                     /\ r.heap[b].state = "free"
                                                     /\ r.heap[b].hwired = 0
  <2>1. CASE b[1] # mem.cur
      BY <1>2, <2>1 DEF Used
  <2>2. CASE b[1] = mem.cur /\ Held(mem, b)
      BY <1>2, <2>2, HollowIs DEF Used
  <2>3. CASE b[1] = mem.cur /\ ~Held(mem, b)
      BY <1>2, <2>3 DEF Used, FreeBox
  <2> QED  BY <2>1, <2>2, <2>3
<1>6. \A b : Held(r, b) <=> Held(mem, b)
    BY <1>2 DEF Held
<1>7. Numbered(r)
  <2>1. /\ Len(r.lev) > 0 /\ r.next > 3 /\ r.cur = Id(r, Len(r.lev))
      <3>1. last - 1 \in Depths(r)
          BY <1>1, <1>3
      <3> QED  BY <1>1, <1>2, <1>3, <3>1 DEF IInv, Parts, Numbered
  <2>2. \A d, e \in Depths(r) : d < e => Id(r, d) < Id(r, e)
      BY <1>3 DEF IInv, Parts, Numbered
  <2>3. ASSUME NEW d \in Depths(r)
        PROVE  /\ Id(r, d) < r.next
               /\ r.lev[d].saved = IF d = 1 THEN 2 ELSE Id(r, d - 1)
               /\ r.lev[d].size = InitSize
               /\ r.lev[d].elements = Cardinality({n \in Names : r.lev[d].of[n] # Nil})
      <3>1. d # 1 => d - 1 \in Depths(r)
          BY <1>1, <1>3
      <3>2. d \in Depths(mem) /\ r.lev[d] = mem.lev[d] /\ Id(r, d) = Id(mem, d)
            /\ (d # 1 => Id(r, d - 1) = Id(mem, d - 1))
          BY <1>3, <3>1
      <3>3. /\ Id(mem, d) < mem.next
            /\ mem.lev[d].saved = IF d = 1 THEN 2 ELSE Id(mem, d - 1)
            /\ mem.lev[d].size = InitSize
            /\ mem.lev[d].elements = Cardinality({n \in Names : mem.lev[d].of[n] # Nil})
          BY <3>2 DEF IInv, Parts, Numbered
      <3>4. r.next = mem.next
          BY <1>2
      <3> QED  BY <3>2, <3>3, <3>4
  <2> QED  BY <2>1, <2>2, <2>3 DEF Numbered
<1>8. Tabled(r)
  <2>1. ASSUME NEW d \in Depths(r), NEW n \in Names
        PROVE  r.lev[d].of[n] =
                   IF Used(r, <<Id(r, d), <<n>>>>) THEN <<Id(r, d), <<n>>>> ELSE Nil
      <3> DEFINE b == <<Id(mem, d), <<n>>>>
      <3>1. b \in Box /\ b[1] # mem.cur
          BY <1>3, BoxFacts, KindFacts, MemoryType DEF IInv
      <3>2. mem.lev[d].of[n] = IF Used(mem, b) THEN b ELSE Nil
          BY <1>3 DEF IInv, Parts, Tabled
      <3>3. Used(r, b) <=> Used(mem, b)
          BY <1>5, <3>1
      <3> QED  BY <1>3, <3>2, <3>3
  <2>2. ASSUME NEW b \in Box
        PROVE  /\ r.heap[b].index # NoIndex <=> b[2] = <<"S">> /\ Used(r, b) /\ r.heap[b].real = Nil
               /\ r.heap[b].index # NoIndex => \A t \in Tails :
                    r.heap[b].index[t] =
                        IF Used(r, <<b[1], TailVar(t)>>) THEN <<b[1], TailVar(t)>> ELSE Nil
      <3>1. CASE b[1] = mem.cur
          BY <1>5, <3>1
      <3>2. CASE b[1] # mem.cur
          <4>1. \A t \in Tails : <<b[1], TailVar(t)>> \in Box
              BY BoxFacts, KindFacts
          <4>2. \A t \in Tails : Used(r, <<b[1], TailVar(t)>>) <=> Used(mem, <<b[1], TailVar(t)>>)
              BY <1>5, <3>2, <4>1
          <4>3. r.heap[b] = mem.heap[b] /\ (Used(r, b) <=> Used(mem, b))
              BY <1>5, <3>2
          <4> QED  BY <4>2, <4>3 DEF IInv, Parts, Tabled
      <3> QED  BY <3>1, <3>2
  <2>3. ASSUME NEW a \in Numbers, NEW t \in Tails, Used(r, <<a, TailVar(t)>>)
        PROVE  r.heap[<<a, <<"S">>>>].index # NoIndex
      <3>1. <<a, TailVar(t)>> \in Box /\ <<a, <<"S">>>> \in Box
          BY BoxFacts, KindFacts
      <3>2. a # mem.cur /\ Used(mem, <<a, TailVar(t)>>)
          BY <1>5, <2>3, <3>1
      <3>3. r.heap[<<a, <<"S">>>>] = mem.heap[<<a, <<"S">>>>]
          BY <1>5, <3>1, <3>2
      <3> QED  BY <3>2, <3>3 DEF IInv, Parts, Tabled
  <2> QED  BY <2>1, <2>2, <2>3 DEF Tabled
<1>9. Boxed(r)
  <2>1. ASSUME NEW b \in Box
        PROVE  /\ r.heap[b].state = "free" => r.heap[b] = FreeBox
               /\ r.heap[b].state \notin {"free", "used"} =>
                     r.heap[b] \in Empty /\ b[1] < r.next /\ b[1] \notin Ids(r)
               /\ Used(r, b) => /\ b[1] \in Ids(r) /\ r.heap[b].valid >= b[1]
                                /\ r.heap[b].valid < r.next
               /\ b[2] = <<"X">> => r.heap[b].val \in Tails \union {None}
      <3>1. CASE b[1] = mem.cur
          <4>1. b[1] < r.next /\ b[1] \notin Ids(r)
              BY <1>1, <1>2, <1>4, <3>1
          <4> QED  BY <1>5, <3>1, <4>1 DEF Empty
      <3>2. CASE b[1] # mem.cur
          BY <1>2, <1>4, <1>5, <3>2 DEF IInv, Parts, Boxed
      <3> QED  BY <3>1, <3>2
  <2> QED  BY <2>1 DEF Boxed
<1>10. Leads(r)
  <2>1. ASSUME NEW b \in Box, r.heap[b].real # Nil
        PROVE  LET q == r.heap[b].real IN
               /\ r.heap[b].val = None /\ r.heap[b].index = NoIndex
               /\ q \in Box /\ q[2] = b[2] /\ q[1] < b[1]
               /\ Used(r, q) /\ r.heap[q].real = Nil
               /\ b[2] \in NameKinds => \A c \in Ids(r) :
                     q[1] < c /\ c < b[1] => r.heap[<<c, b[2]>>].real = q
      <3> DEFINE q == mem.heap[b].real
      <3>1. b[1] # mem.cur /\ r.heap[b] = mem.heap[b] /\ q # Nil
          BY <1>5, <2>1
      <3>2. /\ mem.heap[b].val = None /\ mem.heap[b].index = NoIndex
            /\ q \in Box /\ q[2] = b[2] /\ q[1] < b[1]
            /\ Used(mem, q) /\ mem.heap[q].real = Nil
            /\ b[2] \in NameKinds => \A c \in Ids(mem) :
                     q[1] < c /\ c < b[1] => mem.heap[<<c, b[2]>>].real = q
          BY <3>1 DEF IInv, Parts, Leads
      <3> HIDE DEF q
      <3>3. q[1] # mem.cur
          <4>1. Used(mem, b)
              BY <3>1, LeadingUsed DEF q
          <4>2. b[1] \in Ids(mem) /\ b[1] <= mem.cur
              BY <4>1, CurIs DEF IInv, Parts, Boxed
          <4>3. q[1] \in Nat /\ b[1] \in Nat /\ mem.cur \in Nat
              BY <1>1, <3>2, BoxFacts DEF Numbers
          <4> QED  BY <3>2, <4>2, <4>3
      <3>4. Used(r, q) /\ r.heap[q].real = Nil
          BY <1>5, <3>2, <3>3
      <3>5. ASSUME b[2] \in NameKinds, NEW c \in Ids(r), q[1] < c, c < b[1]
            PROVE  r.heap[<<c, b[2]>>].real = q
          <4>1. c \in Ids(mem) /\ c # mem.cur /\ <<c, b[2]>> \in Box
              BY <1>4, BoxFacts, MemoryType DEF IInv
          <4>2. r.heap[<<c, b[2]>>] = mem.heap[<<c, b[2]>>]
              BY <1>5, <4>1
          <4> QED  BY <3>2, <3>5, <4>1, <4>2
      <3>6. r.heap[b].real = q /\ r.heap[b].val = None /\ r.heap[b].index = NoIndex
          BY <3>1, <3>2 DEF q
      <3> QED  BY <3>2, <3>4, <3>5, <3>6
  <2> QED  BY <2>1 DEF Leads
<1>11. Pointed(r)
  <2>1. ASSUME NEW b \in Box PROVE r.heap[b].hwired = IF Held(r, b) THEN 1 ELSE 0
      <3>1. CASE b[1] = mem.cur
          BY <1>5, <1>6, <3>1
      <3>2. CASE b[1] # mem.cur
          BY <1>5, <1>6, <3>2 DEF IInv, Parts, Pointed
      <3> QED  BY <3>1, <3>2
  <2>2. ASSUME NEW nd \in Nodes, r.node[nd] # Nil
        PROVE  LET b == r.node[nd] IN
               /\ b[2] = <<NodeName(nd)>> /\ r.heap[b].state # "free" /\ r.heap[b].real = Nil
               /\ \A c \in Ids(r) : r.heap[b].valid = c =>
                     Used(r, <<c, b[2]>>) /\ Root(r, <<c, b[2]>>) = b
      <3> DEFINE b == mem.node[nd]
      <3>1. b \in Box /\ b # Nil /\ r.node[nd] = b /\ Held(mem, b)
          BY <1>2, <2>2, MemoryType DEF IInv, Place, Held
      <3>2. /\ b[2] = <<NodeName(nd)>> /\ mem.heap[b].state # "free" /\ mem.heap[b].real = Nil
            /\ \A c \in Ids(mem) : mem.heap[b].valid = c =>
                     Used(mem, <<c, b[2]>>) /\ Root(mem, <<c, b[2]>>) = b
          BY <3>1 DEF IInv, Parts, Pointed
      <3> HIDE DEF b
      <3>3. \A c \in Ids(r) : c # 0
          BY <1>4, CurIs
      <3>4. CASE b[1] = mem.cur
          BY <1>5, <3>1, <3>2, <3>3, <3>4
      <3>5. CASE b[1] # mem.cur
          <4>1. r.heap[b] = mem.heap[b]
              BY <1>5, <3>1, <3>5
          <4>2. ASSUME NEW c \in Ids(r)
                PROVE  /\ Used(r, <<c, b[2]>>) <=> Used(mem, <<c, b[2]>>)
                       /\ Root(r, <<c, b[2]>>) = Root(mem, <<c, b[2]>>) /\ c \in Ids(mem)
              <5>1. c \in Ids(mem) /\ c # mem.cur /\ <<c, b[2]>> \in Box
                  BY <1>4, <3>1, BoxFacts, MemoryType DEF IInv
              <5> QED  BY <1>5, <5>1 DEF Root
          <4> QED  BY <3>1, <3>2, <4>1, <4>2
      <3> QED  BY <3>4, <3>5
  <2> QED  BY <2>1, <2>2 DEF Pointed
<1> QED  BY <1>2, <1>7, <1>8, <1>9, <1>10, <1>11 DEF IInv, Parts

\* kill_variables ends a procedure, whatever boxes the nodes still point at.
LEMMA KilledIs ==
    ASSUME NEW mem, IInv(mem), Len(mem.lev) > 1, NEW r \in kill_variables(mem)
    PROVE  Ended(mem, r)
<1> DEFINE last == Len(mem.lev)
           number == Id(mem, last - 1)
<1>1. /\ last \in Nat /\ last > 1 /\ last - 1 \in Nat /\ last - 1 \in Depths(mem)
      /\ last \in Depths(mem) /\ Cur(mem) = last /\ Id(mem, last) = mem.cur
      /\ number \in Numbers /\ mem \in Memory /\ mem.lev \in Seq(Level)
      /\ mem.heap \in [Box -> Cell] /\ mem.cur \in Ids(mem)
  <2>1. last \in Nat /\ mem \in Memory /\ mem.lev \in Seq(Level) /\ mem.heap \in [Box -> Cell]
      BY MemoryType DEF IInv
  <2>2. last - 1 \in Depths(mem) /\ last \in Depths(mem)
      BY <2>1 DEF Depths
  <2> QED  BY <2>1, <2>2, CurIs, MemoryType DEF IInv
<1>2. mem.lev[last].saved = number
  <2>1. \A d \in Depths(mem) : mem.lev[d].saved = IF d = 1 THEN 2 ELSE Id(mem, d - 1)
      BY DEF IInv, Parts, Numbered
  <2> HIDE DEF last
  <2> QED  BY <1>1, <2>1
<1> HIDE DEF number
<1>3. number # Lost /\ number # 1 /\ number \in Nat
    BY <1>1, PoolAssumption DEF Numbers, Lost
<1>4. r = killed(mem, number)
    BY <1>1, <1>2, <1>3 DEF kill_variables
<1> DEFINE heap == [b \in Box |-> IF b \notin Dead(mem, Cur(mem)) THEN mem.heap[b]
                                  ELSE IF mem.heap[b].hwired > 0 THEN Hollow(mem.heap[b].hwired)
                                  ELSE FreeBox]
           lev == SubSeq(mem.lev, 1, last - 1)
<1>5. r = [mem EXCEPT !.heap = heap, !.lev = lev, !.cur = number, !.next = mem.next]
    BY <1>1, <1>3, <1>4 DEF killed
<1>6. lev \in Seq(Level) /\ Len(lev) = last - 1 /\ \A d \in 1 .. last - 1 : lev[d] = mem.lev[d]
    BY <1>1
<1>7. ASSUME NEW b \in Box
      PROVE  /\ heap[b] = IF b[1] # mem.cur THEN mem.heap[b]
                          ELSE IF Held(mem, b) THEN Hollow(1) ELSE FreeBox
             /\ heap[b] \in Cell
  <2>1. b \in Dead(mem, Cur(mem)) <=> b[1] = mem.cur /\ Used(mem, b)
      BY <1>1, DeadIs
  <2>2. mem.heap[b].hwired = IF Held(mem, b) THEN 1 ELSE 0
      BY DEF IInv, Parts, Pointed
  <2>3. b[1] = mem.cur /\ ~Used(mem, b) => mem.heap[b] = FreeBox /\ ~Held(mem, b)
      BY <1>1, FreeAt
  <2>4. heap[b] = IF b[1] # mem.cur THEN mem.heap[b]
                  ELSE IF Held(mem, b) THEN Hollow(1) ELSE FreeBox
      BY <2>1, <2>2, <2>3
  <2>5. FreeBox \in Cell
      BY DEF FreeBox, Cell, Place, Tables
  <2>6. Hollow(1) \in Cell
      BY HollowIs DEF Cell, Place, Tables
  <2> HIDE DEF heap
  <2> QED  BY <1>1, <2>4, <2>5, <2>6
<1>8. heap \in [Box -> Cell]
  <2>1. heap = [b \in Box |-> heap[b]]
      OBVIOUS
  <2>2. \A b \in Box : heap[b] \in Cell
      BY <1>7
  <2> HIDE DEF heap
  <2> QED  BY <2>1, <2>2
<1> HIDE DEF heap, lev, last
<1>9. r = [heap |-> heap, lev |-> lev, cur |-> number, next |-> mem.next, node |-> mem.node]
    BY <1>1, <1>5 DEF Memory
<1>10. r \in Memory
    BY <1>1, <1>3, <1>6, <1>8, <1>9 DEF Memory
<1> QED  BY <1>6, <1>7, <1>9, <1>10 DEF Ended, last, number

\* The tree of an INTERPRET goes: its pointer is given up.
LEMMA DetachIs ==
    ASSUME IInv(m), NEW nd \in Nodes, detach(nd)
    PROVE  m.node[nd] # Nil /\ Released(m, nd, m')
<1> DEFINE b == m.node[nd]
           e == m.heap[b]
           last == e.state = "hollow" /\ e.hwired = 1
           new == [e EXCEPT !.hwired = e.hwired - 1,
                            !.state = IF last THEN "lost" ELSE e.state]
<1>1. /\ m \in Memory /\ m.node \in [Nodes -> Place] /\ b \in Box
      /\ e \in Cell /\ m.heap \in [Box -> Cell] /\ b # Nil
    BY MemoryType DEF IInv, Parts, Pointed, Place, detach
<1>2. m' = [m EXCEPT !.node = [m.node EXCEPT ![nd] = Nil],
                     !.heap = [m.heap EXCEPT ![b] = new]]
    BY <1>1 DEF detach
<1>3. e.hwired = 1
  <2>1. Held(m, b)
      BY DEF Held
  <2> QED  BY <1>1, <2>1 DEF IInv, Parts, Pointed
<1>4. ~Used(m, b) => e = Hollow(1) /\ e.state = "hollow"
    BY <1>1, HeldHollow
<1>5. e = [state |-> e.state, val |-> e.val, real |-> e.real, valid |-> e.valid,
           hwired |-> e.hwired, index |-> e.index]
    BY <1>1 DEF Cell
<1>6. /\ Used(m, b) => new = [state |-> e.state, val |-> e.val, real |-> e.real,
                              valid |-> e.valid, hwired |-> 0, index |-> e.index]
      /\ ~Used(m, b) => new = Leaked
  <2>1. ASSUME Used(m, b)
        PROVE  new = [state |-> e.state, val |-> e.val, real |-> e.real, valid |-> e.valid,
                      hwired |-> 0, index |-> e.index]
    <3>1. ~last /\ e.hwired - 1 = 0
        BY <1>3, <2>1 DEF Used
    <3>2. new = [e EXCEPT !.hwired = 0, !.state = e.state]
        BY <3>1
    <3> HIDE DEF new, e, last
    <3> QED  BY <1>5, <3>2
  <2>2. ASSUME ~Used(m, b) PROVE new = Leaked
    <3>1. last /\ e.hwired - 1 = 0 /\ e = Hollow(1)
        BY <1>3, <1>4, <2>2
    <3>2. new = [e EXCEPT !.hwired = 0, !.state = "lost"]
        BY <3>1
    <3> HIDE DEF new, e, last
    <3>3. e.val = None /\ e.real = Nil /\ e.valid = 0 /\ e.index = NoIndex
        BY <3>1, HollowIs
    <3>4. new = [state |-> "lost", val |-> e.val, real |-> e.real, valid |-> e.valid,
                 hwired |-> 0, index |-> e.index]
        BY <1>5, <3>2
    <3> QED  BY <3>3, <3>4, LeakedIs
  <2> QED  BY <2>1, <2>2
<1> HIDE DEF new, b, e
<1>7. /\ Used(m, b) => SameButCount(new, e) /\ new.hwired = 0
      /\ new \in Cell
  <2>1. Leaked \in Cell
      BY LeakedIs DEF Cell, Place, Tables
  <2>2. Used(m, b) => SameButCount(new, e) /\ new.hwired = 0
      BY <1>6 DEF SameButCount
  <2>3. Used(m, b) => new \in Cell
      BY <1>1, <1>6 DEF Cell
  <2> QED  BY <1>6, <2>1, <2>2, <2>3
<1> DEFINE heap == [m.heap EXCEPT ![b] = new]
           node == [m.node EXCEPT ![nd] = Nil]
<1>8. /\ heap \in [Box -> Cell] /\ heap[b] = new /\ \A c \in Box : c # b => heap[c] = m.heap[c]
      /\ node \in [Nodes -> Place]
    BY <1>1, <1>7 DEF Place
<1> HIDE DEF heap
<1>9. m' = [heap |-> heap, lev |-> m.lev, cur |-> m.cur, next |-> m.next, node |-> node]
  <2>1. m' = [m EXCEPT !.node = node, !.heap = heap]
      BY <1>2 DEF heap
  <2> HIDE DEF node
  <2> QED  BY <1>1, <2>1 DEF Memory
<1>10. Repointed(m, nd, Nil, b, m') /\ m'.heap[b] = new
    BY <1>1, <1>8, <1>9 DEF Repointed, SameLevels, Memory
<1> QED  BY <1>1, <1>6, <1>7, <1>10 DEF Released, b, e

-----------------------------------------------------------------------------
(* The program. *)

\* The memory a program starts with.
LEMMA InitInv == Init => IInv(m)
<1> SUFFICES ASSUME Init PROVE IInv(m)
    OBVIOUS
<1> DEFINE heap == [b \in Box |-> FreeBox]
           L == [of |-> [n \in Names |-> Nil], size |-> InitSize, elements |-> 0,
                 saved |-> 2, id |-> 3]
           node == [nd \in Nodes |-> Nil]
<1>1. m = [heap |-> heap, lev |-> <<L>>, cur |-> 3, next |-> 4, node |-> node]
    BY DEF Init
<1>2. 3 \in Numbers /\ InitSize \in Nat
    BY PoolAssumption DEF Numbers
<1>3. /\ FreeBox = [state |-> "free", val |-> None, real |-> Nil, valid |-> 0, hwired |-> 0,
                    index |-> NoIndex]
      /\ FreeBox \in Cell /\ FreeBox.state = "free" /\ FreeBox.real = Nil
      /\ FreeBox.index = NoIndex /\ FreeBox.val = None /\ FreeBox.hwired = 0
    BY DEF FreeBox, Cell, Place, Tables
<1>4. heap \in [Box -> Cell] /\ \A b \in Box : heap[b] = FreeBox
    BY <1>3
<1>5. /\ L \in Level /\ \A n \in Names : L.of[n] = Nil
      /\ L.size = InitSize /\ L.elements = 0 /\ L.saved = 2 /\ L.id = 3
    BY <1>2 DEF Level, Place
<1>6. node \in [Nodes -> Place] /\ \A nd \in Nodes : node[nd] = Nil
    BY DEF Place
<1> HIDE DEF heap, L, node
<1>7. <<L>> \in Seq(Level) /\ Len(<<L>>) = 1 /\ <<L>>[1] = L
    BY <1>5
<1>8. /\ m.heap = heap /\ m.lev = <<L>> /\ m.cur = 3 /\ m.next = 4 /\ m.node = node
      /\ m \in Memory
    BY <1>1, <1>4, <1>6, <1>7 DEF Memory
<1>9. /\ Depths(m) = {1} /\ Len(m.lev) = 1 /\ m.lev[1] = L /\ Id(m, 1) = 3 /\ Ids(m) = {3}
    BY <1>5, <1>7, <1>8 DEF Depths, Id, Ids
<1>10. \A b \in Box : m.heap[b] = FreeBox /\ ~Used(m, b) /\ ~Held(m, b)
  <2>1. \A b \in Box : b # Nil
      BY BoxFacts
  <2> QED  BY <1>3, <1>4, <1>6, <1>8, <2>1 DEF Used, Held
<1>11. Numbered(m)
  <2>1. Cardinality({n \in Names : m.lev[1].of[n] # Nil}) = 0
      <3>1. {n \in Names : m.lev[1].of[n] # Nil} = {}
          BY <1>5, <1>9
      <3> QED  BY <3>1, FS_EmptySet
  <2> QED  BY <1>5, <1>8, <1>9, <2>1 DEF Numbered
<1>12. Tabled(m)
  <2>1. \A n \in Names : <<3, <<n>>>> \in Box
      BY <1>2, BoxFacts, KindFacts
  <2>2. \A d \in Depths(m), n \in Names :
          m.lev[d].of[n] = IF Used(m, <<Id(m, d), <<n>>>>) THEN <<Id(m, d), <<n>>>> ELSE Nil
      BY <1>5, <1>9, <1>10, <2>1
  <2>3. \A a \in Numbers, t \in Tails : <<a, TailVar(t)>> \in Box
      BY BoxFacts, KindFacts
  <2> QED  BY <1>3, <1>10, <2>2, <2>3 DEF Tabled
<1>13. Boxed(m)
    BY <1>3, <1>10 DEF Boxed
<1>14. Leads(m)
    BY <1>3, <1>10 DEF Leads
<1>15. Pointed(m)
    BY <1>3, <1>6, <1>8, <1>10 DEF Pointed
<1> QED  BY <1>8, <1>11, <1>12, <1>13, <1>14, <1>15 DEF IInv, Parts

\* Every step of the program keeps the pool in order.
LEMMA NextInv ==
    ASSUME TablesSuffice
    PROVE  IInv(m) /\ [Next]_m => IInv(m')
<1> SUFFICES ASSUME IInv(m), [Next]_m PROVE IInv(m')
    OBVIOUS
<1>1. NodeX \in Nodes /\ NodeHead \in Nodes /\ NodeX # NodeHead
    BY DEF Nodes, NodeX, NodeHead
<1>2. "S" \in Names /\ "S" # "X" /\ \A n \in Simples : n \in Names
    BY KindFacts
<1>3. CASE Refer
    BY <1>1, <1>3, ShortcutKeeps DEF Refer
<1>4. CASE ReferCompound
    BY <1>4, CompoundGetInv DEF ReferCompound
<1>5. CASE DropStem
    BY <1>5, DropStemInv DEF DropStem
<1>6. CASE Return
  <2>1. Len(m.lev) > 1 /\ m' \in kill_variables(m)
      BY <1>6 DEF Return, Cur
  <2> QED  BY <2>1, KilledIs, EndedInv
<1>7. ASSUME NEW v \in Vals, SetCompound(v) PROVE IInv(m')
    BY <1>7, CompoundSetInv DEF SetCompound
<1>8. ASSUME NEW v \in Vals, SetByName("S", v) PROVE IInv(m')
    BY <1>2, <1>8, SetInv DEF SetByName
<1>9. ASSUME NEW v \in Vals, AddToStem(v) PROVE IInv(m')
  <2>1. m' = setshortcut(shortcut(m, NodeHead), NodeHead, v)
      BY <1>9 DEF AddToStem
  <2> DEFINE one == shortcut(m, NodeHead)
  <2>2. IInv(one)
      BY <1>1, ShortcutKeeps
  <2> HIDE DEF one
  <2>3. IInv(setshortcut(one, NodeHead, v))
      BY <1>1, <2>2, SetshortcutInv
  <2> QED  BY <2>1, <2>3 DEF one
<1>10. ASSUME NEW v \in Vals \cap Tails, Set(v) PROVE IInv(m')
    BY <1>1, <1>10, SetshortcutInv DEF Set
<1>11. ASSUME NEW v \in Vals \cap Tails, NEW n \in Simples, SetByName(n, v) PROVE IInv(m')
    BY <1>2, <1>11, SetInv DEF SetByName
<1>12. ASSUME NEW t \in ConstTails, NEW v \in Vals, SetTail(t, v) PROVE IInv(m')
  <2>1. t \in Tails
      BY PoolAssumption
  <2> QED  BY <1>12, <2>1, SetCompoundInv DEF SetTail
<1>13. ASSUME NEW n \in Simples, Drop(n) PROVE IInv(m')
    BY <1>13, DropSimpleInv DEF Drop
<1>14. ASSUME NEW t \in ConstTails, DropTail(t) PROVE IInv(m')
  <2>1. t \in Tails
      BY PoolAssumption
  <2> QED  BY <1>14, <2>1, DropTailInv DEF DropTail
<1>15. ASSUME NEW list \in ExposeLists, Procedure(list) PROVE IInv(m')
  <2>1. list \in Seq(Exposable)
      BY PoolAssumption DEF Exposable
  <2>2. m.next <= MaxId /\ m' = exposed(m, list)
      BY <1>15 DEF Procedure
  <2> QED  BY <2>1, <2>2, ExposedInv
<1>16. ASSUME NEW nd \in Nodes, detach(nd) PROVE IInv(m')
  <2>1. m.node[nd] # Nil /\ Released(m, nd, m')
      BY <1>16, DetachIs
  <2> QED  BY <2>1, ReleasedInv
<1>17. CASE UNCHANGED m
    BY <1>17
<1> QED
  BY <1>3, <1>4, <1>5, <1>6, <1>7, <1>8, <1>9, <1>10, <1>11, <1>12, <1>13, <1>14, <1>15, <1>16,
     <1>17 DEF Next

\* The pool is in order in every state.
PoolInv == IInv(m)
\* The invariant holds in every state, while the tables do not grow.
THEOREM InvAlways ==
    ASSUME TablesSuffice
    PROVE  Spec => []PoolInv
<1>1. Init => PoolInv
    BY InitInv DEF PoolInv
<1>2. PoolInv /\ [Next]_m => PoolInv'
    BY NextInv DEF PoolInv
<1> QED  BY <1>1, <1>2, PTL DEF Spec

-----------------------------------------------------------------------------
(* What the invariant shows. *)

\* A pointer that is trusted is the box a search by name would find.
LEMMA ShortcutHolds ==
    ASSUME IInv(m)
    PROVE  ShortcutTruth
<1>1. ASSUME NEW nd \in Nodes, Hit(m, nd)
      PROVE  findsimple(m, Cur(m), NodeName(nd)) = Seek(m, m.node[nd])
    BY <1>1, HitIs
<1> QED  BY <1>1 DEF ShortcutTruth

\* The box a node would use without a look into the tables is the box they lead to.
THEOREM ShortcutAlways ==
    ASSUME TablesSuffice
    PROVE  Spec => []ShortcutTruth
<1>1. Spec => []PoolInv
    BY InvAlways
<1>2. PoolInv => ShortcutTruth
    BY ShortcutHolds DEF PoolInv
<1> QED  BY <1>1, <1>2, PTL

\* What the tables hold is in use.
LEMMA InTablesIs ==
    ASSUME IInv(m), NEW b \in Box
    PROVE  b \in InTables <=> Used(m, b)
<1>1. 1 .. Cur(m) = Depths(m)
    BY DEF Cur, Depths
<1>2. b \in InTables <=> \E d \in Depths(m) : b \in Dead(m, d)
    BY <1>1 DEF InTables
<1>3. \A d \in Depths(m) : b \in Dead(m, d) <=> b[1] = Id(m, d) /\ Used(m, b)
    BY DeadIs
<1>4. Used(m, b) => \E d \in Depths(m) : b[1] = Id(m, d)
    BY DEF IInv, Parts, Boxed, Ids
<1> QED  BY <1>2, <1>3, <1>4

\* A box in use belongs to one procedure.
LEMMA LevelIs ==
    ASSUME IInv(m), NEW b \in Box, Used(m, b)
    PROVE  LevelOf(b) \in Depths(m) /\ Id(m, LevelOf(b)) = b[1]
<1>1. 1 .. Cur(m) = Depths(m)
    BY DEF Cur, Depths
<1>2. \E d \in Depths(m) : m.lev[d].id = b[1]
    BY DEF IInv, Parts, Boxed, Ids, Id
<1>3. LevelOf(b) = CHOOSE d \in Depths(m) : m.lev[d].id = b[1]
    BY <1>1 DEF LevelOf
<1> QED  BY <1>2, <1>3 DEF Id

\* Boxes are where the tables and the nodes say.
LEMMA HomeHolds ==
    ASSUME IInv(m)
    PROVE  EveryBoxHasAHome
<1>1. PointersCounted
  <2>1. ASSUME NEW b \in Box
        PROVE  LET held == {nd \in Nodes : m.node[nd] = b}
               IN  /\ m.heap[b].hwired = Cardinality(held)
                   /\ held # {} => m.heap[b].state # "free"
      <3> DEFINE held == {nd \in Nodes : m.node[nd] = b}
      <3>1. b # Nil /\ m.heap[b].hwired = IF Held(m, b) THEN 1 ELSE 0
          BY BoxFacts DEF IInv, Parts, Pointed
      <3>2. CASE held = {}
          <4>1. ~Held(m, b)
              BY <3>2 DEF Held
          <4> QED  BY <3>1, <3>2, <4>1, FS_EmptySet
      <3>3. CASE held # {}
          <4>1. PICK nd \in Nodes : m.node[nd] = b
              BY <3>3
          <4>2. \A other \in held : other = nd
              BY <3>1, <4>1, NodesDiffer DEF IInv, Parts, Pointed
          <4>3. held = {nd}
              BY <4>1, <4>2
          <4>4. Cardinality(held) = 1
              BY <4>3, FS_Singleton
          <4>5. Held(m, b) /\ m.heap[b].state # "free"
              BY <3>1, <4>1 DEF Held, IInv, Parts, Pointed
          <4> QED  BY <3>1, <4>4, <4>5
      <3> QED  BY <3>2, <3>3
  <2> QED  BY <2>1 DEF PointersCounted
<1>2. ASSUME NEW b \in Box
      PROVE  /\ m.heap[b].state = "used" <=> b \in InTables
             /\ m.heap[b].state = "hollow" => m.heap[b].hwired > 0
             /\ m.heap[b].state = "lost" => m.heap[b].hwired = 0
             /\ m.heap[b].real # Nil => /\ m.heap[b].real \in InTables
                                        /\ LevelOf(m.heap[b].real) < LevelOf(b)
                                        /\ m.heap[b].val = None /\ m.heap[b].index = NoIndex
  <2>1. m.heap[b].state = "used" <=> b \in InTables
      BY InTablesIs DEF Used
  <2>2. /\ m.heap[b].state = "hollow" => m.heap[b].hwired > 0
        /\ m.heap[b].state = "lost" => m.heap[b].hwired = 0
      BY HollowIs, LeakedIs DEF IInv, Parts, Boxed, Empty
  <2>3. ASSUME m.heap[b].real # Nil
        PROVE  /\ m.heap[b].real \in InTables
               /\ LevelOf(m.heap[b].real) < LevelOf(b)
               /\ m.heap[b].val = None /\ m.heap[b].index = NoIndex
      <3> DEFINE q == m.heap[b].real
      <3>1. /\ m.heap[b].val = None /\ m.heap[b].index = NoIndex
            /\ q \in Box /\ q[1] < b[1] /\ Used(m, q)
          BY <2>3 DEF IInv, Parts, Leads
      <3> HIDE DEF q
      <3>2. Used(m, b)
          BY <2>3, LeadingUsed
      <3>3. q \in InTables
          BY <3>1, InTablesIs
      <3> DEFINE d == LevelOf(q)
                 e == LevelOf(b)
      <3>4. d \in Depths(m) /\ e \in Depths(m) /\ Id(m, d) = q[1] /\ Id(m, e) = b[1]
          BY <3>1, <3>2, LevelIs
      <3> HIDE DEF d, e
      <3>5. e < d => Id(m, e) < Id(m, d)
          BY <3>4 DEF IInv, Parts, Numbered
      <3>6. q[1] \in Nat /\ b[1] \in Nat /\ d \in Nat /\ e \in Nat
          BY <3>1, <3>4, BoxFacts DEF Numbers, Depths
      <3>7. d < e
          <4>1. d # e
              BY <3>1, <3>4, <3>6
          <4>2. ~(e < d)
              BY <3>1, <3>4, <3>5, <3>6
          <4> QED  BY <3>6, <4>1, <4>2
      <3> QED  BY <3>1, <3>3, <3>7 DEF q, d, e
  <2> QED  BY <2>1, <2>2, <2>3
<1> QED  BY <1>1, <1>2 DEF EveryBoxHasAHome

\* Every box is free, in the tables, hollow and waiting for its nodes, or lost by detach.
THEOREM HomeAlways ==
    ASSUME TablesSuffice
    PROVE  Spec => []EveryBoxHasAHome
<1>1. Spec => []PoolInv
    BY InvAlways
<1>2. PoolInv => EveryBoxHasAHome
    BY HomeHolds DEF PoolInv
<1> QED  BY <1>1, <1>2, PTL

\* A procedure that returns gives its caller's number back.
THEOREM CallerAlways ==
    ASSUME TablesSuffice
    PROVE  Spec => []CallerRestored
<1>1. Spec => []PoolInv
    BY InvAlways
<1>2. PoolInv => CallerRestored
    BY DEF PoolInv, IInv, Parts, Numbered, CallerRestored, Cur, Id
<1> QED  BY <1>1, <1>2, PTL


-----------------------------------------------------------------------------
(* What the program sees, as a function of the heap alone: the procedure   *)
(* that keeps a variable, and the value of what it keeps.                  *)

StemKinds == {<<"S">>} \union TailKinds

\* The procedure that keeps what the box of procedure a leads to
Keeper(mem, a, w) == IF Used(mem, <<a, w>>) THEN Root(mem, <<a, w>>)[1] ELSE a
\* The procedure in whose tables, or in whose stem's table, a has variable w
Home(mem, a, w) == IF w \in TailKinds THEN Keeper(mem, a, <<"S">>) ELSE a
\* The procedure that keeps variable w of procedure a
Owner(mem, a, w) == Keeper(mem, Home(mem, a, w), w)
\* The value that procedure a keeps for variable w
Worth(mem, a, w) ==
  IF w \in TailKinds /\ ~Used(mem, <<a, w>>) THEN mem.heap[<<a, <<"S">>>>].val
  ELSE mem.heap[<<a, w>>].val

\* What a used box leads to is the box the keeper has.
LEMMA KeeperIs ==
    ASSUME NEW mem, IInv(mem), NEW a \in Ids(mem), NEW w \in Kinds
    PROVE  LET k == Keeper(mem, a, w) IN
           /\ k \in Ids(mem) /\ k \in Numbers /\ k <= a /\ <<a, w>> \in Box /\ <<k, w>> \in Box
           /\ mem.heap[<<k, w>>].real = Nil
           /\ Used(mem, <<a, w>>) <=> Used(mem, <<k, w>>)
           /\ Used(mem, <<a, w>>) => Root(mem, <<a, w>>) = <<k, w>>
           /\ ~Used(mem, <<a, w>>) => k = a
           /\ mem.heap[<<a, w>>].real = Nil => k = a
           /\ mem.heap[<<a, w>>].real # Nil => k < a /\ mem.heap[<<a, w>>].real = <<k, w>>
<1> DEFINE b == <<a, w>>
           k == Keeper(mem, a, w)
           q == mem.heap[b].real
<1>1. a \in Numbers /\ b \in Box /\ b[1] = a /\ b[2] = w /\ a \in Nat
    BY MemoryType, BoxFacts DEF IInv, Numbers
<1> HIDE DEF b
<1>2. CASE q = Nil
  <2>1. Root(mem, b) = b /\ k = a
      BY <1>1, <1>2 DEF Root, Keeper, b
  <2> QED  BY <1>1, <1>2, <2>1 DEF b
<1>3. CASE q # Nil
  <2>1. Used(mem, b) /\ q \in Box /\ q[2] = w /\ q[1] < a /\ Used(mem, q) /\ mem.heap[q].real = Nil
      BY <1>1, <1>3, LeadingUsed DEF IInv, Parts, Leads
  <2>2. q[1] \in Ids(mem) /\ q[1] \in Numbers /\ q = <<q[1], w>>
      BY <2>1, BoxFacts DEF IInv, Parts, Boxed
  <2>3. k = q[1] /\ Root(mem, b) = q
      BY <1>3, <2>1 DEF Keeper, Root, b
  <2> HIDE DEF q, k
  <2>4. k \in Nat /\ k < a /\ k <= a
      BY <1>1, <2>1, <2>2, <2>3 DEF Numbers
  <2>5. <<k, w>> = q
      BY <2>2, <2>3
  <2>6. mem.heap[b].real = q
      BY DEF q
  <2> QED  BY <1>1, <1>3, <2>1, <2>2, <2>3, <2>4, <2>5, <2>6 DEF b, k
<1> QED  BY <1>2, <1>3

\* A tail is in a table only while its stem has one.
LEMMA StemOfTail ==
    ASSUME NEW mem, IInv(mem), NEW a \in Numbers, NEW w \in TailKinds, Used(mem, <<a, w>>)
    PROVE  Used(mem, <<a, <<"S">>>>) /\ mem.heap[<<a, <<"S">>>>].real = Nil
<1>1. PICK t \in Tails : w = TailVar(t)
    BY DEF TailKinds
<1>2. mem.heap[<<a, <<"S">>>>].index # NoIndex
    BY <1>1 DEF IInv, Parts, Tabled
<1>3. <<a, <<"S">>>> \in Box
    BY BoxFacts, KindFacts
<1> QED  BY <1>2, <1>3 DEF IInv, Parts, Tabled

\* The procedure that keeps a variable runs, and was called no later.
LEMMA OwnerIs ==
    ASSUME NEW mem, IInv(mem), NEW a \in Ids(mem), NEW w \in Kinds
    PROVE  LET h == Home(mem, a, w)
               k == Owner(mem, a, w)
           IN  /\ h \in Ids(mem) /\ h <= a /\ k \in Ids(mem) /\ k <= h /\ k <= a
               /\ h \in Numbers /\ k \in Numbers /\ <<h, w>> \in Box /\ <<k, w>> \in Box
               /\ mem.heap[<<k, w>>].real = Nil
               /\ Used(mem, <<h, w>>) <=> Used(mem, <<k, w>>)
               /\ Used(mem, <<h, w>>) => Root(mem, <<h, w>>) = <<k, w>>
               /\ ~Used(mem, <<h, w>>) => k = h
<1> DEFINE h == Home(mem, a, w)
           k == Owner(mem, a, w)
<1>1. h \in Ids(mem) /\ h <= a
  <2>1. <<"S">> \in Kinds
      BY KindFacts
  <2>2. a \in Numbers /\ a <= a
      BY MemoryType DEF IInv, Numbers
  <2>3. CASE w \in TailKinds
      BY <2>1, <2>3, KeeperIs DEF Home
  <2>4. CASE w \notin TailKinds
      BY <2>2, <2>4 DEF Home
  <2> QED  BY <2>3, <2>4
<1>2. k = Keeper(mem, h, w)
    BY DEF Owner
<1> HIDE DEF h, k
<1>3. /\ k \in Ids(mem) /\ k \in Numbers /\ k <= h /\ <<h, w>> \in Box /\ <<k, w>> \in Box
      /\ mem.heap[<<k, w>>].real = Nil
      /\ Used(mem, <<h, w>>) <=> Used(mem, <<k, w>>)
      /\ Used(mem, <<h, w>>) => Root(mem, <<h, w>>) = <<k, w>>
      /\ ~Used(mem, <<h, w>>) => k = h
    BY <1>1, <1>2, KeeperIs
<1>4. h \in Numbers /\ a \in Numbers /\ h \in Nat /\ a \in Nat /\ k \in Nat
    BY <1>1, <1>3, MemoryType DEF IInv, Numbers
<1>5. k <= a
    BY <1>1, <1>3, <1>4
<1> QED  BY <1>1, <1>3, <1>4, <1>5 DEF h, k

\* The same procedures run under the same numbers.
SameRuns(mem, r) ==
  /\ Len(r.lev) = Len(mem.lev) /\ r.cur = mem.cur
  /\ \A d \in Depths(mem) : Id(r, d) = Id(mem, d)
\* The variables of the procedures that run are kept where they were, and those named
\* in C, by the procedure that keeps them and the variable, have the value v.
Writes(mem, r, C, v) ==
  /\ SameRuns(mem, r)
  /\ \A a \in Ids(mem), w \in Kinds :
       /\ Owner(r, a, w) = Owner(mem, a, w)
       /\ Worth(r, a, w) = IF <<a, w>> \in C THEN v ELSE Worth(mem, a, w)
\* Nothing a program sees has changed.
Same(mem, r) == Writes(mem, r, {}, None)

\* The same procedures run.
LEMMA SameIds ==
    ASSUME NEW mem, NEW r, SameRuns(mem, r)
    PROVE  Depths(r) = Depths(mem) /\ Ids(r) = Ids(mem) /\ r.cur = mem.cur /\ Cur(r) = Cur(mem)
<1>1. Depths(r) = Depths(mem)
    BY DEF SameRuns, Depths
<1> QED  BY <1>1 DEF SameRuns, Ids, Cur

\* A change of nothing, and then a change.
LEMMA SameThen ==
    ASSUME NEW mem, NEW r, NEW q, NEW C, NEW v, Same(mem, r), Writes(r, q, C, v)
    PROVE  Writes(mem, q, C, v)
<1>1. SameRuns(mem, r) /\ SameRuns(r, q) /\ Ids(r) = Ids(mem) /\ Depths(r) = Depths(mem)
    BY SameIds DEF Same, Writes
<1>2. SameRuns(mem, q)
    BY <1>1 DEF SameRuns
<1>3. ASSUME NEW a \in Ids(mem), NEW w \in Kinds
      PROVE  /\ Owner(q, a, w) = Owner(mem, a, w)
             /\ Worth(q, a, w) = IF <<a, w>> \in C THEN v ELSE Worth(mem, a, w)
    BY <1>1 DEF Same, Writes
<1> QED  BY <1>2, <1>3 DEF Writes

\* A change, and then a change of nothing.
LEMMA ThenSame ==
    ASSUME NEW mem, NEW r, NEW q, NEW C, NEW v, Writes(mem, r, C, v), Same(r, q)
    PROVE  Writes(mem, q, C, v)
<1>1. SameRuns(mem, r) /\ SameRuns(r, q) /\ Ids(r) = Ids(mem) /\ Depths(r) = Depths(mem)
    BY SameIds DEF Same, Writes
<1>2. SameRuns(mem, q)
    BY <1>1 DEF SameRuns
<1>3. ASSUME NEW a \in Ids(mem), NEW w \in Kinds
      PROVE  /\ Owner(q, a, w) = Owner(mem, a, w)
             /\ Worth(q, a, w) = IF <<a, w>> \in C THEN v ELSE Worth(mem, a, w)
    BY <1>1 DEF Same, Writes
<1> QED  BY <1>2, <1>3 DEF Writes

\* Two changes of nothing are none.
LEMMA SameAgain ==
    ASSUME NEW mem, NEW r, NEW q, Same(mem, r), Same(r, q)
    PROVE  Same(mem, q)
BY SameThen DEF Same

\* No change is one of nothing.
LEMMA SameSelf == ASSUME NEW mem PROVE Same(mem, mem)
BY DEF Same, Writes, SameRuns

\* Giving variables the value they have is a change of nothing.
LEMMA WritesNothing ==
    ASSUME NEW mem, NEW r, NEW C, NEW v, Writes(mem, r, C, v),
           \A a \in Ids(mem), w \in Kinds : <<a, w>> \in C => Worth(mem, a, w) = v
    PROVE  Same(mem, r)
BY DEF Same, Writes

\* What the program sees depends on which boxes of running procedures are in use, on what
\* they lead to and on their values.
LEMMA SameHeaps ==
    ASSUME NEW mem, IInv(mem), NEW r, SameRuns(mem, r),
           \A b \in Box : b[1] \in Ids(mem) =>
              /\ Used(r, b) <=> Used(mem, b)
              /\ r.heap[b].real = mem.heap[b].real /\ r.heap[b].val = mem.heap[b].val
    PROVE  Same(mem, r)
<1>1. ASSUME NEW a \in Ids(mem), NEW w \in Kinds
      PROVE  /\ <<a, w>> \in Box
             /\ Used(r, <<a, w>>) <=> Used(mem, <<a, w>>)
             /\ Keeper(r, a, w) = Keeper(mem, a, w)
             /\ r.heap[<<a, w>>].val = mem.heap[<<a, w>>].val
  <2> DEFINE b == <<a, w>>
  <2>1. b \in Box /\ b[1] \in Ids(mem)
      BY MemoryType, BoxFacts DEF IInv
  <2> HIDE DEF b
  <2>2. (Used(r, b) <=> Used(mem, b)) /\ Root(r, b) = Root(mem, b)
        /\ r.heap[b].val = mem.heap[b].val
      BY <2>1 DEF Root
  <2> QED  BY <2>1, <2>2 DEF b, Keeper
<1>2. <<"S">> \in Kinds
    BY KindFacts
<1>3. ASSUME NEW a \in Ids(mem), NEW w \in Kinds
      PROVE  Owner(r, a, w) = Owner(mem, a, w) /\ Worth(r, a, w) = Worth(mem, a, w)
  <2>1. Home(r, a, w) = Home(mem, a, w)
      BY <1>1, <1>2 DEF Home
  <2>2. Home(mem, a, w) \in Ids(mem)
      BY OwnerIs
  <2>3. Owner(r, a, w) = Owner(mem, a, w)
      BY <1>1, <2>1, <2>2 DEF Owner
  <2>4. Worth(r, a, w) = Worth(mem, a, w)
      BY <1>1, <1>2 DEF Worth
  <2> QED  BY <2>3, <2>4
<1> QED  BY <1>3 DEF Same, Writes

\* Changes of the nodes are none the program sees.
LEMMA KeptSame ==
    ASSUME NEW mem, IInv(mem), NEW r, Kept(mem, r)
    PROVE  Same(mem, r)
<1>1. SameRuns(mem, r)
    BY LevelsSame DEF Kept, SameLevels, SameRuns, Cur
<1> QED  BY <1>1, SameHeaps DEF Kept

\* The box for variable w of procedure a, and of the running one
Spot(mem, a, w) == <<Owner(mem, a, w), w>>
At(mem, w) == Spot(mem, mem.cur, w)

\* What is found in the tables of a running procedure, seen by the heap alone.
LEMMA FoundAt ==
    ASSUME NEW mem, IInv(mem), NEW d \in Depths(mem), NEW n \in Names
    PROVE  LET r == findsimple(mem, d, n)
               b == Spot(mem, Id(mem, d), <<n>>)
           IN  /\ Id(mem, d) \in Ids(mem) /\ <<n>> \in Kinds /\ <<n>> \notin TailKinds
               /\ b \in Box /\ r = IF Used(mem, b) THEN b ELSE Nil
               /\ r # Nil <=> Used(mem, b)
<1> DEFINE a == Id(mem, d)
           r == findsimple(mem, d, n)
           b == Spot(mem, Id(mem, d), <<n>>)
<1>1. a \in Ids(mem) /\ <<n>> \in Kinds /\ <<n>> \notin TailKinds
    BY KindFacts DEF Ids
<1>2. Home(mem, a, <<n>>) = a
    BY <1>1 DEF Home
<1>3. /\ b \in Box /\ (Used(mem, <<a, <<n>>>>) <=> Used(mem, b))
      /\ Used(mem, <<a, <<n>>>>) => Root(mem, <<a, <<n>>>>) = b
    BY <1>1, <1>2, OwnerIs DEF Spot
<1>4. r = IF Used(mem, <<a, <<n>>>>) THEN Root(mem, <<a, <<n>>>>) ELSE Nil
    BY FindIs
<1> HIDE DEF b
<1>5. b # Nil
    BY <1>3, BoxFacts
<1> QED  BY <1>1, <1>3, <1>4, <1>5 DEF b

\* What the table of a stem leads to, seen by the heap alone.
LEMMA FoundTailAt ==
    ASSUME NEW mem, IInv(mem), NEW a \in Ids(mem), NEW t \in Tails,
           NEW s, s = Spot(mem, a, <<"S">>), Used(mem, s)
    PROVE  LET r == FindTail(mem, s, t)
               b == Spot(mem, a, TailVar(t))
           IN  /\ Stem(mem, s) /\ b \in Box /\ s[1] = Owner(mem, a, <<"S">>)
               /\ s[1] = Home(mem, a, TailVar(t))
               /\ r = IF Used(mem, b) THEN b ELSE Nil
               /\ r # Nil <=> Used(mem, b)
               /\ Used(mem, <<s[1], TailVar(t)>>) <=> Used(mem, b)
               /\ Used(mem, b) => Root(mem, <<s[1], TailVar(t)>>) = b
               /\ ~Used(mem, b) => b = <<s[1], TailVar(t)>>
<1> DEFINE w == TailVar(t)
           r == FindTail(mem, s, t)
           b == Spot(mem, a, w)
           x == <<s[1], w>>
<1>1. <<"S">> \in Kinds /\ <<"S">> \notin TailKinds /\ w \in Kinds /\ w \in TailKinds
    BY KindFacts
<1>2. Home(mem, a, <<"S">>) = a /\ Owner(mem, a, <<"S">>) = Keeper(mem, a, <<"S">>)
    BY <1>1 DEF Home, Owner
<1>3. /\ s \in Box /\ s[1] = Owner(mem, a, <<"S">>) /\ s[2] = <<"S">>
      /\ mem.heap[s].real = Nil
    BY <1>1, OwnerIs DEF Spot
<1>4. Stem(mem, s) /\ s[1] = Home(mem, a, w)
    BY <1>1, <1>2, <1>3 DEF Stem, Home
<1>5. /\ b \in Box /\ (Used(mem, x) <=> Used(mem, b))
      /\ Used(mem, x) => Root(mem, x) = b
      /\ ~Used(mem, x) => b = x
    BY <1>1, <1>4, OwnerIs DEF Spot
<1>6. /\ mem.heap[s].index[t] = IF Used(mem, x) THEN x ELSE Nil
      /\ x \in Box /\ x # Nil
    BY <1>4, TailFound
<1>7. r = IF Used(mem, x) THEN Root(mem, x) ELSE Nil
    BY <1>6, FlatIs, SeekIs DEF FindTail
<1> HIDE DEF b, x
<1>8. b # Nil
    BY <1>5, BoxFacts
<1> QED  BY <1>3, <1>4, <1>5, <1>7, <1>8 DEF b, x

\* The value of one box has changed.
Revaluing(mem, b, v, r) ==
  /\ SameLevels(mem, r)
  /\ r.heap[b].val = v
  /\ \A c \in Box : /\ Used(r, c) <=> Used(mem, c)
                    /\ r.heap[c].real = mem.heap[c].real
                    /\ c # b => r.heap[c].val = mem.heap[c].val

LEMMA ReplaceRevalues ==
    ASSUME NEW mem, IInv(mem), NEW b \in Box, NEW v
    PROVE  Revaluing(mem, b, v, Replace(mem, b, v))
<1> DEFINE e == mem.heap[b]
           new == [e EXCEPT !.val = v]
           heap == [mem.heap EXCEPT ![b] = new]
           r == Replace(mem, b, v)
<1>1. /\ mem \in Memory /\ mem.heap \in [Box -> Cell] /\ e \in Cell
    BY MemoryType DEF IInv
<1>2. r = [mem EXCEPT !.heap = heap]
    BY DEF Replace
<1> HIDE DEF e, r
<1>3. new.state = e.state /\ new.real = e.real /\ new.val = v
    BY <1>1 DEF Cell
<1> HIDE DEF new
<1>4. \A c \in Box : heap[c] = IF c = b THEN new ELSE mem.heap[c]
    BY <1>1
<1> HIDE DEF heap
<1>5. r.heap = heap /\ r.lev = mem.lev /\ r.cur = mem.cur /\ r.next = mem.next
    BY <1>1, <1>2 DEF Memory
<1> HIDE DEF new
<1>6. \A c \in Box : r.heap[c] = IF c = b THEN new ELSE mem.heap[c]
    BY <1>4, <1>5
<1> QED  BY <1>3, <1>5, <1>6 DEF Revaluing, SameLevels, Used, e, r

\* The running procedure's variable w, which is no stem and has a box, gets the value.
LEMMA ReplaceWrites ==
    ASSUME NEW mem, IInv(mem), NEW a \in Ids(mem), NEW w \in Kinds, w # <<"S">>,
           NEW b, b = Spot(mem, a, w), Used(mem, b), NEW v
    PROVE  Writes(mem, Replace(mem, b, v), {b}, v)
<1> DEFINE r == Replace(mem, b, v)
<1>1. b \in Box
    BY OwnerIs DEF Spot
<1>2. Revaluing(mem, b, v, r)
    BY <1>1, ReplaceRevalues
<1> HIDE DEF r
<1>3. SameRuns(mem, r)
    BY <1>2, LevelsSame DEF Revaluing, SameLevels, SameRuns
<1>4. <<"S">> \in Kinds
    BY KindFacts
<1>5. ASSUME NEW c \in Ids(mem), NEW x \in Kinds
      PROVE  /\ <<c, x>> \in Box
             /\ Used(r, <<c, x>>) <=> Used(mem, <<c, x>>)
             /\ Keeper(r, c, x) = Keeper(mem, c, x)
             /\ r.heap[<<c, x>>].val = IF <<c, x>> = b THEN v ELSE mem.heap[<<c, x>>].val
  <2> DEFINE y == <<c, x>>
  <2>1. y \in Box
      BY MemoryType, BoxFacts DEF IInv
  <2> HIDE DEF y
  <2>2. (Used(r, y) <=> Used(mem, y)) /\ Root(r, y) = Root(mem, y)
        /\ r.heap[y].val = IF y = b THEN v ELSE mem.heap[y].val
      BY <1>2, <2>1 DEF Root, Revaluing
  <2> QED  BY <2>1, <2>2 DEF y, Keeper
<1>6. ASSUME NEW c \in Ids(mem), NEW x \in Kinds
      PROVE  /\ Owner(r, c, x) = Owner(mem, c, x)
             /\ Worth(r, c, x) = IF <<c, x>> \in {b} THEN v ELSE Worth(mem, c, x)
  <2>1. Home(r, c, x) = Home(mem, c, x)
      BY <1>4, <1>5 DEF Home
  <2>2. Home(mem, c, x) \in Ids(mem)
      BY OwnerIs
  <2>3. Owner(r, c, x) = Owner(mem, c, x)
      BY <1>5, <2>1, <2>2 DEF Owner
  <2>4. <<c, <<"S">>>> # b
      BY DEF Spot
  <2> DEFINE y == <<c, x>>
             y0 == <<c, <<"S">>>>
  <2>5. /\ Used(r, y) <=> Used(mem, y)
        /\ r.heap[y].val = IF y = b THEN v ELSE mem.heap[y].val
        /\ r.heap[y0].val = mem.heap[y0].val /\ y0 # b
      BY <1>4, <1>5, <2>4
  <2>6. /\ Worth(mem, c, x) = IF x \in TailKinds /\ ~Used(mem, y) THEN mem.heap[y0].val
                              ELSE mem.heap[y].val
        /\ Worth(r, c, x) = IF x \in TailKinds /\ ~Used(r, y) THEN r.heap[y0].val
                            ELSE r.heap[y].val
      BY DEF Worth
  <2> HIDE DEF y, y0
  <2>7. Worth(r, c, x) = IF y \in {b} THEN v ELSE Worth(mem, c, x)
      BY <2>5, <2>6
  <2> QED  BY <2>3, <2>7 DEF y
<1> QED  BY <1>3, <1>6 DEF Writes, r

\* The variables whose values change with that of a name
Reach(n) == IF n = "S" THEN StemKinds ELSE {<<n>>}

\* A variable that is put in the table of a procedure has its value; a stem, with all
\* its tails.
LEMMA InsertWrites ==
    ASSUME NEW mem, IInv(mem), NEW d \in Depths(mem), NEW n \in Names,
           ~Used(mem, <<Id(mem, d), <<n>>>>), NEW rec, rec.state = "used", rec.real = Nil,
           NEW r, Inserted(mem, d, n, rec, r)
    PROVE  Writes(mem, r, {<<Id(mem, d), w>> : w \in Reach(n)}, rec.val)
<1> DEFINE b == <<Id(mem, d), <<n>>>>
           C == {<<Id(mem, d), w>> : w \in Reach(n)}
<1>1. /\ <<n>> \in Kinds /\ <<n>> \notin TailKinds /\ <<"S">> \in Kinds /\ <<"S">> \notin TailKinds
      /\ <<n>> = <<"S">> => n = "S"
    BY KindFacts
<1>2. Id(mem, d) \in Ids(mem) /\ b \in Box /\ b[1] = Id(mem, d) /\ b[2] = <<n>>
    BY <1>1, MemoryType, BoxFacts DEF IInv, Ids
<1>3. SameRuns(mem, r)
    BY DEF Inserted, SameRuns
<1>4. \A y \in Box : r.heap[y] = IF y = b THEN rec ELSE mem.heap[y]
  <2>1. mem.heap \in [Box -> Cell] /\ r.heap = [mem.heap EXCEPT ![b] = rec]
      BY MemoryType DEF IInv, Inserted
  <2> HIDE DEF b
  <2> QED  BY <1>2, <2>1
<1>5. mem.heap[b].real = Nil
    BY <1>2, LeadingUsed DEF b
<1>6. ASSUME NEW c \in Ids(mem), NEW x \in Kinds
      PROVE  /\ <<c, x>> \in Box
             /\ Used(r, <<c, x>>) <=> Used(mem, <<c, x>>) \/ <<c, x>> = b
             /\ Keeper(r, c, x) = Keeper(mem, c, x)
             /\ r.heap[<<c, x>>].val = IF <<c, x>> = b THEN rec.val ELSE mem.heap[<<c, x>>].val
  <2> DEFINE y == <<c, x>>
  <2>1. y \in Box /\ y[1] = c
      BY MemoryType, BoxFacts DEF IInv
  <2> HIDE DEF y, b
  <2>2. /\ Used(r, y) <=> Used(mem, y) \/ y = b
        /\ r.heap[y].val = IF y = b THEN rec.val ELSE mem.heap[y].val
        /\ Root(r, y) = Root(mem, y)
      BY <1>4, <1>5, <2>1 DEF Root, Used
  <2>3. y = b => ~Used(mem, y) /\ Root(mem, y) = y
      BY <1>5 DEF Root, b
  <2>4. (IF Used(r, y) THEN Root(r, y)[1] ELSE c) = (IF Used(mem, y) THEN Root(mem, y)[1] ELSE c)
      BY <2>1, <2>2, <2>3
  <2> QED  BY <2>1, <2>2, <2>4 DEF y, Keeper
<1>7. ASSUME NEW c \in Ids(mem), NEW x \in Kinds
      PROVE  /\ Owner(r, c, x) = Owner(mem, c, x)
             /\ Worth(r, c, x) = IF <<c, x>> \in C THEN rec.val ELSE Worth(mem, c, x)
  <2>1. Home(r, c, x) = Home(mem, c, x)
      BY <1>1, <1>6 DEF Home
  <2>2. Home(mem, c, x) \in Ids(mem)
      BY OwnerIs
  <2>3. Owner(r, c, x) = Owner(mem, c, x)
      BY <1>6, <2>1, <2>2 DEF Owner
  <2> DEFINE y == <<c, x>>
             y0 == <<c, <<"S">>>>
  <2>4. /\ y \in C <=> c = Id(mem, d) /\ x \in Reach(n)
        /\ y = b <=> c = Id(mem, d) /\ x = <<n>>
        /\ y0 = b <=> c = Id(mem, d) /\ n = "S"
      BY <1>1
  <2>5. /\ Used(r, y) <=> Used(mem, y) \/ y = b
        /\ r.heap[y].val = IF y = b THEN rec.val ELSE mem.heap[y].val
        /\ r.heap[y0].val = IF y0 = b THEN rec.val ELSE mem.heap[y0].val
      BY <1>1, <1>6
  <2>6. /\ Worth(mem, c, x) = IF x \in TailKinds /\ ~Used(mem, y) THEN mem.heap[y0].val
                              ELSE mem.heap[y].val
        /\ Worth(r, c, x) = IF x \in TailKinds /\ ~Used(r, y) THEN r.heap[y0].val
                            ELSE r.heap[y].val
      BY DEF Worth
  <2>7. x \in TailKinds /\ Used(mem, y) => Used(mem, y0)
      BY <1>2, StemOfTail, MemoryType DEF IInv
  <2>8. ~Used(mem, b)
      OBVIOUS
  <2> HIDE DEF y, y0, b, C
  <2>9. CASE x \in TailKinds
      <3>1. y # b /\ (y \in C <=> y0 = b)
          BY <1>1, <2>4, <2>9 DEF Reach, StemKinds
      <3> QED  BY <2>5, <2>6, <2>7, <2>8, <2>9, <2>3, <3>1 DEF y
  <2>10. CASE x \notin TailKinds
      <3>1. y \in C <=> y = b
          BY <1>1, <2>4, <2>10 DEF Reach, StemKinds
      <3> QED  BY <2>5, <2>6, <2>10, <2>3, <3>1 DEF y
  <2> QED  BY <2>9, <2>10
<1> QED  BY <1>3, <1>7 DEF Writes

\* A variable that is put in a table without a value leaves what the program sees.
LEMMA InsertSame ==
    ASSUME NEW mem, IInv(mem), NEW d \in Depths(mem), NEW n \in Names,
           ~Used(mem, <<Id(mem, d), <<n>>>>), NEW rec, rec.state = "used", rec.real = Nil,
           rec.val = None, NEW r, Inserted(mem, d, n, rec, r)
    PROVE  Same(mem, r)
<1> DEFINE a == Id(mem, d)
           C == {<<a, w>> : w \in Reach(n)}
<1>1. Writes(mem, r, C, None)
    BY InsertWrites
<1>2. a \in Ids(mem) /\ a \in Numbers /\ <<n>> \in Kinds /\ <<"S">> \in Kinds
    BY MemoryType, KindFacts DEF IInv, Ids
<1> HIDE DEF a
<1>3. \A w \in Kinds : <<a, w>> \in Box /\ (~Used(mem, <<a, w>>) => mem.heap[<<a, w>>].val = None)
  <2>1. ASSUME NEW w \in Kinds, ~Used(mem, <<a, w>>) PROVE mem.heap[<<a, w>>].val = None
      <3> DEFINE b == <<a, w>>
      <3>1. b \in Box /\ b[1] \in Ids(mem)
          BY <1>2, BoxFacts
      <3>2. mem.heap[b] = FreeBox
          BY <2>1, <3>1, FreeAt
      <3> QED  BY <3>2 DEF FreeBox
  <2> QED  BY <1>2, <2>1, BoxFacts
<1>4. ASSUME NEW w \in Reach(n), w \in Kinds PROVE Worth(mem, a, w) = None
  <2>1. CASE w \in TailKinds
      <3>1. n = "S"
          BY <2>1, KindFacts DEF Reach
      <3>2. ~Used(mem, <<a, <<"S">>>>)
          BY <3>1 DEF a
      <3>3. ~Used(mem, <<a, w>>)
          BY <1>2, <2>1, <3>2, StemOfTail
      <3> QED  BY <1>2, <1>3, <2>1, <3>2, <3>3 DEF Worth
  <2>2. CASE w \notin TailKinds
      <3>1. w = <<n>>
          BY <2>2 DEF Reach, StemKinds
      <3>2. ~Used(mem, <<a, w>>)
          BY <3>1 DEF a
      <3> QED  BY <1>3, <1>4, <2>2, <3>2 DEF Worth
  <2> QED  BY <2>1, <2>2
<1>5. \A c \in Ids(mem), w \in Kinds : <<c, w>> \in C => Worth(mem, c, w) = None
    BY <1>4
<1> HIDE DEF C
<1> QED  BY <1>1, <1>5, WritesNothing

\* A tail that is put in the table of a stem has its value.
LEMMA TailWrites ==
    ASSUME NEW mem, IInv(mem), NEW s, Stem(mem, s), NEW t \in Tails,
           NEW b, b = <<s[1], TailVar(t)>>, ~Used(mem, b),
           NEW rec, rec.state = "used", rec.real = Nil,
           NEW r, TailInserted(mem, s, t, rec, r)
    PROVE  Writes(mem, r, {b}, rec.val)
<1>1. /\ TailVar(t) \in Kinds /\ TailVar(t) \in TailKinds /\ <<"S">> \in Kinds
      /\ <<"S">> \notin TailKinds
    BY KindFacts
<1>2. /\ s \in Box /\ s = <<s[1], <<"S">>>> /\ s[1] \in Numbers /\ b \in Box /\ b # s
      /\ s[1] \in Ids(mem) /\ b[1] = s[1] /\ b[2] = TailVar(t)
    BY <1>1, BoxFacts DEF Stem, IInv, Parts, Boxed
<1>3. SameRuns(mem, r)
    BY LevelsSame DEF TailInserted, SameFrame, SameLevels, SameRuns
<1>4. ASSUME NEW y \in Box
      PROVE  /\ Used(r, y) <=> Used(mem, y) \/ y = b
             /\ r.heap[y].val = IF y = b THEN rec.val ELSE mem.heap[y].val
             /\ Root(r, y) = Root(mem, y)
  <2>1. mem.heap[b].real = Nil
      BY <1>2, LeadingUsed
  <2> QED  BY <1>2, <2>1 DEF TailInserted, SameButIndex, Used, Root
<1>5. b = <<s[1], TailVar(t)>> /\ Root(mem, b) = b
    BY <1>2, LeadingUsed DEF Root
<1>6. ASSUME NEW c \in Ids(mem), NEW x \in Kinds
      PROVE  /\ <<c, x>> \in Box
             /\ Used(r, <<c, x>>) <=> Used(mem, <<c, x>>) \/ <<c, x>> = b
             /\ Keeper(r, c, x) = Keeper(mem, c, x)
             /\ r.heap[<<c, x>>].val = IF <<c, x>> = b THEN rec.val ELSE mem.heap[<<c, x>>].val
  <2> DEFINE y == <<c, x>>
  <2>1. y \in Box /\ y[1] = c
      BY MemoryType, BoxFacts DEF IInv
  <2> HIDE DEF y
  <2>2. (IF Used(r, y) THEN Root(r, y)[1] ELSE c) = (IF Used(mem, y) THEN Root(mem, y)[1] ELSE c)
      BY <1>4, <1>5, <2>1
  <2> QED  BY <1>4, <2>1, <2>2 DEF y, Keeper
<1>7. ASSUME NEW c \in Ids(mem), NEW x \in Kinds
      PROVE  /\ Owner(r, c, x) = Owner(mem, c, x)
             /\ Worth(r, c, x) = IF <<c, x>> \in {b} THEN rec.val ELSE Worth(mem, c, x)
  <2>1. Home(r, c, x) = Home(mem, c, x)
      BY <1>1, <1>6 DEF Home
  <2>2. Home(mem, c, x) \in Ids(mem)
      BY OwnerIs
  <2>3. Owner(r, c, x) = Owner(mem, c, x)
      BY <1>6, <2>1, <2>2 DEF Owner
  <2> DEFINE y == <<c, x>>
             y0 == <<c, <<"S">>>>
  <2>4. y0 # b /\ (y = b => x \in TailKinds)
      BY <1>1, <1>2
  <2>5. /\ Used(r, y) <=> Used(mem, y) \/ y = b
        /\ r.heap[y].val = IF y = b THEN rec.val ELSE mem.heap[y].val
        /\ r.heap[y0].val = mem.heap[y0].val
      BY <1>1, <1>6, <2>4
  <2>6. /\ Worth(mem, c, x) = IF x \in TailKinds /\ ~Used(mem, y) THEN mem.heap[y0].val
                              ELSE mem.heap[y].val
        /\ Worth(r, c, x) = IF x \in TailKinds /\ ~Used(r, y) THEN r.heap[y0].val
                            ELSE r.heap[y].val
      BY DEF Worth
  <2> HIDE DEF y, y0
  <2>7. Worth(r, c, x) = IF y \in {b} THEN rec.val ELSE Worth(mem, c, x)
      BY <2>4, <2>5, <2>6
  <2> QED  BY <2>3, <2>7 DEF y
<1> QED  BY <1>3, <1>7 DEF Writes

\* What the tails in a stem's table lead to.
Foliage(mem, s) == {Root(mem, <<s[1], w>>) : w \in {x \in TailKinds : Used(mem, <<s[1], x>>)}}
\* The foliage of a stem gets a value; without one, the tails of its own are gone.
Assigned(mem, s, v, r) ==
  /\ SameLevels(mem, r)
  /\ \A b \in Box :
       /\ Used(r, b) <=> Used(mem, b) /\ ~(v = None /\ OwnTail(mem, s, b))
       /\ r.heap[b].real = mem.heap[b].real
       /\ r.heap[b].val = IF b \in Foliage(mem, s) THEN v ELSE mem.heap[b].val

\* assign_foliage reaches each tail the stem's table leads to.
LEMMA AssignValues ==
    ASSUME NEW mem, IInv(mem), NEW s, Stem(mem, s), NEW v \in Vals \union {None}
    PROVE  Assigned(mem, s, v, assign_foliage(mem, s, v))
<1> DEFINE idx == mem.heap[s].index
           local == {t \in Tails : idx[t] # Nil /\ mem.heap[idx[t]].real = Nil}
           real == {Seek(mem, idx[t]) : t \in {u \in Tails : idx[u] # Nil} \ local}
           removed == IF v = None THEN local ELSE {}
           gone == {idx[t] : t \in removed}
           replaced == real \union {idx[t] : t \in local \ removed}
           r == assign_foliage(mem, s, v)
           table == [t \in Tails |-> IF t \in removed THEN Nil ELSE idx[t]]
           TailBox(t) == <<s[1], TailVar(t)>>
           New(b) == CASE b \in gone -> FreeBox
                       [] b = s -> [mem.heap[b] EXCEPT !.index = table]
                       [] b \in replaced -> [mem.heap[b] EXCEPT !.val = v]
                       [] OTHER -> mem.heap[b]
           heap == [b \in Box |-> New(b)]
<1>1. /\ s \in Box /\ s[2] = <<"S">> /\ Used(mem, s) /\ mem.heap[s].real = Nil
      /\ s[2] \notin TailKinds
    BY KindFacts DEF Stem
<1>2. ASSUME NEW t \in Tails
      PROVE  /\ TailBox(t) \in Box /\ TailBox(t)[1] = s[1] /\ TailBox(t)[2] = TailVar(t)
             /\ idx[t] = IF Used(mem, TailBox(t)) THEN TailBox(t) ELSE Nil
             /\ TailBox(t)[2] \in TailKinds /\ TailBox(t) # Nil
    BY <1>1, FindTailIs, BoxFacts, KindFacts
<1>3. mem \in Memory /\ mem.heap \in [Box -> Cell]
    BY MemoryType DEF IInv
<1>4. r = [mem EXCEPT !.heap = heap]
    BY DEF assign_foliage
<1>5. ASSUME NEW b
      PROVE  b \in Foliage(mem, s) <=>
                \E t \in Tails : Used(mem, TailBox(t)) /\ b = Root(mem, TailBox(t))
    BY DEF Foliage, TailKinds
<1> HIDE DEF TailBox, idx, r
<1>6. ASSUME NEW t \in Tails, Used(mem, TailBox(t))
      PROVE  /\ idx[t] # Nil /\ idx[t] = TailBox(t) /\ Seek(mem, idx[t]) = Root(mem, TailBox(t))
             /\ t \in local <=> mem.heap[TailBox(t)].real = Nil
             /\ t \in local => Root(mem, TailBox(t)) = idx[t]
  <2>1. idx[t] = TailBox(t) /\ idx[t] # Nil /\ TailBox(t) \in Box
      BY <1>2, <1>6
  <2>2. Seek(mem, TailBox(t)) = Root(mem, TailBox(t))
      BY <2>1, FlatIs, SeekIs
  <2> QED  BY <2>1, <2>2 DEF Root
<1>7. \A t \in Tails : idx[t] # Nil => Used(mem, TailBox(t))
    BY <1>2
<1>8. ASSUME NEW b
      PROVE  b \in Foliage(mem, s) <=> b \in gone \/ b \in replaced
  <2>1. b \in gone \/ b \in replaced <=> b \in real \/ \E t \in local : b = idx[t]
      OBVIOUS
  <2>2. ASSUME NEW t \in Tails, Used(mem, TailBox(t)), b = Root(mem, TailBox(t))
        PROVE  b \in real \/ \E u \in local : b = idx[u]
      BY <1>6, <2>2
  <2>3. ASSUME b \in real
        PROVE  \E t \in Tails : Used(mem, TailBox(t)) /\ b = Root(mem, TailBox(t))
      BY <1>6, <1>7, <2>3
  <2>4. ASSUME NEW t \in local, b = idx[t]
        PROVE  \E u \in Tails : Used(mem, TailBox(u)) /\ b = Root(mem, TailBox(u))
      BY <1>6, <1>7, <2>4
  <2> QED  BY <1>5, <2>1, <2>2, <2>3, <2>4
<1>9. ASSUME NEW b \in Box
      PROVE  (\E t \in local : b = idx[t]) <=> OwnTail(mem, s, b)
  <2>1. ASSUME NEW t \in local, b = idx[t] PROVE OwnTail(mem, s, b)
      BY <1>2, <1>6, <1>7, <2>1 DEF OwnTail
  <2>2. ASSUME OwnTail(mem, s, b) PROVE \E t \in local : b = idx[t]
      <3>1. PICK t \in Tails : b = TailBox(t)
          BY <2>2, BoxFacts DEF OwnTail, TailKinds, TailBox
      <3>2. idx[t] = b /\ t \in local
          BY <1>6, <2>2, <3>1 DEF OwnTail
      <3> QED  BY <3>2
  <2> QED  BY <2>1, <2>2
<1>10. ASSUME NEW b \in Box PROVE b \in gone <=> v = None /\ OwnTail(mem, s, b)
    BY <1>9
<1>11. s \notin Foliage(mem, s)
  <2>1. ASSUME NEW t \in Tails, Used(mem, TailBox(t)), s = Root(mem, TailBox(t)) PROVE FALSE
      <3>1. s[2] = TailVar(t)
          BY <1>2, <2>1 DEF Root, IInv, Parts, Leads
      <3> QED  BY <1>1, <3>1, KindFacts
  <2> QED  BY <1>5, <2>1
<1>12. ASSUME NEW b \in real
      PROVE  b \in Box /\ b[2] \in TailKinds /\ b[1] # s[1]
  <2>1. PICK t \in Tails : idx[t] # Nil /\ t \notin local /\ b = Seek(mem, idx[t])
      OBVIOUS
  <2>2. idx[t] = TailBox(t) /\ mem.heap[TailBox(t)].real # Nil /\ TailBox(t) \in Box
      BY <1>2, <2>1
  <2>3. b = mem.heap[TailBox(t)].real
      BY <2>1, <2>2, FlatIs, SeekIs DEF Root
  <2>4. b \in Box /\ b[2] \in TailKinds /\ b[1] < s[1]
      BY <1>2, <2>2, <2>3 DEF IInv, Parts, Leads
  <2>5. b[1] \in Nat /\ s[1] \in Nat
      BY <1>1, <2>4, BoxFacts DEF Numbers
  <2> QED  BY <2>4, <2>5
<1>13. ASSUME NEW b \in Box
      PROVE  b \in gone => b # s /\ b \notin replaced
  <2>1. b \in replaced /\ b \in gone => b \in real
      OBVIOUS
  <2> QED  BY <1>1, <1>10, <1>12, <2>1 DEF OwnTail
<1>14. s \notin replaced
    BY <1>8, <1>11
<1> HIDE DEF local, real, removed, gone, replaced, table
<1>15. ASSUME NEW b \in Box
       PROVE  /\ New(b).state = "used" <=> Used(mem, b) /\ ~(v = None /\ OwnTail(mem, s, b))
              /\ New(b).real = mem.heap[b].real
              /\ New(b).val = IF b \in Foliage(mem, s) THEN v ELSE mem.heap[b].val
  <2> DEFINE e == mem.heap[b]
  <2>1. e \in Cell
      BY <1>3
  <2> HIDE DEF e
  <2>2. CASE b \in gone
      <3>0. b # s /\ b \notin replaced
          BY <1>13, <2>2
      <3>1. New(b) = FreeBox
          BY <2>2, <3>0
      <3>2. v = None /\ OwnTail(mem, s, b) /\ b \in Foliage(mem, s)
          BY <1>8, <1>10, <2>2
      <3> HIDE DEF New
      <3> QED  BY <3>1, <3>2 DEF FreeBox, OwnTail
  <2>3. CASE b \notin gone /\ b = s
      <3>0. b \notin replaced
          BY <1>14, <2>3
      <3>1. New(b) = [mem.heap[b] EXCEPT !.index = table]
          BY <2>3, <3>0
      <3>2. New(b) = [e EXCEPT !.index = table]
          BY <3>1, Zenon DEF e
      <3> HIDE DEF New
      <3>3. New(b).state = e.state /\ New(b).real = e.real /\ New(b).val = e.val
          BY <2>1, <3>2 DEF Cell
      <3> QED  BY <1>10, <1>11, <2>3, <3>3 DEF e, Used
  <2>4. CASE b \notin gone /\ b # s /\ b \in replaced
      <3>1. New(b) = [e EXCEPT !.val = v]
          BY <2>4 DEF e
      <3> HIDE DEF New
      <3>2. New(b).state = e.state /\ New(b).real = e.real /\ New(b).val = v
          BY <2>1, <3>1 DEF Cell
      <3> QED  BY <1>8, <1>10, <2>4, <3>2 DEF e, Used
  <2>5. CASE b \notin gone /\ b # s /\ b \notin replaced
      <3>1. New(b) = e
          BY <2>5 DEF e
      <3> HIDE DEF New
      <3> QED  BY <1>8, <1>10, <2>5, <3>1 DEF e, Used
  <2> QED  BY <2>2, <2>3, <2>4, <2>5
<1>16. \A b \in Box : heap[b] = New(b)
    OBVIOUS
<1> HIDE DEF heap, New
<1>17. r.heap = heap /\ r.lev = mem.lev /\ r.cur = mem.cur /\ r.next = mem.next
    BY <1>3, <1>4 DEF Memory
<1> QED  BY <1>15, <1>16, <1>17 DEF Assigned, SameLevels, Used, r

\* When a stem's value and then its foliage are assigned, the stem and all its tails
\* have the value.
LEMMA AssignedWrites ==
    ASSUME NEW mem, IInv(mem), NEW s, s = At(mem, <<"S">>), Used(mem, s), NEW v,
           NEW one, Revaluing(mem, s, v, one), NEW r, Assigned(one, s, v, r)
    PROVE  Writes(mem, r, {At(mem, w) : w \in StemKinds}, v)
<1> DEFINE C == {At(mem, w) : w \in StemKinds}
           k == s[1]
<1>1. <<"S">> \in Kinds /\ <<"S">> \notin TailKinds /\ mem.cur \in Ids(mem) /\ TailKinds \subseteq Kinds
    BY KindFacts, CurIs DEF Kinds
<1>2. s \in Box /\ s = <<k, <<"S">>>> /\ k \in Ids(mem) /\ k \in Numbers
    BY <1>1, OwnerIs DEF At, Spot
<1>3. ASSUME NEW w \in TailKinds
      PROVE  /\ <<k, w>> \in Box /\ At(mem, w) \in Box /\ At(mem, w)[2] = w
             /\ Used(mem, <<k, w>>) <=> Used(mem, At(mem, w))
             /\ Used(mem, <<k, w>>) => Root(mem, <<k, w>>) = At(mem, w)
             /\ ~Used(mem, <<k, w>>) => At(mem, w) = <<k, w>>
  <2>1. PICK t \in Tails : w = TailVar(t)
      BY DEF TailKinds
  <2>2. <<k, w>> \in Box /\ w \in Kinds
      BY <1>1, <1>2, BoxFacts
  <2>3. At(mem, w)[2] = w
      BY DEF At, Spot
  <2> QED  BY <1>1, <2>1, <2>2, <2>3, FoundTailAt DEF At
<1>4. SameRuns(mem, r)
  <2>1. SameLevels(mem, r)
      BY DEF Revaluing, Assigned, SameLevels
  <2> QED  BY <2>1, LevelsSame DEF SameLevels, SameRuns
<1>5. ASSUME NEW b \in Box
      PROVE  b \in Foliage(one, s) <=> b \in Foliage(mem, s)
  <2>1. \A w \in TailKinds : /\ Used(one, <<k, w>>) <=> Used(mem, <<k, w>>)
                             /\ Root(one, <<k, w>>) = Root(mem, <<k, w>>)
      BY <1>3 DEF Revaluing, Root
  <2> QED  BY <2>1 DEF Foliage
<1>6. ASSUME NEW b \in Box
      PROVE  /\ Used(r, b) <=> Used(mem, b) /\ ~(v = None /\ OwnTail(mem, s, b))
             /\ r.heap[b].real = mem.heap[b].real
             /\ r.heap[b].val = IF b \in Foliage(mem, s) \/ b = s THEN v ELSE mem.heap[b].val
  <2>1. OwnTail(one, s, b) <=> OwnTail(mem, s, b)
      BY DEF Revaluing, OwnTail
  <2> QED  BY <1>5, <2>1 DEF Revaluing, Assigned
<1>7. ASSUME NEW c \in Ids(mem), NEW x \in Kinds
      PROVE  /\ <<c, x>> \in Box /\ Keeper(r, c, x) = Keeper(mem, c, x)
  <2> DEFINE y == <<c, x>>
  <2>1. y \in Box /\ y[1] = c
      BY MemoryType, BoxFacts DEF IInv
  <2> HIDE DEF y
  <2>2. Root(r, y) = Root(mem, y) /\ (OwnTail(mem, s, y) => Root(mem, y) = y)
      BY <1>6, <2>1 DEF Root, OwnTail
  <2>3. (IF Used(r, y) THEN Root(r, y)[1] ELSE c) = (IF Used(mem, y) THEN Root(mem, y)[1] ELSE c)
      BY <1>6, <2>1, <2>2
  <2> QED  BY <2>1, <2>3 DEF y, Keeper
<1>8. ASSUME NEW c \in Ids(mem), NEW x \in Kinds
      PROVE  Owner(r, c, x) = Owner(mem, c, x)
  <2>1. Home(r, c, x) = Home(mem, c, x)
      BY <1>1, <1>7 DEF Home
  <2>2. Home(mem, c, x) \in Ids(mem)
      BY OwnerIs
  <2> QED  BY <1>7, <2>1, <2>2 DEF Owner
<1>9. ASSUME NEW b PROVE b \in Foliage(mem, s) <=>
                            \E w \in TailKinds : Used(mem, <<k, w>>) /\ b = At(mem, w)
    BY <1>3 DEF Foliage
<1>10. ASSUME NEW c \in Ids(mem), NEW x \in Kinds
       PROVE  Worth(r, c, x) = IF <<c, x>> \in C THEN v ELSE Worth(mem, c, x)
  <2> DEFINE y == <<c, x>>
             y0 == <<c, <<"S">>>>
  <2>1. /\ Worth(mem, c, x) = IF x \in TailKinds /\ ~Used(mem, y) THEN mem.heap[y0].val
                              ELSE mem.heap[y].val
        /\ Worth(r, c, x) = IF x \in TailKinds /\ ~Used(r, y) THEN r.heap[y0].val
                            ELSE r.heap[y].val
      BY DEF Worth
  <2>2. y \in Box /\ y0 \in Box /\ y[1] = c /\ y[2] = x /\ y0[1] = c /\ y0[2] = <<"S">>
      BY <1>1, <1>7
  <2>3. y0 = s <=> c = k
      BY <1>2
  <2>4. y = s <=> c = k /\ x = <<"S">>
      BY <1>2
  <2>5. \A w \in StemKinds : At(mem, w)[2] = w
      BY DEF At, Spot
  <2>6. y \in C <=> x \in StemKinds /\ y = At(mem, x)
      BY <2>2, <2>5
  <2>7. y = <<k, x>> <=> c = k
      OBVIOUS
  <2>8. OwnTail(mem, s, y) <=> c = k /\ x \in TailKinds /\ Used(mem, y) /\ Root(mem, y) = y
      <3>1. mem.heap[y].real = Nil <=> Root(mem, y) = y
          BY <2>2, BoxFacts DEF Root, IInv, Parts, Leads
      <3> QED  BY <2>2, <3>1 DEF OwnTail
  <2>9. x \in TailKinds => <<k, x>> # s /\ y # s
      BY <1>1, <1>2, <2>2
  <2>10. ASSUME NEW b, b[2] \notin TailKinds PROVE b \notin Foliage(mem, s)
      BY <1>3, <1>9, <2>10
  <2>11. y0 \notin Foliage(mem, s)
      BY <1>1, <2>2, <2>10
  <2>12. \A w \in TailKinds : y = At(mem, w) => w = x
      BY <1>3, <2>2
  <2>13. y \in Foliage(mem, s) <=> x \in TailKinds /\ Used(mem, <<k, x>>) /\ y = At(mem, x)
    <3> HIDE DEF y, k
    <3> QED  BY <1>9, <2>12
  <2> DEFINE z == <<k, x>>
  <2>14. /\ Used(r, y) <=> Used(mem, y) /\ ~(v = None /\ OwnTail(mem, s, y))
         /\ r.heap[y].val = IF y \in Foliage(mem, s) \/ y = s THEN v ELSE mem.heap[y].val
         /\ r.heap[y0].val = IF y0 = s THEN v ELSE mem.heap[y0].val
      BY <1>6, <2>2, <2>11
  <2>15. y = z <=> c = k
      OBVIOUS
  <2>16. x \in TailKinds => /\ Used(mem, z) => Root(mem, z) = At(mem, x)
                            /\ ~Used(mem, z) => At(mem, x) = z
      BY <1>3
  <2>17. y \in Foliage(mem, s) <=> x \in TailKinds /\ Used(mem, z) /\ y = At(mem, x)
      BY <2>13
  <2> HIDE DEF y, y0, C, z, k
  <2>18. CASE x \in TailKinds /\ Used(mem, z)
      <3>1. y \in C <=> y = At(mem, x)
          BY <2>6, <2>18 DEF StemKinds
      <3>2. y # At(mem, x) => ~OwnTail(mem, s, y)
          BY <2>8, <2>15, <2>16, <2>18
      <3>3. OwnTail(mem, s, y) => y0 = s
          BY <2>3, <2>8
      <3>4. ~Used(mem, y) => y0 # s
          BY <2>3, <2>15, <2>18
      <3>5. y = At(mem, x) => Used(mem, y)
          <4>1. Used(mem, z) <=> Used(mem, At(mem, x))
              BY <1>3, <2>18 DEF z
          <4> QED  BY <2>18, <4>1
      <3>6. CASE y = At(mem, x)
          BY <2>1, <2>14, <2>17, <2>18, <3>1, <3>3, <3>5, <3>6 DEF y
      <3>7. CASE y # At(mem, x)
          BY <2>1, <2>9, <2>14, <2>17, <2>18, <3>1, <3>2, <3>4, <3>7 DEF y
      <3> QED  BY <3>6, <3>7
  <2>19. CASE x \in TailKinds /\ ~Used(mem, z)
      <3>1. y \in C <=> y = z
          BY <2>6, <2>16, <2>19 DEF StemKinds
      <3>2. ~OwnTail(mem, s, y) /\ y \notin Foliage(mem, s)
          BY <2>8, <2>15, <2>17, <2>19
      <3>3. y = z <=> y0 = s
          BY <2>3, <2>15
      <3> QED  BY <2>1, <2>9, <2>14, <2>19, <3>1, <3>2, <3>3 DEF y
  <2>20. CASE x \notin TailKinds
      <3>1. y \in C <=> y = s
          BY <1>1, <2>2, <2>4, <2>6, <2>20 DEF StemKinds
      <3>2. y \notin Foliage(mem, s)
          BY <2>17, <2>20
      <3> QED  BY <2>1, <2>14, <2>20, <3>1, <3>2 DEF y
  <2> QED  BY <2>18, <2>19, <2>20
<1> QED  BY <1>4, <1>8, <1>10 DEF Writes

\* A procedure without the stem keeps its tails, which have no value.
LEMMA BareStem ==
    ASSUME NEW mem, IInv(mem), NEW a \in Ids(mem), ~Used(mem, <<a, <<"S">>>>),
           NEW w \in StemKinds
    PROVE  /\ Spot(mem, a, w) = <<a, w>> /\ ~Used(mem, <<a, w>>) /\ w \in Kinds
           /\ Worth(mem, a, w) = None
<1>1. <<"S">> \in Kinds /\ <<"S">> \notin TailKinds /\ TailKinds \subseteq Kinds /\ a \in Numbers
    BY KindFacts, MemoryType DEF Kinds, IInv
<1>2. w \in Kinds /\ ~Used(mem, <<a, w>>)
    BY <1>1, StemOfTail DEF StemKinds
<1>3. Home(mem, a, w) = a
    BY DEF Home, Keeper
<1>4. Spot(mem, a, w) = <<a, w>>
    BY <1>2, <1>3 DEF Spot, Owner, Keeper
<1>5. ASSUME NEW x \in Kinds, ~Used(mem, <<a, x>>) PROVE mem.heap[<<a, x>>].val = None
  <2> DEFINE b == <<a, x>>
  <2>1. b \in Box /\ b[1] \in Ids(mem)
      BY <1>1, BoxFacts
  <2>2. mem.heap[b] = FreeBox
      BY <1>5, <2>1, FreeAt
  <2> QED  BY <2>2 DEF FreeBox
<1>6. Worth(mem, a, w) = None
    BY <1>1, <1>2, <1>5 DEF Worth
<1> QED  BY <1>2, <1>4, <1>6

\* A name without a box is kept by the procedure, without a value.
LEMMA BareName ==
    ASSUME NEW mem, IInv(mem), NEW a \in Ids(mem), NEW n \in Names, ~Used(mem, <<a, <<n>>>>)
    PROVE  /\ Spot(mem, a, <<n>>) = <<a, <<n>>>> /\ <<n>> \in Kinds
           /\ Worth(mem, a, <<n>>) = None
<1>1. <<n>> \in Kinds /\ <<n>> \notin TailKinds /\ a \in Numbers
    BY KindFacts, MemoryType DEF IInv
<1>2. Spot(mem, a, <<n>>) = <<a, <<n>>>>
    BY <1>1 DEF Spot, Owner, Keeper, Home
<1> DEFINE b == <<a, <<n>>>>
<1>3. b \in Box /\ b[1] \in Ids(mem)
    BY <1>1, BoxFacts
<1>4. mem.heap[b] = FreeBox
    BY <1>3, FreeAt
<1>5. Worth(mem, a, <<n>>) = mem.heap[b].val
    BY <1>1 DEF Worth
<1> QED  BY <1>1, <1>2, <1>4, <1>5 DEF FreeBox

\* Nothing changes where variables get the value they have.
LEMMA SameWrites ==
    ASSUME NEW mem, NEW r, NEW C, NEW v, Same(mem, r),
           \A a \in Ids(mem), w \in Kinds : <<a, w>> \in C => Worth(mem, a, w) = v
    PROVE  Writes(mem, r, C, v)
BY DEF Same, Writes

\* After a change of nothing a variable is where it was.
LEMMA SameAt ==
    ASSUME NEW mem, IInv(mem), NEW r, Same(mem, r), NEW w \in Kinds
    PROVE  At(r, w) = At(mem, w)
BY CurIs DEF Same, Writes, SameRuns, At, Spot

-----------------------------------------------------------------------------
(* What assignments and drops write. *)

\* A table that leads a name nowhere has no box for it.
LEMMA NoBox ==
    ASSUME NEW mem, IInv(mem), NEW d \in Depths(mem), NEW n \in Names, findsimple(mem, d, n) = Nil
    PROVE  ~Used(mem, <<Id(mem, d), <<n>>>>)
BY FindIs

\* A simple variable of the running procedure is assigned.
LEMMA SetSimpleWrites ==
    ASSUME TablesSuffice, NEW mem, IInv(mem), NEW n \in Simples, NEW v \in Vals \union {None},
           n = "X" => v \in Tails \union {None}
    PROVE  Writes(mem, setvalue_simple(mem, n, v), {At(mem, <<n>>)}, v)
<1> DEFINE d == Cur(mem)
           b == findsimple(mem, d, n)
           r == setvalue_simple(mem, n, v)
<1>1. n \in Names /\ d \in Depths(mem) /\ Id(mem, d) = mem.cur /\ mem.cur \in Ids(mem)
      /\ <<n>> \in Kinds /\ <<n>> # <<"S">> /\ n # "S"
    BY KindFacts, CurIs
<1>2. CASE b # Nil
  <2>1. b = At(mem, <<n>>) /\ Used(mem, b)
      BY <1>1, <1>2, FoundAt DEF At
  <2>2. r = Replace(mem, b, v)
      BY <1>2 DEF setvalue_simple
  <2> HIDE DEF b, r
  <2> QED  BY <1>1, <2>1, <2>2, ReplaceWrites DEF r, At
<1>3. CASE b = Nil
  <2> DEFINE rec == newbox(mem, v, NoIndex)
  <2>1. mem.lev[d].of[n] = Nil /\ ~Used(mem, <<Id(mem, d), <<n>>>>)
      BY <1>1, <1>3, NotFound, NoBox
  <2>2. Fits(mem, d, n, rec)
      BY <1>1, NewboxFits
  <2>3. r = Insert(mem, d, n, rec)
      BY <1>3 DEF setvalue_simple
  <2>4. rec.state = "used" /\ rec.real = Nil /\ rec.val = v
      BY NewboxIs
  <2> HIDE DEF r, rec, d
  <2>5. Inserted(mem, d, n, rec, r)
      BY <1>1, <2>1, <2>2, <2>3, InsertNew
  <2>6. Writes(mem, r, {<<Id(mem, d), w>> : w \in Reach(n)}, v)
      BY <1>1, <2>1, <2>4, <2>5, InsertWrites
  <2>7. At(mem, <<n>>) = <<mem.cur, <<n>>>>
      BY <1>1, <2>1, BareName DEF At
  <2>8. {<<Id(mem, d), w>> : w \in Reach(n)} = {At(mem, <<n>>)}
      BY <1>1, <2>7 DEF Reach
  <2> QED  BY <2>6, <2>8 DEF r
<1> QED  BY <1>2, <1>3

\* The value and the foliage of a stem are assigned.
LEMMA AssignWrites ==
    ASSUME NEW mem, IInv(mem), NEW s, s = At(mem, <<"S">>), Used(mem, s),
           NEW v \in Vals \union {None}
    PROVE  Writes(mem, assign_foliage(Replace(mem, s, v), s, v), {At(mem, w) : w \in StemKinds}, v)
<1> DEFINE one == Replace(mem, s, v)
<1>1. <<"S">> \in Kinds /\ mem.cur \in Ids(mem) /\ <<"S">> # <<"X">>
    BY KindFacts, CurIs
<1>2. s \in Box /\ s[2] = <<"S">> /\ mem.heap[s].real = Nil
    BY <1>1, OwnerIs DEF At, Spot
<1>3. Revaluing(mem, s, v, one)
    BY <1>2, ReplaceRevalues
<1>4. Revalued(mem, one)
    BY <1>1, <1>2, ReplaceIs
<1> HIDE DEF one
<1>5. IInv(one) /\ Stem(one, s)
    BY <1>2, <1>3, <1>4, RevaluedInv DEF Stem, Revaluing
<1>6. Assigned(one, s, v, assign_foliage(one, s, v))
    BY <1>5, AssignValues
<1> QED  BY <1>3, <1>6, AssignedWrites DEF one

\* The value of a stem without a tail is assigned.
LEMMA StemWrites ==
    ASSUME NEW mem, IInv(mem), NEW s, s = At(mem, <<"S">>), Used(mem, s),
           mem.heap[s].index = NoTails, NEW v
    PROVE  Writes(mem, Replace(mem, s, v), {At(mem, w) : w \in StemKinds}, v)
<1> DEFINE one == Replace(mem, s, v)
<1>1. <<"S">> \in Kinds /\ mem.cur \in Ids(mem)
    BY KindFacts, CurIs
<1>2. s \in Box /\ s[2] = <<"S">> /\ mem.heap[s].real = Nil /\ Stem(mem, s)
    BY <1>1, OwnerIs DEF At, Spot, Stem
<1>3. Revaluing(mem, s, v, one)
    BY <1>2, ReplaceRevalues
<1> HIDE DEF one
<1>4. ASSUME NEW w \in TailKinds PROVE ~Used(mem, <<s[1], w>>)
  <2>1. PICK t \in Tails : w = TailVar(t)
      BY DEF TailKinds
  <2>2. mem.heap[s].index[t] = Nil
      BY DEF NoTails
  <2> QED  BY <1>2, <2>1, <2>2, TailFound
<1>5. \A b \in Box : ~OwnTail(one, s, b)
    BY <1>3, <1>4, BoxFacts DEF OwnTail, Revaluing
<1>6. Foliage(one, s) = {}
  <2>1. \A w \in TailKinds : <<s[1], w>> \in Box
      BY <1>2, BoxFacts DEF Kinds
  <2> QED  BY <1>3, <1>4, <2>1 DEF Foliage, Revaluing
<1>7. Assigned(one, s, v, one)
    BY <1>5, <1>6 DEF Assigned, SameLevels
<1> QED  BY <1>3, <1>7, AssignedWrites DEF one

\* A stem of the running procedure is assigned.
LEMMA SetStemWrites ==
    ASSUME TablesSuffice, NEW mem, IInv(mem), NEW v \in Vals \union {None}
    PROVE  Writes(mem, setvalue_stem(mem, v), {At(mem, w) : w \in StemKinds}, v)
<1> DEFINE d == Cur(mem)
           s == findsimple(mem, d, "S")
           r == setvalue_stem(mem, v)
           C == {At(mem, w) : w \in StemKinds}
<1>1. "S" \in Names /\ d \in Depths(mem) /\ Id(mem, d) = mem.cur /\ mem.cur \in Ids(mem)
      /\ "S" # "X"
    BY KindFacts, CurIs
<1>2. CASE s # Nil
  <2>1. s = At(mem, <<"S">>) /\ Used(mem, s)
      BY <1>1, <1>2, FoundAt DEF At
  <2>2. r = assign_foliage(Replace(mem, s, v), s, v)
      BY <1>2 DEF setvalue_stem
  <2> HIDE DEF s, r
  <2> QED  BY <2>1, <2>2, AssignWrites DEF r
<1>3. CASE s = Nil
  <2> DEFINE rec == newbox(mem, v, NoTails)
  <2>1. mem.lev[d].of["S"] = Nil /\ ~Used(mem, <<Id(mem, d), <<"S">>>>)
      BY <1>1, <1>3, NotFound, NoBox
  <2>2. Fits(mem, d, "S", rec)
      BY <1>1, NewboxFits
  <2>3. r = Insert(mem, d, "S", rec)
      BY <1>3 DEF setvalue_stem
  <2>4. rec.state = "used" /\ rec.real = Nil /\ rec.val = v
      BY NewboxIs
  <2> HIDE DEF r, rec, d
  <2>5. Inserted(mem, d, "S", rec, r)
      BY <1>1, <2>1, <2>2, <2>3, InsertNew
  <2>6. Writes(mem, r, {<<Id(mem, d), w>> : w \in Reach("S")}, v)
      BY <1>1, <2>1, <2>4, <2>5, InsertWrites
  <2>7. \A w \in StemKinds : At(mem, w) = <<mem.cur, w>>
      BY <1>1, <2>1, BareStem DEF At
  <2>8. {<<Id(mem, d), w>> : w \in Reach("S")} = C
      BY <1>1, <2>7 DEF Reach
  <2> QED  BY <2>6, <2>8 DEF r
<1> QED  BY <1>2, <1>3

\* A tail of the running procedure's stem gets a value, and a box if it has none.
LEMMA TailSetWrites ==
    ASSUME NEW mem, IInv(mem), NEW s, s = At(mem, <<"S">>), Used(mem, s), NEW t \in Tails,
           NEW v \in Vals \union {None}
    PROVE  LET b == FindTail(mem, s, t)
               r == IF b # Nil THEN Replace(mem, b, v)
                    ELSE InsertTail(mem, s, t, newbox(mem, v, NoIndex))
           IN  Writes(mem, r, {At(mem, TailVar(t))}, v)
<1> DEFINE b == FindTail(mem, s, t)
           rec == newbox(mem, v, NoIndex)
           x == At(mem, TailVar(t))
<1>1. mem.cur \in Ids(mem) /\ TailVar(t) \in Kinds /\ TailVar(t) # <<"S">>
    BY KindFacts, CurIs DEF TailVar
<1>2. /\ Stem(mem, s) /\ b = IF Used(mem, x) THEN x ELSE Nil
      /\ b # Nil <=> Used(mem, x)
      /\ Used(mem, <<s[1], TailVar(t)>>) <=> Used(mem, x)
      /\ ~Used(mem, x) => x = <<s[1], TailVar(t)>>
    BY <1>1, FoundTailAt DEF At
<1> HIDE DEF b, x
<1>3. CASE b # Nil
  <2>1. b = Spot(mem, mem.cur, TailVar(t)) /\ Used(mem, b) /\ b = x
      BY <1>2, <1>3 DEF x, At
  <2>2. Writes(mem, Replace(mem, b, v), {x}, v)
      BY <1>1, <2>1, ReplaceWrites
  <2> QED  BY <1>3, <2>2 DEF b, x
<1>4. CASE b = Nil
  <2> DEFINE r == InsertTail(mem, s, t, rec)
  <2>1. rec = [state |-> "used", val |-> v, real |-> Nil, valid |-> mem.cur,
               hwired |-> 0, index |-> NoIndex]
      BY NewboxIs
  <2>2. mem.cur \in Nat /\ NoIndex \in Tables /\ Nil \in Place
      BY MemoryType DEF IInv, Tables, Place
  <2> HIDE DEF rec
  <2>3. rec \in Cell /\ rec.state = "used" /\ rec.real = Nil /\ rec.val = v
      BY <2>1, <2>2 DEF Cell
  <2>4. TailInserted(mem, s, t, rec, r)
      BY <1>2, <2>3, InsertTailIs
  <2> HIDE DEF r
  <2>5. x = <<s[1], TailVar(t)>> /\ ~Used(mem, x)
      BY <1>2, <1>4
  <2>6. Writes(mem, r, {x}, v)
      BY <1>2, <2>3, <2>4, <2>5, TailWrites
  <2> QED  BY <1>4, <2>6 DEF r, rec, b, x
<1> QED  BY <1>3, <1>4

\* A stem that is made has no value: the program sees nothing of it.
LEMMA MakeStemSame ==
    ASSUME TablesSuffice, NEW mem, IInv(mem), NEW d \in Depths(mem),
           findsimple(mem, d, "S") = Nil
    PROVE  LET r == make_stem(mem, d)
           IN  /\ Same(mem, r) /\ IInv(r) /\ Cur(r) = Cur(mem) /\ Depths(r) = Depths(mem)
               /\ r.cur = mem.cur /\ r.node = mem.node
               /\ findsimple(r, d, "S") # Nil
               /\ \A c \in Box : c # <<Id(mem, d), <<"S">>>> => r.heap[c] = mem.heap[c]
               /\ ~Used(mem, <<Id(mem, d), <<"S">>>>)
<1> DEFINE rec == newbox(mem, None, NoTails)
           r == make_stem(mem, d)
<1>1. "S" \in Names /\ "S" # "X"
    BY KindFacts
<1>2. mem.lev[d].of["S"] = Nil /\ ~Used(mem, <<Id(mem, d), <<"S">>>>)
    BY <1>1, NotFound, NoBox
<1>3. Fits(mem, d, "S", rec)
    BY <1>1, NewboxFits
<1>4. r = Insert(mem, d, "S", rec)
    BY DEF make_stem
<1>5. rec.state = "used" /\ rec.real = Nil /\ rec.val = None
    BY NewboxIs
<1>6. /\ IInv(r) /\ Cur(r) = Cur(mem) /\ Depths(r) = Depths(mem)
      /\ r.cur = mem.cur /\ r.node = mem.node
      /\ findsimple(r, d, "S") # Nil
      /\ \A c \in Box : c # <<Id(mem, d), <<"S">>>> => r.heap[c] = mem.heap[c]
    BY <1>2, <1>4, MakeStem
<1> HIDE DEF r, rec
<1>7. Inserted(mem, d, "S", rec, r)
    BY <1>1, <1>2, <1>3, <1>4, InsertNew
<1>8. Same(mem, r)
    BY <1>1, <1>2, <1>5, <1>7, InsertSame
<1> QED  BY <1>2, <1>6, <1>8 DEF r

\* A compound variable is assigned by its name.
LEMMA SetTailWrites ==
    ASSUME TablesSuffice, NEW mem, IInv(mem), NEW t \in Tails, NEW v \in Vals \union {None}
    PROVE  Writes(mem, setvalue_compound(mem, t, v), {At(mem, TailVar(t))}, v)
<1> DEFINE d == Cur(mem)
           found == findsimple(mem, d, "S")
           one == IF found # Nil THEN mem ELSE make_stem(mem, d)
           s == findsimple(one, Cur(one), "S")
<1>1. "S" \in Names /\ d \in Depths(mem) /\ TailVar(t) \in Kinds
    BY KindFacts, CurIs
<1>2. Same(mem, one) /\ IInv(one) /\ Cur(one) = d /\ d \in Depths(one) /\ s # Nil
  <2>1. CASE found # Nil
      <3>1. one = mem
          BY <2>1
      <3> HIDE DEF one
      <3> QED  BY <1>1, <2>1, <3>1, SameSelf
  <2>2. CASE found = Nil
      <3>1. one = make_stem(mem, d)
          BY <2>2
      <3> HIDE DEF one
      <3> QED  BY <1>1, <2>2, <3>1, MakeStemSame
  <2> QED  BY <2>1, <2>2
<1> HIDE DEF one
<1>3. s = At(one, <<"S">>) /\ Used(one, s)
  <2>1. Id(one, d) = one.cur
      BY <1>2, CurIs
  <2> QED  BY <1>1, <1>2, <2>1, FoundAt DEF At
<1> HIDE DEF s
<1>4. setvalue_compound(mem, t, v) =
        LET b == FindTail(one, s, t)
        IN  IF b # Nil THEN Replace(one, b, v)
            ELSE InsertTail(one, s, t, newbox(one, v, NoIndex))
    BY DEF setvalue_compound, one, s
<1>5. Writes(one, setvalue_compound(mem, t, v), {At(one, TailVar(t))}, v)
    BY <1>2, <1>3, <1>4, TailSetWrites
<1>6. At(one, TailVar(t)) = At(mem, TailVar(t))
    BY <1>1, <1>2, SameAt
<1> QED  BY <1>2, <1>5, <1>6, SameThen

\* A simple variable is dropped.
LEMMA DropSimpleWrites ==
    ASSUME NEW mem, IInv(mem), NEW n \in Simples
    PROVE  Writes(mem, drop_var_simple(mem, n), {At(mem, <<n>>)}, None)
<1> DEFINE d == Cur(mem)
           b == findsimple(mem, d, n)
           r == drop_var_simple(mem, n)
<1>1. n \in Names /\ d \in Depths(mem) /\ Id(mem, d) = mem.cur /\ mem.cur \in Ids(mem)
      /\ <<n>> \in Kinds /\ <<n>> # <<"S">>
    BY KindFacts, CurIs
<1>2. CASE b # Nil
  <2>1. b = At(mem, <<n>>) /\ Used(mem, b)
      BY <1>1, <1>2, FoundAt DEF At
  <2>2. r = Replace(mem, b, None)
      BY <1>2 DEF drop_var_simple
  <2> HIDE DEF b, r
  <2> QED  BY <1>1, <2>1, <2>2, ReplaceWrites DEF r, At
<1>3. CASE b = Nil
  <2>1. r = mem
      BY <1>3 DEF drop_var_simple
  <2>2. At(mem, <<n>>) = <<mem.cur, <<n>>>> /\ Worth(mem, mem.cur, <<n>>) = None
      BY <1>1, <1>3, NoBox, BareName DEF At
  <2> HIDE DEF r
  <2>3. \A a \in Ids(mem), w \in Kinds : <<a, w>> \in {At(mem, <<n>>)} => Worth(mem, a, w) = None
      BY <2>2
  <2> QED  BY <2>1, <2>3, SameSelf, SameWrites DEF r
<1> QED  BY <1>2, <1>3

\* A stem is dropped.
LEMMA DropStemWrites ==
    ASSUME NEW mem, IInv(mem)
    PROVE  Writes(mem, drop_var_stem(mem), {At(mem, w) : w \in StemKinds}, None)
<1> DEFINE d == Cur(mem)
           s == findsimple(mem, d, "S")
           r == drop_var_stem(mem)
           C == {At(mem, w) : w \in StemKinds}
<1>1. "S" \in Names /\ d \in Depths(mem) /\ Id(mem, d) = mem.cur /\ mem.cur \in Ids(mem)
    BY KindFacts, CurIs
<1>2. CASE s # Nil
  <2>1. s = At(mem, <<"S">>) /\ Used(mem, s)
      BY <1>1, <1>2, FoundAt DEF At
  <2>2. r = assign_foliage(Replace(mem, s, None), s, None)
      BY <1>2 DEF drop_var_stem
  <2> HIDE DEF s, r
  <2> QED  BY <2>1, <2>2, AssignWrites DEF r
<1>3. CASE s = Nil
  <2>1. r = mem
      BY <1>3 DEF drop_var_stem
  <2>2. ASSUME NEW w \in StemKinds
        PROVE  At(mem, w) = <<mem.cur, w>> /\ Worth(mem, mem.cur, w) = None
      BY <1>1, <1>3, NoBox, BareStem DEF At
  <2> HIDE DEF r
  <2>3. \A a \in Ids(mem), w \in Kinds : <<a, w>> \in C => Worth(mem, a, w) = None
      BY <2>2
  <2> HIDE DEF C
  <2> QED  BY <2>1, <2>3, SameSelf, SameWrites DEF r, C
<1> QED  BY <1>2, <1>3

\* A compound variable is dropped.
LEMMA DropTailWrites ==
    ASSUME TablesSuffice, NEW mem, IInv(mem), NEW t \in Tails
    PROVE  Writes(mem, drop_var_compound(mem, t), {At(mem, TailVar(t))}, None)
<1> DEFINE d == Cur(mem)
           s == findsimple(mem, d, "S")
           b == IF s = Nil THEN Nil ELSE FindTail(mem, s, t)
           r == drop_var_compound(mem, t)
           w == TailVar(t)
<1>1. "S" \in Names /\ d \in Depths(mem) /\ Id(mem, d) = mem.cur /\ mem.cur \in Ids(mem)
      /\ w \in Kinds /\ w \in StemKinds /\ w # <<"S">>
    BY KindFacts, CurIs DEF StemKinds, TailVar
<1>2. CASE s = Nil
  <2>1. r = mem
      BY <1>2 DEF drop_var_compound
  <2>2. At(mem, w) = <<mem.cur, w>> /\ Worth(mem, mem.cur, w) = None
      BY <1>1, <1>2, NoBox, BareStem DEF At
  <2> HIDE DEF r
  <2>3. \A a \in Ids(mem), x \in Kinds : <<a, x>> \in {At(mem, w)} => Worth(mem, a, x) = None
      BY <2>2
  <2> QED  BY <2>1, <2>3, SameSelf, SameWrites DEF r
<1>3. CASE s # Nil /\ b # Nil
  <2>1. s = Spot(mem, mem.cur, <<"S">>) /\ Used(mem, s)
      BY <1>1, <1>3, FoundAt
  <2>2. b = FindTail(mem, s, t)
      BY <1>3
  <2>3. r = Replace(mem, b, None)
      BY <1>3 DEF drop_var_compound
  <2>4. FindTail(mem, s, t) # Nil
      BY <1>3, <2>2
  <2> HIDE DEF s, b, r
  <2>5. b = Spot(mem, mem.cur, w) /\ Used(mem, b)
      BY <1>1, <2>1, <2>2, <2>4, FoundTailAt
  <2> QED  BY <1>1, <2>3, <2>5, ReplaceWrites DEF r, At
<1>4. CASE s # Nil /\ b = Nil
  <2>1. r = setvalue_compound(mem, t, None)
      BY <1>4 DEF drop_var_compound
  <2> HIDE DEF r
  <2> QED  BY <2>1, SetTailWrites DEF r
<1> QED  BY <1>2, <1>3, <1>4

-----------------------------------------------------------------------------
(* What the program does through the nodes. *)

\* A reference through a node changes nothing the program sees.
LEMMA ShortcutSame ==
    ASSUME NEW mem, IInv(mem), NEW nd \in Nodes
    PROVE  LET r == shortcut(mem, nd) IN Same(mem, r) /\ IInv(r)
BY ShortcutKeeps, KeptSame

\* An assignment by name, of any kind of variable.
Reached(mem, n) == {At(mem, w) : w \in Reach(n)}
LEMMA SetWrites ==
    ASSUME TablesSuffice, NEW mem, IInv(mem), NEW n \in Names, NEW v \in Vals \union {None},
           n = "X" => v \in Tails \union {None}
    PROVE  Writes(mem, setvalue(mem, n, v), Reached(mem, n), v)
<1>1. CASE n = "S"
    BY <1>1, SetStemWrites DEF setvalue, Reached, Reach
<1>2. CASE n # "S"
  <2>1. n \in Simples
      BY <1>2 DEF Names
  <2>2. Reached(mem, n) = {At(mem, <<n>>)}
      BY <1>2 DEF Reached, Reach
  <2> QED  BY <1>2, <2>1, <2>2, SetSimpleWrites DEF setvalue
<1> QED  BY <1>1, <1>2

\* After a change of nothing the variables are where they were.
LEMMA SameReached ==
    ASSUME NEW mem, IInv(mem), NEW r, Same(mem, r), NEW n \in Names
    PROVE  Reached(r, n) = Reached(mem, n)
<1>1. Reach(n) \subseteq Kinds
    BY KindFacts DEF Reach, StemKinds, Kinds
<1> QED  BY <1>1, SameAt DEF Reached

\* An assignment through a node: of X, or of a stem without a tail when its node is
\* trusted.
LEMMA SetshortcutWrites ==
    ASSUME TablesSuffice, NEW mem, IInv(mem), NEW nd \in Nodes, NEW v \in Vals,
           nd = NodeX => v \in Tails,
           nd = NodeHead /\ Hit(mem, nd) => mem.heap[mem.node[nd]].index = NoTails
    PROVE  Writes(mem, setshortcut(mem, nd, v), Reached(mem, NodeName(nd)), v)
<1> DEFINE n == NodeName(nd)
           one == Uncache(mem, nd)
           set == setvalue(one, n, v)
           r == setshortcut(mem, nd, v)
<1>1. n \in Names /\ (n = "X" => nd = NodeX) /\ Cur(mem) \in Depths(mem)
      /\ Id(mem, Cur(mem)) = mem.cur /\ mem.cur \in Ids(mem)
    BY NodesDiffer, KindFacts, CurIs DEF NodeName
<1>2. CASE Hit(mem, nd)
  <2> DEFINE b == mem.node[nd]
  <2>1. b # Nil /\ findsimple(mem, Cur(mem), n) = b /\ Seek(mem, b) = b
      BY <1>2, HitIs
  <2>2. b = At(mem, <<n>>) /\ Used(mem, b)
      BY <1>1, <2>1, FoundAt DEF At
  <2>3. r = Replace(mem, b, v)
      BY <1>2, <2>1 DEF setshortcut
  <2> HIDE DEF b, r
  <2>4. CASE nd = NodeX
      <3>1. n = "X"
          BY <2>4 DEF NodeName
      <3>2. n # "S" /\ <<n>> \in Kinds /\ <<n>> # <<"S">>
          BY <3>1, KindFacts
      <3>3. Reached(mem, n) = {b}
          BY <2>2, <3>2 DEF Reached, Reach
      <3> QED  BY <1>1, <2>2, <2>3, <3>2, <3>3, ReplaceWrites DEF r, At
  <2>5. CASE nd # NodeX
      <3>1. n = "S" /\ nd = NodeHead
          BY <2>5 DEF NodeName, Nodes
      <3>2. mem.heap[b].index = NoTails
          BY <1>2, <3>1 DEF b
      <3>3. Reached(mem, n) = {At(mem, w) : w \in StemKinds}
          BY <3>1 DEF Reached, Reach
      <3> QED  BY <2>2, <2>3, <3>1, <3>2, <3>3, StemWrites DEF r
  <2> QED  BY <2>4, <2>5
<1>3. IInv(one) /\ one.node[nd] = Nil /\ Same(mem, one)
    BY UncacheKeeps, KeptSame
<1> HIDE DEF one
<1>4. IInv(set) /\ set.node = one.node /\ (n # "S" => findsimple(set, Cur(set), n) # Nil)
    BY <1>1, <1>3, SetInv
<1>5. Writes(mem, set, Reached(mem, n), v)
  <2>1. Writes(one, set, Reached(one, n), v)
      BY <1>1, <1>3, SetWrites
  <2> QED  BY <1>1, <1>3, <2>1, SameReached, SameThen
<1>6. CASE ~Hit(mem, nd) /\ n = "S"
  <2>1. r = set
      BY <1>6 DEF setshortcut, one
  <2> HIDE DEF r, set
  <2> QED  BY <1>5, <2>1 DEF r
<1>7. CASE ~Hit(mem, nd) /\ n # "S"
  <2> DEFINE b == findsimple(set, Cur(set), n)
  <2>1. r = Cache(set, nd, b)
      BY <1>7 DEF setshortcut, one
  <2> HIDE DEF set, r
  <2>2. Fetched(set, nd, b)
      BY <1>3, <1>4, <1>7 DEF Fetched
  <2> HIDE DEF b
  <2>3. Same(set, r)
      BY <1>4, <2>1, <2>2, CacheKeeps, KeptSame
  <2> QED  BY <1>5, <2>3, ThenSame DEF r
<1> QED  BY <1>2, <1>6, <1>7

\* The head of a compound variable is the running procedure's stem.
LEMMA HeadFoundSame ==
    ASSUME TablesSuffice, NEW mem, IInv(mem), NEW making \in BOOLEAN
    PROVE  LET r == HeadFound(mem, making) IN
           /\ IInv(r) /\ Same(mem, r)
           /\ making => HeadBox(r) = At(r, <<"S">>) /\ Used(r, HeadBox(r))
<1> DEFINE miss == Uncache(mem, NodeHead)
           s == findsimple(miss, Cur(miss), "S")
           r == HeadFound(mem, making)
<1>1. NodeHead \in Nodes /\ NodeName(NodeHead) = "S" /\ "S" \in Names
    BY KindFacts DEF Nodes, NodeX, NodeHead, NodeName
<1>2. ASSUME NEW q, IInv(q), HeadBox(q) = findsimple(q, Cur(q), "S"), HeadBox(q) # Nil
      PROVE  HeadBox(q) = At(q, <<"S">>) /\ Used(q, HeadBox(q))
    BY <1>1, <1>2, CurIs, FoundAt DEF At
<1>3. CASE Hit(mem, NodeHead)
  <2>1. r = mem
      BY <1>3 DEF HeadFound
  <2> DEFINE b == mem.node[NodeHead]
  <2>2. b # Nil /\ findsimple(mem, Cur(mem), "S") = b
      BY <1>1, <1>3, HitIs
  <2>3. HeadBox(mem) = b
      BY <2>2 DEF HeadBox
  <2> HIDE DEF b, r
  <2> QED  BY <1>2, <2>1, <2>2, <2>3, SameSelf DEF r
<1>4. IInv(miss) /\ Same(mem, miss) /\ miss.node[NodeHead] = Nil /\ Cur(miss) \in Depths(miss)
    BY <1>1, UncacheKeeps, KeptSame, CurIs
<1> HIDE DEF miss
<1>5. CASE ~Hit(mem, NodeHead) /\ s # Nil
  <2>1. r = Cache(miss, NodeHead, s)
      BY <1>5 DEF HeadFound, miss
  <2>2. Fetched(miss, NodeHead, s)
      BY <1>1, <1>4, <1>5 DEF Fetched
  <2>3. s # Nil
      BY <1>5
  <2>4. s = findsimple(miss, Cur(miss), "S")
      OBVIOUS
  <2> HIDE DEF r, s
  <2>5. IInv(r) /\ Kept(miss, r) /\ r.node[NodeHead] = s
      BY <1>1, <1>4, <2>1, <2>2, CacheKeeps
  <2>6. HeadBox(r) = s /\ findsimple(r, Cur(r), "S") = s
      BY <1>1, <1>4, <2>3, <2>4, <2>5, KeptFinds DEF HeadBox
  <2>7. Same(mem, r)
      BY <1>4, <2>5, KeptSame, SameAgain
  <2> QED  BY <1>2, <2>3, <2>5, <2>6, <2>7 DEF r
<1>6. CASE ~Hit(mem, NodeHead) /\ s = Nil /\ making
  <2>1. r = make_stem(miss, Cur(miss))
      BY <1>6 DEF HeadFound, miss
  <2> HIDE DEF r
  <2>2. /\ Same(miss, r) /\ IInv(r) /\ Cur(r) = Cur(miss) /\ r.node = miss.node
        /\ findsimple(r, Cur(r), "S") # Nil
      BY <1>4, <1>6, <2>1, MakeStemSame
  <2>3. HeadBox(r) = findsimple(r, Cur(r), "S")
      BY <1>4, <2>2 DEF HeadBox
  <2>4. Same(mem, r)
      BY <1>4, <2>2, SameAgain
  <2> QED  BY <1>2, <2>2, <2>3, <2>4 DEF r
<1>7. CASE ~Hit(mem, NodeHead) /\ s = Nil /\ ~making
  <2>1. r = miss
      BY <1>7 DEF HeadFound, miss
  <2> HIDE DEF r
  <2> QED  BY <1>4, <1>7, <2>1 DEF r
<1> QED  BY <1>3, <1>5, <1>6, <1>7

\* A reference to a compound variable changes nothing the program sees.
LEMMA CompoundGetSame ==
    ASSUME TablesSuffice, NEW mem, IInv(mem)
    PROVE  Same(mem, fix_compound_get(mem))
<1> DEFINE one == HeadFound(mem, FALSE)
<1>1. NodeX \in Nodes
    BY DEF Nodes
<1>2. IInv(one) /\ Same(mem, one)
    BY HeadFoundSame
<1>3. fix_compound_get(mem) = shortcut(one, NodeX)
    BY DEF fix_compound_get
<1> HIDE DEF one
<1> QED  BY <1>1, <1>2, <1>3, ShortcutSame, SameAgain

\* An assignment to a compound variable reaches one tail.
LEMMA CompoundSetWrites ==
    ASSUME TablesSuffice, NEW mem, IInv(mem), NEW v \in Vals
    PROVE  \E t \in Tails : Writes(mem, fix_compound_set(mem, v), {At(mem, TailVar(t))}, v)
<1> DEFINE one == HeadFound(mem, TRUE)
           s == HeadBox(one)
           two == shortcut(one, NodeX)
           t == TailOf(one)
           r == fix_compound_set(mem, v)
<1>1. NodeX \in Nodes /\ <<"S">> \in Kinds
    BY KindFacts DEF Nodes
<1>2. IInv(one) /\ Same(mem, one) /\ s = At(one, <<"S">>) /\ Used(one, s)
    BY HeadFoundSame
<1>3. r = LET b == FindTail(two, s, t)
          IN  IF b # Nil THEN Replace(two, b, v)
              ELSE InsertTail(two, s, t, newbox(two, v, NoIndex))
    BY DEF fix_compound_set
<1> HIDE DEF one, s, r
<1>4. IInv(two) /\ Kept(one, two) /\ Same(one, two) /\ t \in Tails
    BY <1>1, <1>2, ShortcutKeeps, KeptSame, TailOfIs
<1> HIDE DEF two, t
<1>5. s = At(two, <<"S">>) /\ Used(two, s)
  <2>1. s \in Box
      BY <1>1, <1>2, CurIs, OwnerIs DEF At, Spot
  <2> QED  BY <1>1, <1>2, <1>4, <2>1, SameAt DEF Kept
<1>6. Writes(two, r, {At(two, TailVar(t))}, v)
    BY <1>3, <1>4, <1>5, TailSetWrites
<1>7. Same(mem, two) /\ TailVar(t) \in Kinds
    BY <1>2, <1>4, SameAgain, KindFacts
<1>8. At(two, TailVar(t)) = At(mem, TailVar(t))
    BY <1>7, SameAt
<1>9. Writes(mem, r, {At(mem, TailVar(t))}, v)
    BY <1>6, <1>7, <1>8, SameThen
<1> QED  BY <1>4, <1>9 DEF r

\* A stem is added to.
LEMMA AddToStemWrites ==
    ASSUME TablesSuffice, NEW mem, IInv(mem), NEW v \in Vals,
           ShortValue(mem, NodeHead) # None,
           mem.heap[findsimple(mem, Cur(mem), "S")].index = NoTails
    PROVE  Writes(mem, setshortcut(shortcut(mem, NodeHead), NodeHead, v), Reached(mem, "S"), v)
<1> DEFINE one == shortcut(mem, NodeHead)
           s == findsimple(mem, Cur(mem), "S")
<1>1. NodeHead \in Nodes /\ NodeName(NodeHead) = "S" /\ "S" \in Names /\ NodeHead # NodeX
    BY KindFacts DEF Nodes, NodeX, NodeHead, NodeName
<1>2. IInv(one) /\ Kept(mem, one) /\ Same(mem, one)
    BY <1>1, ShortcutKeeps, KeptSame
<1> HIDE DEF one
<1>3. findsimple(one, Cur(one), "S") = s
    BY <1>1, <1>2, KeptFinds
<1>4. ASSUME Hit(one, NodeHead) PROVE one.heap[one.node[NodeHead]].index = NoTails
  <2> DEFINE b == one.node[NodeHead]
  <2>1. b \in Box /\ b = s
      BY <1>1, <1>2, <1>3, <1>4, HitIs
  <2> HIDE DEF b
  <2>2. one.heap[b].index = mem.heap[b].index
      BY <1>2, <2>1 DEF Kept
  <2> QED  BY <2>1, <2>2 DEF b
<1>5. Writes(one, setshortcut(one, NodeHead, v), Reached(one, "S"), v)
    BY <1>1, <1>2, <1>4, SetshortcutWrites
<1>6. Reached(one, "S") = Reached(mem, "S")
    BY <1>1, <1>2, SameReached
<1> QED  BY <1>2, <1>5, <1>6, SameThen DEF one

-----------------------------------------------------------------------------
(* What PROCEDURE EXPOSE shares. *)

\* A procedure was called that shares the variables W with its caller: what others see is
\* as it was, and the variables that are not shared are the procedure's own, without a
\* value.
Opens(mem, r, W) ==
  /\ Len(r.lev) = Len(mem.lev) + 1
  /\ \A d \in Depths(mem) : Id(r, d) = Id(mem, d)
  /\ \A a \in Ids(mem), w \in Kinds :
       /\ Owner(r, a, w) = Owner(mem, a, w) /\ Worth(r, a, w) = Worth(mem, a, w)
       /\ Used(mem, <<a, w>>) => Used(r, <<a, w>>)
  /\ \A w \in Kinds :
       /\ Owner(r, r.cur, w) = IF w \in W THEN Owner(mem, mem.cur, w) ELSE r.cur
       /\ Worth(r, r.cur, w) = None
       /\ w # <<"S">> /\ Used(r, <<r.cur, w>>) => r.heap[<<r.cur, w>>].real # Nil
  /\ W \subseteq Kinds /\ (<<"S">> \in W => TailKinds \subseteq W)

\* The procedures that ran still run, under the one that was called.
LEMMA OpensIs ==
    ASSUME NEW mem, IInv(mem), NEW r, IInv(r), NEW W, Opens(mem, r, W)
    PROVE  /\ Ids(r) = Ids(mem) \union {r.cur} /\ r.cur \notin Ids(mem) /\ r.cur \in Ids(r)
           /\ \A a \in Ids(mem) : a < r.cur /\ a # r.cur /\ a \in Ids(r)
           /\ mem.cur \in Ids(mem) /\ Cur(r) - 1 \in Depths(r) /\ Id(r, Cur(r) - 1) = mem.cur
           /\ Cur(r) \in Depths(r) /\ Id(r, Cur(r)) = r.cur /\ Cur(r) - 1 = Cur(mem)
<1> DEFINE n == Len(mem.lev)
<1>1. /\ n \in Nat /\ n > 0 /\ n \in Depths(mem) /\ Id(mem, n) = mem.cur /\ Cur(mem) = n
      /\ mem.cur \in Ids(mem)
    BY CurIs, MemoryType DEF IInv
<1>2. /\ Len(r.lev) = n + 1 /\ Cur(r) = n + 1 /\ n + 1 \in Depths(r) /\ Id(r, n + 1) = r.cur
      /\ r.cur \in Ids(r) /\ \A d \in Depths(mem) : Id(r, d) = Id(mem, d)
    BY CurIs DEF Opens
<1>3. Depths(mem) = 1 .. n /\ Depths(r) = 1 .. n + 1
    BY <1>2 DEF Depths
<1> HIDE DEF n
<1>4. \A d \in Depths(r) : d \in Depths(mem) \/ d = n + 1
    BY <1>1, <1>3
<1>5. \A d \in Depths(mem) : d \in Depths(r) /\ d < n + 1
    BY <1>1, <1>3
<1>6. ASSUME NEW d \in Depths(mem)
      PROVE  Id(mem, d) < r.cur /\ Id(mem, d) # r.cur /\ Id(mem, d) \in Ids(r)
  <2>1. Id(r, d) < Id(r, n + 1) /\ Id(r, d) \in Numbers /\ Id(r, d) \in Ids(r)
      BY <1>2, <1>5, MemoryType DEF IInv, Parts, Numbered, Ids
  <2> QED  BY <1>2, <2>1 DEF Numbers
<1>7. Ids(r) = Ids(mem) \union {r.cur}
    BY <1>2, <1>4, <1>6 DEF Ids
<1>8. n = n + 1 - 1
    BY <1>1
<1>9. \A a \in Ids(mem) : a < r.cur /\ a # r.cur /\ a \in Ids(r)
    BY <1>6 DEF Ids
<1>10. Cur(r) - 1 \in Depths(r) /\ Id(r, Cur(r) - 1) = mem.cur /\ Cur(r) - 1 = Cur(mem)
    BY <1>1, <1>2, <1>5, <1>8
<1> QED  BY <1>1, <1>2, <1>7, <1>9, <1>10

\* A table of its own is empty.
LEMMA CreateOpens ==
    ASSUME NEW mem, IInv(mem), mem.next <= MaxId, NEW r, Called(mem, r)
    PROVE  Opens(mem, r, {})
<1>1. IInv(r) /\ Fresh(r)
    BY CalledInv
<1>2. Len(mem.lev) \in Nat /\ Len(r.lev) = Len(mem.lev) + 1 /\ r.heap = mem.heap /\ r.cur = mem.next
    BY MemoryType DEF IInv, Called
<1>3. \A d \in Depths(mem) : Id(r, d) = Id(mem, d)
    BY DEF Called, Id
<1>4. ASSUME NEW w \in Kinds
      PROVE  /\ <<r.cur, w>> \in Box /\ ~Used(r, <<r.cur, w>>) /\ r.heap[<<r.cur, w>>].val = None
  <2> DEFINE b == <<r.cur, w>>
  <2>1. b \in Box /\ b[1] = r.cur
      BY <1>1, BoxFacts, CurIs
  <2>2. b[1] \notin Ids(mem)
      BY <1>2, <2>1, CurIs, MemoryType DEF IInv, Numbers
  <2> HIDE DEF b
  <2>3. ~Used(mem, b)
      BY <2>1, <2>2 DEF IInv, Parts, Boxed
  <2> QED  BY <1>1, <1>2, <2>1, <2>3 DEF Fresh, Used, b
<1>5. \A a, w : Keeper(r, a, w) = Keeper(mem, a, w) /\ Worth(r, a, w) = Worth(mem, a, w)
               /\ (Used(r, <<a, w>>) <=> Used(mem, <<a, w>>))
    BY <1>2 DEF Keeper, Worth, Used, Root
<1>6. \A a, w : Owner(r, a, w) = Owner(mem, a, w)
    BY <1>5 DEF Owner, Home
<1>7. <<"S">> \in Kinds
    BY KindFacts
<1>8. ASSUME NEW w \in Kinds
      PROVE  Owner(r, r.cur, w) = r.cur /\ Worth(r, r.cur, w) = None /\ ~Used(r, <<r.cur, w>>)
  <2>1. \A x \in Kinds : Keeper(r, r.cur, x) = r.cur
      BY <1>4 DEF Keeper
  <2>2. Home(r, r.cur, w) = r.cur
      BY <1>7, <2>1 DEF Home
  <2> QED  BY <1>4, <1>7, <2>1, <2>2 DEF Owner, Worth
<1> QED  BY <1>2, <1>3, <1>5, <1>6, <1>8 DEF Opens

\* Boxes are added, none of them to the running procedure but its stem.
Grown(mem, r) ==
  \A b \in Box : b[1] \in Ids(mem) =>
    /\ Used(mem, b) => Used(r, b)
    /\ b[1] = mem.cur /\ b[2] # <<"S">> =>
         (Used(r, b) <=> Used(mem, b)) /\ r.heap[b].real = mem.heap[b].real

\* What the procedure shares is not changed by that.
LEMMA OpensSame ==
    ASSUME NEW mem, IInv(mem), NEW one, IInv(one), NEW W, Opens(mem, one, W),
           NEW r, Same(one, r), Grown(one, r)
    PROVE  Opens(mem, r, W)
<1>1. /\ \A a \in Ids(mem) : a \in Ids(one) /\ a # one.cur
      /\ one.cur \in Ids(one) /\ \A d \in Depths(mem) : d \in Depths(one)
  <2>1. \A d \in Depths(mem) : d \in Depths(one)
      BY MemoryType DEF IInv, Opens, Depths
  <2> QED  BY <2>1, OpensIs
<1>2. r.cur = one.cur /\ Len(r.lev) = Len(one.lev) /\ \A d \in Depths(one) : Id(r, d) = Id(one, d)
    BY DEF Same, Writes, SameRuns
<1>3. \A a \in Ids(one), w \in Kinds : <<a, w>> \in Box
    BY BoxFacts, CurIs
<1>4. ASSUME NEW a \in Ids(one), NEW w \in Kinds
      PROVE  /\ Owner(r, a, w) = Owner(one, a, w) /\ Worth(r, a, w) = Worth(one, a, w)
             /\ Used(one, <<a, w>>) => Used(r, <<a, w>>)
             /\ a = one.cur /\ w # <<"S">> => /\ Used(r, <<a, w>>) <=> Used(one, <<a, w>>)
                                              /\ r.heap[<<a, w>>].real = one.heap[<<a, w>>].real
  <2>1. Owner(r, a, w) = Owner(one, a, w) /\ Worth(r, a, w) = Worth(one, a, w)
      BY DEF Same, Writes
  <2> DEFINE b == <<a, w>>
  <2>2. b \in Box /\ b[1] = a /\ b[2] = w
      BY <1>3
  <2> HIDE DEF b
  <2>3. /\ Used(one, b) => Used(r, b)
        /\ a = one.cur /\ w # <<"S">> => /\ Used(r, b) <=> Used(one, b)
                                         /\ r.heap[b].real = one.heap[b].real
      BY <2>2 DEF Grown
  <2> QED  BY <2>1, <2>3 DEF b
<1> QED  BY <1>1, <1>2, <1>4 DEF Opens

\* A box is put in use.
LEMMA AddsGrown ==
    ASSUME NEW mem, IInv(mem), NEW c \in Box, c[1] = mem.cur => c[2] = <<"S">>,
           NEW r, Used(r, c),
           \A b \in Box : b # c => (Used(mem, b) => Used(r, b))
                                   /\ (b[2] # <<"S">> => (Used(r, b) <=> Used(mem, b)) /\ r.heap[b].real = mem.heap[b].real)
    PROVE  Grown(mem, r)
BY DEF Grown

\* The program sees the same, and boxes are added.
LEMMA GrownAgain ==
    ASSUME NEW mem, NEW one, NEW r, Same(mem, one), Grown(mem, one), Grown(one, r)
    PROVE  Grown(mem, r)
BY SameIds DEF Grown, Same, Writes

LEMMA GrownSelf == ASSUME NEW mem PROVE Grown(mem, mem)
BY DEF Grown

\* A variable of the procedure leads to the caller's.
Joined(mem, w, q, r) ==
  LET b == <<mem.cur, w>> IN
  /\ SameRuns(mem, r)
  /\ Used(r, b) /\ r.heap[b].real = q /\ r.heap[b].val = None
  /\ \A y \in Box : y # b => /\ Used(r, y) <=> Used(mem, y)
                             /\ r.heap[y].real = mem.heap[y].real
                             /\ r.heap[y].val = mem.heap[y].val

\* It is shared now: a simple variable, or a tail of a stem of the procedure's own.
LEMMA JoinedOpens ==
    ASSUME NEW mem, IInv(mem), NEW one, IInv(one), NEW W, Opens(mem, one, W),
           NEW w \in Kinds, w # <<"S">>, w \in TailKinds => Home(one, one.cur, w) = one.cur,
           NEW q, q = Spot(one, mem.cur, w), Used(one, q),
           NEW r, Joined(one, w, q, r)
    PROVE  Opens(mem, r, W \union {w})
<1> DEFINE new == one.cur
           b == <<new, w>>
           V == W \union {w}
<1>1. /\ \A a \in Ids(mem) : a \in Ids(one) /\ a < new
      /\ new \in Ids(one) /\ new \notin Ids(mem) /\ mem.cur \in Ids(mem)
      /\ \A d \in Depths(mem) : d \in Depths(one)
  <2>1. \A d \in Depths(mem) : d \in Depths(one)
      BY MemoryType DEF IInv, Opens, Depths
  <2> QED  BY <2>1, OpensIs
<1>2. /\ r.cur = new /\ Len(r.lev) = Len(mem.lev) + 1
      /\ \A d \in Depths(mem) : Id(r, d) = Id(mem, d)
    BY <1>1 DEF Joined, SameRuns, Opens
<1>3. <<"S">> \in Kinds /\ q \in Box /\ q # Nil /\ q[1] = Owner(one, mem.cur, w)
  <2>1. q \in Box
      BY <1>1, OwnerIs DEF Spot
  <2> QED  BY <2>1, BoxFacts, KindFacts DEF Spot
<1>4. ASSUME NEW a \in Ids(one), NEW x \in Kinds
      PROVE  /\ <<a, x>> \in Box
             /\ <<a, x>> # b => /\ Used(r, <<a, x>>) <=> Used(one, <<a, x>>)
                                /\ r.heap[<<a, x>>].real = one.heap[<<a, x>>].real
                                /\ r.heap[<<a, x>>].val = one.heap[<<a, x>>].val
                                /\ Keeper(r, a, x) = Keeper(one, a, x)
  <2> DEFINE y == <<a, x>>
  <2>1. y \in Box
      BY BoxFacts, CurIs
  <2> HIDE DEF y, b
  <2>2. y # b => /\ Used(r, y) <=> Used(one, y)
                 /\ r.heap[y].real = one.heap[y].real
                 /\ r.heap[y].val = one.heap[y].val
                 /\ Root(r, y) = Root(one, y)
      BY <2>1 DEF Joined, Root, b
  <2> QED  BY <2>1, <2>2 DEF Keeper, y
<1>5. Used(r, b) /\ r.heap[b].real = q /\ r.heap[b].val = None /\ Keeper(r, new, w) = q[1]
  <2>1. Used(r, b) /\ r.heap[b].real = q /\ r.heap[b].val = None
      BY DEF Joined
  <2> QED  BY <1>3, <2>1 DEF Keeper, Root
<1> HIDE DEF new
<1>6. ASSUME NEW a \in Ids(one), NEW x \in Kinds
      PROVE  /\ Home(r, a, x) = Home(one, a, x) /\ Home(one, a, x) \in Ids(one)
             /\ <<Home(one, a, x), x>> # b => Owner(r, a, x) = Owner(one, a, x)
  <2>1. <<a, <<"S">>>> # b
      OBVIOUS
  <2>2. Home(r, a, x) = Home(one, a, x) /\ Home(one, a, x) \in Ids(one)
      BY <1>3, <1>4, <2>1, OwnerIs DEF Home
  <2> QED  BY <1>4, <2>2 DEF Owner
<1>7. ASSUME NEW a \in Ids(one), NEW x \in Kinds, <<a, x>> # b
      PROVE  Worth(r, a, x) = Worth(one, a, x)
  <2>1. <<a, <<"S">>>> # b
      OBVIOUS
  <2> QED  BY <1>3, <1>4, <1>7, <2>1 DEF Worth
<1>8. ASSUME NEW a \in Ids(mem), NEW x \in Kinds
      PROVE  /\ Owner(r, a, x) = Owner(mem, a, x) /\ Worth(r, a, x) = Worth(mem, a, x)
             /\ Used(mem, <<a, x>>) => Used(r, <<a, x>>)
  <2>1. a \in Ids(one) /\ a # new /\ Home(one, a, x) # new
      <3>1. a \in Ids(one) /\ a < new /\ new \in Numbers /\ a \in Numbers
          BY <1>1, CurIs DEF new
      <3>2. Home(one, a, x) <= a /\ Home(one, a, x) \in Numbers
          BY <3>1, OwnerIs
      <3> QED  BY <3>1, <3>2 DEF Numbers
  <2>2. <<a, x>> # b /\ <<Home(one, a, x), x>> # b
      BY <2>1
  <2>3. /\ Owner(one, a, x) = Owner(mem, a, x) /\ Worth(one, a, x) = Worth(mem, a, x)
        /\ Used(mem, <<a, x>>) => Used(one, <<a, x>>)
      BY DEF Opens
  <2> QED  BY <1>4, <1>6, <1>7, <2>1, <2>2, <2>3
<1>9. ASSUME NEW x \in Kinds
      PROVE  /\ Owner(r, new, x) = IF x \in V THEN Owner(mem, mem.cur, x) ELSE new
             /\ Worth(r, new, x) = None
             /\ x # <<"S">> /\ Used(r, <<new, x>>) => r.heap[<<new, x>>].real # Nil
  <2>1. /\ Owner(one, new, x) = IF x \in W THEN Owner(mem, mem.cur, x) ELSE new
        /\ Worth(one, new, x) = None
        /\ x # <<"S">> /\ Used(one, <<new, x>>) => one.heap[<<new, x>>].real # Nil
      BY DEF Opens, new
  <2>2. CASE x # w
      <3>1. <<new, x>> # b /\ <<Home(one, new, x), x>> # b
          BY <2>2
      <3> QED  BY <1>1, <1>4, <1>6, <1>7, <2>1, <2>2, <3>1 DEF new
  <2>3. CASE x = w
      <3>1. Home(r, new, w) = new
          BY <1>1, <1>6 DEF Home, new
      <3>2. Owner(r, new, w) = q[1]
          BY <1>5, <3>1 DEF Owner
      <3>3. Owner(one, mem.cur, w) = Owner(mem, mem.cur, w)
          BY <1>1 DEF Opens
      <3>4. Worth(r, new, w) = None
          BY <1>5 DEF Worth
      <3> QED  BY <1>3, <1>5, <2>3, <3>2, <3>3, <3>4
  <2> QED  BY <2>2, <2>3
<1>10. V \subseteq Kinds /\ (<<"S">> \in V => TailKinds \subseteq V)
    BY DEF Opens
<1> HIDE DEF V
<1> QED  BY <1>2, <1>8, <1>9, <1>10 DEF Opens, V

\* The stem of the procedure leads to the caller's, and no tail is left in its table.
StemJoined(mem, q, r) ==
  LET b == <<mem.cur, <<"S">>>> IN
  /\ SameRuns(mem, r)
  /\ Used(r, b) /\ r.heap[b].real = q /\ r.heap[b].val = None
  /\ \A y \in Box :
       /\ y[1] = mem.cur /\ y[2] \in TailKinds => ~Used(r, y)
       /\ y # b /\ ~(y[1] = mem.cur /\ y[2] \in TailKinds) =>
            /\ Used(r, y) <=> Used(mem, y)
            /\ r.heap[y].real = mem.heap[y].real /\ r.heap[y].val = mem.heap[y].val

\* The stem and all its tails are shared now.
LEMMA StemJoinedOpens ==
    ASSUME NEW mem, IInv(mem), NEW one, IInv(one), NEW W, Opens(mem, one, W),
           NEW q, q = Spot(one, mem.cur, <<"S">>), Used(one, q),
           NEW r, StemJoined(one, q, r)
    PROVE  Opens(mem, r, W \union StemKinds)
<1> DEFINE new == one.cur
           S == <<"S">>
           V == W \union StemKinds
           k == q[1]
<1>1. /\ \A a \in Ids(mem) : a \in Ids(one) /\ a < new /\ a # new
      /\ new \in Ids(one) /\ new \notin Ids(mem) /\ mem.cur \in Ids(mem)
      /\ \A d \in Depths(mem) : d \in Depths(one)
  <2>1. \A d \in Depths(mem) : d \in Depths(one)
      BY MemoryType DEF IInv, Opens, Depths
  <2> QED  BY <2>1, OpensIs
<1>2. /\ r.cur = new /\ Len(r.lev) = Len(mem.lev) + 1
      /\ \A d \in Depths(mem) : Id(r, d) = Id(mem, d)
    BY <1>1 DEF StemJoined, SameRuns, Opens
<1>3. S \in Kinds /\ S \notin TailKinds /\ TailKinds \subseteq Kinds
    BY KindFacts DEF Kinds
<1>4. /\ k = Owner(mem, mem.cur, S) /\ k = Owner(one, mem.cur, S) /\ k \in Ids(mem)
      /\ k = Keeper(one, mem.cur, S) /\ q # Nil
  <2>1. k = Owner(one, mem.cur, S) /\ Owner(one, mem.cur, S) = Owner(mem, mem.cur, S)
      BY <1>1, <1>3 DEF Spot, Opens
  <2>2. Owner(mem, mem.cur, S) \in Ids(mem)
      BY <1>1, <1>3, OwnerIs
  <2>3. q \in Box
      BY <1>1, <1>3, OwnerIs DEF Spot
  <2>4. Owner(one, mem.cur, S) = Keeper(one, mem.cur, S)
      BY <1>3 DEF Owner, Home
  <2> QED  BY <2>1, <2>2, <2>3, <2>4, BoxFacts
<1>5. ASSUME NEW a \in Ids(one), NEW x \in Kinds
      PROVE  /\ <<a, x>> \in Box
             /\ a = new /\ x \in TailKinds => ~Used(r, <<a, x>>)
             /\ ~(a = new /\ x \in StemKinds) =>
                  /\ Used(r, <<a, x>>) <=> Used(one, <<a, x>>)
                  /\ r.heap[<<a, x>>].real = one.heap[<<a, x>>].real
                  /\ r.heap[<<a, x>>].val = one.heap[<<a, x>>].val
                  /\ Keeper(r, a, x) = Keeper(one, a, x)
  <2> DEFINE y == <<a, x>>
             b == <<new, S>>
  <2>1. y \in Box /\ y[1] = a /\ y[2] = x
      BY BoxFacts, CurIs
  <2>2. ~(a = new /\ x \in StemKinds) => y # b /\ ~(a = new /\ x \in TailKinds)
      BY DEF StemKinds
  <2> HIDE DEF y, b, new
  <2>3. /\ a = new /\ x \in TailKinds => ~Used(r, y)
        /\ ~(a = new /\ x \in StemKinds) =>
             /\ Used(r, y) <=> Used(one, y)
             /\ r.heap[y].real = one.heap[y].real
             /\ r.heap[y].val = one.heap[y].val
             /\ Root(r, y) = Root(one, y)
      BY <2>1, <2>2 DEF StemJoined, Root, b, new
  <2> QED  BY <2>1, <2>3 DEF Keeper, y
<1>6. /\ Used(r, <<new, S>>) /\ r.heap[<<new, S>>].real = q /\ r.heap[<<new, S>>].val = None
      /\ Keeper(r, new, S) = k
  <2>1. Used(r, <<new, S>>) /\ r.heap[<<new, S>>].real = q /\ r.heap[<<new, S>>].val = None
      BY DEF StemJoined
  <2> QED  BY <1>4, <2>1 DEF Keeper, Root
<1> HIDE DEF new, k, S
<1>7. ASSUME NEW a \in Ids(mem), NEW x \in Kinds
      PROVE  /\ Owner(r, a, x) = Owner(one, a, x) /\ Worth(r, a, x) = Worth(one, a, x)
             /\ Used(one, <<a, x>>) => Used(r, <<a, x>>)
             /\ Home(one, a, x) # new /\ Home(one, a, x) \in Ids(one)
  <2>1. a \in Ids(one) /\ a # new /\ Home(one, a, x) # new /\ Home(one, a, x) \in Ids(one)
      <3>1. a \in Ids(one) /\ a < new /\ new \in Numbers /\ a \in Numbers
          BY <1>1, CurIs DEF new
      <3>2. Home(one, a, x) <= a /\ Home(one, a, x) \in Numbers /\ Home(one, a, x) \in Ids(one)
          BY <3>1, OwnerIs
      <3> QED  BY <3>1, <3>2 DEF Numbers
  <2>2. Home(r, a, x) = Home(one, a, x)
      BY <1>3, <1>5, <2>1 DEF Home, S
  <2>3. Owner(r, a, x) = Owner(one, a, x)
      BY <1>5, <2>1, <2>2 DEF Owner
  <2>4. Worth(r, a, x) = Worth(one, a, x)
      BY <1>3, <1>5, <2>1 DEF Worth, S
  <2> QED  BY <1>5, <2>1, <2>3, <2>4
<1>8. ASSUME NEW a \in Ids(mem), NEW x \in Kinds
      PROVE  /\ Owner(r, a, x) = Owner(mem, a, x) /\ Worth(r, a, x) = Worth(mem, a, x)
             /\ Used(mem, <<a, x>>) => Used(r, <<a, x>>)
  <2>1. /\ Owner(one, a, x) = Owner(mem, a, x) /\ Worth(one, a, x) = Worth(mem, a, x)
        /\ Used(mem, <<a, x>>) => Used(one, <<a, x>>)
      BY DEF Opens
  <2> QED  BY <1>7, <2>1
<1>9. ASSUME NEW x \in Kinds
      PROVE  /\ Owner(r, new, x) = IF x \in V THEN Owner(mem, mem.cur, x) ELSE new
             /\ Worth(r, new, x) = None
             /\ x # S /\ Used(r, <<new, x>>) => r.heap[<<new, x>>].real # Nil
  <2>1. /\ Owner(one, new, x) = IF x \in W THEN Owner(mem, mem.cur, x) ELSE new
        /\ Worth(one, new, x) = None
        /\ x # S /\ Used(one, <<new, x>>) => one.heap[<<new, x>>].real # Nil
      BY DEF Opens, new, S
  <2>2. new \in Ids(one)
      BY <1>1 DEF new
  <2>3. CASE x \notin StemKinds
      <3>1. x \notin TailKinds /\ (x \in V <=> x \in W)
          BY <2>3 DEF StemKinds
      <3>2. Owner(r, new, x) = Keeper(r, new, x) /\ Owner(one, new, x) = Keeper(one, new, x)
          BY <3>1 DEF Owner, Home
      <3>3. Worth(r, new, x) = Worth(one, new, x)
          BY <1>5, <2>2, <2>3, <3>1 DEF Worth
      <3> QED  BY <1>5, <2>1, <2>2, <2>3, <3>1, <3>2, <3>3
  <2>4. CASE x = S
      <3>1. Owner(r, new, S) = k
          BY <1>3, <1>6 DEF Owner, Home
      <3>2. Worth(r, new, S) = None
          BY <1>3, <1>6 DEF Worth
      <3>3. S \in V
          BY DEF StemKinds, S
      <3> QED  BY <1>4, <2>4, <3>1, <3>2, <3>3
  <2>5. CASE x \in TailKinds
      <3>1. Home(r, new, x) = k /\ Home(one, mem.cur, x) = k
          BY <1>4, <1>6, <2>5 DEF Home, S
      <3>2. Keeper(r, k, x) = Keeper(one, k, x)
          BY <1>1, <1>4, <1>5 DEF new
      <3>3. Owner(r, new, x) = Owner(one, mem.cur, x)
          BY <3>1, <3>2 DEF Owner
      <3>4. Owner(one, mem.cur, x) = Owner(mem, mem.cur, x)
          BY <1>1 DEF Opens
      <3>5. ~Used(r, <<new, x>>)
          BY <1>5, <2>2, <2>5
      <3>6. Worth(r, new, x) = None
          BY <1>6, <2>5, <3>5 DEF Worth, S
      <3>7. x \in V
          BY <2>5 DEF StemKinds
      <3> QED  BY <3>3, <3>4, <3>5, <3>6, <3>7
  <2> QED  BY <2>3, <2>4, <2>5 DEF StemKinds, S
<1>10. V \subseteq Kinds /\ (S \in V => TailKinds \subseteq V)
    BY <1>3 DEF Opens, StemKinds, S
<1> HIDE DEF V
<1> QED  BY <1>2, <1>8, <1>9, <1>10 DEF Opens, S, V

\* A simple variable or a stem that a table leads to is in use, and shared if it is the
\* running procedure's.
LEMMA NameShared ==
    ASSUME NEW mem, IInv(mem), NEW one, IInv(one), NEW W, Opens(mem, one, W),
           NEW w \in Kinds, Used(one, <<one.cur, w>>), one.heap[<<one.cur, w>>].real # Nil,
           w \in TailKinds => Home(one, one.cur, w) = one.cur
    PROVE  w \in W
<1>1. one.cur \in Ids(one) /\ one.cur \in Numbers
    BY CurIs
<1>2. Keeper(one, one.cur, w) < one.cur /\ Keeper(one, one.cur, w) \in Numbers
    BY <1>1, KeeperIs
<1>3. Owner(one, one.cur, w) = Keeper(one, one.cur, w)
  <2>1. Home(one, one.cur, w) = one.cur
      BY DEF Home
  <2> QED  BY <2>1 DEF Owner
<1>4. Owner(one, one.cur, w) # one.cur
    BY <1>1, <1>2, <1>3 DEF Numbers
<1> QED  BY <1>4 DEF Opens

\* The memory when the caller has the variable.
CallerName(mem, n) ==
  IF findsimple(mem, Cur(mem) - 1, n) # Nil THEN mem
  ELSE Insert(mem, Cur(mem) - 1, n, newbox(mem, None, NoIndex))

\* The caller's variable is there when the procedure exposes it, and nothing else is
\* changed.
LEMMA CallerNameSame ==
    ASSUME TablesSuffice, NEW mem, IInv(mem), Fresh(mem), NEW n \in Simples,
           mem.lev[Cur(mem)].of[n] = Nil
    PROVE  LET r == CallerName(mem, n) IN
           /\ IInv(r) /\ Same(mem, r) /\ Grown(mem, r)
           /\ findsimple(r, Cur(mem) - 1, n) # Nil
           /\ r.lev[Cur(mem)].of[n] = Nil /\ Fresh(r)
<1> DEFINE old == Cur(mem) - 1
           rec == newbox(mem, None, NoIndex)
           b == <<Id(mem, old), <<n>>>>
           r == CallerName(mem, n)
<1>1. n \in Names /\ n # "S"
    BY KindFacts
<1>2. old \in Depths(mem) /\ Cur(mem) \in Depths(mem) /\ old # Cur(mem) /\ Id(mem, old) # mem.cur
    BY CallerIs
<1>3. CASE findsimple(mem, old, n) # Nil
  <2>1. r = mem
      BY <1>3 DEF CallerName
  <2> HIDE DEF r
  <2> QED  BY <1>3, <2>1, SameSelf, GrownSelf DEF r
<1>4. CASE findsimple(mem, old, n) = Nil
  <2>1. r = Insert(mem, old, n, rec)
      BY <1>4 DEF CallerName
  <2>2. mem.lev[old].of[n] = Nil /\ ~Used(mem, b)
      BY <1>1, <1>2, <1>4, NotFound, NoBox
  <2>3. Fits(mem, old, n, rec) /\ rec.state = "used" /\ rec.val = None /\ rec.real = Nil
      BY <1>1, NewboxFits, NewboxIs
  <2> HIDE DEF rec, old, r
  <2>4. /\ IInv(r) /\ Inserted(mem, old, n, rec, r) /\ Depths(r) = Depths(mem)
        /\ Id(r, old) = Id(mem, old) /\ r.heap[b] = rec
        /\ \A c \in Box : c # b => r.heap[c] = mem.heap[c]
      BY <1>1, <1>2, <2>1, <2>2, <2>3, InsertNew
  <2>5. Same(mem, r)
      BY <1>1, <1>2, <2>2, <2>3, <2>4, InsertSame
  <2>6. b \in Box /\ b[1] # mem.cur
      BY <1>1, <1>2, FindIs
  <2> HIDE DEF b
  <2>7. Used(r, b)
      BY <2>3, <2>4 DEF Used
  <2>8. Grown(mem, r)
      BY <2>4, <2>6, <2>7, AddsGrown DEF Used
  <2>9. findsimple(r, old, n) # Nil
      BY <1>1, <1>2, <2>4, <2>7, FindIs DEF b
  <2>10. r.lev[Cur(mem)] = mem.lev[Cur(mem)]
      BY <1>2, <2>4 DEF Inserted
  <2>11. Fresh(r)
      BY <1>1, <1>2, <2>1, <2>2, <2>3, InsertFresh
  <2> QED  BY <2>4, <2>5, <2>8, <2>9, <2>10, <2>11 DEF r, old
<1> QED  BY <1>3, <1>4

\* A box that leads to the caller's is put in the table of the procedure.
LEMMA AliasInserted ==
    ASSUME TablesSuffice, NEW mem, IInv(mem), Fresh(mem), NEW n \in Names,
           mem.lev[Cur(mem)].of[n] = Nil,
           NEW q, q = findsimple(mem, Cur(mem) - 1, n), q # Nil
    PROVE  LET new == Cur(mem)
               r == Insert(mem, new, n, Alias(mem, q))
               b == <<mem.cur, <<n>>>>
           IN  /\ q = Spot(mem, Id(mem, Cur(mem) - 1), <<n>>) /\ Used(mem, q) /\ q \in Box
               /\ b \in Box /\ ~Used(mem, b) /\ IInv(r) /\ r.cur = mem.cur /\ Cur(r) = new
               /\ SameRuns(mem, r)
               /\ Used(r, b) /\ r.heap[b].real = q /\ r.heap[b].val = None
               /\ \A y \in Box : y # b => r.heap[y] = mem.heap[y]
<1> DEFINE new == Cur(mem)
           rec == Alias(mem, q)
           r == Insert(mem, new, n, rec)
           b == <<mem.cur, <<n>>>>
<1>1. /\ new \in Depths(mem) /\ new > 1 /\ new - 1 \in Depths(mem) /\ Id(mem, new) = mem.cur
    BY CallerIs
<1>2. q = Spot(mem, Id(mem, new - 1), <<n>>) /\ Used(mem, q) /\ q \in Box
    BY <1>1, FoundAt
<1>3. b \in Box /\ ~Used(mem, b)
  <2>1. b \in Box
      BY <1>1, FindIs
  <2>2. Used(mem, b) => mem.lev[new].of[n] = b
      BY <1>1 DEF IInv, Parts, Tabled
  <2> QED  BY <2>1, <2>2, BoxFacts
<1>4. Fits(mem, new, n, rec)
    BY <1>1, AliasFits
<1>5. rec.state = "used" /\ rec.real = q /\ rec.val = None
    BY AliasIs
<1> HIDE DEF rec
<1>6. /\ IInv(r) /\ Inserted(mem, new, n, rec, r) /\ r.cur = mem.cur /\ Cur(r) = new
      /\ r.heap[<<Id(mem, new), <<n>>>>] = rec
      /\ \A c \in Box : c # <<Id(mem, new), <<n>>>> => r.heap[c] = mem.heap[c]
    BY <1>1, <1>4, InsertNew
<1> HIDE DEF r
<1>7. SameRuns(mem, r)
    BY <1>6 DEF Inserted, SameRuns
<1> QED  BY <1>1, <1>2, <1>3, <1>5, <1>6, <1>7 DEF Used, rec, r

\* A simple variable is exposed.
LEMMA ExposeSimpleOpens ==
    ASSUME TablesSuffice, NEW mem, IInv(mem), NEW one, IInv(one), Fresh(one), NEW W,
           Opens(mem, one, W), NEW n \in Simples
    PROVE  Opens(mem, expose_simple(one, n), W \union {<<n>>})
<1> DEFINE old == Cur(one) - 1
           new == Cur(one)
           two == CallerName(one, n)
           b == findsimple(two, old, n)
           three == Insert(two, new, n, Alias(two, b))
           r == expose_simple(one, n)
           V == W \union {<<n>>}
<1>1. n \in Names /\ n # "S" /\ <<n>> \in Kinds /\ <<n>> # <<"S">> /\ <<n>> \notin TailKinds
    BY KindFacts
<1>2. new \in Depths(one) /\ Id(one, new) = one.cur
    BY CurIs
<1>3. CASE one.lev[new].of[n] # Nil
  <2> DEFINE top == <<one.cur, <<n>>>>
  <2>1. r = one
      BY <1>3 DEF expose_simple
  <2>2. Used(one, top)
      BY <1>1, <1>2, <1>3 DEF IInv, Parts, Tabled
  <2>3. one.heap[top].real # Nil
      BY <1>1, <2>2 DEF Opens
  <2>4. <<n>> \in W
      BY <1>1, <2>2, <2>3, NameShared
  <2> HIDE DEF r
  <2>5. V = W
      BY <2>4
  <2> QED  BY <2>1, <2>5 DEF r
<1>4. CASE one.lev[new].of[n] = Nil
  <2>1. /\ IInv(two) /\ Same(one, two) /\ Grown(one, two) /\ b # Nil
        /\ two.lev[new].of[n] = Nil /\ Fresh(two)
      BY <1>4, CallerNameSame
  <2>2. r = [three EXCEPT !.heap[b].valid = one.cur]
      BY <1>4 DEF expose_simple, CallerName
  <2> HIDE DEF two, r
  <2>3. Cur(two) = new /\ two.cur = one.cur /\ Len(two.lev) = Len(one.lev)
      BY <2>1, SameIds DEF Same, Writes, SameRuns
  <2>4. Fresh(two)
      BY <2>1
  <2>5. Opens(mem, two, W)
      BY <2>1, OpensSame
  <2> DEFINE x == <<two.cur, <<n>>>>
  <2>6. /\ b = Spot(two, Id(two, Cur(two) - 1), <<n>>) /\ Used(two, b) /\ b \in Box
        /\ x \in Box /\ ~Used(two, x) /\ IInv(three) /\ three.cur = two.cur /\ Cur(three) = new
        /\ SameRuns(two, three)
        /\ Used(three, x) /\ three.heap[x].real = b /\ three.heap[x].val = None
        /\ \A y \in Box : y # x => three.heap[y] = two.heap[y]
    <3>1. two.lev[Cur(two)].of[n] = Nil /\ b = findsimple(two, Cur(two) - 1, n)
        BY <2>1, <2>3
    <3>2. three = Insert(two, Cur(two), n, Alias(two, b))
        BY <2>3
    <3> HIDE DEF b, three, new
    <3> QED  BY <1>1, <2>1, <2>3, <2>4, <3>1, <3>2, AliasInserted
  <2> HIDE DEF three, b
  <2>7. Joined(two, <<n>>, b, three)
      BY <2>6 DEF Joined, Used
  <2>8. b = Spot(two, mem.cur, <<n>>)
      BY <2>1, <2>5, <2>6, OpensIs
  <2>9. Opens(mem, three, V)
      BY <1>1, <2>1, <2>5, <2>6, <2>7, <2>8, JoinedOpens
  <2>10. Restamped(three, b, r)
      BY <2>2, <2>3, <2>6, RestampIs
  <2>11. \A y \in Box : /\ Used(r, y) <=> Used(three, y)
                        /\ r.heap[y].real = three.heap[y].real /\ r.heap[y].val = three.heap[y].val
      BY <2>10 DEF Restamped, Used
  <2>12. SameRuns(three, r)
      BY <2>10, FrameSame DEF Restamped, SameFrame, SameRuns
  <2>13. Same(three, r) /\ Grown(three, r)
      BY <2>6, <2>11, <2>12, SameHeaps DEF Grown
  <2> HIDE DEF V
  <2>14. Opens(mem, r, V)
      BY <2>6, <2>9, <2>13, OpensSame
  <2> QED  BY <2>14 DEF r, V
<1> QED  BY <1>3, <1>4

\* The caller's stem is made, and nothing else is changed.
LEMMA CallerStemSame ==
    ASSUME TablesSuffice, NEW mem, IInv(mem), Fresh(mem)
    PROVE  LET r == CallerStem(mem) IN Same(mem, r) /\ Grown(mem, r)
<1> DEFINE old == Cur(mem) - 1
           b == <<Id(mem, old), <<"S">>>>
           r == CallerStem(mem)
<1>1. old \in Depths(mem) /\ Id(mem, old) # mem.cur /\ "S" \in Names
    BY CallerIs, KindFacts
<1>2. CASE findsimple(mem, old, "S") # Nil
  <2>1. r = mem
      BY <1>2 DEF CallerStem
  <2> HIDE DEF r
  <2> QED  BY <2>1, SameSelf, GrownSelf DEF r
<1>3. CASE findsimple(mem, old, "S") = Nil
  <2>1. r = make_stem(mem, old)
      BY <1>3 DEF CallerStem
  <2> HIDE DEF r, old
  <2>2. /\ Same(mem, r) /\ IInv(r) /\ findsimple(r, old, "S") # Nil /\ Depths(r) = Depths(mem)
        /\ \A c \in Box : c # b => r.heap[c] = mem.heap[c]
      BY <1>1, <1>3, <2>1, MakeStemSame
  <2>3. Id(r, old) = Id(mem, old)
      BY <1>1, <2>2 DEF Same, Writes, SameRuns
  <2>4. b \in Box /\ b[1] # mem.cur /\ Used(r, b)
      BY <1>1, <2>2, <2>3, FindIs
  <2> HIDE DEF b
  <2>5. Grown(mem, r)
      BY <2>2, <2>4, AddsGrown DEF Used
  <2> QED  BY <2>2, <2>5 DEF r
<1> QED  BY <1>2, <1>3

\* A stem is exposed.
LEMMA ExposeStemOpens ==
    ASSUME TablesSuffice, NEW mem, IInv(mem), NEW one, IInv(one), Fresh(one), NEW W,
           Opens(mem, one, W)
    PROVE  Opens(mem, expose_stem(one), W \union StemKinds)
<1> DEFINE old == Cur(one) - 1
           new == Cur(one)
           q == one.lev[new].of["S"]
           two == CallerStem(one)
           s == findsimple(two, old, "S")
           r == expose_stem(one)
           x == <<one.cur, <<"S">>>>
           V == W \union StemKinds
<1>1. "S" \in Names /\ <<"S">> \in Kinds /\ <<"S">> \notin TailKinds
    BY KindFacts
<1>2. new \in Depths(one) /\ Id(one, new) = one.cur /\ x \in Box
    BY <1>1, CurIs, BoxFacts
<1>3. q = IF Used(one, x) THEN x ELSE Nil
    BY <1>1, <1>2 DEF IInv, Parts, Tabled
<1>4. /\ IInv(two) /\ Fresh(two) /\ Cur(two) = new /\ two.cur = one.cur /\ s # Nil
      /\ two.lev[new] = one.lev[new]
      /\ \A b \in Box : b[1] = one.cur => two.heap[b] = one.heap[b]
    BY CallerStemIs
<1>5. Opens(mem, two, W)
    BY <1>4, CallerStemSame, OpensSame
<1>6. s = Spot(two, mem.cur, <<"S">>) /\ Used(two, s)
  <2>1. Cur(two) - 1 \in Depths(two) /\ Id(two, Cur(two) - 1) = mem.cur
      BY <1>4, <1>5, OpensIs
  <2>2. s = findsimple(two, Cur(two) - 1, "S")
      BY <1>4
  <2> HIDE DEF s, two
  <2> QED  BY <1>1, <1>4, <2>1, <2>2, FoundAt
<1>7. CASE q # Nil /\ one.heap[q].real # Nil
  <2>1. r = one
      BY <1>7 DEF expose_stem
  <2>2. Used(one, x) /\ one.heap[x].real # Nil
      BY <1>3, <1>7
  <2>3. <<"S">> \in W
      BY <1>1, <2>2, NameShared
  <2> HIDE DEF r
  <2>4. V = W
      BY <2>3 DEF StemKinds, Opens
  <2> QED  BY <2>1, <2>4 DEF r
<1>8. CASE q = Nil
  <2>1. r = Insert(two, new, "S", Alias(two, s))
      BY <1>8 DEF expose_stem, CallerStem
  <2>2. two.lev[Cur(two)].of["S"] = Nil /\ s = findsimple(two, Cur(two) - 1, "S")
      BY <1>4, <1>8
  <2>3. r = Insert(two, Cur(two), "S", Alias(two, s))
      BY <1>4, <2>1
  <2> HIDE DEF r, s, two, new
  <2>4. /\ ~Used(two, x) /\ SameRuns(two, r)
        /\ Used(r, x) /\ r.heap[x].real = s /\ r.heap[x].val = None
        /\ \A y \in Box : y # x => r.heap[y] = two.heap[y]
      BY <1>1, <1>4, <2>2, <2>3, AliasInserted
  <2>5. \A y \in Box : y[1] = two.cur /\ y[2] \in TailKinds => ~Used(two, y) /\ y # x
    <3>1. two.cur \in Numbers
        BY <1>4, CurIs
    <3>2. \A y \in Box : y = <<y[1], y[2]>>
        BY BoxFacts
    <3> QED  BY <1>1, <1>4, <2>4, <3>1, <3>2, StemOfTail
  <2>6. StemJoined(two, s, r)
      BY <1>4, <2>4, <2>5 DEF StemJoined, Used
  <2> QED  BY <1>4, <1>5, <1>6, <2>6, StemJoinedOpens DEF r
<1>9. CASE q # Nil /\ one.heap[q].real = Nil
  <2>1. q = <<two.cur, <<"S">>>> /\ Aliased(two, q, s, r) /\ Stem(two, q)
      BY <1>9, ExposeStemIs
  <2>2. q[1] = two.cur /\ two.heap[q].val = None /\ q \in Box
      BY <2>1, <1>4 DEF Fresh, Stem
  <2> HIDE DEF q, r, s, two
  <2>3. SameRuns(two, r)
      BY <2>1, FrameSame DEF Aliased, SameFrame, SameRuns
  <2>4. Used(r, q) /\ r.heap[q].real = s /\ r.heap[q].val = None
      BY <2>1, <2>2 DEF Aliased, Stem, Used
  <2>5. \A y \in Box : y[1] = two.cur /\ y[2] \in TailKinds => y # q /\ ~Used(r, y)
    <3>1. FreeBox.state # "used" /\ q[2] \notin TailKinds
        BY <1>1, <2>1 DEF FreeBox
    <3> QED  BY <2>1, <2>2, <3>1 DEF Aliased, Used
  <2>6. StemJoined(two, s, r)
      BY <2>1, <2>2, <2>3, <2>4, <2>5 DEF StemJoined, Aliased, Used
  <2> QED  BY <1>4, <1>5, <1>6, <2>6, StemJoinedOpens DEF r
<1> QED  BY <1>7, <1>8, <1>9

\* The tail a variable tail stands for, as a procedure sees it.
Told(mem, a) ==
  LET v == Worth(mem, Owner(mem, a, <<"X">>), <<"X">>) IN IF v = None THEN "X" ELSE v

\* subst_index looks at the variable X that the procedure sees.
LEMMA SubstIs ==
    ASSUME NEW mem, IInv(mem), NEW d \in Depths(mem)
    PROVE  subst_index(mem, d) = Told(mem, Id(mem, d)) /\ subst_index(mem, d) \in Tails
<1> DEFINE a == Id(mem, d)
           b == Spot(mem, a, <<"X">>)
           f == findsimple(mem, d, "X")
<1>1. "X" \in Names /\ <<"X">> \in Kinds /\ <<"X">> \notin TailKinds /\ "X" \in Tails
      /\ a \in Ids(mem)
    BY KindFacts, PoolAssumption, CurIs
<1>2. b \in Box /\ f = (IF Used(mem, b) THEN b ELSE Nil) /\ (f # Nil <=> Used(mem, b))
    BY <1>1, FoundAt
<1>3. subst_index(mem, d) = IF f = Nil \/ mem.heap[f].val = None THEN "X" ELSE mem.heap[f].val
    BY DEF subst_index
<1>4. b = <<Owner(mem, a, <<"X">>), <<"X">>>> /\ b[2] = <<"X">>
    BY DEF Spot
<1>5. Worth(mem, Owner(mem, a, <<"X">>), <<"X">>) = mem.heap[b].val
    BY <1>1, <1>4 DEF Worth
<1> HIDE DEF f
<1>6. ~Used(mem, b) => mem.heap[b].val = None
  <2> DEFINE k == Owner(mem, a, <<"X">>)
  <2>1. k \in Ids(mem)
      BY <1>1, OwnerIs
  <2> HIDE DEF k
  <2>2. b[1] \in Ids(mem)
      BY <1>4, <2>1 DEF k
  <2> HIDE DEF b
  <2>3. ~Used(mem, b) => mem.heap[b] = FreeBox
      BY <1>2, <2>2, FreeAt
  <2> QED  BY <2>3 DEF FreeBox
<1>7. mem.heap[b].val \in Tails \union {None}
    BY <1>2, <1>4 DEF IInv, Parts, Boxed
<1> HIDE DEF b
<1>8. Told(mem, a) = IF mem.heap[b].val = None THEN "X" ELSE mem.heap[b].val
    BY <1>5 DEF Told
<1> QED  BY <1>1, <1>2, <1>3, <1>6, <1>7, <1>8

\* A tail whose box its caller's stem has, or whose value its stem does not give.
Barred(mem, t) ==
  LET s == findsimple(mem, Cur(mem), "S")
  IN  s = Nil \/ mem.heap[s].val = None \/ FindTail(mem, s, t) # Nil

\* Then a box that is made for it leaves its value.
LEMMA BarredIs ==
    ASSUME NEW mem, IInv(mem), NEW t \in Tails, Barred(mem, t),
           NEW k, k = Owner(mem, mem.cur, <<"S">>), ~Used(mem, <<k, TailVar(t)>>)
    PROVE  Worth(mem, k, TailVar(t)) = None
<1> DEFINE s == findsimple(mem, Cur(mem), "S")
           x == Spot(mem, mem.cur, <<"S">>)
           w == TailVar(t)
<1>1. /\ "S" \in Names /\ <<"S">> \in Kinds /\ w \in Kinds /\ w \in TailKinds /\ w \in StemKinds
      /\ mem.cur \in Ids(mem) /\ Cur(mem) \in Depths(mem) /\ Id(mem, Cur(mem)) = mem.cur
    BY KindFacts, CurIs DEF StemKinds
<1>2. x \in Box /\ s = IF Used(mem, x) THEN x ELSE Nil
    BY <1>1, FoundAt
<1>3. x = <<k, <<"S">>>> /\ x # Nil
    BY <1>2, BoxFacts DEF Spot
<1>4. k \in Ids(mem)
    BY <1>1, OwnerIs
<1>5. CASE ~Used(mem, x)
    BY <1>1, <1>3, <1>4, <1>5, BareStem
<1>6. CASE Used(mem, x)
  <2>1. s = x /\ s # Nil
      BY <1>2, <1>3, <1>6
  <2>2. FindTail(mem, x, t) # Nil <=> Used(mem, <<k, w>>)
    <3>1. x[1] = k
        BY <1>3
    <3> HIDE DEF x
    <3>2. /\ FindTail(mem, x, t) # Nil <=> Used(mem, Spot(mem, mem.cur, w))
          /\ Used(mem, <<x[1], TailVar(t)>>) <=> Used(mem, Spot(mem, mem.cur, w))
        BY <1>1, <1>6, FoundTailAt DEF x
    <3> QED  BY <3>1, <3>2
  <2>3. mem.heap[x].val = None
      BY <2>1, <2>2 DEF Barred
  <2> QED  BY <1>1, <1>3, <2>3 DEF Worth
<1> QED  BY <1>5, <1>6

\* The memory when the caller's stem has the tail.
CallerTail(mem, s, t) ==
  IF FindTail(mem, s, t) # Nil THEN mem ELSE InsertTail(mem, s, t, newbox(mem, None, NoIndex))

\* The caller's tail is made, and nothing else is changed, when it has no value.
LEMMA CallerTailSame ==
    ASSUME NEW mem, IInv(mem), Fresh(mem), NEW s, Stem(mem, s), s[1] # mem.cur, NEW t \in Tails,
           ~Used(mem, <<s[1], TailVar(t)>>) => Worth(mem, s[1], TailVar(t)) = None
    PROVE  LET r == CallerTail(mem, s, t) IN
           /\ IInv(r) /\ Fresh(r) /\ Same(mem, r) /\ Grown(mem, r) /\ Stem(r, s)
           /\ FindTail(r, s, t) # Nil
           /\ \A y \in Box : y # s /\ y # <<s[1], TailVar(t)>> => r.heap[y] = mem.heap[y]
<1> DEFINE rec == newbox(mem, None, NoIndex)
           b == <<s[1], TailVar(t)>>
           r == CallerTail(mem, s, t)
<1>1. CASE FindTail(mem, s, t) # Nil
  <2>1. r = mem
      BY <1>1 DEF CallerTail
  <2> HIDE DEF r
  <2> QED  BY <1>1, <2>1, SameSelf, GrownSelf DEF r
<1>2. CASE FindTail(mem, s, t) = Nil
  <2>1. r = InsertTail(mem, s, t, rec)
      BY <1>2 DEF CallerTail
  <2>2. rec = [state |-> "used", val |-> None, real |-> Nil, valid |-> mem.cur,
               hwired |-> 0, index |-> NoIndex]
      BY NewboxIs
  <2>3. mem.cur \in Nat /\ NoIndex \in Tables /\ Nil \in Place
      BY MemoryType DEF IInv, Tables, Place
  <2> HIDE DEF rec, r
  <2>4. rec \in Cell /\ FitsTail(mem, s, t, rec) /\ rec.val = None /\ rec.state = "used"
        /\ rec.real = Nil
      BY <2>2, <2>3 DEF Cell, FitsTail
  <2>5. TailInserted(mem, s, t, rec, r)
      BY <2>1, <2>4, InsertTailIs
  <2>6. mem.heap[s].index[t] = Nil /\ b \in Box /\ ~Used(mem, b) /\ b[1] = s[1]
      BY <1>2, TailFound
  <2>7. IInv(r) /\ Stem(r, s)
      BY <2>4, <2>5, <2>6, TailInsertedInv
  <2>8. Fresh(r)
      BY <2>4, <2>5, TailFresh
  <2>9. Writes(mem, r, {b}, None)
      BY <2>4, <2>5, <2>6, TailWrites
  <2>10. Same(mem, r)
    <3>1. Worth(mem, s[1], TailVar(t)) = None
        BY <2>6
    <3>2. \A a \in Ids(mem), w \in Kinds : <<a, w>> \in {b} => Worth(mem, a, w) = None
        BY <3>1
    <3> QED  BY <2>9, <3>2, WritesNothing
  <2>11. /\ r.heap[b] = rec /\ \A y \in Box : y # s /\ y # b => r.heap[y] = mem.heap[y]
         /\ r.heap[s].state = mem.heap[s].state /\ r.heap[s].real = mem.heap[s].real
      BY <2>5 DEF TailInserted, SameButIndex
  <2>12. Used(r, b)
      BY <2>4, <2>11 DEF Used
  <2>13. FindTail(r, s, t) # Nil
      BY <2>7, <2>12, TailFound
  <2> HIDE DEF b
  <2>14. Grown(mem, r)
      BY <2>6, <2>11, <2>12, AddsGrown DEF Used
  <2> QED  BY <2>7, <2>8, <2>10, <2>11, <2>13, <2>14 DEF r, b
<1> QED  BY <1>1, <1>2

\* The variable tail of a list is the caller's once X is shared, and X before.
LEMMA SubstOpens ==
    ASSUME NEW mem, IInv(mem), NEW r, IInv(r), NEW W, Opens(mem, r, W)
    PROVE  /\ subst_index(r, Cur(r)) =
                IF <<"X">> \in W THEN subst_index(mem, Cur(mem)) ELSE "X"
           /\ subst_index(r, Cur(r)) \in Tails
<1>1. "X" \in Names /\ <<"X">> \in Kinds
    BY KindFacts
<1>2. /\ Cur(r) \in Depths(r) /\ Id(r, Cur(r)) = r.cur
      /\ Cur(mem) \in Depths(mem) /\ Id(mem, Cur(mem)) = mem.cur /\ mem.cur \in Ids(mem)
    BY CurIs
<1>3. /\ subst_index(r, Cur(r)) = Told(r, r.cur) /\ subst_index(r, Cur(r)) \in Tails
      /\ subst_index(mem, Cur(mem)) = Told(mem, mem.cur)
    BY <1>2, SubstIs
<1> DEFINE k == Owner(mem, mem.cur, <<"X">>)
<1>4. k \in Ids(mem)
    BY <1>1, <1>2, OwnerIs
<1>5. Worth(r, k, <<"X">>) = Worth(mem, k, <<"X">>)
    BY <1>1, <1>4 DEF Opens
<1>6. /\ Owner(r, r.cur, <<"X">>) = IF <<"X">> \in W THEN k ELSE r.cur
      /\ Worth(r, r.cur, <<"X">>) = None
    BY <1>1 DEF Opens
<1> QED  BY <1>3, <1>5, <1>6 DEF Told

\* The memory when the procedure has a stem of its own.
OwnStem(mem) == IF mem.lev[Cur(mem)].of["S"] # Nil THEN mem ELSE make_stem(mem, Cur(mem))

\* The procedure's own stem is made, and nothing else is changed.
LEMMA OwnStemSame ==
    ASSUME TablesSuffice, NEW mem, IInv(mem), Fresh(mem),
           NEW q, q = mem.lev[Cur(mem)].of["S"], q = Nil \/ mem.heap[q].real = Nil
    PROVE  LET r == OwnStem(mem)
               s == <<mem.cur, <<"S">>>>
           IN  /\ IInv(r) /\ Fresh(r) /\ Same(mem, r) /\ Grown(mem, r)
               /\ Cur(r) = Cur(mem) /\ r.cur = mem.cur
               /\ r.lev[Cur(mem)].of["S"] = s /\ Stem(r, s)
<1> DEFINE new == Cur(mem)
           r == OwnStem(mem)
           s == <<mem.cur, <<"S">>>>
           rec == newbox(mem, None, NoTails)
<1>1. "S" \in Names /\ "S" # "X" /\ <<"S">> \in Kinds
    BY KindFacts
<1>2. new \in Depths(mem) /\ Id(mem, new) = mem.cur /\ s \in Box /\ s[1] = mem.cur /\ s[2] = <<"S">>
    BY <1>1, CurIs, BoxFacts
<1>3. CASE q # Nil
  <2>1. r = mem
      BY <1>3 DEF OwnStem
  <2>2. q = s /\ Used(mem, s)
      BY <1>1, <1>2, <1>3 DEF IInv, Parts, Tabled
  <2> HIDE DEF r, s, new
  <2>3. Stem(mem, s) /\ mem.lev[new].of["S"] = s
      BY <1>2, <1>3, <2>2 DEF Stem, new
  <2> QED  BY <2>1, <2>3, SameSelf, GrownSelf DEF r, s, new
<1>4. CASE q = Nil
  <2>1. r = make_stem(mem, new) /\ r = Insert(mem, new, "S", rec)
      BY <1>4 DEF OwnStem, make_stem
  <2>2. Fits(mem, new, "S", rec) /\ rec.val = None
      BY <1>1, NewboxFits, NewboxIs
  <2>3. findsimple(mem, new, "S") = Nil
    <3>1. ~Used(mem, s)
        BY <1>1, <1>2, <1>4, BoxFacts DEF IInv, Parts, Tabled
    <3> QED  BY <1>1, <1>2, <3>1, FindIs
  <2> HIDE DEF rec
  <2>4. Fresh(r)
      BY <1>1, <1>2, <1>4, <2>1, <2>2, InsertFresh
  <2> DEFINE ins == Insert(mem, new, "S", rec)
  <2> HIDE DEF r, new, s
  <2>5. Stem(r, s) /\ Depths(r) = Depths(mem) /\ Id(r, new) = mem.cur
    <3>1. mem.lev[new].of["S"] = Nil
        BY <1>4 DEF new
    <3>2. /\ Depths(ins) = Depths(mem) /\ Id(ins, new) = Id(mem, new)
          /\ Stem(ins, <<Id(mem, new), <<"S">>>>)
        BY <1>2, <3>1, MakeStem DEF rec
    <3> HIDE DEF ins
    <3>3. r = ins
        BY <2>1 DEF ins
    <3> QED  BY <1>2, <3>2, <3>3 DEF s
  <2>6. /\ Same(mem, r) /\ IInv(r) /\ Cur(r) = Cur(mem) /\ r.cur = mem.cur
        /\ \A c \in Box : c # s => r.heap[c] = mem.heap[c]
      BY <1>2, <2>1, <2>3, MakeStemSame DEF s
  <2>7. r.lev[new].of["S"] = s
      BY <1>1, <1>2, <2>5, <2>6 DEF IInv, Parts, Tabled, Stem, s
  <2>8. Grown(mem, r)
      BY <1>2, <2>5, <2>6, AddsGrown DEF Used, Stem
  <2> QED  BY <2>4, <2>5, <2>6, <2>7, <2>8 DEF r, s, new
<1> QED  BY <1>3, <1>4

\* A tail of the procedure's own stem is made to lead to the caller's.
LEMMA TailJoinedOpens ==
    ASSUME NEW mem, IInv(mem), NEW one, IInv(one), NEW W, Opens(mem, one, W),
           NEW s, Stem(one, s), s[1] = one.cur, NEW t \in Tails,
           NEW f, f = Spot(one, mem.cur, TailVar(t)), Used(one, f),
           NEW rec, rec.state = "used", rec.real = f, rec.val = None,
           NEW r, TailInserted(one, s, t, rec, r)
    PROVE  Opens(mem, r, W \union {TailVar(t)})
<1> DEFINE w == TailVar(t)
           b == <<one.cur, w>>
<1>1. w \in Kinds /\ w \in TailKinds /\ w # <<"S">> /\ <<"S">> \in Kinds
    BY KindFacts
<1>2. one.cur \in Ids(one) /\ s = <<one.cur, <<"S">>>>
    BY CurIs, BoxFacts DEF Stem
<1>3. Home(one, one.cur, w) = one.cur
  <2>1. one.heap[<<one.cur, <<"S">>>>].real = Nil
      BY <1>2 DEF Stem
  <2> QED  BY <1>1, <1>2, <2>1, KeeperIs DEF Home
<1>4. /\ SameFrame(one, r) /\ r.heap[b] = rec /\ SameButIndex(r.heap[s], one.heap[s])
      /\ \A c \in Box : c # b /\ c # s => r.heap[c] = one.heap[c]
    BY DEF TailInserted
<1>5. SameRuns(one, r)
    BY <1>4, FrameSame DEF SameFrame, SameRuns
<1> HIDE DEF b
<1>6. /\ Used(r, b) /\ r.heap[b].real = f /\ r.heap[b].val = None
      /\ \A y \in Box : y # b => /\ Used(r, y) <=> Used(one, y)
                                 /\ r.heap[y].real = one.heap[y].real
                                 /\ r.heap[y].val = one.heap[y].val
    BY <1>4 DEF Used, SameButIndex
<1>7. Joined(one, w, f, r)
    BY <1>5, <1>6 DEF Joined, b
<1> HIDE DEF w
<1>8. Opens(mem, r, W \union {w})
    BY <1>1, <1>3, <1>7, JoinedOpens DEF w
<1> QED  BY <1>8 DEF w

\* A tail is exposed.
LEMMA ExposeCompoundOpens ==
    ASSUME TablesSuffice, NEW mem, IInv(mem), NEW one, IInv(one), Fresh(one), NEW W,
           Opens(mem, one, W), NEW tail \in Tails,
           Barred(mem, IF tail = "X" /\ <<"X">> \in W THEN subst_index(mem, Cur(mem)) ELSE tail)
    PROVE  \E t \in Tails : Opens(mem, expose_compound(one, tail), W \union {TailVar(t)})
<1> DEFINE new == Cur(one)
           q == one.lev[new].of["S"]
           two == OwnStem(one)
           s == <<one.cur, <<"S">>>>
           t == IF tail = "X" THEN subst_index(two, new) ELSE tail
           w == TailVar(t)
           three == CallerStem(two)
           s2 == findsimple(three, new - 1, "S")
           four == CallerTail(three, s2, t)
           f == FindTail(four, s2, t)
           r == expose_compound(one, tail)
           V == W \union {w}
           k == Owner(mem, mem.cur, <<"S">>)
<1>1. "S" \in Names /\ <<"S">> \in Kinds /\ <<"S">> \notin TailKinds
    BY KindFacts
<1>2. new \in Depths(one) /\ Id(one, new) = one.cur /\ mem.cur \in Ids(mem) /\ s \in Box
    BY <1>1, CurIs, BoxFacts
<1>3. q = IF Used(one, s) THEN s ELSE Nil
    BY <1>1, <1>2 DEF IInv, Parts, Tabled
<1>4. CASE q # Nil /\ one.heap[q].real # Nil
  <2>1. r = one
      BY <1>4 DEF expose_compound
  <2>2. Used(one, s) /\ one.heap[s].real # Nil
      BY <1>3, <1>4
  <2>3. <<"S">> \in W
      BY <1>1, <2>2, NameShared
  <2> HIDE DEF r
  <2>4. TailVar(tail) \in W
      BY <2>3 DEF Opens, TailKinds
  <2>5. W \union {TailVar(tail)} = W
      BY <2>4
  <2> QED  BY <2>1, <2>5 DEF r
<1>5. CASE ~(q # Nil /\ one.heap[q].real # Nil)
  <2>1. /\ IInv(two) /\ Fresh(two) /\ Same(one, two) /\ Grown(one, two)
        /\ Cur(two) = new /\ two.cur = one.cur /\ two.lev[new].of["S"] = s /\ Stem(two, s)
      BY <1>5, OwnStemSame
  <2>2. r = IF two.heap[s].index[t] # Nil THEN two
            ELSE InsertTail(four, s, t, Alias(four, f))
    <3>1. two = IF q # Nil THEN one ELSE make_stem(one, new)
        BY DEF OwnStem
    <3>2. three = IF findsimple(two, new - 1, "S") # Nil THEN two ELSE make_stem(two, new - 1)
        BY <2>1 DEF CallerStem
    <3>3. two.lev[new].of["S"] = s
        BY <2>1
    <3> QED  BY <1>5, <3>1, <3>2, <3>3 DEF expose_compound, CallerTail
  <2> HIDE DEF two, r, s
  <2>3. Opens(mem, two, W)
      BY <2>1, OpensSame
  <2>4. t \in Tails /\ Barred(mem, t)
    <3>1. /\ subst_index(two, new) = IF <<"X">> \in W THEN subst_index(mem, Cur(mem)) ELSE "X"
          /\ subst_index(two, new) \in Tails
        BY <2>1, <2>3, SubstOpens
    <3> HIDE DEF new
    <3> QED  BY <3>1
  <2>5. /\ IInv(three) /\ Fresh(three) /\ Cur(three) = new /\ three.cur = one.cur
        /\ Stem(three, s2) /\ s2 # Nil /\ s2[1] # one.cur
        /\ \A b \in Box : b[1] = one.cur => three.heap[b] = two.heap[b]
      BY <2>1, CallerStemIs
  <2>6. Opens(mem, three, W)
      BY <2>1, <2>3, <2>5, CallerStemSame, OpensSame
  <2>7. s2 = Spot(three, mem.cur, <<"S">>) /\ s2[1] = k
    <3>1. Cur(three) - 1 \in Depths(three) /\ Id(three, Cur(three) - 1) = mem.cur
        BY <2>5, <2>6, OpensIs
    <3>2. s2 = findsimple(three, Cur(three) - 1, "S")
        BY <2>5
    <3>3. Owner(three, mem.cur, <<"S">>) = k
        BY <1>1, <1>2, <2>6 DEF Opens
    <3> HIDE DEF s2, three, k
    <3>4. s2 = Spot(three, mem.cur, <<"S">>)
        BY <1>1, <2>5, <3>1, <3>2, FoundAt
    <3> QED  BY <3>3, <3>4 DEF Spot
  <2> HIDE DEF t, three, s2
  <2>8. w \in Kinds /\ w \in TailKinds /\ w \in StemKinds
      BY <2>4, KindFacts DEF StemKinds
  <2>9. ~Used(three, <<k, w>>) => Worth(three, k, w) = None
    <3>1. k \in Ids(mem)
        BY <1>1, <1>2, OwnerIs
    <3>2. Used(mem, <<k, w>>) => Used(three, <<k, w>>)
        BY <2>6, <2>8, <3>1 DEF Opens
    <3>3. Worth(three, k, w) = Worth(mem, k, w)
        BY <2>6, <2>8, <3>1 DEF Opens
    <3>4. ~Used(mem, <<k, w>>) => Worth(mem, k, w) = None
        BY <2>4, BarredIs
    <3> QED  BY <3>2, <3>3, <3>4
  <2>10. /\ IInv(four) /\ Fresh(four) /\ Same(three, four) /\ Grown(three, four) /\ Stem(four, s2)
         /\ f # Nil
         /\ \A y \in Box : y # s2 /\ y # <<s2[1], w>> => four.heap[y] = three.heap[y]
      BY <2>4, <2>5, <2>7, <2>9, CallerTailSame
  <2> HIDE DEF four
  <2>11. Opens(mem, four, W) /\ four.cur = one.cur
    <3>1. four.cur = three.cur
        BY <2>10, SameIds DEF Same, Writes
    <3> QED  BY <2>5, <2>6, <2>10, <3>1, OpensSame
  <2>12. s = <<one.cur, <<"S">>>> /\ s[1] = one.cur /\ s # s2 /\ s # <<s2[1], w>>
      BY <2>5 DEF s
  <2>13. Stem(four, s) /\ four.heap[s] = two.heap[s]
    <3>1. four.heap[s] = two.heap[s]
        BY <2>1, <2>5, <2>10, <2>12 DEF Stem
    <3> QED  BY <2>1, <3>1 DEF Stem, Used
  <2>14. CASE two.heap[s].index[t] # Nil
    <3>1. r = two
        BY <2>2, <2>14
    <3> DEFINE x == <<two.cur, w>>
    <3>2. Used(two, x)
        BY <2>1, <2>4, <2>12, <2>14, TailFound
    <3>3. two.heap[x].real # Nil
        BY <1>1, <2>3, <2>8, <3>2 DEF Opens
    <3>4. Home(two, two.cur, w) = two.cur
      <4>1. two.heap[<<two.cur, <<"S">>>>].real = Nil /\ two.cur \in Ids(two)
          BY <2>1, <2>12, CurIs DEF Stem
      <4> QED  BY <1>1, <2>1, <2>8, <4>1, KeeperIs DEF Home
    <3> HIDE DEF w
    <3>5. w \in W
        BY <2>1, <2>3, <2>8, <3>2, <3>3, <3>4, NameShared
    <3>6. V = W
        BY <3>5
    <3> QED  BY <2>3, <2>4, <3>1, <3>6 DEF r, w
  <2>15. CASE two.heap[s].index[t] = Nil
    <3> DEFINE rec == Alias(four, f)
    <3>1. r = InsertTail(four, s, t, rec)
        BY <2>2, <2>15
    <3>2. rec.state = "used" /\ rec.real = f /\ rec.val = None
        BY AliasIs
    <3>3. s2[1] < s[1]
        BY <2>1, CallerStemIs, <2>12 DEF three, s2
    <3>4. FitsTail(four, s, t, rec)
        BY <2>4, <2>10, <2>13, <3>3, AliasFitsTail
    <3>5. f = Spot(four, mem.cur, w) /\ Used(four, f)
      <4>1. mem.cur \in Ids(four) /\ mem.cur \in Ids(three) /\ <<"S">> \in Kinds
          BY <1>1, <1>2, <2>5, <2>6, <2>10, <2>11, OpensIs
      <4>2. s2 = Spot(four, mem.cur, <<"S">>)
        <5>1. Owner(four, mem.cur, <<"S">>) = Owner(three, mem.cur, <<"S">>)
            BY <2>10, <4>1 DEF Same, Writes
        <5> QED  BY <2>7, <5>1 DEF Spot
      <4>3. Used(four, s2)
          BY <2>10 DEF Stem
      <4> HIDE DEF f
      <4> QED  BY <2>4, <2>10, <4>1, <4>2, <4>3, FoundTailAt DEF f
    <3> HIDE DEF rec, f
    <3>6. TailInserted(four, s, t, rec, r)
        BY <2>4, <2>10, <2>13, <3>1, <3>4, InsertTailIs DEF FitsTail
    <3>7. s[1] = four.cur
        BY <2>11, <2>12
    <3>8. Opens(mem, r, V)
        BY <2>4, <2>10, <2>11, <2>13, <3>2, <3>5, <3>6, <3>7, TailJoinedOpens
    <3> HIDE DEF V
    <3> QED  BY <2>4, <3>8 DEF r, V
  <2> QED  BY <2>14, <2>15
<1> QED  BY <1>4, <1>5

\* A name of the list is exposed.
LEMMA ExposeOpens ==
    ASSUME TablesSuffice, NEW mem, IInv(mem), NEW one, IInv(one), Fresh(one), NEW W,
           Opens(mem, one, W), NEW x \in Exposable,
           \A t \in Tails : x = <<"S", t>> =>
             Barred(mem, IF t = "X" /\ <<"X">> \in W THEN subst_index(mem, Cur(mem)) ELSE t)
    PROVE  \E V : /\ Opens(mem, expose_var(one, x), V)
                  /\ <<"X">> \in V <=> (<<"X">> \in W \/ x = <<"X">>)
<1>1. <<"X">> \notin TailKinds /\ <<"X">> # <<"S">> /\ <<"S">> \notin TailKinds
      /\ \A t \in Tails : <<"S", t>> \in TailKinds
    BY KindFacts DEF TailKinds, TailVar
<1>2. CASE \E n \in Simples : x = <<n>>
  <2>1. PICK n \in Simples : x = <<n>>
      BY <1>2
  <2>2. n # "S" /\ x[1] = n /\ x # <<"S">>
      BY <2>1, KindFacts
  <2>3. expose_var(one, x) = expose_simple(one, n)
      BY <2>2 DEF expose_var
  <2>4. Opens(mem, expose_var(one, x), W \union {x})
      BY <2>1, <2>3, ExposeSimpleOpens
  <2>5. <<"X">> \in W \union {x} <=> (<<"X">> \in W \/ x = <<"X">>)
      OBVIOUS
  <2> QED  BY <2>4, <2>5
<1>3. CASE x = <<"S">>
  <2>1. expose_var(one, x) = expose_stem(one)
      BY <1>3 DEF expose_var
  <2>2. Opens(mem, expose_var(one, x), W \union StemKinds)
      BY <2>1, ExposeStemOpens
  <2>3. <<"X">> \in W \union StemKinds <=> (<<"X">> \in W \/ x = <<"X">>)
      BY <1>1, <1>3 DEF StemKinds
  <2> QED  BY <2>2, <2>3
<1>4. CASE \E t \in Tails : x = <<"S", t>>
  <2>1. PICK t \in Tails : x = <<"S", t>>
      BY <1>4
  <2>2. x[1] = "S" /\ x # <<"S">> /\ x[2] = t /\ x # <<"X">>
      BY <1>1, <2>1
  <2>3. expose_var(one, x) = expose_compound(one, t)
      BY <2>2 DEF expose_var
  <2>4. Barred(mem, IF t = "X" /\ <<"X">> \in W THEN subst_index(mem, Cur(mem)) ELSE t)
      BY <2>1
  <2>5. PICK u \in Tails : Opens(mem, expose_compound(one, t), W \union {TailVar(u)})
      BY <2>4, ExposeCompoundOpens
  <2>6. TailVar(u) # <<"X">>
      BY <1>1 DEF TailVar
  <2>7. <<"X">> \in W \union {TailVar(u)} <=> (<<"X">> \in W \/ x = <<"X">>)
      BY <2>2, <2>6
  <2> QED  BY <2>3, <2>5, <2>7
<1> QED  BY <1>2, <1>3, <1>4 DEF Exposable

\* What the names of a list up to the i-th share.
Shared(mem, list, i, r) ==
  /\ IInv(r) /\ Fresh(r)
  /\ \E W : /\ Opens(mem, r, W)
            /\ <<"X">> \in W <=> \E j \in 1 .. i : list[j] = <<"X">>

\* What another name of the list adds.
LEMMA SharedStep ==
    ASSUME TablesSuffice, NEW mem, IInv(mem), NEW list \in Seq(Exposable),
           \A i \in DOMAIN list : Len(list[i]) = 2 => ~Inherits(mem, list, i),
           NEW i \in DOMAIN list, NEW one, Shared(mem, list, i - 1, one)
    PROVE  Shared(mem, list, i, expose_var(one, list[i]))
<1> DEFINE x == list[i]
           r == expose_var(one, x)
<1>1. x \in Exposable /\ i \in Nat /\ i \in 1 .. Len(list) /\ IInv(one) /\ Fresh(one)
    BY DEF Shared
<1>2. PICK W : /\ Opens(mem, one, W)
               /\ <<"X">> \in W <=> \E j \in 1 .. i - 1 : list[j] = <<"X">>
    BY DEF Shared
<1>3. ASSUME NEW t \in Tails, x = <<"S", t>>
      PROVE  Barred(mem, IF t = "X" /\ <<"X">> \in W THEN subst_index(mem, Cur(mem)) ELSE t)
  <2>1. Len(x) = 2 /\ x[1] = "S" /\ x[2] = t /\ x # <<"X">>
      BY <1>3
  <2>2. <<"X">> \in W <=> \E j \in 1 .. i : list[j] = <<"X">>
    <3>1. \A j \in 1 .. i : j # i => j \in 1 .. i - 1
        BY <1>1
    <3>2. \A j \in 1 .. i - 1 : j \in 1 .. i
        BY <1>1
    <3> QED  BY <1>2, <2>1, <3>1, <3>2
  <2>3. ~Inherits(mem, list, i)
      BY <2>1
  <2> QED  BY <2>1, <2>2, <2>3 DEF Inherits, Barred
<1> HIDE DEF x
<1>4. PICK V : /\ Opens(mem, r, V)
               /\ <<"X">> \in V <=> (<<"X">> \in W \/ x = <<"X">>)
    BY <1>1, <1>2, <1>3, ExposeOpens
<1>5. (\E j \in 1 .. i : list[j] = <<"X">>) <=> (\E j \in 1 .. i - 1 : list[j] = <<"X">>) \/ x = <<"X">>
  <2>1. \A j \in 1 .. i : j # i => j \in 1 .. i - 1
      BY <1>1
  <2>2. i \in 1 .. i /\ \A j \in 1 .. i - 1 : j \in 1 .. i
      BY <1>1
  <2> QED  BY <2>1, <2>2 DEF x
<1>6. IInv(r) /\ Fresh(r)
    BY <1>1, ExposeInv
<1> HIDE DEF r
<1>7. Shared(mem, list, i, r)
    BY <1>2, <1>4, <1>5, <1>6 DEF Shared
<1> QED  BY <1>7 DEF r, x

\* A list of names is exposed in a new procedure, which shares them with its caller.
LEMMA ExposedOpens ==
    ASSUME TablesSuffice, NEW mem, IInv(mem), mem.next <= MaxId, NEW list \in Seq(Exposable),
           \A i \in DOMAIN list : Len(list[i]) = 2 => ~Inherits(mem, list, i)
    PROVE  \E W : Opens(mem, exposed(mem, list), W)
<1> DEFINE n == Len(list)
           after == CHOOSE f : Exposing(mem, list, n, f)
           Good(i) == Shared(mem, list, i, after[i])
           T == {i \in 0 .. n : ~Good(i)}
<1>1. n \in Nat /\ exposed(mem, list) = after[n] /\ DOMAIN list = 1 .. n
    BY DEF exposed, Exposing
<1> HIDE DEF n
<1>2. after = [i \in 0 .. n |-> IF i = 0 THEN create_new_varpool(mem)
                                ELSE expose_var(after[i - 1], list[i])]
  <2>1. n \in Nat
      BY <1>1
  <2>2. Exposing(mem, list, n, after)
      BY <2>1, ExposingSteps
  <2> HIDE DEF after
  <2> QED  BY <2>2 DEF Exposing
<1> HIDE DEF after
<1>3. T = {}
  <2>1. SUFFICES ASSUME T # {} PROVE FALSE
      OBVIOUS
  <2>2. PICK i \in T : \A j \in T : i <= j
      <3>1. T \subseteq Nat
          BY <1>1
      <3> HIDE DEF T
      <3> QED  BY <2>1, <3>1, LeastNat
  <2>3. i \in Nat /\ i \in 0 .. n /\ ~Good(i)
      BY <1>1, <2>2
  <2>4. CASE i = 0
      <3>1. after[0] = create_new_varpool(mem)
          BY <1>1, <1>2
      <3> DEFINE r == after[0]
      <3>2. Called(mem, r)
          BY <3>1, CreateIs
      <3> HIDE DEF r
      <3>3. IInv(r) /\ Fresh(r) /\ Opens(mem, r, {})
          BY <3>2, CalledInv, CreateOpens
      <3>4. 1 .. 0 = {}
          OBVIOUS
      <3>5. Shared(mem, list, 0, r)
          BY <3>3, <3>4 DEF Shared
      <3> QED  BY <2>3, <2>4, <3>5 DEF r
  <2>5. CASE i # 0
      <3>1. i - 1 \in 0 .. n /\ ~(i <= i - 1) /\ i \in DOMAIN list
          BY <1>1, <2>3, <2>5
      <3>2. i - 1 \notin T
          <4> HIDE DEF T
          <4> QED  BY <3>1, <2>2
      <3>3. Good(i - 1)
          BY <3>1, <3>2
      <3>4. after[i] = expose_var(after[i - 1], list[i])
          BY <1>2, <2>3, <2>5
      <3>5. Good(i)
          BY <3>1, <3>3, <3>4, SharedStep
      <3> QED  BY <2>3, <3>5
  <2> QED  BY <2>4, <2>5
<1>4. Good(n)
  <2>1. n \in 0 .. n
      BY <1>1
  <2> QED  BY <2>1, <1>3
<1> QED  BY <1>1, <1>4 DEF Shared

-----------------------------------------------------------------------------
(* A procedure ends. *)

\* The running procedure has ended, and its callers see what they saw.
Ends(mem, r) ==
  /\ Len(r.lev) = Len(mem.lev) - 1 /\ Depths(r) \subseteq Depths(mem)
  /\ \A d \in Depths(r) : Id(r, d) = Id(mem, d)
  /\ \A a \in Ids(r), w \in Kinds :
       Owner(r, a, w) = Owner(mem, a, w) /\ Worth(r, a, w) = Worth(mem, a, w)

\* The boxes of the callers stay as they are, and lead to one another.
LEMMA EndedEnds ==
    ASSUME NEW mem, IInv(mem), Len(mem.lev) > 1, NEW r, Ended(mem, r), IInv(r)
    PROVE  Ends(mem, r)
<1> DEFINE last == Len(mem.lev)
<1>1. last \in Nat /\ last > 1 /\ Len(r.lev) = last - 1 /\ last \in Depths(mem)
      /\ Id(mem, last) = mem.cur
    BY MemoryType, CurIs DEF IInv, Ended
<1>2. Depths(mem) = 1 .. last /\ Depths(r) = 1 .. last - 1
    BY <1>1 DEF Depths
<1> HIDE DEF last
<1>3. ASSUME NEW d \in Depths(r)
      PROVE  d \in Depths(mem) /\ d < last /\ Id(r, d) = Id(mem, d) /\ Id(mem, d) < mem.cur
  <2>1. d \in Depths(mem) /\ d < last
      BY <1>1, <1>2
  <2>2. Id(r, d) = Id(mem, d)
      BY <1>2 DEF Ended, Id, last
  <2> QED  BY <1>1, <2>1, <2>2 DEF IInv, Parts, Numbered
<1>4. ASSUME NEW a \in Ids(r)
      PROVE  a \in Ids(mem) /\ a < mem.cur /\ a \in Numbers /\ mem.cur \in Numbers
    BY <1>3, CurIs, MemoryType DEF Ids, IInv
<1>5. ASSUME NEW a \in Ids(mem), a < mem.cur, NEW w \in Kinds
      PROVE  /\ r.heap[<<a, w>>] = mem.heap[<<a, w>>] /\ Keeper(r, a, w) = Keeper(mem, a, w)
  <2> DEFINE b == <<a, w>>
  <2>1. b \in Box /\ b[1] = a /\ b[1] # mem.cur
      BY <1>5, BoxFacts, CurIs DEF Numbers
  <2> HIDE DEF b
  <2>2. r.heap[b] = mem.heap[b]
      BY <2>1 DEF Ended
  <2>3. Used(r, b) <=> Used(mem, b) /\ Root(r, b) = Root(mem, b)
      BY <2>2 DEF Used, Root
  <2> QED  BY <2>2, <2>3 DEF Keeper, Used, Root, b
<1>6. ASSUME NEW a \in Ids(r), NEW w \in Kinds
      PROVE  Owner(r, a, w) = Owner(mem, a, w) /\ Worth(r, a, w) = Worth(mem, a, w)
  <2> DEFINE h == Home(mem, a, w)
  <2>1. a \in Ids(mem) /\ a < mem.cur /\ <<"S">> \in Kinds
      BY <1>4, KindFacts
  <2>2. h \in Ids(mem) /\ h < mem.cur
    <3>1. h \in Ids(mem) /\ h <= a /\ h \in Numbers
        BY <2>1, OwnerIs
    <3> QED  BY <1>4, <3>1 DEF Numbers
  <2>3. Home(r, a, w) = h
      BY <1>5, <2>1 DEF Home
  <2> HIDE DEF h
  <2>4. Keeper(r, h, w) = Keeper(mem, h, w)
      BY <1>5, <2>2
  <2>5. Owner(r, a, w) = Owner(mem, a, w)
      BY <2>3, <2>4 DEF Owner, h
  <2>6. Worth(r, a, w) = Worth(mem, a, w)
      BY <1>5, <2>1 DEF Worth, Used
  <2> QED  BY <2>5, <2>6
<1> QED  BY <1>1, <1>3, <1>6 DEF Ends, last

-----------------------------------------------------------------------------
(* What RexxScopes sees. *)

\* The variables are those of RexxScopes.
LEMMA VarsAre ==
    /\ Scopes_Vars = Kinds /\ Scopes!Vars = Kinds /\ Scopes!StemVars = StemKinds
    /\ Scopes!TailVars = TailKinds /\ Scopes!Cells = (1 .. MaxLevel) \X Kinds
    /\ Scopes!None = None
<1>1. Scopes!TailVars = TailKinds
    BY DEF Scopes!TailVars, Scopes!TailVar, TailKinds, TailVar
<1>2. Scopes!StemVars = StemKinds
    BY <1>1 DEF Scopes!StemVars, StemKinds
<1>3. NameKinds = {<<n>> : n \in Simples} \union {<<"S">>}
    BY DEF NameKinds, Names
<1>4. Scopes!Vars = Kinds
    BY <1>2, <1>3 DEF Scopes!Vars, Kinds, StemKinds
<1>5. Scopes_Vars = Kinds
    BY <1>3 DEF Scopes_Vars, Kinds, TailKinds
<1> QED  BY <1>1, <1>2, <1>4, <1>5 DEF Scopes!Cells, Scopes!None, None

\* How deep procedure a runs, and what is seen of a memory.
Rank(mem, a) == CHOOSE d \in Depths(mem) : Id(mem, d) = a
Seat(mem, d, x) == <<Rank(mem, Owner(mem, Id(mem, d), x)), x>>
Grid == (1 .. MaxLevel) \X Kinds
ScopeOf(mem) == [d \in Depths(mem) |-> [x \in Kinds |-> Seat(mem, d, x)]]
ValOf(mem) == [c \in Grid |-> IF c[1] \in Depths(mem) THEN Worth(mem, Id(mem, c[1]), c[2])
                              ELSE None]

\* A number that is in use has a depth, and the other way round.
LEMMA RankIs ==
    ASSUME NEW mem, IInv(mem)
    PROVE  /\ \A a \in Ids(mem) : Rank(mem, a) \in Depths(mem) /\ Id(mem, Rank(mem, a)) = a
           /\ \A d \in Depths(mem) : Rank(mem, Id(mem, d)) = d
<1>1. ASSUME NEW a \in Ids(mem)
      PROVE  Rank(mem, a) \in Depths(mem) /\ Id(mem, Rank(mem, a)) = a
  <2>1. \E d \in Depths(mem) : Id(mem, d) = a
      BY DEF Ids
  <2> QED  BY <2>1 DEF Rank
<1>2. ASSUME NEW d \in Depths(mem)
      PROVE  Rank(mem, Id(mem, d)) = d
  <2>1. Id(mem, d) \in Ids(mem)
      BY DEF Ids
  <2>2. Rank(mem, Id(mem, d)) \in Depths(mem) /\ Id(mem, Rank(mem, Id(mem, d))) = Id(mem, d)
      BY <1>1, <2>1
  <2> QED  BY <2>2, CurIs
<1> QED  BY <1>1, <1>2

\* The depths are the same where the numbers are.
LEMMA SameRank ==
    ASSUME NEW mem, NEW r, SameRuns(mem, r), NEW a
    PROVE  Rank(r, a) = Rank(mem, a) /\ Depths(r) = Depths(mem)
<1>1. Depths(r) = Depths(mem) /\ \A d \in Depths(mem) : Id(r, d) = Id(mem, d)
    BY SameIds DEF SameRuns
<1> QED  BY <1>1 DEF Rank

\* The depth of a box in use is that of the procedure it was made for.
LEMMA LevelRank == ASSUME NEW b PROVE LevelOf(b) = Rank(m, b[1])
BY DEF LevelOf, Rank, Depths, Id, Cur

\* Where a simple variable or the stem is found.
LEMMA NameSeat ==
    ASSUME IInv(m), NEW d \in Depths(m), NEW n \in Names
    PROVE  LET b == findsimple(m, d, n)
           IN  (IF b = Nil THEN d ELSE LevelOf(b)) = Rank(m, Owner(m, Id(m, d), <<n>>))
<1> DEFINE a == Id(m, d)
           x == Spot(m, a, <<n>>)
           b == findsimple(m, d, n)
<1>1. a \in Ids(m) /\ <<n>> \in Kinds /\ <<n>> \notin TailKinds /\ Rank(m, a) = d
    BY KindFacts, RankIs, CurIs
<1>2. x \in Box /\ b = (IF Used(m, x) THEN x ELSE Nil) /\ (b # Nil <=> Used(m, x))
    BY FoundAt
<1>3. x[1] = Owner(m, a, <<n>>)
    BY DEF Spot
<1>4. CASE Used(m, x)
  <2>1. b = x /\ b # Nil
      BY <1>2, <1>4
  <2> HIDE DEF b, x, a
  <2>2. (IF b = Nil THEN d ELSE LevelOf(b)) = Rank(m, x[1])
      BY <2>1, LevelRank
  <2>3. (IF b = Nil THEN d ELSE LevelOf(b)) = Rank(m, Owner(m, a, <<n>>))
      BY <1>3, <2>2
  <2> QED  BY <2>3 DEF b, a
<1>5. CASE ~Used(m, x)
  <2>1. Home(m, a, <<n>>) = a
      BY <1>1 DEF Home
  <2>2. Owner(m, a, <<n>>) = a
      BY <1>1, <1>5, <2>1, OwnerIs DEF Spot
  <2>3. b = Nil
      BY <1>2, <1>5
  <2> HIDE DEF b, a
  <2>4. (IF b = Nil THEN d ELSE LevelOf(b)) = Rank(m, Owner(m, a, <<n>>))
      BY <1>1, <2>2, <2>3
  <2> QED  BY <2>4 DEF b, a
<1> QED  BY <1>4, <1>5

\* The value a procedure keeps itself for a simple variable or the stem.
LEMMA NameWorth ==
    ASSUME IInv(m), NEW d \in Depths(m), NEW n \in Names
    PROVE  OwnValue(m.lev[d].of[n]) = Worth(m, Id(m, d), <<n>>)
<1> DEFINE a == Id(m, d)
           b == <<a, <<n>>>>
<1>1. a \in Ids(m) /\ <<n>> \in Kinds /\ <<n>> \notin TailKinds /\ b \in Box /\ b # Nil /\ b[1] = a
    BY KindFacts, BoxFacts, CurIs
<1>2. m.lev[d].of[n] = IF Used(m, b) THEN b ELSE Nil
    BY DEF IInv, Parts, Tabled
<1>3. Worth(m, a, <<n>>) = m.heap[b].val
    BY <1>1 DEF Worth
<1> HIDE DEF b
<1>4. ~Used(m, b) => m.heap[b].val = None
  <2>1. ~Used(m, b) => m.heap[b] = FreeBox
      BY <1>1, FreeAt
  <2> QED  BY <2>1 DEF FreeBox
<1> QED  BY <1>1, <1>2, <1>3, <1>4 DEF OwnValue

\* The cell of a variable is the procedure that keeps it.
LEMMA CellOfIs ==
    ASSUME IInv(m), NEW d \in Depths(m), NEW x \in Kinds
    PROVE  CellOf(d, x) = Seat(m, d, x)
<1> DEFINE a == Id(m, d)
<1>1. a \in Ids(m) /\ "S" \in Names /\ <<"S">> \in Kinds /\ <<"S">> \notin TailKinds
      /\ Rank(m, a) = d
    BY KindFacts, RankIs, CurIs
<1>2. CASE \E n \in Simples : x = <<n>>
  <2>1. PICK n \in Simples : x = <<n>>
      BY <1>2
  <2>2. n \in Names /\ x[1] = n /\ n # "S"
      BY <2>1, KindFacts
  <2> DEFINE b == findsimple(m, d, n)
  <2>3. CellOf(d, x) = <<IF b = Nil THEN d ELSE LevelOf(b), x>>
      BY <2>2 DEF CellOf
  <2> HIDE DEF b
  <2>4. (IF b = Nil THEN d ELSE LevelOf(b)) = Rank(m, Owner(m, a, x))
      BY <2>1, <2>2, NameSeat DEF b
  <2> QED  BY <2>3, <2>4 DEF Seat
<1> DEFINE s == m.lev[d].of["S"]
           h == findsimple(m, d, "S")
           home == IF s = Nil THEN d ELSE LevelOf(h)
           y == <<a, <<"S">>>>
<1>3. /\ h = Seek(m, s) /\ y \in Box /\ s = (IF Used(m, y) THEN y ELSE Nil)
      /\ (h # Nil <=> Used(m, y)) /\ (h = Nil <=> s = Nil)
  <2>1. /\ h = Seek(m, s) /\ y \in Box /\ s = (IF Used(m, y) THEN y ELSE Nil)
        /\ (h # Nil <=> Used(m, y))
      BY <1>1, FindIs DEF findsimple, IInv, Parts, Tabled
  <2> QED  BY <2>1, BoxFacts
<1>4. home = Rank(m, Owner(m, a, <<"S">>))
    BY <1>1, <1>3, NameSeat
<1>5. CASE x = <<"S">>
  <2>1. CellOf(d, x) = <<home, x>>
      BY <1>3, <1>5 DEF CellOf
  <2> QED  BY <1>4, <1>5, <2>1 DEF Seat
<1>6. CASE \E t \in Tails : x = TailVar(t)
  <2>1. PICK t \in Tails : x = TailVar(t)
      BY <1>6
  <2>2. x[1] = "S" /\ x # <<"S">> /\ x[2] = t /\ x \in TailKinds
      BY <1>1, <2>1, KindFacts DEF TailVar
  <2> DEFINE f == FindTail(m, h, t)
             c == IF s = Nil \/ f = Nil THEN home ELSE LevelOf(f)
  <2>3. CellOf(d, x) = <<c, x>>
      BY <1>3, <2>2 DEF CellOf
  <2> HIDE DEF f, home, s, h
  <2>4. c = Rank(m, Owner(m, a, x))
    <3>1. CASE h = Nil
      <4>1. ~Used(m, y) /\ ~Used(m, <<a, x>>)
        <5>1. a \in Numbers
            BY <1>1, CurIs
        <5> QED  BY <1>3, <2>2, <3>1, <5>1, StemOfTail
      <4>2. Home(m, a, x) = a /\ Owner(m, a, x) = a
          BY <2>2, <4>1 DEF Home, Keeper, Owner
      <4>3. c = home
          BY <1>3, <3>1
      <4>4. home = d
          BY <1>3, <3>1 DEF home
      <4> QED  BY <1>1, <4>2, <4>3, <4>4
    <3>2. CASE h # Nil
      <4>1. h = Spot(m, a, <<"S">>) /\ Used(m, h)
          BY <1>1, <3>2, FoundAt DEF h
      <4> DEFINE b == Spot(m, a, x)
      <4>2. /\ h[1] = Owner(m, a, <<"S">>) /\ b \in Box
            /\ f = (IF Used(m, b) THEN b ELSE Nil) /\ (f # Nil <=> Used(m, b))
            /\ (~Used(m, b) => b = <<h[1], x>>)
          BY <1>1, <2>1, <4>1, FoundTailAt DEF f
      <4>3. b[1] = Owner(m, a, x)
          BY DEF Spot
      <4> HIDE DEF b
      <4>4. CASE Used(m, b)
        <5>1. c = LevelOf(b)
            BY <1>3, <3>2, <4>2, <4>4
        <5> QED  BY <4>3, <5>1, LevelRank
      <4>5. CASE ~Used(m, b)
        <5>1. c = home
            BY <4>2, <4>5
        <5>2. b[1] = Owner(m, a, <<"S">>)
            BY <4>2, <4>5
        <5> QED  BY <1>4, <4>3, <5>1, <5>2
      <4> QED  BY <4>4, <4>5
    <3> QED  BY <3>1, <3>2
  <2> HIDE DEF c
  <2> QED  BY <2>3, <2>4 DEF Seat
<1> QED  BY <1>2, <1>5, <1>6 DEF Kinds, NameKinds, TailKinds, Names

\* The value of a cell is the value its procedure keeps.
LEMMA CellValueIs ==
    ASSUME IInv(m), NEW d \in Depths(m), NEW x \in Kinds
    PROVE  CellValue(d, x) = Worth(m, Id(m, d), x)
<1> DEFINE a == Id(m, d)
           s == m.lev[d].of["S"]
           y == <<a, <<"S">>>>
<1>1. /\ a \in Ids(m) /\ a \in Numbers /\ "S" \in Names /\ <<"S">> \in Kinds
      /\ <<"S">> \notin TailKinds /\ y \in Box /\ y[1] = a /\ y[2] = <<"S">> /\ y # Nil
    BY KindFacts, CurIs, BoxFacts
<1>2. s = IF Used(m, y) THEN y ELSE Nil
    BY <1>1 DEF IInv, Parts, Tabled
<1>3. CASE \E n \in Simples : x = <<n>>
  <2>1. PICK n \in Simples : x = <<n>>
      BY <1>3
  <2>2. n \in Names /\ x[1] = n /\ n # "S"
      BY <2>1, KindFacts
  <2>3. CellValue(d, x) = OwnValue(m.lev[d].of[n])
      BY <2>2 DEF CellValue
  <2> QED  BY <2>1, <2>2, <2>3, NameWorth
<1>4. CASE x = <<"S">>
  <2>1. CellValue(d, x) = OwnValue(s)
      BY <1>4 DEF CellValue
  <2> QED  BY <1>1, <1>4, <2>1, NameWorth
<1>5. CASE \E t \in Tails : x = TailVar(t)
  <2>1. PICK t \in Tails : x = TailVar(t)
      BY <1>5
  <2>2. x[1] = "S" /\ x # <<"S">> /\ x[2] = t /\ x \in TailKinds
      BY <1>1, <2>1, KindFacts DEF TailVar
  <2> DEFINE f == m.heap[s].index[t]
             v == IF s = Nil \/ m.heap[s].real # Nil THEN None
                  ELSE IF f = Nil THEN m.heap[s].val ELSE OwnValue(f)
  <2>3. CellValue(d, x) = v
      BY <2>2 DEF CellValue
  <2> DEFINE z == <<a, x>>
  <2>4. Worth(m, a, x) = IF Used(m, z) THEN m.heap[z].val ELSE m.heap[y].val
      BY <2>2 DEF Worth
  <2>5. Used(m, z) => Used(m, y) /\ m.heap[y].real = Nil
      BY <1>1, <2>2, StemOfTail
  <2> HIDE DEF y, z, s
  <2>6. CASE ~Used(m, y)
    <3>1. m.heap[y] = FreeBox
        BY <1>1, <2>6, FreeAt
    <3> QED  BY <1>2, <2>3, <2>4, <2>5, <2>6, <3>1 DEF FreeBox
  <2>7. CASE Used(m, y) /\ m.heap[y].real # Nil
    <3>1. m.heap[y].val = None
        BY <1>1, <2>7 DEF IInv, Parts, Leads
    <3> QED  BY <1>1, <1>2, <2>3, <2>4, <2>5, <2>7, <3>1
  <2>8. CASE Used(m, y) /\ m.heap[y].real = Nil
    <3>1. s = y
        BY <1>2, <2>8
    <3>2. Stem(m, y)
        BY <1>1, <2>8 DEF Stem
    <3>3. m.heap[y].index[t] = (IF Used(m, z) THEN z ELSE Nil) /\ z # Nil
        BY <1>1, <2>1, <3>2, TailFound DEF z
    <3>4. v = IF Used(m, z) THEN m.heap[z].val ELSE m.heap[y].val
        BY <1>1, <2>8, <3>1, <3>3 DEF OwnValue
    <3> QED  BY <2>3, <2>4, <3>4
  <2> QED  BY <2>6, <2>7, <2>8
<1> QED  BY <1>3, <1>4, <1>5 DEF Kinds, NameKinds, TailKinds, Names

\* What RexxScopes sees of the memory.
Seen == VisibleScope = ScopeOf(m) /\ VisibleVal = ValOf(m)
LEMMA SeenIs == PoolInv => Seen
<1> SUFFICES ASSUME IInv(m) PROVE Seen
    BY DEF PoolInv
<1>1. Scopes_Vars = Kinds /\ 1 .. Cur(m) = Depths(m)
    BY VarsAre DEF Depths, Cur
<1>2. \A d \in Depths(m), x \in Kinds : CellOf(d, x) = Seat(m, d, x)
    BY CellOfIs
<1>3. VisibleScope = ScopeOf(m)
    BY <1>1, <1>2 DEF VisibleScope, ScopeOf
<1>4. \A c \in Grid : /\ c[1] <= Cur(m) <=> c[1] \in Depths(m)
                      /\ c[2] \in Kinds
    BY <1>1, CurIs, MemoryType, PoolAssumption DEF Grid, IInv
<1>5. \A c \in Grid : c[1] \in Depths(m) => CellValue(c[1], c[2]) = Worth(m, Id(m, c[1]), c[2])
    BY <1>4, CellValueIs
<1>6. VisibleVal = ValOf(m)
    BY <1>1, <1>4, <1>5 DEF VisibleVal, ValOf, Grid
<1> QED  BY <1>3, <1>6 DEF Seen

\* The scopes are a sequence.
LEMMA ScopeSeq ==
    ASSUME NEW mem, IInv(mem)
    PROVE  /\ ScopeOf(mem) \in Seq([Kinds -> Nat \X Kinds]) /\ Len(ScopeOf(mem)) = Cur(mem)
           /\ Cur(mem) \in Nat /\ Depths(mem) = 1 .. Cur(mem)
           /\ \A d \in Depths(mem), x \in Kinds :
                /\ Owner(mem, Id(mem, d), x) \in Ids(mem)
                /\ Rank(mem, Owner(mem, Id(mem, d), x)) \in Depths(mem)
                /\ ScopeOf(mem)[d][x] = Seat(mem, d, x)
<1> DEFINE n == Cur(mem)
           F == [Kinds -> Nat \X Kinds]
<1>1. n \in Nat /\ Depths(mem) = 1 .. n
    BY CurIs, MemoryType DEF IInv, Depths
<1>2. ASSUME NEW d \in Depths(mem), NEW x \in Kinds
      PROVE  /\ Owner(mem, Id(mem, d), x) \in Ids(mem)
             /\ Rank(mem, Owner(mem, Id(mem, d), x)) \in Depths(mem)
             /\ ScopeOf(mem)[d][x] = Seat(mem, d, x) /\ Seat(mem, d, x) \in Nat \X Kinds
  <2>1. Id(mem, d) \in Ids(mem)
      BY DEF Ids
  <2> DEFINE k == Owner(mem, Id(mem, d), x)
  <2>2. k \in Ids(mem)
      BY <2>1, OwnerIs
  <2> HIDE DEF k
  <2>3. Rank(mem, k) \in Depths(mem) /\ Rank(mem, k) \in Nat
      BY <1>1, <2>2, RankIs
  <2>4. Seat(mem, d, x) = <<Rank(mem, k), x>>
      BY DEF Seat, k
  <2>5. ScopeOf(mem)[d][x] = Seat(mem, d, x)
      BY DEF ScopeOf
  <2> QED  BY <2>2, <2>3, <2>4, <2>5 DEF k
<1>3. \A d \in 1 .. n : [x \in Kinds |-> Seat(mem, d, x)] \in F
    BY <1>1, <1>2
<1>4. ScopeOf(mem) \in [1 .. n -> F] /\ DOMAIN ScopeOf(mem) = 1 .. n
    BY <1>1, <1>3 DEF ScopeOf
<1> HIDE DEF F
<1>5. ScopeOf(mem) \in Seq(F) /\ Len(ScopeOf(mem)) = n
  <2> DEFINE s == ScopeOf(mem)
  <2> HIDE DEF s, n
  <2>1. s \in Seq(F)
      BY <1>1, <1>4, SeqDef DEF s
  <2>2. Len(s) = n
      BY <1>1, <1>4, <2>1, LenProperties DEF s
  <2> QED  BY <2>1, <2>2 DEF s
<1> QED  BY <1>1, <1>2, <1>5 DEF F

\* An assignment reaches the cells its names stand for, and no other.
LEMMA WritesSeen ==
    ASSUME NEW mem, IInv(mem), NEW r, NEW K, K \subseteq Kinds, NEW v,
           Writes(mem, r, {At(mem, w) : w \in K}, v)
    PROVE  /\ ScopeOf(r) = ScopeOf(mem)
           /\ ValOf(r) = [c \in Grid |-> IF c \in {ScopeOf(mem)[Cur(mem)][w] : w \in K} THEN v
                                         ELSE ValOf(mem)[c]]
<1> DEFINE C == {At(mem, w) : w \in K}
           D == {ScopeOf(mem)[Cur(mem)][w] : w \in K}
<1>1. /\ Depths(r) = Depths(mem) /\ \A d \in Depths(mem) : Id(r, d) = Id(mem, d) /\ Id(mem, d) \in Ids(mem)
      /\ \A a : Rank(r, a) = Rank(mem, a)
    BY SameRank DEF Writes, SameRuns, Ids
<1>2. Cur(mem) \in Depths(mem) /\ Id(mem, Cur(mem)) = mem.cur
    BY CurIs
<1>3. \A d \in Depths(mem), x \in Kinds : Seat(r, d, x) = Seat(mem, d, x)
    BY <1>1 DEF Seat, Writes
<1>4. ScopeOf(r) = ScopeOf(mem)
    BY <1>1, <1>3 DEF ScopeOf
<1>5. \A w \in K : ScopeOf(mem)[Cur(mem)][w] = <<Rank(mem, Owner(mem, mem.cur, w)), w>>
                   /\ Owner(mem, mem.cur, w) \in Ids(mem)
                   /\ Rank(mem, Owner(mem, mem.cur, w)) \in Depths(mem)
    BY <1>2, ScopeSeq DEF Seat
<1>6. ASSUME NEW c \in Grid
      PROVE  ValOf(r)[c] = IF c \in D THEN v ELSE ValOf(mem)[c]
  <2>1. c = <<c[1], c[2]>> /\ c[2] \in Kinds
      BY DEF Grid
  <2>2. /\ ValOf(r)[c] = (IF c[1] \in Depths(mem) THEN Worth(r, Id(mem, c[1]), c[2]) ELSE None)
        /\ ValOf(mem)[c] = (IF c[1] \in Depths(mem) THEN Worth(mem, Id(mem, c[1]), c[2]) ELSE None)
      BY <1>1 DEF ValOf
  <2>3. CASE c[1] \notin Depths(mem)
    <3>1. c \notin D
      <4>1. ASSUME NEW w \in K, c = ScopeOf(mem)[Cur(mem)][w] PROVE FALSE
          <5>1. c[1] = Rank(mem, Owner(mem, mem.cur, w))
              BY <1>5, <4>1
          <5> QED  BY <1>5, <2>3, <5>1
      <4> QED  BY <4>1
    <3> QED  BY <2>2, <2>3, <3>1
  <2>4. CASE c[1] \in Depths(mem)
    <3> DEFINE a == Id(mem, c[1])
               x == c[2]
    <3>1. a \in Ids(mem) /\ Rank(mem, a) = c[1]
        BY <1>1, <2>4, RankIs
    <3>2. Worth(r, a, x) = IF <<a, x>> \in C THEN v ELSE Worth(mem, a, x)
        BY <2>1, <3>1 DEF Writes
    <3> HIDE DEF a, x
    <3>3. <<a, x>> \in C <=> x \in K /\ a = Owner(mem, mem.cur, x)
        BY DEF At, Spot
    <3>4. c \in D <=> x \in K /\ c[1] = Rank(mem, Owner(mem, mem.cur, x))
      <4>1. ASSUME c \in D PROVE x \in K /\ c[1] = Rank(mem, Owner(mem, mem.cur, x))
        <5>1. PICK w \in K : c = ScopeOf(mem)[Cur(mem)][w]
            BY <4>1
        <5>2. c = <<Rank(mem, Owner(mem, mem.cur, w)), w>>
            BY <1>5, <5>1
        <5> QED  BY <5>2 DEF x
      <4>2. ASSUME x \in K, c[1] = Rank(mem, Owner(mem, mem.cur, x)) PROVE c \in D
        <5>1. ScopeOf(mem)[Cur(mem)][x] = c
            BY <1>5, <2>1, <4>2 DEF x
        <5> QED  BY <4>2, <5>1
      <4> QED  BY <4>1, <4>2
    <3>5. c \in D <=> <<a, x>> \in C
      <4>1. x \in K => Owner(mem, mem.cur, x) \in Ids(mem)
          BY <1>5
      <4>2. x \in K => (c[1] = Rank(mem, Owner(mem, mem.cur, x)) <=> a = Owner(mem, mem.cur, x))
          BY <3>1, <4>1, RankIs DEF a
      <4> QED  BY <3>3, <3>4, <4>2
    <3> HIDE DEF C, D
    <3> QED  BY <2>2, <2>4, <3>2, <3>5 DEF a, x
  <2> QED  BY <2>3, <2>4
<1>7. ValOf(r) = [c \in Grid |-> ValOf(r)[c]]
    BY DEF ValOf
<1> HIDE DEF D
<1>8. ValOf(r) = [c \in Grid |-> IF c \in D THEN v ELSE ValOf(mem)[c]]
    BY <1>6, <1>7
<1> QED  BY <1>4, <1>8 DEF D

\* Where nothing has changed nothing is seen to change.
LEMMA SameSeen ==
    ASSUME NEW mem, IInv(mem), NEW r, Same(mem, r)
    PROVE  ScopeOf(r) = ScopeOf(mem) /\ ValOf(r) = ValOf(mem)
<1>1. Writes(mem, r, {At(mem, w) : w \in {}}, None)
  <2>1. {At(mem, w) : w \in {}} = {}
      OBVIOUS
  <2> QED  BY <2>1 DEF Same
<1>2. /\ ScopeOf(r) = ScopeOf(mem)
      /\ ValOf(r) = [c \in Grid |-> IF c \in {ScopeOf(mem)[Cur(mem)][w] : w \in {}} THEN None
                                    ELSE ValOf(mem)[c]]
    BY <1>1, WritesSeen
<1>3. ValOf(mem) = [c \in Grid |-> ValOf(mem)[c]]
    BY DEF ValOf
<1> HIDE DEF ValOf
<1>4. ValOf(r) = [c \in Grid |-> ValOf(mem)[c]]
    BY <1>2
<1> QED  BY <1>2, <1>3, <1>4

\* The scope a procedure opens: what it shares, and cells of its own.
Opened(mem, W) ==
  [x \in Kinds |-> IF x \in W THEN ScopeOf(mem)[Cur(mem)][x] ELSE <<Cur(mem) + 1, x>>]

\* A call adds a scope.
LEMMA OpensSeen ==
    ASSUME NEW mem, IInv(mem), NEW r, IInv(r), NEW W, Opens(mem, r, W)
    PROVE  ScopeOf(r) = Append(ScopeOf(mem), Opened(mem, W)) /\ ValOf(r) = ValOf(mem)
<1> DEFINE n == Cur(mem)
           F == [Kinds -> Nat \X Kinds]
           s == ScopeOf(mem)
           u == ScopeOf(r)
           e == Opened(mem, W)
           p == Append(s, e)
<1>1. /\ n \in Nat /\ Depths(mem) = 1 .. n /\ Depths(r) = 1 .. n + 1 /\ Cur(r) = n + 1
      /\ s \in Seq(F) /\ Len(s) = n /\ u \in Seq(F) /\ Len(u) = n + 1
      /\ Id(r, n + 1) = r.cur /\ n \in Depths(mem) /\ Id(mem, n) = mem.cur
  <2>1. Cur(r) = n + 1
      BY DEF Opens, Cur
  <2> QED  BY <2>1, ScopeSeq, CurIs
<1>2. /\ \A d \in Depths(mem) : Id(r, d) = Id(mem, d) /\ Id(mem, d) \in Ids(mem) /\ d \in Depths(r)
      /\ \A a \in Ids(mem) : a \in Ids(r)
  <2>1. \A d \in Depths(mem) : d \in Depths(r)
      BY <1>1
  <2>2. \A d \in Depths(mem) : Id(r, d) = Id(mem, d)
      BY DEF Opens
  <2> QED  BY <2>1, <2>2 DEF Ids
<1>3. \A a \in Ids(mem) : Rank(r, a) = Rank(mem, a)
  <2>1. ASSUME NEW a \in Ids(mem) PROVE Rank(r, a) = Rank(mem, a)
    <3>1. Rank(mem, a) \in Depths(mem) /\ Id(mem, Rank(mem, a)) = a
        BY RankIs
    <3> DEFINE d == Rank(mem, a)
    <3> HIDE DEF d
    <3>2. Id(r, d) = a /\ d \in Depths(r)
        BY <1>2, <3>1 DEF d
    <3>3. Rank(r, Id(r, d)) = d
        BY <3>2, RankIs
    <3> QED  BY <3>2, <3>3 DEF d
  <2> QED  BY <2>1
<1>4. Rank(r, r.cur) = n + 1
  <2>1. n + 1 \in Depths(r)
      BY <1>1
  <2> QED  BY <1>1, <2>1, RankIs
<1> HIDE DEF n
<1>5. \A d \in Depths(mem) : u[d] = s[d]
  <2>1. ASSUME NEW d \in Depths(mem), NEW x \in Kinds PROVE Seat(r, d, x) = Seat(mem, d, x)
    <3> DEFINE a == Id(mem, d)
               k == Owner(mem, a, x)
    <3>1. Owner(r, a, x) = k
        BY <1>2 DEF Opens
    <3>2. k \in Ids(mem)
        BY ScopeSeq
    <3> HIDE DEF k
    <3>3. Rank(r, k) = Rank(mem, k)
        BY <1>3, <3>2
    <3>4. Seat(r, d, x) = <<Rank(r, k), x>>
        BY <1>2, <3>1 DEF Seat
    <3>5. Seat(mem, d, x) = <<Rank(mem, k), x>>
        BY DEF Seat, k
    <3> QED  BY <3>3, <3>4, <3>5
  <2>2. ASSUME NEW d \in Depths(mem) PROVE u[d] = s[d]
    <3>1. u[d] = [x \in Kinds |-> Seat(r, d, x)] /\ s[d] = [x \in Kinds |-> Seat(mem, d, x)]
        BY <1>2 DEF ScopeOf
    <3> QED  BY <2>1, <3>1
  <2> QED  BY <2>2
<1>6. u[n + 1] = e
  <2>1. ASSUME NEW x \in Kinds
        PROVE  Seat(r, n + 1, x) = IF x \in W THEN s[n][x] ELSE <<n + 1, x>>
    <3> DEFINE k == Owner(mem, mem.cur, x)
    <3>1. Owner(r, r.cur, x) = IF x \in W THEN k ELSE r.cur
        BY DEF Opens
    <3>2. s[n][x] = <<Rank(mem, k), x>> /\ k \in Ids(mem)
        BY <1>1, ScopeSeq DEF Seat
    <3> HIDE DEF k, s
    <3>3. Seat(r, n + 1, x) = <<Rank(r, Owner(r, r.cur, x)), x>>
        BY <1>1 DEF Seat
    <3>4. CASE x \in W
        BY <1>3, <3>1, <3>2, <3>3, <3>4
    <3>5. CASE x \notin W
        BY <1>4, <3>1, <3>3, <3>5
    <3> QED  BY <3>4, <3>5
  <2>2. u[n + 1] = [x \in Kinds |-> Seat(r, n + 1, x)]
      BY <1>1 DEF ScopeOf
  <2>3. e = [x \in Kinds |-> IF x \in W THEN s[n][x] ELSE <<n + 1, x>>]
      BY DEF Opened, n
  <2> HIDE DEF u, s, e
  <2> QED  BY <2>1, <2>2, <2>3
<1> HIDE DEF u, s, e
<1>7. u = p
  <2>1. u \in [1 .. n + 1 -> F] /\ n + 1 \in 1 .. n + 1
      BY <1>1, LenProperties
  <2> HIDE DEF F
  <2>2. e \in F
      BY <1>6, <2>1
  <2>3. /\ p \in Seq(F) /\ Len(p) = n + 1 /\ p[n + 1] = e
        /\ \A d \in 1 .. n : p[d] = s[d]
      BY <1>1, <2>2, AppendProperties
  <2> HIDE DEF p
  <2>4. ASSUME NEW d \in 1 .. Len(u) PROVE u[d] = p[d]
    <3>1. d \in 1 .. n \/ d = n + 1
        BY <1>1
    <3>2. CASE d = n + 1
        BY <1>6, <2>3, <3>2
    <3>3. CASE d \in 1 .. n
        BY <1>1, <1>5, <2>3, <3>3
    <3> QED  BY <3>1, <3>2, <3>3
  <2>5. Len(u) = Len(p)
      BY <1>1, <2>3
  <2> QED  BY <1>1, <2>3, <2>4, <2>5, SeqEqual
<1>8. ValOf(r) = ValOf(mem)
  <2>1. ASSUME NEW c \in Grid
        PROVE  (IF c[1] \in Depths(r) THEN Worth(r, Id(r, c[1]), c[2]) ELSE None)
                 = (IF c[1] \in Depths(mem) THEN Worth(mem, Id(mem, c[1]), c[2]) ELSE None)
    <3>1. c[2] \in Kinds /\ c[1] \in Nat
        BY DEF Grid
    <3>2. CASE c[1] \in Depths(mem)
        BY <1>2, <3>1, <3>2 DEF Opens
    <3>3. CASE c[1] = n + 1
      <4>1. c[1] \notin Depths(mem)
          BY <1>1, <3>3
      <4>2. Worth(r, r.cur, c[2]) = None
          BY <3>1 DEF Opens
      <4> QED  BY <1>1, <3>3, <4>1, <4>2
    <3>4. CASE c[1] \notin Depths(r) /\ c[1] \notin Depths(mem)
        BY <3>4
    <3>5. c[1] \in Depths(r) => c[1] \in Depths(mem) \/ c[1] = n + 1
        BY <1>1, <3>1
    <3> QED  BY <3>2, <3>3, <3>4, <3>5
  <2> QED  BY <2>1 DEF ValOf
<1> QED  BY <1>7, <1>8 DEF u, s, e, p

\* A return takes the last scope away, and the cells it owned.
LEMMA EndsSeen ==
    ASSUME NEW mem, IInv(mem), Cur(mem) > 1, NEW r, IInv(r), Ends(mem, r)
    PROVE  /\ ScopeOf(r) = SubSeq(ScopeOf(mem), 1, Cur(mem) - 1)
           /\ ValOf(r) = [c \in Grid |-> IF c \in {<<Cur(mem), x>> : x \in Kinds} THEN None
                                         ELSE ValOf(mem)[c]]
<1> DEFINE n == Cur(mem)
           F == [Kinds -> Nat \X Kinds]
           s == ScopeOf(mem)
           u == ScopeOf(r)
           p == SubSeq(s, 1, n - 1)
           D == {<<n, x>> : x \in Kinds}
<1>1. /\ n \in Nat /\ n > 1 /\ Depths(mem) = 1 .. n /\ Depths(r) = 1 .. n - 1 /\ Cur(r) = n - 1
      /\ s \in Seq(F) /\ Len(s) = n /\ u \in Seq(F) /\ Len(u) = n - 1
  <2>1. Cur(r) = n - 1
      BY DEF Ends, Cur
  <2> QED  BY <2>1, ScopeSeq, CurIs
<1> HIDE DEF n
<1>2. \A d \in Depths(r) : Id(r, d) = Id(mem, d) /\ Id(r, d) \in Ids(r) /\ d \in Depths(mem)
    BY DEF Ends, Ids
<1>3. ASSUME NEW a \in Ids(r) PROVE Rank(r, a) = Rank(mem, a)
  <2>1. Rank(r, a) \in Depths(r) /\ Id(r, Rank(r, a)) = a
      BY RankIs
  <2> DEFINE d == Rank(r, a)
  <2> HIDE DEF d
  <2>2. Id(mem, d) = a /\ d \in Depths(mem)
      BY <1>2, <2>1 DEF d
  <2>3. Rank(mem, Id(mem, d)) = d
      BY <2>2, RankIs
  <2> QED  BY <2>2, <2>3 DEF d
<1>4. \A d \in Depths(r) : u[d] = s[d]
  <2>1. ASSUME NEW d \in Depths(r), NEW x \in Kinds PROVE Seat(r, d, x) = Seat(mem, d, x)
    <3> DEFINE a == Id(r, d)
               k == Owner(r, a, x)
    <3>1. Owner(mem, a, x) = k
        BY <1>2 DEF Ends
    <3>2. k \in Ids(r)
        BY ScopeSeq
    <3> HIDE DEF k
    <3>3. Rank(r, k) = Rank(mem, k)
        BY <1>3, <3>2
    <3>4. Seat(r, d, x) = <<Rank(r, k), x>>
        BY DEF Seat, k
    <3>5. Seat(mem, d, x) = <<Rank(mem, k), x>>
        BY <1>2, <3>1 DEF Seat
    <3> QED  BY <3>3, <3>4, <3>5
  <2>2. ASSUME NEW d \in Depths(r) PROVE u[d] = s[d]
    <3>1. u[d] = [x \in Kinds |-> Seat(r, d, x)] /\ s[d] = [x \in Kinds |-> Seat(mem, d, x)]
        BY <1>2 DEF ScopeOf
    <3> QED  BY <2>1, <3>1
  <2> QED  BY <2>2
<1> HIDE DEF u, s
<1>5. u = p
  <2> HIDE DEF F
  <2>1. /\ 1 \in Int /\ n - 1 \in Int /\ \A i \in 1 .. n - 1 : s[i] \in F
    <3>1. s \in [1 .. n -> F]
        BY <1>1, LenProperties
    <3>2. \A i \in 1 .. n - 1 : i \in 1 .. n
        BY <1>1
    <3> QED  BY <1>1, <3>1, <3>2
  <2>2. /\ p \in Seq(F) /\ Len(p) = (IF 1 <= n - 1 THEN n - 1 - 1 + 1 ELSE 0)
        /\ \A i \in 1 .. n - 1 - 1 + 1 : p[i] = s[1 + i - 1]
      BY <2>1, SubSeqProperties
  <2> HIDE DEF p
  <2>3. Len(p) = n - 1 /\ \A i \in 1 .. n - 1 : p[i] = s[i]
    <3>1. 1 <= n - 1 /\ n - 1 - 1 + 1 = n - 1
        BY <1>1
    <3>2. \A i \in 1 .. n - 1 : 1 + i - 1 = i
        BY <1>1
    <3> QED  BY <2>2, <3>1, <3>2
  <2>4. \A d \in 1 .. Len(u) : u[d] = p[d]
      BY <1>1, <1>4, <2>3
  <2>5. Len(u) = Len(p)
      BY <1>1, <2>3
  <2> QED  BY <1>1, <2>2, <2>4, <2>5, SeqEqual
<1>6. ValOf(r) = [c \in Grid |-> IF c \in D THEN None ELSE ValOf(mem)[c]]
  <2>1. ASSUME NEW c \in Grid
        PROVE  (IF c[1] \in Depths(r) THEN Worth(r, Id(r, c[1]), c[2]) ELSE None)
                 = (IF c \in D THEN None ELSE ValOf(mem)[c])
    <3>1. c[2] \in Kinds /\ c[1] \in Nat /\ c = <<c[1], c[2]>>
        BY DEF Grid
    <3>2. ValOf(mem)[c] = (IF c[1] \in Depths(mem) THEN Worth(mem, Id(mem, c[1]), c[2]) ELSE None)
        BY DEF ValOf
    <3>3. c \in D <=> c[1] = n
        BY <3>1
    <3> HIDE DEF D
    <3>4. CASE c[1] \in Depths(r)
      <4>1. c[1] # n
          BY <1>1, <3>4
      <4> QED  BY <1>2, <3>1, <3>2, <3>3, <3>4, <4>1 DEF Ends
    <3>5. CASE c[1] \notin Depths(r)
      <4>1. c[1] = n \/ c[1] \notin Depths(mem)
          BY <1>1, <3>1, <3>5
      <4> QED  BY <3>2, <3>3, <3>5, <4>1
    <3> QED  BY <3>4, <3>5
  <2> HIDE DEF D
  <2>2. ValOf(r) = [c \in Grid |-> IF c[1] \in Depths(r) THEN Worth(r, Id(r, c[1]), c[2]) ELSE None]
      BY DEF ValOf
  <2> QED  BY <2>1, <2>2
<1> QED  BY <1>5, <1>6 DEF u, s, p, n

\* At first there is one scope of cells without a value.
LEMMA InitSeen ==
    ASSUME Init
    PROVE  ScopeOf(m) = <<[x \in Kinds |-> <<1, x>>]>> /\ ValOf(m) = [c \in Grid |-> None]
<1>1. IInv(m)
    BY InitInv
<1>2. /\ m.heap = [b \in Box |-> FreeBox] /\ m.cur = 3 /\ Len(m.lev) = 1 /\ Id(m, 1) = 3
    BY DEF Init, Id
<1>3. Depths(m) = {1} /\ 1 \in Depths(m)
    BY <1>2 DEF Depths
<1>4. Ids(m) = {3}
    BY <1>2, <1>3 DEF Ids
<1>5. ASSUME NEW w \in Kinds
      PROVE  ~Used(m, <<3, w>>) /\ m.heap[<<3, w>>].val = None
  <2> DEFINE b == <<3, w>>
  <2>1. b \in Box
      BY <1>1, <1>4, BoxFacts, CurIs
  <2> HIDE DEF b
  <2>2. m.heap[b] = FreeBox
      BY <1>2, <2>1
  <2>3. FreeBox.state # "used" /\ FreeBox.val = None
      BY DEF FreeBox
  <2> QED  BY <2>2, <2>3 DEF Used, b
<1>6. <<"S">> \in Kinds
    BY KindFacts
<1>7. ASSUME NEW w \in Kinds
      PROVE  Owner(m, 3, w) = 3 /\ Worth(m, 3, w) = None
  <2>1. \A x \in Kinds : Keeper(m, 3, x) = 3
      BY <1>5 DEF Keeper
  <2>2. Home(m, 3, w) = 3
      BY <1>6, <2>1 DEF Home
  <2> QED  BY <1>5, <1>6, <2>1, <2>2 DEF Owner, Worth
<1>8. Rank(m, 3) = 1
    BY <1>1, <1>2, <1>3, RankIs
<1>9. \A x \in Kinds : Seat(m, 1, x) = <<1, x>>
    BY <1>2, <1>7, <1>8 DEF Seat
<1>10. ScopeOf(m) = <<[x \in Kinds |-> <<1, x>>]>>
  <2> DEFINE e == [x \in Kinds |-> <<1, x>>]
  <2>1. ScopeOf(m) = [d \in {1} |-> e]
      BY <1>3, <1>9 DEF ScopeOf
  <2> HIDE DEF e
  <2>2. [d \in {1} |-> e] = <<e>>
      OBVIOUS
  <2> QED  BY <2>1, <2>2 DEF e
<1>11. \A c \in Grid : c[1] \in Depths(m) => Worth(m, Id(m, c[1]), c[2]) = None
  <2>1. \A c \in Grid : c[2] \in Kinds
      BY DEF Grid
  <2> QED  BY <1>2, <1>3, <1>7, <2>1
<1> QED  BY <1>10, <1>11 DEF ValOf

-----------------------------------------------------------------------------
(* Every step of the pool is one of RexxScopes. *)

\* A simple variable or a tail is assigned or dropped.
LEMMA AssignStep ==
    ASSUME IInv(m), Seen, Seen', NEW w \in Kinds \ {<<"S">>}, NEW v \in Vals \union {None},
           Writes(m, m', {At(m, w)}, v)
    PROVE  Scopes!Next
<1> DEFINE s == ScopeOf(m)
           k == s[Cur(m)][w]
           K == {w}
           D == {ScopeOf(m)[Cur(m)][x] : x \in K}
<1>1. K \subseteq Kinds /\ Writes(m, m', {At(m, x) : x \in K}, v) /\ D = {k}
  <2>1. {At(m, x) : x \in K} = {At(m, w)}
      OBVIOUS
  <2> QED  BY <2>1
<1>2. /\ ScopeOf(m') = s
      /\ ValOf(m') = [c \in Grid |-> IF c \in {k} THEN v ELSE ValOf(m)[c]]
  <2> HIDE DEF K
  <2>1. /\ ScopeOf(m') = ScopeOf(m)
        /\ ValOf(m') = [c \in Grid |-> IF c \in {ScopeOf(m)[Cur(m)][x] : x \in K} THEN v
                                       ELSE ValOf(m)[c]]
      BY <1>1, WritesSeen
  <2> QED  BY <1>1, <2>1
<1>3. /\ VisibleScope = s /\ VisibleVal = ValOf(m)
      /\ VisibleScope' = ScopeOf(m') /\ VisibleVal' = ValOf(m')
    BY DEF Seen
<1>4. Len(VisibleScope) = Cur(m)
    BY <1>3, ScopeSeq
<1>5. Scopes!Top[w] = k
    BY <1>3, <1>4 DEF Scopes!Top
<1> HIDE DEF s, k
<1>6. [ValOf(m) EXCEPT ![k] = v] = [c \in Grid |-> IF c \in {k} THEN v ELSE ValOf(m)[c]]
  <2> DEFINE f == ValOf(m)
  <2>1. DOMAIN f = Grid /\ f = [c \in Grid |-> f[c]]
      BY DEF ValOf
  <2> HIDE DEF f
  <2>2. [f EXCEPT ![k] = v] = [c \in Grid |-> IF c \in {k} THEN v ELSE f[c]]
      BY <2>1
  <2> QED  BY <2>2 DEF f
<1>7. Scopes!Assign(w, v)
    BY <1>2, <1>3, <1>5, <1>6 DEF Scopes!Assign
<1> QED  BY <1>7, VarsAre DEF Scopes!Next

\* The stem is assigned or dropped, with the tails that are seen.
LEMMA StemStep ==
    ASSUME IInv(m), Seen, Seen', NEW v \in Vals \union {None},
           Writes(m, m', {At(m, w) : w \in StemKinds}, v)
    PROVE  Scopes!Next
<1> DEFINE s == ScopeOf(m)
           D == {s[Cur(m)][w] : w \in StemKinds}
<1>1. StemKinds \subseteq Kinds
    BY KindFacts DEF StemKinds, Kinds
<1>2. /\ ScopeOf(m') = s
      /\ ValOf(m') = [c \in Grid |-> IF c \in D THEN v ELSE ValOf(m)[c]]
  <2> DEFINE r == m'
  <2>1. Writes(m, r, {At(m, w) : w \in StemKinds}, v)
      OBVIOUS
  <2> HIDE DEF r
  <2>2. /\ ScopeOf(r) = ScopeOf(m)
        /\ ValOf(r) = [c \in Grid |-> IF c \in {ScopeOf(m)[Cur(m)][w] : w \in StemKinds} THEN v
                                      ELSE ValOf(m)[c]]
      BY <1>1, <2>1, WritesSeen
  <2> QED  BY <2>2 DEF r
<1>3. /\ VisibleScope = s /\ VisibleVal = ValOf(m)
      /\ VisibleScope' = ScopeOf(m') /\ VisibleVal' = ValOf(m')
    BY DEF Seen
<1>4. Len(VisibleScope) = Cur(m)
    BY <1>3, ScopeSeq
<1>5. {Scopes!Top[x] : x \in Scopes!StemVars} = D
    BY <1>3, <1>4, VarsAre DEF Scopes!Top
<1> HIDE DEF D, s
<1>6. Scopes!Put(D, v)
    BY <1>2, <1>3, VarsAre DEF Scopes!Put, Grid
<1>7. Scopes!AssignStem(v)
    BY <1>2, <1>3, <1>5, <1>6 DEF Scopes!AssignStem
<1> QED  BY <1>7, VarsAre DEF Scopes!Next

\* A procedure starts.
LEMMA EnterStep ==
    ASSUME IInv(m), IInv(m'), Seen, Seen', Cur(m) < MaxLevel, NEW W, Opens(m, m', W)
    PROVE  Scopes!Next
<1>1. ScopeOf(m') = Append(ScopeOf(m), Opened(m, W)) /\ ValOf(m') = ValOf(m)
    BY OpensSeen
<1>2. /\ VisibleScope = ScopeOf(m) /\ VisibleVal = ValOf(m)
      /\ VisibleScope' = ScopeOf(m') /\ VisibleVal' = ValOf(m')
    BY DEF Seen
<1>3. Len(VisibleScope) = Cur(m)
    BY <1>2, ScopeSeq
<1>4. Opened(m, W) = [x \in Scopes!Vars |-> IF x \in W THEN Scopes!Top[x]
                                            ELSE <<Len(VisibleScope) + 1, x>>]
    BY <1>2, <1>3, VarsAre DEF Opened, Scopes!Top
<1>5. W \subseteq Scopes!Vars /\ (<<"S">> \in W => Scopes!TailVars \subseteq W)
    BY VarsAre DEF Opens
<1>6. Scopes!Enter(W)
    BY <1>1, <1>2, <1>3, <1>4, <1>5 DEF Scopes!Enter
<1> QED  BY <1>5, <1>6 DEF Scopes!Next

\* A procedure returns.
LEMMA LeaveStep ==
    ASSUME IInv(m), IInv(m'), Seen, Seen', Cur(m) > 1, Ends(m, m')
    PROVE  Scopes!Next
<1> DEFINE D == {<<Cur(m), x>> : x \in Kinds}
<1>1. /\ ScopeOf(m') = SubSeq(ScopeOf(m), 1, Cur(m) - 1)
      /\ ValOf(m') = [c \in Grid |-> IF c \in D THEN None ELSE ValOf(m)[c]]
    BY EndsSeen
<1>2. /\ VisibleScope = ScopeOf(m) /\ VisibleVal = ValOf(m)
      /\ VisibleScope' = ScopeOf(m') /\ VisibleVal' = ValOf(m')
    BY DEF Seen
<1>3. Len(VisibleScope) = Cur(m)
    BY <1>2, ScopeSeq
<1>4. {<<Len(VisibleScope), x>> : x \in Scopes!Vars} = D
    BY <1>3, VarsAre
<1> HIDE DEF D
<1>5. Scopes!Put(D, None)
    BY <1>1, <1>2, VarsAre DEF Scopes!Put, Grid
<1>6. Scopes!Leave
    BY <1>1, <1>2, <1>3, <1>4, <1>5, VarsAre DEF Scopes!Leave
<1> QED  BY <1>6 DEF Scopes!Next

\* A step that changes nothing the program sees.
LEMMA QuietStep ==
    ASSUME IInv(m), Seen, Seen', Same(m, m')
    PROVE  UNCHANGED Scopes!vars
<1>1. ScopeOf(m') = ScopeOf(m) /\ ValOf(m') = ValOf(m)
    BY SameSeen
<1> QED  BY <1>1 DEF Seen, Scopes!vars

\* Each operation of a program is a step of RexxScopes, or changes nothing.
LEMMA NextRefines ==
    ASSUME TablesSuffice, Habits = {}
    PROVE  PoolInv /\ PoolInv' /\ Seen /\ Seen' /\ [Next]_m => [Scopes!Next]_(Scopes!vars)
<1> SUFFICES ASSUME IInv(m), IInv(m'), Seen, Seen', [Next]_m
             PROVE  Scopes!Next \/ UNCHANGED Scopes!vars
    BY DEF PoolInv
<1>1. NodeX \in Nodes /\ NodeHead \in Nodes /\ NodeX # NodeHead
      /\ NodeName(NodeX) = "X" /\ NodeName(NodeHead) = "S"
    BY DEF Nodes, NodeX, NodeHead, NodeName
<1>2. /\ "S" \in Names /\ "S" # "X" /\ \A n \in Simples : n \in Names /\ n # "S"
      /\ \A n \in Simples : <<n>> \in Kinds \ {<<"S">>}
      /\ \A t \in Tails : TailVar(t) \in Kinds \ {<<"S">>}
    BY KindFacts
<1>3. Reached(m, "S") = {At(m, w) : w \in StemKinds}
      /\ \A n \in Simples : Reached(m, n) = {At(m, <<n>>)}
    BY <1>2 DEF Reached, Reach
<1>4. CASE Refer
    BY <1>1, <1>4, ShortcutSame, QuietStep DEF Refer
<1>5. CASE ReferCompound
    BY <1>5, CompoundGetSame, QuietStep DEF ReferCompound
<1>6. CASE DropStem
    BY <1>6, DropStemWrites, StemStep DEF DropStem
<1>7. CASE Return
  <2>1. Cur(m) > 1 /\ Len(m.lev) > 1 /\ m' \in kill_variables(m)
      BY <1>7 DEF Return, Cur
  <2>2. Ended(m, m')
      BY <2>1, KilledIs
  <2>3. Ends(m, m')
      BY <2>1, <2>2, EndedEnds
  <2> QED  BY <2>1, <2>3, LeaveStep
<1>8. ASSUME NEW v \in Vals, SetCompound(v) PROVE Scopes!Next
  <2>1. PICK t \in Tails : Writes(m, m', {At(m, TailVar(t))}, v)
      BY <1>8, CompoundSetWrites DEF SetCompound
  <2> QED  BY <1>2, <2>1, AssignStep
<1>9. ASSUME NEW v \in Vals, SetByName("S", v) PROVE Scopes!Next
  <2>1. Writes(m, m', Reached(m, "S"), v)
      BY <1>2, <1>9, SetWrites DEF SetByName
  <2> QED  BY <1>3, <2>1, StemStep
<1>10. ASSUME NEW v \in Vals, AddToStem(v) PROVE Scopes!Next
  <2>1. /\ ShortValue(m, NodeHead) # None
        /\ m.heap[findsimple(m, Cur(m), "S")].index = NoTails
        /\ m' = setshortcut(shortcut(m, NodeHead), NodeHead, v)
      BY <1>10 DEF AddToStem
  <2>2. Writes(m, m', Reached(m, "S"), v)
      BY <2>1, AddToStemWrites
  <2> QED  BY <1>3, <2>2, StemStep
<1>11. ASSUME NEW v \in Vals \cap Tails, Set(v) PROVE Scopes!Next
  <2>1. m' = setshortcut(m, NodeX, v)
      BY <1>11 DEF Set
  <2>2. Writes(m, m', Reached(m, "X"), v)
      BY <1>1, <2>1, SetshortcutWrites
  <2>3. "X" \in Simples
      BY PoolAssumption
  <2> QED  BY <1>2, <1>3, <2>2, <2>3, AssignStep
<1>12. ASSUME NEW v \in Vals \cap Tails, NEW n \in Simples, SetByName(n, v) PROVE Scopes!Next
  <2>1. Writes(m, m', Reached(m, n), v)
      BY <1>2, <1>12, SetWrites DEF SetByName
  <2> QED  BY <1>2, <1>3, <2>1, AssignStep
<1>13. ASSUME NEW t \in ConstTails, NEW v \in Vals, SetTail(t, v) PROVE Scopes!Next
  <2>1. t \in Tails
      BY PoolAssumption
  <2>2. Writes(m, m', {At(m, TailVar(t))}, v)
      BY <1>13, <2>1, SetTailWrites DEF SetTail
  <2> QED  BY <1>2, <2>1, <2>2, AssignStep
<1>14. ASSUME NEW n \in Simples, Drop(n) PROVE Scopes!Next
  <2>1. Writes(m, m', {At(m, <<n>>)}, None)
      BY <1>14, DropSimpleWrites DEF Drop
  <2> QED  BY <1>2, <2>1, AssignStep
<1>15. ASSUME NEW t \in ConstTails, DropTail(t) PROVE Scopes!Next
  <2>1. t \in Tails
      BY PoolAssumption
  <2>2. Writes(m, m', {At(m, TailVar(t))}, None)
      BY <1>15, <2>1, DropTailWrites DEF DropTail
  <2> QED  BY <1>2, <2>1, <2>2, AssignStep
<1>16. ASSUME NEW list \in ExposeLists, Procedure(list) PROVE Scopes!Next
  <2>1. list \in Seq(Exposable)
      BY PoolAssumption DEF Exposable
  <2>2. /\ Cur(m) < MaxLevel /\ m.next <= MaxId /\ m' = exposed(m, list)
        /\ \A i \in DOMAIN list : Len(list[i]) = 2 => ~Inherits(m, list, i)
      BY <1>16 DEF Procedure
  <2>3. PICK W : Opens(m, m', W)
      BY <2>1, <2>2, ExposedOpens
  <2> QED  BY <2>2, <2>3, EnterStep
<1>17. ASSUME NEW nd \in Nodes, detach(nd) PROVE UNCHANGED Scopes!vars
  <2>1. m.node[nd] # Nil /\ Released(m, nd, m')
      BY <1>17, DetachIs
  <2>2. Kept(m, m')
      BY <2>1, ReleasedInv
  <2> QED  BY <2>2, KeptSame, QuietStep
<1>18. CASE UNCHANGED m
    BY <1>18, SameSelf, QuietStep
<1> QED
  BY <1>4, <1>5, <1>6, <1>7, <1>8, <1>9, <1>10, <1>11, <1>12, <1>13, <1>14, <1>15, <1>16, <1>17,
     <1>18 DEF Next

\* A program sees its variables as RexxScopes says, through all the pointers, numbers and
\* boxes that lead elsewhere: while the tables do not grow, and for the programs that
\* neither add to a stem with tails nor expose a tail that has its stem's value.
THEOREM Refines ==
    ASSUME TablesSuffice, Habits = {}
    PROVE  Spec => Implements
<1>1. Init => Scopes!Init
  <2> SUFFICES ASSUME Init PROVE Scopes!Init
      OBVIOUS
  <2>1. PoolInv
      BY InitInv DEF PoolInv
  <2>2. VisibleScope = <<[x \in Kinds |-> <<1, x>>]>> /\ VisibleVal = [c \in Grid |-> None]
      BY <2>1, SeenIs, InitSeen DEF Seen
  <2> QED  BY <2>2, VarsAre DEF Scopes!Init, Scopes!Own, Grid
<1>2. Spec => []PoolInv
    BY InvAlways
<1>3. PoolInv => Seen
    BY SeenIs
<1>4. PoolInv /\ PoolInv' /\ Seen /\ Seen' /\ [Next]_m => [Scopes!Next]_(Scopes!vars)
    BY NextRefines
<1> QED  BY <1>1, <1>2, <1>3, <1>4, PTL DEF Spec, Implements, Scopes!Spec
=============================================================================
