-------------------------- MODULE QueueTableProofs --------------------------
(***************************************************************************)
(* Proofs about QueueTable, for any names, hosts, redirections and number  *)
(* of slots: which queue is current and under which name, that names are   *)
(* unambiguous, that connections are owned by slots that somebody gives up *)
(* again, and that a command leaves the current queue as it was.           *)
(*                                                                         *)
(* A command works on a table that is in nobody's variable yet, so all     *)
(* parts of the invariant are stated of a table w, and each helper of the  *)
(* model has a lemma that says what it does to them.                       *)
(***************************************************************************)
EXTENDS QueueTable, FiniteSetTheorems, SequenceTheorems, TLAPS

QNames == LocalNames \union RemoteNames \union {None, Session}
            \union {Unique(r) : r \in 0 .. MaxRunner}
TableType == [slot : [Slots -> SlotType], conns : [Hosts -> Int], cur : Slots, name : QNames]
Ends == LocalNames \union RemoteNames \union {None}
EnvType == [in : Ends, out : Ends, inq : 0 .. NumberQueues, outq : 0 .. NumberQueues]

\* Slot 0 is SESSION; an external slot leads to a host; only connections are open.
SlotsOK(w) ==
  /\ w.slot[0] = Internal(Session, TRUE)
  /\ \A i \in Slots : w.slot[i].type = "external" => w.slot[i].name \in RemoteNames
  /\ \A i \in Slots : w.slot[i].open => w.slot[i].type = "external"

Unambiguous(w) ==
  \A i, j \in Slots : w.slot[i].type = "internal" /\ w.slot[j].type = "internal"
                      /\ w.slot[i].name = w.slot[j].name => i = j

CurrentOK(w) ==
  /\ w.slot[w.cur].type # "unused"
  /\ w.slot[w.cur].type = "external" => w.slot[w.cur].open
  /\ w.name = w.slot[w.cur].name

OpenTo(f, h) == {i \in Slots : f[i].open /\ f[i].name[2] = h}
\* The connections to h nothing stands for: none, but for the tables that were full.
Extra(w, h) == w.conns[h] - Cardinality(OpenTo(w.slot, h))
\* What a slot adds to them.
Counts(s, h) == IF s.open /\ s.name[2] = h THEN 1 ELSE 0
SameExtra(v, w) == \A h \in Hosts : Extra(v, h) = Extra(w, h)

\* What every table on the way of an operation is.
TableOK(w) == w \in TableType /\ SlotsOK(w) /\ Unambiguous(w)

\* The names still to be made by RXQUEUE('C') are in no slot.
Made(n, r) == \A q \in 0 .. MaxRunner : n = Unique(q) => q < r
NewNames(w, r) == \A i \in Slots : w.slot[i].type = "internal" => Made(w.slot[i].name, r)

AllLocal(w) == \A i \in Slots : w.slot[i].type # "external"

Held(w, es) == \A i \in Slots : w.slot[i].open =>
    i = w.cur \/ \E k \in 1 .. Len(es) : i = es[k].inq \/ i = es[k].outq

EnvsOK(es) == es \in Seq(EnvType) /\ Len(es) > 0

\* The inductive invariant of TypeOK and NamesKept.
IInv ==
  /\ TableOK(t) /\ CurrentOK(t) /\ NewNames(t, runner)
  /\ internal \in BOOLEAN /\ runner \in 0 .. MaxRunner
  /\ EnvsOK(envs)
  /\ \A h \in Hosts : Extra(t, h) >= 0
\* What ConnectionsOwned needs on top of it, and CommandKeepsCurrent.
CInv == Held(t, envs) /\ \A h \in Hosts : Extra(t, h) = 0
LocalWhenInternal == internal => AllLocal(t)

\* Slot i as an internal queue, and as a connection that is made or could not be.
WithLocal(w, i, s) == [w EXCEPT !.slot[i] = s]
WithConnection(w, i, s) ==
  [w EXCEPT !.slot[i] = s,
            !.conns = IF s.open THEN [w.conns EXCEPT ![s.name[2]] = @ + 1] ELSE w.conns]
\* Another default for the current connection.
WithName(w, n) == [w EXCEPT !.slot[w.cur].name = n, !.name = n]

\* Every slot of v is as in w, or an external one of w that was given up.
Fewer(v, w) == \A k \in Slots :
    v.slot[k] = w.slot[k] \/ (v.slot[k] = Unused /\ w.slot[k].type = "external")

-----------------------------------------------------------------------------
(* Slots.                                                                  *)

LEMMA SlotNumbers ==
  /\ 0 \in Slots /\ NoSlot \notin Slots /\ IsFiniteSet(Slots)
  /\ \A i \in Slots : i \in Nat /\ i \in 0 .. NumberQueues
  /\ NoSlot \in 0 .. NumberQueues
BY TableAssumption, FS_Interval DEF Slots, NoSlot

LEMMA SlotTypes ==
  /\ Unused \in SlotType /\ Unused.type = "unused" /\ ~Unused.open
  /\ \A n \in QNames, b \in BOOLEAN :
       /\ Internal(n, b) \in SlotType
       /\ Internal(n, b).type = "internal" /\ Internal(n, b).name = n /\ ~Internal(n, b).open
       /\ External(n, b) \in SlotType
       /\ External(n, b).type = "external" /\ External(n, b).name = n /\ External(n, b).open = b
BY DEF Unused, Internal, External, SlotType, QNames

\* find_queue finds a queue of the name if there is one.
LEMMA FindQueue ==
  ASSUME NEW w, NEW n
  PROVE  \/ /\ find_queue(w, n) \in Slots
            /\ w.slot[find_queue(w, n)].type = "internal" /\ w.slot[find_queue(w, n)].name = n
         \/ /\ find_queue(w, n) = NoSlot
            /\ \A i \in Slots : ~(w.slot[i].type = "internal" /\ w.slot[i].name = n)
<1> DEFINE P(i) == w.slot[i].type = "internal" /\ w.slot[i].name = n
<1>1. CASE \E i \in Slots : P(i)
  <2>1. find_queue(w, n) = CHOOSE i \in Slots : P(i)
      BY <1>1 DEF find_queue
  <2>2. (CHOOSE i \in Slots : P(i)) \in Slots /\ P(CHOOSE i \in Slots : P(i))
      BY <1>1
  <2> QED  BY <2>1, <2>2
<1>2. CASE ~ \E i \in Slots : P(i)
    BY <1>2 DEF find_queue
<1> QED  BY <1>1, <1>2

\* find_free_slot finds an unused slot if there is one, and never SESSION's.
LEMMA FreeSlot ==
  ASSUME NEW w
  PROVE  \/ /\ find_free_slot(w) \in Slots \ {0}
            /\ w.slot[find_free_slot(w)].type = "unused"
         \/ /\ find_free_slot(w) = NoSlot
            /\ \A i \in Slots \ {0} : w.slot[i].type # "unused"
<1> DEFINE U == {i \in Slots \ {0} : w.slot[i].type = "unused"}
           P(i) == w.slot[i].type = "unused" /\ \A j \in Slots \ {0} : j < i => w.slot[j].type # "unused"
<1>1. CASE U # {}
  <2>1. U \subseteq Nat
      BY SlotNumbers
  <2> DEFINE R == {ss \in Nat \X Nat : ss[1] < ss[2]}
  <2>2. PICK i \in U : \A j \in U : ~(<<j, i>> \in R)
    <3> HIDE DEF U, R
    <3>1. IsWellFoundedOn(R, Nat)
        BY NatLessThanWellFounded DEF R, OpToRel
    <3> QED  BY <1>1, <2>1, <3>1, WFMin
  <2>3. \A j \in U : ~(j < i)
    <3>1. ASSUME NEW j \in U, j < i  PROVE <<j, i>> \in R
        BY <2>1, <3>1
    <3> QED  BY <2>2, <3>1
  <2>4. i \in Slots \ {0} /\ P(i)
      BY <2>3
  <2>5. find_free_slot(w) = CHOOSE k \in Slots \ {0} : P(k)
      BY <2>4 DEF find_free_slot
  <2>6. (CHOOSE k \in Slots \ {0} : P(k)) \in Slots \ {0} /\ P(CHOOSE k \in Slots \ {0} : P(k))
      BY <2>4
  <2> QED  BY <2>5, <2>6
<1>2. CASE U = {}
    BY <1>2 DEF find_free_slot
<1> QED  BY <1>1, <1>2

\* One slot of a table is filled anew.
LEMMA PutSlot ==
  ASSUME NEW w, NEW v, TableOK(w), v \in TableType,
         NEW i \in Slots, NEW s \in SlotType, v.slot = [w.slot EXCEPT ![i] = s],
         i # 0 \/ s = w.slot[0],
         s.type = "external" => s.name \in RemoteNames,
         s.open => s.type = "external",
         s.type = "internal" =>
           \A k \in Slots : w.slot[k].type = "internal" /\ w.slot[k].name = s.name => k = i
  PROVE  TableOK(v)
<1>1. /\ w.slot \in [Slots -> SlotType] /\ v.slot[i] = s
      /\ \A k \in Slots : k # i => v.slot[k] = w.slot[k]
    BY DEF TableOK, TableType
<1>2. SlotsOK(v)
    BY <1>1, SlotNumbers DEF TableOK, SlotsOK
<1>3. Unambiguous(v)
    BY <1>1 DEF TableOK, Unambiguous
<1> QED  BY <1>2, <1>3 DEF TableOK

\* How many connections a host has when one slot is filled anew.
LEMMA CountSlot ==
  ASSUME NEW w, NEW v, w \in TableType, v \in TableType, NEW h \in Hosts,
         NEW i \in Slots, \A k \in Slots : k # i => v.slot[k] = w.slot[k],
         v.conns[h] = w.conns[h] + Counts(v.slot[i], h) - Counts(w.slot[i], h)
  PROVE  Extra(v, h) = Extra(w, h)
<1> DEFINE O == OpenTo(w.slot, h)
           N == OpenTo(v.slot, h)
<1>1. IsFiniteSet(O)
    BY SlotNumbers, FS_Subset DEF OpenTo
<1>2. /\ Extra(v, h) = v.conns[h] - Cardinality(N) /\ Extra(w, h) = w.conns[h] - Cardinality(O)
      /\ w.conns[h] \in Int /\ Cardinality(O) \in Nat
    BY <1>1, FS_CardinalityType DEF TableType, Extra
<1>3. Counts(w.slot[i], h) = IF i \in O THEN 1 ELSE 0
    BY DEF OpenTo, Counts
<1>4. CASE i \in N
  <2>1. N = O \cup {i}
      BY <1>4 DEF OpenTo
  <2>2. Cardinality(N) = IF i \in O THEN Cardinality(O) ELSE Cardinality(O) + 1
      BY <1>1, <2>1, FS_AddElement
  <2>3. Counts(v.slot[i], h) = 1
      BY <1>4 DEF OpenTo, Counts
  <2> HIDE DEF N, O
  <2> QED  BY <1>2, <1>3, <2>2, <2>3
<1>5. CASE i \notin N
  <2>1. N = O \ {i}
      BY <1>5 DEF OpenTo
  <2>2. Cardinality(N) = IF i \in O THEN Cardinality(O) - 1 ELSE Cardinality(O)
      BY <1>1, <2>1, FS_RemoveElement
  <2>3. Counts(v.slot[i], h) = 0
      BY <1>5 DEF OpenTo, Counts
  <2> HIDE DEF N, O
  <2> QED  BY <1>2, <1>3, <2>2, <2>3
<1> QED  BY <1>4, <1>5

LEMMA ExtraKept ==
  ASSUME NEW u, NEW v, NEW w, SameExtra(u, v), SameExtra(v, w)
  PROVE  SameExtra(u, w)
BY DEF SameExtra

LEMMA FewerKept ==
  ASSUME NEW u, NEW v, NEW w, Fewer(u, v), Fewer(v, w)
  PROVE  Fewer(u, w)
BY SlotTypes DEF Fewer

\* A table of fewer connections has no names that were not there, and internal
\* queues lose nothing.
LEMMA FewerNames ==
  ASSUME NEW v, NEW w, Fewer(v, w)
  PROVE  /\ \A r : NewNames(w, r) => NewNames(v, r)
         /\ AllLocal(w) => AllLocal(v)
         /\ \A k \in Slots : w.slot[k].type = "internal" => v.slot[k] = w.slot[k]
         /\ \A k \in Slots : v.slot[k].open => w.slot[k].open
<1>1. \A k \in Slots : v.slot[k] = w.slot[k]
                       \/ (v.slot[k].type = "unused" /\ ~v.slot[k].open /\ w.slot[k].type = "external")
    BY SlotTypes DEF Fewer
<1>2. \A r : NewNames(w, r) => NewNames(v, r)
    BY <1>1 DEF NewNames
<1> QED  BY <1>1, <1>2 DEF AllLocal

\* A name with a host is no name made by RXQUEUE('C'), nor is one without.
LEMMA SaidNames ==
  ASSUME NEW n \in Ends \union {Session}
  PROVE  n \in QNames /\ \A r : Made(n, r)
<1>1. Len(n) # 3
  <2>1. CASE n \in LocalNames \union RemoteNames
      BY <2>1, TableAssumption
  <2>2. CASE n = << >> \/ n = <<"SESSION">>
      BY <2>2
  <2> QED  BY <2>1, <2>2 DEF Ends, Session, None
<1>2. \A q \in 0 .. MaxRunner : Len(Unique(q)) = 3
    BY DEF Unique
<1>3. \A r : Made(n, r)
    BY <1>1, <1>2 DEF Made
<1>4. n \in QNames
    BY DEF Ends, QNames
<1> QED  BY <1>3, <1>4

LEMMA DeleteExternal ==
  ASSUME NEW w, TableOK(w), NEW i \in Slots, w.slot[i].type = "external",
         NEW v, v = delete_an_external_queue(w, i)
  PROVE  /\ TableOK(v) /\ v.cur = w.cur /\ v.name = w.name
         /\ v.slot[i] = Unused
         /\ \A k \in Slots : k # i => v.slot[k] = w.slot[k]
         /\ SameExtra(v, w) /\ Fewer(v, w)
<1> DEFINE s == w.slot[i]
           m == s.name
<1>1. /\ w \in TableType /\ w.slot \in [Slots -> SlotType] /\ w.conns \in [Hosts -> Int]
      /\ m \in RemoteNames /\ m[2] \in Hosts
    BY TableAssumption DEF TableOK, TableType, SlotsOK
<1>2. /\ v.slot = [w.slot EXCEPT ![i] = Unused]
      /\ v.conns = IF s.open THEN [w.conns EXCEPT ![m[2]] = @ - 1] ELSE w.conns
      /\ v.cur = w.cur /\ v.name = w.name /\ v \in TableType
  <2>1. v = [slot |-> [w.slot EXCEPT ![i] = Unused],
             conns |-> IF s.open THEN [w.conns EXCEPT ![m[2]] = @ - 1] ELSE w.conns,
             cur |-> w.cur, name |-> w.name]
      BY <1>1 DEF delete_an_external_queue, TableType
  <2>2. [w.slot EXCEPT ![i] = Unused] \in [Slots -> SlotType]
      BY <1>1, SlotTypes
  <2>3. (IF s.open THEN [w.conns EXCEPT ![m[2]] = @ - 1] ELSE w.conns) \in [Hosts -> Int]
      BY <1>1
  <2> HIDE DEF m, s
  <2> QED  BY <1>1, <2>1, <2>2, <2>3 DEF TableType
<1>3. i # 0
    BY SlotTypes DEF TableOK, SlotsOK, Internal
<1>4. TableOK(v)
    BY <1>2, <1>3, PutSlot, SlotTypes
<1>5. SameExtra(v, w)
  <2> SUFFICES ASSUME NEW h \in Hosts  PROVE Extra(v, h) = Extra(w, h)
      BY DEF SameExtra
  <2>1. v.conns[h] = w.conns[h] + Counts(Unused, h) - Counts(s, h)
      BY <1>1, <1>2, SlotTypes DEF Counts
  <2>2. v.slot[i] = Unused /\ \A k \in Slots : k # i => v.slot[k] = w.slot[k]
      BY <1>1, <1>2
  <2> QED  BY <1>1, <1>2, <2>1, <2>2, CountSlot
<1>6. \A k \in Slots : k # i => v.slot[k] = w.slot[k]
    BY <1>1, <1>2
<1>7. v.slot[i] = Unused
    BY <1>1, <1>2
<1> QED  BY <1>2, <1>4, <1>5, <1>6, <1>7 DEF Fewer

\* The connection of the queue that was current is given up; the new one's slot,
\* open or not, stays.
LEMMA SetCurrent ==
  ASSUME NEW w, TableOK(w), NEW i \in Slots, NEW n \in QNames,
         NEW v, v = SetCurrentQueue(w, i, n)
  PROVE  /\ TableOK(v) /\ v.cur = i /\ v.name = n /\ v.slot[i] = w.slot[i]
         /\ SameExtra(v, w) /\ Fewer(v, w)
         /\ \A k \in Slots : v.slot[k].open => w.slot[k].open /\ (k = w.cur => k = i)
         /\ i \in Slots /\ w.slot[i].type # "unused" /\ w.slot[i].name = n
              /\ (w.slot[i].type = "external" => w.slot[i].open) => CurrentOK(v)
<1> DEFINE left == IF w.slot[w.cur].type = "external" /\ w.cur # i
                   THEN delete_an_external_queue(w, w.cur) ELSE w
<1>1. w.cur \in Slots
    BY DEF TableOK, TableType
<1>2. /\ TableOK(left) /\ left.slot[i] = w.slot[i] /\ SameExtra(left, w) /\ Fewer(left, w)
      /\ \A k \in Slots : left.slot[k].open => w.slot[k].open /\ (k = w.cur => k = i)
  <2>1. CASE w.slot[w.cur].type = "external" /\ w.cur # i
      BY <1>1, <2>1, DeleteExternal, SlotTypes
  <2>2. CASE ~(w.slot[w.cur].type = "external" /\ w.cur # i)
    <3>1. SameExtra(w, w) /\ Fewer(w, w)
        BY DEF SameExtra, Fewer
    <3>2. w.slot[w.cur].open => w.cur = i
        BY <1>1, <2>2 DEF TableOK, SlotsOK
    <3> QED  BY <2>2, <3>1, <3>2
  <2> QED  BY <2>1, <2>2
<1> HIDE DEF left
<1>3. /\ v.slot = left.slot /\ v.conns = left.conns /\ v.cur = i /\ v.name = n
      /\ v \in TableType
    BY <1>2 DEF SetCurrentQueue, left, TableOK, TableType
<1>4. TableOK(v)
  <2>1. v.slot = left.slot /\ SlotsOK(left) /\ Unambiguous(left)
      BY <1>2, <1>3 DEF TableOK
  <2>2. SlotsOK(v)
      BY <2>1 DEF SlotsOK
  <2>3. Unambiguous(v)
      BY <2>1 DEF Unambiguous
  <2> QED  BY <1>3, <2>2, <2>3 DEF TableOK
<1>5. SameExtra(v, w)
    BY <1>2, <1>3 DEF SameExtra, Extra
<1>6. Fewer(v, w)
    BY <1>2, <1>3 DEF Fewer
<1> QED  BY <1>2, <1>3, <1>4, <1>5, <1>6 DEF CurrentOK

\* A slot that is no connection becomes an internal queue, or unused.
LEMMA PutLocal ==
  ASSUME NEW w, TableOK(w), NEW i \in Slots, w.slot[i].type # "external",
         NEW s \in SlotType, s.type # "external", ~s.open,
         i # 0 \/ s = w.slot[0],
         s.type = "internal" =>
           \A k \in Slots : w.slot[k].type = "internal" /\ w.slot[k].name = s.name => k = i,
         NEW v, v = WithLocal(w, i, s)
  PROVE  /\ TableOK(v) /\ v.cur = w.cur /\ v.name = w.name /\ SameExtra(v, w)
         /\ v.slot[i] = s /\ \A k \in Slots : k # i => v.slot[k] = w.slot[k]
         /\ \A k \in Slots : v.slot[k].open => w.slot[k].open
         /\ \A r : NewNames(w, r) /\ (s.type = "internal" => Made(s.name, r)) => NewNames(v, r)
         /\ AllLocal(w) => AllLocal(v)
<1>1. /\ w \in TableType /\ w.slot \in [Slots -> SlotType] /\ w.conns \in [Hosts -> Int]
      /\ ~w.slot[i].open
    BY DEF TableOK, TableType, SlotsOK
<1>3. /\ v.slot = [w.slot EXCEPT ![i] = s] /\ v.conns = w.conns
      /\ v.cur = w.cur /\ v.name = w.name /\ v \in TableType
    BY <1>1 DEF TableType, WithLocal
<1>5. v.slot[i] = s /\ \A k \in Slots : k # i => v.slot[k] = w.slot[k]
    BY <1>1, <1>3
<1>6. TableOK(v)
    BY <1>3, PutSlot
<1>7. SameExtra(v, w)
  <2> SUFFICES ASSUME NEW h \in Hosts  PROVE Extra(v, h) = Extra(w, h)
      BY DEF SameExtra
  <2>1. v.conns[h] = w.conns[h] + Counts(v.slot[i], h) - Counts(w.slot[i], h)
      BY <1>1, <1>3, <1>5 DEF Counts
  <2>2. w \in TableType /\ v \in TableType /\ \A k \in Slots : k # i => v.slot[k] = w.slot[k]
      BY <1>1, <1>3, <1>5
  <2> QED  BY <2>1, <2>2, CountSlot
<1>8. \A k \in Slots : v.slot[k].open => w.slot[k].open
    BY <1>5
<1>9. \A r : NewNames(w, r) /\ (s.type = "internal" => Made(s.name, r)) => NewNames(v, r)
    BY <1>5 DEF NewNames
<1>10. AllLocal(w) => AllLocal(v)
    BY <1>5 DEF AllLocal
<1> QED  BY <1>3, <1>5, <1>6, <1>7, <1>8, <1>9, <1>10

\* An unused slot becomes a connection, which is made or could not be.
LEMMA PutConnection ==
  ASSUME NEW w, TableOK(w), NEW i \in Slots \ {0}, w.slot[i].type = "unused",
         NEW s \in SlotType, s.type = "external", s.name \in RemoteNames,
         NEW v, v = WithConnection(w, i, s)
  PROVE  /\ TableOK(v) /\ v.cur = w.cur /\ v.name = w.name /\ SameExtra(v, w)
         /\ v.slot[i] = s /\ \A k \in Slots : k # i => v.slot[k] = w.slot[k]
         /\ \A r : NewNames(w, r) => NewNames(v, r)
<1> DEFINE c == IF s.open THEN [w.conns EXCEPT ![s.name[2]] = @ + 1] ELSE w.conns
<1>1. /\ w \in TableType /\ w.slot \in [Slots -> SlotType] /\ w.conns \in [Hosts -> Int]
      /\ ~w.slot[i].open /\ s.name[2] \in Hosts
    BY TableAssumption DEF TableOK, TableType, SlotsOK
<1>3. c \in [Hosts -> Int]
    BY <1>1
<1>4. /\ v.slot = [w.slot EXCEPT ![i] = s] /\ v.conns = c
      /\ v.cur = w.cur /\ v.name = w.name /\ v \in TableType
  <2>1. v = [w EXCEPT !.slot[i] = s, !.conns = c]
      BY DEF c, WithConnection
  <2>2. [w.slot EXCEPT ![i] = s] \in [Slots -> SlotType]
      BY <1>1
  <2> HIDE DEF c
  <2>3. v = [w EXCEPT !.slot = [w.slot EXCEPT ![i] = s], !.conns = c]
      BY <1>1, <2>1 DEF TableType
  <2> QED  BY <1>1, <1>3, <2>2, <2>3 DEF TableType
<1>5. v.slot[i] = s /\ \A k \in Slots : k # i => v.slot[k] = w.slot[k]
    BY <1>1, <1>4
<1>6. SameExtra(v, w)
  <2> SUFFICES ASSUME NEW h \in Hosts  PROVE Extra(v, h) = Extra(w, h)
      BY DEF SameExtra
  <2>1. v.conns[h] = w.conns[h] + Counts(s, h) - Counts(w.slot[i], h)
    <3>1. Counts(w.slot[i], h) = 0
        BY <1>1 DEF Counts
    <3>2. c[h] = w.conns[h] + Counts(s, h)
        BY <1>1 DEF Counts
    <3>3. Counts(s, h) \in Int
        BY DEF Counts
    <3> HIDE DEF c
    <3> QED  BY <1>1, <1>4, <3>1, <3>2, <3>3
  <2>2. /\ w \in TableType /\ v \in TableType /\ i \in Slots
        /\ \A k \in Slots : k # i => v.slot[k] = w.slot[k]
      BY <1>1, <1>4, <1>5
  <2>3. v.slot[i] = s
      BY <1>5
  <2> QED  BY <2>1, <2>2, <2>3, CountSlot
<1>7. TableOK(v)
  <2>1. v \in TableType /\ v.slot = [w.slot EXCEPT ![i] = s]
      BY <1>4
  <2>2. i \in Slots /\ i # 0
      OBVIOUS
  <2> QED  BY <2>1, <2>2, PutSlot
<1>8. \A r : NewNames(w, r) => NewNames(v, r)
    BY <1>5 DEF NewNames
<1> QED  BY <1>4, <1>5, <1>6, <1>7, <1>8

\* A false queue that is found becomes a real one, which changes no name.
Real(s) == [s EXCEPT !.real = TRUE]
LEMMA RealQueue ==
  ASSUME NEW w, TableOK(w), NEW i \in Slots, w.slot[i].type = "internal",
         NEW v, v = WithLocal(w, i, Real(w.slot[i]))
  PROVE  /\ TableOK(v) /\ v.cur = w.cur /\ v.name = w.name /\ SameExtra(v, w)
         /\ \A k \in Slots : /\ v.slot[k].type = w.slot[k].type
                             /\ v.slot[k].name = w.slot[k].name
                             /\ (v.slot[k].open <=> w.slot[k].open)
<1> DEFINE s == Real(w.slot[i])
<1>1. w.slot[i] \in SlotType /\ w.slot[i].open = FALSE
    BY DEF TableOK, TableType, SlotsOK, SlotType
<1>2. /\ s \in SlotType /\ s.type = "internal" /\ ~s.open /\ s.name = w.slot[i].name
    BY <1>1 DEF SlotType, Real
<1>3. \A k \in Slots : w.slot[k].type = "internal" /\ w.slot[k].name = s.name => k = i
    BY <1>2 DEF TableOK, Unambiguous
<1>4. i # 0 \/ s = w.slot[0]
  <2>1. ASSUME NEW x \in SlotType, x.real = TRUE  PROVE Real(x) = x
      BY <2>1 DEF Real, SlotType
  <2>2. Internal(Session, TRUE).real = TRUE
      BY DEF Internal
  <2> QED  BY <1>1, <2>1, <2>2 DEF TableOK, SlotsOK
<1> HIDE DEF s
<1>5. v = WithLocal(w, i, s)
    BY DEF s
<1>6. /\ TableOK(v) /\ v.cur = w.cur /\ v.name = w.name /\ SameExtra(v, w)
      /\ v.slot[i] = s /\ \A k \in Slots : k # i => v.slot[k] = w.slot[k]
    BY <1>2, <1>3, <1>4, <1>5, PutLocal
<1> QED  BY <1>1, <1>2, <1>6

\* set_queue and perform: a local name becomes the current queue's, unless the table
\* is full; connections other than the one that was current stay.
LEMMA SetLocalQueue ==
  ASSUME NEW w, TableOK(w), CurrentOK(w), NEW n \in QNames,
         NEW v, v = SetLocal(w, n)
  PROVE  /\ TableOK(v) /\ CurrentOK(v) /\ SameExtra(v, w)
         /\ \A r : NewNames(w, r) /\ Made(n, r) => NewNames(v, r)
         /\ \A k \in Slots : v.slot[k].open => w.slot[k].open /\ (k = w.cur => k = v.cur)
         /\ AllLocal(w) => AllLocal(v)
         /\ \A k \in Slots : w.slot[k].type = "internal" => v.slot[k] = w.slot[k]
         /\ \A k \in Slots : w.slot[k].type = "internal" /\ w.slot[k].name = n
                             => v.cur = k /\ v.name = n
<1> DEFINE i == find_queue(w, n)
           j == find_free_slot(w)
<1>0. i # NoSlot => /\ i \in Slots /\ w.slot[i].type = "internal" /\ w.slot[i].name = n
                    /\ w.slot[i].name \in QNames
    BY FindQueue
<1>1. CASE i # NoSlot
  <2>1. v = SetCurrentQueue(w, i, w.slot[i].name)
      BY <1>1 DEF SetLocal
  <2>2. \A k \in Slots : w.slot[k].type = "internal" /\ w.slot[k].name = n => k = i
      BY <1>0, <1>1 DEF TableOK, Unambiguous
  <2> HIDE DEF i
  <2>3. /\ TableOK(v) /\ v.cur = i /\ v.name = n /\ SameExtra(v, w) /\ Fewer(v, w) /\ CurrentOK(v)
        /\ \A k \in Slots : v.slot[k].open => w.slot[k].open /\ (k = w.cur => k = i)
      BY <1>0, <1>1, <2>1, SetCurrent
  <2> QED  BY <2>2, <2>3, FewerNames
<1>2. CASE i = NoSlot /\ j = NoSlot
  <2>1. v = w /\ SameExtra(v, w)
      BY <1>2 DEF SetLocal, SameExtra
  <2>2. ~\E k \in Slots : w.slot[k].type = "internal" /\ w.slot[k].name = n
      BY <1>2, FindQueue, SlotNumbers
  <2> QED  BY <2>1, <2>2
<1>3. CASE i = NoSlot /\ j # NoSlot
  <2> DEFINE s == Internal(n, FALSE)
             u == WithLocal(w, j, s)
  <2>1. j \in Slots /\ j # 0 /\ w.slot[j].type = "unused"
      BY <1>3, FreeSlot
  <2>2. ~\E k \in Slots : w.slot[k].type = "internal" /\ w.slot[k].name = n
      BY <1>3, FindQueue, SlotNumbers
  <2>3. v = SetCurrentQueue(u, j, n) /\ u = WithLocal(w, j, s)
      BY <1>3 DEF SetLocal, WithLocal
  <2>s. s \in SlotType /\ s.type = "internal" /\ s.name = n /\ ~s.open
      BY SlotTypes DEF Internal
  <2> HIDE DEF j, u, s
  <2>4. /\ TableOK(u) /\ u.cur = w.cur /\ SameExtra(u, w)
        /\ u.slot[j] = s /\ \A k \in Slots : k # j => u.slot[k] = w.slot[k]
        /\ \A k \in Slots : u.slot[k].open => w.slot[k].open
        /\ \A r : NewNames(w, r) /\ Made(n, r) => NewNames(u, r)
        /\ AllLocal(w) => AllLocal(u)
      BY <2>1, <2>2, <2>3, <2>s, PutLocal
  <2>5. /\ u.slot[j].type = "internal" /\ u.slot[j].name = n
      BY <2>4, <2>s
  <2>6. /\ TableOK(v) /\ v.cur = j /\ v.name = n /\ SameExtra(v, u) /\ Fewer(v, u) /\ CurrentOK(v)
        /\ \A k \in Slots : v.slot[k].open => u.slot[k].open /\ (k = u.cur => k = j)
      BY <2>1, <2>3, <2>4, <2>5, SetCurrent
  <2>7. /\ \A r : NewNames(u, r) => NewNames(v, r)
        /\ AllLocal(u) => AllLocal(v)
        /\ \A k \in Slots : u.slot[k].type = "internal" => v.slot[k] = u.slot[k]
      BY <2>6, FewerNames
  <2> QED  BY <2>1, <2>2, <2>4, <2>6, <2>7, ExtraKept
<1> QED  BY <1>1, <1>2, <1>3

\* The current connection has another queue of the same host as its default.
LEMMA Rename ==
  ASSUME NEW w, TableOK(w), CurrentOK(w), NEW n \in RemoteNames, Reuses(w, n[2]),
         NEW v, v = WithName(w, n)
  PROVE  /\ TableOK(v) /\ CurrentOK(v) /\ SameExtra(v, w) /\ v.cur = w.cur
         /\ \A r : NewNames(w, r) => NewNames(v, r)
         /\ \A k \in Slots : v.slot[k].open => w.slot[k].open
<1> DEFINE i == w.cur
           s == [w.slot[i] EXCEPT !.name = n]
<1>1. /\ w \in TableType /\ w.slot \in [Slots -> SlotType] /\ w.conns \in [Hosts -> Int]
      /\ i \in Slots /\ n \in QNames
    BY DEF TableOK, TableType, QNames
<1>2. w.slot[i] \in SlotType /\ w.slot[i].type = "external" /\ w.slot[i].open
    BY <1>1 DEF Reuses, CurrentOK
<1>3. s \in SlotType /\ s.type = "external" /\ s.name = n /\ s.open
  <2>1. ASSUME NEW x \in SlotType, x.type = "external", x.open
        PROVE  /\ [x EXCEPT !.name = n] \in SlotType /\ [x EXCEPT !.name = n].type = "external"
               /\ [x EXCEPT !.name = n].name = n /\ [x EXCEPT !.name = n].open
      BY <1>1, <2>1 DEF SlotType, QNames
  <2> QED  BY <1>2, <2>1
<1>4. i # 0
    BY <1>2, SlotTypes DEF TableOK, SlotsOK, Internal
<1>5. v = [w EXCEPT !.slot = [w.slot EXCEPT ![i] = s], !.name = n]
    BY DEF WithName
<1> HIDE DEF s, i
<1>6. /\ v.slot = [w.slot EXCEPT ![i] = s] /\ v.conns = w.conns /\ v.cur = w.cur /\ v.name = n
      /\ v \in TableType
  <2> DEFINE f == [w.slot EXCEPT ![i] = s]
  <2>1. f \in [Slots -> SlotType]
      BY <1>1, <1>3
  <2>2. v = [w EXCEPT !.slot = f, !.name = n]
      BY <1>5
  <2> HIDE DEF f
  <2>3. v.slot = f /\ v.conns = w.conns /\ v.cur = w.cur /\ v.name = n /\ v \in TableType
      BY <1>1, <2>1, <2>2 DEF TableType
  <2> QED  BY <2>3 DEF f
<1>7. v.slot[i] = s /\ \A k \in Slots : k # i => v.slot[k] = w.slot[k]
    BY <1>1, <1>6
<1>8. TableOK(v)
    BY <1>1, <1>3, <1>4, <1>6, PutSlot
<1>9. SameExtra(v, w)
  <2> SUFFICES ASSUME NEW h \in Hosts  PROVE Extra(v, h) = Extra(w, h)
      BY DEF SameExtra
  <2>1. w.slot[i].name[2] = n[2]
      BY DEF Reuses, i
  <2>2. Counts(s, h) = Counts(w.slot[i], h)
      BY <1>2, <1>3, <2>1 DEF Counts, i
  <2>3. Counts(w.slot[i], h) \in Int /\ w.conns[h] \in Int
      BY <1>1 DEF Counts
  <2>4. v.conns[h] = w.conns[h] + Counts(v.slot[i], h) - Counts(w.slot[i], h)
      BY <1>6, <1>7, <2>2, <2>3
  <2>5. /\ w \in TableType /\ v \in TableType /\ i \in Slots
        /\ \A k \in Slots : k # i => v.slot[k] = w.slot[k]
      BY <1>1, <1>6, <1>7
  <2> QED  BY <2>4, <2>5, CountSlot
<1>10. CurrentOK(v)
    BY <1>3, <1>6, <1>7 DEF CurrentOK, i
<1>11. \A r : NewNames(w, r) => NewNames(v, r)
    BY <1>3, <1>7 DEF NewNames
<1>12. \A k \in Slots : v.slot[k].open => w.slot[k].open
    BY <1>2, <1>7 DEF i
<1> QED  BY <1>6, <1>8, <1>9, <1>10, <1>11, <1>12

\* When the table is full a connection is made that nothing stands for.
LEMMA SetRemoteQueue ==
  ASSUME NEW w, TableOK(w), CurrentOK(w), NEW n \in RemoteNames,
         NEW v, v = SetRemote(w, n)
  PROVE  /\ TableOK(v) /\ CurrentOK(v)
         /\ find_free_slot(w) # NoSlot => SameExtra(v, w)
         /\ \A h \in Hosts : Extra(v, h) >= Extra(w, h)
         /\ \A r : NewNames(w, r) => NewNames(v, r)
         /\ \A k \in Slots : v.slot[k].open =>
              k = v.cur \/ (w.slot[k].open /\ k # w.cur)
<1> DEFINE j == find_free_slot(w)
           made == [w EXCEPT !.conns[n[2]] = @ + 1]
<1>0. /\ w \in TableType /\ w.conns \in [Hosts -> Int] /\ n[2] \in Hosts /\ n \in QNames
    BY TableAssumption DEF TableOK, TableType, QNames
<1>e. \A h \in Hosts : Extra(w, h) \in Int
  <2>1. ASSUME NEW h \in Hosts  PROVE IsFiniteSet(OpenTo(w.slot, h))
      BY SlotNumbers, FS_Subset DEF OpenTo
  <2>2. ASSUME NEW h \in Hosts  PROVE Cardinality(OpenTo(w.slot, h)) \in Nat
      BY <2>1, FS_CardinalityType
  <2> QED  BY <1>0, <2>2 DEF Extra
<1>1. CASE Reuses(w, n[2])
  <2>1. v = WithName(w, n)
      BY <1>1 DEF SetRemote, WithName
  <2>2. /\ TableOK(v) /\ CurrentOK(v) /\ SameExtra(v, w) /\ v.cur = w.cur
        /\ \A r : NewNames(w, r) => NewNames(v, r)
        /\ \A k \in Slots : v.slot[k].open => w.slot[k].open
      BY <1>1, <2>1, Rename
  <2> QED  BY <1>e, <2>2 DEF SameExtra
<1>2. CASE ~Reuses(w, n[2]) /\ j = NoSlot
  <2>1. v = made
      BY <1>2 DEF SetRemote
  <2>2. /\ v.slot = w.slot /\ v.cur = w.cur /\ v.name = w.name /\ v \in TableType
        /\ \A h \in Hosts : v.conns[h] >= w.conns[h] /\ v.conns[h] \in Int
      BY <1>0, <2>1 DEF TableType
  <2>a. SlotsOK(v) /\ CurrentOK(v)
      BY <2>2 DEF TableOK, SlotsOK, CurrentOK
  <2>b. Unambiguous(v)
      BY <2>2 DEF TableOK, Unambiguous
  <2>c. \A r : NewNames(w, r) => NewNames(v, r)
      BY <2>2 DEF NewNames
  <2>3. TableOK(v)
      BY <2>2, <2>a, <2>b DEF TableOK
  <2>4. \A h \in Hosts : Extra(v, h) >= Extra(w, h)
    <3> SUFFICES ASSUME NEW h \in Hosts  PROVE Extra(v, h) >= Extra(w, h)
        OBVIOUS
    <3> DEFINE c == Cardinality(OpenTo(w.slot, h))
    <3>1. IsFiniteSet(OpenTo(w.slot, h))
        BY SlotNumbers, FS_Subset DEF OpenTo
    <3>2. c \in Nat
        BY <3>1, FS_CardinalityType
    <3>3. Extra(w, h) = w.conns[h] - c /\ Extra(v, h) = v.conns[h] - c
        BY <2>2 DEF Extra
    <3> HIDE DEF c
    <3> QED  BY <1>0, <2>2, <3>2, <3>3
  <2> QED  BY <1>2, <2>2, <2>3, <2>4, <2>a, <2>c
<1>3. CASE ~Reuses(w, n[2]) /\ j # NoSlot
  <2> DEFINE s == External(n, TRUE)
             u == WithConnection(w, j, s)
  <2>1. j \in Slots \ {0} /\ w.slot[j].type = "unused"
      BY <1>3, FreeSlot
  <2>2. v = SetCurrentQueue(u, j, n)
    <3>1. v = SetCurrentQueue([made EXCEPT !.slot[j] = External(n, TRUE)], j, n)
        BY <1>3 DEF SetRemote
    <3>2. [made EXCEPT !.slot[j] = External(n, TRUE)] = u
      <4>1. s.open = TRUE /\ s.name = n
          BY DEF External
      <4>2. [made EXCEPT !.slot[j] = s] = [w EXCEPT !.slot[j] = s,
                                                    !.conns = [w.conns EXCEPT ![n[2]] = @ + 1]]
        <5> HIDE DEF s
        <5> QED  BY <1>0 DEF TableType
      <4> HIDE DEF s
      <4> QED  BY <4>1, <4>2 DEF WithConnection, s
    <3> QED  BY <3>1, <3>2
  <2>3. /\ u = WithConnection(w, j, s)
        /\ s \in SlotType /\ s.type = "external" /\ s.name = n /\ s.open
      BY <1>0, SlotTypes DEF External
  <2> HIDE DEF j, u, s
  <2>4. /\ TableOK(u) /\ u.cur = w.cur /\ SameExtra(u, w)
        /\ u.slot[j] = s /\ \A k \in Slots : k # j => u.slot[k] = w.slot[k]
        /\ \A r : NewNames(w, r) => NewNames(u, r)
      BY <2>1, <2>3, PutConnection
  <2>5. u.slot[j].type = "external" /\ u.slot[j].name = n /\ u.slot[j].open
      BY <2>3, <2>4
  <2>6. /\ TableOK(v) /\ v.cur = j /\ SameExtra(v, u) /\ Fewer(v, u) /\ CurrentOK(v)
        /\ \A k \in Slots : v.slot[k].open => u.slot[k].open /\ (k = u.cur => k = j)
      BY <1>0, <2>1, <2>2, <2>4, <2>5, SetCurrent
  <2>7. \A r : NewNames(u, r) => NewNames(v, r)
      BY <2>6, FewerNames
  <2>8. SameExtra(v, w)
      BY <2>4, <2>6, ExtraKept
  <2> QED  BY <1>e, <2>4, <2>6, <2>7, <2>8 DEF SameExtra
<1> QED  BY <1>1, <1>2, <1>3

-----------------------------------------------------------------------------
(* Commands: what each step of one leaves of the table w it found.         *)

LocalKept(v, w) == \A k \in Slots : w.slot[k].type = "internal" =>
    v.slot[k].type = "internal" /\ v.slot[k].name = w.slot[k].name
OnTheWay(v, w) ==
  /\ TableOK(v) /\ CurrentOK(v) /\ v.cur = w.cur /\ v.name = w.name /\ SameExtra(v, w)
  /\ \A r : NewNames(w, r) => NewNames(v, r)
  /\ internal => (AllLocal(w) => AllLocal(v))
  /\ LocalKept(v, w)

LEMMA WayOn ==
  ASSUME NEW u, NEW v, NEW w, OnTheWay(u, v), OnTheWay(v, w)
  PROVE  OnTheWay(u, w)
<1>1. LocalKept(u, w)
    BY DEF OnTheWay, LocalKept
<1>2. \A r : NewNames(w, r) => NewNames(u, r)
    BY DEF OnTheWay
<1> QED  BY <1>1, <1>2, ExtraKept DEF OnTheWay

LEMMA WayStays ==
  ASSUME NEW w, TableOK(w), CurrentOK(w)
  PROVE  OnTheWay(w, w)
BY DEF OnTheWay, LocalKept, SameExtra

LEMMA CloseQueue ==
  ASSUME NEW w, TableOK(w), CurrentOK(w), NEW i \in 0 .. NumberQueues,
         NEW v, v = addr_close_queue(w, i)
  PROVE  /\ OnTheWay(v, w)
         /\ \A k \in Slots : v.slot[k].open => w.slot[k].open /\ (k = i => k = w.cur)
<1>0. i # NoSlot => i \in Slots
    BY TableAssumption DEF NoSlot, Slots
<1>1. CASE i # NoSlot /\ i # w.cur /\ w.slot[i].type = "external"
  <2>1. v = delete_an_external_queue(w, i)
      BY <1>1 DEF addr_close_queue
  <2>2. /\ TableOK(v) /\ v.cur = w.cur /\ v.name = w.name
        /\ v.slot[i] = Unused
        /\ \A k \in Slots : k # i => v.slot[k] = w.slot[k]
        /\ SameExtra(v, w) /\ Fewer(v, w)
      BY <1>0, <1>1, <2>1, DeleteExternal
  <2>3. CurrentOK(v)
      BY <1>1, <2>2 DEF CurrentOK, TableOK, TableType
  <2>4. /\ \A r : NewNames(w, r) => NewNames(v, r)
        /\ AllLocal(w) => AllLocal(v)
        /\ \A k \in Slots : w.slot[k].type = "internal" => v.slot[k] = w.slot[k]
        /\ \A k \in Slots : v.slot[k].open => w.slot[k].open
      BY <2>2, FewerNames
  <2>5. OnTheWay(v, w)
      BY <2>2, <2>3, <2>4 DEF OnTheWay, LocalKept
  <2> QED  BY <2>2, <2>4, <2>5, SlotTypes
<1>2. CASE ~(i # NoSlot /\ i # w.cur /\ w.slot[i].type = "external")
  <2>1. v = w
      BY <1>2 DEF addr_close_queue
  <2>2. \A k \in Slots : k = i /\ w.slot[k].open => k = w.cur
      BY <1>2, SlotNumbers DEF TableOK, SlotsOK
  <2> QED  BY <2>1, <2>2, WayStays
<1> QED  BY <1>1, <1>2

LEMMA CleanUp ==
  ASSUME NEW w, TableOK(w), CurrentOK(w), NEW e \in EnvType, NEW v, v = cleanup(w, e)
  PROVE  /\ OnTheWay(v, w)
         /\ \A k \in Slots : v.slot[k].open =>
              w.slot[k].open /\ (k = e.inq \/ k = e.outq => k = w.cur)
<1> DEFINE u == addr_close_queue(w, e.inq)
<1>1. e.inq \in 0 .. NumberQueues /\ e.outq \in 0 .. NumberQueues
    BY DEF EnvType
<1>2. /\ OnTheWay(u, w)
      /\ \A k \in Slots : u.slot[k].open => w.slot[k].open /\ (k = e.inq => k = w.cur)
    BY <1>1, CloseQueue
<1>3. v = addr_close_queue(u, e.outq)
    BY DEF cleanup
<1> HIDE DEF u
<1>4. TableOK(u) /\ CurrentOK(u) /\ u.cur = w.cur
    BY <1>2 DEF OnTheWay
<1>5. /\ OnTheWay(v, u)
      /\ \A k \in Slots : v.slot[k].open => u.slot[k].open /\ (k = e.outq => k = u.cur)
    BY <1>1, <1>3, <1>4, CloseQueue
<1> QED  BY <1>2, <1>4, <1>5, WayOn

LEMMA Outcomes ==
  ASSUME NEW w, NEW i
  PROVE  /\ Opened(w, i).w = w /\ Opened(w, i).q = i /\ Opened(w, i).ok
         /\ Failed(w).w = w /\ Failed(w).q = NoSlot
BY DEF Opened, Failed
LEMMA FailedOpensNone ==
  ASSUME NEW w, NEW n, NEW input, NEW a \in addr_reopen_queue(w, n, input)
  PROVE  a.ok \/ a.q = NoSlot
<1>1. (\E v, i : a = Opened(v, i)) \/ \E v : a = Failed(v)
    BY DEF addr_reopen_queue
<1> QED  BY <1>1, Outcomes

\* addr_reopen_queue opens the one slot it returns.
LEMMA ReopenQueue ==
  ASSUME NEW w, TableOK(w), CurrentOK(w), NEW n \in Ends, NEW input,
         NEW a \in addr_reopen_queue(w, n, input)
  PROVE  /\ OnTheWay(a.w, w) /\ a.q \in 0 .. NumberQueues
         /\ \A k \in Slots : a.w.slot[k].open => w.slot[k].open \/ k = a.q
<1> DEFINE i == find_queue(w, n)
           j == find_free_slot(w)
           v == a.w
<1>1. n \in QNames /\ (\A r : Made(n, r)) /\ (Len(n) = 2 => n \in RemoteNames)
  <2>1. Len(n) = 2 => n \in RemoteNames
      BY TableAssumption DEF Ends, None
  <2> QED  BY <2>1, SaidNames
<1>2. j # NoSlot => j \in Slots \ {0} /\ w.slot[j].type = "unused" /\ j # w.cur
    BY FreeSlot DEF CurrentOK
<1>3. i = NoSlot => \A k \in Slots : ~(w.slot[k].type = "internal" /\ w.slot[k].name = n)
    BY FindQueue, SlotNumbers
<1>4. CASE a.w = w /\ a.q = NoSlot
    BY <1>4, WayStays, SlotNumbers
<1>5. CASE /\ use_external(n) /\ j # NoSlot
           /\ \/ a = Opened([w EXCEPT !.slot[j] = External(n, TRUE), !.conns[n[2]] = @ + 1], j)
              \/ a = Failed([w EXCEPT !.slot[j] = External(n, FALSE)])
  <2> PICK s \in SlotType : /\ s.type = "external" /\ s.name = n /\ (~s.open \/ a.q = j)
                            /\ v = WithConnection(w, j, s)
    <3>1. CASE a = Opened([w EXCEPT !.slot[j] = External(n, TRUE), !.conns[n[2]] = @ + 1], j)
      <4> DEFINE s == External(n, TRUE)
      <4>1. s \in SlotType /\ s.type = "external" /\ s.name = n /\ s.open = TRUE /\ a.q = j
          BY <1>1, <3>1, SlotTypes DEF Opened, External
      <4>2. v = [w EXCEPT !.slot[j] = s, !.conns = [w.conns EXCEPT ![n[2]] = @ + 1]]
          BY <3>1 DEF Opened
      <4> HIDE DEF s
      <4>3. v = WithConnection(w, j, s)
          BY <4>1, <4>2 DEF WithConnection
      <4> QED  BY <4>1, <4>3
    <3>2. CASE a = Failed([w EXCEPT !.slot[j] = External(n, FALSE)])
      <4> DEFINE s == External(n, FALSE)
      <4>1. s \in SlotType /\ s.type = "external" /\ s.name = n /\ s.open = FALSE
          BY <1>1, SlotTypes DEF External
      <4>2. v = [w EXCEPT !.slot[j] = s]
          BY <3>2 DEF Failed
      <4> HIDE DEF s
      <4>3. v = WithConnection(w, j, s)
        <5>1. w \in TableType
            BY DEF TableOK
        <5> QED  BY <4>1, <4>2, <5>1 DEF WithConnection, TableType
      <4> QED  BY <4>1, <4>3
    <3> QED  BY <1>5, <3>1, <3>2
  <2>1. a.q \in 0 .. NumberQueues
    <3>1. a.q = j \/ a.q = NoSlot
        BY <1>5, Outcomes
    <3>2. j \in 0 .. NumberQueues
        BY <1>2, <1>5, SlotNumbers
    <3> QED  BY <3>1, <3>2, SlotNumbers
  <2>2. j \in Slots \ {0} /\ w.slot[j].type = "unused" /\ j # w.cur /\ s.name \in RemoteNames
      BY <1>1, <1>2, <1>5 DEF use_external
  <2> HIDE DEF v, j
  <2>3. /\ TableOK(v) /\ v.cur = w.cur /\ v.name = w.name /\ SameExtra(v, w)
        /\ v.slot[j] = s /\ \A k \in Slots : k # j => v.slot[k] = w.slot[k]
        /\ \A r : NewNames(w, r) => NewNames(v, r)
      BY <2>2, PutConnection
  <2>4. CurrentOK(v)
      BY <2>2, <2>3 DEF CurrentOK, TableOK, TableType
  <2>5. LocalKept(v, w) /\ ~internal
      BY <1>5, <2>2, <2>3 DEF LocalKept, use_external
  <2>6. OnTheWay(v, w)
      BY <2>3, <2>4, <2>5 DEF OnTheWay
  <2> QED  BY <2>1, <2>3, <2>6 DEF v
<1>6. CASE i # NoSlot /\ a = Opened([w EXCEPT !.slot[i].real = TRUE], i)
  <2>1. i \in Slots /\ w.slot[i].type = "internal"
      BY <1>6, FindQueue
  <2>2. v = WithLocal(w, i, Real(w.slot[i])) /\ a.q = i
      BY <1>6 DEF WithLocal, Real, Opened
  <2> HIDE DEF i, v
  <2>3. /\ TableOK(v) /\ v.cur = w.cur /\ v.name = w.name /\ SameExtra(v, w)
        /\ \A k \in Slots : /\ v.slot[k].type = w.slot[k].type
                            /\ v.slot[k].name = w.slot[k].name
                            /\ (v.slot[k].open <=> w.slot[k].open)
      BY <2>1, <2>2, RealQueue
  <2>4. CurrentOK(v)
      BY <2>3 DEF CurrentOK, TableOK, TableType
  <2>5. /\ LocalKept(v, w) /\ (AllLocal(w) => AllLocal(v))
        /\ \A r : NewNames(w, r) => NewNames(v, r)
      BY <2>3 DEF LocalKept, AllLocal, NewNames
  <2>6. OnTheWay(v, w)
      BY <2>3, <2>4, <2>5 DEF OnTheWay
  <2> QED  BY <2>1, <2>2, <2>3, <2>6, SlotNumbers DEF v
<1>7. CASE i = NoSlot /\ j # NoSlot /\ a = Opened([w EXCEPT !.slot[j] = Internal(n, TRUE)], j)
  <2> DEFINE s == Internal(n, TRUE)
  <2>1. s \in SlotType /\ s.type = "internal" /\ s.name = n /\ ~s.open
      BY <1>1, SlotTypes
  <2>2. v = WithLocal(w, j, s) /\ a.q = j
      BY <1>7 DEF WithLocal, Opened
  <2>3. /\ j \in Slots \ {0} /\ w.slot[j].type = "unused" /\ j # w.cur
        /\ \A k \in Slots : ~(w.slot[k].type = "internal" /\ w.slot[k].name = n)
      BY <1>2, <1>3, <1>7
  <2> HIDE DEF j, s, v
  <2>4. /\ TableOK(v) /\ v.cur = w.cur /\ v.name = w.name /\ SameExtra(v, w)
        /\ v.slot[j] = s /\ \A k \in Slots : k # j => v.slot[k] = w.slot[k]
        /\ \A k \in Slots : v.slot[k].open => w.slot[k].open
        /\ \A r : NewNames(w, r) /\ Made(n, r) => NewNames(v, r)
        /\ AllLocal(w) => AllLocal(v)
      BY <2>1, <2>2, <2>3, PutLocal
  <2>5. CurrentOK(v) /\ LocalKept(v, w)
      BY <2>1, <2>3, <2>4 DEF CurrentOK, LocalKept, TableOK, TableType
  <2>6. OnTheWay(v, w)
      BY <1>1, <2>4, <2>5 DEF OnTheWay
  <2> QED  BY <2>2, <2>3, <2>4, <2>6, SlotNumbers DEF v
<1>8. a = Opened(w, NoSlot) \/ a = Failed(w) => a.w = w /\ a.q = NoSlot
    BY DEF Opened, Failed
<1>9. CASE n = None
    BY <1>4, <1>8, <1>9 DEF addr_reopen_queue
<1>10. CASE n # None /\ use_external(n)
  <2>1. CASE j = NoSlot
      BY <1>4, <1>8, <1>10, <2>1 DEF addr_reopen_queue
  <2>2. CASE j # NoSlot
    <3>1. \/ a = Opened([w EXCEPT !.slot[j] = External(n, TRUE), !.conns[n[2]] = @ + 1], j)
          \/ a = Failed([w EXCEPT !.slot[j] = External(n, FALSE)])
        BY <1>10, <2>2 DEF addr_reopen_queue
    <3> QED  BY <1>5, <1>10, <2>2, <3>1
  <2> QED  BY <2>1, <2>2
<1>11. CASE n # None /\ ~use_external(n)
  <2>1. CASE i # NoSlot
      BY <1>6, <1>11, <2>1 DEF addr_reopen_queue
  <2>2. CASE i = NoSlot /\ (input \/ j = NoSlot)
      BY <1>4, <1>8, <1>11, <2>2 DEF addr_reopen_queue
  <2>3. CASE i = NoSlot /\ ~(input \/ j = NoSlot)
      BY <1>7, <1>11, <2>3 DEF addr_reopen_queue
  <2> QED  BY <2>1, <2>2, <2>3
<1> QED  BY <1>9, <1>10, <1>11

SetUp(o, w, e) ==
  /\ OnTheWay(o.w, w) /\ o.in \in 0 .. NumberQueues /\ o.out \in 0 .. NumberQueues
  /\ \A k \in Slots : o.w.slot[k].open =>
       k = o.in \/ k = o.out \/ (w.slot[k].open /\ (k = e.inq \/ k = e.outq => k = w.cur))
LEMMA SetupIO ==
  ASSUME NEW w, TableOK(w), CurrentOK(w), NEW e \in EnvType, NEW o \in setup_io(w, e)
  PROVE  SetUp(o, w, e)
<1> DEFINE c == cleanup(w, e)
           As == addr_reopen_queue(c, e.in, TRUE)
           Bs(a) == addr_reopen_queue(a.w, e.out, FALSE)
<1>1. e.in \in Ends /\ e.out \in Ends
    BY DEF EnvType
<1>0. ASSUME NEW x, TableOK(x), CurrentOK(x), NEW b \in addr_reopen_queue(x, e.out, FALSE)
      PROVE  /\ OnTheWay(b.w, x) /\ b.q \in 0 .. NumberQueues
             /\ \A k \in Slots : b.w.slot[k].open => x.slot[k].open \/ k = b.q
  <2>1. ASSUME NEW input, b \in addr_reopen_queue(x, e.out, input)
        PROVE  /\ OnTheWay(b.w, x) /\ b.q \in 0 .. NumberQueues
               /\ \A k \in Slots : b.w.slot[k].open => x.slot[k].open \/ k = b.q
      BY <1>0, <1>1, <2>1, ReopenQueue
  <2> QED  BY <1>0, <2>1, Zenon
<1>2. /\ OnTheWay(c, w) /\ TableOK(c) /\ CurrentOK(c)
      /\ \A k \in Slots : c.slot[k].open => w.slot[k].open /\ (k = e.inq \/ k = e.outq => k = w.cur)
    BY CleanUp DEF OnTheWay
<1>3. PICK a \in As :
        \/ a.ok /\ \E b \in Bs(a) : o = [w |-> b.w, in |-> a.q, out |-> b.q, ok |-> b.ok]
        \/ ~a.ok /\ o = [w |-> a.w, in |-> NoSlot, out |-> NoSlot, ok |-> FALSE]
    BY DEF setup_io
<1> HIDE DEF c
<1>4. /\ OnTheWay(a.w, c) /\ a.q \in 0 .. NumberQueues
      /\ \A k \in Slots : a.w.slot[k].open => c.slot[k].open \/ k = a.q
    BY <1>1, <1>2, ReopenQueue, ZenonT(30)
<1>5. OnTheWay(a.w, w) /\ TableOK(a.w) /\ CurrentOK(a.w)
    BY <1>2, <1>4, WayOn DEF OnTheWay
<1>6. CASE a.ok
  <2>1. PICK b \in Bs(a) : o = [w |-> b.w, in |-> a.q, out |-> b.q, ok |-> b.ok]
      BY <1>3, <1>6
  <2> DEFINE u == a.w
  <2>5. b \in addr_reopen_queue(u, e.out, FALSE) /\ TableOK(u) /\ CurrentOK(u)
      BY <1>5
  <2>2. /\ OnTheWay(b.w, a.w) /\ b.q \in 0 .. NumberQueues
        /\ \A k \in Slots : b.w.slot[k].open => a.w.slot[k].open \/ k = b.q
      BY <1>0, <2>5
  <2>3. o.w = b.w /\ o.in = a.q /\ o.out = b.q
      BY <2>1
  <2>4. OnTheWay(b.w, w)
      BY <1>5, <2>2, WayOn
  <2> QED  BY <1>2, <1>4, <2>2, <2>3, <2>4 DEF SetUp
<1>7. CASE ~a.ok
  <2>1. o = [w |-> a.w, in |-> NoSlot, out |-> NoSlot, ok |-> FALSE]
      BY <1>3, <1>7
  <2>2. o.w = a.w /\ o.in = NoSlot /\ o.out = NoSlot
      BY <2>1
  <2>3. a.q = NoSlot
      BY <1>7, FailedOpensNone
  <2> QED  BY <1>2, <1>4, <1>5, <2>2, <2>3, SlotNumbers DEF SetUp
<1> QED  BY <1>6, <1>7

-----------------------------------------------------------------------------
(* Steps.                                                                  *)

LEMMA NewInstance ==
  ASSUME NEW in \in Ends, NEW out \in Ends
  PROVE  Env(in, out) \in EnvType /\ Env(in, out).inq = NoSlot /\ Env(in, out).outq = NoSlot
BY SlotNumbers DEF Env, EnvType

\* What the table after a command keeps open: the current queue's connection, what
\* the instances below had, and, when the command failed, what it has opened itself.
Kept(e, k) == t.slot[k].open /\ k # t.cur /\ k # e.inq /\ k # e.outq
Performed(e, below, after) ==
  /\ TableOK(t') /\ CurrentOK(t') /\ SameExtra(t', t) /\ NewNames(t', runner)
  /\ LocalWhenInternal /\ internal => AllLocal(t')
  /\ \/ /\ envs' = after
        /\ \A k \in Slots : t'.slot[k].open => k = t'.cur \/ Kept(e, k)
        /\ LocalWhenInternal => t'.cur = t.cur /\ t'.name = t.name
     \/ \E held \in EnvType :
          /\ envs' = Append(below, held)
          /\ \A k \in Slots : t'.slot[k].open =>
               k = t'.cur \/ Kept(e, k) \/ k = held.inq \/ k = held.outq
LEMMA Perform ==
  ASSUME IInv, NEW e \in EnvType, NEW below, NEW after, perform(e, below, after)
  PROVE  Performed(e, below, after)
<1>0. PICK n \in RunsOn :
        \/ /\ ~Fits(t, n) /\ t' = t /\ envs' = Append(below, e)
        \/ \E o \in setup_io(Switched(n), e) :
             LET held == [e EXCEPT !.inq = o.in, !.outq = o.out]
                 done == cleanup(o.w, held)
             IN  \/ /\ o.ok /\ t' = Back(done)
                    /\ envs' = after \/ envs' = Append(below, Env(e.in, e.out))
                 \/ ~o.ok /\ t' = o.w /\ envs' = Append(below, held)
    BY DEF perform
<1> DEFINE c == t.cur
           w == Switched(n)
<1>1. /\ TableOK(t) /\ CurrentOK(t) /\ NewNames(t, runner) /\ internal \in BOOLEAN
      /\ c \in Slots /\ t.slot[c] \in SlotType /\ t.name = t.slot[c].name /\ t.name \in QNames
    BY DEF IInv, TableOK, TableType, CurrentOK
<1>2. Made(t.name, runner)
  <2>1. CASE t.slot[c].type = "internal"
      BY <1>1, <2>1 DEF NewNames
  <2>2. CASE t.slot[c].type = "external"
      BY <1>1, <2>2, SaidNames DEF TableOK, SlotsOK, Ends
  <2> QED  BY <1>1, <2>1, <2>2 DEF CurrentOK, SlotType
<1>3. /\ TableOK(w) /\ CurrentOK(w) /\ SameExtra(w, t) /\ NewNames(w, runner)
      /\ \A k \in Slots : w.slot[k].open => t.slot[k].open /\ (k = c => k = w.cur)
      /\ AllLocal(t) => AllLocal(w)
      /\ LocalKept(w, t)
      /\ ~internal => w = t
  <2>1. CASE internal
    <3>1. n \in QNames /\ Made(n, runner)
        BY <2>1, SaidNames DEF RunsOn, GivenNames, Ends
    <3>2. w = SetLocal(t, n)
        BY <2>1 DEF Switched
    <3> HIDE DEF w
    <3> QED  BY <1>1, <2>1, <3>1, <3>2, SetLocalQueue DEF LocalKept
  <2>2. CASE ~internal
    <3>1. w = t
        BY <2>2 DEF Switched
    <3> HIDE DEF w
    <3> QED  BY <1>1, <2>2, <3>1 DEF SameExtra, LocalKept
  <2> QED  BY <2>1, <2>2
<1>11. CASE ~Fits(t, n) /\ t' = t /\ envs' = Append(below, e)
  <2>1. \A k \in Slots : t'.slot[k].open => k = t'.cur \/ Kept(e, k) \/ k = e.inq \/ k = e.outq
      BY <1>11 DEF Kept
  <2> QED  BY <1>1, <1>11, <2>1 DEF SameExtra, LocalWhenInternal, Performed
<1> SUFFICES ASSUME ~(~Fits(t, n) /\ t' = t /\ envs' = Append(below, e))
             PROVE  Performed(e, below, after)
    BY <1>11
<1>4. PICK o \in setup_io(w, e) :
        LET held == [e EXCEPT !.inq = o.in, !.outq = o.out]
            done == cleanup(o.w, held)
        IN  \/ /\ o.ok /\ t' = Back(done)
               /\ envs' = after \/ envs' = Append(below, Env(e.in, e.out))
            \/ ~o.ok /\ t' = o.w /\ envs' = Append(below, held)
    BY <1>0
<1> HIDE DEF w
<1> DEFINE held == [e EXCEPT !.inq = o.in, !.outq = o.out]
           done == cleanup(o.w, held)
<1>5. SetUp(o, w, e)
    BY <1>3, SetupIO
<1>6. /\ OnTheWay(o.w, w) /\ o.in \in 0 .. NumberQueues /\ o.out \in 0 .. NumberQueues
      /\ TableOK(o.w) /\ CurrentOK(o.w) /\ o.w.cur = w.cur
      /\ \A k \in Slots : o.w.slot[k].open =>
           k = o.in \/ k = o.out \/ (w.slot[k].open /\ (k = e.inq \/ k = e.outq => k = w.cur))
    BY <1>5 DEF SetUp, OnTheWay
<1>7. held \in EnvType /\ held.inq = o.in /\ held.outq = o.out
    BY <1>6 DEF EnvType
<1>8. SameExtra(o.w, t) /\ NewNames(o.w, runner) /\ (internal => (AllLocal(t) => AllLocal(o.w)))
    BY <1>3, <1>6, ExtraKept DEF OnTheWay
<1>9. CASE ~o.ok
  <2>1. t' = o.w /\ envs' = Append(below, held)
      BY <1>4, <1>9
  <2>2. \A k \in Slots : t'.slot[k].open =>
           k = t'.cur \/ Kept(e, k) \/ k = held.inq \/ k = held.outq
      BY <1>3, <1>6, <1>7, <2>1 DEF Kept
  <2> HIDE DEF held
  <2> QED  BY <1>6, <1>7, <1>8, <2>1, <2>2 DEF LocalWhenInternal, Performed
<1>10. CASE o.ok
  <2>1. /\ t' = (IF internal THEN SetLocal(done, t.name) ELSE done)
        /\ envs' = after \/ envs' = Append(below, Env(e.in, e.out))
      BY <1>4, <1>10 DEF Back
  <2>7. Env(e.in, e.out) \in EnvType
      BY NewInstance DEF EnvType
  <2> HIDE DEF held
  <2>2. /\ OnTheWay(done, o.w)
        /\ \A k \in Slots : done.slot[k].open =>
             o.w.slot[k].open /\ (k = held.inq \/ k = held.outq => k = o.w.cur)
      BY <1>6, <1>7, CleanUp
  <2> HIDE DEF done
  <2>3. /\ TableOK(done) /\ CurrentOK(done) /\ SameExtra(done, t) /\ NewNames(done, runner)
        /\ internal => (AllLocal(t) => AllLocal(done))
        /\ done.cur = w.cur /\ done.name = w.name
      BY <1>6, <1>8, <2>2, ExtraKept DEF OnTheWay
  <2>4. \A k \in Slots : done.slot[k].open => k = done.cur \/ Kept(e, k)
      BY <1>3, <1>6, <1>7, <2>2, <2>3 DEF Kept
  <2>5. CASE ~internal
    <3>1. t' = done /\ w = t
        BY <1>3, <2>1, <2>5
    <3> QED  BY <2>1, <2>3, <2>4, <2>5, <2>7, <3>1 DEF Performed
  <2>6. CASE internal
    <3>1. t' = SetLocal(done, t.name)
        BY <2>1, <2>6
    <3>2. /\ TableOK(t') /\ CurrentOK(t') /\ SameExtra(t', done)
          /\ \A r : NewNames(done, r) /\ Made(t.name, r) => NewNames(t', r)
          /\ \A k \in Slots : t'.slot[k].open => done.slot[k].open /\ (k = done.cur => k = t'.cur)
          /\ AllLocal(done) => AllLocal(t')
          /\ \A k \in Slots : done.slot[k].type = "internal" /\ done.slot[k].name = t.name
                              => t'.cur = k /\ t'.name = t.name
      <4>0. TableOK(done) /\ CurrentOK(done) /\ t.name \in QNames
          BY <1>1, <2>3 DEF CurrentOK
      <4>1. ASSUME NEW v, v = SetLocal(done, t.name)
            PROVE  /\ TableOK(v) /\ CurrentOK(v) /\ SameExtra(v, done)
                   /\ \A r : NewNames(done, r) /\ Made(t.name, r) => NewNames(v, r)
                   /\ \A k \in Slots : v.slot[k].open => done.slot[k].open /\ (k = done.cur => k = v.cur)
                   /\ AllLocal(done) => AllLocal(v)
                   /\ \A k \in Slots : done.slot[k].type = "internal" /\ done.slot[k].name = t.name
                                       => v.cur = k /\ v.name = t.name
          BY <4>0, <4>1, SetLocalQueue
      <4> QED  BY <3>1, <4>1, Zenon
    <3>3. LocalWhenInternal => t'.cur = t.cur /\ t'.name = t.name
      <4> SUFFICES ASSUME LocalWhenInternal  PROVE t'.cur = t.cur /\ t'.name = t.name
          OBVIOUS
      <4>1. t.slot[c].type = "internal" /\ t.slot[c].name = t.name
          BY <1>1, <2>6 DEF LocalWhenInternal, AllLocal, CurrentOK, SlotType
      <4>2. done.slot[c].type = "internal" /\ done.slot[c].name = t.name
          BY <1>1, <1>3, <1>6, <2>2, <4>1 DEF OnTheWay, LocalKept
      <4> QED  BY <1>1, <3>2, <4>2
    <3>4. SameExtra(t', t)
        BY <2>3, <3>2, ExtraKept
    <3>5. \A k \in Slots : t'.slot[k].open => k = t'.cur \/ Kept(e, k)
        BY <2>4, <3>2
    <3> QED  BY <1>2, <2>1, <2>3, <2>6, <2>7, <3>2, <3>3, <3>4, <3>5 DEF LocalWhenInternal, Performed
  <2> QED  BY <2>5, <2>6
<1> QED  BY <1>9, <1>10

LEMMA ExtraInt ==
  ASSUME NEW w, TableOK(w), NEW h \in Hosts
  PROVE  Extra(w, h) \in Int
<1>1. IsFiniteSet(OpenTo(w.slot, h))
    BY SlotNumbers, FS_Subset DEF OpenTo
<1>2. Cardinality(OpenTo(w.slot, h)) \in Nat
    BY <1>1, FS_CardinalityType
<1> QED  BY <1>2 DEF Extra, TableOK, TableType

\* What a step has to show when it leaves the environments as they are.
LEMMA TableStep ==
  ASSUME IInv, TableOK(t'), CurrentOK(t'), \A h \in Hosts : Extra(t', h) >= Extra(t, h),
         runner' \in 0 .. MaxRunner, NewNames(t', runner'), UNCHANGED <<envs, internal>>
  PROVE  IInv'
<1>1. \A h \in Hosts : Extra(t, h) >= 0 /\ Extra(t, h) \in Int /\ Extra(t', h) \in Int
    BY ExtraInt DEF IInv
<1>2. \A h \in Hosts : Extra(t', h) >= 0
    BY <1>1
<1>3. internal' \in BOOLEAN /\ EnvsOK(envs')
    BY DEF IInv
<1> QED  BY <1>2, <1>3 DEF IInv

LEMMA OwnedStep ==
  ASSUME CInv, SameExtra(t', t), UNCHANGED envs,
         \A k \in Slots : t'.slot[k].open => k = t'.cur \/ (t.slot[k].open /\ k # t.cur)
  PROVE  CInv'
<1>1. \A h \in Hosts : Extra(t', h) = 0
    BY DEF CInv, SameExtra
<1>2. Held(t', envs')
    BY DEF CInv, Held
<1> QED  BY <1>1, <1>2 DEF CInv

LEMMA SameOrMore ==
  ASSUME NEW v, NEW w, TableOK(w), SameExtra(v, w)
  PROVE  \A h \in Hosts : Extra(v, h) >= Extra(w, h)
BY ExtraInt DEF SameExtra

LEMMA QueueNames ==
  ASSUME NEW n \in GivenNames
  PROVE  n \in QNames /\ (\A r : Made(n, r)) /\ (use_external(n) => ~internal /\ n \in RemoteNames)
<1>1. use_external(n) => ~internal /\ n \in RemoteNames
  <2>1. Len(n) = 2 => n \in RemoteNames
    <3>1. Len(Session) = 1
        BY DEF Session
    <3> QED  BY <3>1, TableAssumption DEF GivenNames
  <2> QED  BY <2>1 DEF use_external
<1> QED  BY <1>1, SaidNames DEF GivenNames, Ends

LEMMA SetQueue ==
  ASSUME IInv, NEW n \in GivenNames, set_queue(n)
  PROVE  /\ IInv'
         /\ CInv /\ "fill" \notin Habits => CInv'
         /\ LocalWhenInternal => LocalWhenInternal'
<1>0. TableOK(t) /\ CurrentOK(t) /\ NewNames(t, runner) /\ runner \in 0 .. MaxRunner
    BY DEF IInv
<1>1. CASE use_external(n)
  <2>1. n \in RemoteNames /\ ~internal /\ t' = SetRemote(t, n) /\ UNCHANGED <<envs, internal, runner>>
      BY <1>1, QueueNames DEF set_queue
  <2>2. /\ TableOK(t') /\ CurrentOK(t')
        /\ find_free_slot(t) # NoSlot => SameExtra(t', t)
        /\ \A h \in Hosts : Extra(t', h) >= Extra(t, h)
        /\ \A r : NewNames(t, r) => NewNames(t', r)
        /\ \A k \in Slots : t'.slot[k].open => k = t'.cur \/ (t.slot[k].open /\ k # t.cur)
      BY <1>0, <2>1, SetRemoteQueue
  <2>3. IInv'
      BY <1>0, <2>1, <2>2, TableStep
  <2>4. ASSUME CInv, "fill" \notin Habits  PROVE CInv'
    <3>1. find_free_slot(t) # NoSlot
        BY <2>4 DEF set_queue
    <3> QED  BY <2>1, <2>2, <2>4, <3>1, OwnedStep
  <2> QED  BY <2>1, <2>3, <2>4 DEF LocalWhenInternal
<1>2. CASE ~use_external(n)
  <2>1. t' = SetLocal(t, n) /\ UNCHANGED <<envs, internal, runner>>
      BY <1>2 DEF set_queue
  <2>2. /\ TableOK(t') /\ CurrentOK(t') /\ SameExtra(t', t)
        /\ \A r : NewNames(t, r) /\ Made(n, r) => NewNames(t', r)
        /\ \A k \in Slots : t'.slot[k].open => t.slot[k].open /\ (k = t.cur => k = t'.cur)
        /\ AllLocal(t) => AllLocal(t')
      BY <1>0, <2>1, QueueNames, SetLocalQueue
  <2>3. IInv'
      BY <1>0, <2>1, <2>2, QueueNames, SameOrMore, TableStep
  <2>4. CInv => CInv'
      BY <2>1, <2>2, OwnedStep
  <2> QED  BY <2>1, <2>2, <2>3, <2>4 DEF LocalWhenInternal
<1> QED  BY <1>1, <1>2

LEMMA CreateQueue ==
  ASSUME IInv, NEW n \in GivenNames, create_queue(n)
  PROVE  /\ IInv'
         /\ CInv => CInv'
         /\ LocalWhenInternal => LocalWhenInternal'
<1> DEFINE i == find_queue(t, n)
           j == find_free_slot(t)
           unique == Unique(runner)
           new == IF i = NoSlot THEN n ELSE unique
<1>0. TableOK(t) /\ CurrentOK(t) /\ NewNames(t, runner) /\ runner \in 0 .. MaxRunner
    BY DEF IInv
<1>1. UNCHANGED <<envs, internal>>
    BY DEF create_queue
<1>2. CASE i # NoSlot /\ ~t.slot[i].real
  <2>1. t' = WithLocal(t, i, Real(t.slot[i])) /\ UNCHANGED runner
      BY <1>2 DEF create_queue, WithLocal, Real
  <2>2. i \in Slots /\ t.slot[i].type = "internal"
      BY <1>2, FindQueue
  <2> HIDE DEF i
  <2>3. /\ TableOK(t') /\ t'.cur = t.cur /\ t'.name = t.name /\ SameExtra(t', t)
        /\ \A k \in Slots : /\ t'.slot[k].type = t.slot[k].type
                            /\ t'.slot[k].name = t.slot[k].name
                            /\ (t'.slot[k].open <=> t.slot[k].open)
      BY <1>0, <2>1, <2>2, RealQueue
  <2>4. CurrentOK(t') /\ NewNames(t', runner') /\ (AllLocal(t) => AllLocal(t'))
      BY <1>0, <2>1, <2>3 DEF CurrentOK, NewNames, AllLocal, TableOK, TableType
  <2>5. IInv'
      BY <1>0, <1>1, <2>1, <2>3, <2>4, SameOrMore, TableStep
  <2>6. CInv => CInv'
      BY <1>1, <2>3, OwnedStep
  <2> QED  BY <1>1, <2>4, <2>5, <2>6 DEF LocalWhenInternal
<1>3. CASE ~(i # NoSlot /\ ~t.slot[i].real)
  <2>1. /\ new = unique => runner < MaxRunner
        /\ runner' = IF new = unique THEN runner + 1 ELSE runner
        /\ j # NoSlot
        /\ t' = WithLocal(t, j, Internal(new, TRUE))
      BY <1>3 DEF create_queue, WithLocal
  <2>2. j \in Slots \ {0} /\ t.slot[j].type = "unused"
      BY <2>1, FreeSlot
  <2>3. /\ new \in QNames /\ runner' \in 0 .. MaxRunner /\ Made(new, runner')
        /\ \A r : runner' = r => \A m : Made(m, runner) => Made(m, r)
        /\ \A k \in Slots : t.slot[k].type = "internal" /\ t.slot[k].name = new => k = j
    <3>1. CASE i = NoSlot
      <4>1. new = n /\ (\A r : Made(n, r)) /\ n \in QNames
          BY <3>1, QueueNames
      <4>2. runner' \in 0 .. MaxRunner /\ runner' >= runner
          BY <1>0, <2>1, TableAssumption
      <4>3. \A k \in Slots : ~(t.slot[k].type = "internal" /\ t.slot[k].name = n)
          BY <3>1, FindQueue, SlotNumbers
      <4>4. \A m : Made(m, runner) => Made(m, runner')
          BY <1>0, <4>2 DEF Made
      <4> QED  BY <4>1, <4>2, <4>3, <4>4
    <3>2. CASE i # NoSlot
      <4>1. new = unique /\ runner' = runner + 1 /\ runner < MaxRunner
          BY <2>1, <3>2
      <4>2. runner' \in 0 .. MaxRunner /\ unique \in QNames
          BY <1>0, <4>1, TableAssumption DEF QNames
      <4>3. Made(unique, runner')
          BY <1>0, <4>1 DEF Made, Unique
      <4>4. ~Made(unique, runner)
          BY <1>0 DEF Made
      <4>5. \A k \in Slots : ~(t.slot[k].type = "internal" /\ t.slot[k].name = unique)
          BY <1>0, <4>4 DEF NewNames
      <4>6. \A m : Made(m, runner) => Made(m, runner')
          BY <1>0, <4>1 DEF Made
      <4> QED  BY <4>1, <4>2, <4>3, <4>5, <4>6
    <3> QED  BY <3>1, <3>2
  <2> DEFINE s == Internal(new, TRUE)
  <2> HIDE DEF new, j
  <2>4. s \in SlotType /\ s.type = "internal" /\ s.name = new /\ ~s.open
      BY <2>3, SlotTypes
  <2>5. t' = WithLocal(t, j, s)
      BY <2>1
  <2> HIDE DEF s
  <2>6. /\ TableOK(t') /\ t'.cur = t.cur /\ t'.name = t.name /\ SameExtra(t', t)
        /\ t'.slot[j] = s /\ \A k \in Slots : k # j => t'.slot[k] = t.slot[k]
        /\ \A k \in Slots : t'.slot[k].open => t.slot[k].open
        /\ AllLocal(t) => AllLocal(t')
      BY <1>0, <2>2, <2>3, <2>4, <2>5, PutLocal
  <2>7. CurrentOK(t')
    <3>1. t.cur # j /\ t.cur \in Slots
        BY <1>0, <2>2 DEF CurrentOK, TableOK, TableType
    <3> QED  BY <1>0, <2>6, <3>1 DEF CurrentOK
  <2>8. NewNames(t', runner')
      BY <1>0, <2>3, <2>4, <2>6 DEF NewNames
  <2>9. IInv'
      BY <1>0, <1>1, <2>3, <2>6, <2>7, <2>8, SameOrMore, TableStep
  <2>10. CInv => CInv'
      BY <1>1, <2>6, OwnedStep
  <2> QED  BY <1>1, <2>6, <2>9, <2>10 DEF LocalWhenInternal
<1> QED  BY <1>2, <1>3

LEMMA DeleteQueue ==
  ASSUME IInv, NEW n \in GivenNames, delete_queue(n)
  PROVE  /\ IInv'
         /\ CInv => CInv'
         /\ LocalWhenInternal => LocalWhenInternal'
<1> DEFINE i == find_queue(t, n)
           u == IF use_external(n) THEN t ELSE WithLocal(t, i, Unused)
<1>0. /\ TableOK(t) /\ CurrentOK(t) /\ NewNames(t, runner) /\ runner \in 0 .. MaxRunner
      /\ t.cur \in Slots
    BY DEF IInv, TableOK, TableType
<1>1. UNCHANGED <<envs, internal, runner>> /\ t' = SetCurrentQueue(u, 0, Session)
    BY DEF delete_queue, WithLocal
<1>2. /\ TableOK(u) /\ u.cur = t.cur /\ SameExtra(u, t) /\ NewNames(u, runner)
      /\ \A k \in Slots : u.slot[k].open => t.slot[k].open
      /\ AllLocal(t) => AllLocal(u)
  <2>1. CASE use_external(n)
    <3>1. u = t
        BY <2>1
    <3> HIDE DEF u
    <3> QED  BY <1>0, <3>1 DEF SameExtra
  <2>2. CASE ~use_external(n)
    <3>1. u = WithLocal(t, i, Unused) /\ i \notin {0, NoSlot}
        BY <2>2 DEF delete_queue
    <3>2. i \in Slots /\ t.slot[i].type # "external"
        BY <3>1, FindQueue
    <3>3. Unused \in SlotType /\ Unused.type = "unused" /\ ~Unused.open
        BY SlotTypes
    <3> HIDE DEF u, i
    <3> QED  BY <1>0, <3>1, <3>2, <3>3, PutLocal
  <2> QED  BY <2>1, <2>2
<1> HIDE DEF u
<1>3. /\ u.slot[0].type = "internal" /\ u.slot[0].name = Session
      /\ 0 \in Slots /\ Session \in QNames
    BY <1>2, SlotNumbers, SlotTypes, SaidNames DEF TableOK, SlotsOK, Internal
<1>4. /\ TableOK(t') /\ SameExtra(t', u) /\ Fewer(t', u) /\ CurrentOK(t') /\ t'.cur = 0
      /\ \A k \in Slots : t'.slot[k].open => u.slot[k].open /\ (k = u.cur => k = 0)
    BY <1>1, <1>2, <1>3, SetCurrent
<1>5. NewNames(t', runner') /\ (AllLocal(t) => AllLocal(t')) /\ SameExtra(t', t)
    BY <1>1, <1>2, <1>4, FewerNames, ExtraKept
<1>6. IInv'
    BY <1>0, <1>1, <1>4, <1>5, SameOrMore, TableStep
<1>7. CInv => CInv'
    BY <1>1, <1>2, <1>4, <1>5, OwnedStep
<1> QED  BY <1>1, <1>5, <1>6, <1>7 DEF LocalWhenInternal

\* The table as it is made, and as the end of RexxStart leaves it.
Fresh == [i \in Slots |-> IF i = 0 THEN Internal(Session, TRUE) ELSE Unused]
LEMMA FreshTable ==
  ASSUME NEW v, NEW c \in [Hosts -> Int],
         v = [slot |-> Fresh, conns |-> c, cur |-> 0, name |-> Session]
  PROVE  /\ TableOK(v) /\ CurrentOK(v) /\ AllLocal(v) /\ \A r : NewNames(v, r)
         /\ \A h \in Hosts : Extra(v, h) = c[h]
         /\ \A k \in Slots : ~v.slot[k].open
<1>1. /\ v.slot = Fresh /\ v.conns = c /\ v.cur = 0 /\ v.name = Session
      /\ Session \in QNames /\ 0 \in Slots
    BY SlotNumbers, SaidNames
<1>2. /\ \A k \in Slots : k # 0 => Fresh[k] = Unused
      /\ Fresh[0] = Internal(Session, TRUE) /\ Fresh \in [Slots -> SlotType]
      /\ Fresh[0].type = "internal" /\ Fresh[0].name = Session
      /\ \A k \in Slots : ~Fresh[k].open /\ Fresh[k].type # "external"
      /\ \A k \in Slots : Fresh[k].type = "internal" => k = 0
  <2>1. /\ Internal(Session, TRUE) \in SlotType /\ Internal(Session, TRUE).type = "internal"
        /\ Internal(Session, TRUE).name = Session /\ ~Internal(Session, TRUE).open
        /\ Unused \in SlotType /\ Unused.type = "unused" /\ ~Unused.open
      BY <1>1, SlotTypes
  <2>2. \A k \in Slots : Fresh[k] = IF k = 0 THEN Internal(Session, TRUE) ELSE Unused
      BY DEF Fresh
  <2>3. Fresh \in [Slots -> SlotType]
      BY <2>1 DEF Fresh
  <2> QED  BY <1>1, <2>1, <2>2, <2>3
<1>3. v \in TableType
    BY <1>1, <1>2 DEF TableType
<1>4. SlotsOK(v) /\ AllLocal(v)
    BY <1>1, <1>2 DEF SlotsOK, AllLocal
<1>5. Unambiguous(v)
    BY <1>1, <1>2 DEF Unambiguous
<1>6. CurrentOK(v)
    BY <1>1, <1>2 DEF CurrentOK
<1>7. \A r : NewNames(v, r)
    BY <1>1, <1>2, SaidNames DEF NewNames
<1>8. \A h \in Hosts : Extra(v, h) = c[h]
  <2> SUFFICES ASSUME NEW h \in Hosts  PROVE Extra(v, h) = c[h]
      OBVIOUS
  <2>1. OpenTo(v.slot, h) = {}
      BY <1>1, <1>2 DEF OpenTo
  <2>2. Cardinality(OpenTo(v.slot, h)) = 0
      BY <2>1, FS_EmptySet
  <2>3. Extra(v, h) = v.conns[h] - Cardinality(OpenTo(v.slot, h))
      BY DEF Extra
  <2> QED  BY <1>1, <2>2, <2>3
<1> QED  BY <1>1, <1>2, <1>3, <1>4, <1>5, <1>6, <1>7, <1>8 DEF TableOK

LEMMA PurgeStacks ==
  ASSUME IInv, purge_stacks
  PROVE  /\ IInv'
         /\ CInv => CInv'
         /\ LocalWhenInternal => LocalWhenInternal'
<1> DEFINE c == [h \in Hosts |-> Extra(t, h)]
<1>0. TableOK(t) /\ runner \in 0 .. MaxRunner
    BY DEF IInv
<1>1. c \in [Hosts -> Int] /\ \A h \in Hosts : c[h] = Extra(t, h)
    BY <1>0, ExtraInt
<1>2. /\ t' = [slot |-> Fresh, conns |-> c, cur |-> 0, name |-> Session]
      /\ UNCHANGED <<envs, internal, runner>>
    BY DEF purge_stacks, Fresh, Extra, OpenTo
<1> HIDE DEF c
<1>3. /\ TableOK(t') /\ CurrentOK(t') /\ AllLocal(t') /\ NewNames(t', runner')
      /\ \A h \in Hosts : Extra(t', h) = c[h]
      /\ \A k \in Slots : ~t'.slot[k].open
    BY <1>1, <1>2, FreshTable
<1>4. SameExtra(t', t)
    BY <1>1, <1>3 DEF SameExtra
<1>5. IInv'
    BY <1>0, <1>2, <1>3, <1>4, SameOrMore, TableStep
<1>6. CInv => CInv'
    BY <1>2, <1>3, <1>4, OwnedStep
<1> QED  BY <1>3, <1>5, <1>6 DEF LocalWhenInternal

LEMMA SetTheOption ==
  ASSUME IInv, SetOption
  PROVE  /\ IInv'
         /\ CInv => CInv'
         /\ LocalWhenInternal /\ "mix" \notin Habits => LocalWhenInternal'
<1>1. UNCHANGED <<t, envs, runner>> /\ internal' \in BOOLEAN
    BY DEF SetOption
<1>2. IInv' /\ (CInv => CInv')
    BY <1>1 DEF IInv, CInv
<1>3. "mix" \notin Habits /\ internal' => AllLocal(t)
    BY DEF SetOption, AllLocal
<1> QED  BY <1>1, <1>2, <1>3 DEF LocalWhenInternal

LEMMA Instances ==
  ASSUME EnvsOK(envs)
  PROVE  /\ envs[Top] \in EnvType /\ Top \in Nat /\ Top > 0
         /\ SubSeq(envs, 1, Top - 1) \in Seq(EnvType) /\ Len(SubSeq(envs, 1, Top - 1)) = Top - 1
         /\ \A k \in 1 .. Top - 1 : SubSeq(envs, 1, Top - 1)[k] = envs[k]
<1>1. Top \in Nat /\ Top > 0 /\ Top = Len(envs) /\ envs \in Seq(EnvType)
    BY DEF EnvsOK, Top
<1>2. \A i \in 1 .. Top - 1 : envs[i] \in EnvType
    BY <1>1
<1>3. /\ SubSeq(envs, 1, Top - 1) \in Seq(EnvType) /\ Len(SubSeq(envs, 1, Top - 1)) = Top - 1
      /\ \A k \in 1 .. Top - 1 : SubSeq(envs, 1, Top - 1)[k] = envs[k]
    BY <1>1
<1> QED  BY <1>1, <1>3

\* Of a command in instance e on top of those below: after it there are the same ones,
\* with another on top of them or none.
LEMMA CommandStep ==
  ASSUME IInv, NEW e \in EnvType, NEW below \in Seq(EnvType), NEW after \in Seq(EnvType),
         Len(after) > 0, Len(below) <= Len(after),
         \A k \in 1 .. Len(below) : after[k] = below[k],
         \A i \in Slots, k \in 1 .. Len(envs) : i = envs[k].inq \/ i = envs[k].outq =>
           \/ i = e.inq \/ i = e.outq
           \/ \E m \in 1 .. Len(below) : i = below[m].inq \/ i = below[m].outq,
         perform(e, below, after)
  PROVE  /\ IInv'
         /\ CInv => CInv'
         /\ LocalWhenInternal => LocalWhenInternal'
<1>0. UNCHANGED <<internal, runner>>
    BY DEF perform
<1>1. /\ TableOK(t') /\ CurrentOK(t') /\ SameExtra(t', t) /\ NewNames(t', runner)
      /\ LocalWhenInternal /\ internal => AllLocal(t')
      /\ \/ /\ envs' = after
            /\ \A k \in Slots : t'.slot[k].open => k = t'.cur \/ Kept(e, k)
         \/ \E held \in EnvType :
              /\ envs' = Append(below, held)
              /\ \A k \in Slots : t'.slot[k].open =>
                   k = t'.cur \/ Kept(e, k) \/ k = held.inq \/ k = held.outq
    BY Perform DEF Performed
<1>2. EnvsOK(envs')
  <2>1. CASE envs' = after
      BY <2>1 DEF EnvsOK
  <2>2. ASSUME NEW held \in EnvType, envs' = Append(below, held)  PROVE EnvsOK(envs')
      BY <2>2 DEF EnvsOK
  <2> QED  BY <1>1, <2>1, <2>2
<1>3. IInv'
  <2>1. \A h \in Hosts : Extra(t', h) >= 0
      BY <1>1 DEF SameExtra, IInv
  <2>2. internal' \in BOOLEAN /\ runner' \in 0 .. MaxRunner
      BY <1>0 DEF IInv
  <2> QED  BY <1>0, <1>1, <1>2, <2>1, <2>2 DEF IInv
<1>4. ASSUME CInv  PROVE CInv'
  <2>1. \A h \in Hosts : Extra(t', h) = 0
      BY <1>1, <1>4 DEF SameExtra, CInv
  <2>2. \A k \in Slots : Kept(e, k) =>
           \E m \in 1 .. Len(below) : k = below[m].inq \/ k = below[m].outq
      BY <1>4 DEF CInv, Held, Kept
  <2>3. Held(t', envs')
    <3>1. CASE /\ envs' = after
               /\ \A k \in Slots : t'.slot[k].open => k = t'.cur \/ Kept(e, k)
      <4>1. \A m \in 1 .. Len(below) : m \in 1 .. Len(after) /\ after[m] = below[m]
          OBVIOUS
      <4> QED  BY <2>2, <3>1, <4>1 DEF Held
    <3>2. ASSUME NEW held \in EnvType, envs' = Append(below, held),
                 \A k \in Slots : t'.slot[k].open =>
                   k = t'.cur \/ Kept(e, k) \/ k = held.inq \/ k = held.outq
          PROVE  Held(t', envs')
      <4> DEFINE es == Append(below, held)
      <4>1. /\ \A m \in 1 .. Len(below) : m \in 1 .. Len(es) /\ es[m] = below[m]
            /\ Len(es) \in 1 .. Len(es) /\ es[Len(es)] = held
          OBVIOUS
      <4>2. envs' = es
          BY <3>2
      <4> HIDE DEF es
      <4> QED  BY <2>2, <3>2, <4>1, <4>2 DEF Held
    <3> QED  BY <1>1, <3>1, <3>2
  <2> QED  BY <2>1, <2>3 DEF CInv
<1>5. LocalWhenInternal => LocalWhenInternal'
    BY <1>0, <1>1 DEF LocalWhenInternal
<1> QED  BY <1>3, <1>4, <1>5

LEMMA PlainCommand ==
  ASSUME IInv, Command
  PROVE  /\ IInv'
         /\ CInv => CInv'
         /\ LocalWhenInternal => LocalWhenInternal'
<1> DEFINE e == envs[Top]
           below == SubSeq(envs, 1, Top - 1)
           top == Env(e.in, e.out)
           after == below \o <<top>>
<1>1. /\ e \in EnvType /\ Top \in Nat /\ Top > 0 /\ Top = Len(envs)
      /\ below \in Seq(EnvType) /\ Len(below) = Top - 1
      /\ \A k \in 1 .. Top - 1 : below[k] = envs[k]
    BY Instances DEF IInv, Top
<1>2. top \in EnvType
  <2> HIDE DEF e
  <2> QED  BY <1>1, NewInstance DEF EnvType
<1>3. perform(e, below, after)
    BY DEF Command
<1> HIDE DEF e, below, top
<1>4. /\ after \in Seq(EnvType) /\ Len(after) = Top
      /\ \A k \in 1 .. Len(below) : after[k] = below[k]
    BY <1>1, <1>2
<1>5. \A i \in Slots, k \in 1 .. Len(envs) : i = envs[k].inq \/ i = envs[k].outq =>
        \/ i = e.inq \/ i = e.outq
        \/ \E m \in 1 .. Len(below) : i = below[m].inq \/ i = below[m].outq
  <2>1. ASSUME NEW k \in 1 .. Len(envs)
        PROVE  envs[k] = e \/ (k \in 1 .. Len(below) /\ envs[k] = below[k])
      BY <1>1 DEF e
  <2> QED  BY <2>1
<1> HIDE DEF after
<1>6. Len(after) > 0 /\ Len(below) <= Len(after)
    BY <1>1, <1>4
<1> QED  BY <1>1, <1>3, <1>4, <1>5, <1>6, CommandStep

LEMMA OwnWith ==
  ASSUME IInv, NEW w \in Withs, CommandWith(w[1], w[2])
  PROVE  /\ IInv'
         /\ CInv => CInv'
         /\ LocalWhenInternal => LocalWhenInternal'
         /\ LocalWhenInternal /\ envs' = envs => t'.cur = t.cur /\ t'.name = t.name
<1> DEFINE e == Env(w[1], w[2])
<1>1. w[1] \in Ends /\ w[2] \in Ends
    BY TableAssumption DEF Ends, None
<1>2. e \in EnvType /\ perform(e, envs, envs)
    BY <1>1, NewInstance DEF CommandWith
<1>3. envs \in Seq(EnvType) /\ Len(envs) > 0
    BY DEF IInv, EnvsOK
<1> HIDE DEF e
<1>4. /\ IInv'
      /\ CInv => CInv'
      /\ LocalWhenInternal => LocalWhenInternal'
    BY <1>2, <1>3, CommandStep
<1>5. \/ LocalWhenInternal => t'.cur = t.cur /\ t'.name = t.name
      \/ \E held \in EnvType : envs' = Append(envs, held)
    BY <1>2, Perform DEF Performed
<1>6. \A held \in EnvType : Append(envs, held) # envs
  <2>1. \A held \in EnvType : Len(Append(envs, held)) = Len(envs) + 1 /\ Len(envs) \in Nat
      BY <1>3
  <2> QED  BY <2>1
<1> QED  BY <1>4, <1>5, <1>6

LEMMA SetEnvironment ==
  ASSUME IInv, NEW w \in Withs, set_envir(w[1], w[2])
  PROVE  /\ IInv'
         /\ CInv => CInv'
         /\ LocalWhenInternal => LocalWhenInternal'
<1> DEFINE e == envs[Top]
           n == Env(w[1], w[2])
<1>1. /\ e \in EnvType /\ Top \in 1 .. Len(envs) /\ Top = Len(envs) /\ envs \in Seq(EnvType)
    BY Instances DEF IInv, EnvsOK, Top
<1>2. w[1] \in Ends /\ w[2] \in Ends
    BY TableAssumption DEF Ends, None
<1>3. n \in EnvType
    BY <1>2, NewInstance
<1>4. t' = cleanup(t, e) /\ envs' = [envs EXCEPT ![Top] = n] /\ UNCHANGED <<internal, runner>>
    BY DEF set_envir
<1> HIDE DEF n
<1>5. /\ EnvsOK(envs') /\ Len(envs') = Len(envs)
      /\ \A k \in 1 .. Len(envs) : k # Top => envs'[k] = envs[k]
    BY <1>1, <1>3, <1>4 DEF EnvsOK
<1> HIDE DEF e
<1>6. /\ OnTheWay(t', t)
      /\ \A k \in Slots : t'.slot[k].open =>
           t.slot[k].open /\ (k = e.inq \/ k = e.outq => k = t.cur)
    BY <1>1, <1>4, CleanUp DEF IInv
<1>7. IInv'
  <2>1. \A h \in Hosts : Extra(t', h) >= 0
      BY <1>6 DEF SameExtra, IInv, OnTheWay
  <2>2. internal' \in BOOLEAN /\ runner' \in 0 .. MaxRunner
      BY <1>4 DEF IInv
  <2>3. TableOK(t') /\ CurrentOK(t') /\ NewNames(t', runner')
      BY <1>4, <1>6 DEF OnTheWay, IInv
  <2> QED  BY <1>5, <2>1, <2>2, <2>3 DEF IInv
<1>8. ASSUME CInv  PROVE CInv'
  <2>1. \A h \in Hosts : Extra(t', h) = 0
      BY <1>6, <1>8 DEF SameExtra, CInv, OnTheWay
  <2>2. Held(t', envs')
    <3>1. t'.cur = t.cur
        BY <1>6 DEF OnTheWay
    <3>2. ASSUME NEW i \in Slots, t'.slot[i].open, i # t.cur
          PROVE  \E k \in 1 .. Len(envs') : i = envs'[k].inq \/ i = envs'[k].outq
      <4>1. PICK k \in 1 .. Len(envs) : i = envs[k].inq \/ i = envs[k].outq
          BY <1>6, <1>8, <3>2 DEF CInv, Held
      <4>2. k # Top
          BY <1>6, <3>2, <4>1 DEF e
      <4> QED  BY <1>5, <4>1, <4>2
    <3> QED  BY <3>1, <3>2 DEF Held
  <2> QED  BY <2>1, <2>2 DEF CInv
<1>9. LocalWhenInternal => LocalWhenInternal'
    BY <1>4, <1>6 DEF LocalWhenInternal, OnTheWay
<1> QED  BY <1>7, <1>8, <1>9

LEMMA Begin == Init => IInv /\ CInv /\ LocalWhenInternal
<1> SUFFICES ASSUME Init  PROVE IInv /\ CInv /\ LocalWhenInternal
    OBVIOUS
<1> DEFINE c == [h \in Hosts |-> 0]
<1>1. c \in [Hosts -> Int] /\ \A h \in Hosts : c[h] = 0
    OBVIOUS
<1>2. /\ t = [slot |-> Fresh, conns |-> c, cur |-> 0, name |-> Session]
      /\ envs = <<Env(None, None)>> /\ internal = FALSE /\ runner = 0
    BY DEF Init, Fresh
<1> HIDE DEF c
<1>3. /\ TableOK(t) /\ CurrentOK(t) /\ NewNames(t, runner)
      /\ \A h \in Hosts : Extra(t, h) = 0
      /\ \A k \in Slots : ~t.slot[k].open
    BY <1>1, <1>2, FreshTable
<1>4. EnvsOK(envs)
  <2>1. Env(None, None) \in EnvType
      BY NewInstance DEF Ends
  <2> QED  BY <1>2, <2>1 DEF EnvsOK
<1>5. runner \in 0 .. MaxRunner
    BY <1>2, TableAssumption
<1>6. CInv
    BY <1>3 DEF CInv, Held
<1>7. \A h \in Hosts : Extra(t, h) >= 0
    BY <1>3
<1>8. internal \in BOOLEAN /\ LocalWhenInternal
    BY <1>2 DEF LocalWhenInternal
<1> QED  BY <1>3, <1>4, <1>5, <1>6, <1>7, <1>8 DEF IInv

LEMMA Step ==
  ASSUME IInv, [Next]_vars
  PROVE  /\ IInv'
         /\ CInv /\ "fill" \notin Habits => CInv'
         /\ LocalWhenInternal /\ "mix" \notin Habits => LocalWhenInternal'
<1>1. ASSUME NEW n \in GivenNames, set_queue(n) \/ create_queue(n) \/ delete_queue(n)
      PROVE  /\ IInv'
             /\ CInv /\ "fill" \notin Habits => CInv'
             /\ LocalWhenInternal => LocalWhenInternal'
    BY <1>1, SetQueue, CreateQueue, DeleteQueue
<1>2. CASE purge_stacks
    BY <1>2, PurgeStacks
<1>3. CASE SetOption
    BY <1>3, SetTheOption
<1>4. CASE Command
    BY <1>4, PlainCommand
<1>5. ASSUME NEW w \in Withs, CommandWith(w[1], w[2])
      PROVE  IInv' /\ (CInv => CInv') /\ (LocalWhenInternal => LocalWhenInternal')
    BY <1>5, OwnWith
<1>6. ASSUME NEW w \in Withs, set_envir(w[1], w[2])
      PROVE  IInv' /\ (CInv => CInv') /\ (LocalWhenInternal => LocalWhenInternal')
    BY <1>6, SetEnvironment
<1>7. CASE UNCHANGED vars
  <2>1. UNCHANGED <<t, envs, internal, runner>>
      BY <1>7 DEF vars
  <2> QED  BY <2>1 DEF IInv, CInv, LocalWhenInternal
<1> QED  BY <1>1, <1>2, <1>3, <1>4, <1>5, <1>6, <1>7 DEF Next

-----------------------------------------------------------------------------
(* Theorems.                                                               *)

LEMMA Invariant == Spec => []IInv
<1>1. Init => IInv
    BY Begin
<1>2. IInv /\ [Next]_vars => IInv'
    BY Step
<1> QED  BY <1>1, <1>2, PTL DEF Spec

\* Whatever queues are set, made, deleted, purged and opened for commands, SESSION keeps
\* its slot, connections have a host, and their number is never below the slots that
\* stand for them (stack.c).
THEOREM TypeCorrect == Spec => []TypeOK
<1>1. IInv => TypeOK
  <2> SUFFICES ASSUME IInv  PROVE TypeOK
      OBVIOUS
  <2>1. /\ t.slot \in [Slots -> SlotType] /\ t.cur \in Slots /\ t.conns \in [Hosts -> Int]
        /\ t.slot[0] = Internal(Session, TRUE)
        /\ \A i \in Slots : t.slot[i].type = "external" => t.slot[i].name \in RemoteNames
      BY DEF IInv, TableOK, TableType, SlotsOK
  <2>2. ASSUME NEW h \in Hosts  PROVE t.conns[h] \in Nat
    <3>1. IsFiniteSet(OpenTo(t.slot, h))
        BY SlotNumbers, FS_Subset DEF OpenTo
    <3>2. Cardinality(OpenTo(t.slot, h)) \in Nat
        BY <3>1, FS_CardinalityType
    <3>3. t.conns[h] - Cardinality(OpenTo(t.slot, h)) >= 0
        BY DEF IInv, Extra
    <3> QED  BY <2>1, <3>2, <3>3
  <2>3. t.conns \in [Hosts -> Nat]
      BY <2>1, <2>2
  <2>4. \A k \in 1 .. Top : {envs[k].inq, envs[k].outq} \subseteq 0 .. NumberQueues
    <3>1. ASSUME NEW k \in 1 .. Top  PROVE envs[k] \in EnvType
        BY DEF IInv, EnvsOK, Top
    <3> QED  BY <3>1 DEF EnvType
  <2>5. internal \in BOOLEAN /\ runner \in 0 .. MaxRunner
      BY DEF IInv
  <2> QED  BY <2>1, <2>3, <2>4, <2>5 DEF TypeOK
<1> QED  BY <1>1, Invariant, PTL

\* The current queue can be used and has the name RXQUEUE('G') tells, and no two queues
\* have one name (find_queue, SetCurrentQueue, create_queue).
THEOREM NamesAlways == Spec => []NamesKept
<1>1. IInv => NamesKept
  <2> SUFFICES ASSUME IInv  PROVE NamesKept
      OBVIOUS
  <2>1. CurrentOK(t) /\ Unambiguous(t)
      BY DEF IInv, TableOK
  <2>2. CurrentNamed
      BY <2>1 DEF CurrentOK, CurrentNamed
  <2>3. NamesUnique
      BY <2>1 DEF Unambiguous, NamesUnique
  <2> QED  BY <2>2, <2>3 DEF NamesKept
<1> QED  BY <1>1, Invariant, PTL

\* As long as the table is never full, every connection to rxstack has a slot, and the
\* slot is the current queue's or one an environment will clean up (addr_reopen_queue,
\* addr_close_queue, cleanup, SetCurrentQueue).
THEOREM ConnectionsAlways ==
  ASSUME "fill" \notin Habits
  PROVE  Spec => []ConnectionsOwned
<1>1. Init => CInv
    BY Begin
<1>2. IInv /\ CInv /\ [Next]_vars => CInv'
    BY Step
<1>3. IInv /\ CInv => ConnectionsOwned
  <2> SUFFICES ASSUME IInv, CInv  PROVE ConnectionsOwned
      OBVIOUS
  <2>1. ASSUME NEW h \in Hosts
        PROVE  t.conns[h] = Cardinality({i \in Slots : t.slot[i].open /\ t.slot[i].name[2] = h})
    <3>1. IsFiniteSet(OpenTo(t.slot, h))
        BY SlotNumbers, FS_Subset DEF OpenTo
    <3>2. Cardinality(OpenTo(t.slot, h)) \in Nat
        BY <3>1, FS_CardinalityType
    <3>3. t.conns[h] - Cardinality(OpenTo(t.slot, h)) = 0 /\ t.conns[h] \in Int
        BY DEF IInv, CInv, Extra, TableOK, TableType
    <3>4. t.conns[h] = Cardinality(OpenTo(t.slot, h))
        BY <3>2, <3>3
    <3> QED  BY <3>4 DEF OpenTo
  <2>2. \A i \in Slots : t.slot[i].open =>
          i = t.cur \/ \E k \in 1 .. Top : i \in {envs[k].inq, envs[k].outq}
      BY DEF CInv, Held, Top
  <2> QED  BY <2>1, <2>2 DEF ConnectionsOwned
<1> QED  BY <1>1, <1>2, <1>3, Invariant, PTL DEF Spec

\* A command that does not fail leaves the current queue and its name as they were, if
\* INTERNAL_QUEUES is not turned on while an external queue is current: the queue that
\* the command runs on would close the connection (perform, SetCurrentQueue).
THEOREM CommandKeeps ==
  ASSUME "mix" \notin Habits
  PROVE  Spec => CommandKeepsCurrent
<1>1. Init => LocalWhenInternal
    BY Begin
<1>2. IInv /\ LocalWhenInternal /\ [Next]_vars => LocalWhenInternal'
    BY Step
<1>3. IInv /\ LocalWhenInternal =>
        \A w \in Withs : CommandWith(w[1], w[2]) /\ envs' = envs => t'.cur = t.cur /\ t'.name = t.name
    BY OwnWith
<1> QED  BY <1>1, <1>2, <1>3, Invariant, PTL DEF Spec, CommandKeepsCurrent

=============================================================================
