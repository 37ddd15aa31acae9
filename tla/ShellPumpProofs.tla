--------------------------- MODULE ShellPumpProofs ---------------------------
(***************************************************************************)
(* Theorems of ShellPump for every set of commands, every size of the      *)
(* pipes and of the buffer, and every behaviour of the child.              *)
(***************************************************************************)
EXTENDS ShellPump, SequenceTheorems, WellFoundedInduction, TLAPS

-----------------------------------------------------------------------------
(* Numbers; sequences turned round and put together. *)

\* A set of numbers that is not empty has a least one.
LEMMA LeastNat ==
    ASSUME NEW T, T \subseteq Nat, T # {}
    PROVE  \E m \in T : \A k \in T : m <= k
<1> DEFINE R == {p \in Nat \X Nat : p[1] < p[2]}
<1>1. IsWellFoundedOn(R, Nat)
    BY NatLessThanWellFounded DEF R, OpToRel
<1>2. PICK m \in T : \A k \in T : <<k, m>> \notin R
    BY <1>1, WFMin
<1>3. \A k \in T : ~(k < m)
    BY <1>2
<1>4. m \in Nat /\ \A k \in T : k \in Nat
    OBVIOUS
<1>5. \A k \in T : m <= k
    BY <1>3, <1>4
<1> QED  BY <1>5

\* A sequence turned round.
LEMMA ReverseIs ==
    ASSUME NEW S, NEW s \in Seq(S)
    PROVE  /\ Reverse(s) \in Seq(S) /\ Len(Reverse(s)) = Len(s)
           /\ \A i \in 1..Len(s) : Reverse(s)[i] = s[Len(s) - i + 1]
BY DEF Reverse

LEMMA ReverseTwice ==
    ASSUME NEW S, NEW s \in Seq(S)
    PROVE  Reverse(Reverse(s)) = s
<1> DEFINE r == Reverse(s)
<1>1. r \in Seq(S) /\ Len(r) = Len(s) /\ \A i \in 1..Len(s) : r[i] = s[Len(s) - i + 1]
    BY ReverseIs
<1> HIDE DEF r
<1>2. /\ Reverse(r) \in Seq(S) /\ Len(Reverse(r)) = Len(s)
      /\ \A i \in 1..Len(s) : Reverse(r)[i] = r[Len(s) - i + 1]
    BY <1>1, ReverseIs
<1>3. \A i \in 1..Len(s) : Reverse(r)[i] = s[i]
    BY <1>1, <1>2
<1> QED  BY <1>2, <1>3, SeqEqual DEF r

LEMMA ReverseConcat ==
    ASSUME NEW S, NEW s \in Seq(S), NEW t \in Seq(S)
    PROVE  Reverse(s \o t) = Reverse(t) \o Reverse(s)
<1> DEFINE c == s \o t
           l == Reverse(c)
           a == Reverse(t)
           b == Reverse(s)
           r == a \o b
<1>1. /\ c \in Seq(S) /\ Len(c) = Len(s) + Len(t)
      /\ \A i \in 1..(Len(s) + Len(t)) : c[i] = IF i <= Len(s) THEN s[i] ELSE t[i - Len(s)]
    BY ConcatProperties
<1>2. /\ a \in Seq(S) /\ Len(a) = Len(t) /\ \A i \in 1..Len(t) : a[i] = t[Len(t) - i + 1]
      /\ b \in Seq(S) /\ Len(b) = Len(s) /\ \A i \in 1..Len(s) : b[i] = s[Len(s) - i + 1]
    BY ReverseIs
<1> HIDE DEF c, a, b
<1>3. l \in Seq(S) /\ Len(l) = Len(c) /\ \A i \in 1..Len(c) : l[i] = c[Len(c) - i + 1]
    BY <1>1, ReverseIs
<1>4. /\ r \in Seq(S) /\ Len(r) = Len(t) + Len(s)
      /\ \A i \in 1..(Len(t) + Len(s)) : r[i] = IF i <= Len(t) THEN a[i] ELSE b[i - Len(t)]
    BY <1>2, ConcatProperties
<1> HIDE DEF l, r
<1>5. Len(s) \in Nat /\ Len(t) \in Nat
    OBVIOUS
<1>6. ASSUME NEW i \in 1..Len(l)  PROVE l[i] = r[i]
  <2>1. CASE i <= Len(t)
    <3>1. l[i] = t[Len(t) - i + 1]
        BY <2>1, <1>1, <1>3, <1>5, SMTT(30)
    <3> QED  BY <2>1, <3>1, <1>2, <1>4, <1>5, SMTT(30)
  <2>2. CASE i > Len(t)
    <3>1. l[i] = s[Len(s) + Len(t) - i + 1]
        BY <2>2, <1>1, <1>3, <1>5
    <3>2. r[i] = b[i - Len(t)] /\ i - Len(t) \in 1..Len(s)
        BY <2>2, <1>1, <1>3, <1>4, <1>5
    <3>3. b[i - Len(t)] = s[Len(s) - (i - Len(t)) + 1]
        BY <3>2, <1>2
    <3> QED  BY <3>1, <3>2, <3>3, <1>5
  <2> QED  BY <2>1, <2>2, <1>5, <1>1, <1>3
<1>7. Len(l) = Len(r)
    BY <1>1, <1>3, <1>4, <1>5
<1> QED  BY <1>3, <1>4, <1>6, <1>7, SeqEqual DEF l, r, c, a, b

\* The function FlattenSeq is defined by.
Flattens(f, q) == f = [i \in 1..Len(q) |-> IF i = 1 THEN q[i] ELSE f[i - 1] \o q[i]]

\* Such a function exists, and joins the sequences one after the other.
LEMMA Flattening ==
    ASSUME NEW S, NEW q \in Seq(Seq(S))
    PROVE  \E f : Flattens(f, q) /\ \A i \in 1..Len(q) : f[i] \in Seq(S)
<1> DEFINE Good(r) == \E f : Flattens(f, r) /\ \A i \in 1..Len(r) : f[i] \in Seq(S)
           T == {n \in Nat : \E r \in Seq(Seq(S)) : Len(r) = n /\ ~Good(r)}
<1>1. SUFFICES ASSUME T # {}  PROVE FALSE
    BY LenProperties
<1>2. PICK n \in T : \A k \in T : n <= k
    BY <1>1, LeastNat
<1>3. PICK r \in Seq(Seq(S)) : Len(r) = n /\ ~Good(r)
    BY <1>2
<1>4. CASE n = 0
  <2> DEFINE f == [i \in 1..0 |-> <<>>]
  <2>1. 1..Len(r) = {}
      BY <1>3, <1>4
  <2>2. f = [i \in 1..Len(r) |-> IF i = 1 THEN r[i] ELSE f[i - 1] \o r[i]]
      BY <1>3, <1>4, <2>1
  <2> QED  BY <1>3, <2>1, <2>2 DEF Flattens
<1>5. CASE n > 0
  <2> DEFINE p == SubSeq(r, 1, n - 1)
  <2>1. p \in Seq(Seq(S)) /\ Len(p) = n - 1 /\ \A i \in 1..(n - 1) : p[i] = r[i]
      BY <1>3, <1>5
  <2> HIDE DEF p
  <2>2. n - 1 \notin T
      BY <1>2
  <2>3. PICK f : Flattens(f, p) /\ \A i \in 1..Len(p) : f[i] \in Seq(S)
      BY <2>1, <2>2, <1>5
  <2> DEFINE g == [i \in 1..n |-> IF i < n THEN f[i] ELSE IF n = 1 THEN r[1] ELSE f[n - 1] \o r[n]]
  <2>4. \A i \in 1..(n - 1) : f[i] = IF i = 1 THEN p[i] ELSE f[i - 1] \o p[i]
      BY <2>1, <2>3 DEF Flattens
  <2>5. \A i \in 1..n : g[i] = IF i = 1 THEN r[i] ELSE g[i - 1] \o r[i]
    <3>0. n \in Nat
        BY <1>2
    <3> HIDE DEF T, Good
    <3>1. ASSUME NEW i \in 1..n, i < n  PROVE g[i] = IF i = 1 THEN r[i] ELSE g[i - 1] \o r[i]
      <4>0. i \in 1..(n - 1) /\ (i # 1 => i - 1 \in 1..n /\ i - 1 < n)
          BY <3>0, <3>1
      <4>1. g[i] = f[i] /\ p[i] = r[i] /\ (i # 1 => g[i - 1] = f[i - 1])
        <5>1. g[i] = f[i]
            BY <3>1
        <5>2. i # 1 => g[i - 1] = f[i - 1]
            BY <4>0
        <5>3. p[i] = r[i]
            BY <4>0, <2>1
        <5> QED  BY <5>1, <5>2, <5>3
      <4> QED  BY <4>0, <4>1, <3>0, <3>1, <2>4
    <3>2. g[n] = IF n = 1 THEN r[n] ELSE g[n - 1] \o r[n]
        BY <3>0, <1>5
    <3>3. \A i \in 1..n : i < n \/ i = n
        BY <3>0
    <3> HIDE DEF g
    <3> QED  BY <3>1, <3>2, <3>3
  <2>6. \A i \in 1..n : g[i] \in Seq(S)
    <3>1. \A i \in 1..n : r[i] \in Seq(S)
        BY <1>3
    <3>2. n # 1 => f[n - 1] \o r[n] \in Seq(S)
        BY <3>1, <2>1, <2>3, <1>5
    <3> QED  BY <3>1, <3>2, <2>1, <2>3
  <2>7. DOMAIN g = 1..n /\ g = [i \in 1..n |-> g[i]]
      OBVIOUS
  <2> HIDE DEF g
  <2>8. Flattens(g, r)
      BY <2>5, <2>7, <1>3 DEF Flattens
  <2> QED  BY <2>6, <2>8, <1>3
<1> QED  BY <1>2, <1>4, <1>5

\* Longer sequences are flattened as their beginnings are.
Begins(q, r) == Len(r) <= Len(q) /\ \A i \in 1..Len(r) : r[i] = q[i]

\* So the two functions are alike where both are defined.
LEMMA FlattenedAlike ==
    ASSUME NEW S, NEW q \in Seq(Seq(S)), NEW r \in Seq(Seq(S)), Begins(q, r),
           NEW f, NEW g, Flattens(f, q), Flattens(g, r)
    PROVE  \A i \in 1..Len(r) : f[i] = g[i]
<1> DEFINE T == {i \in 1..Len(r) : f[i] # g[i]}
<1>1. SUFFICES ASSUME T # {}  PROVE FALSE
    OBVIOUS
<1>2. PICK i \in T : \A k \in T : i <= k
  <2>1. T \subseteq Nat
      OBVIOUS
  <2> QED  BY <1>1, <2>1, LeastNat
<1>3. i \in 1..Len(r) /\ i \in 1..Len(q) /\ r[i] = q[i]
    BY <1>2 DEF Begins
<1>4. /\ f[i] = IF i = 1 THEN q[i] ELSE f[i - 1] \o q[i]
      /\ g[i] = IF i = 1 THEN r[i] ELSE g[i - 1] \o r[i]
    BY <1>2, <1>3 DEF Flattens
<1>5. i # 1 => f[i - 1] = g[i - 1]
    BY <1>2
<1> QED  BY <1>2, <1>3, <1>4, <1>5

\* Flattening puts a last sequence behind all the others.
LEMMA FlattenAppend ==
    ASSUME NEW S, NEW q \in Seq(Seq(S)), NEW x \in Seq(S)
    PROVE  /\ FlattenSeq(q) \in Seq(S)
           /\ FlattenSeq(Append(q, x)) = FlattenSeq(q) \o x
<1> DEFINE r == Append(q, x)
           f == CHOOSE f : Flattens(f, q)
           g == CHOOSE g : Flattens(g, r)
<1>1. r \in Seq(Seq(S)) /\ Len(r) = Len(q) + 1 /\ r[Len(q) + 1] = x
      /\ \A i \in 1..Len(q) : r[i] = q[i]
    OBVIOUS
<1>2. /\ FlattenSeq(q) = IF Len(q) = 0 THEN q ELSE f[Len(q)]
      /\ FlattenSeq(r) = IF Len(r) = 0 THEN r ELSE g[Len(r)]
    BY DEF FlattenSeq, Flattens
<1> HIDE DEF r
<1>3. Flattens(f, q) /\ Flattens(g, r)
    BY <1>1, Flattening
<1> HIDE DEF f, g
<1>4. PICK h : Flattens(h, q) /\ \A i \in 1..Len(q) : h[i] \in Seq(S)
    BY Flattening
<1>5. \A i \in 1..Len(q) : f[i] = h[i] /\ g[i] = f[i]
  <2>1. Begins(q, q) /\ Begins(r, q)
      BY <1>1 DEF Begins
  <2>2. \A i \in 1..Len(q) : f[i] = h[i]
      BY <2>1, <1>3, <1>4, FlattenedAlike
  <2>3. \A i \in 1..Len(q) : g[i] = f[i]
      BY <2>1, <1>1, <1>3, FlattenedAlike
  <2> QED  BY <2>2, <2>3
<1>6. Len(q) \in Nat /\ (Len(q) = 0 <=> q = <<>>)
    OBVIOUS
<1>7. FlattenSeq(q) \in Seq(S)
    BY <1>2, <1>4, <1>5, <1>6
<1>8. g[Len(r)] = IF Len(r) = 1 THEN x ELSE g[Len(q)] \o x
  <2>1. Len(r) \in 1..Len(r) /\ Len(r) - 1 = Len(q) /\ r[Len(r)] = x
      BY <1>1, <1>6
  <2>2. g = [i \in 1..Len(r) |-> IF i = 1 THEN r[i] ELSE g[i - 1] \o r[i]]
      BY <1>3 DEF Flattens
  <2>3. g[Len(r)] = IF Len(r) = 1 THEN r[Len(r)] ELSE g[Len(r) - 1] \o r[Len(r)]
      BY <2>1, <2>2
  <2> QED  BY <2>1, <2>3
<1>9. CASE Len(q) = 0
    BY <1>1, <1>2, <1>6, <1>8, <1>9 DEF r
<1>10. CASE Len(q) # 0
  <2>1. Len(r) # 0 /\ Len(r) # 1 /\ Len(q) \in 1..Len(q)
      BY <1>1, <1>6, <1>10
  <2>2. FlattenSeq(r) = f[Len(q)] \o x
      BY <1>2, <1>5, <1>8, <2>1
  <2>3. FlattenSeq(q) = f[Len(q)]
      BY <1>2, <1>10
  <2> QED  BY <1>7, <2>2, <2>3 DEF r
<1> QED  BY <1>7, <1>9, <1>10

-----------------------------------------------------------------------------

(***************************************************************************)
(* WatchesAll speaks of the moment of the poll.  The inductive invariant   *)
(* says what the waiters are at every place of the turn: the open ends     *)
(* among those the turn has passed.                                        *)
(***************************************************************************)
Passed == CASE phase = "in"   -> {}
            [] phase = "out"  -> {"in"}
            [] phase = "err"  -> {"in", "out"}
            [] phase = "poll" -> Channels

InTurn == phase \in {"in", "out", "err", "poll"}

Watching == /\ open \subseteq Channels
            /\ InTurn => waits = open \cap Passed

\* Steps that leave the turn, or the ends and the waiters, as they are.
LEMMA WatchingKept ==
  ASSUME Watching,
         open' \subseteq Channels,
         \/ phase' \notin {"in", "out", "err", "poll"}
         \/ phase' = "in" /\ waits' = {}
         \/ UNCHANGED <<phase, open, waits>>
  PROVE  Watching'
<1>1. CASE phase' \notin {"in", "out", "err", "poll"}
  BY <1>1 DEF Watching, InTurn
<1>2. CASE phase' = "in" /\ waits' = {}
  BY <1>2 DEF Watching, InTurn, Passed
<1>3. CASE UNCHANGED <<phase, open, waits>>
  BY <1>3 DEF Watching, InTurn, Passed
<1> QED BY <1>1, <1>2, <1>3

\* Steps that leave one end for the next.
LEMMA WatchingOn ==
  ASSUME Watching, NEW ch \in Channels, phase = ch, Leave(ch),
         \/ ch \in open /\ waits' = waits \union {ch} /\ open' = open
         \/ open' = open \ {ch} /\ waits' = waits
  PROVE  Watching'
<1> USE DEF Watching, InTurn, Passed, Leave, Channels, Outputs
<1>1. CASE ch = "in"
  BY <1>1
<1>2. CASE ch = "out"
  BY <1>2
<1>3. CASE ch = "err"
  BY <1>3
<1> QED BY <1>1, <1>2, <1>3

LEMMA WatchingStep == Watching /\ [Next]_vars => Watching'
<1> SUFFICES ASSUME Watching, [Next]_vars PROVE Watching'
  OBVIOUS
<1>o. open \subseteq Channels /\ Redirected(job) \subseteq Channels
  BY DEF Watching, Redirected
<1>1. ASSUME NEW j \in Jobs, Setup(j) PROVE Watching'
  BY <1>1, WatchingKept DEF Setup, Cleanup
<1>2. CASE Fork
  BY <1>2, <1>o, WatchingKept DEF Fork
<1>3. CASE ForkFails
  BY <1>3, WatchingKept DEF ForkFails, Cleanup
<1>4. ASSUME NEW ch \in Channels, Skip(ch) PROVE Watching'
  <2>1. open' = open \ {ch} /\ waits' = waits /\ phase = ch /\ Leave(ch)
    BY <1>4 DEF Skip
  <2> QED BY <2>1, WatchingOn
<1>5. CASE Fetch
  <2>1. UNCHANGED <<open, waits>> /\ (phase' = "aborted" \/ UNCHANGED phase)
    BY <1>5 DEF Fetch
  <2> QED BY <2>1, <1>o, WatchingKept
<1>6. CASE FeedNothing
  <2>1. "in" \in Channels /\ "in" \in open /\ phase = "in" /\ AddWaiter("in")
    BY <1>6 DEF FeedNothing, Channels
  <2> QED BY <2>1, WatchingOn DEF AddWaiter
<1>7. CASE Feed
  <2>1. "in" \in Channels /\ "in" \in open /\ phase = "in"
    BY <1>7 DEF Feed, Channels
  <2>2. Again \/ Close("in") \/ AddWaiter("in")
    BY <1>7, Zenon DEF Feed
  <2>3. CASE Again
    BY <2>3, <1>o, WatchingKept DEF Again
  <2>4. CASE Close("in")
    BY <2>1, <2>4, WatchingOn DEF Close
  <2>5. CASE AddWaiter("in")
    BY <2>1, <2>5, WatchingOn DEF AddWaiter
  <2> QED BY <2>2, <2>3, <2>4, <2>5
<1>8. CASE Flush
  <2>1. "in" \in Channels /\ "in" \in open /\ phase = "in"
    BY <1>8 DEF Flush, Channels
  <2>2. Again \/ Close("in") \/ AddWaiter("in")
    BY <1>8, Zenon DEF Flush
  <2>3. CASE Again
    BY <2>3, <1>o, WatchingKept DEF Again
  <2>4. CASE Close("in")
    BY <2>1, <2>4, WatchingOn DEF Close
  <2>5. CASE AddWaiter("in")
    BY <2>1, <2>5, WatchingOn DEF AddWaiter
  <2> QED BY <2>2, <2>3, <2>4, <2>5
<1>9. ASSUME NEW ch \in Outputs, Reap(ch) PROVE Watching'
  <2>1. ch \in Channels /\ ch \in open /\ phase = ch
    BY <1>9 DEF Reap, Channels
  <2>2. Again \/ Close(ch) \/ AddWaiter(ch)
    BY <1>9, Zenon DEF Reap
  <2>3. CASE Again
    BY <2>3, <1>o, WatchingKept DEF Again
  <2>4. CASE Close(ch)
    BY <2>1, <2>4, WatchingOn DEF Close
  <2>5. CASE AddWaiter(ch)
    BY <2>1, <2>5, WatchingOn DEF AddWaiter
  <2> QED BY <2>2, <2>3, <2>4, <2>5
<1>10. CASE NextTurn
  BY <1>10, <1>o, WatchingKept DEF NextTurn
<1>11. CASE Drain
  BY <1>11, <1>o, WatchingKept DEF Drain
<1>12. CASE Wait
  BY <1>12, WatchingKept DEF Wait, Cleanup
<1>13. CASE Fault
  BY <1>13, <1>o, WatchingKept DEF Fault
<1>14. CASE UNCHANGED parentVars
  BY <1>14, <1>o, WatchingKept DEF parentVars
<1>15. CASE Child
  <2>1. UNCHANGED parentVars
    BY <1>15 DEF Child, Call, ChildCloses, ChildReads, ChildReadsEnd, ChildWrites, Exit
  <2> QED BY <2>1, <1>14
<1>16. CASE UNCHANGED vars
  BY <1>16, <1>14 DEF vars
<1> QED
  BY <1>1, <1>2, <1>3, <1>4, <1>5, <1>6, <1>7, <1>8, <1>9, <1>10, <1>11, <1>12,
     <1>13, <1>15, <1>16
  DEF Next, Pump, Poll, PollInterrupted

\* Whatever the child does and however the pipes fill, the interpreter sleeps
\* only with every end it still has open under watch (wait_async_info of
\* posix_do_command): no end can be forgotten, so it cannot sleep through what
\* the child waits for.
THEOREM EveryEndWatched == Spec => []WatchesAll
<1>1. Init => Watching
  BY DEF Init, Watching, InTurn
<1>2. Watching => WatchesAll
  BY DEF Watching, WatchesAll, InTurn, Passed
<1> QED BY <1>1, WatchingStep, <1>2, PTL DEF Spec

-----------------------------------------------------------------------------
(* The lines of bytes: line_length and the loop of drop_crop.              *)

Term == {CR, LF}

LEMMA Bytes == CR # LF /\ Null # CR /\ Null # LF /\ CR \in Byte /\ LF \in Byte
BY ByteAssumption, NullAssumption DEF Byte

LEMMA FirstIs ==
  ASSUME NEW s \in Seq(Byte), NEW b
  PROVE  \/ FirstOf(s, b) = 0 /\ \A i \in 1..Len(s) : s[i] # b
         \/ /\ FirstOf(s, b) \in 1..Len(s) /\ s[FirstOf(s, b)] = b
            /\ \A i \in 1..(FirstOf(s, b) - 1) : s[i] # b
<1> DEFINE I == {i \in 1..Len(s) : s[i] = b}
<1>1. FirstOf(s, b) = IF I # {} THEN Min(I) ELSE 0
  BY DEF FirstOf, SelectInSeq
<1>2. CASE I = {}
  BY <1>1, <1>2
<1>3. CASE I # {}
  <2>1. I \subseteq Nat
    OBVIOUS
  <2>2. \E m \in I : \A k \in I : m <= k
    BY <1>3, <2>1, LeastNat
  <2> DEFINE p == FirstOf(s, b)
  <2>3. p \in I /\ \A k \in I : p <= k
    BY <1>1, <1>3, <2>2 DEF Min
  <2> HIDE DEF p
  <2>4. \A i \in 1..(p - 1) : i \in 1..Len(s) /\ ~(p <= i)
    BY <2>3
  <2>5. p \in 1..Len(s) /\ s[p] = b /\ \A i \in 1..(p - 1) : s[i] # b
    BY <2>3, <2>4
  <2> QED BY <2>5 DEF p
<1> QED BY <1>2, <1>3

LEMMA TwoNats ==
  ASSUME NEW a \in Nat, NEW b \in Nat
  PROVE  /\ Max({a, b}) = IF a >= b THEN a ELSE b
         /\ Min({a, b}) = IF a <= b THEN a ELSE b
BY DEF Max, Min

\* No terminator in it.
LEMMA NoTerminator ==
  ASSUME NEW s \in Seq(Byte), \A i \in 1..Len(s) : s[i] \notin Term, NEW eof \in BOOLEAN
  PROVE  LineLength(s, eof) = [len |-> IF eof THEN Len(s) ELSE -1, term |-> 0]
<1>1. FirstOf(s, CR) = 0 /\ FirstOf(s, LF) = 0
  BY FirstIs DEF Term
<1>2. Max({0, 0}) = 0 /\ Min({0, 0}) = 0
  BY TwoNats
<1> QED BY <1>1, <1>2 DEF LineLength

\* The first terminator is at p.
LEMMA TerminatorAt ==
  ASSUME NEW s \in Seq(Byte), NEW p \in 1..Len(s), s[p] \in Term,
         \A i \in 1..(p - 1) : s[i] \notin Term, NEW eof \in BOOLEAN
  PROVE  LineLength(s, eof) =
           IF p < Len(s)
             THEN [len |-> p - 1, term |-> IF s[p + 1] \in Term \ {s[p]} THEN 2 ELSE 1]
             ELSE [len |-> IF eof THEN p - 1 ELSE -1, term |-> IF eof THEN 1 ELSE 0]
<1> DEFINE ccr == FirstOf(s, CR)
           clf == FirstOf(s, LF)
           one == Max({ccr, clf})
           two == Min({ccr, clf})
<1>0. Len(s) \in Nat /\ CR # LF
  BY Bytes
<1>1. \/ ccr = 0 /\ \A i \in 1..Len(s) : s[i] # CR
      \/ ccr \in 1..Len(s) /\ s[ccr] = CR /\ \A i \in 1..(ccr - 1) : s[i] # CR
  BY FirstIs
<1>2. \/ clf = 0 /\ \A i \in 1..Len(s) : s[i] # LF
      \/ clf \in 1..Len(s) /\ s[clf] = LF /\ \A i \in 1..(clf - 1) : s[i] # LF
  BY FirstIs
<1>3. LineLength(s, eof) =
        CASE two > 0 -> [len |-> two - 1, term |-> IF one = two + 1 THEN 2 ELSE 1]
          [] two = 0 /\ one > 0 /\ (one < Len(s) \/ eof) -> [len |-> one - 1, term |-> 1]
          [] OTHER -> [len |-> IF eof THEN Len(s) ELSE -1, term |-> 0]
  BY DEF LineLength
<1> HIDE DEF ccr, clf
<1>4. ccr \in Nat /\ clf \in Nat
  BY <1>1, <1>2
<1>5. /\ one = IF ccr >= clf THEN ccr ELSE clf
      /\ two = IF ccr <= clf THEN ccr ELSE clf
  BY <1>4, TwoNats
<1> HIDE DEF one, two
<1>6. ASSUME NEW a \in Nat, NEW b \in Nat, NEW A, NEW B, A # B, Term = {A, B}, s[p] = A,
             \/ a = 0 /\ \A i \in 1..Len(s) : s[i] # A
             \/ a \in 1..Len(s) /\ s[a] = A /\ \A i \in 1..(a - 1) : s[i] # A,
             \/ b = 0 /\ \A i \in 1..Len(s) : s[i] # B
             \/ b \in 1..Len(s) /\ s[b] = B /\ \A i \in 1..(b - 1) : s[i] # B
      PROVE  /\ a = p /\ (b = 0 \/ b > p)
             /\ p < Len(s) => (b = p + 1 <=> s[p + 1] \in Term \ {s[p]})
             /\ b # 0 => p < Len(s)
  <2>1. a = p
    <3>1. a # 0 /\ a \in 1..Len(s) /\ s[a] = A
      BY <1>6
    <3>2. ~(p < a)
      BY <1>6, <3>1
    <3>3. ~(a < p)
      BY <1>6, <3>1
    <3> QED BY <3>1, <3>2, <3>3
  <2>2. b = 0 \/ b > p
    <3>1. ASSUME b # 0, b <= p PROVE FALSE
      <4>1. b \in 1..Len(s) /\ s[b] = B
        BY <1>6, <3>1
      <4>2. b # p
        BY <1>6, <4>1
      <4>3. b \in 1..(p - 1)
        BY <3>1, <4>1, <4>2
      <4> QED BY <1>6, <4>1, <4>3
    <3> QED BY <3>1
  <2>3. ASSUME p < Len(s) PROVE b = p + 1 <=> s[p + 1] \in Term \ {s[p]}
    <3>1. CASE b = p + 1
      <4>1. s[b] = B
        BY <1>6, <3>1
      <4> QED BY <1>6, <3>1, <4>1
    <3>2. ASSUME s[p + 1] \in Term \ {s[p]} PROVE b = p + 1
      <4>1. s[p + 1] = B /\ p + 1 \in 1..Len(s)
        BY <1>6, <2>3, <3>2
      <4>2. b # 0
        BY <1>6, <4>1
      <4>3. ~(p + 1 < b)
        BY <1>6, <4>1
      <4> QED BY <2>2, <4>2, <4>3
    <3> QED BY <3>1, <3>2
  <2>4. b # 0 => p < Len(s)
    BY <1>6, <2>2
  <2> QED BY <2>1, <2>2, <2>3, <2>4
<1>7. \/ s[p] = CR /\ ccr = p /\ (clf = 0 \/ clf > p)
         /\ (p < Len(s) => (clf = p + 1 <=> s[p + 1] \in Term \ {s[p]})) /\ (clf # 0 => p < Len(s))
      \/ s[p] = LF /\ clf = p /\ (ccr = 0 \/ ccr > p)
         /\ (p < Len(s) => (ccr = p + 1 <=> s[p + 1] \in Term \ {s[p]})) /\ (ccr # 0 => p < Len(s))
  <2>1. CASE s[p] = CR
    <3>1. Term = {CR, LF}
      BY DEF Term
    <3> QED BY <2>1, <3>1, <1>0, <1>1, <1>2, <1>4, <1>6
  <2>2. CASE s[p] = LF
    <3>1. Term = {LF, CR}
      BY DEF Term
    <3> QED BY <2>2, <3>1, <1>0, <1>1, <1>2, <1>4, <1>6
  <2> QED BY <2>1, <2>2 DEF Term
<1>8. CASE two > 0
  <2>1. two = p /\ p < Len(s) /\ (one = p + 1 <=> s[p + 1] \in Term \ {s[p]})
    BY <1>4, <1>5, <1>7, <1>8
  <2> QED BY <1>3, <1>8, <2>1
<1>9. CASE ~(two > 0)
  <2>1. two = 0 /\ one = p /\ (p < Len(s) => s[p + 1] \notin Term \ {s[p]})
    BY <1>4, <1>5, <1>7, <1>9
  <2>2. p > 0 /\ (p < Len(s) \/ p = Len(s))
    BY <1>0
  <2> HIDE DEF Term
  <2>3. CASE p < Len(s)
    <3>1. LineLength(s, eof) = [len |-> p - 1, term |-> 1]
      BY <1>3, <2>1, <2>2, <2>3
    <3> QED BY <2>1, <2>3, <3>1
  <2>4. CASE p = Len(s)
    BY <1>3, <2>1, <2>2, <2>4, <1>0
  <2> QED BY <2>2, <2>3, <2>4
<1> QED BY <1>8, <1>9

LEMMA Terminators ==
  ASSUME NEW s \in Seq(Byte)
  PROVE  \/ \A i \in 1..Len(s) : s[i] \notin Term
         \/ \E p \in 1..Len(s) : s[p] \in Term /\ \A i \in 1..(p - 1) : s[i] \notin Term
<1> DEFINE I == {i \in 1..Len(s) : s[i] \in Term}
<1>1. CASE I = {}
  BY <1>1
<1>2. CASE I # {}
  <2>1. I \subseteq Nat
    OBVIOUS
  <2>2. PICK p \in I : \A k \in I : p <= k
    BY <1>2, <2>1, LeastNat
  <2>3. \A i \in 1..(p - 1) : i \in 1..Len(s) /\ ~(p <= i)
    BY <2>2
  <2> QED BY <2>2, <2>3
<1> QED BY <1>1, <1>2

\* What is behind the first i elements of s.
Rest(s, i) == SubSeq(s, i + 1, Len(s))

LEMMA RestIs ==
  ASSUME NEW S, NEW s \in Seq(S), NEW i \in 0..Len(s)
  PROVE  /\ Rest(s, i) \in Seq(S) /\ Len(Rest(s, i)) = Len(s) - i
         /\ \A k \in 1..(Len(s) - i) : Rest(s, i)[k] = s[i + k]
         /\ Rest(s, i) = <<>> <=> i = Len(s)
<1>1. Rest(s, i) \in Seq(S) /\ Len(Rest(s, i)) = Len(s) - i
      /\ \A k \in 1..(Len(s) - i) : Rest(s, i)[k] = s[i + k]
  BY DEF Rest
<1>2. Rest(s, i) = <<>> <=> Len(Rest(s, i)) = 0
  BY <1>1
<1> QED BY <1>1, <1>2

LEMMA PieceIs ==
  ASSUME NEW S, NEW s \in Seq(S), NEW m \in 1..(Len(s) + 1), NEW n \in (m - 1)..Len(s)
  PROVE  /\ SubSeq(s, m, n) \in Seq(S) /\ Len(SubSeq(s, m, n)) = n - m + 1
         /\ \A j \in 1..(n - m + 1) : SubSeq(s, m, n)[j] = s[m + j - 1]
<1>1. m \in Int /\ n \in Int /\ \A i \in m..n : s[i] \in S
  OBVIOUS
<1> QED BY <1>1, SubSeqProperties

LEMMA AppendIs ==
  ASSUME NEW S, NEW s \in Seq(S), NEW x \in S
  PROVE  /\ Append(s, x) = s \o <<x>> /\ <<x>> \in Seq(S) /\ Append(s, x) \in Seq(S)
         /\ Len(Append(s, x)) = Len(s) + 1
OBVIOUS

LEMMA RestRest ==
  ASSUME NEW S, NEW s \in Seq(S), NEW i \in 0..Len(s), NEW k \in 0..(Len(s) - i)
  PROVE  Rest(Rest(s, i), k) = Rest(s, i + k)
<1> DEFINE r == Rest(s, i)
           a == Rest(r, k)
           b == Rest(s, i + k)
<1>0. Len(s) \in Nat /\ i + k \in 0..Len(s)
  OBVIOUS
<1>1. r \in Seq(S) /\ Len(r) = Len(s) - i /\ \A j \in 1..(Len(s) - i) : r[j] = s[i + j]
  BY RestIs
<1>2. b \in Seq(S) /\ Len(b) = Len(s) - (i + k) /\ \A j \in 1..(Len(s) - (i + k)) : b[j] = s[i + k + j]
  BY <1>0, RestIs
<1> HIDE DEF r, b
<1>3. a \in Seq(S) /\ Len(a) = Len(r) - k /\ \A j \in 1..(Len(r) - k) : a[j] = r[k + j]
  <2>1. k \in 0..Len(r)
    BY <1>1
  <2> QED BY <1>1, <2>1, RestIs
<1> HIDE DEF a
<1>4. Len(a) = Len(b)
  BY <1>0, <1>1, <1>2, <1>3
<1>5. ASSUME NEW j \in 1..Len(a) PROVE a[j] = b[j]
  <2>1. a[j] = r[k + j] /\ k + j \in 1..(Len(s) - i)
    BY <1>0, <1>1, <1>3
  <2>2. r[k + j] = s[i + (k + j)]
    BY <2>1, <1>1
  <2>3. b[j] = s[i + k + j]
    BY <1>0, <1>1, <1>2, <1>3, SMTT(30)
  <2> QED BY <2>1, <2>2, <2>3, <1>0, <1>1, <1>3
<1> QED BY <1>2, <1>3, <1>4, <1>5, SeqEqual DEF a, b, r

LEMMA PieceOfRest ==
  ASSUME NEW S, NEW s \in Seq(S), NEW i \in 0..Len(s), NEW k \in 0..(Len(s) - i)
  PROVE  SubSeq(s, i + 1, i + k) = SubSeq(Rest(s, i), 1, k)
<1> DEFINE r == Rest(s, i)
           u == SubSeq(s, i + 1, i + k)
           v == SubSeq(r, 1, k)
<1>0. Len(s) \in Nat /\ i \in Nat /\ k \in Nat
  OBVIOUS
<1>1. r \in Seq(S) /\ Len(r) = Len(s) - i /\ \A j \in 1..(Len(s) - i) : r[j] = s[i + j]
  BY RestIs
<1>2. u \in Seq(S) /\ Len(u) = k /\ \A j \in 1..k : u[j] = s[i + j]
  <2>1. i + 1 \in 1..(Len(s) + 1) /\ i + k \in ((i + 1) - 1)..Len(s)
    BY <1>0
  <2>2. /\ u \in Seq(S) /\ Len(u) = i + k - (i + 1) + 1
        /\ \A j \in 1..(i + k - (i + 1) + 1) : u[j] = s[i + 1 + j - 1]
    BY <2>1, PieceIs
  <2> HIDE DEF u
  <2>3. i + k - (i + 1) + 1 = k /\ \A j \in 1..k : i + 1 + j - 1 = i + j
    BY <1>0
  <2> QED BY <2>2, <2>3
<1> HIDE DEF r
<1>3. v \in Seq(S) /\ Len(v) = k /\ \A j \in 1..k : v[j] = r[j]
  <2>1. 1 \in 1..(Len(r) + 1) /\ k \in (1 - 1)..Len(r)
    BY <1>0, <1>1
  <2>2. /\ v \in Seq(S) /\ Len(v) = k - 1 + 1
        /\ \A j \in 1..(k - 1 + 1) : v[j] = r[1 + j - 1]
    BY <2>1, <1>1, PieceIs
  <2> HIDE DEF v
  <2>3. k - 1 + 1 = k /\ \A j \in 1..k : 1 + j - 1 = j
    BY <1>0
  <2> QED BY <2>2, <2>3
<1> HIDE DEF u, v
<1>4. ASSUME NEW j \in 1..Len(u) PROVE u[j] = v[j]
  <2>1. j \in 1..k /\ j \in 1..(Len(s) - i)
    BY <1>0, <1>2
  <2> QED BY <2>1, <1>1, <1>2, <1>3
<1> QED BY <1>2, <1>3, <1>4, SeqEqual DEF u, v, r

LEMMA RestConcat ==
  ASSUME NEW S, NEW s \in Seq(S), NEW t \in Seq(S), NEW i \in 0..Len(s)
  PROVE  Rest(s \o t, i) = Rest(s, i) \o t
<1> DEFINE c == s \o t
           r == Rest(s, i)
           a == Rest(c, i)
           b == r \o t
<1>0. Len(s) \in Nat /\ Len(t) \in Nat
  OBVIOUS
<1>1. /\ c \in Seq(S) /\ Len(c) = Len(s) + Len(t)
      /\ \A j \in 1..(Len(s) + Len(t)) : c[j] = IF j <= Len(s) THEN s[j] ELSE t[j - Len(s)]
  BY ConcatProperties
<1>2. r \in Seq(S) /\ Len(r) = Len(s) - i /\ \A j \in 1..(Len(s) - i) : r[j] = s[i + j]
  BY RestIs
<1> HIDE DEF c, r
<1>3. a \in Seq(S) /\ Len(a) = Len(c) - i /\ \A j \in 1..(Len(c) - i) : a[j] = c[i + j]
  <2>1. i \in 0..Len(c)
    BY <1>0, <1>1
  <2> QED BY <1>1, <2>1, RestIs, ZenonT(30)
<1>4. /\ b \in Seq(S) /\ Len(b) = Len(r) + Len(t)
      /\ \A j \in 1..(Len(r) + Len(t)) : b[j] = IF j <= Len(r) THEN r[j] ELSE t[j - Len(r)]
  BY <1>2, ConcatProperties
<1> HIDE DEF a, b
<1>5. Len(a) = Len(b)
  BY <1>0, <1>1, <1>2, <1>3, <1>4
<1>6. ASSUME NEW j \in 1..Len(a) PROVE a[j] = b[j]
  <2>1. a[j] = c[i + j] /\ i + j \in 1..(Len(s) + Len(t))
    BY <1>0, <1>1, <1>3
  <2>2. CASE i + j <= Len(s)
    <3>1. c[i + j] = s[i + j] /\ j \in 1..(Len(s) - i)
      BY <2>1, <2>2, <1>0, <1>1
    <3>2. b[j] = r[j]
      <4>1. j \in 1..(Len(r) + Len(t)) /\ j <= Len(r)
        BY <3>1, <1>0, <1>2
      <4> QED BY <4>1, <1>4
    <3> QED BY <2>1, <3>1, <3>2, <1>2
  <2>3. CASE i + j > Len(s)
    <3>1. c[i + j] = t[i + j - Len(s)]
      BY <2>1, <2>3, <1>0, <1>1
    <3>2. b[j] = t[j - Len(r)] /\ j - Len(r) = i + j - Len(s)
      BY <2>1, <2>3, <1>0, <1>1, <1>2, <1>3, <1>4
    <3> QED BY <2>1, <3>1, <3>2
  <2> QED BY <2>1, <2>2, <2>3, <1>0
<1> QED BY <1>3, <1>4, <1>5, <1>6, SeqEqual DEF a, b, c, r

\* The loop stops in front of a line that is not whole yet.
Stops(s, eof) == s = <<>> \/ LineLength(s, eof).len < 0
After(s, eof) == LineLength(s, eof).len + LineLength(s, eof).term
FirstLine(s, eof) == SubSeq(s, 1, LineLength(s, eof).len)

LEMMA LineIs ==
  ASSUME NEW s \in Seq(Byte), NEW eof \in BOOLEAN
  PROVE  /\ LineLength(s, eof).len \in Int
         /\ ~Stops(s, eof) => After(s, eof) \in 1..Len(s) /\ FirstLine(s, eof) \in Seq(Byte)
<1>0. Len(s) \in Nat
  OBVIOUS
<1>1. CASE \A i \in 1..Len(s) : s[i] \notin Term
  <2>1. LineLength(s, eof) = [len |-> IF eof THEN Len(s) ELSE -1, term |-> 0]
    BY <1>1, NoTerminator
  <2>2. s # <<>> => Len(s) > 0
    OBVIOUS
  <2> QED BY <1>0, <2>1, <2>2 DEF Stops, After, FirstLine
<1>2. ASSUME NEW p \in 1..Len(s), s[p] \in Term, \A i \in 1..(p - 1) : s[i] \notin Term
      PROVE  /\ LineLength(s, eof).len \in Int
             /\ ~Stops(s, eof) => After(s, eof) \in 1..Len(s) /\ FirstLine(s, eof) \in Seq(Byte)
  <2>1. LineLength(s, eof) =
           IF p < Len(s)
             THEN [len |-> p - 1, term |-> IF s[p + 1] \in Term \ {s[p]} THEN 2 ELSE 1]
             ELSE [len |-> IF eof THEN p - 1 ELSE -1, term |-> IF eof THEN 1 ELSE 0]
    BY <1>2, TerminatorAt
  <2> DEFINE l == LineLength(s, eof)
  <2>2. \/ p < Len(s) /\ l.len = p - 1 /\ l.term \in {1, 2}
        \/ p = Len(s) /\ l.len = p - 1 /\ l.term = 1
        \/ p = Len(s) /\ l.len = -1
    BY <2>1, <1>0
  <2> HIDE DEF l
  <2>3. l.len \in Int /\ (l.len >= 0 => l.len + l.term \in 1..Len(s) /\ l.len \in 0..Len(s))
    BY <2>2, <1>0
  <2>4. l.len \in 0..Len(s) => SubSeq(s, 1, l.len) \in Seq(Byte)
    OBVIOUS
  <2> QED BY <2>3, <2>4 DEF l, Stops, After, FirstLine
<1> QED BY <1>1, <1>2, Terminators

CutType == [lines : Seq(Seq(Byte)), rest : Seq(Byte)]

\* A turn of the loop in front of r, when more is what the turns behind it find.
Turn(r, eof, more) ==
  IF Stops(r, eof) THEN [lines |-> <<>>, rest |-> r]
  ELSE [more EXCEPT !.lines = <<FirstLine(r, eof)>> \o @]

LEMMA TurnIs ==
  ASSUME NEW r \in Seq(Byte), NEW eof \in BOOLEAN, NEW more,
         ~Stops(r, eof) => more \in CutType
  PROVE  /\ Turn(r, eof, more) \in CutType
         /\ ~Stops(r, eof) => /\ Turn(r, eof, more).lines = <<FirstLine(r, eof)>> \o more.lines
                              /\ Turn(r, eof, more).rest = more.rest
<1> DEFINE first == FirstLine(r, eof)
<1>1. CASE Stops(r, eof)
  BY <1>1 DEF Turn, CutType
<1>2. CASE ~Stops(r, eof)
  <2>1. first \in Seq(Byte)
    BY <1>2, LineIs
  <2>2. Turn(r, eof, more) = [more EXCEPT !.lines = <<first>> \o @] /\ more \in CutType
    BY <1>2 DEF Turn
  <2> HIDE DEF first
  <2>3. <<first>> \o more.lines \in Seq(Seq(Byte))
    BY <2>1, <2>2 DEF CutType
  <2> DEFINE all == <<first>> \o more.lines
  <2>4. Turn(r, eof, more) = [more EXCEPT !.lines = all]
    BY <2>2
  <2> HIDE DEF all
  <2>5. Turn(r, eof, more) \in CutType /\ Turn(r, eof, more).lines = all
        /\ Turn(r, eof, more).rest = more.rest
    BY <2>2, <2>3, <2>4 DEF CutType, all
  <2> QED BY <2>5 DEF all, first
<1> QED BY <1>1, <1>2

\* The function Cut is defined by.
Cuts(f, s, eof) ==
  f = [i \in 0..Len(s) |-> Turn(Rest(s, i), eof, f[i + After(Rest(s, i), eof)])]

LEMMA Behind ==
  ASSUME NEW s \in Seq(Byte), NEW eof \in BOOLEAN, NEW i \in 0..Len(s),
         ~Stops(Rest(s, i), eof)
  PROVE  i + After(Rest(s, i), eof) \in (i + 1)..Len(s)
<1> DEFINE r == Rest(s, i)
<1>1. r \in Seq(Byte) /\ Len(r) = Len(s) - i
  BY RestIs
<1> HIDE DEF r
<1>2. After(r, eof) \in 1..Len(r)
  BY <1>1, LineIs DEF r
<1>3. Len(s) \in Nat
  OBVIOUS
<1> QED BY <1>1, <1>2, <1>3 DEF r

LEMMA Cutting ==
  ASSUME NEW s \in Seq(Byte), NEW eof \in BOOLEAN
  PROVE  \E f : Cuts(f, s, eof) /\ \A i \in 0..Len(s) : f[i] \in CutType
<1> DEFINE n == Len(s)
           Body(g, i) == Turn(Rest(s, i), eof, g[i + After(Rest(s, i), eof)])
           Good(k) == \E g : \A i \in (n - k)..n : g[i] = Body(g, i) /\ g[i] \in CutType
           T == {k \in 0..n : ~Good(k)}
<1>0. n \in Nat
  OBVIOUS
<1> HIDE DEF n
<1>1. T = {}
  <2>1. SUFFICES ASSUME T # {} PROVE FALSE
    OBVIOUS
  <2>2. PICK k \in T : \A j \in T : k <= j
    <3>1. T \subseteq Nat
      BY <1>0
    <3> QED BY <2>1, <3>1, LeastNat
  <2>3. PICK g : \A i \in (n - k + 1)..n : g[i] = Body(g, i) /\ g[i] \in CutType
    <3>1. CASE k = 0
      BY <3>1, <1>0
    <3>2. CASE k # 0
      <4>1. k - 1 \in 0..n /\ k - 1 \notin T /\ n - (k - 1) = n - k + 1
        BY <2>2, <3>2, <1>0
      <4>2. Good(k - 1)
        BY <4>1
      <4> QED BY <4>1, <4>2
    <3> QED BY <3>1, <3>2
  <2> DEFINE m == n - k
             h == [i \in m..n |-> IF i = m THEN Body(g, m) ELSE g[i]]
  <2>4. m \in 0..n /\ m = n - k /\ m + 1 = n - k + 1
    BY <2>2, <1>0
  <2> HIDE DEF m
  <2>5. ASSUME NEW i \in m..n PROVE Body(h, i) = Body(g, i)
    <3> DEFINE r == Rest(s, i)
               to == i + After(r, eof)
    <3>0. i \in 0..n
      BY <2>4, <2>5, <1>0
    <3>1. CASE Stops(r, eof)
      BY <3>1 DEF Turn
    <3>2. CASE ~Stops(r, eof)
      <4>1. to \in (i + 1)..n
        BY <3>0, <3>2, Behind DEF n
      <4> HIDE DEF to, r
      <4>2. to \in m..n /\ to # m
        BY <4>1, <2>4, <1>0
      <4>3. h[to] = g[to]
        BY <4>2
      <4> HIDE DEF h
      <4>4. Turn(r, eof, h[to]) = Turn(r, eof, g[to])
        BY <4>3
      <4> QED BY <4>4 DEF to, r
    <3> QED BY <3>1, <3>2
  <2>6. ASSUME NEW i \in m..n PROVE Body(g, i) \in CutType
    <3> DEFINE r == Rest(s, i)
               to == i + After(r, eof)
    <3>0. i \in 0..n /\ r \in Seq(Byte)
      <4>1. i \in 0..n
        BY <2>4, <2>6, <1>0
      <4> QED BY <4>1, RestIs DEF n
    <3>1. ~Stops(r, eof) => g[to] \in CutType
      <4>1. SUFFICES ASSUME ~Stops(r, eof) PROVE g[to] \in CutType
        OBVIOUS
      <4>2. to \in (i + 1)..n
        BY <3>0, <4>1, Behind DEF n
      <4> HIDE DEF to, r
      <4>3. to \in (n - k + 1)..n
        BY <4>2, <2>4, <1>0
      <4> QED BY <4>3, <2>3
    <3> HIDE DEF to, r
    <3>2. Turn(r, eof, g[to]) \in CutType
      BY <3>0, <3>1, TurnIs
    <3> QED BY <3>2 DEF to, r
  <2>7. ASSUME NEW i \in m..n PROVE h[i] = Body(g, i)
    <3>1. i = m \/ i \in (n - k + 1)..n
      BY <2>4, <1>0
    <3> HIDE DEF Body
    <3> QED BY <2>3, <3>1, <2>4, <1>0
  <2> HIDE DEF h
  <2>8. \A i \in m..n : h[i] = Body(h, i) /\ h[i] \in CutType
    <3> HIDE DEF Body
    <3> QED BY <2>5, <2>6, <2>7
  <2>9. Good(k)
    <3> HIDE DEF Body
    <3> QED BY <2>8, <2>4
  <2> QED BY <2>2, <2>9
<1>2. Good(n)
  <2> HIDE DEF Good
  <2> QED BY <1>0, <1>1
<1>3. PICK g : \A i \in 0..n : g[i] = Body(g, i) /\ g[i] \in CutType
  <2>1. n - n = 0
    BY <1>0
  <2> QED BY <1>2, <2>1
<1> DEFINE f == [i \in 0..n |-> g[i]]
<1>4. ASSUME NEW i \in 0..n PROVE f[i] = Body(f, i)
  <2> DEFINE r == Rest(s, i)
             to == i + After(r, eof)
  <2>1. Body(f, i) = Body(g, i)
    <3>1. CASE Stops(r, eof)
      BY <3>1 DEF Turn
    <3>2. CASE ~Stops(r, eof)
      <4>1. to \in (i + 1)..n
        BY <1>4, <3>2, Behind DEF n
      <4> HIDE DEF to, r
      <4>2. to \in 0..n
        BY <4>1, <1>0
      <4>3. f[to] = g[to]
        BY <4>2
      <4> HIDE DEF f
      <4>4. Turn(r, eof, f[to]) = Turn(r, eof, g[to])
        BY <4>3
      <4> QED BY <4>4 DEF to, r
    <3> QED BY <3>1, <3>2
  <2>2. f[i] = g[i]
    OBVIOUS
  <2> HIDE DEF f, Body
  <2> QED BY <2>1, <2>2, <1>3
<1>5. DOMAIN f = 0..n /\ f = [i \in 0..n |-> f[i]] /\ \A i \in 0..n : f[i] \in CutType
  BY <1>3
<1> HIDE DEF f
<1>6. f = [i \in 0..n |-> Body(f, i)]
  <2> HIDE DEF Body
  <2> QED BY <1>4, <1>5
<1> QED BY <1>5, <1>6 DEF Cuts, n

\* What is cut from the rest does not depend on what is in front of it.
LEMMA CutAlike ==
  ASSUME NEW s \in Seq(Byte), NEW eof \in BOOLEAN, NEW k \in 0..Len(s),
         NEW f, NEW g, Cuts(f, s, eof), Cuts(g, Rest(s, k), eof)
  PROVE  \A i \in 0..(Len(s) - k) : f[k + i] = g[i]
<1> DEFINE n == Len(s) - k
           q == Rest(s, k)
           T == {j \in 0..n : f[k + (n - j)] # g[n - j]}
<1>0. n \in Nat /\ Len(s) \in Nat /\ k \in Nat /\ Len(s) = n + k
  OBVIOUS
<1>1. q \in Seq(Byte) /\ Len(q) = n
  BY RestIs
<1> HIDE DEF q
<1>2. /\ f = [i \in 0..Len(s) |-> Turn(Rest(s, i), eof, f[i + After(Rest(s, i), eof)])]
      /\ g = [i \in 0..n |-> Turn(Rest(q, i), eof, g[i + After(Rest(q, i), eof)])]
  BY <1>1 DEF Cuts, q
<1>3. \A i \in 0..n : Rest(q, i) = Rest(s, k + i)
  BY RestRest DEF q
<1> HIDE DEF n
<1>4. T = {}
  <2>1. SUFFICES ASSUME T # {} PROVE FALSE
    OBVIOUS
  <2>2. PICK j \in T : \A m \in T : j <= m
    <3>1. T \subseteq Nat
      BY <1>0
    <3> QED BY <2>1, <3>1, LeastNat
  <2> DEFINE i == n - j
             r == Rest(q, i)
  <2>3. i \in 0..n /\ k + i \in 0..Len(s)
    BY <2>2, <1>0
  <2>4. f[k + i] = Turn(r, eof, f[k + i + After(r, eof)]) /\ g[i] = Turn(r, eof, g[i + After(r, eof)])
    <3> HIDE DEF i
    <3>1. f[k + i] = Turn(Rest(s, k + i), eof, f[k + i + After(Rest(s, k + i), eof)])
      BY <2>3, <1>2
    <3>2. g[i] = Turn(r, eof, g[i + After(r, eof)])
      BY <2>3, <1>2
    <3> QED BY <3>1, <3>2, <2>3, <1>3
  <2>5. CASE Stops(r, eof)
    <3>1. f[k + i] = g[i]
      BY <2>4, <2>5 DEF Turn
    <3> QED BY <3>1, <2>2
  <2>6. CASE ~Stops(r, eof)
    <3> DEFINE a == After(r, eof)
    <3>1. i + a \in (i + 1)..n
      BY <2>3, <2>6, <1>1, Behind
    <3>2. After(r, eof) \in Int
      <4>1. r \in Seq(Byte)
        BY <2>3, <1>1, RestIs
      <4>2. After(r, eof) \in 1..Len(r)
        BY <4>1, <2>6, LineIs
      <4> QED BY <4>1, <4>2
    <3> HIDE DEF a
    <3>3. a \in Int
      BY <3>2 DEF a
    <3> HIDE DEF r
    <3>4. j - a \in 0..n /\ j - a < j /\ n - (j - a) = i + a /\ k + (n - (j - a)) = k + i + a
      BY <3>1, <3>3, <2>2, <1>0
    <3>5. j - a \notin T
      BY <3>4, <2>2, <1>0
    <3>6. f[k + i + a] = g[i + a]
      BY <3>4, <3>5
    <3>7. f[k + i] = g[i]
      BY <3>6, <2>4 DEF a
    <3> QED BY <3>7, <2>2
  <2> QED BY <2>5, <2>6
<1>5. ASSUME NEW i \in 0..n PROVE f[k + i] = g[i]
  <2>1. n - i \in 0..n /\ n - (n - i) = i
    BY <1>0
  <2>2. n - i \notin T
    BY <1>4
  <2> QED BY <2>1, <2>2
<1> QED BY <1>5 DEF n

\* The loop of drop_crop: nothing, or the first line and what is cut from behind it.
LEMMA CutIs ==
  ASSUME NEW s \in Seq(Byte), NEW eof \in BOOLEAN
  PROVE  /\ Cut(s, eof) \in CutType
         /\ Cut(s, eof) = Turn(s, eof, Cut(Rest(s, After(s, eof)), eof))
<1> DEFINE f == CHOOSE f : Cuts(f, s, eof)
<1>0. Len(s) \in Nat /\ 0 \in 0..Len(s) /\ Rest(s, 0) = s
  BY SubSeqFull DEF Rest
<1>1. Cut(s, eof) = f[0]
  BY Zenon DEF Cut, Cuts, Turn, Stops, After, FirstLine, Rest
<1>2. Cuts(f, s, eof)
  BY Cutting
<1> HIDE DEF f
<1>3. f[0] \in CutType
  <2>1. PICK g : Cuts(g, s, eof) /\ \A i \in 0..Len(s) : g[i] \in CutType
    BY Cutting
  <2>2. \A i \in 0..(Len(s) - 0) : f[0 + i] = g[i]
    BY <1>0, <1>2, <2>1, CutAlike
  <2>3. 0 \in 0..(Len(s) - 0) /\ 0 + 0 = 0
    BY <1>0
  <2>4. f[0] = g[0]
    BY <2>2, <2>3
  <2> QED BY <2>1, <2>4, <1>0
<1>4. f[0] = Turn(s, eof, f[0 + After(s, eof)])
  <2>1. f[0] = Turn(Rest(s, 0), eof, f[0 + After(Rest(s, 0), eof)])
    BY <1>0, <1>2 DEF Cuts
  <2> QED BY <1>0, <2>1
<1>5. ASSUME ~Stops(s, eof) PROVE f[0 + After(s, eof)] = Cut(Rest(s, After(s, eof)), eof)
  <2> DEFINE k == After(s, eof)
             r == Rest(s, k)
             g == CHOOSE g : Cuts(g, r, eof)
  <2>1. k \in 1..Len(s)
    BY <1>5, LineIs
  <2> HIDE DEF k
  <2>2. r \in Seq(Byte)
    BY <2>1, <1>0, RestIs
  <2> HIDE DEF r
  <2>3. Cut(r, eof) = g[0]
    BY DEF Cut, Cuts, Turn, Stops, After, FirstLine, Rest
  <2>4. Cuts(g, r, eof)
    BY <2>2, Cutting
  <2> HIDE DEF g
  <2>5. \A i \in 0..(Len(s) - k) : f[k + i] = g[i]
    BY <1>0, <1>2, <2>1, <2>4, CutAlike DEF r
  <2>6. 0 \in 0..(Len(s) - k) /\ k + 0 = k /\ 0 + k = k
    BY <1>0, <2>1
  <2>7. f[0 + k] = Cut(r, eof)
    BY <2>3, <2>5, <2>6
  <2> QED BY <2>7 DEF k, r
<1>6. Turn(s, eof, f[0 + After(s, eof)]) = Turn(s, eof, Cut(Rest(s, After(s, eof)), eof))
  <2>1. CASE Stops(s, eof)
    BY <2>1 DEF Turn
  <2>2. CASE ~Stops(s, eof)
    BY <2>2, <1>5
  <2> QED BY <2>1, <2>2
<1> QED BY <1>1, <1>3, <1>4, <1>6

\* A line that is whole stays what it is when more bytes come.
LEMMA LineAhead ==
  ASSUME NEW s \in Seq(Byte), NEW t \in Seq(Byte), NEW yes \in BOOLEAN, NEW no \in BOOLEAN,
         yes, ~no, ~Stops(s, no)
  PROVE  /\ ~Stops(s \o t, yes) /\ After(s \o t, yes) = After(s, no)
         /\ FirstLine(s \o t, yes) = FirstLine(s, no)
<1> DEFINE c == s \o t
<1>0. Len(s) \in Nat /\ Len(t) \in Nat
  OBVIOUS
<1>1. /\ c \in Seq(Byte) /\ Len(c) = Len(s) + Len(t)
      /\ \A i \in 1..(Len(s) + Len(t)) : c[i] = IF i <= Len(s) THEN s[i] ELSE t[i - Len(s)]
  BY ConcatProperties
<1> HIDE DEF c
<1>2. PICK p \in 1..Len(s) : s[p] \in Term /\ \A i \in 1..(p - 1) : s[i] \notin Term
  <2>1. CASE \A i \in 1..Len(s) : s[i] \notin Term
    <3>1. LineLength(s, no).len = -1
      BY <2>1, NoTerminator
    <3> QED BY <3>1 DEF Stops
  <2> QED BY <2>1, Terminators
<1>3. LineLength(s, no) =
           IF p < Len(s)
             THEN [len |-> p - 1, term |-> IF s[p + 1] \in Term \ {s[p]} THEN 2 ELSE 1]
             ELSE [len |-> IF no THEN p - 1 ELSE -1, term |-> IF no THEN 1 ELSE 0]
  BY <1>2, TerminatorAt
<1>4. p < Len(s)
  BY <1>3 DEF Stops
<1>5. p \in 1..Len(c) /\ c[p] = s[p] /\ c[p + 1] = s[p + 1] /\ p < Len(c)
      /\ \A i \in 1..(p - 1) : c[i] = s[i]
  BY <1>0, <1>1, <1>4
<1>6. LineLength(c, yes) = LineLength(s, no)
  <2>1. c[p] \in Term /\ \A i \in 1..(p - 1) : c[i] \notin Term
    BY <1>2, <1>5
  <2>2. LineLength(c, yes) =
           IF p < Len(c)
             THEN [len |-> p - 1, term |-> IF c[p + 1] \in Term \ {c[p]} THEN 2 ELSE 1]
             ELSE [len |-> IF yes THEN p - 1 ELSE -1, term |-> IF yes THEN 1 ELSE 0]
    BY <1>1, <1>5, <2>1, TerminatorAt
  <2> HIDE DEF Term
  <2> QED BY <2>2, <1>3, <1>4, <1>5
<1>7. LineLength(s, no).len = p - 1
  BY <1>3, <1>4
<1>8. SubSeq(c, 1, p - 1) = SubSeq(s, 1, p - 1)
  <2>1. CASE p = 1
    BY <2>1, SubSeqEmpty
  <2>2. CASE p > 1
    <3>1. 1 \in 1..Len(s) /\ p - 1 \in 1..Len(s)
      BY <2>2, <1>0
    <3> QED BY <3>1, SubSeqOfConcat1 DEF c
  <2> QED BY <2>1, <2>2
<1>9. c # <<>> /\ ~(p - 1 < 0)
  BY <1>1, <1>5
<1> QED BY <1>6, <1>7, <1>8, <1>9 DEF Stops, After, FirstLine, c

\* It makes no difference to the lines where the reads cut the bytes.
LEMMA CutOn ==
  ASSUME NEW s \in Seq(Byte), NEW t \in Seq(Byte), NEW yes \in BOOLEAN, NEW no \in BOOLEAN,
         yes, ~no
  PROVE  Cut(s \o t, yes).lines = Cut(s, no).lines \o Cut(Cut(s, no).rest \o t, yes).lines
<1> DEFINE Whole(r) == Cut(r \o t, yes).lines
                         = Cut(r, no).lines \o Cut(Cut(r, no).rest \o t, yes).lines
           T == {n \in Nat : \E r \in Seq(Byte) : Len(r) = n /\ ~Whole(r)}
<1>1. SUFFICES ASSUME T # {} PROVE FALSE
  BY LenProperties
<1>2. PICK n \in T : \A m \in T : n <= m
  BY <1>1, LeastNat
<1>3. PICK r \in Seq(Byte) : Len(r) = n /\ ~Whole(r)
  BY <1>2
<1> DEFINE a == Cut(r, no)
           b == Cut(r \o t, yes)
<1>4. a \in CutType /\ b \in CutType /\ r \o t \in Seq(Byte)
  <2>1. r \o t \in Seq(Byte)
    BY ConcatProperties
  <2>2. a \in CutType
    BY CutIs
  <2>3. b \in CutType
    BY <2>1, CutIs
  <2> QED BY <2>1, <2>2, <2>3
<1>5. CASE Stops(r, no)
  <2>1. a = [lines |-> <<>>, rest |-> r]
    BY <1>5, CutIs DEF Turn
  <2>2. a.lines = <<>> /\ a.rest = r
    BY <2>1
  <2> HIDE DEF a, b
  <2>3. b.lines = <<>> \o b.lines
    BY <1>4 DEF CutType
  <2>4. Whole(r)
    BY <2>2, <2>3 DEF a, b
  <2> QED BY <1>3, <2>4
<1>6. CASE ~Stops(r, no)
  <2> DEFINE k == After(r, no)
             l == FirstLine(r, no)
             q == Rest(r, k)
             c == Cut(q, no)
             d == Cut(q \o t, yes)
             e == Cut(c.rest \o t, yes)
  <2>1. k \in 1..n /\ l \in Seq(Byte) /\ n \in Nat
    BY <1>3, <1>6, LineIs
  <2>2. /\ ~Stops(r \o t, yes) /\ After(r \o t, yes) = k
        /\ FirstLine(r \o t, yes) = l
    BY <1>6, LineAhead
  <2> HIDE DEF k, l
  <2>3. q \in Seq(Byte) /\ Len(q) = n - k /\ Rest(r \o t, k) = q \o t
    <3>1. k \in 0..Len(r) /\ Len(r) = n
      BY <1>3, <2>1
    <3>2. q \in Seq(Byte) /\ Len(q) = Len(r) - k
      BY <3>1, RestIs
    <3>3. Rest(r \o t, k) = q \o t
      BY <3>1, RestConcat
    <3> HIDE DEF q
    <3> QED BY <3>1, <3>2, <3>3
  <2>4. Whole(q)
    <3>1. n - k \in Nat /\ n - k < n
      BY <2>1
    <3>2. n - k \notin T
      <4> HIDE DEF T
      <4> QED BY <3>1, <1>2, <2>1
    <3> HIDE DEF q, Whole
    <3> QED BY <2>3, <3>1, <3>2
  <2>5. d.lines = c.lines \o e.lines
    BY <2>4
  <2>6. c \in CutType /\ d \in CutType
    <3>1. q \o t \in Seq(Byte)
      BY <2>3, ConcatProperties
    <3> HIDE DEF q
    <3> QED BY <2>3, <3>1, CutIs
  <2> HIDE DEF q
  <2>7. c.rest \o t \in Seq(Byte) /\ e \in CutType
    <3>1. c.rest \o t \in Seq(Byte)
      BY <2>6 DEF CutType
    <3> HIDE DEF c
    <3> QED BY <3>1, CutIs
  <2>8. a = Turn(r, no, c)
    BY <2>3, CutIs DEF k, q
  <2>9. b = Turn(r \o t, yes, d)
    <3>1. b = Turn(r \o t, yes, Cut(Rest(r \o t, After(r \o t, yes)), yes))
      BY <1>4, CutIs
    <3> QED BY <3>1, <2>2, <2>3
  <2>10. a.lines = <<l>> \o c.lines /\ a.rest = c.rest
    <3> HIDE DEF a, c
    <3> QED BY <1>6, <2>6, <2>8, TurnIs DEF l
  <2>11. b.lines = <<l>> \o d.lines
    <3> HIDE DEF b, d
    <3>1. b.lines = <<FirstLine(r \o t, yes)>> \o d.lines
      BY <1>4, <2>2, <2>6, <2>9, TurnIs, ZenonT(30)
    <3> QED BY <3>1, <2>2
  <2>12. <<l>> \o (c.lines \o e.lines) = (<<l>> \o c.lines) \o e.lines
    <3>1. <<l>> \in Seq(Seq(Byte)) /\ c.lines \in Seq(Seq(Byte)) /\ e.lines \in Seq(Seq(Byte))
      <4> HIDE DEF c, e
      <4> QED BY <2>1, <2>6, <2>7 DEF CutType
    <3> DEFINE S == Seq(Byte)
               u == <<l>>
               v == c.lines
               w == e.lines
    <3>2. u \in Seq(S) /\ v \in Seq(S) /\ w \in Seq(S)
      BY <3>1
    <3> HIDE DEF S, u, v, w
    <3>3. u \o (v \o w) = (u \o v) \o w
      BY <3>2, ConcatAssociative, SMTT(30)
    <3> QED BY <3>3 DEF u, v, w
  <2>13. b.lines = a.lines \o Cut(a.rest \o t, yes).lines
    <3>1. Cut(a.rest \o t, yes) = e
      BY <2>10
    <3> HIDE DEF a, b, c, d, e
    <3> QED BY <3>1, <2>5, <2>10, <2>11, <2>12
  <2>14. Whole(r)
    BY <2>13
  <2> QED BY <1>3, <2>14
<1> QED BY <1>5, <1>6

-----------------------------------------------------------------------------
(* The lines, read byte by byte, are those the loop cuts.                  *)

StateType == [done : Seq(Seq(Byte)), now : Seq(Byte), half : Term \cup {Null}]
Fresh == [done |-> <<>>, now |-> <<>>, half |-> Null]
Reading(st, b) ==
  CASE b \in {CR, LF} /\ st.half \in {CR, LF} \ {b} -> [st EXCEPT !.half = Null]
    [] b \in {CR, LF} /\ st.half \in {b, Null}
         -> [done |-> Append(st.done, st.now), now |-> <<>>, half |-> b]
    [] OTHER -> [st EXCEPT !.now = Append(@, b), !.half = Null]
\* The function Lines is defined by, and what it makes of the last state.
Reads(f, s) == f = [i \in 0..Len(s) |-> IF i = 0 THEN Fresh ELSE Reading(f[i - 1], s[i])]
Finish(end) == IF end.now = <<>> THEN end.done ELSE Append(end.done, end.now)

LEMMA ReadingIs ==
  ASSUME NEW st \in StateType, NEW b \in Byte
  PROVE  LET n == Reading(st, b)
         IN  /\ n \in StateType
             /\ b \notin Term => n.done = st.done /\ n.now = Append(st.now, b) /\ n.half = Null
             /\ b \in Term /\ st.half \in Term \ {b}
                  => n.done = st.done /\ n.now = st.now /\ n.half = Null
             /\ b \in Term /\ st.half \in {b, Null}
                  => n.done = Append(st.done, st.now) /\ n.now = <<>> /\ n.half = b
<1> DEFINE n == Reading(st, b)
           x == [st EXCEPT !.half = Null]
           y == [done |-> Append(st.done, st.now), now |-> <<>>, half |-> b]
           z == [st EXCEPT !.now = Append(@, b), !.half = Null]
<1>1. st.done \in Seq(Seq(Byte)) /\ st.now \in Seq(Byte) /\ st.half \in Term \cup {Null}
  BY DEF StateType
<1>2. Append(st.done, st.now) \in Seq(Seq(Byte)) /\ Append(st.now, b) \in Seq(Byte)
      /\ <<>> \in Seq(Byte)
  BY <1>1
<1>3. x \in StateType /\ x.done = st.done /\ x.now = st.now /\ x.half = Null
  BY DEF StateType
<1>4. z \in StateType /\ z.done = st.done /\ z.now = Append(st.now, b) /\ z.half = Null
  BY <1>2 DEF StateType
<1>5. /\ b \in Term => y \in StateType
      /\ y.done = Append(st.done, st.now) /\ y.now = <<>> /\ y.half = b
  BY <1>2 DEF StateType
<1>6. n = CASE b \in Term /\ st.half \in Term \ {b} -> x
            [] b \in Term /\ st.half \in {b, Null}  -> y
            [] OTHER                                -> z
  BY DEF Reading, Term
<1>7. Null \notin Term
  BY Bytes DEF Term
<1> HIDE DEF x, y, z, n
<1>8. CASE b \notin Term
  <2>1. n = z
    BY <1>6, <1>8
  <2> QED BY <2>1, <1>4, <1>8 DEF n
<1>9. CASE b \in Term /\ st.half \in Term \ {b}
  <2>1. n = x /\ st.half \notin {b, Null}
    BY <1>6, <1>7, <1>9
  <2> QED BY <2>1, <1>3, <1>9 DEF n
<1>10. CASE b \in Term /\ st.half \in {b, Null}
  <2>1. n = y /\ st.half \notin Term \ {b}
    BY <1>6, <1>7, <1>10
  <2> QED BY <2>1, <1>5, <1>10 DEF n
<1> QED BY <1>1, <1>8, <1>9, <1>10

LEMMA ReadsOn ==
  ASSUME NEW s \in Seq(Byte)
  PROVE  \E f : Reads(f, s) /\ \A i \in 0..Len(s) : f[i] \in StateType
<1> DEFINE n == Len(s)
           Body(g, i) == IF i = 0 THEN Fresh ELSE Reading(g[i - 1], s[i])
           Good(k) == \E g : \A i \in 0..k : g[i] = Body(g, i) /\ g[i] \in StateType
           T == {k \in 0..n : ~Good(k)}
<1>0. n \in Nat /\ \A i \in 1..n : s[i] \in Byte
  OBVIOUS
<1>1. Fresh \in StateType
  BY DEF Fresh, StateType
<1> HIDE DEF n
<1>2. T = {}
  <2>1. SUFFICES ASSUME T # {} PROVE FALSE
    OBVIOUS
  <2>2. PICK k \in T : \A j \in T : k <= j
    <3>1. T \subseteq Nat
      BY <1>0
    <3> QED BY <2>1, <3>1, LeastNat
  <2>3. k \in 0..n
    OBVIOUS
  <2>4. CASE k = 0
    <3> DEFINE g == [i \in {0} |-> Fresh]
    <3>1. \A i \in 0..k : i = 0
      BY <2>4
    <3>2. g[0] = Fresh
      OBVIOUS
    <3> HIDE DEF g
    <3>3. \A i \in 0..k : g[i] = Body(g, i) /\ g[i] \in StateType
      BY <3>1, <3>2, <1>1
    <3> QED BY <3>3, <2>2
  <2>5. CASE k # 0
    <3>1. k - 1 \in 0..n /\ k - 1 < k
      BY <2>3, <2>5, <1>0
    <3>2. Good(k - 1)
      <4>1. k - 1 \notin T
        <5> HIDE DEF T
        <5> QED BY <3>1, <2>2, <2>3, <1>0
      <4> HIDE DEF Good
      <4> QED BY <3>1, <4>1
    <3>3. PICK g : \A i \in 0..(k - 1) : g[i] = Body(g, i) /\ g[i] \in StateType
      BY <3>2
    <3> DEFINE e == Reading(g[k - 1], s[k])
               h == [i \in 0..k |-> IF i = k THEN e ELSE g[i]]
    <3>4. e \in StateType
      <4>1. g[k - 1] \in StateType /\ s[k] \in Byte
        BY <3>1, <3>3, <2>3, <2>5, <1>0
      <4> QED BY <4>1, ReadingIs
    <3>5. \A i \in 0..(k - 1) : h[i] = g[i] /\ i \in 0..k
      BY <2>3, <1>0
    <3>6. h[k] = e
      BY <2>3, <1>0
    <3> HIDE DEF h
    <3>7. ASSUME NEW i \in 0..k PROVE h[i] = Body(h, i) /\ h[i] \in StateType
      <4>1. CASE i = k
        <5>1. h[k - 1] = g[k - 1]
          BY <3>1, <3>5
        <5> QED BY <4>1, <5>1, <3>4, <3>6, <2>5
      <4>2. CASE i = 0
        <5>1. h[0] = g[0] /\ 0 \in 0..(k - 1)
          BY <3>1, <3>5
        <5> QED BY <4>2, <5>1, <3>3
      <4>3. CASE i # k /\ i # 0
        <5>1. i \in 0..(k - 1) /\ i - 1 \in 0..(k - 1)
          BY <4>3, <2>3, <1>0
        <5> QED BY <4>3, <5>1, <3>3, <3>5
      <4> QED BY <4>1, <4>2, <4>3
    <3> QED BY <3>7, <2>2
  <2> QED BY <2>4, <2>5
<1>3. Good(n)
  <2> HIDE DEF Good
  <2> QED BY <1>0, <1>2
<1>4. PICK g : \A i \in 0..n : g[i] = Body(g, i) /\ g[i] \in StateType
  BY <1>3
<1> DEFINE f == [i \in 0..n |-> g[i]]
<1>5. \A i \in 0..n : f[i] = g[i] /\ (i # 0 => i - 1 \in 0..n)
  BY <1>0
<1>6. f = [i \in 0..n |-> f[i]]
  OBVIOUS
<1> HIDE DEF f
<1>7. \A i \in 0..n : f[i] = Body(f, i) /\ f[i] \in StateType
  BY <1>4, <1>5
<1>8. f = [i \in 0..n |-> Body(f, i)]
  <2> HIDE DEF Body
  <2> QED BY <1>6, <1>7
<1> QED BY <1>7, <1>8 DEF Reads, n

\* Bytes without a terminator gather in the line that is being read.
LEMMA Gathers ==
  ASSUME NEW s \in Seq(Byte), NEW f, Reads(f, s), \A i \in 0..Len(s) : f[i] \in StateType,
         NEW i \in 0..Len(s), f[i].now = <<>>, NEW m \in 0..(Len(s) - i),
         \A j \in 1..m : s[i + j] \notin Term
  PROVE  /\ f[i + m].done = f[i].done /\ f[i + m].now = SubSeq(s, i + 1, i + m)
         /\ m > 0 => f[i + m].half = Null
<1> DEFINE Held(k) == /\ f[i + k].done = f[i].done /\ f[i + k].now = SubSeq(s, i + 1, i + k)
                      /\ k > 0 => f[i + k].half = Null
           T == {k \in 0..m : ~Held(k)}
<1>0. Len(s) \in Nat /\ i \in Nat /\ m \in Nat /\ i + m <= Len(s)
  OBVIOUS
<1>1. T = {}
  <2>1. SUFFICES ASSUME T # {} PROVE FALSE
    OBVIOUS
  <2>2. PICK k \in T : \A j \in T : k <= j
    <3>1. T \subseteq Nat
      BY <1>0
    <3> QED BY <2>1, <3>1, LeastNat
  <2>3. k \in 0..m /\ ~Held(k)
    BY <2>2
  <2>4. CASE k = 0
    <3>1. SubSeq(s, i + 1, i + 0) = <<>> /\ i + 0 = i
      BY <1>0, SubSeqEmpty
    <3>2. Held(0)
      <4> DEFINE k0 == i + 0
      <4>1. k0 = i /\ SubSeq(s, i + 1, k0) = <<>>
        BY <3>1
      <4>2. ~(0 > 0)
        OBVIOUS
      <4> HIDE DEF k0
      <4>3. f[k0].done = f[i].done /\ f[k0].now = SubSeq(s, i + 1, k0)
        BY <4>1
      <4> QED BY <4>2, <4>3 DEF k0
    <3> HIDE DEF Held
    <3> QED BY <2>3, <2>4, <3>2
  <2>5. CASE k # 0
    <3>1. k - 1 \in 0..m /\ k - 1 < k /\ k > 0
      BY <2>3, <2>5, <1>0
    <3>2. Held(k - 1)
      <4>1. k - 1 \notin T
        <5> HIDE DEF T
        <5> QED BY <3>1, <2>2, <2>3, <1>0
      <4> HIDE DEF Held
      <4> QED BY <3>1, <4>1
    <3> DEFINE a == i + (k - 1)
               st == f[a]
               b == s[i + k]
    <3>3. a \in 0..Len(s) /\ i + k \in 1..Len(s) /\ (i + k) - 1 = a /\ i + k # 0
      BY <2>3, <3>1, <1>0
    <3>4. b \in Byte /\ b \notin Term
      <4>1. k \in 1..m
        BY <2>3, <3>1, <1>0
      <4> QED BY <4>1, <3>3
    <3>5. st \in StateType /\ st.done = f[i].done /\ st.now = SubSeq(s, i + 1, a)
      BY <3>2, <3>3
    <3>6. f[i + k] = Reading(st, b)
      <4>1. i + k \in 0..Len(s)
        BY <3>3
      <4>2. f[i + k] = IF i + k = 0 THEN Fresh ELSE Reading(f[(i + k) - 1], s[i + k])
        BY <4>1 DEF Reads
      <4> QED BY <4>2, <3>3
    <3> HIDE DEF st, b
    <3>7. f[i + k].done = st.done /\ f[i + k].now = Append(st.now, b) /\ f[i + k].half = Null
      <4> DEFINE n == Reading(st, b)
      <4>1. st \in StateType /\ b \in Byte /\ b \notin Term
        BY <3>4, <3>5
      <4>2. n.done = st.done /\ n.now = Append(st.now, b) /\ n.half = Null
        BY <4>1, ReadingIs
      <4> HIDE DEF n
      <4>3. f[i + k] = n
        BY <3>6 DEF n
      <4> QED BY <4>2, <4>3
    <3>8. Append(SubSeq(s, i + 1, a), b) = SubSeq(s, i + 1, i + k)
      <4> DEFINE p == i + 1
                 q == i + k
      <4>1. p \in 1..Len(s) /\ q \in p..Len(s) /\ q - 1 = a
        BY <3>1, <3>3, <1>0
      <4> HIDE DEF p, q, a
      <4>2. SubSeq(s, p, q) = SubSeq(s, p, q - 1) \o <<s[q]>>
        BY <4>1, SubSeqRecursiveSecond
      <4>3. SubSeq(s, p, q - 1) \in Seq(Byte)
        BY <4>1
      <4>4. SubSeq(s, p, q) = SubSeq(s, p, a) \o <<s[q]>> /\ SubSeq(s, p, a) \in Seq(Byte)
        BY <4>1, <4>2, <4>3
      <4>5. s[q] = b
        BY DEF q, b
      <4> HIDE DEF b
      <4>6. \A w \in Seq(Byte) : Append(w, b) = w \o <<b>>
        BY <3>4
      <4> QED BY <4>4, <4>5, <4>6 DEF p, q
    <3> HIDE DEF a
    <3>9. Held(k)
      BY <3>5, <3>7, <3>8
    <3> QED BY <2>3, <3>9
  <2> QED BY <2>4, <2>5
<1>2. Held(m)
  <2> HIDE DEF Held
  <2> QED BY <1>0, <1>1
<1> QED BY <1>2

\* Between two lines: the last terminator seen is not half of a pair.
Clean(f, s, i) ==
  /\ f[i].now = <<>>
  /\ i < Len(s) /\ f[i].half \in Term => s[i + 1] \notin Term \ {f[i].half}

\* A line read from between two lines ends between two lines, as the loop cuts it.
LEMMA LineRead ==
  ASSUME NEW s \in Seq(Byte), NEW f, Reads(f, s), \A i \in 0..Len(s) : f[i] \in StateType,
         NEW i \in 0..Len(s), Clean(f, s, i), NEW yes \in BOOLEAN, yes,
         NEW p \in 1..(Len(s) - i), Rest(s, i)[p] \in Term,
         \A j \in 1..(p - 1) : Rest(s, i)[j] \notin Term
  PROVE  LET r == Rest(s, i)
             k == After(r, yes)
         IN  /\ ~Stops(r, yes) /\ k \in 1..(Len(s) - i) /\ Clean(f, s, i + k)
             /\ FirstLine(r, yes) \in Seq(Byte)
             /\ f[i + k].done = Append(f[i].done, FirstLine(r, yes))
<1> DEFINE r == Rest(s, i)
           k == After(r, yes)
           l == FirstLine(r, yes)
           a == i + (p - 1)
           b == i + p
<1>0. Len(s) \in Nat /\ i \in Nat /\ p \in Nat
  OBVIOUS
<1>1. r \in Seq(Byte) /\ Len(r) = Len(s) - i /\ \A j \in 1..(Len(s) - i) : r[j] = s[i + j]
  BY RestIs
<1>2. LineLength(r, yes) =
           IF p < Len(r)
             THEN [len |-> p - 1, term |-> IF r[p + 1] \in Term \ {r[p]} THEN 2 ELSE 1]
             ELSE [len |-> IF yes THEN p - 1 ELSE -1, term |-> IF yes THEN 1 ELSE 0]
  BY <1>1, TerminatorAt
<1>3. r[p] \in Term /\ \A j \in 1..(p - 1) : r[j] \notin Term
  OBVIOUS
<1> DEFINE pair == p < Len(r) /\ r[p + 1] \in Term \ {r[p]}
<1> HIDE DEF r
<1>4. /\ LineLength(r, yes).len = p - 1
      /\ LineLength(r, yes).term = IF pair THEN 2 ELSE 1
  <2> DEFINE t == Term \ {r[p]}
             x == r[p + 1]
             size == LineLength(r, yes)
  <2>1. CASE pair
    <3>1. p < Len(r) /\ x \in t
      BY <2>1
    <3> HIDE DEF t, x, size
    <3>2. size = [len |-> p - 1, term |-> 2]
      BY <1>2, <3>1 DEF t, x, size
    <3>3. size.len = p - 1 /\ size.term = 2
      BY <3>2
    <3> HIDE DEF pair
    <3> QED BY <2>1, <3>3 DEF size
  <2>2. CASE ~pair
    <3>1. ~(p < Len(r) /\ x \in t)
      BY <2>2
    <3> HIDE DEF t, x, size
    <3>2. size = IF p < Len(r) THEN [len |-> p - 1, term |-> IF x \in t THEN 2 ELSE 1]
                 ELSE [len |-> IF yes THEN p - 1 ELSE -1, term |-> IF yes THEN 1 ELSE 0]
      BY <1>2 DEF t, x, size
    <3>3. size.len = p - 1 /\ size.term = 1
      <4>1. CASE p < Len(r)
        <5>1. size = [len |-> p - 1, term |-> IF x \in t THEN 2 ELSE 1]
          BY <3>2, <4>1
        <5>2. x \notin t
          BY <3>1, <4>1
        <5> QED BY <5>1, <5>2
      <4>2. CASE ~(p < Len(r))
        BY <3>2, <4>2
      <4> QED BY <4>1, <4>2
    <3> HIDE DEF pair
    <3> QED BY <2>2, <3>3 DEF size
  <2> QED BY <2>1, <2>2
<1>5. l = SubSeq(r, 1, p - 1) /\ k = IF pair THEN p + 1 ELSE p
  <2> DEFINE size == LineLength(r, yes)
  <2>1. l = SubSeq(r, 1, size.len) /\ k = size.len + size.term
    BY DEF FirstLine, After
  <2>2. size.len = p - 1 /\ size.term = IF pair THEN 2 ELSE 1
    BY <1>4
  <2> HIDE DEF size, pair, l, k
  <2> QED BY <1>0, <2>1, <2>2
<1>6. ~Stops(r, yes) /\ l \in Seq(Byte) /\ k \in 1..(Len(s) - i)
  <2>1. r # <<>> /\ ~(p - 1 < 0)
    BY <1>0, <1>1
  <2>2. ~Stops(r, yes)
    BY <2>1, <1>4 DEF Stops
  <2> QED BY <2>2, <1>1, LineIs
<1>7. a \in 0..Len(s) /\ b \in 1..Len(s) /\ b - 1 = a /\ b # 0 /\ s[b] = r[p]
  BY <1>0, <1>1
<1>8. f[a].done = f[i].done /\ f[a].now = l /\ (p > 1 => f[a].half = Null)
  <2>1. p - 1 \in 0..(Len(s) - i)
    BY <1>0
  <2>2. \A j \in 1..(p - 1) : s[i + j] \notin Term
    BY <1>0, <1>1, <1>3, SMTT(30)
  <2>3. f[i].now = <<>>
    BY DEF Clean
  <2>4. /\ f[a].done = f[i].done /\ f[a].now = SubSeq(s, i + 1, i + (p - 1))
        /\ p - 1 > 0 => f[a].half = Null
    BY <2>1, <2>2, <2>3, Gathers
  <2>5. SubSeq(s, i + 1, i + (p - 1)) = SubSeq(r, 1, p - 1)
    <3> DEFINE m == p - 1
    <3>1. m \in 0..(Len(s) - i)
      BY <2>1
    <3> HIDE DEF m
    <3>2. SubSeq(s, i + 1, i + m) = SubSeq(r, 1, m)
      BY <3>1, PieceOfRest DEF r
    <3> QED BY <3>2 DEF m
  <2> HIDE DEF a, l
  <2> QED BY <2>4, <2>5, <1>0, <1>5
<1>9. f[b] = Reading(f[a], s[b]) /\ f[a] \in StateType /\ s[b] \in Byte /\ s[b] \in Term
  <2>1. f[b] = IF b = 0 THEN Fresh ELSE Reading(f[b - 1], s[b])
    <3>1. b \in 0..Len(s)
      BY <1>7
    <3> HIDE DEF b
    <3> QED BY <3>1 DEF Reads
  <2> HIDE DEF a, b
  <2> QED BY <2>1, <1>3, <1>7
<1>10. f[a].half \in {s[b], Null}
  <2>1. CASE p > 1
    BY <1>8, <2>1
  <2>2. CASE p = 1
    <3>1. a = i /\ b = i + 1 /\ i < Len(s)
      BY <2>2, <1>0, <1>7
    <3>2. f[i].half \in Term => s[i + 1] \notin Term \ {f[i].half}
      BY <3>1 DEF Clean
    <3>3. f[i].half \in Term \cup {Null}
      BY DEF StateType
    <3> HIDE DEF a, b
    <3>4. f[a].half \in Term => s[b] = f[a].half
      BY <3>1, <3>2, <1>9
    <3> QED BY <3>1, <3>3, <3>4
  <2> QED BY <2>1, <2>2, <1>0
<1>11. f[b].done = Append(f[i].done, l) /\ f[b].now = <<>> /\ f[b].half = s[b]
  <2> DEFINE n == Reading(f[a], s[b])
  <2> HIDE DEF a, b
  <2>1. n.done = Append(f[a].done, f[a].now) /\ n.now = <<>> /\ n.half = s[b]
    BY <1>9, <1>10, ReadingIs
  <2> HIDE DEF n
  <2>2. f[b] = n
    BY <1>9 DEF n
  <2> QED BY <2>1, <2>2, <1>8
<1>12. CASE ~pair
  <2>1. i + k = b
    BY <1>5, <1>12
  <2>2. Clean(f, s, b)
    <3>1. b < Len(s) => p < Len(r) /\ s[b + 1] = r[p + 1]
      BY <1>0, <1>1
    <3> HIDE DEF b
    <3>2. b < Len(s) => s[b + 1] \notin Term \ {f[b].half}
      BY <3>1, <1>7, <1>11, <1>12
    <3> QED BY <3>2, <1>11 DEF Clean
  <2> HIDE DEF b, k, l
  <2> QED BY <2>1, <2>2, <1>6, <1>11 DEF k, l, r
<1>13. CASE pair
  <2> DEFINE c == b + 1
  <2>1. i + k = c /\ c \in 1..Len(s) /\ c - 1 = b /\ c # 0 /\ s[c] = r[p + 1] /\ b \in 0..Len(s)
    <3>1. p < Len(r) /\ k = p + 1
      BY <1>5, <1>13
    <3> HIDE DEF k, pair
    <3> QED BY <3>1, <1>0, <1>1
  <2>2. f[c] = IF c = 0 THEN Fresh ELSE Reading(f[c - 1], s[c])
    <3>1. c \in 0..Len(s)
      BY <2>1
    <3> HIDE DEF c
    <3> QED BY <3>1 DEF Reads
  <2> HIDE DEF c
  <2>3. f[c] = Reading(f[b], s[c]) /\ f[b] \in StateType /\ s[c] \in Byte /\ s[c] \in Term \ {s[b]}
    <3> HIDE DEF b
    <3> QED BY <2>1, <2>2, <1>7, <1>13
  <2>4. s[b] \in Term \ {s[c]} /\ s[c] \in Term
    BY <2>3, <1>9
  <2>5. f[c].done = f[b].done /\ f[c].now = f[b].now /\ f[c].half = Null
    <3> DEFINE n == Reading(f[b], s[c])
    <3> HIDE DEF b
    <3>1. n.done = f[b].done /\ n.now = f[b].now /\ n.half = Null
      BY <2>3, <2>4, <1>11, ReadingIs
    <3> HIDE DEF n
    <3>2. f[c] = n
      BY <2>3 DEF n
    <3> QED BY <3>1, <3>2
  <2>6. Clean(f, s, c)
    <3>1. Null \notin Term
      BY Bytes DEF Term
    <3> HIDE DEF b
    <3> QED BY <3>1, <2>5, <1>11 DEF Clean
  <2> HIDE DEF b, k, l
  <2> QED BY <2>1, <2>5, <2>6, <1>6, <1>11 DEF k, l, r
<1> QED BY <1>12, <1>13

\* The lines of bytes are those the loop cuts, the last one with or without a terminator.
LEMMA LinesAreCut ==
  ASSUME NEW s \in Seq(Byte), NEW yes \in BOOLEAN, yes
  PROVE  Lines(s) = Cut(s, yes).lines
<1> DEFINE f == CHOOSE f : Reads(f, s)
           n == Len(s)
           End == Finish(f[n])
           Agree(i) == End = f[i].done \o Cut(Rest(s, i), yes).lines
           T == {j \in 0..n : Clean(f, s, n - j) /\ ~Agree(n - j)}
<1>0. n \in Nat
  OBVIOUS
<1>1. Lines(s) = End
  BY Zenon DEF Lines, Reads, Reading, Fresh, Finish
<1>2. Reads(f, s)
  BY ReadsOn
<1> HIDE DEF f
<1>3. \A i \in 0..n : f[i] \in StateType
  <2>1. PICK g : Reads(g, s) /\ \A i \in 0..n : g[i] \in StateType
    BY ReadsOn
  <2> DEFINE D == {i \in 0..n : f[i] # g[i]}
  <2>2. D = {}
    <3>1. SUFFICES ASSUME D # {} PROVE FALSE
      OBVIOUS
    <3>2. PICK i \in D : \A j \in D : i <= j
      <4>1. D \subseteq Nat
        BY <1>0
      <4> QED BY <3>1, <4>1, LeastNat
    <3>3. i # 0 => i - 1 \in 0..n /\ i - 1 \notin D
      <4>1. i \in 0..n
        OBVIOUS
      <4> HIDE DEF D
      <4> QED BY <3>2, <4>1, <1>0
    <3>4. i # 0 => f[i - 1] = g[i - 1]
      BY <3>3
    <3>5. /\ f[i] = IF i = 0 THEN Fresh ELSE Reading(f[i - 1], s[i])
          /\ g[i] = IF i = 0 THEN Fresh ELSE Reading(g[i - 1], s[i])
      BY <1>2, <2>1 DEF Reads
    <3> QED BY <3>2, <3>4, <3>5
  <2> QED BY <2>1, <2>2
<1>4. T = {}
  <2>1. SUFFICES ASSUME T # {} PROVE FALSE
    OBVIOUS
  <2>2. PICK m \in T : \A j \in T : m <= j
    <3> HIDE DEF Agree
    <3>1. T \subseteq Nat
      BY <1>0
    <3> QED BY <2>1, <3>1, LeastNat
  <2> DEFINE i == n - m
             r == Rest(s, i)
  <2>3. m \in 0..n /\ i \in 0..n /\ n - i = m /\ Clean(f, s, i) /\ ~Agree(i)
    <3> HIDE DEF Agree
    <3> QED BY <2>2, <1>0
  <2> HIDE DEF i, T
  <2>4. r \in Seq(Byte) /\ Len(r) = n - i /\ \A j \in 1..(n - i) : r[j] = s[i + j]
        /\ (r = <<>> <=> i = n)
    BY <2>3, RestIs
  <2> HIDE DEF r
  <2>5. f[i] \in StateType /\ f[i].now = <<>> /\ f[i].done \in Seq(Seq(Byte))
    BY <2>3, <1>3 DEF Clean, StateType
  <2>6. CASE \A j \in 1..Len(r) : r[j] \notin Term
    <3>1. \A j \in 1..m : s[i + j] \notin Term
      BY <2>3, <2>4, <2>6
    <3>2. f[i + m].done = f[i].done /\ f[i + m].now = SubSeq(s, i + 1, i + m)
      <4>1. m \in 0..(Len(s) - i) /\ i \in 0..Len(s) /\ f[i].now = <<>>
        BY <2>3, <2>5
      <4> QED BY <4>1, <3>1, <1>2, <1>3, Gathers
    <3>3. i + m = n
      BY <2>3, <1>0
    <3>4. f[n].done = f[i].done /\ f[n].now = r
      BY <3>2, <3>3 DEF Rest, r
    <3> DEFINE c == Cut(r, yes)
    <3>5. c.lines = IF r = <<>> THEN <<>> ELSE <<r>>
      <4>1. LineLength(r, yes) = [len |-> IF yes THEN Len(r) ELSE -1, term |-> 0]
        BY <2>4, <2>6, NoTerminator
      <4>2. CASE r = <<>>
        <5>1. c = [lines |-> <<>>, rest |-> r]
          BY <4>2, <2>4, CutIs DEF Turn, Stops
        <5> HIDE DEF c
        <5> QED BY <4>2, <5>1
      <4>3. CASE r # <<>>
        <5> DEFINE size == LineLength(r, yes)
        <5>1. size.len = Len(r) /\ size.term = 0
          <6>1. size = [len |-> IF yes THEN Len(r) ELSE -1, term |-> 0]
            BY <4>1
          <6> HIDE DEF size
          <6> QED BY <6>1
        <5>2. ~Stops(r, yes)
          <6> HIDE DEF size
          <6>1. ~(size.len < 0)
            BY <5>1, <2>4
          <6> QED BY <4>3, <6>1 DEF Stops, size
        <5>3. After(r, yes) = Len(r) /\ FirstLine(r, yes) = r
          <6>1. SubSeq(r, 1, Len(r)) = r /\ Len(r) \in Nat
            BY <2>4, SubSeqFull
          <6>2. After(r, yes) = size.len + size.term /\ FirstLine(r, yes) = SubSeq(r, 1, size.len)
            BY DEF After, FirstLine
          <6> HIDE DEF size
          <6>3. After(r, yes) = Len(r)
            <7>1. After(r, yes) = Len(r) + 0
              BY <6>2, <5>1, Zenon
            <7>2. Len(r) \in Nat
              BY <6>1
            <7>3. \A e \in Nat : e + 0 = e
              OBVIOUS
            <7> QED BY <7>1, <7>2, <7>3, Zenon
          <6>4. FirstLine(r, yes) = r
            BY <6>1, <6>2, <5>1, Zenon
          <6> QED BY <6>3, <6>4
        <5>4. Rest(r, Len(r)) = <<>> /\ <<>> \in Seq(Byte)
          <6>1. Len(r) \in 0..Len(r)
            BY <2>4
          <6> QED BY <6>1, <2>4, RestIs
        <5> DEFINE d == Cut(<<>>, yes)
        <5>5. d \in CutType /\ d = [lines |-> <<>>, rest |-> <<>>]
          <6>1. d \in CutType /\ d = Turn(<<>>, yes, Cut(Rest(<<>>, After(<<>>, yes)), yes))
            BY <5>4, CutIs
          <6> QED BY <6>1 DEF Turn, Stops
        <5>6. c = Turn(r, yes, d)
          BY <2>4, <5>3, <5>4, CutIs, ZenonT(30)
        <5>7. c.lines = <<FirstLine(r, yes)>> \o d.lines
          <6> HIDE DEF c, d
          <6> QED BY <2>4, <5>2, <5>5, <5>6, TurnIs
        <5>8. <<r>> \o <<>> = <<r>>
          BY <2>4
        <5>9. d.lines = <<>>
          <6> HIDE DEF d
          <6> QED BY <5>5
        <5> HIDE DEF c, d
        <5> QED BY <4>3, <5>3, <5>7, <5>8, <5>9
      <4> QED BY <4>2, <4>3
    <3> HIDE DEF c
    <3>6. End = f[i].done \o c.lines
      <4>1. CASE r = <<>>
        <5>1. f[i].done \o <<>> = f[i].done
          BY <2>5
        <5> QED BY <3>4, <3>5, <4>1, <5>1 DEF Finish
      <4>2. CASE r # <<>>
        <5>1. End = Append(f[i].done, r)
          BY <3>4, <4>2 DEF Finish
        <5>2. Append(f[i].done, r) = f[i].done \o <<r>>
          BY <2>4, <2>5, AppendIs
        <5> HIDE DEF End
        <5> QED BY <3>5, <4>2, <5>1, <5>2
      <4> QED BY <4>1, <4>2
    <3>7. Agree(i)
      BY <3>6 DEF c, r
    <3> QED BY <2>3, <3>7
  <2>7. ASSUME NEW p \in 1..Len(r), r[p] \in Term, \A j \in 1..(p - 1) : r[j] \notin Term
        PROVE  FALSE
    <3> DEFINE k == After(r, yes)
               l == FirstLine(r, yes)
               d == Cut(Rest(r, k), yes)
               q == i + k
    <3>1. /\ ~Stops(r, yes) /\ k \in 1..(n - i) /\ Clean(f, s, q) /\ l \in Seq(Byte)
          /\ f[q].done = Append(f[i].done, l)
      <4>1. p \in 1..(n - i)
        BY <2>4, <2>7
      <4> QED BY <4>1, <2>3, <2>7, <1>2, <1>3, LineRead DEF r
    <3> HIDE DEF k, l
    <3>2. q \in 0..n /\ n - q \in 0..n /\ n - q < m /\ n - (n - q) = q
      BY <3>1, <2>3, <1>0
    <3> HIDE DEF q
    <3>3. n - q \notin T
      BY <3>2, <2>2, <2>3, <1>0
    <3>4. Agree(q)
      <4> HIDE DEF Agree
      <4> QED BY <3>1, <3>2, <3>3 DEF T
    <3>5. Rest(r, k) = Rest(s, q) /\ Rest(r, k) \in Seq(Byte)
      <4>1. k \in 0..(Len(s) - i) /\ k \in 0..Len(r) /\ i \in 0..Len(s)
        BY <3>1, <2>3, <2>4
      <4>2. Rest(r, k) = Rest(s, i + k)
        BY <4>1, RestRest DEF r
      <4>3. Rest(r, k) \in Seq(Byte)
        BY <4>1, <2>4, RestIs
      <4> QED BY <4>2, <4>3 DEF q
    <3>6. End = f[q].done \o d.lines
      BY <3>4, <3>5
    <3>7. d \in CutType
      BY <3>5, CutIs
    <3> DEFINE c == Cut(r, yes)
    <3>8. c = Turn(r, yes, d)
      BY <2>4, CutIs DEF k
    <3> HIDE DEF c, d
    <3>9. c.lines = <<l>> \o d.lines
      BY <3>1, <3>7, <3>8, <2>4, TurnIs DEF l
    <3>10. f[q].done \o d.lines = f[i].done \o c.lines
      <4> DEFINE S == Seq(Byte)
                 u == f[i].done
                 v == <<l>>
                 w == d.lines
      <4>1. u \in Seq(S) /\ v \in Seq(S) /\ w \in Seq(S) /\ Append(u, l) = u \o v
        <5>1. u \in Seq(S) /\ w \in Seq(S) /\ l \in S
          BY <3>1, <3>7, <2>5 DEF CutType
        <5> HIDE DEF S, u, w
        <5> QED BY <5>1, AppendIs
      <4> HIDE DEF S, u, v, w
      <4>2. (u \o v) \o w = u \o (v \o w)
        BY <4>1, ConcatAssociative, SMTT(30)
      <4> QED BY <4>1, <4>2, <3>1, <3>9 DEF u, v, w
    <3> HIDE DEF End
    <3>11. Agree(i)
      BY <3>6, <3>10 DEF c, r
    <3> QED BY <2>3, <3>11
  <2> QED BY <2>4, <2>6, <2>7, Terminators
<1>5. Clean(f, s, 0)
  <2>1. f[0] = Fresh
    <3>1. 0 \in 0..Len(s)
      BY <1>0
    <3> QED BY <3>1, <1>2 DEF Reads
  <2>2. Null \notin Term
    BY Bytes DEF Term
  <2> QED BY <2>1, <2>2 DEF Clean, Fresh
<1>6. Agree(0)
  <2>1. n \in 0..n /\ n - n = 0
    BY <1>0
  <2>2. n \notin T
    BY <1>4
  <2> HIDE DEF Agree
  <2> QED BY <2>1, <2>2, <1>5
<1>7. f[0].done = <<>> /\ Rest(s, 0) = s
  <2>1. 0 \in 0..Len(s)
    BY <1>0
  <2>2. f[0] = Fresh
    BY <2>1, <1>2 DEF Reads
  <2> QED BY <2>2, SubSeqFull DEF Rest, Fresh
<1>8. <<>> \o Cut(s, yes).lines = Cut(s, yes).lines
  <2> DEFINE c == Cut(s, yes)
  <2>1. c \in CutType
    BY CutIs
  <2> HIDE DEF c
  <2>2. <<>> \o c.lines = c.lines
    BY <2>1 DEF CutType
  <2> QED BY <2>2 DEF c
<1> QED BY <1>1, <1>6, <1>7, <1>8

-----------------------------------------------------------------------------
(* What arrives of the child's output, of any kind of destination.         *)

Whole(s) == Cut(s, TRUE).lines
Early(s) == Cut(s, FALSE)

LEMMA WholeIs ==
  ASSUME NEW s \in Seq(Byte)
  PROVE  /\ Whole(s) \in Seq(Seq(Byte)) /\ Early(s) \in CutType /\ Lines(s) = Whole(s)
         /\ \A t \in Seq(Byte) : Whole(s \o t) = Early(s).lines \o Whole(Early(s).rest \o t)
<1>1. Cut(s, TRUE) \in CutType /\ Cut(s, FALSE) \in CutType
  BY CutIs, Zenon
<1>2. Lines(s) = Cut(s, TRUE).lines
  BY LinesAreCut, Zenon
<1>3. ASSUME NEW t \in Seq(Byte)
      PROVE  Cut(s \o t, TRUE).lines
               = Cut(s, FALSE).lines \o Cut(Cut(s, FALSE).rest \o t, TRUE).lines
  BY CutOn, Zenon
<1> DEFINE a == Cut(s, TRUE)
<1>4. a \in CutType
  BY <1>1
<1> HIDE DEF a
<1>5. a.lines \in Seq(Seq(Byte))
  BY <1>4 DEF CutType
<1> QED BY <1>1, <1>2, <1>3, <1>5, Zenon DEF Whole, Early, a

LEMMA WholeNothing == Whole(<<>>) = <<>> /\ <<>> \in Seq(Byte)
<1>1. <<>> \in Seq(Byte)
  OBVIOUS
<1>2. Cut(<<>>, TRUE) = Turn(<<>>, TRUE, Cut(Rest(<<>>, After(<<>>, TRUE)), TRUE))
  BY <1>1, CutIs, Zenon
<1>3. Stops(<<>>, TRUE)
  BY DEF Stops
<1>4. Cut(<<>>, TRUE) = [lines |-> <<>>, rest |-> <<>>]
  BY <1>2, <1>3, Zenon DEF Turn
<1> DEFINE c == Cut(<<>>, TRUE)
<1>5. c = [lines |-> <<>>, rest |-> <<>>]
  BY <1>4
<1> HIDE DEF c
<1>6. c.lines = <<>>
  BY <1>5
<1> QED BY <1>1, <1>6 DEF Whole, c

Ordered(kind, c) == IF kind = "LIFO" THEN Reverse(c) ELSE c
Added(kind, c, ls) == IF kind = "LIFO" THEN Reverse(ls) \o c ELSE c \o ls
Dropped(kind, s) == IF kind = "STREAM" THEN [lines |-> <<s>>, rest |-> <<>>] ELSE Early(s)

\* Into a destination of this kind c has been put of what the child wrote, w; p is reaped and q
\* in the pipe.  Whatever the child goes on to write, the lines of all of it will be there.
ArrivesBy(kind, c, p, q, w) ==
  IF kind = "STREAM" THEN p = <<>> /\ FlattenSeq(c) \o q = w
  ELSE \A t \in Seq(Byte) : Ordered(kind, c) \o Whole(p \o (q \o t)) = Lines(w \o t)

LEMMA OrderedAdded ==
  ASSUME NEW kind, NEW c \in Seq(Seq(Byte)), NEW ls \in Seq(Seq(Byte))
  PROVE  /\ Added(kind, c, ls) \in Seq(Seq(Byte)) /\ Ordered(kind, c) \in Seq(Seq(Byte))
         /\ Ordered(kind, Added(kind, c, ls)) = Ordered(kind, c) \o ls
<1> DEFINE S == Seq(Byte)
<1>1. c \in Seq(S) /\ ls \in Seq(S)
  OBVIOUS
<1> HIDE DEF S
<1>2. Reverse(c) \in Seq(S) /\ Reverse(ls) \in Seq(S)
  BY <1>1, ReverseIs
<1>3. Reverse(ls) \o c \in Seq(S) /\ c \o ls \in Seq(S)
  BY <1>1, <1>2, ConcatProperties
<1>4. Reverse(Reverse(ls) \o c) = Reverse(c) \o Reverse(Reverse(ls))
  BY <1>1, <1>2, ReverseConcat
<1>5. Reverse(Reverse(ls)) = ls
  BY <1>1, ReverseTwice
<1>6. Added(kind, c, ls) \in Seq(S) /\ Ordered(kind, c) \in Seq(S)
  BY <1>1, <1>2, <1>3 DEF Added, Ordered
<1>7. Ordered(kind, Added(kind, c, ls)) = Ordered(kind, c) \o ls
  BY <1>4, <1>5 DEF Added, Ordered
<1> QED BY <1>6, <1>7 DEF S

LEMMA Regrouped ==
  /\ \A x \in Seq(Byte), y \in Seq(Byte), z \in Seq(Byte) : (x \o y) \o z = x \o (y \o z)
  /\ \A x \in Seq(Seq(Byte)), y \in Seq(Seq(Byte)), z \in Seq(Seq(Byte)) :
       (x \o y) \o z = x \o (y \o z)
<1>1. \A x \in Seq(Byte), y \in Seq(Byte), z \in Seq(Byte) : (x \o y) \o z = x \o (y \o z)
  BY ConcatAssociative
<1>2. \A x \in Seq(Seq(Byte)), y \in Seq(Seq(Byte)), z \in Seq(Seq(Byte)) :
        (x \o y) \o z = x \o (y \o z)
  <2> DEFINE S == Seq(Byte)
  <2> HIDE DEF S
  <2>1. \A x \in Seq(S), y \in Seq(S), z \in Seq(S) : (x \o y) \o z = x \o (y \o z)
    BY ConcatAssociative
  <2> QED BY <2>1, Zenon DEF S
<1> QED BY <1>1, <1>2

LEMMA ArrivesFirst ==
  ASSUME NEW kind
  PROVE  ArrivesBy(kind, <<>>, <<>>, <<>>, <<>>)
<1>1. Reverse(<<>>) = <<>>
  BY DEF Reverse
<1>2. Ordered(kind, <<>>) = <<>>
  BY <1>1 DEF Ordered
<1>3. FlattenSeq(<<>>) = <<>>
  BY DEF FlattenSeq
<1>4. ASSUME NEW t \in Seq(Byte) PROVE <<>> \o Whole(<<>> \o (<<>> \o t)) = Lines(<<>> \o t)
  <2>1. <<>> \o t = t
    BY ConcatEmptySeq
  <2>2. Whole(t) \in Seq(Seq(Byte)) /\ Lines(t) = Whole(t)
    BY WholeIs
  <2>3. <<>> \o Whole(t) = Whole(t)
    BY <2>2, ConcatEmptySeq
  <2> QED BY <2>1, <2>2, <2>3
<1>5. FlattenSeq(<<>>) \o <<>> = <<>>
  BY <1>3, WholeNothing, ConcatEmptySeq
<1> QED BY <1>2, <1>4, <1>5, Zenon DEF ArrivesBy

LEMMA ArrivesWritten ==
  ASSUME NEW kind, NEW c \in Seq(Seq(Byte)), NEW p \in Seq(Byte), NEW q \in Seq(Byte),
         NEW w \in Seq(Byte), NEW b \in Byte, ArrivesBy(kind, c, p, q, w)
  PROVE  ArrivesBy(kind, c, p, Append(q, b), Append(w, b))
<1>1. Append(q, b) = q \o <<b>> /\ Append(w, b) = w \o <<b>> /\ <<b>> \in Seq(Byte)
  BY AppendIs
<1> DEFINE o == <<b>>
<1>2. o \in Seq(Byte)
  BY <1>1
<1> HIDE DEF o
<1>3. CASE kind = "STREAM"
  <2>1. FlattenSeq(c) \in Seq(Byte)
    BY FlattenAppend, <1>2
  <2>2. FlattenSeq(c) \o (q \o o) = (FlattenSeq(c) \o q) \o o
    BY <2>1, <1>2, Regrouped, ZenonT(30)
  <2> QED BY <2>2, <1>1, <1>3 DEF ArrivesBy, o
<1>4. CASE kind # "STREAM"
  <2>1. ASSUME NEW t \in Seq(Byte)
        PROVE  Ordered(kind, c) \o Whole(p \o ((q \o o) \o t)) = Lines((w \o o) \o t)
    <3>1. (q \o o) \o t = q \o (o \o t) /\ (w \o o) \o t = w \o (o \o t)
      BY <1>2, Regrouped, ZenonT(30)
    <3>2. o \o t \in Seq(Byte)
      BY <1>2, ConcatProperties
    <3>3. Ordered(kind, c) \o Whole(p \o (q \o (o \o t))) = Lines(w \o (o \o t))
      BY <3>2, <1>4 DEF ArrivesBy
    <3> QED BY <3>1, <3>3
  <2> QED BY <2>1, <1>1, <1>4 DEF ArrivesBy, o
<1> QED BY <1>3, <1>4

\* A sequence in two halves.
LEMMA Halves ==
  ASSUME NEW q \in Seq(Byte), NEW n \in 0..Len(q)
  PROVE  /\ SubSeq(q, 1, n) \in Seq(Byte) /\ Rest(q, n) \in Seq(Byte)
         /\ SubSeq(q, 1, n) \o Rest(q, n) = q
         /\ Len(SubSeq(q, 1, n)) = n /\ Len(Rest(q, n)) = Len(q) - n
<1>1. 1 \in 1..(Len(q) + 1) /\ n \in (1 - 1)..Len(q) /\ Len(q) \in n..Len(q)
  OBVIOUS
<1>2. SubSeq(q, 1, n) \o SubSeq(q, n + 1, Len(q)) = SubSeq(q, 1, Len(q))
  BY <1>1, ConcatAdjacentSubSeq
<1>3. SubSeq(q, 1, Len(q)) = q
  BY SubSeqFull
<1>4. /\ SubSeq(q, 1, n) \in Seq(Byte) /\ Rest(q, n) \in Seq(Byte)
      /\ Len(SubSeq(q, 1, n)) = n - 1 + 1 /\ Len(Rest(q, n)) = Len(q) - n
  BY <1>1, PieceIs, RestIs
<1>5. n - 1 + 1 = n
  OBVIOUS
<1>6. SubSeq(q, 1, n) \o Rest(q, n) = q
  BY <1>2, <1>3 DEF Rest
<1> QED BY <1>4, <1>5, <1>6

LEMMA ArrivesReaped ==
  ASSUME NEW kind, NEW c \in Seq(Seq(Byte)), NEW p \in Seq(Byte), NEW q \in Seq(Byte),
         NEW w \in Seq(Byte), NEW n \in 0..Len(q), ArrivesBy(kind, c, p, q, w)
  PROVE  LET d == Dropped(kind, p \o SubSeq(q, 1, n))
         IN  /\ d \in CutType /\ Added(kind, c, d.lines) \in Seq(Seq(Byte))
             /\ Rest(q, n) \in Seq(Byte)
             /\ ArrivesBy(kind, Added(kind, c, d.lines), d.rest, Rest(q, n), w)
<1> DEFINE x == SubSeq(q, 1, n)
           r == Rest(q, n)
           s == p \o x
           d == Dropped(kind, s)
<1>1. x \in Seq(Byte) /\ r \in Seq(Byte) /\ x \o r = q
  BY Halves
<1> HIDE DEF x, r
<1>2. s \in Seq(Byte)
  BY <1>1, ConcatProperties
<1> HIDE DEF s
<1>3. CASE kind = "STREAM"
  <2>1. d = [lines |-> <<s>>, rest |-> <<>>]
    BY <1>3 DEF Dropped
  <2> HIDE DEF d
  <2>2. d \in CutType /\ d.lines = <<s>> /\ d.rest = <<>>
    BY <2>1, <1>2 DEF CutType
  <2>3. p = <<>> /\ FlattenSeq(c) \o q = w
    BY <1>3 DEF ArrivesBy
  <2>4. s = x
    BY <2>3, <1>1, ConcatEmptySeq DEF s
  <2>5. Added(kind, c, d.lines) = Append(c, s) /\ Append(c, s) \in Seq(Seq(Byte))
    <3>1. Append(c, s) = c \o <<s>> /\ Append(c, s) \in Seq(Seq(Byte))
      BY <1>2, AppendIs
    <3> QED BY <3>1, <2>2, <1>3 DEF Added
  <2>6. FlattenSeq(Append(c, s)) = FlattenSeq(c) \o x /\ FlattenSeq(c) \in Seq(Byte)
    BY <2>4, <1>2, FlattenAppend
  <2>7. (FlattenSeq(c) \o x) \o r = FlattenSeq(c) \o (x \o r)
    <3>1. FlattenSeq(c) \in Seq(Byte) /\ x \in Seq(Byte) /\ r \in Seq(Byte)
      BY <2>6, <1>1
    <3> QED BY <3>1, Regrouped, Zenon
  <2>8. ArrivesBy(kind, Added(kind, c, d.lines), d.rest, r, w)
    BY <2>2, <2>3, <2>5, <2>6, <2>7, <1>1, <1>3 DEF ArrivesBy
  <2> QED BY <2>2, <2>5, <2>8, <1>1 DEF d, s, x, r
<1>4. CASE kind # "STREAM"
  <2>1. d = Early(s) /\ d \in CutType
    BY <1>2, <1>4, WholeIs DEF Dropped
  <2> HIDE DEF d
  <2>2. d.lines \in Seq(Seq(Byte)) /\ d.rest \in Seq(Byte)
    BY <2>1 DEF CutType
  <2> DEFINE a == Ordered(kind, c)
             e == Added(kind, c, d.lines)
             l == d.lines
             g == d.rest
  <2>3. e \in Seq(Seq(Byte)) /\ a \in Seq(Seq(Byte)) /\ Ordered(kind, e) = a \o l
    BY <2>2, OrderedAdded
  <2> HIDE DEF a, e, l, g
  <2>4. ASSUME NEW t \in Seq(Byte) PROVE Ordered(kind, e) \o Whole(g \o (r \o t)) = Lines(w \o t)
    <3> DEFINE u == r \o t
               v == Whole(g \o u)
    <3>1. u \in Seq(Byte)
      BY <1>1, ConcatProperties
    <3>2. p \o (q \o t) = s \o u
      <4>1. q \o t = x \o u
        <5>1. x \in Seq(Byte) /\ r \in Seq(Byte)
          BY <1>1
        <5>2. (x \o r) \o t = x \o (r \o t)
          BY <5>1, Regrouped, Zenon
        <5> QED BY <5>2, <1>1
      <4> HIDE DEF u
      <4>2. p \o (x \o u) = (p \o x) \o u
        <5>1. x \in Seq(Byte) /\ u \in Seq(Byte)
          BY <3>1, <1>1
        <5> QED BY <5>1, Regrouped, ZenonT(30)
      <4> QED BY <4>1, <4>2 DEF s
    <3> HIDE DEF u
    <3>3. Whole(s \o u) = l \o v
      BY <3>1, <1>2, <2>1, WholeIs DEF l, g
    <3>4. v \in Seq(Seq(Byte))
      <4>1. g \o u \in Seq(Byte)
        BY <3>1, <2>2, ConcatProperties DEF g
      <4> QED BY <4>1, WholeIs
    <3> HIDE DEF v
    <3>5. a \o Whole(p \o (q \o t)) = Lines(w \o t)
      BY <1>4 DEF ArrivesBy, a
    <3>6. (a \o l) \o v = a \o (l \o v)
      <4>1. l \in Seq(Seq(Byte))
        BY <2>2 DEF l
      <4>2. a \in Seq(Seq(Byte))
        BY <2>3
      <4> QED BY <4>1, <4>2, <3>4, Regrouped, ZenonT(30)
    <3> QED BY <3>2, <3>3, <3>5, <3>6, <2>3 DEF u, v
  <2>5. ArrivesBy(kind, e, g, r, w)
    BY <2>4, <1>4 DEF ArrivesBy
  <2> QED BY <2>1, <2>3, <2>5, <1>1 DEF d, s, x, r, e, g
<1> QED BY <1>3, <1>4

\* All of it is in the destination.
Arrived(kind, c, w) ==
  IF kind = "STREAM" THEN FlattenSeq(c) \o <<>> = w ELSE Ordered(kind, c) = Lines(w)

LEMMA ArrivesLast ==
  ASSUME NEW kind, NEW c \in Seq(Seq(Byte)), NEW p \in Seq(Byte), NEW w \in Seq(Byte),
         ArrivesBy(kind, c, p, <<>>, w)
  PROVE  /\ Added(kind, c, Whole(p)) \in Seq(Seq(Byte))
         /\ Arrived(kind, Added(kind, c, Whole(p)), w)
<1>1. Whole(p) \in Seq(Seq(Byte))
  BY WholeIs
<1> DEFINE e == Added(kind, c, Whole(p))
<1>2. e \in Seq(Seq(Byte)) /\ Ordered(kind, e) = Ordered(kind, c) \o Whole(p)
  BY <1>1, OrderedAdded
<1>3. ASSUME kind = "STREAM" PROVE Arrived(kind, e, w)
  <2>1. p = <<>> /\ FlattenSeq(c) \o <<>> = w /\ Whole(p) = <<>>
    BY <1>3, WholeNothing DEF ArrivesBy
  <2>2. c \o <<>> = c
    BY ConcatEmptySeq
  <2>3. e = c
    BY <2>1, <2>2, <1>3 DEF Added
  <2> QED BY <2>1, <2>3, <1>3 DEF Arrived
<1>4. ASSUME kind # "STREAM" PROVE Arrived(kind, e, w)
  <2>1. Ordered(kind, c) \o Whole(p \o (<<>> \o <<>>)) = Lines(w \o <<>>)
    BY <1>4, WholeNothing DEF ArrivesBy
  <2>2. <<>> \o <<>> = <<>> /\ p \o <<>> = p /\ w \o <<>> = w
    BY WholeNothing, ConcatEmptySeq
  <2> QED BY <2>1, <2>2, <1>2, <1>4 DEF Arrived
<1> QED BY <1>2, <1>3, <1>4

\* What it means now.
LEMMA ArrivesMeans ==
  ASSUME NEW kind, NEW c \in Seq(Seq(Byte)), NEW p \in Seq(Byte), NEW q \in Seq(Byte),
         NEW w \in Seq(Byte), ArrivesBy(kind, c, p, q, w)
  PROVE  IF kind = "STREAM" THEN FlattenSeq(c) \o (p \o q) = w
         ELSE Ordered(kind, c) \o Whole(p \o q) = Lines(w)
<1>1. CASE kind = "STREAM"
  <2>1. p = <<>> /\ FlattenSeq(c) \o q = w
    BY <1>1 DEF ArrivesBy
  <2>2. <<>> \o q = q
    BY ConcatEmptySeq
  <2> QED BY <2>1, <2>2, <1>1
<1>2. CASE kind # "STREAM"
  <2>1. Ordered(kind, c) \o Whole(p \o (q \o <<>>)) = Lines(w \o <<>>)
    BY <1>2, WholeNothing DEF ArrivesBy
  <2>2. q \o <<>> = q /\ w \o <<>> = w
    BY ConcatEmptySeq
  <2> QED BY <2>1, <2>2, <1>2
<1> QED BY <1>1, <1>2

-----------------------------------------------------------------------------
(* What the child's input is fed with.                                     *)

Istring == Seq(Byte) \union {Null}
Held(l) == IF l = Null THEN <<>> ELSE l
MealsOf(j, lines) == FlattenSeq([i \in DOMAIN lines |-> Meal(j, lines[i])])

\* f is still to fetch, l the line fetched last, i in the buffer, q in the pipe, g read.
FedBy(j, f, l, i, q, g) ==
  \E k \in 0..Len(j.lines) :
    /\ f = Rest(j.lines, k) /\ Len(f) = Len(j.lines) - k
    /\ g \o (q \o (i \o Held(l))) = MealsOf(j, SubSeq(j.lines, 1, k))

LEMMA MealIs ==
  ASSUME NEW j \in Jobs, NEW l \in Seq(Byte)
  PROVE  Meal(j, l) \in Seq(Byte)
<1>1. LF \in Byte
  BY Bytes
<1>2. Append(l, LF) \in Seq(Byte)
  BY <1>1, AppendIs
<1> QED BY <1>2 DEF Meal

LEMMA MealsAppend ==
  ASSUME NEW j \in Jobs, NEW s \in Seq(Seq(Byte)), NEW l \in Seq(Byte)
  PROVE  /\ MealsOf(j, s) \in Seq(Byte)
         /\ MealsOf(j, Append(s, l)) = MealsOf(j, s) \o Meal(j, l)
<1> DEFINE M(x) == Meal(j, x)
           S == Seq(Byte)
           a == [i \in DOMAIN s |-> M(s[i])]
           t == Append(s, l)
           b == [i \in DOMAIN t |-> M(t[i])]
<1>1. \A x \in S : M(x) \in S
  BY MealIs
<1>2. s \in Seq(S) /\ l \in S
  OBVIOUS
<1> HIDE DEF M, S
<1>3. a \in Seq(S) /\ Len(a) = Len(s) /\ \A i \in 1..Len(s) : a[i] = M(s[i])
  <2>1. DOMAIN s = 1..Len(s) /\ Len(s) \in Nat /\ \A i \in 1..Len(s) : s[i] \in S
    BY <1>2
  <2> QED BY <2>1, <1>1
<1>4. t \in Seq(S) /\ Len(t) = Len(s) + 1 /\ t[Len(s) + 1] = l /\ \A i \in 1..Len(s) : t[i] = s[i]
  BY <1>2
<1> HIDE DEF t
<1>5. b \in Seq(S) /\ Len(b) = Len(t) /\ \A i \in 1..Len(t) : b[i] = M(t[i])
  <2>1. DOMAIN t = 1..Len(t) /\ Len(t) \in Nat /\ \A i \in 1..Len(t) : t[i] \in S
    BY <1>4
  <2> QED BY <2>1, <1>1
<1> HIDE DEF a, b
<1>6. b = Append(a, M(l))
  <2> DEFINE c == Append(a, M(l))
  <2>1. /\ c \in Seq(S) /\ Len(c) = Len(a) + 1 /\ c[Len(a) + 1] = M(l)
        /\ \A i \in 1..Len(a) : c[i] = a[i]
    BY <1>1, <1>2, <1>3
  <2> HIDE DEF c
  <2>2. Len(c) = Len(b) /\ Len(s) \in Nat
    BY <2>1, <1>2, <1>3, <1>4, <1>5
  <2>3. ASSUME NEW i \in 1..Len(b) PROVE b[i] = c[i]
    <3>1. CASE i \in 1..Len(s)
      BY <3>1, <2>1, <1>3, <1>4, <1>5
    <3>2. CASE i = Len(s) + 1
      BY <3>2, <2>1, <1>3, <1>4, <1>5
    <3>3. i \in 1..(Len(s) + 1)
      BY <2>3, <1>4, <1>5
    <3>4. i \in 1..Len(s) \/ i = Len(s) + 1
      BY <3>3, <2>2
    <3> QED BY <3>1, <3>2, <3>4
  <2> QED BY <2>1, <2>2, <2>3, <1>5, SeqEqual DEF c
<1>7. FlattenSeq(a) \in Seq(Byte) /\ FlattenSeq(Append(a, M(l))) = FlattenSeq(a) \o M(l)
  BY <1>1, <1>2, <1>3, FlattenAppend DEF S
<1> QED BY <1>6, <1>7, Zenon DEF MealsOf, a, b, t, M

LEMMA JobLines == \A j \in Jobs : j.lines \in Seq(Seq(Byte))
BY JobsAssumption

LEMMA FedFirst ==
  ASSUME NEW j \in Jobs
  PROVE  FedBy(j, j.lines, Null, <<>>, <<>>, <<>>)
<1> DEFINE s == j.lines
           S == Seq(Byte)
<1>1. s \in Seq(S)
  BY JobLines
<1> HIDE DEF s, S
<1>2. 0 \in 0..Len(s) /\ Rest(s, 0) = s /\ Len(s) = Len(s) - 0
  BY <1>1, SubSeqFull DEF Rest
<1>3. SubSeq(s, 1, 0) = <<>>
  BY <1>1
<1>4. MealsOf(j, <<>>) = <<>>
  <2>1. [i \in DOMAIN <<>> |-> Meal(j, (<<>>)[i])] = <<>>
    OBVIOUS
  <2>2. FlattenSeq(<<>>) = <<>>
    BY DEF FlattenSeq
  <2> QED BY <2>1, <2>2, Zenon DEF MealsOf
<1>5. <<>> \o (<<>> \o (<<>> \o Held(Null))) = <<>>
  <2>1. <<>> \o <<>> = <<>> /\ Held(Null) = <<>>
    BY WholeNothing, ConcatEmptySeq DEF Held
  <2> QED BY <2>1
<1> QED BY <1>2, <1>3, <1>4, <1>5 DEF FedBy, s

LEMMA FedFetch ==
  ASSUME NEW j \in Jobs, NEW f \in Seq(Seq(Byte)), NEW i \in Seq(Byte), NEW q \in Seq(Byte),
         NEW g \in Seq(Byte), FedBy(j, f, Null, i, q, g), f # <<>>
  PROVE  /\ Meal(j, Head(f)) \in Seq(Byte) /\ Meal(j, Head(f)) # Null /\ Tail(f) \in Seq(Seq(Byte))
         /\ FedBy(j, Tail(f), Meal(j, Head(f)), i, q, g)
<1> DEFINE s == j.lines
           S == Seq(Byte)
           h == Head(f)
           m == Meal(j, h)
<1>1. s \in Seq(S) /\ f \in Seq(S)
  BY JobLines
<1>2. PICK k \in 0..Len(s) : /\ f = Rest(s, k) /\ Len(f) = Len(s) - k
                             /\ g \o (q \o (i \o Held(Null))) = MealsOf(j, SubSeq(s, 1, k))
  BY DEF FedBy
<1>3. h \in S /\ Tail(f) \in Seq(S) /\ h = f[1] /\ Tail(f) = Rest(f, 1) /\ Len(f) \in Nat \ {0}
  <2> HIDE DEF S
  <2> QED BY <1>1 DEF Rest
<1>4. m \in Seq(Byte) /\ m # Null
  <2>1. m \in Seq(Byte)
    BY <1>3, MealIs
  <2> QED BY <2>1, NullAssumption
<1> HIDE DEF s, S, h
<1>5. k + 1 \in 0..Len(s) /\ Len(s) \in Nat /\ 1 \in 0..(Len(s) - k)
  BY <1>1, <1>2, <1>3
<1>6. Tail(f) = Rest(s, k + 1) /\ Len(Tail(f)) = Len(s) - (k + 1)
  <2>1. Rest(Rest(s, k), 1) = Rest(s, k + 1)
    BY <1>1, <1>5, RestRest
  <2>2. Len(Rest(s, k + 1)) = Len(s) - (k + 1)
    BY <1>1, <1>5, RestIs
  <2> QED BY <2>1, <2>2, <1>2, <1>3
<1>7. h = s[k + 1]
  <2>1. Rest(s, k)[1] = s[k + 1]
    BY <1>1, <1>5, RestIs
  <2> QED BY <2>1, <1>2, <1>3
<1> DEFINE p == SubSeq(s, 1, k)
<1>8. p \in Seq(S) /\ SubSeq(s, 1, k + 1) = Append(p, h)
  BY <1>1, <1>5, <1>7, SubSeqProperties, SMTT(30)
<1> HIDE DEF p
<1>9. MealsOf(j, Append(p, h)) = MealsOf(j, p) \o m
  BY <1>3, <1>8, MealsAppend DEF S
<1> HIDE DEF m
<1>10. g \o (q \o (i \o Held(m))) = MealsOf(j, Append(p, h))
  <2>1. Held(Null) = <<>> /\ Held(m) = m
    BY <1>4 DEF Held
  <2>2. i \o <<>> = i
    BY ConcatEmptySeq
  <2>3. g \o (q \o i) = MealsOf(j, p)
    BY <1>2, <2>1, <2>2 DEF p
  <2>4. q \o i \in Seq(Byte)
    BY ConcatProperties
  <2>5. (g \o (q \o i)) \o m = g \o ((q \o i) \o m)
    BY <2>4, <1>4, Regrouped, ZenonT(30)
  <2>6. (q \o i) \o m = q \o (i \o m)
    BY <1>4, Regrouped, Zenon
  <2> QED BY <2>1, <2>3, <2>5, <2>6, <1>9
<1>11. FedBy(j, Tail(f), m, i, q, g)
  BY <1>5, <1>6, <1>8, <1>10, Zenon DEF FedBy, s
<1> QED BY <1>3, <1>4, <1>11 DEF m, h, S

\* The line goes into the buffer, the buffer into the pipe, the pipe to the child.
LEMMA FedFill ==
  ASSUME NEW j \in Jobs, NEW f, NEW l \in Seq(Byte), NEW i \in Seq(Byte), NEW q \in Seq(Byte),
         NEW g \in Seq(Byte), NEW n \in 0..Len(l), FedBy(j, f, l, i, q, g)
  PROVE  LET r == Rest(l, n)
             b == i \o SubSeq(l, 1, n)
         IN  /\ r \in Seq(Byte) /\ b \in Seq(Byte) /\ Len(b) = Len(i) + n
             /\ FedBy(j, f, IF r = <<>> THEN Null ELSE r, b, q, g)
<1> DEFINE x == SubSeq(l, 1, n)
           r == Rest(l, n)
<1>1. x \in Seq(Byte) /\ r \in Seq(Byte) /\ x \o r = l /\ Len(x) = n
  BY Halves
<1> HIDE DEF x, r
<1>2. Held(l) = l /\ Held(IF r = <<>> THEN Null ELSE r) = r
  BY <1>1, NullAssumption DEF Held
<1>3. i \o x \in Seq(Byte) /\ Len(i \o x) = Len(i) + n
  BY <1>1, ConcatProperties
<1>4. (i \o x) \o r = i \o l
  <2>1. x \in Seq(Byte) /\ r \in Seq(Byte)
    BY <1>1
  <2>2. (i \o x) \o r = i \o (x \o r)
    BY <2>1, Regrouped, ZenonT(30)
  <2> QED BY <2>2, <1>1
<1>5. FedBy(j, f, IF r = <<>> THEN Null ELSE r, i \o x, q, g)
  BY <1>2, <1>4, Zenon DEF FedBy
<1> QED BY <1>1, <1>3, <1>5 DEF x, r

LEMMA FedWritten ==
  ASSUME NEW j \in Jobs, NEW f, NEW l \in Istring, NEW i \in Seq(Byte),
         NEW q \in Seq(Byte), NEW g \in Seq(Byte), NEW n \in 0..Len(i), FedBy(j, f, l, i, q, g)
  PROVE  LET r == Rest(i, n)
             b == q \o SubSeq(i, 1, n)
         IN  /\ r \in Seq(Byte) /\ Len(r) = Len(i) - n
             /\ b \in Seq(Byte) /\ Len(b) = Len(q) + n
             /\ FedBy(j, f, l, r, b, g)
<1> DEFINE x == SubSeq(i, 1, n)
           r == Rest(i, n)
           h == Held(l)
<1>1. x \in Seq(Byte) /\ r \in Seq(Byte) /\ x \o r = i /\ Len(x) = n /\ Len(r) = Len(i) - n
  BY Halves
<1>2. h \in Seq(Byte)
  BY WholeNothing DEF Held, Istring
<1> HIDE DEF x, r, h
<1>3. q \o x \in Seq(Byte) /\ Len(q \o x) = Len(q) + n
  BY <1>1, ConcatProperties
<1>4. r \o h \in Seq(Byte)
  BY <1>1, <1>2, ConcatProperties
<1>5. (q \o x) \o (r \o h) = q \o (x \o (r \o h))
  <2>1. x \in Seq(Byte)
    BY <1>1
  <2> QED BY <2>1, <1>4, Regrouped, Zenon
<1>6. (x \o r) \o h = x \o (r \o h)
  <2>1. x \in Seq(Byte) /\ r \in Seq(Byte)
    BY <1>1
  <2> QED BY <2>1, <1>2, Regrouped, Zenon
<1>7. (q \o x) \o (r \o h) = q \o (i \o h)
  BY <1>1, <1>5, <1>6
<1>8. FedBy(j, f, l, r, q \o x, g)
  BY <1>7, Zenon DEF FedBy, h
<1> QED BY <1>1, <1>3, <1>8 DEF x, r

\* The child takes the first byte of the pipe.

LEMMA TakenIs ==
  ASSUME NEW q \in Seq(Byte), NEW g \in Seq(Byte), q # <<>>
  PROVE  /\ Append(g, Head(q)) \in Seq(Byte) /\ Tail(q) \in Seq(Byte) /\ Len(Tail(q)) = Len(q) - 1
         /\ Append(g, Head(q)) \o Tail(q) = g \o q
<1> DEFINE h == <<Head(q)>>
           r == Tail(q)
<1>1. /\ Append(g, Head(q)) = g \o h /\ h \in Seq(Byte) /\ r \in Seq(Byte)
      /\ Append(g, Head(q)) \in Seq(Byte) /\ Len(r) = Len(q) - 1
  <2>1. Head(q) \in Byte /\ Tail(q) \in Seq(Byte) /\ Len(Tail(q)) = Len(q) - 1
    OBVIOUS
  <2> QED BY <2>1, AppendIs
<1>2. h \o r = q
  <2>1. 1 \in 0..Len(q) /\ Head(q) = q[1]
    OBVIOUS
  <2>2. SubSeq(q, 1, 1) \o Rest(q, 1) = q
    BY <2>1, Halves
  <2>3. SubSeq(q, 1, 1) = h
    <3> DEFINE e == SubSeq(q, 1, 1)
    <3>1. 1 \in 1..(Len(q) + 1) /\ 1 \in (1 - 1)..Len(q)
      BY <2>1
    <3>2. e \in Seq(Byte) /\ Len(e) = 1 - 1 + 1 /\ \A k \in 1..(1 - 1 + 1) : e[k] = q[1 + k - 1]
      BY <3>1, PieceIs
    <3> HIDE DEF e
    <3>3. Len(e) = 1 /\ e[1] = q[1]
      BY <3>2
    <3>4. e = <<q[1]>>
      BY <3>2, <3>3
    <3> QED BY <3>4, <2>1 DEF e
  <2>4. Rest(q, 1) = r
    BY DEF Rest
  <2> QED BY <2>2, <2>3, <2>4
<1> HIDE DEF h, r
<1>3. (g \o h) \o r = g \o (h \o r)
  <2>1. h \in Seq(Byte) /\ r \in Seq(Byte)
    BY <1>1
  <2> QED BY <2>1, Regrouped, Zenon
<1> QED BY <1>1, <1>2, <1>3 DEF r

LEMMA FedRead ==
  ASSUME NEW j \in Jobs, NEW f, NEW l \in Istring, NEW i \in Seq(Byte),
         NEW q \in Seq(Byte), NEW g \in Seq(Byte), q # <<>>, FedBy(j, f, l, i, q, g)
  PROVE  FedBy(j, f, l, i, Tail(q), Append(g, Head(q)))
<1> DEFINE a == Append(g, Head(q))
           r == Tail(q)
           h == i \o Held(l)
<1>1. a \in Seq(Byte) /\ r \in Seq(Byte) /\ a \o r = g \o q
  BY TakenIs
<1>2. h \in Seq(Byte)
  <2>1. Held(l) \in Seq(Byte)
    BY WholeNothing DEF Held, Istring
  <2> QED BY <2>1, ConcatProperties
<1> HIDE DEF a, r, h
<1>3. (a \o r) \o h = a \o (r \o h)
  <2>1. a \in Seq(Byte) /\ r \in Seq(Byte)
    BY <1>1
  <2> QED BY <2>1, <1>2, Regrouped, Zenon
<1>4. (g \o q) \o h = g \o (q \o h)
  BY <1>2, Regrouped, Zenon
<1>5. a \o (r \o h) = g \o (q \o h)
  BY <1>1, <1>3, <1>4
<1>6. FedBy(j, f, l, i, r, a)
  BY <1>5, Zenon DEF FedBy, h
<1> QED BY <1>6 DEF a, r

\* What it means now.
FedSoFar(j, f, l, i, q, g) ==
  ((g \o q) \o i) \o Held(l) = MealsOf(j, SubSeq(j.lines, 1, Len(j.lines) - Len(f)))

LEMMA FedMeans ==
  ASSUME NEW j \in Jobs, NEW f, NEW l \in Istring, NEW i \in Seq(Byte),
         NEW q \in Seq(Byte), NEW g \in Seq(Byte), FedBy(j, f, l, i, q, g)
  PROVE  FedSoFar(j, f, l, i, q, g)
<1> DEFINE s == j.lines
           S == Seq(Byte)
           h == Held(l)
<1>1. s \in Seq(S)
  BY JobLines
<1>2. PICK k \in 0..Len(s) : /\ f = Rest(s, k) /\ Len(f) = Len(s) - k
                             /\ g \o (q \o (i \o h)) = MealsOf(j, SubSeq(s, 1, k))
  BY DEF FedBy
<1>3. h \in Seq(Byte)
  BY WholeNothing DEF Held, Istring
<1> HIDE DEF s, S, h
<1>4. Len(s) \in Nat /\ k = Len(s) - Len(f)
  BY <1>1, <1>2
<1>5. ((g \o q) \o i) \o h = g \o (q \o (i \o h))
  <2>1. g \o q \in Seq(Byte) /\ i \o h \in Seq(Byte)
    BY <1>3, ConcatProperties
  <2>2. ((g \o q) \o i) \o h = (g \o q) \o (i \o h)
    BY <2>1, <1>3, Regrouped, Zenon
  <2>3. (g \o q) \o (i \o h) = g \o (q \o (i \o h))
    BY <2>1, Regrouped, ZenonT(30)
  <2> QED BY <2>2, <2>3
<1> QED BY <1>2, <1>4, <1>5 DEF s, h, FedSoFar

\* All is in the pipe or read; nothing is left to fetch, in the string and in the buffer.
Fed(j, q, g) == g \o q = MealsOf(j, j.lines)
AllFed(f, l, i) == f = <<>> /\ l = Null /\ i = <<>>

LEMMA FedAll ==
  ASSUME NEW j \in Jobs, NEW f, NEW l \in Istring, NEW i \in Seq(Byte),
         NEW q \in Seq(Byte), NEW g \in Seq(Byte), FedBy(j, f, l, i, q, g),
         AllFed(f, l, i)
  PROVE  Fed(j, q, g)
<1> DEFINE s == j.lines
           S == Seq(Byte)
           h == Held(l)
<1>1. s \in Seq(S)
  BY JobLines
<1>2. PICK k \in 0..Len(s) : /\ f = Rest(s, k) /\ Len(f) = Len(s) - k
                             /\ g \o (q \o (i \o h)) = MealsOf(j, SubSeq(s, 1, k))
  BY DEF FedBy
<1> HIDE DEF s, S
<1>3. Len(f) = 0 /\ i \o h = <<>>
  BY WholeNothing, ConcatEmptySeq DEF AllFed, Held
<1>4. k = Len(s)
  BY <1>1, <1>2, <1>3
<1>5. SubSeq(s, 1, k) = s
  BY <1>4, <1>1, SubSeqFull
<1>6. q \o <<>> = q
  BY ConcatEmptySeq
<1> QED BY <1>2, <1>3, <1>5, <1>6 DEF s, Fed

-----------------------------------------------------------------------------
(***************************************************************************)
(* The inductive invariant of ArrivesWhole.  It says of the bytes reaped   *)
(* so far what becomes of them whatever the child writes behind them, for  *)
(* a terminator at their end may prove to be the first half of one; and it *)
(* says at every place which ends can still carry something.               *)
(***************************************************************************)
Phases == Channels \union {"idle", "fork", "poll", "drain", "wait", "aborted"}

Kinds ==
  /\ phase \in Phases /\ job \in Jobs /\ food \in Seq(Seq(Byte))
  /\ line \in Istring /\ iobuf \in Seq(Byte)
  /\ open \subseteq Channels /\ ends \subseteq Channels
  /\ partial \in [Outputs -> Seq(Byte)] /\ crop \in [Outputs -> Seq(Seq(Byte))]
  /\ pipe \in [Channels -> Seq(Byte)]
  /\ want \in Calls \union {Null}
  /\ got \in Seq(Byte) /\ wrote \in [Outputs -> Seq(Byte)]

Nothing == [ch \in Outputs |-> <<>>]

\* Before the fork everything is empty; behind it no end carries what is not
\* redirected, and an output is closed only when the child has closed it and it is empty.
Ends ==
  /\ phase = "fork" => /\ food = job.lines /\ line = Null /\ iobuf = <<>>
                       /\ partial = Nothing /\ crop = Nothing /\ want = Null /\ ~alive
  /\ want # Null /\ want.op = "write" => want.ch \in ends
  /\ Running => ends \subseteq Redirected(job)
  /\ Running => \A ch \in Outputs \ open : ch \notin ends /\ pipe[ch] = <<>>
  /\ phase \in {"drain", "wait"} => open = {}

Feeding ==
  Running =>
    /\ Len(iobuf) <= BufCap /\ Len(pipe["in"]) <= PipeCap
    /\ "in" \in open => FedBy(job, food, line, iobuf, pipe["in"], got)
    /\ "in" \in ends \ open => Fed(job, pipe["in"], got)

Bringing ==
  Running =>
    \A ch \in Outputs :
      IF phase = "wait" THEN partial[ch] = <<>> /\ Arrived(Target(ch), crop[ch], wrote[ch])
      ELSE ArrivesBy(Target(ch), crop[ch], partial[ch], pipe[ch], wrote[ch])

IInv == Watching /\ Kinds /\ Ends /\ Feeding /\ Bringing

LEMMA Caps == BufCap \in Nat \ {0} /\ PipeCap \in Nat /\ PipeAtomic \in Nat \ {0}
BY CapsAssumption

\* A step behind which no command runs.
LEMMA StopsRunning ==
  ASSUME IInv, phase' \in {"idle", "aborted"}, UNCHANGED <<want, ends>>
  PROVE  Ends' /\ Feeding' /\ Bringing'
BY DEF IInv, Ends, Feeding, Bringing, Running, Channels, Outputs

\* A step that moves nothing and at most closes ends that can carry nothing more.
LEMMA MovesNothing ==
  ASSUME IInv, Running, phase # "wait",
         phase' \in Channels \union {"poll", "drain"}, phase' = "drain" => open' = {},
         UNCHANGED <<job, food, line, iobuf, partial, crop, pipe, childVars>>,
         open' \subseteq open,
         "in" \in open \ open' => "in" \notin ends \/ AllFed(food, line, iobuf),
         \A ch \in Outputs : ch \in open \ open' => ch \notin ends /\ pipe[ch] = <<>>
  PROVE  Kinds' /\ Ends' /\ Feeding' /\ Bringing'
<1> USE DEF childVars
<1>1. Kinds'
  BY DEF IInv, Kinds, Phases
<1>2. Running' /\ phase' # "wait" /\ phase' # "fork"
  BY DEF Running, Channels, Outputs
<1>3. Ends'
  <2>1. ends' \subseteq Redirected(job)'
    BY DEF IInv, Ends, Redirected
  <2>2. \A ch \in Outputs \ open' : ch \notin ends' /\ pipe'[ch] = <<>>
    BY DEF IInv, Ends
  <2>3. want' # Null /\ want'.op = "write" => want'.ch \in ends'
    BY DEF IInv, Ends
  <2> QED BY <1>2, <2>1, <2>2, <2>3 DEF Ends
<1>4. Feeding'
  <2>1. Len(iobuf) <= BufCap /\ Len(pipe["in"]) <= PipeCap
    BY DEF IInv, Feeding
  <2>2. "in" \in open => FedBy(job, food, line, iobuf, pipe["in"], got)
    BY DEF IInv, Feeding
  <2>3. ASSUME "in" \in ends \ open'
        PROVE  Fed(job, pipe["in"], got)
    <3>1. CASE "in" \notin open
      BY <3>1, <2>3 DEF IInv, Feeding
    <3>2. CASE "in" \in open
      <4>1. AllFed(food, line, iobuf)
        BY <3>2, <2>3
      <4>2. pipe["in"] \in Seq(Byte)
        BY DEF IInv, Kinds, Channels
      <4>3. /\ job \in Jobs /\ got \in Seq(Byte) /\ iobuf \in Seq(Byte)
            /\ line \in Istring
        BY DEF IInv, Kinds
      <4>4. FedBy(job, food, line, iobuf, pipe["in"], got)
        BY <2>2, <3>2
      <4> QED BY <4>1, <4>2, <4>3, <4>4, FedAll
    <3> QED BY <3>1, <3>2
  <2> QED BY <2>1, <2>2, <2>3 DEF Feeding
<1>5. Bringing'
  <2>1. \A ch \in Outputs : ArrivesBy(Target(ch), crop[ch], partial[ch], pipe[ch], wrote[ch])
    BY DEF IInv, Bringing
  <2>2. \A ch \in Outputs : Target(ch)' = Target(ch)
    BY DEF Target
  <2> QED BY <1>2, <2>1, <2>2 DEF Bringing
<1> QED BY <1>1, <1>3, <1>4, <1>5

LEMMA StepSetup ==
  ASSUME IInv, NEW j \in Jobs, Setup(j)
  PROVE  Kinds' /\ Ends' /\ Feeding' /\ Bringing'
<1> USE DEF Setup, Cleanup
<1>1. Kinds'
  <2>1. j.lines \in Seq(Seq(Byte)) /\ <<>> \in Seq(Byte) /\ <<>> \in Seq(Seq(Byte))
    BY JobLines
  <2> QED BY <2>1 DEF IInv, Kinds, Phases, Istring
<1>2. Ends'
  BY DEF IInv, Ends, Nothing, Running, Channels, Outputs
<1>3. ~Running'
  BY DEF Running, Channels, Outputs
<1> QED BY <1>1, <1>2, <1>3 DEF Feeding, Bringing

LEMMA StepFork ==
  ASSUME IInv, Fork
  PROVE  Kinds' /\ Ends' /\ Feeding' /\ Bringing'
<1>0. /\ food = job.lines /\ line = Null /\ iobuf = <<>> /\ partial = Nothing /\ crop = Nothing
      /\ want = Null
  BY DEF Fork, IInv, Ends
<1>1. /\ phase' = "in" /\ open' = Redirected(job) /\ ends' = Redirected(job) /\ alive' = TRUE
      /\ pipe' = [ch \in Channels |-> <<>>] /\ got' = <<>> /\ wrote' = [ch \in Outputs |-> <<>>]
      /\ UNCHANGED <<job, food, line, iobuf, partial, crop, want>>
  BY DEF Fork
<1>2. Redirected(job) \subseteq Channels /\ Redirected(job)' = Redirected(job)
  BY <1>1 DEF Redirected
<1>3. Kinds'
  <2>1. <<>> \in Seq(Byte)
    OBVIOUS
  <2> QED BY <1>1, <1>2, <2>1 DEF IInv, Kinds, Phases, Channels
<1>4. \A ch \in Outputs : pipe'[ch] = <<>> /\ wrote'[ch] = <<>> /\ partial'[ch] = <<>> /\ crop'[ch] = <<>>
  BY <1>0, <1>1 DEF Nothing, Channels
<1>5. pipe'["in"] = <<>>
  BY <1>1 DEF Channels
<1>6. Ends'
  BY <1>0, <1>1, <1>2, <1>4 DEF Ends
<1>7. Feeding'
  <2>1. job \in Jobs
    BY DEF IInv, Kinds
  <2>2. FedBy(job, job.lines, Null, <<>>, <<>>, <<>>)
    BY <2>1, FedFirst
  <2>3. Len(<<>>) = 0 /\ 0 <= BufCap /\ 0 <= PipeCap
    BY Caps
  <2> QED BY <1>0, <1>1, <1>5, <2>2, <2>3 DEF Feeding
<1>8. Bringing'
  <2>1. \A ch \in Outputs : ArrivesBy(Target(ch)', <<>>, <<>>, <<>>, <<>>)
    BY ArrivesFirst
  <2>2. phase' # "wait"
    BY <1>1
  <2> QED BY <1>4, <2>1, <2>2 DEF Bringing
<1> QED BY <1>3, <1>6, <1>7, <1>8

LEMMA StepSkip ==
  ASSUME IInv, NEW ch \in Channels, Skip(ch)
  PROVE  Kinds' /\ Ends' /\ Feeding' /\ Bringing'
<1>1. phase \in Channels /\ phase' \in Channels \union {"poll"} /\ phase' # "drain"
  BY DEF Skip, Leave, Channels, Outputs
<1>2. Running /\ phase # "wait"
  BY <1>1 DEF Running, Channels, Outputs
<1> QED BY <1>1, <1>2, MovesNothing DEF Skip

LEMMA StepFeedNothing ==
  ASSUME IInv, FeedNothing
  PROVE  Kinds' /\ Ends' /\ Feeding' /\ Bringing'
<1>1. phase = "in" /\ phase' = "out"
  BY DEF FeedNothing, AddWaiter, Leave
<1>2. Running /\ phase # "wait" /\ phase' \in Channels \union {"poll"} /\ phase' # "drain"
  BY <1>1 DEF Running, Channels, Outputs
<1> QED BY <1>2, MovesNothing DEF FeedNothing, AddWaiter

LEMMA StepNextTurn ==
  ASSUME IInv, phase = "poll", NextTurn
  PROVE  Kinds' /\ Ends' /\ Feeding' /\ Bringing'
<1>1. Running /\ phase # "wait" /\ phase' \in Channels \union {"poll", "drain"}
  BY DEF NextTurn, Running, Channels, Outputs
<1>2. phase' = "drain" => open' = {}
  BY DEF NextTurn
<1> QED BY <1>1, <1>2, MovesNothing DEF NextTurn

LEMMA StepStop ==
  ASSUME IInv, ForkFails \/ Wait \/ Fault
  PROVE  Kinds' /\ Ends' /\ Feeding' /\ Bringing'
<1>1. phase' = "idle" /\ UNCHANGED <<want, ends>>
  BY DEF ForkFails, Wait, Fault, childVars
<1>2. Kinds'
  <2>1. <<>> \in Seq(Byte)
    OBVIOUS
  <2> QED BY <2>1 DEF IInv, Kinds, Phases, ForkFails, Wait, Fault, childVars, Cleanup
<1> QED BY <1>1, <1>2, StopsRunning

LEMMA BringingAlike ==
  ASSUME IInv, Running, phase # "wait", phase' # "wait", UNCHANGED <<job, partial, crop, wrote>>,
         \A ch \in Outputs : pipe'[ch] = pipe[ch]
  PROVE  Bringing'
<1>1. \A ch \in Outputs : ArrivesBy(Target(ch), crop[ch], partial[ch], pipe[ch], wrote[ch])
  BY DEF IInv, Bringing
<1>2. \A ch \in Outputs : Target(ch)' = Target(ch)
  BY DEF Target
<1> QED BY <1>1, <1>2 DEF Bringing

LEMMA EndsAlike ==
  ASSUME IInv, Running, phase' \in Channels \union {"poll"}, UNCHANGED <<job, ends, want>>,
         open' \subseteq open, open \ open' \subseteq {"in"},
         \A ch \in Outputs : pipe'[ch] = pipe[ch]
  PROVE  Ends'
<1>1. phase' \notin {"fork", "drain", "wait"} /\ Running'
  BY DEF Running, Channels, Outputs
<1>2. ends' \subseteq Redirected(job)'
  BY DEF IInv, Ends, Redirected
<1>3. want' # Null /\ want'.op = "write" => want'.ch \in ends'
  BY DEF IInv, Ends
<1>4. ASSUME NEW ch \in Outputs \ open' PROVE ch \notin ends' /\ pipe'[ch] = <<>>
  <2>1. ch \notin open
    BY DEF Outputs
  <2> QED BY <2>1 DEF IInv, Ends
<1> QED BY <1>1, <1>2, <1>3, <1>4 DEF Ends

LEMMA StepFetch ==
  ASSUME IInv, Fetch
  PROVE  Kinds' /\ Ends' /\ Feeding' /\ Bringing'
<1>1. /\ phase = "in" /\ "in" \in open /\ line = Null /\ food # <<>> /\ food' = Tail(food)
      /\ UNCHANGED <<job, iobuf, open, waits, partial, crop, pipe, ends, want, alive, got, wrote>>
  BY DEF Fetch, childVars
<1>2. /\ job \in Jobs /\ food \in Seq(Seq(Byte)) /\ iobuf \in Seq(Byte) /\ pipe["in"] \in Seq(Byte)
      /\ got \in Seq(Byte)
  BY DEF IInv, Kinds, Channels
<1>3. Running /\ phase # "wait"
  BY <1>1 DEF Running, Channels
<1>4. /\ Len(iobuf) <= BufCap /\ Len(pipe["in"]) <= PipeCap
      /\ FedBy(job, food, Null, iobuf, pipe["in"], got)
  BY <1>1, <1>3 DEF IInv, Feeding
<1>5. /\ Meal(job, Head(food)) \in Seq(Byte) /\ Tail(food) \in Seq(Seq(Byte))
      /\ FedBy(job, Tail(food), Meal(job, Head(food)), iobuf, pipe["in"], got)
  BY <1>1, <1>2, <1>4, FedFetch
<1>6. CASE phase' = "aborted" /\ UNCHANGED line
  <2>1. Kinds'
    BY <1>1, <1>5, <1>6 DEF IInv, Kinds, Phases
  <2> QED BY <1>1, <1>6, <2>1, StopsRunning
<1>7. CASE line' = Meal(job, Head(food)) /\ UNCHANGED phase
  <2>1. Kinds'
    BY <1>1, <1>5, <1>7 DEF IInv, Kinds, Phases, Istring
  <2>2. phase' \in Channels \union {"poll"} /\ phase' # "wait"
    BY <1>1, <1>7 DEF Channels
  <2>3. Ends'
    BY <1>1, <1>3, <2>2, EndsAlike
  <2>4. Bringing'
    BY <1>1, <1>3, <2>2, BringingAlike
  <2>5. Feeding'
    BY <1>1, <1>4, <1>5, <1>7 DEF Feeding
  <2> QED BY <2>1, <2>3, <2>4, <2>5
<1> QED BY <1>6, <1>7 DEF Fetch

LEMMA WriteIs ==
  ASSUME pipe \in [Channels -> Seq(Byte)], Len(pipe["in"]) <= PipeCap, NEW k \in Nat,
         NEW n \in WriteResults(k)
  PROVE  /\ Max({n, 0}) \in 0..k /\ Len(pipe["in"]) + Max({n, 0}) <= PipeCap
         /\ n = -1 => "in" \notin ends
         /\ n = k => Max({n, 0}) = k
<1> DEFINE q == pipe["in"]
<1>1. Len(q) \in Nat /\ PipeCap \in Nat
  BY Caps DEF Channels
<1> HIDE DEF q
<1>2. Len(q) <= PipeCap
  BY DEF q
<1>3. Max({-1, 0}) = 0 /\ Max({0, 0}) = 0 /\ \A m \in Nat : Max({m, 0}) = m
  BY DEF Max
<1>4. \/ n = -1 /\ "in" \notin ends
      \/ n = k /\ PipeCap - Len(q) >= k
      \/ n = 0
      \/ n \in 1..(PipeCap - Len(q)) /\ PipeCap - Len(q) < k
  <2> DEFINE d == PipeCap - Len(q)
  <2>1. d \in Int
    BY <1>1
  <2>2. Room = d
    BY DEF Room, q
  <2> HIDE DEF d
  <2>6. ~(d >= k /\ d < k)
    BY <2>1
  <2>3. CASE "in" \notin ends
    <3>1. n \in {-1}
      BY <2>3, Zenon DEF WriteResults
    <3> QED BY <3>1, <2>3
  <2>4. CASE "in" \in ends /\ d >= k
    <3>1. WriteResults(k) = {k}
      BY <2>2, <2>4, <2>6, Zenon DEF WriteResults
    <3> QED BY <3>1, <2>4 DEF d
  <2>5. CASE "in" \in ends /\ d < k
    <3>1. WriteResults(k) \in {{0}, 1..d}
      BY <2>1, <2>2, <2>5 DEF WriteResults
    <3>2. n = 0 \/ n \in 1..d
      BY <3>1
    <3> QED BY <3>2, <2>5 DEF d
  <2> QED BY <2>1, <2>3, <2>4, <2>5
<1>5. CASE n = -1 /\ "in" \notin ends
  BY <1>1, <1>2, <1>3, <1>5 DEF q
<1>6. CASE n = k /\ PipeCap - Len(q) >= k
  <2>1. Max({n, 0}) = k /\ n # -1
    BY <1>3, <1>6
  <2> QED BY <1>1, <1>6, <2>1 DEF q
<1>7. CASE n = 0
  BY <1>1, <1>2, <1>3, <1>7 DEF q
<1>8. CASE n \in 1..(PipeCap - Len(q)) /\ PipeCap - Len(q) < k
  <2>1. n \in Nat /\ n # -1 /\ n # k
    BY <1>1, <1>8
  <2>2. Max({n, 0}) = n
    BY <1>3, <2>1
  <2> QED BY <1>1, <1>8, <2>1, <2>2 DEF q
<1> QED BY <1>4, <1>5, <1>6, <1>7, <1>8

\* A write of s, which is fed by then.
LEMMA WriteDoes ==
  ASSUME IInv, Running, NEW s \in Seq(Byte), Len(s) <= BufCap, NEW l \in Istring,
         FedBy(job, food, l, s, pipe["in"], got),
         NEW n \in WriteResults(Len(s)), WriteOut(s, Max({n, 0}))
  PROVE  /\ iobuf' \in Seq(Byte) /\ Len(iobuf') <= BufCap
         /\ pipe' \in [Channels -> Seq(Byte)] /\ Len(pipe'["in"]) <= PipeCap
         /\ \A ch \in Outputs : pipe'[ch] = pipe[ch]
         /\ FedBy(job, food, l, iobuf', pipe'["in"], got)
         /\ n = -1 => "in" \notin ends
         /\ n = Len(s) => iobuf' = <<>>
<1> DEFINE q == pipe["in"]
           m == Max({n, 0})
           b == q \o SubSeq(s, 1, m)
           r == Rest(s, m)
<1>1. /\ pipe \in [Channels -> Seq(Byte)] /\ q \in Seq(Byte) /\ got \in Seq(Byte) /\ job \in Jobs
      /\ Len(q) <= PipeCap
  BY DEF IInv, Kinds, Feeding, Channels
<1>2. /\ m \in 0..Len(s) /\ Len(q) + m <= PipeCap
      /\ n = -1 => "in" \notin ends
      /\ n = Len(s) => m = Len(s)
  BY <1>1, WriteIs
<1>3. pipe' = [pipe EXCEPT !["in"] = b] /\ iobuf' = r
  BY <1>1 DEF WriteOut, Rest
<1>8. FedBy(job, food, l, s, q, got)
  OBVIOUS
<1> HIDE DEF m, q
<1>9. m \in 0..Len(s)
  BY <1>2
<1>4. /\ r \in Seq(Byte) /\ Len(r) = Len(s) - m /\ b \in Seq(Byte) /\ Len(b) = Len(q) + m
      /\ FedBy(job, food, l, r, b, got)
  <2>1. job \in Jobs /\ q \in Seq(Byte) /\ got \in Seq(Byte)
    BY <1>1
  <2> QED BY <2>1, <1>8, <1>9, FedWritten
<1> HIDE DEF b, r
<1>5. pipe' \in [Channels -> Seq(Byte)] /\ pipe'["in"] = b /\ \A ch \in Outputs : pipe'[ch] = pipe[ch]
  BY <1>1, <1>3, <1>4 DEF Channels, Outputs
<1>6. Len(r) <= BufCap /\ Len(b) <= PipeCap
  <2>1. Len(s) \in Nat /\ m \in 0..Len(s) /\ Len(r) = Len(s) - m /\ Len(b) = Len(q) + m
    BY <1>4, <1>9
  <2>2. Len(s) <= BufCap /\ Len(q) + m <= PipeCap /\ BufCap \in Nat
    BY <1>2, Caps
  <2> QED BY <2>1, <2>2
<1>7. n = Len(s) => r = <<>>
  <2>1. ASSUME n = Len(s) PROVE r = <<>>
    <3>1. Len(r) = 0
      BY <2>1, <1>2, <1>4
    <3> QED BY <3>1, <1>4
  <2> QED BY <2>1
<1>10. n = -1 => "in" \notin ends
  BY <1>2
<1> QED BY <1>3, <1>4, <1>5, <1>6, <1>7, <1>10

\* What the steps that feed leave.
LEMMA Feeds ==
  ASSUME IInv, phase = "in", "in" \in open, Again \/ AddWaiter("in") \/ Close("in"),
         UNCHANGED <<job, food, partial, crop, ends, want, alive, got, wrote>>,
         line' \in Istring, iobuf' \in Seq(Byte), Len(iobuf') <= BufCap,
         pipe' \in [Channels -> Seq(Byte)], Len(pipe'["in"]) <= PipeCap,
         \A ch \in Outputs : pipe'[ch] = pipe[ch],
         FedBy(job, food, line', iobuf', pipe'["in"], got),
         Close("in") => "in" \notin ends \/ AllFed(food, line', iobuf')
  PROVE  Kinds' /\ Ends' /\ Feeding' /\ Bringing'
<1>1. Running /\ phase # "wait"
  BY DEF Running, Channels
<1>2. /\ phase' \in Channels \union {"poll"} /\ phase' # "wait" /\ phase' \in Phases
      /\ open' \subseteq open /\ open \ open' \subseteq {"in"}
      /\ open' = open \/ Close("in")
  BY DEF Again, AddWaiter, Close, Leave, Channels, Outputs, Phases
<1>3. Kinds'
  BY <1>2 DEF IInv, Kinds
<1>4. Ends'
  BY <1>1, <1>2, EndsAlike
<1>5. Bringing'
  BY <1>1, <1>2, BringingAlike
<1>6. Feeding'
  <2>1. ASSUME "in" \in ends \ open' PROVE Fed(job, pipe'["in"], got)
    <3>1. Close("in")
      BY <1>2, <2>1
    <3>2. AllFed(food, line', iobuf')
      BY <2>1, <3>1
    <3>3. job \in Jobs /\ got \in Seq(Byte) /\ pipe'["in"] \in Seq(Byte)
      BY DEF IInv, Kinds, Channels
    <3> QED BY <3>2, <3>3, FedAll
  <2> QED BY <2>1 DEF Feeding
<1> QED BY <1>3, <1>4, <1>5, <1>6

LEMMA StepFeed ==
  ASSUME IInv, Feed
  PROVE  Kinds' /\ Ends' /\ Feeding' /\ Bringing'
<1> DEFINE room   == BufCap - Len(iobuf)
           todo   == Min({Len(line), room})
           filled == iobuf \o SubSeq(line, 1, todo)
           rest   == SubSeq(line, todo + 1, Len(line))
           next   == IF rest = <<>> THEN Null ELSE rest
<1>1. /\ phase = "in" /\ "in" \in open /\ line \notin {Null, <<>>}
      /\ line' = next
      /\ UNCHANGED <<job, food, partial, crop, ends, want, alive, got, wrote>>
      /\ \/ Len(filled) < BufCap /\ iobuf' = filled /\ Again /\ UNCHANGED pipe
         \/ /\ Len(filled) = BufCap
            /\ \E n \in WriteResults(BufCap) :
                 /\ WriteOut(filled, Max({n, 0}))
                 /\ CASE n > 0 \/ (todo > 0 /\ rest = <<>>) -> Again
                      [] n = -1 /\ todo = 0                 -> Close("in")
                      [] OTHER                              -> AddWaiter("in")
  BY DEF Feed, childVars
<1>2. /\ job \in Jobs /\ line \in Seq(Byte) /\ iobuf \in Seq(Byte) /\ pipe["in"] \in Seq(Byte)
      /\ got \in Seq(Byte) /\ pipe \in [Channels -> Seq(Byte)]
  BY <1>1 DEF IInv, Kinds, Istring, Channels
<1>3. Running
  BY <1>1 DEF Running, Channels
<1>4. /\ Len(iobuf) <= BufCap /\ Len(pipe["in"]) <= PipeCap
      /\ FedBy(job, food, line, iobuf, pipe["in"], got)
  BY <1>1, <1>3 DEF IInv, Feeding
<1>5. todo \in 0..Len(line) /\ Len(iobuf) + todo <= BufCap
  <2>1. Len(line) \in Nat /\ Len(iobuf) \in Nat /\ BufCap \in Nat /\ room \in Nat
    BY <1>2, <1>4, Caps
  <2> HIDE DEF room
  <2>2. todo = IF Len(line) <= room THEN Len(line) ELSE room
    BY <2>1, TwoNats
  <2> QED BY <2>1, <2>2 DEF room
<1> HIDE DEF todo
<1>6. /\ rest \in Seq(Byte) /\ filled \in Seq(Byte) /\ Len(filled) = Len(iobuf) + todo
      /\ FedBy(job, food, next, filled, pipe["in"], got)
  BY <1>2, <1>4, <1>5, FedFill DEF Rest
<1>7. next \in Istring
  BY <1>6 DEF Istring
<1> HIDE DEF rest, filled, next
<1>8. CASE Len(filled) < BufCap /\ iobuf' = filled /\ Again /\ UNCHANGED pipe
  <2>1. ~Close("in")
    BY <1>1, <1>8 DEF Again, Close, Leave
  <2>2. \A ch \in Outputs : pipe'[ch] = pipe[ch]
    BY <1>8
  <2>3. Len(iobuf') <= BufCap
    BY <1>5, <1>6, <1>8
  <2>4. FedBy(job, food, line', iobuf', pipe'["in"], got)
    BY <1>1, <1>6, <1>8
  <2>5. /\ line' \in Istring /\ iobuf' \in Seq(Byte)
        /\ pipe' \in [Channels -> Seq(Byte)] /\ Len(pipe'["in"]) <= PipeCap
    BY <1>1, <1>2, <1>4, <1>6, <1>7, <1>8
  <2> QED BY <1>1, <1>8, <2>1, <2>2, <2>3, <2>4, <2>5, Feeds
<1>9. ASSUME Len(filled) = BufCap, NEW n \in WriteResults(BufCap), WriteOut(filled, Max({n, 0})),
             CASE n > 0 \/ (todo > 0 /\ rest = <<>>) -> Again
               [] n = -1 /\ todo = 0                 -> Close("in")
               [] OTHER                              -> AddWaiter("in")
      PROVE  Kinds' /\ Ends' /\ Feeding' /\ Bringing'
  <2>1. n \in WriteResults(Len(filled)) /\ Len(filled) <= BufCap
    BY <1>9, Caps
  <2>2. /\ iobuf' \in Seq(Byte) /\ Len(iobuf') <= BufCap
        /\ pipe' \in [Channels -> Seq(Byte)] /\ Len(pipe'["in"]) <= PipeCap
        /\ \A ch \in Outputs : pipe'[ch] = pipe[ch]
        /\ FedBy(job, food, next, iobuf', pipe'["in"], got)
        /\ n = -1 => "in" \notin ends
    BY <1>3, <1>6, <1>7, <1>9, <2>1, WriteDoes
  <2>3. Again \/ AddWaiter("in") \/ Close("in")
    BY <1>9
  <2>4. Close("in") => n = -1
    <3>1. Close("in") => ~Again /\ ~AddWaiter("in")
      BY <1>1 DEF Close, Again, AddWaiter, Leave
    <3> QED BY <3>1, <1>9
  <2>5. Close("in") => "in" \notin ends \/ AllFed(food, line', iobuf')
    BY <2>2, <2>4
  <2>6. FedBy(job, food, line', iobuf', pipe'["in"], got) /\ line' \in Istring
    BY <1>1, <1>7, <2>2
  <2> QED BY <1>1, <2>2, <2>3, <2>5, <2>6, Feeds
<1> QED BY <1>1, <1>8, <1>9

LEMMA StepFlush ==
  ASSUME IInv, Flush
  PROVE  Kinds' /\ Ends' /\ Feeding' /\ Bringing'
<1>1. /\ phase = "in" /\ "in" \in open /\ line = Null /\ food = <<>>
      /\ UNCHANGED <<job, food, line, partial, crop, ends, want, alive, got, wrote>>
      /\ \/ iobuf = <<>> /\ Close("in") /\ UNCHANGED <<iobuf, pipe>>
         \/ /\ iobuf # <<>>
            /\ \E n \in WriteResults(Len(iobuf)) :
                 /\ WriteOut(iobuf, Max({n, 0}))
                 /\ CASE n \in {-1, Len(iobuf)} -> Close("in")
                      [] n = 0                  -> AddWaiter("in")
                      [] OTHER                  -> Again
  BY DEF Flush, childVars
<1>2. /\ job \in Jobs /\ line \in Istring /\ iobuf \in Seq(Byte) /\ pipe["in"] \in Seq(Byte)
      /\ got \in Seq(Byte) /\ pipe \in [Channels -> Seq(Byte)]
  BY <1>1 DEF IInv, Kinds, Channels
<1>3. Running
  BY <1>1 DEF Running, Channels
<1>4. /\ Len(iobuf) <= BufCap /\ Len(pipe["in"]) <= PipeCap
      /\ FedBy(job, food, line, iobuf, pipe["in"], got)
  BY <1>1, <1>3 DEF IInv, Feeding
<1>5. CASE iobuf = <<>> /\ Close("in") /\ UNCHANGED <<iobuf, pipe>>
  <2>1. AllFed(food, line', iobuf')
    BY <1>1, <1>5 DEF AllFed
  <2>2. \A ch \in Outputs : pipe'[ch] = pipe[ch]
    BY <1>5
  <2>3. FedBy(job, food, line', iobuf', pipe'["in"], got)
    BY <1>1, <1>4, <1>5
  <2>4. /\ line' \in Istring /\ iobuf' \in Seq(Byte) /\ Len(iobuf') <= BufCap
        /\ pipe' \in [Channels -> Seq(Byte)] /\ Len(pipe'["in"]) <= PipeCap
    BY <1>1, <1>2, <1>4, <1>5
  <2> QED BY <1>1, <1>5, <2>1, <2>2, <2>3, <2>4, Feeds
<1>6. ASSUME NEW n \in WriteResults(Len(iobuf)), WriteOut(iobuf, Max({n, 0})),
             CASE n \in {-1, Len(iobuf)} -> Close("in")
               [] n = 0                  -> AddWaiter("in")
               [] OTHER                  -> Again
      PROVE  Kinds' /\ Ends' /\ Feeding' /\ Bringing'
  <2>1. /\ iobuf' \in Seq(Byte) /\ Len(iobuf') <= BufCap
        /\ pipe' \in [Channels -> Seq(Byte)] /\ Len(pipe'["in"]) <= PipeCap
        /\ \A ch \in Outputs : pipe'[ch] = pipe[ch]
        /\ FedBy(job, food, line, iobuf', pipe'["in"], got)
        /\ n = -1 => "in" \notin ends
        /\ n = Len(iobuf) => iobuf' = <<>>
    BY <1>2, <1>3, <1>4, <1>6, WriteDoes
  <2>2. Again \/ AddWaiter("in") \/ Close("in")
    BY <1>6
  <2>3. Close("in") => n \in {-1, Len(iobuf)}
    <3>1. Close("in") => ~Again /\ ~AddWaiter("in")
      BY <1>1 DEF Close, Again, AddWaiter, Leave
    <3> QED BY <3>1, <1>6
  <2>4. Close("in") => "in" \notin ends \/ AllFed(food, line', iobuf')
    BY <1>1, <2>1, <2>3 DEF AllFed
  <2>5. FedBy(job, food, line', iobuf', pipe'["in"], got) /\ line' \in Istring
    BY <1>1, <1>2, <2>1
  <2> QED BY <1>1, <2>1, <2>2, <2>4, <2>5, Feeds
<1> QED BY <1>1, <1>5, <1>6

LEMMA StepReap ==
  ASSUME IInv, NEW ch \in Outputs, Reap(ch)
  PROVE  Kinds' /\ Ends' /\ Feeding' /\ Bringing'
<1>1. /\ phase = ch /\ ch \in open
      /\ UNCHANGED <<job, food, line, iobuf, ends, want, alive, got, wrote>>
  BY DEF Reap, childVars
<1>2. Running /\ phase # "wait" /\ ch # "in"
  BY <1>1 DEF Running, Channels, Outputs
<1>3. CASE pipe[ch] = <<>> /\ (IF ch \in ends THEN AddWaiter(ch) ELSE Close(ch))
           /\ UNCHANGED <<partial, crop, pipe>>
  <2>1. /\ phase' \in Channels \union {"poll"} /\ phase' # "drain"
        /\ open' \subseteq open /\ open \ open' \subseteq {ch}
        /\ ch \in open \ open' => ch \notin ends
    BY <1>3, <1>2 DEF AddWaiter, Close, Leave, Channels, Outputs
  <2>2. "in" \notin open \ open'
    BY <1>2, <2>1
  <2>3. \A o \in Outputs : o \in open \ open' => o \notin ends /\ pipe[o] = <<>>
    BY <1>3, <2>1
  <2> QED BY <1>1, <1>2, <1>3, <2>1, <2>2, <2>3, MovesNothing DEF childVars
<1>4. ASSUME pipe[ch] # <<>>, Again,
             LET n == Min({Len(pipe[ch]), BufCap})
             IN  /\ DropCrop(ch, partial[ch] \o SubSeq(pipe[ch], 1, n), FALSE)
                 /\ pipe' = [pipe EXCEPT ![ch] = SubSeq(@, n + 1, Len(@))]
      PROVE  Kinds' /\ Ends' /\ Feeding' /\ Bringing'
  <2> DEFINE q == pipe[ch]
             n == Min({Len(q), BufCap})
             s == partial[ch] \o SubSeq(q, 1, n)
             r == Rest(q, n)
             d == Dropped(Target(ch), s)
             e == Added(Target(ch), crop[ch], d.lines)
  <2>1. /\ pipe \in [Channels -> Seq(Byte)] /\ partial \in [Outputs -> Seq(Byte)]
        /\ crop \in [Outputs -> Seq(Seq(Byte))] /\ ch \in Channels
        /\ q \in Seq(Byte) /\ partial[ch] \in Seq(Byte) /\ crop[ch] \in Seq(Seq(Byte))
        /\ wrote[ch] \in Seq(Byte)
    BY DEF IInv, Kinds, Channels
  <2>2. n \in 0..Len(q)
    <3>1. Len(q) \in Nat /\ BufCap \in Nat
      BY <2>1, Caps
    <3>2. n = IF Len(q) <= BufCap THEN Len(q) ELSE BufCap
      BY <3>1, TwoNats
    <3> QED BY <3>1, <3>2
  <2>3. /\ partial' = [partial EXCEPT ![ch] = d.rest]
        /\ crop' = [crop EXCEPT ![ch] = e]
        /\ pipe' = [pipe EXCEPT ![ch] = r]
    <3>1. DropCrop(ch, s, FALSE) /\ pipe' = [pipe EXCEPT ![ch] = SubSeq(@, n + 1, Len(@))]
      BY <1>4
    <3>2. pipe' = [pipe EXCEPT ![ch] = r]
      BY <3>1, <2>1 DEF Rest
    <3> HIDE DEF s
    <3>3. d = IF Target(ch) = "STREAM" THEN [lines |-> <<s>>, rest |-> <<>>] ELSE Cut(s, FALSE)
      BY Zenon DEF Dropped, Early
    <3>4. partial' = [partial EXCEPT ![ch] = d.rest]
      BY <3>1, <3>3, Zenon DEF DropCrop
    <3> HIDE DEF d
    <3>5. crop' = [crop EXCEPT ![ch] = IF Target(ch) = "LIFO" THEN Reverse(d.lines) \o crop[ch]
                                                              ELSE crop[ch] \o d.lines]
      BY <3>1, <3>3 DEF DropCrop
    <3>6. crop' = [crop EXCEPT ![ch] = e]
      BY <3>5, Zenon DEF Added
    <3> QED BY <3>2, <3>4, <3>6
  <2>4. ArrivesBy(Target(ch), crop[ch], partial[ch], q, wrote[ch])
    BY <1>2 DEF IInv, Bringing
  <2> HIDE DEF n, q
  <2>5. /\ d \in CutType /\ e \in Seq(Seq(Byte)) /\ r \in Seq(Byte)
        /\ ArrivesBy(Target(ch), e, d.rest, r, wrote[ch])
    BY <2>1, <2>2, <2>4, ArrivesReaped
  <2>6. d.rest \in Seq(Byte)
    BY <2>5 DEF CutType
  <2> HIDE DEF s, r, d, e
  <2>7. /\ partial' \in [Outputs -> Seq(Byte)] /\ crop' \in [Outputs -> Seq(Seq(Byte))]
        /\ pipe' \in [Channels -> Seq(Byte)]
    BY <2>1, <2>3, <2>5, <2>6
  <2>8. partial'[ch] = d.rest /\ crop'[ch] = e /\ pipe'[ch] = r
    BY <2>1, <2>3
  <2>9. /\ \A o \in Outputs \ {ch} : /\ partial'[o] = partial[o] /\ crop'[o] = crop[o]
                                     /\ pipe'[o] = pipe[o]
        /\ pipe'["in"] = pipe["in"]
    BY <2>1, <2>3, <1>2 DEF Channels
  <2>10. UNCHANGED <<phase, open, waits>>
    BY <1>4 DEF Again
  <2>11. Running' /\ phase' # "wait"
    BY <2>10, <1>2 DEF Running
  <2>12. Kinds'
    BY <1>1, <2>7, <2>10 DEF IInv, Kinds
  <2>13. Ends'
    <3>1. phase \notin {"fork", "drain", "wait"}
      BY <1>1 DEF Outputs
    <3>2. Redirected(job)' = Redirected(job)
      BY <1>1 DEF Redirected
    <3>3. \A o \in Outputs \ open' : o \notin ends' /\ pipe'[o] = <<>>
      BY <1>1, <1>2, <2>9, <2>10 DEF IInv, Ends
    <3> QED BY <1>1, <1>2, <2>10, <3>1, <3>2, <3>3 DEF IInv, Ends
  <2>14. Feeding'
    BY <1>1, <1>2, <2>9, <2>10 DEF IInv, Feeding
  <2>15. Bringing'
    <3>1. \A o \in Outputs : Target(o)' = Target(o)
      BY <1>1 DEF Target
    <3>2. ASSUME NEW o \in Outputs
          PROVE  ArrivesBy(Target(o)', crop'[o], partial'[o], pipe'[o], wrote'[o])
      <4>1. CASE o = ch
        BY <4>1, <1>1, <2>5, <2>8, <3>1
      <4>2. CASE o # ch
        <5>1. ArrivesBy(Target(o), crop[o], partial[o], pipe[o], wrote[o])
          BY <1>2 DEF IInv, Bringing
        <5> QED BY <4>2, <5>1, <1>1, <2>9, <3>1
      <4> QED BY <4>1, <4>2
    <3> QED BY <2>11, <3>2 DEF Bringing
  <2> QED BY <2>12, <2>13, <2>14, <2>15
<1> QED BY <1>3, <1>4 DEF Reap

LEMMA StepDrain ==
  ASSUME IInv, Drain
  PROVE  Kinds' /\ Ends' /\ Feeding' /\ Bringing'
<1> DEFINE w(ch) == Whole(partial[ch])
           e(ch) == Added(Target(ch), crop[ch], w(ch))
<1>1. /\ phase = "drain" /\ phase' = "wait" /\ line' = Null
      /\ partial' = [ch \in Outputs |-> <<>>]
      /\ food' = IF job.input = "QUEUE" THEN <<>> ELSE food
      /\ UNCHANGED <<job, iobuf, open, waits, pipe, ends, want, alive, got, wrote>>
  BY DEF Drain, childVars
<1>2. crop' = [ch \in Outputs |-> e(ch)]
  <2>1. ASSUME NEW ch \in Outputs
        PROVE  [o \in Outputs |-> Cut(partial[o], TRUE).lines][ch] = w(ch)
    BY DEF Whole
  <2>2. crop' = [ch \in Outputs |->
                   IF Target(ch) = "LIFO"
                     THEN Reverse([o \in Outputs |-> Cut(partial[o], TRUE).lines][ch]) \o crop[ch]
                     ELSE crop[ch] \o [o \in Outputs |-> Cut(partial[o], TRUE).lines][ch]]
    BY Zenon DEF Drain
  <2> HIDE DEF w
  <2> QED BY <2>1, <2>2 DEF Added
<1>3. Running /\ phase # "wait" /\ open = {} /\ Running'
  BY <1>1 DEF IInv, Ends, Running
<1>4. ASSUME NEW ch \in Outputs
      PROVE  /\ e(ch) \in Seq(Seq(Byte))
             /\ Arrived(Target(ch), e(ch), wrote[ch])
  <2>1. /\ partial[ch] \in Seq(Byte) /\ crop[ch] \in Seq(Seq(Byte)) /\ wrote[ch] \in Seq(Byte)
    BY DEF IInv, Kinds
  <2>2. pipe[ch] = <<>>
    BY <1>3 DEF IInv, Ends
  <2>3. ArrivesBy(Target(ch), crop[ch], partial[ch], <<>>, wrote[ch])
    BY <1>3, <2>2 DEF IInv, Bringing
  <2> QED BY <2>1, <2>3, ArrivesLast
<1> HIDE DEF e, w
<1>5. Kinds'
  <2>1. <<>> \in Seq(Byte) /\ <<>> \in Seq(Seq(Byte))
    OBVIOUS
  <2>2. crop' \in [Outputs -> Seq(Seq(Byte))]
    BY <1>2, <1>4
  <2> QED BY <1>1, <2>1, <2>2 DEF IInv, Kinds, Phases, Istring
<1>6. Ends'
  <2>1. Redirected(job)' = Redirected(job)
    BY <1>1 DEF Redirected
  <2>2. \A ch \in Outputs \ open' : ch \notin ends' /\ pipe'[ch] = <<>>
    BY <1>1, <1>3 DEF IInv, Ends
  <2> QED BY <1>1, <1>3, <2>1, <2>2 DEF IInv, Ends
<1>7. Feeding'
  BY <1>1, <1>3 DEF IInv, Feeding
<1>8. Bringing'
  <2>1. \A ch \in Outputs : Target(ch)' = Target(ch)
    BY <1>1 DEF Target
  <2>2. \A ch \in Outputs : /\ crop'[ch] = e(ch) /\ partial'[ch] = <<>>
                            /\ wrote'[ch] = wrote[ch]
    BY <1>1, <1>2
  <2>3. \A ch \in Outputs : Arrived(Target(ch), e(ch), wrote[ch])
    BY <1>4
  <2> QED BY <1>1, <2>1, <2>2, <2>3 DEF Bringing
<1> QED BY <1>5, <1>6, <1>7, <1>8

\* Steps of the child that move no byte.
LEMMA ChildMovesNothing ==
  ASSUME IInv, phase # "fork", UNCHANGED <<parentVars, pipe, got, wrote>>, ends' \subseteq ends,
         want' \in Calls \union {Null},
         want' # Null /\ want'.op = "write" => want'.ch \in ends'
  PROVE  Kinds' /\ Ends' /\ Feeding' /\ Bringing'
<1> USE DEF parentVars
<1>1. Kinds'
  BY DEF IInv, Kinds
<1>2. Ends'
  <2>1. Redirected(job)' = Redirected(job)
    BY DEF Redirected
  <2> QED BY <2>1 DEF IInv, Ends, Running
<1>3. Feeding'
  BY DEF IInv, Feeding, Running
<1>4. Bringing'
  <2>1. \A ch \in Outputs : Target(ch)' = Target(ch)
    BY DEF Target
  <2> QED BY <2>1 DEF IInv, Bringing, Running
<1> QED BY <1>1, <1>2, <1>3, <1>4

LEMMA Forking == IInv /\ phase = "fork" => want = Null /\ ~alive
BY DEF IInv, Ends

LEMMA StepChildQuiet ==
  ASSUME IInv, \/ \E c \in Calls : Call(c)
               \/ \E ch \in Channels : ChildCloses(ch)
               \/ ChildReadsEnd \/ Exit
  PROVE  Kinds' /\ Ends' /\ Feeding' /\ Bringing'
<1>1. ASSUME NEW c \in Calls, Call(c) PROVE Kinds' /\ Ends' /\ Feeding' /\ Bringing'
  <2>1. phase # "fork"
    BY <1>1, Forking DEF Call
  <2>2. c.op = "write" => c.ch \in ends
    BY <1>1 DEF Call
  <2> QED BY <1>1, <2>1, <2>2, ChildMovesNothing DEF Call
<1>2. ASSUME NEW ch \in Channels, ChildCloses(ch) PROVE Kinds' /\ Ends' /\ Feeding' /\ Bringing'
  <2>1. phase # "fork"
    BY <1>2, Forking DEF ChildCloses
  <2> QED BY <1>2, <2>1, ChildMovesNothing DEF ChildCloses
<1>3. CASE ChildReadsEnd
  <2>1. phase # "fork"
    BY <1>3, Forking DEF ChildReadsEnd
  <2> QED BY <1>3, <2>1, ChildMovesNothing DEF ChildReadsEnd
<1>4. CASE Exit
  <2>1. phase # "fork"
    BY <1>4, Forking DEF Exit
  <2> QED BY <1>4, <2>1, ChildMovesNothing DEF Exit
<1> QED BY <1>1, <1>2, <1>3, <1>4

LEMMA StepChildReads ==
  ASSUME IInv, ChildReads
  PROVE  Kinds' /\ Ends' /\ Feeding' /\ Bringing'
<1> DEFINE q == pipe["in"]
           g == Append(got, Head(q))
<1>1. /\ want # Null /\ q # <<>> /\ got' = g /\ want' = Null
      /\ pipe' = [pipe EXCEPT !["in"] = Tail(@)]
      /\ UNCHANGED <<parentVars, ends, alive, wrote>>
  BY DEF ChildReads
<1>2. /\ pipe \in [Channels -> Seq(Byte)] /\ q \in Seq(Byte) /\ got \in Seq(Byte) /\ job \in Jobs
      /\ line \in Istring /\ iobuf \in Seq(Byte)
  BY DEF IInv, Kinds, Channels
<1>3. pipe' = [pipe EXCEPT !["in"] = Tail(q)]
  BY <1>1, <1>2
<1> HIDE DEF q
<1>4. /\ g \in Seq(Byte) /\ Tail(q) \in Seq(Byte) /\ Len(Tail(q)) = Len(q) - 1
      /\ g \o Tail(q) = got \o q
  BY <1>1, <1>2, TakenIs
<1>5. phase # "fork"
  BY <1>1, Forking
<1> HIDE DEF g
<1>6. /\ pipe' \in [Channels -> Seq(Byte)] /\ pipe'["in"] = Tail(q)
      /\ \A ch \in Outputs : pipe'[ch] = pipe[ch]
  BY <1>2, <1>3, <1>4 DEF Channels, Outputs
<1>7. Kinds'
  BY <1>1, <1>4, <1>6 DEF IInv, Kinds, parentVars
<1>8. Ends'
  <2>1. Redirected(job)' = Redirected(job) /\ Running' = Running
    BY <1>1 DEF parentVars, Redirected, Running
  <2> QED BY <1>1, <1>5, <1>6, <2>1 DEF IInv, Ends, parentVars
<1>9. Feeding'
  <2>1. SUFFICES ASSUME Running PROVE Feeding'
    BY <1>1 DEF Feeding, Running, parentVars
  <2>2. /\ Len(iobuf) <= BufCap /\ Len(q) <= PipeCap
        /\ "in" \in open => FedBy(job, food, line, iobuf, q, got)
        /\ "in" \in ends \ open => Fed(job, q, got)
    BY <2>1 DEF IInv, Feeding, q
  <2>3. Len(Tail(q)) <= PipeCap
    <3>1. Len(q) \in Nat /\ PipeCap \in Nat
      BY <1>2, Caps
    <3> QED BY <3>1, <2>2, <1>4
  <2>4. "in" \in open => FedBy(job, food, line, iobuf, Tail(q), g)
    BY <1>1, <1>2, <2>2, FedRead DEF g
  <2>5. "in" \in ends \ open => Fed(job, Tail(q), g)
    BY <1>4, <2>2, Zenon DEF Fed
  <2> QED BY <1>1, <1>6, <2>2, <2>3, <2>4, <2>5 DEF Feeding, parentVars
<1>10. Bringing'
  <2>1. \A ch \in Outputs : Target(ch)' = Target(ch)
    BY <1>1 DEF Target, parentVars
  <2> QED BY <1>1, <1>6, <2>1 DEF IInv, Bringing, Running, parentVars
<1> QED BY <1>7, <1>8, <1>9, <1>10

LEMMA StepChildWrites ==
  ASSUME IInv, ChildWrites
  PROVE  Kinds' /\ Ends' /\ Feeding' /\ Bringing'
<1> DEFINE ch == want.ch
           b == want.byte
           q == Append(pipe[ch], b)
           w == Append(wrote[ch], b)
<1>1. /\ want # Null /\ want.op = "write" /\ want' = Null
      /\ pipe' = [pipe EXCEPT ![ch] = Append(@, b)]
      /\ wrote' = [wrote EXCEPT ![ch] = Append(@, b)]
      /\ UNCHANGED <<parentVars, ends, alive, got>>
  BY DEF ChildWrites
<1>2. ch \in Outputs /\ b \in Byte /\ ch \in ends
  <2>1. want \in Calls
    BY <1>1 DEF IInv, Kinds
  <2>2. want \in [op : {"write"}, ch : Outputs, byte : Byte]
    BY <1>1, <2>1 DEF Calls
  <2> QED BY <1>1, <2>2 DEF IInv, Ends
<1> HIDE DEF ch, b
<1>3. /\ pipe \in [Channels -> Seq(Byte)] /\ wrote \in [Outputs -> Seq(Byte)]
      /\ ch \in Channels /\ ch # "in" /\ pipe[ch] \in Seq(Byte) /\ wrote[ch] \in Seq(Byte)
      /\ partial[ch] \in Seq(Byte) /\ crop[ch] \in Seq(Seq(Byte))
  BY <1>2 DEF IInv, Kinds, Channels, Outputs
<1>4. pipe' = [pipe EXCEPT ![ch] = q] /\ wrote' = [wrote EXCEPT ![ch] = w]
  BY <1>1, <1>3
<1>5. q \in Seq(Byte) /\ w \in Seq(Byte)
  BY <1>2, <1>3, AppendIs
<1>6. phase # "fork"
  BY <1>1, Forking
<1>7. Running => phase # "wait" /\ ch \in open
  BY <1>2 DEF IInv, Ends
<1>8. Running => ArrivesBy(Target(ch), crop[ch], partial[ch], q, w)
  <2>1. SUFFICES ASSUME Running PROVE ArrivesBy(Target(ch), crop[ch], partial[ch], q, w)
    OBVIOUS
  <2>2. ArrivesBy(Target(ch), crop[ch], partial[ch], pipe[ch], wrote[ch])
    BY <2>1, <1>2, <1>7 DEF IInv, Bringing
  <2> QED BY <2>2, <1>2, <1>3, ArrivesWritten
<1> HIDE DEF q, w
<1>9. /\ pipe' \in [Channels -> Seq(Byte)] /\ wrote' \in [Outputs -> Seq(Byte)]
      /\ pipe'[ch] = q /\ wrote'[ch] = w /\ pipe'["in"] = pipe["in"]
      /\ \A o \in Outputs \ {ch} : pipe'[o] = pipe[o] /\ wrote'[o] = wrote[o]
  BY <1>2, <1>3, <1>4, <1>5 DEF Channels
<1>10. Kinds'
  BY <1>1, <1>9 DEF IInv, Kinds, parentVars
<1>11. Redirected(job)' = Redirected(job) /\ Running' = Running
  BY <1>1 DEF parentVars, Redirected, Running
<1>12. Ends'
  <2>1. ASSUME Running PROVE \A o \in Outputs \ open' : o \notin ends' /\ pipe'[o] = <<>>
    BY <2>1, <1>1, <1>7, <1>9 DEF IInv, Ends, parentVars
  <2> QED BY <1>1, <1>6, <1>11, <2>1 DEF IInv, Ends, parentVars
<1>13. Feeding'
  BY <1>1, <1>9, <1>11 DEF IInv, Feeding, parentVars
<1>14. Bringing'
  <2>1. \A o \in Outputs : Target(o)' = Target(o)
    BY <1>1 DEF Target, parentVars
  <2>2. ASSUME Running, NEW o \in Outputs
        PROVE  ArrivesBy(Target(o)', crop'[o], partial'[o], pipe'[o], wrote'[o])
    <3>1. CASE o = ch
      BY <3>1, <2>1, <2>2, <1>1, <1>8, <1>9 DEF parentVars
    <3>2. CASE o # ch
      <4>1. ArrivesBy(Target(o), crop[o], partial[o], pipe[o], wrote[o])
        BY <2>2, <1>7 DEF IInv, Bringing
      <4> QED BY <3>2, <4>1, <2>1, <1>1, <1>9 DEF parentVars
    <3> QED BY <3>1, <3>2
  <2>3. Running => phase' # "wait"
    BY <1>1, <1>7 DEF parentVars
  <2> QED BY <1>11, <2>2, <2>3 DEF Bringing
<1> QED BY <1>10, <1>12, <1>13, <1>14

LEMMA IInvInit == Init => IInv
<1> SUFFICES ASSUME Init PROVE IInv
  OBVIOUS
<1>1. <<>> \in Seq(Byte) /\ <<>> \in Seq(Seq(Byte))
  OBVIOUS
<1>2. ~Running /\ phase = "idle"
  BY DEF Init, Running, Channels, Outputs
<1>3. Watching
  BY DEF Init, Watching, InTurn
<1>4. Kinds
  BY <1>1 DEF Init, Kinds, Phases, Istring, Outputs, Channels
<1> QED BY <1>2, <1>3, <1>4 DEF Init, IInv, Ends, Feeding, Bringing

LEMMA IInvStep == IInv /\ [Next]_vars => IInv'
<1> SUFFICES ASSUME IInv, [Next]_vars PROVE IInv'
  OBVIOUS
<1>1. Watching'
  BY WatchingStep DEF IInv
<1>2. SUFFICES Kinds' /\ Ends' /\ Feeding' /\ Bringing'
  BY <1>1 DEF IInv
<1>3. ASSUME NEW j \in Jobs, Setup(j) PROVE Kinds' /\ Ends' /\ Feeding' /\ Bringing'
  BY <1>3, StepSetup
<1>4. ASSUME NEW ch \in Channels, Skip(ch) PROVE Kinds' /\ Ends' /\ Feeding' /\ Bringing'
  BY <1>4, StepSkip
<1>5. ASSUME NEW ch \in Outputs, Reap(ch) PROVE Kinds' /\ Ends' /\ Feeding' /\ Bringing'
  BY <1>5, StepReap
<1>6. CASE Poll \/ PollInterrupted
  <2>1. phase = "poll" /\ NextTurn
    BY <1>6 DEF Poll, PollInterrupted
  <2> QED BY <2>1, StepNextTurn
<1>7. CASE UNCHANGED vars
  <2>1. Redirected(job)' = Redirected(job) /\ \A ch \in Outputs : Target(ch)' = Target(ch)
    BY <1>7 DEF vars, parentVars, Redirected, Target
  <2> QED BY <1>7, <2>1
      DEF vars, parentVars, childVars, IInv, Kinds, Ends, Feeding, Bringing, Running
<1> QED BY <1>3, <1>4, <1>5, <1>6, <1>7, StepFork, StepFetch, StepFeedNothing, StepFeed,
           StepFlush, StepDrain, StepStop, StepChildQuiet, StepChildReads, StepChildWrites
        DEF Next, Pump, Child

\* Whatever the child reads and writes, in whatever pieces the pipes take them, no byte
\* of the input and no line of the output or the error is lost, doubled or swapped between
\* the interpreter and its child (feed, write_buffered, crop and drop_crop of
\* posix_do_command).
THEOREM ArrivesAlways == Spec => []ArrivesWhole
<1>1. IInv => FedWhole
  <2>1. SUFFICES ASSUME IInv, Running PROVE FedWhole
    BY DEF FedWhole
  <2> DEFINE q == pipe["in"]
             h == IF line = Null THEN <<>> ELSE line
  <2>2. /\ Len(iobuf) <= BufCap /\ Len(q) <= PipeCap
        /\ "in" \in open => FedBy(job, food, line, iobuf, q, got)
        /\ "in" \in ends \ open => Fed(job, q, got)
    BY <2>1 DEF IInv, Feeding
  <2>3. /\ job \in Jobs /\ line \in Istring /\ iobuf \in Seq(Byte) /\ q \in Seq(Byte)
        /\ got \in Seq(Byte)
    BY <2>1 DEF IInv, Kinds, Channels
  <2> HIDE DEF q
  <2>4. "in" \in open => FedSoFar(job, food, line, iobuf, q, got)
    BY <2>2, <2>3, FedMeans
  <2>5. h = Held(line)
    BY DEF Held
  <2> HIDE DEF h
  <2>6. "in" \in open => ((got \o q) \o iobuf) \o h
                            = Served(SubSeq(job.lines, 1, Len(job.lines) - Len(food)))
    BY <2>4, <2>5, Zenon DEF FedSoFar, Served, MealsOf
  <2>7. "in" \in ends \ open => got \o q = Served(job.lines)
    BY <2>2, Zenon DEF Fed, Served, MealsOf
  <2> QED BY <2>2, <2>6, <2>7, Zenon DEF FedWhole, q, h
<1>2. IInv => CroppedWhole
  <2>1. SUFFICES ASSUME IInv, Running, NEW ch \in Outputs
                 PROVE  LET rest == partial[ch] \o pipe[ch]
                        IN  /\ IF Target(ch) = "STREAM"
                                 THEN FlattenSeq(crop[ch]) \o rest = wrote[ch]
                                 ELSE (IF Target(ch) = "LIFO" THEN Reverse(crop[ch]) ELSE crop[ch])
                                        \o Cut(rest, TRUE).lines = Lines(wrote[ch])
                            /\ phase = "wait" => rest = <<>>
    <3>1. Redirected(job) \ {"in"} \subseteq Outputs
      BY DEF Redirected, Channels
    <3> QED BY <3>1, Zenon DEF CroppedWhole
  <2> DEFINE p == partial[ch]
             q == pipe[ch]
             c == crop[ch]
             w == wrote[ch]
             k == Target(ch)
             rest == p \o q
  <2>2. /\ p \in Seq(Byte) /\ q \in Seq(Byte) /\ c \in Seq(Seq(Byte)) /\ w \in Seq(Byte)
        /\ (IF phase = "wait" THEN p = <<>> /\ Arrived(k, c, w) ELSE ArrivesBy(k, c, p, q, w))
    BY <2>1 DEF IInv, Kinds, Bringing, Channels
  <2>3. phase = "wait" => q = <<>>
    BY <2>1 DEF IInv, Ends
  <2> HIDE DEF p, q, c, w, k
  <2>4. CASE phase = "wait"
    <3>1. p = <<>> /\ q = <<>> /\ Arrived(k, c, w)
      BY <2>2, <2>3, <2>4
    <3>2. rest = <<>>
      BY <3>1
    <3> HIDE DEF rest
    <3>3. IF k = "STREAM" THEN FlattenSeq(c) \o rest = w
          ELSE Ordered(k, c) \o Whole(rest) = Lines(w)
      <4>1. Ordered(k, c) \in Seq(Seq(Byte))
        <5>1. <<>> \in Seq(Seq(Byte))
          OBVIOUS
        <5> QED BY <5>1, <2>2, OrderedAdded
      <4>2. Ordered(k, c) \o <<>> = Ordered(k, c)
        BY <4>1, ConcatEmptySeq
      <4> QED BY <3>1, <3>2, <4>2, WholeNothing DEF Arrived
    <3>4. phase = "wait" => rest = <<>>
      BY <3>2
    <3> QED BY <3>3, <3>4, Zenon DEF Ordered, Whole, rest, p, q, c, w, k
  <2>5. CASE phase # "wait"
    <3>1. ArrivesBy(k, c, p, q, w)
      BY <2>2, <2>5
    <3>2. IF k = "STREAM" THEN FlattenSeq(c) \o rest = w
          ELSE Ordered(k, c) \o Whole(rest) = Lines(w)
      BY <2>2, <3>1, ArrivesMeans, Zenon
    <3> QED BY <3>2, <2>5, Zenon DEF Ordered, Whole, p, q, c, w, k
  <2> QED BY <2>4, <2>5
<1>3. IInv => ArrivesWhole
  BY <1>1, <1>2 DEF ArrivesWhole
<1> QED BY IInvInit, IInvStep, <1>3, PTL DEF Spec
=============================================================================
