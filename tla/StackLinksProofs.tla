-------------------------- MODULE StackLinksProofs --------------------------
(***************************************************************************)
(* Proofs about StackLinks, for any addresses, lines, arguments and        *)
(* redirections: pointers and counters are always those of lists that own  *)
(* the memory they link, and the links implement RexxBuffers.              *)
(*                                                                         *)
(* The proofs speak of a queue m that "holds" a list d of buffers and, for *)
(* each buffer b, a list ls[b] of lines.  What Chain finds by following    *)
(* the pointers is then d and ls[b] (Shown); each operation takes a queue  *)
(* that holds lists to one that holds the lists expected, and so shows the *)
(* program what RexxBuffers says.                                          *)
(***************************************************************************)
EXTENDS StackLinks, SequenceTheorems, FiniteSetTheorems, FunctionTheorems,
        WellFoundedInduction, TLAPS

-----------------------------------------------------------------------------
(* Sequences and numbers. *)

\* The elements of a sequence over S are in S.
LEMMA ToSetType ==
    ASSUME NEW S, NEW s \in Seq(S)
    PROVE  ToSet(s) \subseteq S
BY DEF ToSet

\* The empty list has no element and repeats none.
LEMMA EmptyList ==
    ToSet(<<>>) = {} /\ IsInjective(<<>>)
BY DEF ToSet, IsInjective

\* A newcomer joins the end of a list without repetition.
LEMMA JoinList ==
    ASSUME NEW S, NEW s \in Seq(S), NEW c \in S
    PROVE  /\ Append(s, c) \in Seq(S)
           /\ ToSet(Append(s, c)) = ToSet(s) \cup {c}
           /\ IsInjective(s) /\ c \notin ToSet(s) => IsInjective(Append(s, c))
<1> DEFINE t == Append(s, c)
<1>1. /\ t \in Seq(S) /\ Len(t) = Len(s) + 1
      /\ \A i \in 1..Len(s) : t[i] = s[i]
      /\ t[Len(s) + 1] = c
    OBVIOUS
<1>2. DOMAIN t = 1..(Len(s) + 1) /\ DOMAIN s = 1..Len(s) /\ Len(s) \in Nat
    BY <1>1
<1>3. ToSet(t) = ToSet(s) \cup {c}
    BY <1>1, <1>2 DEF ToSet
<1>4. ASSUME IsInjective(s), c \notin ToSet(s)  PROVE IsInjective(t)
    BY <1>1, <1>2, <1>4 DEF ToSet, IsInjective
<1> QED  BY <1>1, <1>3, <1>4

\* A set of numbers that is not empty has a least one.
LEMMA LeastNat ==
    ASSUME NEW T, T \subseteq Nat, T # {}
    PROVE  \E m \in T : \A k \in T : m <= k
<1> DEFINE R == {p \in Nat \X Nat : p[1] < p[2]}
<1>1. IsWellFoundedOn(R, Nat)
    BY NatLessThanWellFounded DEF R, OpToRel
<1>2. PICK m \in T : \A k \in T : <<k, m>> \notin R
    BY <1>1, WFMin
<1>3. \A k \in T : ~(k < m)
    BY <1>2
<1>4. m \in Nat /\ \A k \in T : k \in Nat
    OBVIOUS
<1>5. \A k \in T : m <= k
    BY <1>3, <1>4
<1> QED  BY <1>5

\* A sequence turned round.
LEMMA ReverseIs ==
    ASSUME NEW S, NEW s \in Seq(S)
    PROVE  /\ Reverse(s) \in Seq(S) /\ Len(Reverse(s)) = Len(s)
           /\ \A i \in 1..Len(s) : Reverse(s)[i] = s[Len(s) - i + 1]
BY DEF Reverse

LEMMA ReverseTwice ==
    ASSUME NEW S, NEW s \in Seq(S)
    PROVE  Reverse(Reverse(s)) = s
<1> DEFINE r == Reverse(s)
<1>1. r \in Seq(S) /\ Len(r) = Len(s) /\ \A i \in 1..Len(s) : r[i] = s[Len(s) - i + 1]
    BY ReverseIs
<1> HIDE DEF r
<1>2. /\ Reverse(r) \in Seq(S) /\ Len(Reverse(r)) = Len(s)
      /\ \A i \in 1..Len(s) : Reverse(r)[i] = r[Len(s) - i + 1]
    BY <1>1, ReverseIs
<1>3. \A i \in 1..Len(s) : Reverse(r)[i] = s[i]
    BY <1>1, <1>2
<1> QED  BY <1>2, <1>3, SeqEqual DEF r

\* The function FlattenSeq is defined by.
Flattens(f, q) == f = [i \in 1..Len(q) |-> IF i = 1 THEN q[i] ELSE f[i - 1] \o q[i]]

\* Such a function exists, and joins the sequences one after the other.
LEMMA Flattening ==
    ASSUME NEW S, NEW q \in Seq(Seq(S))
    PROVE  \E f : Flattens(f, q) /\ \A i \in 1..Len(q) : f[i] \in Seq(S)
<1> DEFINE Good(r) == \E f : Flattens(f, r) /\ \A i \in 1..Len(r) : f[i] \in Seq(S)
           T == {n \in Nat : \E r \in Seq(Seq(S)) : Len(r) = n /\ ~Good(r)}
<1>1. SUFFICES ASSUME T # {}  PROVE FALSE
    BY LenProperties
<1>2. PICK n \in T : \A k \in T : n <= k
    BY <1>1, LeastNat
<1>3. PICK r \in Seq(Seq(S)) : Len(r) = n /\ ~Good(r)
    BY <1>2
<1>4. CASE n = 0
  <2> DEFINE f == [i \in 1..0 |-> <<>>]
  <2>1. 1..Len(r) = {}
      BY <1>3, <1>4
  <2>2. f = [i \in 1..Len(r) |-> IF i = 1 THEN r[i] ELSE f[i - 1] \o r[i]]
      BY <1>3, <1>4, <2>1
  <2> QED  BY <1>3, <2>1, <2>2 DEF Flattens
<1>5. CASE n > 0
  <2> DEFINE p == SubSeq(r, 1, n - 1)
  <2>1. p \in Seq(Seq(S)) /\ Len(p) = n - 1 /\ \A i \in 1..(n - 1) : p[i] = r[i]
      BY <1>3, <1>5
  <2> HIDE DEF p
  <2>2. n - 1 \notin T
      BY <1>2
  <2>3. PICK f : Flattens(f, p) /\ \A i \in 1..Len(p) : f[i] \in Seq(S)
      BY <2>1, <2>2, <1>5
  <2> DEFINE g == [i \in 1..n |-> IF i < n THEN f[i] ELSE IF n = 1 THEN r[1] ELSE f[n - 1] \o r[n]]
  <2>4. \A i \in 1..(n - 1) : f[i] = IF i = 1 THEN p[i] ELSE f[i - 1] \o p[i]
      BY <2>1, <2>3 DEF Flattens
  <2>5. \A i \in 1..n : g[i] = IF i = 1 THEN r[i] ELSE g[i - 1] \o r[i]
    <3>0. n \in Nat
        BY <1>2
    <3> HIDE DEF T, Good
    <3>1. ASSUME NEW i \in 1..n, i < n  PROVE g[i] = IF i = 1 THEN r[i] ELSE g[i - 1] \o r[i]
      <4>0. i \in 1..(n - 1) /\ (i # 1 => i - 1 \in 1..n /\ i - 1 < n)
          BY <3>0, <3>1
      <4>1. g[i] = f[i] /\ p[i] = r[i] /\ (i # 1 => g[i - 1] = f[i - 1])
        <5>1. g[i] = f[i]
            BY <3>1
        <5>2. i # 1 => g[i - 1] = f[i - 1]
            BY <4>0
        <5>3. p[i] = r[i]
            BY <4>0, <2>1
        <5> QED  BY <5>1, <5>2, <5>3
      <4> QED  BY <4>0, <4>1, <3>0, <3>1, <2>4
    <3>2. g[n] = IF n = 1 THEN r[n] ELSE g[n - 1] \o r[n]
        BY <3>0, <1>5
    <3>3. \A i \in 1..n : i < n \/ i = n
        BY <3>0
    <3> HIDE DEF g
    <3> QED  BY <3>1, <3>2, <3>3
  <2>6. \A i \in 1..n : g[i] \in Seq(S)
    <3>1. \A i \in 1..n : r[i] \in Seq(S)
        BY <1>3
    <3>2. n # 1 => f[n - 1] \o r[n] \in Seq(S)
        BY <3>1, <2>1, <2>3, <1>5
    <3> QED  BY <3>1, <3>2, <2>1, <2>3
  <2>7. DOMAIN g = 1..n /\ g = [i \in 1..n |-> g[i]]
      OBVIOUS
  <2> HIDE DEF g
  <2>8. Flattens(g, r)
      BY <2>5, <2>7, <1>3 DEF Flattens
  <2> QED  BY <2>6, <2>8, <1>3
<1> QED  BY <1>2, <1>4, <1>5

\* Longer sequences are flattened as their beginnings are.
Begins(q, r) == Len(r) <= Len(q) /\ \A i \in 1..Len(r) : r[i] = q[i]

\* So the two functions are alike where both are defined.
LEMMA FlattenedAlike ==
    ASSUME NEW S, NEW q \in Seq(Seq(S)), NEW r \in Seq(Seq(S)), Begins(q, r),
           NEW f, NEW g, Flattens(f, q), Flattens(g, r)
    PROVE  \A i \in 1..Len(r) : f[i] = g[i]
<1> DEFINE T == {i \in 1..Len(r) : f[i] # g[i]}
<1>1. SUFFICES ASSUME T # {}  PROVE FALSE
    OBVIOUS
<1>2. PICK i \in T : \A k \in T : i <= k
  <2>1. T \subseteq Nat
      OBVIOUS
  <2> QED  BY <1>1, <2>1, LeastNat
<1>3. i \in 1..Len(r) /\ i \in 1..Len(q) /\ r[i] = q[i]
    BY <1>2 DEF Begins
<1>4. /\ f[i] = IF i = 1 THEN q[i] ELSE f[i - 1] \o q[i]
      /\ g[i] = IF i = 1 THEN r[i] ELSE g[i - 1] \o r[i]
    BY <1>2, <1>3 DEF Flattens
<1>5. i # 1 => f[i - 1] = g[i - 1]
    BY <1>2
<1> QED  BY <1>2, <1>3, <1>4, <1>5

\* Flattening puts a last sequence behind all the others.
LEMMA FlattenAppend ==
    ASSUME NEW S, NEW q \in Seq(Seq(S)), NEW x \in Seq(S)
    PROVE  /\ FlattenSeq(q) \in Seq(S)
           /\ FlattenSeq(Append(q, x)) = FlattenSeq(q) \o x
<1> DEFINE r == Append(q, x)
           f == CHOOSE f : Flattens(f, q)
           g == CHOOSE g : Flattens(g, r)
<1>1. r \in Seq(Seq(S)) /\ Len(r) = Len(q) + 1 /\ r[Len(q) + 1] = x
      /\ \A i \in 1..Len(q) : r[i] = q[i]
    OBVIOUS
<1>2. /\ FlattenSeq(q) = IF Len(q) = 0 THEN q ELSE f[Len(q)]
      /\ FlattenSeq(r) = IF Len(r) = 0 THEN r ELSE g[Len(r)]
    BY DEF FlattenSeq, Flattens
<1> HIDE DEF r
<1>3. Flattens(f, q) /\ Flattens(g, r)
    BY <1>1, Flattening
<1> HIDE DEF f, g
<1>4. PICK h : Flattens(h, q) /\ \A i \in 1..Len(q) : h[i] \in Seq(S)
    BY Flattening
<1>5. \A i \in 1..Len(q) : f[i] = h[i] /\ g[i] = f[i]
  <2>1. Begins(q, q) /\ Begins(r, q)
      BY <1>1 DEF Begins
  <2>2. \A i \in 1..Len(q) : f[i] = h[i]
      BY <2>1, <1>3, <1>4, FlattenedAlike
  <2>3. \A i \in 1..Len(q) : g[i] = f[i]
      BY <2>1, <1>1, <1>3, FlattenedAlike
  <2> QED  BY <2>2, <2>3
<1>6. Len(q) \in Nat /\ (Len(q) = 0 <=> q = <<>>)
    OBVIOUS
<1>7. FlattenSeq(q) \in Seq(S)
    BY <1>2, <1>4, <1>5, <1>6
<1>8. g[Len(r)] = IF Len(r) = 1 THEN x ELSE g[Len(q)] \o x
  <2>1. Len(r) \in 1..Len(r) /\ Len(r) - 1 = Len(q) /\ r[Len(r)] = x
      BY <1>1, <1>6
  <2>2. g = [i \in 1..Len(r) |-> IF i = 1 THEN r[i] ELSE g[i - 1] \o r[i]]
      BY <1>3 DEF Flattens
  <2>3. g[Len(r)] = IF Len(r) = 1 THEN r[Len(r)] ELSE g[Len(r) - 1] \o r[Len(r)]
      BY <2>1, <2>2
  <2> QED  BY <2>1, <2>3
<1>9. CASE Len(q) = 0
    BY <1>1, <1>2, <1>6, <1>8, <1>9 DEF r
<1>10. CASE Len(q) # 0
  <2>1. Len(r) # 0 /\ Len(r) # 1 /\ Len(q) \in 1..Len(q)
      BY <1>1, <1>6, <1>10
  <2>2. FlattenSeq(r) = f[Len(q)] \o x
      BY <1>2, <1>5, <1>8, <2>1
  <2>3. FlattenSeq(q) = f[Len(q)]
      BY <1>2, <1>10
  <2> QED  BY <1>7, <2>2, <2>3 DEF r
<1> QED  BY <1>7, <1>9, <1>10

-----------------------------------------------------------------------------
(* Lists: cells that are linked in both directions. *)

Address == Box \cup Buf

\* The i-th cell of a list, or no cell.
At(s, i) == IF i \in DOMAIN s THEN s[i] ELSE Null

\* The cells of s are linked in this order, downward and upward, between the
\* pointers first and last.
List(cells, s, first, last) ==
    /\ s \in Seq(Address) /\ IsInjective(s) /\ ToSet(s) \subseteq DOMAIN cells
    /\ first = At(s, 1) /\ last = At(s, Len(s))
    /\ \A i \in DOMAIN s :
          cells[s[i]].lower = At(s, i + 1) /\ cells[s[i]].higher = At(s, i - 1)

\* The null pointer is no address of a line or of a buffer.
LEMMA NullIsNoAddress == Null \notin Address
BY LinksAssumption DEF Address

\* The empty list has null pointers at both ends.
LEMMA ListEmpty == ASSUME NEW cells PROVE List(cells, <<>>, Null, Null)
BY EmptyList DEF List, At

\* The pointers at the ends of a list: null when it is empty, else its first
\* and its last cell.
LEMMA ListEnds ==
    ASSUME NEW cells, NEW s, NEW first, NEW last, List(cells, s, first, last)
    PROVE  /\ s \in Seq(Address) /\ Len(s) \in Nat
           /\ first = Null <=> s = <<>>
           /\ last = Null <=> s = <<>>
           /\ s # <<>> => /\ 1 \in DOMAIN s /\ Len(s) \in DOMAIN s
                          /\ first = s[1] /\ last = s[Len(s)]
                          /\ first \in ToSet(s) /\ last \in ToSet(s)
           /\ \A i \in DOMAIN s : s[i] \in ToSet(s) /\ s[i] # Null /\ i \in 1 .. Len(s)
BY NullIsNoAddress DEF List, At, ToSet

\* A list is there as long as the links of its cells are.
LEMMA ListSame ==
    ASSUME NEW cells, NEW s, NEW first, NEW last, List(cells, s, first, last),
           NEW other, ToSet(s) \subseteq DOMAIN other,
           \A x \in ToSet(s) : other[x].lower = cells[x].lower /\ other[x].higher = cells[x].higher
    PROVE  List(other, s, first, last)
BY ListEnds DEF List

\* A cell is put on top.
LEMMA ListPush ==
    ASSUME NEW cells, NEW s, NEW first, NEW last, List(cells, s, first, last),
           NEW n \in Address, n \notin ToSet(s),
           NEW other, ToSet(s) \cup {n} \subseteq DOMAIN other,
           other[n].lower = first, other[n].higher = Null,
           \A x \in ToSet(s) : /\ other[x].lower = cells[x].lower
                               /\ other[x].higher = IF x = first THEN n ELSE cells[x].higher
    PROVE  /\ List(other, <<n>> \o s, n, IF s = <<>> THEN n ELSE last)
           /\ ToSet(<<n>> \o s) = ToSet(s) \cup {n}
           /\ Len(<<n>> \o s) = Len(s) + 1
<1> DEFINE t == <<n>> \o s
<1>1. /\ t \in Seq(Address) /\ Len(t) = Len(s) + 1 /\ DOMAIN t = 1 .. Len(s) + 1
      /\ t[1] = n /\ \A i \in 2 .. Len(s) + 1 : t[i] = s[i - 1]
      /\ \A i \in 1 .. Len(s) : t[i + 1] = s[i]
    BY DEF List
<1>2. Len(s) \in Nat /\ DOMAIN s = 1 .. Len(s)
    BY DEF List
<1> HIDE DEF t
<1>3. ToSet(t) = ToSet(s) \cup {n}
    <2>1. ASSUME NEW i \in DOMAIN t PROVE t[i] \in ToSet(s) \cup {n}
        <3>1. i = 1 \/ (i \in 2 .. Len(s) + 1 /\ i - 1 \in DOMAIN s)
            BY <1>1, <1>2
        <3> QED  BY <3>1, <1>1 DEF ToSet
    <2>2. ASSUME NEW i \in DOMAIN s PROVE s[i] \in ToSet(t)
        <3>1. i + 1 \in DOMAIN t /\ t[i + 1] = s[i]
            BY <1>1, <1>2
        <3> QED  BY <3>1 DEF ToSet
    <2>3. n \in ToSet(t)
        BY <1>1, <1>2 DEF ToSet
    <2> QED  BY <2>1, <2>2, <2>3 DEF ToSet
<1>4. IsInjective(t)
    <2>1. ASSUME NEW i \in DOMAIN t, NEW j \in DOMAIN t, t[i] = t[j] PROVE i = j
        <3>1. \A k \in DOMAIN t :
                 k = 1 \/ (k \in 2 .. Len(s) + 1 /\ k - 1 \in DOMAIN s /\ t[k] = s[k - 1])
            BY <1>1, <1>2
        <3>2. \A k \in DOMAIN s : s[k] # n
            BY DEF ToSet
        <3>3. i = 1 <=> j = 1
            BY <2>1, <3>1, <3>2, <1>1
        <3>4. i # 1 => i - 1 = j - 1
            BY <2>1, <3>1, <3>3 DEF List, IsInjective
        <3> QED  BY <3>3, <3>4, <1>1, <1>2
    <2> QED  BY <2>1 DEF IsInjective
<1>5. ASSUME NEW i \in DOMAIN t
      PROVE  other[t[i]].lower = At(t, i + 1) /\ other[t[i]].higher = At(t, i - 1)
    <2>1. CASE i = 1
        <3>1. At(t, 2) = At(s, 1) /\ At(t, 0) = Null
            BY <1>1, <1>2 DEF At
        <3> QED  BY <2>1, <3>1, <1>1 DEF List
    <2>2. CASE i # 1
        <3>1. i - 1 \in DOMAIN s /\ t[i] = s[i - 1] /\ s[i - 1] \in ToSet(s)
            BY <2>2, <1>1, <1>2 DEF ToSet
        <3>2. At(t, i + 1) = At(s, (i - 1) + 1)
            BY <3>1, <1>1, <1>2 DEF At
        <3>3. /\ cells[s[i - 1]].lower = At(s, (i - 1) + 1)
              /\ cells[s[i - 1]].higher = At(s, (i - 1) - 1)
            BY <3>1 DEF List
        <3>4. s[i - 1] = first <=> i - 1 = 1
            <4>1. 1 \in DOMAIN s /\ first = s[1]
                BY <3>1, <1>2 DEF List, At
            <4> QED  BY <3>1, <4>1 DEF List, IsInjective
        <3>5. i - 1 # 1 => At(t, i - 1) = At(s, (i - 1) - 1)
            BY <3>1, <1>1, <1>2 DEF At
        <3>6. i - 1 = 1 => At(t, i - 1) = n
            BY <1>1, <1>2 DEF At
        <3> QED  BY <3>1, <3>2, <3>3, <3>4, <3>5, <3>6
    <2> QED  BY <2>1, <2>2
<1>6. n = At(t, 1) /\ (IF s = <<>> THEN n ELSE last) = At(t, Len(t))
    BY <1>1, <1>2 DEF At, List
<1>7. List(other, t, n, IF s = <<>> THEN n ELSE last)
    BY <1>1, <1>3, <1>4, <1>5, <1>6 DEF List
<1> QED  BY <1>1, <1>3, <1>7 DEF t

\* A cell is put at the bottom.
LEMMA ListQueue ==
    ASSUME NEW cells, NEW s, NEW first, NEW last, List(cells, s, first, last),
           NEW n \in Address, n \notin ToSet(s),
           NEW other, ToSet(s) \cup {n} \subseteq DOMAIN other,
           other[n].higher = last, other[n].lower = Null,
           \A x \in ToSet(s) : /\ other[x].higher = cells[x].higher
                               /\ other[x].lower = IF x = last THEN n ELSE cells[x].lower
    PROVE  /\ List(other, Append(s, n), IF s = <<>> THEN n ELSE first, n)
           /\ ToSet(Append(s, n)) = ToSet(s) \cup {n}
           /\ Len(Append(s, n)) = Len(s) + 1
<1> DEFINE t == Append(s, n)
<1>1. /\ t \in Seq(Address) /\ Len(t) = Len(s) + 1 /\ DOMAIN t = 1 .. Len(s) + 1
      /\ t[Len(s) + 1] = n /\ \A i \in 1 .. Len(s) : t[i] = s[i]
    BY DEF List
<1>2. Len(s) \in Nat /\ DOMAIN s = 1 .. Len(s)
    BY DEF List
<1>3. ToSet(t) = ToSet(s) \cup {n} /\ IsInjective(t)
    BY JoinList DEF List
<1> HIDE DEF t
<1>4. ASSUME NEW i \in DOMAIN t
      PROVE  other[t[i]].lower = At(t, i + 1) /\ other[t[i]].higher = At(t, i - 1)
    <2>1. CASE i = Len(s) + 1
        <3>1. At(t, i + 1) = Null /\ At(t, i - 1) = At(s, Len(s))
            BY <2>1, <1>1, <1>2 DEF At
        <3> QED  BY <2>1, <3>1, <1>1 DEF List
    <2>2. CASE i # Len(s) + 1
        <3>1. i \in DOMAIN s /\ t[i] = s[i] /\ s[i] \in ToSet(s)
            BY <2>2, <1>1, <1>2 DEF ToSet
        <3>2. At(t, i - 1) = At(s, i - 1)
            BY <3>1, <1>1, <1>2 DEF At
        <3>3. cells[s[i]].lower = At(s, i + 1) /\ cells[s[i]].higher = At(s, i - 1)
            BY <3>1 DEF List
        <3>4. s[i] = last <=> i = Len(s)
            <4>1. Len(s) \in DOMAIN s /\ last = s[Len(s)]
                BY <3>1, <1>2 DEF List, At
            <4> QED  BY <3>1, <4>1 DEF List, IsInjective
        <3>5. i # Len(s) => At(t, i + 1) = At(s, i + 1)
            BY <3>1, <1>1, <1>2 DEF At
        <3>6. i = Len(s) => At(t, i + 1) = n
            BY <1>1, <1>2 DEF At
        <3> QED  BY <3>1, <3>2, <3>3, <3>4, <3>5, <3>6
    <2> QED  BY <2>1, <2>2
<1>5. n = At(t, Len(t)) /\ (IF s = <<>> THEN n ELSE first) = At(t, 1)
    BY <1>1, <1>2 DEF At, List
<1>6. List(other, t, IF s = <<>> THEN n ELSE first, n)
    BY <1>1, <1>3, <1>4, <1>5 DEF List
<1> QED  BY <1>1, <1>3, <1>6 DEF t

\* The cells above the k-th one are taken away.
KeptFrom(cells, s, k, other) ==
    \A i \in k .. Len(s) :
       /\ s[i] \in DOMAIN other
       /\ other[s[i]].lower = cells[s[i]].lower
       /\ other[s[i]].higher = IF i = k THEN Null ELSE cells[s[i]].higher

\* The first cells of a list are dropped, and nothing is above the next one.
LEMMA ListDrop ==
    ASSUME NEW cells, NEW s, NEW first, NEW last, List(cells, s, first, last),
           NEW k \in DOMAIN s, NEW other, KeptFrom(cells, s, k, other)
    PROVE  /\ List(other, SubSeq(s, k, Len(s)), s[k], last)
           /\ Len(SubSeq(s, k, Len(s))) = Len(s) - k + 1
           /\ \A i \in 1 .. Len(s) - k + 1 : SubSeq(s, k, Len(s))[i] = s[k + i - 1]
           /\ ToSet(SubSeq(s, k, Len(s))) = {s[i] : i \in k .. Len(s)}
<1> USE DEF KeptFrom
<1> DEFINE t == SubSeq(s, k, Len(s))
<1>1. /\ t \in Seq(Address) /\ Len(t) = Len(s) - k + 1 /\ DOMAIN t = 1 .. Len(s) - k + 1
      /\ \A i \in 1 .. Len(s) - k + 1 : t[i] = s[k + i - 1]
    BY DEF List
<1>2. Len(s) \in Nat /\ DOMAIN s = 1 .. Len(s) /\ k \in 1 .. Len(s)
    BY DEF List
<1> HIDE DEF t
<1>3. \A i \in DOMAIN t : k + i - 1 \in DOMAIN s /\ k + i - 1 \in k .. Len(s)
    BY <1>1, <1>2
<1>4. ASSUME NEW j \in k .. Len(s) PROVE j - k + 1 \in DOMAIN t /\ t[j - k + 1] = s[j]
    <2>1. j - k + 1 \in 1 .. Len(s) - k + 1 /\ k + (j - k + 1) - 1 = j
        BY <1>2
    <2> QED  BY <2>1, <1>1
<1>5. ToSet(t) = {s[i] : i \in k .. Len(s)}
    BY <1>1, <1>3, <1>4, SMTT(20) DEF ToSet
<1>6. IsInjective(t)
    <2>1. ASSUME NEW i \in DOMAIN t, NEW j \in DOMAIN t, t[i] = t[j] PROVE i = j
        <3>1. k + i - 1 = k + j - 1
            BY <2>1, <1>1, <1>3 DEF List, IsInjective
        <3> QED  BY <3>1, <1>1, <1>2
    <2> QED  BY <2>1 DEF IsInjective
<1>7. ASSUME NEW i \in DOMAIN t
      PROVE  other[t[i]].lower = At(t, i + 1) /\ other[t[i]].higher = At(t, i - 1)
    <2> DEFINE j == k + i - 1
    <2>1. j \in DOMAIN s /\ j \in k .. Len(s) /\ t[i] = s[j] /\ (j = k <=> i = 1)
        BY <1>1, <1>2, <1>3
    <2>2. cells[s[j]].lower = At(s, j + 1) /\ cells[s[j]].higher = At(s, j - 1)
        BY <2>1 DEF List
    <2>3. At(t, i + 1) = At(s, j + 1)
        <3>1. i + 1 \in DOMAIN t <=> j + 1 \in DOMAIN s
            BY <1>1, <1>2
        <3>2. i + 1 \in DOMAIN t => t[i + 1] = s[k + (i + 1) - 1] /\ k + (i + 1) - 1 = j + 1
            BY <1>1, <1>2
        <3> QED  BY <3>1, <3>2 DEF At
    <2>4. i # 1 => At(t, i - 1) = At(s, j - 1)
        <3>1. i # 1 => i - 1 \in DOMAIN t /\ j - 1 \in DOMAIN s
            BY <1>1, <1>2
        <3>2. i # 1 => t[i - 1] = s[k + (i - 1) - 1] /\ k + (i - 1) - 1 = j - 1
            BY <3>1, <1>1, <1>2
        <3> QED  BY <3>1, <3>2 DEF At
    <2>5. i = 1 => At(t, i - 1) = Null
        BY <1>1, <1>2 DEF At
    <2> HIDE DEF j
    <2> QED  BY <2>1, <2>2, <2>3, <2>4, <2>5
<1>8. s[k] = At(t, 1) /\ last = At(t, Len(t))
    BY <1>1, <1>2 DEF At, List
<1>9. ToSet(t) \subseteq DOMAIN other
    BY <1>5
<1>10. List(other, t, s[k], last)
    BY <1>1, <1>6, <1>7, <1>8, <1>9 DEF List
<1> QED  BY <1>1, <1>5, <1>10 DEF t

-----------------------------------------------------------------------------
(* What following the links shows. *)

\* A list without repetition has as many cells as places.
LEMMA ListSize ==
    ASSUME NEW S, NEW s \in Seq(S), IsInjective(s)
    PROVE  IsFiniteSet(ToSet(s)) /\ Cardinality(ToSet(s)) = Len(s)
<1> DEFINE n == Len(s)
           f == [i \in 1 .. n |-> s[i]]
<1>1. n \in Nat /\ DOMAIN s = 1 .. n
    OBVIOUS
<1>2. f \in Bijection(1 .. n, ToSet(s))
    <2>1. f \in [1 .. n -> ToSet(s)]
        BY <1>1 DEF ToSet
    <2>2. \A a, b \in 1 .. n : f[a] = f[b] => a = b
        BY <1>1 DEF IsInjective
    <2>3. \A t \in ToSet(s) : \E a \in 1 .. n : f[a] = t
        BY <1>1 DEF ToSet
    <2> QED  BY <2>1, <2>2, <2>3, Fun_IsBij
<1>3. ExistsBijection(1 .. n, ToSet(s))
    BY <1>2, Fun_ExistsBij
<1> QED  BY <1>1, <1>3, FS_NatBijection, FS_CountingElements

\* A function defined step by step exists.
LEMMA Iterates ==
    ASSUME NEW g, NEW x, NEW n \in Nat
    PROVE  \E f : f = [i \in 0 .. n |-> IF i = 0 THEN x ELSE g[f[i - 1]]]
<1> DEFINE Good(k) == \E f : f = [i \in 0 .. k |-> IF i = 0 THEN x ELSE g[f[i - 1]]]
           T == {k \in Nat : ~Good(k)}
<1>1. SUFFICES ASSUME T # {}  PROVE FALSE
    OBVIOUS
<1>2. PICK k \in T : \A j \in T : k <= j
    BY <1>1, LeastNat
<1>3. CASE k = 0
    <2> DEFINE f == [i \in 0 .. 0 |-> x]
    <2>1. f = [i \in 0 .. 0 |-> IF i = 0 THEN x ELSE g[f[i - 1]]]
        OBVIOUS
    <2> QED  BY <1>2, <1>3, <2>1
<1>4. CASE k > 0
    <2>1. k \in Nat
        BY <1>2
    <2>2. k - 1 \in Nat /\ k - 1 \notin T
        <3>1. k - 1 \in Nat /\ ~(k <= k - 1)
            BY <2>1, <1>4
        <3> HIDE DEF T
        <3> QED  BY <3>1, <1>2
    <2>3. PICK f : f = [i \in 0 .. k - 1 |-> IF i = 0 THEN x ELSE g[f[i - 1]]]
        BY <2>2
    <2> DEFINE h == [i \in 0 .. k |-> IF i < k THEN f[i] ELSE g[f[k - 1]]]
    <2>4. ASSUME NEW i \in 0 .. k PROVE h[i] = IF i = 0 THEN x ELSE g[h[i - 1]]
        <3> HIDE DEF T
        <3>1. CASE i = k
            <4>1. k - 1 \in 0 .. k /\ k - 1 < k
                BY <2>1, <2>2
            <4> QED  BY <3>1, <4>1, <1>4
        <3>2. CASE i # k
            <4>1. i \in 0 .. k - 1 /\ i < k
                BY <3>2, <2>1, <2>2
            <4>2. h[i] = f[i] /\ (i # 0 => i - 1 \in 0 .. k /\ i - 1 < k)
                BY <4>1, <2>1, <2>2
            <4>3. i # 0 => h[i - 1] = f[i - 1]
                BY <4>2
            <4>4. f[i] = IF i = 0 THEN x ELSE g[f[i - 1]]
                BY <2>3, <4>1
            <4> HIDE DEF h
            <4> QED  BY <4>2, <4>3, <4>4
        <3> QED  BY <3>1, <3>2
    <2>5. h = [i \in 0 .. k |-> h[i]]
        OBVIOUS
    <2> HIDE DEF h
    <2>6. h = [i \in 0 .. k |-> IF i = 0 THEN x ELSE g[h[i - 1]]]
        BY <2>4, <2>5
    <2> QED  BY <1>2, <2>6
<1> QED  BY <1>2, <1>3, <1>4

\* Following the links of a list gives the list.
LEMMA ChainIs ==
    ASSUME NEW cells, IsFiniteSet(DOMAIN cells), NEW w \in Seq(Address), IsInjective(w),
           ToSet(w) \subseteq DOMAIN cells, NEW first, NEW link, first = At(w, 1),
           \A i \in DOMAIN w : cells[w[i]][link] = At(w, i + 1)
    PROVE  Chain(cells, first, link) = w
<1> DEFINE after == [v \in Seq(Address) |->
                       IF v = << >> THEN first
                       ELSE IF Last(v) \in DOMAIN cells THEN cells[Last(v)][link] ELSE Null]
           longer == [v \in Seq(Address) |-> IF after[v] = Null THEN v ELSE Append(v, after[v])]
           size == Cardinality(DOMAIN cells) + 1
           walk == CHOOSE f : f = [i \in 0 .. size |-> IF i = 0 THEN << >> ELSE longer[f[i - 1]]]
           k(i) == IF i <= Len(w) THEN i ELSE Len(w)
<1>1. Chain(cells, first, link) = walk[size]
    BY DEF Chain, Address
<1>2. size \in Nat /\ Len(w) <= size /\ Len(w) \in Nat /\ DOMAIN w = 1 .. Len(w)
    BY ListSize, FS_CardinalityType, FS_Subset
<1>3. ASSUME NEW i \in 0 .. Len(w)
      PROVE  /\ SubSeq(w, 1, i) \in Seq(Address)
             /\ longer[SubSeq(w, 1, i)] = SubSeq(w, 1, IF i < Len(w) THEN i + 1 ELSE i)
    <2> DEFINE v == SubSeq(w, 1, i)
    <2>1. v \in Seq(Address) /\ Len(v) = i /\ \A j \in 1 .. i : v[j] = w[j]
        BY <1>2
    <2>2. after[v] = At(w, i + 1)
        <3>1. CASE i = 0
            <4>1. v = << >>
                BY <2>1, <3>1
            <4> QED  BY <2>1, <3>1, <4>1
        <3>2. CASE i # 0
            <4>1. v # << >> /\ Last(v) = w[i] /\ i \in DOMAIN w
                BY <2>1, <3>2, <1>2 DEF Last
            <4>2. w[i] \in DOMAIN cells
                BY <4>1 DEF ToSet
            <4> HIDE DEF v
            <4> QED  BY <2>1, <4>1, <4>2
        <3> QED  BY <3>1, <3>2
    <2>3. longer[v] = IF after[v] = Null THEN v ELSE Append(v, after[v])
        BY <2>1
    <2> HIDE DEF longer, after
    <2>4. CASE i = Len(w)
        BY <2>1, <2>2, <2>3, <2>4, <1>2 DEF At
    <2>5. CASE i # Len(w)
        <3>1. i < Len(w) /\ i + 1 \in DOMAIN w
            <4>1. i \in Nat /\ i <= Len(w) /\ Len(w) \in Nat
                BY <1>2
            <4>2. i + 1 \in 1 .. Len(w)
                BY <4>1, <2>5
            <4> QED  BY <4>1, <4>2, <2>5
        <3>2. w[i + 1] # Null /\ w[i + 1] \in Address
            BY <3>1, NullIsNoAddress
        <3>3. after[v] = w[i + 1]
            BY <2>2, <3>1 DEF At
        <3>4. SubSeq(w, 1, i + 1) = Append(v, w[i + 1])
            <4>1. SubSeq(w, 1, i + 1) \in Seq(Address) /\ Len(SubSeq(w, 1, i + 1)) = i + 1
                BY <3>1, <1>2
            <4>2. Append(v, w[i + 1]) \in Seq(Address) /\ Len(Append(v, w[i + 1])) = i + 1
                BY <2>1, <3>2
            <4>3. \A j \in 1 .. i + 1 : SubSeq(w, 1, i + 1)[j] = Append(v, w[i + 1])[j]
                BY <2>1, <3>1, <1>2
            <4> QED  BY <4>1, <4>2, <4>3, SeqEqual
        <3> QED  BY <2>1, <2>3, <3>1, <3>2, <3>3, <3>4
    <2> QED  BY <2>4, <2>5
<1> HIDE DEF longer, after
<1>4. walk = [i \in 0 .. size |-> IF i = 0 THEN << >> ELSE longer[walk[i - 1]]]
    BY <1>2, Iterates, SMTT(20)
<1> HIDE DEF walk, size
<1>5. SUFFICES \A i \in 0 .. size : walk[i] = SubSeq(w, 1, k(i))
    <2>1. SubSeq(w, 1, Len(w)) = w
        BY <1>2
    <2>2. size \in 0 .. size /\ k(size) = Len(w)
        <3>1. size \in 0 .. size
            BY <1>2
        <3>2. size <= Len(w) => size = Len(w)
            <4>1. \A x, y \in Nat : x <= y /\ y <= x => x = y
                OBVIOUS
            <4> QED  BY <4>1, <1>2, Zenon
        <3> QED  BY <3>1, <3>2
    <2> QED  BY <1>1, <2>1, <2>2, <1>5
<1> DEFINE T == {i \in 0 .. size : walk[i] # SubSeq(w, 1, k(i))}
<1>6. SUFFICES ASSUME T # {} PROVE FALSE
    OBVIOUS
<1>7. PICK i \in T : \A j \in T : i <= j
    <2>1. T \subseteq Nat
        BY <1>2
    <2> QED  BY <1>6, <2>1, LeastNat
<1>8. i \in Nat /\ i \in 0 .. size /\ walk[i] # SubSeq(w, 1, k(i))
    BY <1>7
<1>9. i # 0
    <2>1. walk[0] = << >>
        BY <1>2, <1>4
    <2>2. SubSeq(w, 1, 0) = << >> /\ k(0) = 0
        BY <1>2
    <2> QED  BY <2>1, <2>2, <1>8
<1>10. i - 1 \in 0 .. size /\ i - 1 \notin T /\ i - 1 \in Nat
    BY <1>2, <1>7, <1>8, <1>9
<1>11. walk[i - 1] = SubSeq(w, 1, k(i - 1)) /\ walk[i] = longer[walk[i - 1]]
    BY <1>4, <1>8, <1>9, <1>10
<1>12. /\ k(i - 1) \in 0 .. Len(w)
       /\ (IF k(i - 1) < Len(w) THEN k(i - 1) + 1 ELSE k(i - 1)) = k(i)
    BY <1>2, <1>8, <1>9
<1> HIDE DEF k, T
<1> QED  BY <1>3, <1>8, <1>11, <1>12

\* Following the links downward from the first cell shows the list.
LEMMA ChainDown ==
    ASSUME NEW cells, IsFiniteSet(DOMAIN cells), NEW s, NEW first, NEW last,
           List(cells, s, first, last)
    PROVE  Chain(cells, first, "lower") = s
BY ChainIs DEF List

\* Following them upward from the last cell shows it backward.
LEMMA ChainUp ==
    ASSUME NEW cells, IsFiniteSet(DOMAIN cells), NEW s, NEW first, NEW last,
           List(cells, s, first, last)
    PROVE  Chain(cells, last, "higher") = Reverse(s)
<1> DEFINE w == Reverse(s)
<1>1. Len(s) \in Nat /\ s \in Seq(Address) /\ DOMAIN s = 1 .. Len(s)
    BY DEF List
<1>2. /\ w \in Seq(Address) /\ Len(w) = Len(s) /\ DOMAIN w = 1 .. Len(s)
      /\ \A i \in 1 .. Len(s) : w[i] = s[Len(s) - i + 1]
    BY <1>1, ReverseIs
<1> HIDE DEF w
<1>3. \A i \in 1 .. Len(s) : Len(s) - i + 1 \in DOMAIN s
    BY <1>1
<1>4. IsInjective(w)
    <2>1. ASSUME NEW i \in DOMAIN w, NEW j \in DOMAIN w, w[i] = w[j] PROVE i = j
        <3>1. Len(s) - i + 1 = Len(s) - j + 1
            BY <2>1, <1>2, <1>3 DEF List, IsInjective
        <3> QED  BY <3>1, <1>1, <1>2
    <2> QED  BY <2>1 DEF IsInjective
<1>5. ToSet(w) \subseteq DOMAIN cells
    BY <1>2, <1>3 DEF List, ToSet
<1>6. last = At(w, 1)
    BY <1>1, <1>2 DEF At, List
<1>7. ASSUME NEW i \in DOMAIN w PROVE cells[w[i]]["higher"] = At(w, i + 1)
    <2> DEFINE j == Len(s) - i + 1
    <2>1. j \in DOMAIN s /\ w[i] = s[j]
        BY <1>2, <1>3
    <2>2. cells[s[j]].higher = At(s, j - 1)
        BY <2>1 DEF List
    <2>3. At(w, i + 1) = At(s, j - 1)
        <3>1. i + 1 \in DOMAIN w <=> j - 1 \in DOMAIN s
            BY <1>1, <1>2
        <3>2. i + 1 \in DOMAIN w => w[i + 1] = s[j - 1]
            <4>1. Len(s) - (i + 1) + 1 = j - 1
                BY <1>1, <1>2
            <4> QED  BY <4>1, <1>2
        <3> QED  BY <3>1, <3>2 DEF At
    <2> QED  BY <2>1, <2>2, <2>3
<1> QED  BY <1>2, <1>4, <1>5, <1>6, <1>7, ChainIs DEF w

-----------------------------------------------------------------------------
(* The queue in memory: a list of buffers, each with a list of lines. *)

LineCell == [higher: Box \cup {Null}, lower: Box \cup {Null}, contents: Line]
BufferCell == [higher: Buf \cup {Null}, lower: Buf \cup {Null},
               top: Box \cup {Null}, bottom: Box \cup {Null}, elements: Int]

IsMemory(m) ==
    /\ m \in [box: {m.box}, buf: {m.buf}, top: Buf \cup {Null}, bottom: Buf \cup {Null},
              buffers: Int, elements: Int]
    /\ DOMAIN m.box \subseteq Box /\ m.box \in [DOMAIN m.box -> LineCell]
    /\ DOMAIN m.buf \subseteq Buf \cup {Temp} /\ m.buf \in [DOMAIN m.buf -> BufferCell]

\* The queue in m has the buffers d, the newest first.
Piled(m, d) ==
    /\ List(m.buf, d, m.top, m.bottom)
    /\ ToSet(d) = DOMAIN m.buf \ {Temp}
    /\ m.buffers = Len(d)
    /\ Temp \in DOMAIN m.buf => m.buf[Temp].higher = Null /\ m.buf[Temp].lower = Null

\* Each buffer b in m has the lines ls[b], and no line is in two of them or in none.
Filled(m, ls) ==
    /\ DOMAIN ls = DOMAIN m.buf
    /\ \A b \in DOMAIN m.buf :
          /\ List(m.box, ls[b], m.buf[b].top, m.buf[b].bottom)
          /\ m.buf[b].elements = Len(ls[b])
    /\ \A b, c \in DOMAIN m.buf : \A x \in ToSet(ls[b]) : x \in ToSet(ls[c]) => b = c
    /\ \A x \in DOMAIN m.box : \E b \in DOMAIN m.buf : x \in ToSet(ls[b])

Holds(m, d, ls) == IsMemory(m) /\ Piled(m, d) /\ Filled(m, ls)

\* What the lines s of m say, and what the buffers d with lines ls say.
Text(m, s) == [i \in DOMAIN s |-> m.box[s[i]].contents]
Texts(m, d, ls) == [i \in 1 .. Len(d) |-> Text(m, ls[d[Len(d) - i + 1]])]
Pile(m, d, ls) == IF d = <<>> THEN << <<>> >> ELSE Texts(m, d, ls)

\* There are finitely many live cells, and no more lines than there are
\* addresses.
LEMMA FiniteMemory ==
    ASSUME NEW m, IsMemory(m)
    PROVE  /\ IsFiniteSet(DOMAIN m.box) /\ IsFiniteSet(DOMAIN m.buf)
           /\ Cardinality(DOMAIN m.box) \in Nat
           /\ Cardinality(DOMAIN m.box) <= Cardinality(Box)
           /\ Cardinality(Box) \in Nat
<1>1. IsFiniteSet(Buf \cup {Temp})
    BY LinksAssumption, FS_AddElement
<1> QED  BY <1>1, LinksAssumption, FS_Subset, FS_CardinalityType DEF IsMemory

\* A sequence all of whose elements are in T.
LEMMA Elsewhere ==
    ASSUME NEW S, NEW s \in Seq(S), NEW T, ToSet(s) \subseteq T
    PROVE  s \in Seq(T)
BY DEF ToSet

\* The lines of a buffer.
LEMMA LinesType ==
    ASSUME NEW m, NEW d, NEW ls, Holds(m, d, ls), NEW b \in DOMAIN m.buf
    PROVE  /\ ls[b] \in Seq(Box) /\ Len(ls[b]) \in Nat /\ DOMAIN ls[b] = 1 .. Len(ls[b])
           /\ IsInjective(ls[b]) /\ ToSet(ls[b]) \subseteq DOMAIN m.box
           /\ \A i \in DOMAIN ls[b] : ls[b][i] \in DOMAIN m.box /\ ls[b][i] \in ToSet(ls[b])
           /\ Text(m, ls[b]) \in Seq(Line) /\ Len(Text(m, ls[b])) = Len(ls[b])
           /\ DOMAIN Text(m, ls[b]) = 1 .. Len(ls[b])
<1>1. /\ ls[b] \in Seq(Address) /\ IsInjective(ls[b]) /\ ToSet(ls[b]) \subseteq DOMAIN m.box
      /\ DOMAIN m.box \subseteq Box
    BY DEF Holds, Filled, List, IsMemory
<1>2. ls[b] \in Seq(Box)
    BY <1>1, Elsewhere
<1>3. \A i \in DOMAIN ls[b] : ls[b][i] \in ToSet(ls[b])
    BY DEF ToSet
<1>4. \A x \in DOMAIN m.box : m.box[x].contents \in Line
    BY DEF Holds, IsMemory, LineCell
<1>5. Text(m, ls[b]) \in Seq(Line) /\ Len(Text(m, ls[b])) = Len(ls[b])
    BY <1>1, <1>2, <1>3, <1>4 DEF Text
<1> QED  BY <1>1, <1>2, <1>3, <1>5

\* The buffers of the queue.
LEMMA BuffersType ==
    ASSUME NEW m, NEW d, NEW ls, Holds(m, d, ls)
    PROVE  /\ d \in Seq(Buf) /\ Len(d) \in Nat /\ DOMAIN d = 1 .. Len(d) /\ IsInjective(d)
           /\ \A i \in 1 .. Len(d) : d[i] \in DOMAIN m.buf \ {Temp} /\ d[i] \in ToSet(d)
           /\ \A i \in 1 .. Len(d) : Len(d) - i + 1 \in 1 .. Len(d)
           /\ m.top = Null <=> d = <<>>
           /\ m.bottom = Null <=> d = <<>>
           /\ d # <<>> => Len(d) >= 1 /\ m.top = d[1] /\ m.bottom = d[Len(d)]
<1>1. /\ d \in Seq(Address) /\ IsInjective(d) /\ ToSet(d) = DOMAIN m.buf \ {Temp}
      /\ DOMAIN m.buf \ {Temp} \subseteq Buf /\ List(m.buf, d, m.top, m.bottom)
    BY DEF Holds, Piled, List, IsMemory
<1>2. d \in Seq(Buf)
    BY <1>1, Elsewhere
<1>3. \A i \in DOMAIN d : d[i] \in ToSet(d)
    BY DEF ToSet
<1>4. /\ m.top = Null <=> d = <<>>
      /\ m.bottom = Null <=> d = <<>>
      /\ d # <<>> => Len(d) >= 1 /\ m.top = d[1] /\ m.bottom = d[Len(d)]
    BY <1>1, ListEnds
<1> QED  BY <1>1, <1>2, <1>3, <1>4

\* Following the links shows this, and nothing else.
LEMMA Shown ==
    ASSUME NEW m, NEW d, NEW ls, Holds(m, d, ls)
    PROVE  /\ BuffersOf(m) = d
           /\ Chain(m.buf, m.bottom, "higher") = Reverse(d)
           /\ \A b \in DOMAIN m.buf :
                 /\ LinesOf(m, b) = ls[b]
                 /\ Chain(m.box, m.buf[b].bottom, "higher") = Reverse(ls[b])
                 /\ Contents(m, b) = Text(m, ls[b])
           /\ StackIn(m) = Pile(m, d, ls)
           /\ CopyIn(m) = IF Temp \in DOMAIN m.buf THEN Text(m, ls[Temp]) ELSE <<>>
<1>1. IsFiniteSet(DOMAIN m.box) /\ IsFiniteSet(DOMAIN m.buf)
    BY FiniteMemory DEF Holds
<1>2. BuffersOf(m) = d /\ Chain(m.buf, m.bottom, "higher") = Reverse(d)
    BY <1>1, ChainDown, ChainUp DEF Holds, Piled, BuffersOf
<1>3. ASSUME NEW b \in DOMAIN m.buf
      PROVE  LinesOf(m, b) = ls[b] /\ Chain(m.box, m.buf[b].bottom, "higher") = Reverse(ls[b])
    BY <1>1, ChainDown, ChainUp DEF Holds, Filled, LinesOf
<1>4. ASSUME NEW b \in DOMAIN m.buf PROVE Contents(m, b) = Text(m, ls[b])
    <2>1. ls[b] \in Seq(Box) /\ LinesOf(m, b) = ls[b]
        BY <1>3, LinesType
    <2> QED  BY <2>1 DEF Contents, Text
<1>5. StackIn(m) = Pile(m, d, ls)
    <2>1. CASE d = <<>>
        BY <2>1, BuffersType DEF StackIn, Pile
    <2>2. CASE d # <<>>
        <3> DEFINE up == Reverse(d)
        <3>1. /\ up \in Seq(Buf) /\ Len(up) = Len(d) /\ DOMAIN up = 1 .. Len(d)
              /\ \A i \in 1 .. Len(d) : up[i] = d[Len(d) - i + 1]
            BY BuffersType, ReverseIs
        <3> HIDE DEF up
        <3>2. \A i \in 1 .. Len(d) : Contents(m, up[i]) = Text(m, ls[d[Len(d) - i + 1]])
            BY <3>1, <1>4, BuffersType
        <3>3. m.top # Null /\ Reverse(BuffersOf(m)) = up
            BY <1>2, <2>2, BuffersType DEF up
        <3>4. StackIn(m) = [i \in DOMAIN up |-> Contents(m, up[i])]
            BY <3>1, <3>3 DEF StackIn
        <3> QED  BY <2>2, <3>1, <3>2, <3>4 DEF Pile, Texts
    <2> QED  BY <2>1, <2>2
<1>6. CopyIn(m) = IF Temp \in DOMAIN m.buf THEN Text(m, ls[Temp]) ELSE <<>>
    BY <1>4 DEF CopyIn
<1> QED  BY <1>2, <1>3, <1>4, <1>5, <1>6

\* So what the lists of a queue are is decided by its links.
LEMMA ShownOnce ==
    ASSUME NEW m, NEW d, NEW ls, Holds(m, d, ls)
    PROVE  Holds(m, BuffersOf(m), [b \in DOMAIN m.buf |-> LinesOf(m, b)])
<1> DEFINE ls2 == [b \in DOMAIN m.buf |-> LinesOf(m, b)]
<1>1. BuffersOf(m) = d /\ DOMAIN ls2 = DOMAIN m.buf /\ \A b \in DOMAIN m.buf : ls2[b] = ls[b]
    BY Shown
<1> HIDE DEF ls2
<1> QED  BY <1>1 DEF Holds, Filled, ls2

\* The queue seen is a pile of buffers of lines.
LEMMA PileType ==
    ASSUME NEW m, NEW d, NEW ls, Holds(m, d, ls)
    PROVE  /\ StackIn(m) \in Seq(Seq(Line)) /\ StackIn(m) # <<>>
           /\ CopyIn(m) \in Seq(Line)
           /\ Len(StackIn(m)) = IF d = <<>> THEN 1 ELSE Len(d)
           /\ d # <<>> => \A i \in 1 .. Len(d) : StackIn(m)[i] = Text(m, ls[d[Len(d) - i + 1]])
<1>1. CopyIn(m) \in Seq(Line)
    <2>1. CASE Temp \in DOMAIN m.buf
        BY <2>1, Shown, LinesType
    <2>2. CASE Temp \notin DOMAIN m.buf
        <3>1. CopyIn(m) = <<>>
            BY <2>2, Shown
        <3> QED  BY <3>1
    <2> QED  BY <2>1, <2>2
<1>2. CASE d = <<>>
    <2>1. StackIn(m) = << <<>> >>
        BY <1>2, Shown DEF Pile
    <2> QED  BY <1>1, <1>2, <2>1
<1>3. CASE d # <<>>
    <2>1. StackIn(m) = [i \in 1 .. Len(d) |-> Text(m, ls[d[Len(d) - i + 1]])]
        BY <1>3, Shown DEF Pile, Texts
    <2>2. \A i \in 1 .. Len(d) : Text(m, ls[d[Len(d) - i + 1]]) \in Seq(Line)
        BY BuffersType, LinesType
    <2>3. Len(d) \in Nat /\ Len(d) >= 1
        BY <1>3, BuffersType
    <2>4. StackIn(m) \in Seq(Seq(Line)) /\ Len(StackIn(m)) = Len(d)
        BY <2>1, <2>2, <2>3
    <2> QED  BY <1>1, <1>3, <2>1, <2>3, <2>4
<1> QED  BY <1>2, <1>3

-----------------------------------------------------------------------------
(* One buffer gets other lines. *)

\* The null pointer is no live cell.
LEMMA NullIsNoBuffer ==
    ASSUME NEW m, IsMemory(m)
    PROVE  Null \notin DOMAIN m.buf /\ Null \notin DOMAIN m.box
BY LinksAssumption DEF IsMemory

\* Only buffer b changed from m to r, and it is where it was in the queue.
OnlyAt(m, r, b) ==
    /\ r.top = m.top /\ r.bottom = m.bottom /\ r.buffers = m.buffers
    /\ DOMAIN r.buf = DOMAIN m.buf
    /\ \A c \in DOMAIN m.buf \ {b} : r.buf[c] = m.buf[c]
    /\ r.buf[b].lower = m.buf[b].lower /\ r.buf[b].higher = m.buf[b].higher

\* The last of a sequence is replaced.
LEMMA NewLast ==
    ASSUME NEW S, NEW q \in Seq(S), q # <<>>, NEW r, NEW x \in S,
           r = [i \in 1 .. Len(q) |-> IF i = Len(q) THEN x ELSE q[i]]
    PROVE  r = Append(Front(q), x)
<1>1. Len(q) \in Nat /\ Len(q) >= 1
    OBVIOUS
<1>2. /\ Front(q) \in Seq(S) /\ Len(Front(q)) = Len(q) - 1
      /\ \A i \in 1 .. Len(q) - 1 : Front(q)[i] = q[i]
    <2>1. Front(q) = SubSeq(q, 1, Len(q) - 1)
        BY DEF Front
    <2> DEFINE n == Len(q) - 1
    <2>2. n \in 0 .. Len(q)
        BY <1>1
    <2> HIDE DEF n
    <2>3. /\ SubSeq(q, 1, n) \in Seq(S) /\ Len(SubSeq(q, 1, n)) = n
          /\ \A i \in 1 .. n : SubSeq(q, 1, n)[i] = q[i]
        BY <1>1, <2>2
    <2> QED  BY <2>1, <2>3 DEF n
<1> DEFINE t == Append(Front(q), x)
<1>3. /\ t \in Seq(S) /\ Len(t) = Len(q) /\ t[Len(q)] = x
      /\ \A i \in 1 .. Len(q) - 1 : t[i] = q[i]
    BY <1>1, <1>2
<1>4. r \in Seq(S) /\ Len(r) = Len(q)
    BY <1>1
<1> HIDE DEF t
<1>5. \A i \in 1 .. Len(q) : r[i] = t[i]
    BY <1>1, <1>3
<1> QED  BY <1>3, <1>4, <1>5, SeqEqual DEF t

\* A buffer gets other lines.
Relist(ls, b, s) == [ls EXCEPT ![b] = s]

Refill(m, ls, r, b, s) ==
    /\ List(r.box, s, r.buf[b].top, r.buf[b].bottom) /\ r.buf[b].elements = Len(s)
    /\ DOMAIN r.box = (DOMAIN m.box \ ToSet(ls[b])) \cup ToSet(s)
    /\ \A x \in ToSet(s) : x \in ToSet(ls[b]) \/ x \notin DOMAIN m.box
    /\ \A x \in DOMAIN m.box \ ToSet(ls[b]) :
          /\ r.box[x].lower = m.box[x].lower
          /\ r.box[x].higher = m.box[x].higher
          /\ r.box[x].contents = m.box[x].contents

\* A buffer gets other lines: the queue holds them, and the other buffers say
\* what they said.
LEMMA Refilled ==
    ASSUME NEW m, NEW d, NEW ls, Holds(m, d, ls), NEW b \in DOMAIN m.buf,
           NEW r, NEW s, IsMemory(r), OnlyAt(m, r, b), Refill(m, ls, r, b, s)
    PROVE  LET ls2 == Relist(ls, b, s) IN
           /\ Holds(r, d, ls2)
           /\ \A c \in DOMAIN m.buf \ {b} : Text(r, ls2[c]) = Text(m, ls[c])
           /\ ls2[b] = s
<1> DEFINE ls2 == Relist(ls, b, s)
<1>1. /\ DOMAIN ls2 = DOMAIN m.buf /\ ls2[b] = s
      /\ \A c \in DOMAIN m.buf \ {b} : ls2[c] = ls[c]
    BY DEF Holds, Filled, Relist
<1> HIDE DEF ls2
<1> USE DEF Refill
<1>2. Piled(r, d)
    <2>1. List(r.buf, d, r.top, r.bottom)
        <3>1. \A c \in DOMAIN m.buf :
                 r.buf[c].lower = m.buf[c].lower /\ r.buf[c].higher = m.buf[c].higher
            BY DEF OnlyAt
        <3>2. List(m.buf, d, m.top, m.bottom) /\ ToSet(d) \subseteq DOMAIN m.buf
            BY DEF Holds, Piled
        <3>3. r.top = m.top /\ r.bottom = m.bottom /\ DOMAIN r.buf = DOMAIN m.buf
            BY DEF OnlyAt
        <3> QED  BY <3>1, <3>2, <3>3, ListSame
    <2> QED  BY <2>1 DEF Holds, Piled, OnlyAt
<1>3. ASSUME NEW c \in DOMAIN m.buf \ {b}
      PROVE  /\ ToSet(ls[c]) \subseteq DOMAIN m.box \ ToSet(ls[b])
             /\ ToSet(ls[c]) \cap ToSet(s) = {}
    <2>1. ToSet(ls[c]) \subseteq DOMAIN m.box
        BY LinesType
    <2>2. \A x \in ToSet(ls[c]) : x \notin ToSet(ls[b])
        BY DEF Holds, Filled
    <2> QED  BY <2>1, <2>2
<1>4. ASSUME NEW c \in DOMAIN r.buf
      PROVE  List(r.box, ls2[c], r.buf[c].top, r.buf[c].bottom) /\ r.buf[c].elements = Len(ls2[c])
    <2>1. CASE c = b
        BY <2>1, <1>1
    <2>2. CASE c # b
        <3>1. c \in DOMAIN m.buf \ {b} /\ r.buf[c] = m.buf[c] /\ ls2[c] = ls[c]
            BY <2>2, <1>1 DEF OnlyAt
        <3>2. List(m.box, ls[c], m.buf[c].top, m.buf[c].bottom) /\ m.buf[c].elements = Len(ls[c])
            BY <3>1 DEF Holds, Filled
        <3>3. List(r.box, ls[c], m.buf[c].top, m.buf[c].bottom)
            BY <3>1, <3>2, <1>3, ListSame
        <3> QED  BY <3>1, <3>2, <3>3
    <2> QED  BY <2>1, <2>2
<1>5. ASSUME NEW c \in DOMAIN r.buf, NEW e \in DOMAIN r.buf,
             NEW x \in ToSet(ls2[c]), x \in ToSet(ls2[e])
      PROVE  c = e
    <2>1. c = b <=> e = b
        BY <1>1, <1>3, <1>5 DEF OnlyAt
    <2>2. c # b => c = e
        BY <2>1, <1>1, <1>5 DEF Holds, Filled, OnlyAt
    <2> QED  BY <2>1, <2>2
<1>6. ASSUME NEW x \in DOMAIN r.box PROVE \E c \in DOMAIN r.buf : x \in ToSet(ls2[c])
    <2>1. CASE x \in ToSet(s)
        BY <2>1, <1>1 DEF OnlyAt
    <2>2. CASE x \in DOMAIN m.box \ ToSet(ls[b])
        <3>1. PICK c \in DOMAIN m.buf : x \in ToSet(ls[c])
            BY <2>2 DEF Holds, Filled
        <3> QED  BY <3>1, <2>2, <1>1 DEF OnlyAt
    <2> QED  BY <2>1, <2>2
<1>7. Filled(r, ls2)
    BY <1>1, <1>4, <1>5, <1>6 DEF Filled, OnlyAt
<1>8. ASSUME NEW c \in DOMAIN m.buf \ {b} PROVE Text(r, ls2[c]) = Text(m, ls[c])
    <2>1. \A i \in DOMAIN ls[c] : ls[c][i] \in DOMAIN m.box \ ToSet(ls[b])
        BY <1>3, LinesType
    <2> QED  BY <2>1, <1>1 DEF Text
<1> QED  BY <1>1, <1>2, <1>7, <1>8 DEF Holds, ls2

\* What is seen of it, when it is the temporary queue's buffer or the top one.
LEMMA RefilledTemp ==
    ASSUME NEW m, NEW d, NEW ls, Holds(m, d, ls), Temp \in DOMAIN m.buf,
           NEW r, NEW ls2, Holds(r, d, ls2), DOMAIN r.buf = DOMAIN m.buf,
           \A c \in DOMAIN m.buf \ {Temp} : Text(r, ls2[c]) = Text(m, ls[c])
    PROVE  /\ StackIn(r) = StackIn(m)
           /\ CopyIn(r) = Text(r, ls2[Temp])
<1>1. CopyIn(r) = Text(r, ls2[Temp])
    BY Shown
<1>2. Texts(r, d, ls2) = Texts(m, d, ls)
    <2>1. \A i \in 1 .. Len(d) : d[Len(d) - i + 1] \in DOMAIN m.buf \ {Temp}
        BY BuffersType
    <2> QED  BY <2>1 DEF Texts
<1> QED  BY <1>1, <1>2, Shown DEF Pile

\* The buffers of the queue are the same, and the lines of all but the top one.
LEMMA TopReplaced ==
    ASSUME NEW m, NEW d, NEW ls, Holds(m, d, ls), m.top # Null,
           NEW r, NEW ls2, Holds(r, d, ls2),
           \A c \in DOMAIN m.buf \ {m.top, Temp} : Text(r, ls2[c]) = Text(m, ls[c])
    PROVE  StackIn(r) = Append(Front(StackIn(m)), Text(r, ls2[m.top]))
<1>1. d # <<>> /\ m.top = d[1] /\ Len(d) \in Nat /\ Len(d) >= 1 /\ m.top \in DOMAIN m.buf \ {Temp}
    BY BuffersType
<1>2. /\ StackIn(m) = [i \in 1 .. Len(d) |-> Text(m, ls[d[Len(d) - i + 1]])]
      /\ StackIn(r) = [i \in 1 .. Len(d) |-> Text(r, ls2[d[Len(d) - i + 1]])]
    BY <1>1, Shown DEF Pile, Texts
<1>3. Len(StackIn(m)) = Len(d) /\ StackIn(m) \in Seq(Seq(Line)) /\ StackIn(m) # <<>>
    BY <1>1, PileType
<1>4. ASSUME NEW i \in 1 .. Len(d)
      PROVE  StackIn(r)[i] = IF i = Len(d) THEN Text(r, ls2[m.top]) ELSE StackIn(m)[i]
    <2>1. CASE i = Len(d)
        <3>1. Len(d) - i + 1 = 1
            BY <2>1, <1>1
        <3> QED  BY <3>1, <2>1, <1>1, <1>2
    <2>2. CASE i # Len(d)
        <3>1. Len(d) - i + 1 # 1 /\ Len(d) - i + 1 \in 1 .. Len(d)
            BY <2>2, <1>1
        <3>2. d[Len(d) - i + 1] \in DOMAIN m.buf \ {m.top, Temp}
            BY <3>1, <1>1, BuffersType DEF IsInjective
        <3> QED  BY <3>2, <2>2, <1>2
    <2> QED  BY <2>1, <2>2
<1>5. StackIn(r) = [i \in 1 .. Len(d) |-> IF i = Len(d) THEN Text(r, ls2[m.top]) ELSE StackIn(m)[i]]
    BY <1>2, <1>4
<1>6. Text(r, ls2[m.top]) \in Seq(Line)
    <2>1. ToSet(d) = DOMAIN m.buf \ {Temp} /\ ToSet(d) = DOMAIN r.buf \ {Temp}
        BY DEF Holds, Piled
    <2> QED  BY <2>1, <1>1, LinesType
<1> DEFINE q == StackIn(m)
           t == StackIn(r)
           x == Text(r, ls2[m.top])
           S == Seq(Line)
<1>7. /\ q \in Seq(S) /\ q # <<>> /\ x \in S
      /\ t = [i \in 1 .. Len(q) |-> IF i = Len(q) THEN x ELSE q[i]]
    BY <1>3, <1>5, <1>6
<1> HIDE DEF q, t, x, S
<1>8. t = Append(Front(q), x)
    BY <1>7, NewLast
<1> QED  BY <1>8 DEF q, t, x

\* Seen by the program, when it is the top buffer, only that one is another.
LEMMA RefilledTop ==
    ASSUME NEW m, NEW d, NEW ls, Holds(m, d, ls), m.top # Null,
           NEW r, NEW ls2, Holds(r, d, ls2), DOMAIN r.buf = DOMAIN m.buf,
           \A c \in DOMAIN m.buf \ {m.top} : Text(r, ls2[c]) = Text(m, ls[c])
    PROVE  /\ StackIn(r) = Append(Front(StackIn(m)), Text(r, ls2[m.top]))
           /\ CopyIn(r) = CopyIn(m)
<1>1. m.top \in DOMAIN m.buf \ {Temp}
    BY BuffersType
<1>2. StackIn(r) = Append(Front(StackIn(m)), Text(r, ls2[m.top]))
    <2>1. \A c \in DOMAIN m.buf \ {m.top, Temp} : Text(r, ls2[c]) = Text(m, ls[c])
        OBVIOUS
    <2> QED  BY <2>1, TopReplaced
<1>3. CopyIn(r) = CopyIn(m)
    BY <1>1, Shown
<1> QED  BY <1>2, <1>3

-----------------------------------------------------------------------------
(* A line is put on top. *)

\* The lines of memory and the ends of one buffer are set.
SetLines(m, b, X, t, u, e) ==
    [m EXCEPT !.box = X, !.buf[b].top = t, !.buf[b].bottom = u, !.buf[b].elements = e]

IsSet(m, r, b, X, t, u, e) ==
    /\ IsMemory(r) /\ OnlyAt(m, r, b)
    /\ r.box = X /\ r.elements = m.elements
    /\ r.buf[b].top = t /\ r.buf[b].bottom = u /\ r.buf[b].elements = e
AreEnds(t, u, e) == t \in Box \cup {Null} /\ u \in Box \cup {Null} /\ e \in Int
IsBoxes(X) == DOMAIN X \subseteq Box /\ X \in [DOMAIN X -> LineCell]

\* What LifoLine, FifoLine and PopLine change of the memory: the cells of lines
\* and the ends and the counter of one buffer.
LEMMA LinesSet ==
    ASSUME NEW m, IsMemory(m), NEW b \in DOMAIN m.buf,
           NEW X, IsBoxes(X),
           NEW t, NEW u, NEW e, AreEnds(t, u, e),
           NEW r, r = SetLines(m, b, X, t, u, e)
    PROVE  IsSet(m, r, b, X, t, u, e)
<1> DEFINE c == [m.buf[b] EXCEPT !.top = t, !.bottom = u, !.elements = e]
           B == [m.buf EXCEPT ![b] = c]
<1> USE DEF AreEnds
<1>1. r = [m EXCEPT !.box = X, !.buf = B]
    BY DEF IsMemory, BufferCell, SetLines
<1>2. /\ c \in BufferCell /\ c.top = t /\ c.bottom = u /\ c.elements = e
      /\ c.lower = m.buf[b].lower /\ c.higher = m.buf[b].higher
    BY DEF IsMemory, BufferCell
<1> HIDE DEF c
<1>3. /\ DOMAIN B = DOMAIN m.buf /\ B \in [DOMAIN B -> BufferCell] /\ B[b] = c
      /\ \A x \in DOMAIN m.buf \ {b} : B[x] = m.buf[x]
    BY <1>2 DEF IsMemory
<1> HIDE DEF B
<1>4. /\ r.box = X /\ r.buf = B /\ r.top = m.top /\ r.bottom = m.bottom
      /\ r.buffers = m.buffers /\ r.elements = m.elements
      /\ r \in [box: {r.box}, buf: {r.buf}, top: Buf \cup {Null}, bottom: Buf \cup {Null},
                buffers: Int, elements: Int]
    BY <1>1 DEF IsMemory
<1>5. IsMemory(r)
    BY <1>3, <1>4 DEF IsMemory, IsBoxes
<1> QED  BY <1>2, <1>3, <1>4, <1>5 DEF OnlyAt, IsSet

\* What is known of a buffer's lines.
LEMMA FilledAt ==
    ASSUME NEW m, NEW d, NEW ls, Holds(m, d, ls), NEW b \in DOMAIN m.buf
    PROVE  /\ List(m.box, ls[b], m.buf[b].top, m.buf[b].bottom)
           /\ m.buf[b].elements = Len(ls[b]) /\ Len(ls[b]) \in Nat
           /\ m.buf[b].top \in Box \cup {Null} /\ m.buf[b].bottom \in Box \cup {Null}
           /\ m.buf[b].top = Null <=> ls[b] = <<>>
           /\ m.buf[b].bottom = Null <=> ls[b] = <<>>
           /\ ls[b] # <<>> => /\ m.buf[b].top \in ToSet(ls[b]) /\ m.buf[b].bottom \in ToSet(ls[b])
                              /\ m.buf[b].top = ls[b][1]
           /\ ToSet(ls[b]) \subseteq DOMAIN m.box
<1>1. List(m.box, ls[b], m.buf[b].top, m.buf[b].bottom) /\ m.buf[b].elements = Len(ls[b])
    BY DEF Holds, Filled
<1>2. m.buf[b].top \in Box \cup {Null} /\ m.buf[b].bottom \in Box \cup {Null}
    BY DEF Holds, IsMemory, BufferCell
<1> QED  BY <1>1, <1>2, ListEnds, LinesType

\* A free cell.
LEMMA NewLine ==
    ASSUME NEW m, IsMemory(m), DOMAIN m.box # Box
    PROVE  Malloc(Box, m.box) \in Box \ DOMAIN m.box /\ Malloc(Box, m.box) # Null
<1>1. \E a : a \in Box \ DOMAIN m.box
    BY DEF IsMemory
<1>2. Malloc(Box, m.box) \in Box \ DOMAIN m.box
    BY <1>1 DEF Malloc
<1> QED  BY <1>2, LinksAssumption

\* From m to r only the lines of b changed, and so did the lists of lines.
Turned(m, d, ls, b, r, ls2) ==
    /\ Holds(r, d, ls2) /\ OnlyAt(m, r, b) /\ r.elements = m.elements
    /\ \A c \in DOMAIN m.buf \ {b} : Text(r, ls2[c]) = Text(m, ls[c])

\* A line is put on top of a buffer.
LEMMA LifoLineHolds ==
    ASSUME NEW m, NEW d, NEW ls, Holds(m, d, ls), NEW b \in DOMAIN m.buf, NEW l \in Line,
           DOMAIN m.box # Box, NEW r, r = LifoLine(m, b, l)
    PROVE  \E ls2 :
              /\ Turned(m, d, ls, b, r, ls2)
              /\ Text(r, ls2[b]) = <<l>> \o Text(m, ls[b])
              /\ Cardinality(DOMAIN r.box) = Cardinality(DOMAIN m.box) + 1
<1> DEFINE n == Malloc(Box, m.box)
           old == m.buf[b].top
           cell == [higher |-> Null, lower |-> old, contents |-> l]
           boxes == Put(m.box, n, cell)
           X == IF old = Null THEN boxes ELSE [boxes EXCEPT ![old].higher = n]
           s == <<n>> \o ls[b]
           u == IF old = Null THEN n ELSE m.buf[b].bottom
           e == m.buf[b].elements + 1
<1>1. IsMemory(m)
    BY DEF Holds
<1>2. n \in Box \ DOMAIN m.box /\ n # Null
    BY <1>1, NewLine
<1>3. r = SetLines(m, b, X, n, u, e)
    BY <1>1 DEF LifoLine, IsMemory, BufferCell, SetLines
<1> HIDE DEF n
<1>4. old \in Box \cup {Null} /\ (old # Null => old \in DOMAIN m.box /\ old # n)
    BY <1>2, FilledAt
<1>5. cell \in LineCell /\ cell.lower = old /\ cell.higher = Null /\ cell.contents = l
    BY <1>4 DEF LineCell
<1> HIDE DEF old, cell
<1>6. /\ DOMAIN boxes = DOMAIN m.box \cup {n} /\ boxes[n] = cell
      /\ \A x \in DOMAIN m.box : boxes[x] = m.box[x]
      /\ boxes \in [DOMAIN boxes -> LineCell]
    BY <1>1, <1>2, <1>5 DEF Put, IsMemory
<1> HIDE DEF boxes
<1>7. /\ DOMAIN X = DOMAIN m.box \cup {n} /\ X[n] = cell
      /\ X \in [DOMAIN X -> LineCell]
      /\ \A x \in DOMAIN m.box : /\ X[x].lower = m.box[x].lower /\ X[x].contents = m.box[x].contents
                                 /\ X[x].higher = IF x = old THEN n ELSE m.box[x].higher
    <2>1. CASE old = Null
        BY <2>1, <1>1, <1>6, NullIsNoBuffer
    <2>2. CASE old # Null
        BY <2>2, <1>1, <1>2, <1>4, <1>6 DEF LineCell
    <2> QED  BY <2>1, <2>2
<1> HIDE DEF X
<1>8. u \in Box \cup {Null} /\ e \in Int
    BY <1>2, FilledAt DEF old
<1>9. /\ IsMemory(r) /\ OnlyAt(m, r, b) /\ r.box = X /\ r.elements = m.elements
      /\ r.buf[b].top = n /\ r.buf[b].bottom = u /\ r.buf[b].elements = e
    <2>1. IsBoxes(X)
        BY <1>1, <1>2, <1>7 DEF IsMemory, IsBoxes
    <2> HIDE DEF u, e
    <2>2. AreEnds(n, u, e)
        BY <1>2, <1>8 DEF AreEnds
    <2> QED  BY <2>1, <2>2, <1>1, <1>3, LinesSet DEF IsSet
<1>10. /\ List(X, s, n, u) /\ ToSet(s) = ToSet(ls[b]) \cup {n} /\ Len(s) = Len(ls[b]) + 1
    <2>1. n \in Address /\ n \notin ToSet(ls[b])
        BY <1>2, FilledAt DEF Address
    <2>2. ToSet(ls[b]) \cup {n} \subseteq DOMAIN X
        BY <1>7, FilledAt
    <2>3. X[n].lower = old /\ X[n].higher = Null
        BY <1>5, <1>7
    <2>4. \A x \in ToSet(ls[b]) : /\ X[x].lower = m.box[x].lower
                                  /\ X[x].higher = IF x = old THEN n ELSE m.box[x].higher
        BY <1>7, FilledAt
    <2>5. u = IF ls[b] = <<>> THEN n ELSE m.buf[b].bottom
        BY FilledAt DEF old
    <2>6. List(m.box, ls[b], old, m.buf[b].bottom)
        BY FilledAt DEF old
    <2> HIDE DEF u, s
    <2> QED  BY <2>1, <2>2, <2>3, <2>4, <2>5, <2>6, ListPush DEF s
<1> DEFINE ls2 == Relist(ls, b, s)
<1>11. /\ Holds(r, d, ls2) /\ ls2[b] = s
       /\ \A c \in DOMAIN m.buf \ {b} : Text(r, ls2[c]) = Text(m, ls[c])
    <2>1. /\ DOMAIN r.box = (DOMAIN m.box \ ToSet(ls[b])) \cup ToSet(s)
          /\ \A x \in ToSet(s) : x \in ToSet(ls[b]) \/ x \notin DOMAIN m.box
        BY <1>2, <1>7, <1>9, <1>10, FilledAt
    <2>2. ASSUME NEW x \in DOMAIN m.box \ ToSet(ls[b])
          PROVE  /\ r.box[x].lower = m.box[x].lower
                 /\ r.box[x].higher = m.box[x].higher
                 /\ r.box[x].contents = m.box[x].contents
        <3>1. x # old
            BY FilledAt, <1>1, NullIsNoBuffer DEF old
        <3> QED  BY <3>1, <1>7, <1>9
    <2>3. List(r.box, s, r.buf[b].top, r.buf[b].bottom) /\ r.buf[b].elements = Len(s)
        BY <1>9, <1>10, FilledAt
    <2> HIDE DEF s
    <2>4. Refill(m, ls, r, b, s)
        BY <2>1, <2>2, <2>3 DEF Refill
    <2> QED  BY <2>4, <1>9, Refilled
<1>12. Text(r, s) = <<l>> \o Text(m, ls[b])
    <2>1. /\ ls[b] \in Seq(Box) /\ Text(m, ls[b]) \in Seq(Line) /\ Len(Text(m, ls[b])) = Len(ls[b])
          /\ \A i \in 1 .. Len(ls[b]) :
                /\ ls[b][i] \in DOMAIN m.box
                /\ Text(m, ls[b])[i] = m.box[ls[b][i]].contents
        BY LinesType DEF Text
    <2>2. s \in Seq(Box) /\ s[1] = n /\ \A i \in 2 .. Len(ls[b]) + 1 : s[i] = ls[b][i - 1]
        BY <2>1, <1>2
    <2>3. r.box[n].contents = l /\ \A x \in DOMAIN m.box : r.box[x].contents = m.box[x].contents
        BY <1>5, <1>7, <1>9
    <2> DEFINE t == <<l>> \o Text(m, ls[b])
    <2>4. t \in Seq(Line) /\ Len(t) = Len(ls[b]) + 1 /\ t[1] = l
          /\ \A i \in 2 .. Len(ls[b]) + 1 : t[i] = Text(m, ls[b])[i - 1]
        BY <2>1
    <2>5. Len(ls[b]) \in Nat /\ DOMAIN s = 1 .. Len(ls[b]) + 1
        BY <1>10, <2>1, <2>2
    <2> HIDE DEF s, t
    <2>6. \A i \in 1 .. Len(ls[b]) + 1 : r.box[s[i]].contents = t[i]
        <3>1. \A i \in 2 .. Len(ls[b]) + 1 : i - 1 \in 1 .. Len(ls[b])
            BY <2>5
        <3>2. \A i \in 2 .. Len(ls[b]) + 1 : r.box[s[i]].contents = t[i]
            BY <3>1, <2>1, <2>2, <2>3, <2>4
        <3>3. \A i \in 1 .. Len(ls[b]) + 1 : i = 1 \/ i \in 2 .. Len(ls[b]) + 1
            BY <2>5
        <3> QED  BY <3>2, <3>3, <2>2, <2>3, <2>4
    <2>7. t = [i \in 1 .. Len(ls[b]) + 1 |-> t[i]]
        BY <2>4
    <2>8. Text(r, s) = t
        BY <2>5, <2>6, <2>7 DEF Text
    <2> QED  BY <2>8 DEF t
<1>13. Cardinality(DOMAIN r.box) = Cardinality(DOMAIN m.box) + 1
    BY <1>1, <1>2, <1>7, <1>9, FiniteMemory, FS_AddElement
<1>14. Turned(m, d, ls, b, r, ls2)
    BY <1>9, <1>11 DEF Turned
<1> HIDE DEF s, ls2
<1> QED  BY <1>11, <1>12, <1>13, <1>14

-----------------------------------------------------------------------------
(* A line is put at the bottom, or taken off the top, or all of them go. *)

\* The order of the assignments does not matter.
SetLinesUp(m, b, X, t, u, e) ==
    [m EXCEPT !.box = X, !.buf[b].bottom = u, !.buf[b].top = t, !.buf[b].elements = e]

\* The same, written with the other end first.
LEMMA SetUp ==
    ASSUME NEW m, IsMemory(m), NEW b \in DOMAIN m.buf, NEW X, NEW t, NEW u, NEW e
    PROVE  SetLinesUp(m, b, X, t, u, e) = SetLines(m, b, X, t, u, e)
<1> DEFINE c1 == [m.buf[b] EXCEPT !.bottom = u, !.top = t, !.elements = e]
           c2 == [m.buf[b] EXCEPT !.top = t, !.bottom = u, !.elements = e]
<1>1. SetLinesUp(m, b, X, t, u, e) = [m EXCEPT !.box = X, !.buf = [m.buf EXCEPT ![b] = c1]]
    BY DEF SetLinesUp, IsMemory, BufferCell
<1>2. SetLines(m, b, X, t, u, e) = [m EXCEPT !.box = X, !.buf = [m.buf EXCEPT ![b] = c2]]
    BY DEF SetLines, IsMemory, BufferCell
<1>3. c1 = c2
    BY DEF IsMemory, BufferCell
<1> HIDE DEF c1, c2
<1> QED  BY <1>1, <1>2, <1>3

\* A line is put at the bottom of a buffer.
LEMMA FifoLineHolds ==
    ASSUME NEW m, NEW d, NEW ls, Holds(m, d, ls), NEW b \in DOMAIN m.buf, NEW l \in Line,
           DOMAIN m.box # Box, NEW r, r = FifoLine(m, b, l)
    PROVE  \E ls2 :
              /\ Turned(m, d, ls, b, r, ls2)
              /\ Text(r, ls2[b]) = Append(Text(m, ls[b]), l)
              /\ Cardinality(DOMAIN r.box) = Cardinality(DOMAIN m.box) + 1
<1> DEFINE n == Malloc(Box, m.box)
           old == m.buf[b].bottom
           cell == [higher |-> old, lower |-> Null, contents |-> l]
           boxes == Put(m.box, n, cell)
           X == IF old = Null THEN boxes ELSE [boxes EXCEPT ![old].lower = n]
           s == Append(ls[b], n)
           u == IF old = Null THEN n ELSE m.buf[b].top
           e == m.buf[b].elements + 1
<1>1. IsMemory(m)
    BY DEF Holds
<1>2. n \in Box \ DOMAIN m.box /\ n # Null
    BY <1>1, NewLine
<1>3. r = SetLines(m, b, X, u, n, e)
    <2>1. r = SetLinesUp(m, b, X, u, n, e)
        BY <1>1 DEF FifoLine, IsMemory, BufferCell, SetLinesUp
    <2> HIDE DEF X, u, n, e
    <2>2. SetLinesUp(m, b, X, u, n, e) = SetLines(m, b, X, u, n, e)
        BY <1>1, SetUp
    <2> QED  BY <2>1, <2>2
<1> HIDE DEF n
<1>4. old \in Box \cup {Null} /\ (old # Null => old \in DOMAIN m.box /\ old # n)
    BY <1>2, FilledAt
<1>5. cell \in LineCell /\ cell.higher = old /\ cell.lower = Null /\ cell.contents = l
    BY <1>4 DEF LineCell
<1> HIDE DEF old, cell
<1>6. /\ DOMAIN boxes = DOMAIN m.box \cup {n} /\ boxes[n] = cell
      /\ \A x \in DOMAIN m.box : boxes[x] = m.box[x]
      /\ boxes \in [DOMAIN boxes -> LineCell]
    BY <1>1, <1>2, <1>5 DEF Put, IsMemory
<1> HIDE DEF boxes
<1>7. /\ DOMAIN X = DOMAIN m.box \cup {n} /\ X[n] = cell
      /\ X \in [DOMAIN X -> LineCell]
      /\ \A x \in DOMAIN m.box : /\ X[x].higher = m.box[x].higher /\ X[x].contents = m.box[x].contents
                                 /\ X[x].lower = IF x = old THEN n ELSE m.box[x].lower
    <2>1. CASE old = Null
        BY <2>1, <1>1, <1>6, NullIsNoBuffer
    <2>2. CASE old # Null
        BY <2>2, <1>1, <1>2, <1>4, <1>6 DEF LineCell
    <2> QED  BY <2>1, <2>2
<1> HIDE DEF X
<1>8. u \in Box \cup {Null} /\ e \in Int
    BY <1>2, FilledAt DEF old
<1>9. /\ IsMemory(r) /\ OnlyAt(m, r, b) /\ r.box = X /\ r.elements = m.elements
      /\ r.buf[b].top = u /\ r.buf[b].bottom = n /\ r.buf[b].elements = e
    <2>1. IsBoxes(X)
        BY <1>1, <1>2, <1>7 DEF IsMemory, IsBoxes
    <2> HIDE DEF u, e
    <2>2. AreEnds(u, n, e)
        BY <1>2, <1>8 DEF AreEnds
    <2> QED  BY <2>1, <2>2, <1>1, <1>3, LinesSet DEF IsSet
<1>10. /\ List(X, s, u, n) /\ ToSet(s) = ToSet(ls[b]) \cup {n} /\ Len(s) = Len(ls[b]) + 1
    <2>1. n \in Address /\ n \notin ToSet(ls[b])
        BY <1>2, FilledAt DEF Address
    <2>2. ToSet(ls[b]) \cup {n} \subseteq DOMAIN X
        BY <1>7, FilledAt
    <2>3. X[n].higher = old /\ X[n].lower = Null
        BY <1>5, <1>7
    <2>4. \A x \in ToSet(ls[b]) : /\ X[x].higher = m.box[x].higher
                                  /\ X[x].lower = IF x = old THEN n ELSE m.box[x].lower
        BY <1>7, FilledAt
    <2>5. u = IF ls[b] = <<>> THEN n ELSE m.buf[b].top
        BY FilledAt DEF old
    <2>6. List(m.box, ls[b], m.buf[b].top, old)
        BY FilledAt DEF old
    <2> HIDE DEF u, s
    <2> QED  BY <2>1, <2>2, <2>3, <2>4, <2>5, <2>6, ListQueue DEF s
<1> DEFINE ls2 == Relist(ls, b, s)
<1>11. /\ Holds(r, d, ls2) /\ ls2[b] = s
       /\ \A c \in DOMAIN m.buf \ {b} : Text(r, ls2[c]) = Text(m, ls[c])
    <2>1. /\ DOMAIN r.box = (DOMAIN m.box \ ToSet(ls[b])) \cup ToSet(s)
          /\ \A x \in ToSet(s) : x \in ToSet(ls[b]) \/ x \notin DOMAIN m.box
        BY <1>2, <1>7, <1>9, <1>10, FilledAt
    <2>2. ASSUME NEW x \in DOMAIN m.box \ ToSet(ls[b])
          PROVE  /\ r.box[x].lower = m.box[x].lower
                 /\ r.box[x].higher = m.box[x].higher
                 /\ r.box[x].contents = m.box[x].contents
        <3>1. x # old
            BY FilledAt, <1>1, NullIsNoBuffer DEF old
        <3> QED  BY <3>1, <1>7, <1>9
    <2>3. List(r.box, s, r.buf[b].top, r.buf[b].bottom) /\ r.buf[b].elements = Len(s)
        BY <1>9, <1>10, FilledAt
    <2> HIDE DEF s
    <2>4. Refill(m, ls, r, b, s)
        BY <2>1, <2>2, <2>3 DEF Refill
    <2> QED  BY <2>4, <1>9, Refilled
<1>12. Text(r, s) = Append(Text(m, ls[b]), l)
    <2>1. /\ ls[b] \in Seq(Box) /\ Text(m, ls[b]) \in Seq(Line) /\ Len(Text(m, ls[b])) = Len(ls[b])
          /\ \A i \in 1 .. Len(ls[b]) :
                /\ ls[b][i] \in DOMAIN m.box
                /\ Text(m, ls[b])[i] = m.box[ls[b][i]].contents
        BY LinesType DEF Text
    <2>2. s \in Seq(Box) /\ s[Len(ls[b]) + 1] = n /\ \A i \in 1 .. Len(ls[b]) : s[i] = ls[b][i]
        BY <2>1, <1>2
    <2>3. r.box[n].contents = l /\ \A x \in DOMAIN m.box : r.box[x].contents = m.box[x].contents
        BY <1>5, <1>7, <1>9
    <2> DEFINE t == Append(Text(m, ls[b]), l)
    <2>4. t \in Seq(Line) /\ Len(t) = Len(ls[b]) + 1 /\ t[Len(ls[b]) + 1] = l
          /\ \A i \in 1 .. Len(ls[b]) : t[i] = Text(m, ls[b])[i]
        BY <2>1
    <2>5. Len(ls[b]) \in Nat /\ DOMAIN s = 1 .. Len(ls[b]) + 1
        BY <1>10, <2>1, <2>2
    <2> HIDE DEF s, t
    <2>6. \A i \in 1 .. Len(ls[b]) + 1 : r.box[s[i]].contents = t[i]
        <3>1. \A i \in 1 .. Len(ls[b]) : r.box[s[i]].contents = t[i]
            BY <2>1, <2>2, <2>3, <2>4
        <3>2. \A i \in 1 .. Len(ls[b]) + 1 : i = Len(ls[b]) + 1 \/ i \in 1 .. Len(ls[b])
            BY <2>5
        <3> QED  BY <3>1, <3>2, <2>2, <2>3, <2>4
    <2>7. t = [i \in 1 .. Len(ls[b]) + 1 |-> t[i]]
        BY <2>4
    <2>8. Text(r, s) = t
        BY <2>5, <2>6, <2>7 DEF Text
    <2> QED  BY <2>8 DEF t
<1>13. Cardinality(DOMAIN r.box) = Cardinality(DOMAIN m.box) + 1
    BY <1>1, <1>2, <1>7, <1>9, FiniteMemory, FS_AddElement
<1>14. Turned(m, d, ls, b, r, ls2)
    BY <1>9, <1>11 DEF Turned
<1> HIDE DEF s, ls2
<1> QED  BY <1>11, <1>12, <1>13, <1>14

\* The top line of a buffer is taken off.
LEMMA PopLineHolds ==
    ASSUME NEW m, NEW d, NEW ls, Holds(m, d, ls), NEW b \in DOMAIN m.buf,
           m.buf[b].top # Null, NEW r, r = PopLine(m, b)
    PROVE  /\ Text(m, ls[b]) # <<>> /\ m.box[m.buf[b].top].contents = Head(Text(m, ls[b]))
           /\ \E ls2 :
              /\ Turned(m, d, ls, b, r, ls2)
              /\ Text(r, ls2[b]) = Tail(Text(m, ls[b]))
              /\ Cardinality(DOMAIN r.box) = Cardinality(DOMAIN m.box) - 1
<1> DEFINE n == m.buf[b].top
           next == m.box[n].lower
           boxes == Free(m.box, {n})
           X == IF next = Null THEN boxes ELSE [boxes EXCEPT ![next].higher = Null]
           w == ls[b]
           s == Tail(w)
           u == IF next = Null THEN Null ELSE m.buf[b].bottom
           e == m.buf[b].elements - 1
<1>1. IsMemory(m)
    BY DEF Holds
<1>2. /\ n \in DOMAIN m.box /\ n \in ToSet(w) /\ n = w[1] /\ n \in Box
      /\ w \in Seq(Box) /\ w # <<>> /\ IsInjective(w) /\ Len(w) \in Nat /\ Len(w) >= 1
      /\ List(m.box, w, n, m.buf[b].bottom)
    <2>1. /\ n \in DOMAIN m.box /\ n \in ToSet(w) /\ n = w[1] /\ w # <<>>
          /\ List(m.box, w, n, m.buf[b].bottom)
        BY FilledAt
    <2>2. w \in Seq(Box) /\ IsInjective(w)
        BY LinesType
    <2> QED  BY <2>1, <2>2, <1>1 DEF IsMemory
<1>3. r = SetLines(m, b, X, next, u, e)
    BY <1>1 DEF PopLine, IsMemory, BufferCell, SetLines
<1>4. /\ next = At(w, 2)
      /\ next # Null => 2 \in DOMAIN w /\ next = w[2] /\ next \in DOMAIN m.box \ {n}
      /\ next = Null <=> Len(w) = 1
      /\ next \in Box \cup {Null}
    <2> HIDE DEF w
    <2>1. 1 \in DOMAIN w /\ DOMAIN w = 1 .. Len(w) /\ 1 + 1 = 2 /\ Len(w) \in Nat
        BY <1>2
    <2>2. next = At(w, 2)
        <3>1. m.box[w[1]].lower = At(w, 1 + 1)
            BY <2>1, <1>2 DEF List
        <3> QED  BY <3>1, <1>2
    <2>3. next \in Box \cup {Null}
        BY <1>1, <1>2 DEF IsMemory, LineCell
    <2>4. CASE Len(w) = 1
        BY <2>1, <2>2, <2>3, <2>4 DEF At
    <2>5. CASE Len(w) # 1
        <3>1. 2 \in DOMAIN w /\ next = w[2]
            <4>1. Len(w) >= 1
                BY <1>2
            <4>2. 2 \in DOMAIN w
                BY <4>1, <2>1, <2>5
            <4> QED  BY <4>2, <2>2 DEF At
        <3>2. w[2] # w[1] /\ w[2] \in ToSet(w) /\ w[2] \in Box
            BY <3>1, <2>1, <1>2 DEF IsInjective, ToSet
        <3>3. w[2] \in DOMAIN m.box
            BY <3>2, FilledAt DEF w
        <3> QED  BY <2>2, <2>5, <3>1, <3>2, <3>3, <1>2, LinksAssumption
    <2> QED  BY <2>4, <2>5
<1> HIDE DEF n, next, w
<1>5. /\ DOMAIN boxes = DOMAIN m.box \ {n}
      /\ \A x \in DOMAIN m.box \ {n} : boxes[x] = m.box[x]
      /\ boxes \in [DOMAIN boxes -> LineCell]
    BY <1>1 DEF Free, Restrict, IsMemory
<1> HIDE DEF boxes
<1>6. /\ DOMAIN X = DOMAIN m.box \ {n} /\ X \in [DOMAIN X -> LineCell]
      /\ \A x \in DOMAIN m.box \ {n} :
            /\ X[x].lower = m.box[x].lower /\ X[x].contents = m.box[x].contents
            /\ X[x].higher = IF x = next THEN Null ELSE m.box[x].higher
    <2>1. CASE next = Null
        BY <2>1, <1>1, <1>5, NullIsNoBuffer
    <2>2. CASE next # Null
        BY <2>2, <1>1, <1>2, <1>4, <1>5 DEF LineCell
    <2> QED  BY <2>1, <2>2
<1> HIDE DEF X
<1>7. u \in Box \cup {Null} /\ e \in Int /\ e = Len(w) - 1
    BY FilledAt DEF w
<1>8. /\ IsMemory(r) /\ OnlyAt(m, r, b) /\ r.box = X /\ r.elements = m.elements
      /\ r.buf[b].top = next /\ r.buf[b].bottom = u /\ r.buf[b].elements = e
    <2>1. IsBoxes(X)
        BY <1>1, <1>6 DEF IsMemory, IsBoxes
    <2> HIDE DEF u, e
    <2>2. AreEnds(next, u, e)
        BY <1>4, <1>7 DEF AreEnds
    <2> QED  BY <2>1, <2>2, <1>1, <1>3, LinesSet DEF IsSet
<1>9. /\ List(X, s, next, u) /\ ToSet(s) = ToSet(w) \ {n} /\ Len(s) = Len(w) - 1
      /\ \A i \in 1 .. Len(w) - 1 : s[i] = w[i + 1]
      /\ s \in Seq(Box)
    <2>1. /\ s \in Seq(Box) /\ Len(s) = Len(w) - 1 /\ \A i \in 1 .. Len(w) - 1 : s[i] = w[i + 1]
        BY <1>2
    <2>2. DOMAIN s = 1 .. Len(w) - 1 /\ DOMAIN w = 1 .. Len(w)
        BY <2>1, <1>2
    <2>3. ToSet(s) = ToSet(w) \ {n}
        <3>1. ASSUME NEW i \in DOMAIN s PROVE s[i] \in ToSet(w) /\ s[i] # n
            <4>1. i + 1 \in DOMAIN w /\ i + 1 # 1 /\ 1 \in DOMAIN w
                BY <2>2, <1>2
            <4> QED  BY <4>1, <2>1, <2>2, <1>2 DEF ToSet, IsInjective
        <3>2. ASSUME NEW i \in DOMAIN w, w[i] # n PROVE w[i] \in ToSet(s)
            <4>1. i - 1 \in DOMAIN s /\ s[i - 1] = w[i]
                BY <3>2, <2>1, <2>2, <1>2
            <4> QED  BY <4>1 DEF ToSet
        <3> QED  BY <3>1, <3>2 DEF ToSet
    <2>4. CASE Len(w) = 1
        <3>1. s = <<>> /\ next = Null /\ u = Null
            <4>1. next = Null /\ u = Null
                BY <2>4, <1>4
            <4>2. s = <<>>
                <5> HIDE DEF s
                <5> QED  BY <2>1, <2>4
            <4> QED  BY <4>1, <4>2
        <3> QED  BY <3>1, <2>1, <2>3, ListEmpty
    <2>5. CASE Len(w) # 1
        <3>1. 2 \in DOMAIN w /\ next = w[2] /\ next # Null /\ u = m.buf[b].bottom
            BY <2>2, <2>5, <1>2, <1>4
        <3>2. s = SubSeq(w, 2, Len(w))
            BY <1>2
        <3>3. ASSUME NEW i \in 2 .. Len(w)
              PROVE  /\ w[i] \in DOMAIN X
                     /\ X[w[i]].lower = m.box[w[i]].lower
                     /\ X[w[i]].higher = IF i = 2 THEN Null ELSE m.box[w[i]].higher
            <4>1. i \in DOMAIN w /\ 1 \in DOMAIN w /\ i # 1
                BY <2>2, <1>2
            <4>2. w[i] \in ToSet(w) /\ w[i] # n /\ (w[i] = next <=> i = 2)
                BY <4>1, <3>1, <1>2 DEF IsInjective, ToSet
            <4>3. w[i] \in DOMAIN m.box \ {n}
                BY <4>2, FilledAt DEF w
            <4> QED  BY <4>2, <4>3, <1>6
        <3>4. List(X, SubSeq(w, 2, Len(w)), w[2], m.buf[b].bottom)
            BY <3>1, <3>3, <1>2, ListDrop DEF KeptFrom
        <3> HIDE DEF s, u
        <3> QED  BY <2>1, <2>3, <3>1, <3>2, <3>4
    <2> QED  BY <2>4, <2>5
<1> DEFINE ls2 == Relist(ls, b, s)
<1>10. /\ Holds(r, d, ls2) /\ ls2[b] = s
       /\ \A c \in DOMAIN m.buf \ {b} : Text(r, ls2[c]) = Text(m, ls[c])
    <2>1. ToSet(w) \subseteq DOMAIN m.box
        BY FilledAt DEF w
    <2>2. /\ DOMAIN r.box = (DOMAIN m.box \ ToSet(ls[b])) \cup ToSet(s)
          /\ \A x \in ToSet(s) : x \in ToSet(ls[b]) \/ x \notin DOMAIN m.box
        BY <2>1, <1>2, <1>6, <1>8, <1>9 DEF w
    <2>3. ASSUME NEW x \in DOMAIN m.box \ ToSet(ls[b])
          PROVE  /\ r.box[x].lower = m.box[x].lower
                 /\ r.box[x].higher = m.box[x].higher
                 /\ r.box[x].contents = m.box[x].contents
        <3>1. x # n /\ x # next
            <4>1. next # Null => next \in ToSet(w)
                BY <1>4 DEF ToSet
            <4> QED  BY <4>1, <1>1, <1>2, NullIsNoBuffer DEF w
        <3> QED  BY <3>1, <1>6, <1>8
    <2>4. List(r.box, s, r.buf[b].top, r.buf[b].bottom) /\ r.buf[b].elements = Len(s)
        BY <1>7, <1>8, <1>9
    <2> HIDE DEF s
    <2>5. Refill(m, ls, r, b, s)
        BY <2>2, <2>3, <2>4 DEF Refill
    <2> QED  BY <2>5, <1>8, Refilled
<1>11. /\ Text(m, w) # <<>> /\ m.box[n].contents = Head(Text(m, w))
       /\ Text(r, s) = Tail(Text(m, w))
    <2> DEFINE v == Text(m, w)
               t == Tail(v)
    <2>1. /\ v \in Seq(Line) /\ Len(v) = Len(w)
          /\ \A i \in 1 .. Len(w) : v[i] = m.box[w[i]].contents
        <3>1. v \in Seq(Line) /\ Len(v) = Len(w) /\ DOMAIN w = 1 .. Len(w)
            BY LinesType DEF w
        <3> QED  BY <3>1 DEF Text
    <2> HIDE DEF v
    <2>2. /\ v # <<>> /\ Head(v) = v[1] /\ t \in Seq(Line) /\ Len(t) = Len(w) - 1
          /\ \A i \in 1 .. Len(w) - 1 : t[i] = v[i + 1]
        BY <2>1, <1>2
    <2>3. ASSUME NEW i \in 1 .. Len(w) - 1 PROVE r.box[s[i]].contents = t[i]
        <3>1. i + 1 \in 1 .. Len(w) /\ s[i] = w[i + 1] /\ s[i] \in ToSet(s)
            <4> HIDE DEF s
            <4>1. i + 1 \in 1 .. Len(w) /\ i \in DOMAIN s
                BY <1>2, <1>9
            <4> QED  BY <4>1, <1>9 DEF ToSet
        <3>2. s[i] \in DOMAIN m.box \ {n}
            BY <3>1, <1>9, FilledAt DEF w
        <3> QED  BY <3>1, <3>2, <2>1, <2>2, <1>6, <1>8
    <2>4. DOMAIN s = 1 .. Len(w) - 1 /\ t = [i \in 1 .. Len(w) - 1 |-> t[i]]
        <3> HIDE DEF s, t
        <3>1. DOMAIN s = 1 .. Len(w) - 1
            BY <1>2, <1>9
        <3>2. t = [i \in 1 .. Len(w) - 1 |-> t[i]]
            BY <2>2, <1>2
        <3> QED  BY <3>1, <3>2
    <2> HIDE DEF s, t
    <2>5. Text(r, s) = t
        BY <2>3, <2>4 DEF Text
    <2>6. m.box[n].contents = v[1]
        BY <2>1, <1>2
    <2> QED  BY <2>2, <2>5, <2>6 DEF t, v
<1>12. Cardinality(DOMAIN r.box) = Cardinality(DOMAIN m.box) - 1
    BY <1>1, <1>2, <1>6, <1>8, FiniteMemory, FS_RemoveElement
<1>13. Turned(m, d, ls, b, r, ls2)
    BY <1>8, <1>10 DEF Turned
<1> HIDE DEF s, ls2
<1> QED  BY <1>10, <1>11, <1>12, <1>13 DEF n, w

\* A buffer loses its lines.
LEMMA ContentDeleted ==
    ASSUME NEW m, NEW d, NEW ls, Holds(m, d, ls), NEW b \in DOMAIN m.buf,
           NEW r, r = DeleteBufferContent(m, b)
    PROVE  /\ Turned(m, d, ls, b, r, Relist(ls, b, <<>>))
           /\ Cardinality(DOMAIN r.box) = Cardinality(DOMAIN m.box) - Len(ls[b])
<1> DEFINE X == Free(m.box, ToSet(ls[b]))
<1>1. IsMemory(m) /\ ToSet(ls[b]) \subseteq DOMAIN m.box /\ LinesOf(m, b) = ls[b]
    <2>1. LinesOf(m, b) = ls[b]
        BY Shown
    <2> QED  BY <2>1, FilledAt DEF Holds
<1>2. r = SetLines(m, b, X, Null, Null, 0)
    BY <1>1 DEF DeleteBufferContent, IsMemory, BufferCell, SetLines
<1>3. /\ DOMAIN X = DOMAIN m.box \ ToSet(ls[b]) /\ X \in [DOMAIN X -> LineCell]
      /\ \A x \in DOMAIN m.box \ ToSet(ls[b]) : X[x] = m.box[x]
    BY <1>1 DEF Free, Restrict, IsMemory
<1> HIDE DEF X
<1>4. /\ IsMemory(r) /\ OnlyAt(m, r, b) /\ r.box = X /\ r.elements = m.elements
      /\ r.buf[b].top = Null /\ r.buf[b].bottom = Null /\ r.buf[b].elements = 0
    <2>1. IsBoxes(X)
        BY <1>1, <1>3 DEF IsMemory, IsBoxes
    <2>2. AreEnds(Null, Null, 0)
        BY DEF AreEnds
    <2> QED  BY <2>1, <2>2, <1>1, <1>2, LinesSet DEF IsSet
<1>5. Refill(m, ls, r, b, <<>>)
    BY <1>3, <1>4, ListEmpty, EmptyList DEF Refill
<1>6. Turned(m, d, ls, b, r, Relist(ls, b, <<>>))
    BY <1>4, <1>5, Refilled DEF Turned
<1>7. Cardinality(DOMAIN r.box) = Cardinality(DOMAIN m.box) - Len(ls[b])
    <2>1. Cardinality(ToSet(ls[b])) = Len(ls[b])
        BY LinesType, ListSize
    <2>2. DOMAIN m.box \cap ToSet(ls[b]) = ToSet(ls[b])
        BY <1>1
    <2>3. Cardinality(DOMAIN m.box \ ToSet(ls[b]))
             = Cardinality(DOMAIN m.box) - Cardinality(DOMAIN m.box \cap ToSet(ls[b]))
        BY <1>1, FiniteMemory, FS_Difference
    <2> QED  BY <2>1, <2>2, <2>3, <1>3, <1>4
<1> QED  BY <1>6, <1>7

-----------------------------------------------------------------------------
(* The counter of lines; buffers that lose their lines. *)

\* All but the counter of lines is the same.
Same(m, r) ==
    /\ IsMemory(r) /\ r.box = m.box /\ r.buf = m.buf
    /\ r.top = m.top /\ r.bottom = m.bottom /\ r.buffers = m.buffers

\* So the queue is the same, and says the same.
LEMMA SameHolds ==
    ASSUME NEW m, NEW d, NEW ls, Holds(m, d, ls), NEW r, Same(m, r)
    PROVE  /\ Holds(r, d, ls)
           /\ StackIn(r) = StackIn(m) /\ CopyIn(r) = CopyIn(m)
           /\ \A s : Text(r, s) = Text(m, s)
<1>1. Piled(r, d) /\ Filled(r, ls)
    BY DEF Same, Holds, Piled, Filled
<1>2. Holds(r, d, ls)
    BY <1>1 DEF Same, Holds
<1>3. \A s : Text(r, s) = Text(m, s)
    BY DEF Text, Same
<1>4. StackIn(r) = StackIn(m) /\ CopyIn(r) = CopyIn(m)
    <2>1. Pile(r, d, ls) = Pile(m, d, ls)
        BY <1>3 DEF Pile, Texts
    <2>2. CopyIn(r) = CopyIn(m)
        <3>1. CASE Temp \in DOMAIN m.buf
            <4>1. CopyIn(r) = Text(r, ls[Temp])
                BY <3>1, <1>2, Shown DEF Same
            <4>2. CopyIn(m) = Text(m, ls[Temp])
                BY <3>1, Shown
            <4> QED  BY <4>1, <4>2, <1>3
        <3>2. CASE Temp \notin DOMAIN m.buf
            BY <3>2 DEF CopyIn, Same
        <3> QED  BY <3>1, <3>2
    <2>3. StackIn(r) = Pile(r, d, ls)
        BY <1>2, Shown
    <2>4. StackIn(m) = Pile(m, d, ls)
        BY Shown
    <2> QED  BY <2>1, <2>2, <2>3, <2>4
<1> QED  BY <1>2, <1>3, <1>4

\* The counter of lines changes, and nothing else.
LEMMA CountIs ==
    ASSUME NEW m, IsMemory(m), NEW n \in Int
    PROVE  Same(m, Count(m, n)) /\ Count(m, n).elements = m.elements + n
<1> DEFINE r == Count(m, n)
<1>1. /\ r.box = m.box /\ r.buf = m.buf /\ r.top = m.top /\ r.bottom = m.bottom
      /\ r.buffers = m.buffers /\ r.elements = m.elements + n
      /\ r \in [box: {r.box}, buf: {r.buf}, top: Buf \cup {Null}, bottom: Buf \cup {Null},
                buffers: Int, elements: Int]
    BY DEF Count, IsMemory
<1> HIDE DEF r
<1>2. IsMemory(r)
    BY <1>1 DEF IsMemory
<1> QED  BY <1>1, <1>2 DEF Same, r

-----------------------------------------------------------------------------
\* One buffer loses its lines, and the queue counts that.
LEMMA EmptyOneHolds ==
    ASSUME NEW m, NEW d, NEW ls, Holds(m, d, ls), NEW b \in DOMAIN m.buf, NEW r, r = EmptyOne(m, b)
    PROVE  /\ Holds(r, d, Relist(ls, b, <<>>)) /\ OnlyAt(m, r, b)
           /\ \A c \in DOMAIN m.buf \ {b} : Text(r, ls[c]) = Text(m, ls[c])
           /\ r.elements = m.elements - Len(ls[b])
           /\ Cardinality(DOMAIN r.box) = Cardinality(DOMAIN m.box) - Len(ls[b])
<1> DEFINE c == Count(m, -m.buf[b].elements)
<1>1. IsMemory(m) /\ m.buf[b].elements = Len(ls[b]) /\ Len(ls[b]) \in Nat /\ m.elements \in Int
    BY FilledAt DEF Holds, IsMemory
<1>2. Same(m, c) /\ c.elements = m.elements - Len(ls[b])
    <2>1. -m.buf[b].elements \in Int
        BY <1>1
    <2>2. Same(m, c) /\ c.elements = m.elements + (-m.buf[b].elements)
        BY <2>1, <1>1, CountIs
    <2> QED  BY <2>2, <1>1
<1>3. r = DeleteBufferContent(c, b)
    BY DEF EmptyOne
<1> HIDE DEF c
<1>4. Holds(c, d, ls) /\ b \in DOMAIN c.buf /\ c.buf = m.buf /\ c.box = m.box
    BY <1>2, SameHolds DEF Same
<1>5. /\ Turned(c, d, ls, b, r, Relist(ls, b, <<>>))
      /\ Cardinality(DOMAIN r.box) = Cardinality(DOMAIN c.box) - Len(ls[b])
    BY <1>3, <1>4, ContentDeleted
<1>6. OnlyAt(m, r, b)
    BY <1>2, <1>5 DEF Turned, OnlyAt, Same
<1>7. ASSUME NEW x \in DOMAIN m.buf \ {b} PROVE Text(r, ls[x]) = Text(m, ls[x])
    <2>1. Relist(ls, b, <<>>)[x] = ls[x]
        BY DEF Relist, Holds, Filled
    <2>2. Text(c, ls[x]) = Text(m, ls[x])
        BY <1>4 DEF Text
    <2> QED  BY <2>1, <2>2, <1>4, <1>5 DEF Turned
<1> QED  BY <1>2, <1>4, <1>5, <1>6, <1>7 DEF Turned

\* Some buffers have lost their lines.
Emptied(ls, B) == [b \in DOMAIN ls |-> IF b \in B THEN <<>> ELSE ls[b]]

Emptying(m, d, ls, B, r) ==
    /\ Holds(r, d, Emptied(ls, B)) /\ DOMAIN r.buf = DOMAIN m.buf
    /\ r.top = m.top /\ r.bottom = m.bottom /\ r.buffers = m.buffers
    /\ \A c \in DOMAIN m.buf \ B : r.buf[c] = m.buf[c] /\ Text(r, ls[c]) = Text(m, ls[c])
    /\ Cardinality(DOMAIN r.box) - r.elements = Cardinality(DOMAIN m.box) - m.elements

\* To begin with no buffer has lost its lines.
LEMMA EmptyingNone ==
    ASSUME NEW m, NEW d, NEW ls, Holds(m, d, ls)
    PROVE  Emptying(m, d, ls, {}, m)
<1>1. DOMAIN Emptied(ls, {}) = DOMAIN ls /\ \A b \in DOMAIN ls : Emptied(ls, {})[b] = ls[b]
    BY DEF Emptied
<1>2. Holds(m, d, Emptied(ls, {}))
    BY <1>1 DEF Holds, Filled
<1> QED  BY <1>2 DEF Emptying

\* One more buffer loses its lines.
LEMMA EmptyingMore ==
    ASSUME NEW m, NEW d, NEW ls, Holds(m, d, ls), NEW B, NEW q, Emptying(m, d, ls, B, q),
           NEW b \in DOMAIN m.buf, NEW r, r = EmptyOne(q, b)
    PROVE  Emptying(m, d, ls, B \cup {b}, r)
<1> DEFINE e == Emptied(ls, B)
           f == Emptied(ls, B \cup {b})
<1>1. Holds(q, d, e) /\ b \in DOMAIN q.buf
    BY DEF Emptying
<1>2. DOMAIN ls = DOMAIN m.buf
    BY DEF Holds, Filled
<1>3. f = Relist(e, b, <<>>) /\ \A c \in DOMAIN m.buf \ B : e[c] = ls[c]
    BY <1>2 DEF Emptied, Relist
<1> HIDE DEF e, f
<1>4. /\ Holds(r, d, f) /\ OnlyAt(q, r, b)
      /\ \A c \in DOMAIN q.buf \ {b} : Text(r, e[c]) = Text(q, e[c])
      /\ r.elements = q.elements - Len(e[b])
      /\ Cardinality(DOMAIN r.box) = Cardinality(DOMAIN q.box) - Len(e[b])
    BY <1>1, <1>3, EmptyOneHolds
<1>5. /\ q.elements \in Int /\ Len(e[b]) \in Nat /\ Cardinality(DOMAIN q.box) \in Nat
      /\ Cardinality(DOMAIN m.box) \in Nat /\ m.elements \in Int
    <2>1. q.elements \in Int /\ m.elements \in Int
        BY <1>1 DEF Holds, IsMemory
    <2>2. Cardinality(DOMAIN q.box) \in Nat /\ Cardinality(DOMAIN m.box) \in Nat
        BY <1>1, FiniteMemory DEF Holds
    <2>3. Len(e[b]) \in Nat
        BY <1>1, FilledAt
    <2> QED  BY <2>1, <2>2, <2>3
<1>6. Cardinality(DOMAIN r.box) - r.elements = Cardinality(DOMAIN m.box) - m.elements
    BY <1>4, <1>5 DEF Emptying
<1>7. ASSUME NEW c \in DOMAIN m.buf \ (B \cup {b})
      PROVE  r.buf[c] = m.buf[c] /\ Text(r, ls[c]) = Text(m, ls[c])
    BY <1>3, <1>4 DEF Emptying, OnlyAt
<1> QED  BY <1>4, <1>6, <1>7 DEF Emptying, OnlyAt, f

\* The function EmptyBuffers is defined by exists.
LEMMA EmptyingSteps ==
    ASSUME NEW m, NEW bs, NEW n \in Nat
    PROVE  \E f : f = [i \in 0 .. n |-> IF i = 0 THEN m ELSE EmptyOne(f[i - 1], bs[i])]
<1> DEFINE Made(k) == \E f : f = [i \in 0 .. k |-> IF i = 0 THEN m ELSE EmptyOne(f[i - 1], bs[i])]
           T == {k \in Nat : ~Made(k)}
<1>1. SUFFICES ASSUME T # {}  PROVE FALSE
    OBVIOUS
<1>2. PICK k \in T : \A j \in T : k <= j
    BY <1>1, LeastNat
<1>3. CASE k = 0
    <2> DEFINE f == [i \in 0 .. 0 |-> m]
    <2>1. f = [i \in 0 .. 0 |-> IF i = 0 THEN m ELSE EmptyOne(f[i - 1], bs[i])]
        OBVIOUS
    <2> QED  BY <1>2, <1>3, <2>1
<1>4. CASE k > 0
    <2>1. k \in Nat
        BY <1>2
    <2>2. k - 1 \in Nat /\ k - 1 \notin T
        <3>1. k - 1 \in Nat /\ ~(k <= k - 1)
            BY <2>1, <1>4
        <3> HIDE DEF T
        <3> QED  BY <3>1, <1>2
    <2>3. PICK f : f = [i \in 0 .. k - 1 |-> IF i = 0 THEN m ELSE EmptyOne(f[i - 1], bs[i])]
        BY <2>2
    <2> DEFINE h == [i \in 0 .. k |-> IF i < k THEN f[i] ELSE EmptyOne(f[k - 1], bs[k])]
    <2>4. ASSUME NEW i \in 0 .. k PROVE h[i] = IF i = 0 THEN m ELSE EmptyOne(h[i - 1], bs[i])
        <3> HIDE DEF T
        <3>1. CASE i = k
            <4>1. k - 1 \in 0 .. k /\ k - 1 < k
                BY <2>1, <2>2
            <4> QED  BY <3>1, <4>1, <1>4
        <3>2. CASE i # k
            <4>1. i \in 0 .. k - 1 /\ i < k
                BY <3>2, <2>1, <2>2
            <4>2. h[i] = f[i] /\ (i # 0 => i - 1 \in 0 .. k /\ i - 1 < k)
                BY <4>1, <2>1, <2>2
            <4>3. i # 0 => h[i - 1] = f[i - 1]
                BY <4>2
            <4>4. f[i] = IF i = 0 THEN m ELSE EmptyOne(f[i - 1], bs[i])
                BY <2>3, <4>1
            <4> HIDE DEF h
            <4> QED  BY <4>2, <4>3, <4>4
        <3> QED  BY <3>1, <3>2
    <2>5. h = [i \in 0 .. k |-> h[i]]
        OBVIOUS
    <2> HIDE DEF h
    <2>6. h = [i \in 0 .. k |-> IF i = 0 THEN m ELSE EmptyOne(h[i - 1], bs[i])]
        BY <2>4, <2>5
    <2> QED  BY <1>2, <2>6
<1> QED  BY <1>2, <1>3, <1>4

\* Several buffers lose their lines.
LEMMA EmptyBuffersHolds ==
    ASSUME NEW m, NEW d, NEW ls, Holds(m, d, ls), NEW bs \in Seq(DOMAIN m.buf),
           NEW r, r = EmptyBuffers(m, bs)
    PROVE  Emptying(m, d, ls, ToSet(bs), r)
<1> DEFINE n == Len(bs)
           after == CHOOSE f :
               f = [i \in 0 .. n |-> IF i = 0 THEN m ELSE EmptyOne(f[i - 1], bs[i])]
           B(i) == {bs[j] : j \in 1 .. i}
           T == {i \in 0 .. n : ~Emptying(m, d, ls, B(i), after[i])}
<1>1. n \in Nat /\ DOMAIN bs = 1 .. n /\ r = after[n]
    BY DEF EmptyBuffers
<1> HIDE DEF n
<1>2. after = [i \in 0 .. n |-> IF i = 0 THEN m ELSE EmptyOne(after[i - 1], bs[i])]
    BY <1>1, EmptyingSteps, SMTT(20)
<1> HIDE DEF after
<1>3. T = {}
    <2>1. SUFFICES ASSUME T # {} PROVE FALSE
        OBVIOUS
    <2>2. PICK i \in T : \A j \in T : i <= j
        <3>1. T \subseteq Nat
            BY <1>1
        <3> QED  BY <2>1, <3>1, LeastNat
    <2>3. i \in Nat /\ i \in 0 .. n
        BY <2>2
    <2>4. CASE i = 0
        <3>1. B(0) = {} /\ after[0] = m
            BY <1>1, <1>2
        <3> QED  BY <3>1, <2>2, <2>4, EmptyingNone
    <2>5. CASE i # 0
        <3>1. i - 1 \in 0 .. n /\ ~(i <= i - 1) /\ i \in 1 .. n
            BY <1>1, <2>3, <2>5
        <3>2. i - 1 \notin T
            <4> HIDE DEF T
            <4> QED  BY <3>1, <2>2
        <3>3. Emptying(m, d, ls, B(i - 1), after[i - 1])
            BY <3>1, <3>2
        <3>4. B(i) = B(i - 1) \cup {bs[i]}
            <4>1. \A j \in Int : j \in 1 .. i <=> j \in 1 .. i - 1 \/ j = i
                BY <2>3, <2>5
            <4> QED  BY <4>1
        <3>5. after[i] = EmptyOne(after[i - 1], bs[i])
            BY <1>2, <2>3, <2>5
        <3>6. bs[i] \in DOMAIN m.buf
            BY <1>1, <3>1
        <3>7. ~Emptying(m, d, ls, B(i), after[i])
            BY <2>2
        <3> HIDE DEF B, T
        <3> QED  BY <3>3, <3>4, <3>5, <3>6, <3>7, EmptyingMore
    <2> QED  BY <2>4, <2>5
<1>4. Emptying(m, d, ls, B(n), after[n])
    <2>1. n \in 0 .. n
        BY <1>1
    <2> QED  BY <2>1, <1>3
<1>5. B(n) = ToSet(bs)
    BY <1>1 DEF ToSet
<1> HIDE DEF B
<1> QED  BY <1>1, <1>4, <1>5

-----------------------------------------------------------------------------
(* Buffers are dropped from the top, or one is added there. *)

\* A buffer as it lies, but for the link to the one above.
Alike(c, e) == /\ c.lower = e.lower /\ c.top = e.top /\ c.bottom = e.bottom
               /\ c.elements = e.elements

\* The buffers d[1] to d[k - 1] of m are gone in r.
Dropped(m, d, k, r) ==
    /\ IsMemory(r) /\ r.box = m.box
    /\ DOMAIN r.buf = DOMAIN m.buf \ {d[j] : j \in 1 .. k - 1}
    /\ \A b \in DOMAIN r.buf : Alike(r.buf[b], m.buf[b])
    /\ \A b \in DOMAIN r.buf : r.buf[b].higher = IF b = d[k] THEN Null ELSE m.buf[b].higher
    /\ r.top = d[k] /\ r.bottom = m.bottom /\ r.buffers = Len(d) - k + 1

\* The lines of the buffers there are.
OnlyLists(r, ls) == [b \in DOMAIN r.buf |-> ls[b]]

\* Lists of lines that do not change: those of the buffers that are left hold what
\* there is when the others are empty.
LEMMA FilledLess ==
    ASSUME NEW m, NEW d, NEW ls, Holds(m, d, ls), NEW r, r.box = m.box,
           DOMAIN r.buf \subseteq DOMAIN m.buf,
           \A b \in DOMAIN r.buf : /\ r.buf[b].top = m.buf[b].top
                                   /\ r.buf[b].bottom = m.buf[b].bottom
                                   /\ r.buf[b].elements = m.buf[b].elements,
           \A b \in DOMAIN m.buf \ DOMAIN r.buf : ls[b] = <<>>
    PROVE  /\ Filled(r, OnlyLists(r, ls))
           /\ \A s : Text(r, s) = Text(m, s)
<1> DEFINE o == OnlyLists(r, ls)
<1>1. DOMAIN o = DOMAIN r.buf /\ \A b \in DOMAIN r.buf : o[b] = ls[b] /\ b \in DOMAIN m.buf
    BY DEF OnlyLists
<1> HIDE DEF o
<1>2. ASSUME NEW x \in DOMAIN r.box PROVE \E b \in DOMAIN r.buf : x \in ToSet(o[b])
    <2>1. PICK b \in DOMAIN m.buf : x \in ToSet(ls[b])
        BY DEF Holds, Filled
    <2>2. ls[b] # <<>>
        BY <2>1, EmptyList
    <2> QED  BY <2>1, <2>2, <1>1
<1>3. Filled(r, o)
    BY <1>1, <1>2 DEF Holds, Filled
<1> QED  BY <1>3 DEF o, Text

\* The buffers on top, which are empty, are unlinked: the others say what they
\* said.
LEMMA TopDropped ==
    ASSUME NEW m, NEW d, NEW ls, Holds(m, d, ls), NEW k \in 1 .. Len(d),
           \A j \in 1 .. k - 1 : ls[d[j]] = <<>>, NEW r, Dropped(m, d, k, r)
    PROVE  /\ Holds(r, SubSeq(d, k, Len(d)), OnlyLists(r, ls))
           /\ StackIn(r) = SubSeq(StackIn(m), 1, Len(d) - k + 1)
           /\ CopyIn(r) = CopyIn(m)
           /\ \A s : Text(r, s) = Text(m, s)
<1> DEFINE t == SubSeq(d, k, Len(d))
           o == OnlyLists(r, ls)
           gone == {d[j] : j \in 1 .. k - 1}
<1>1. /\ d \in Seq(Buf) /\ Len(d) \in Nat /\ DOMAIN d = 1 .. Len(d) /\ IsInjective(d)
      /\ ToSet(d) = DOMAIN m.buf \ {Temp} /\ List(m.buf, d, m.top, m.bottom) /\ d # <<>>
    BY BuffersType DEF Holds, Piled
<1>2. \A i \in k .. Len(d) : d[i] \in DOMAIN r.buf
    <2>1. ASSUME NEW i \in k .. Len(d), NEW j \in 1 .. k - 1 PROVE d[i] # d[j]
        <3>1. i \in DOMAIN d /\ j \in DOMAIN d /\ i # j
            BY <1>1
        <3> QED  BY <3>1, <1>1 DEF IsInjective
    <2>2. \A i \in k .. Len(d) : d[i] \in DOMAIN m.buf
        BY <1>1 DEF ToSet
    <2> QED  BY <2>1, <2>2 DEF Dropped
<1>3. /\ List(r.buf, t, d[k], m.bottom)
      /\ Len(t) = Len(d) - k + 1
      /\ \A i \in 1 .. Len(d) - k + 1 : t[i] = d[k + i - 1]
      /\ ToSet(t) = {d[i] : i \in k .. Len(d)}
    <2>1. ASSUME NEW i \in k .. Len(d)
          PROVE  /\ d[i] \in DOMAIN r.buf
                 /\ r.buf[d[i]].lower = m.buf[d[i]].lower
                 /\ r.buf[d[i]].higher = IF i = k THEN Null ELSE m.buf[d[i]].higher
        <3>1. i \in DOMAIN d /\ k \in DOMAIN d
            BY <1>1
        <3>2. d[i] = d[k] <=> i = k
            BY <3>1, <1>1 DEF IsInjective
        <3> QED  BY <3>2, <1>2 DEF Dropped, Alike
    <2>2. k \in DOMAIN d
        BY <1>1
    <2>3. KeptFrom(m.buf, d, k, r.buf)
        BY <2>1 DEF KeptFrom
    <2> QED  BY <2>2, <2>3, <1>1, ListDrop
<1> HIDE DEF t
<1>4. ToSet(t) = DOMAIN r.buf \ {Temp}
    <2>1. ASSUME NEW b \in DOMAIN r.buf \ {Temp} PROVE b \in ToSet(t)
        <3>1. PICK i \in 1 .. Len(d) : d[i] = b
            BY <1>1 DEF ToSet, Dropped
        <3>2. i \notin 1 .. k - 1
            BY <3>1 DEF Dropped
        <3>3. i \in k .. Len(d)
            BY <3>2, <1>1
        <3> QED  BY <3>1, <3>3, <1>3
    <2>2. ASSUME NEW i \in k .. Len(d) PROVE d[i] # Temp
        <3>1. d[i] \in ToSet(d)
            BY <1>1 DEF ToSet
        <3> QED  BY <3>1, <1>1
    <2> QED  BY <2>1, <2>2, <1>2, <1>3
<1>5. Temp \in DOMAIN m.buf <=> Temp \in DOMAIN r.buf
    <2>1. \A j \in 1 .. k - 1 : d[j] # Temp
        <3>1. \A j \in DOMAIN d : d[j] \in ToSet(d)
            BY DEF ToSet
        <3>2. \A j \in 1 .. k - 1 : j \in DOMAIN d
            BY <1>1
        <3> QED  BY <3>1, <3>2, <1>1
    <2> QED  BY <2>1 DEF Dropped
<1>6. Piled(r, t)
    <2>1. Temp \in DOMAIN r.buf => r.buf[Temp].higher = Null /\ r.buf[Temp].lower = Null
        <3>1. Temp \in DOMAIN r.buf => m.buf[Temp].higher = Null /\ m.buf[Temp].lower = Null
            BY <1>5 DEF Holds, Piled
        <3> QED  BY <3>1 DEF Dropped, Alike
    <2> QED  BY <2>1, <1>3, <1>4 DEF Piled, Dropped
<1>7. /\ Filled(r, OnlyLists(r, ls))
      /\ \A s : Text(r, s) = Text(m, s)
    <2>1. ASSUME NEW b \in DOMAIN m.buf \ DOMAIN r.buf PROVE ls[b] = <<>>
        BY DEF Dropped
    <2>2. /\ r.box = m.box /\ DOMAIN r.buf \subseteq DOMAIN m.buf
          /\ \A b \in DOMAIN r.buf : /\ r.buf[b].top = m.buf[b].top
                                     /\ r.buf[b].bottom = m.buf[b].bottom
                                     /\ r.buf[b].elements = m.buf[b].elements
        BY DEF Dropped, Alike
    <2> QED  BY <2>1, <2>2, FilledLess
<1>8. Holds(r, t, OnlyLists(r, ls))
    BY <1>6, <1>7 DEF Holds, Dropped
<1>9. CopyIn(r) = CopyIn(m)
    <2>1. CASE Temp \in DOMAIN m.buf
        <3>1. CopyIn(r) = Text(r, OnlyLists(r, ls)[Temp])
            BY <2>1, <1>5, <1>8, Shown
        <3>2. CopyIn(m) = Text(m, ls[Temp])
            BY <2>1, Shown
        <3> QED  BY <3>1, <3>2, <2>1, <1>5, <1>7 DEF OnlyLists
    <2>2. CASE Temp \notin DOMAIN m.buf
        BY <2>2, <1>5 DEF CopyIn
    <2> QED  BY <2>1, <2>2
<1>10. StackIn(r) = SubSeq(StackIn(m), 1, Len(d) - k + 1)
    <2> DEFINE n == Len(d) - k + 1
               p == StackIn(m)
               q == StackIn(r)
    <2>1. Holds(r, t, o)
        BY <1>8
    <2> HIDE DEF o
    <2>2. n \in 1 .. Len(d) /\ Len(t) = n /\ t # <<>>
        BY <1>1, <1>3
    <2>3. /\ p \in Seq(Seq(Line)) /\ Len(p) = Len(d)
          /\ \A i \in 1 .. Len(d) : p[i] = Text(m, ls[d[Len(d) - i + 1]])
        <3>1. Holds(m, d, ls) /\ d # <<>>
            BY <1>1
        <3>2. StackIn(m) \in Seq(Seq(Line)) /\ Len(StackIn(m)) = Len(d)
            BY <3>1, PileType
        <3>3. \A i \in 1 .. Len(d) : StackIn(m)[i] = Text(m, ls[d[Len(d) - i + 1]])
            BY <3>1, PileType
        <3> QED  BY <3>2, <3>3
    <2>4. /\ q \in Seq(Seq(Line)) /\ Len(q) = n
          /\ \A i \in 1 .. n : q[i] = Text(r, o[t[n - i + 1]])
        <3>1. /\ q \in Seq(Seq(Line)) /\ Len(q) = Len(t)
              /\ \A i \in 1 .. Len(t) : q[i] = Text(r, o[t[Len(t) - i + 1]])
            <4>1. t # <<>>
                BY <2>2
            <4> QED  BY <2>1, <4>1, PileType
        <3> QED  BY <3>1, <2>2
    <2> HIDE DEF p, q
    <2>5. ASSUME NEW i \in 1 .. n PROVE q[i] = p[i]
        <3>1. n - i + 1 \in 1 .. n /\ k + (n - i + 1) - 1 = Len(d) - i + 1 /\ i \in 1 .. Len(d)
            BY <1>1
        <3>2. t[n - i + 1] = d[Len(d) - i + 1]
            <4>1. n - i + 1 \in 1 .. Len(d) - k + 1
                BY <3>1
            <4>2. t[n - i + 1] = d[k + (n - i + 1) - 1]
                BY <4>1, <1>3
            <4> QED  BY <4>2, <3>1
        <3>3. d[Len(d) - i + 1] \in DOMAIN r.buf
            <4>1. Len(d) - i + 1 \in k .. Len(d)
                BY <1>1
            <4> QED  BY <4>1, <1>2
        <3> HIDE DEF n
        <3>4. o[d[Len(d) - i + 1]] = ls[d[Len(d) - i + 1]]
            BY <3>3 DEF o, OnlyLists
        <3>5. q[i] = Text(r, o[t[n - i + 1]])
            BY <2>4
        <3>6. p[i] = Text(m, ls[d[Len(d) - i + 1]])
            BY <3>1, <2>3
        <3> QED  BY <3>2, <3>4, <3>5, <3>6, <1>7
    <2> HIDE DEF n
    <2>6. /\ SubSeq(p, 1, n) \in Seq(Seq(Line)) /\ Len(SubSeq(p, 1, n)) = n
          /\ \A i \in 1 .. n : SubSeq(p, 1, n)[i] = p[i]
        BY <2>2, <2>3
    <2>7. q = SubSeq(p, 1, n)
        BY <2>4, <2>5, <2>6, SeqEqual
    <2> QED  BY <2>7 DEF p, q, n
<1> QED  BY <1>7, <1>8, <1>9, <1>10 DEF t

-----------------------------------------------------------------------------
\* A new empty buffer n lies on top in r.
Topped(m, d, n, r) ==
    /\ n \in Buf \ DOMAIN m.buf
    /\ IsMemory(r) /\ r.box = m.box
    /\ DOMAIN r.buf = DOMAIN m.buf \cup {n}
    /\ r.buf[n] = [EmptyBuffer EXCEPT !.lower = m.top]
    /\ \A b \in DOMAIN m.buf : Alike(r.buf[b], m.buf[b])
    /\ \A b \in DOMAIN m.buf : r.buf[b].higher = IF b = m.top THEN n ELSE m.buf[b].higher
    /\ r.top = n /\ r.bottom = IF d = <<>> THEN n ELSE m.bottom
    /\ r.buffers = Len(d) + 1

\* A buffer with no lines is there as well.
LEMMA FilledMore ==
    ASSUME NEW m, NEW d, NEW ls, Holds(m, d, ls), NEW r, r.box = m.box, NEW n,
           n \notin DOMAIN m.buf, DOMAIN r.buf = DOMAIN m.buf \cup {n},
           \A b \in DOMAIN m.buf : /\ r.buf[b].top = m.buf[b].top
                                   /\ r.buf[b].bottom = m.buf[b].bottom
                                   /\ r.buf[b].elements = m.buf[b].elements,
           r.buf[n].top = Null, r.buf[n].bottom = Null, r.buf[n].elements = 0
    PROVE  /\ Filled(r, Put(ls, n, <<>>))
           /\ \A s : Text(r, s) = Text(m, s)
           /\ Put(ls, n, <<>>)[n] = <<>>
           /\ \A b \in DOMAIN m.buf : Put(ls, n, <<>>)[b] = ls[b]
<1> DEFINE o == Put(ls, n, <<>>)
<1>1. DOMAIN o = DOMAIN r.buf /\ o[n] = <<>> /\ \A b \in DOMAIN m.buf : o[b] = ls[b]
    BY DEF Put, Holds, Filled
<1> HIDE DEF o
<1>2. ASSUME NEW b \in DOMAIN r.buf
      PROVE  List(r.box, o[b], r.buf[b].top, r.buf[b].bottom) /\ r.buf[b].elements = Len(o[b])
    <2>1. CASE b = n
        BY <2>1, <1>1, ListEmpty
    <2>2. CASE b # n
        BY <2>2, <1>1 DEF Holds, Filled
    <2> QED  BY <2>1, <2>2
<1>3. Filled(r, o)
    <2>1. \A b, c \in DOMAIN r.buf : \A x \in ToSet(o[b]) : x \in ToSet(o[c]) => b = c
        <3>1. \A b \in DOMAIN r.buf : \A x \in ToSet(o[b]) : b \in DOMAIN m.buf /\ x \in ToSet(ls[b])
            BY <1>1, EmptyList
        <3> QED  BY <3>1 DEF Holds, Filled
    <2>2. \A x \in DOMAIN r.box : \E b \in DOMAIN r.buf : x \in ToSet(o[b])
        BY <1>1 DEF Holds, Filled
    <2> QED  BY <2>1, <2>2, <1>1, <1>2 DEF Filled
<1> QED  BY <1>1, <1>3 DEF Text, o

\* A new buffer is linked on top: it is empty, and the others say what they
\* said.
LEMMA BufferTopped ==
    ASSUME NEW m, NEW d, NEW ls, Holds(m, d, ls), NEW n, NEW r, Topped(m, d, n, r)
    PROVE  /\ Holds(r, <<n>> \o d, Put(ls, n, <<>>))
           /\ StackIn(r) = IF d = <<>> THEN StackIn(m) ELSE Append(StackIn(m), <<>>)
           /\ CopyIn(r) = CopyIn(m)
<1> DEFINE t == <<n>> \o d
           o == Put(ls, n, <<>>)
<1>1. /\ d \in Seq(Buf) /\ Len(d) \in Nat /\ DOMAIN d = 1 .. Len(d)
      /\ ToSet(d) = DOMAIN m.buf \ {Temp} /\ List(m.buf, d, m.top, m.bottom)
    BY BuffersType DEF Holds, Piled
<1>2. n \in Buf /\ n # Temp /\ n \notin DOMAIN m.buf
    BY LinksAssumption DEF Topped
<1>3. r.buf[n].lower = m.top /\ r.buf[n].higher = Null /\ r.buf[n].top = Null
      /\ r.buf[n].bottom = Null /\ r.buf[n].elements = 0
    BY DEF Topped, EmptyBuffer
<1>4. List(r.buf, t, n, IF d = <<>> THEN n ELSE m.bottom) /\ ToSet(t) = ToSet(d) \cup {n}
      /\ Len(t) = Len(d) + 1
    <2>1. n \in Address /\ n \notin ToSet(d) /\ ToSet(d) \cup {n} \subseteq DOMAIN r.buf
        BY <1>1, <1>2 DEF Topped, Address
    <2>2. \A x \in ToSet(d) : /\ r.buf[x].lower = m.buf[x].lower
                              /\ r.buf[x].higher = IF x = m.top THEN n ELSE m.buf[x].higher
        BY <1>1 DEF Topped, Alike
    <2> QED  BY <2>1, <2>2, <1>1, <1>3, ListPush
<1>5. t \in Seq(Buf) /\ t[1] = n /\ \A i \in 2 .. Len(d) + 1 : t[i] = d[i - 1]
    BY <1>1, <1>2
<1> HIDE DEF t
<1>6. Piled(r, t)
    <2>1. ToSet(t) = DOMAIN r.buf \ {Temp}
        BY <1>1, <1>2, <1>4 DEF Topped
    <2>2. Temp \in DOMAIN r.buf => r.buf[Temp].higher = Null /\ r.buf[Temp].lower = Null
        <3>1. m.top # Temp
            BY LinksAssumption DEF Holds, IsMemory
        <3>2. Temp \in DOMAIN r.buf => Temp \in DOMAIN m.buf
            BY <1>2 DEF Topped
        <3> QED  BY <3>1, <3>2 DEF Holds, Piled, Topped, Alike
    <2> QED  BY <2>1, <2>2, <1>4 DEF Piled, Topped
<1>7. /\ Filled(r, o) /\ \A s : Text(r, s) = Text(m, s)
      /\ o[n] = <<>> /\ \A b \in DOMAIN m.buf : o[b] = ls[b]
    <2>1. \A b \in DOMAIN m.buf : /\ r.buf[b].top = m.buf[b].top
                                  /\ r.buf[b].bottom = m.buf[b].bottom
                                  /\ r.buf[b].elements = m.buf[b].elements
        BY DEF Topped, Alike
    <2>2. r.box = m.box /\ DOMAIN r.buf = DOMAIN m.buf \cup {n}
        BY DEF Topped
    <2> QED  BY <2>1, <2>2, <1>2, <1>3, FilledMore
<1> HIDE DEF o
<1>8. Holds(r, t, o)
    BY <1>6, <1>7 DEF Holds, Topped
<1>9. CopyIn(r) = CopyIn(m)
    <2>1. CASE Temp \in DOMAIN m.buf
        <3>1. Temp \in DOMAIN r.buf
            BY <2>1 DEF Topped
        <3>2. CopyIn(r) = Text(r, o[Temp])
            BY <3>1, <1>8, Shown
        <3>3. CopyIn(m) = Text(m, ls[Temp])
            BY <2>1, Shown
        <3> QED  BY <3>2, <3>3, <2>1, <1>7
    <2>2. CASE Temp \notin DOMAIN m.buf
        BY <2>2, <1>2 DEF CopyIn, Topped
    <2> QED  BY <2>1, <2>2
<1>10. Text(r, <<>>) = <<>>
    BY DEF Text
<1>11. StackIn(r) = IF d = <<>> THEN StackIn(m) ELSE Append(StackIn(m), <<>>)
    <2> DEFINE p == StackIn(m)
               q == StackIn(r)
    <2>1. /\ p \in Seq(Seq(Line)) /\ Len(p) = IF d = <<>> THEN 1 ELSE Len(d)
          /\ d # <<>> => \A i \in 1 .. Len(d) : p[i] = Text(m, ls[d[Len(d) - i + 1]])
        BY PileType
    <2>2. /\ q \in Seq(Seq(Line)) /\ Len(q) = Len(d) + 1
          /\ \A i \in 1 .. Len(d) + 1 : q[i] = Text(r, o[t[(Len(d) + 1) - i + 1]])
        <3>1. t # <<>>
            BY <1>1, <1>4
        <3>2. /\ q \in Seq(Seq(Line)) /\ Len(q) = Len(t)
              /\ \A i \in 1 .. Len(t) : q[i] = Text(r, o[t[Len(t) - i + 1]])
            BY <1>8, <3>1, PileType
        <3> QED  BY <3>2, <1>4
    <2>3. q[Len(d) + 1] = <<>>
        <3>1. Len(d) + 1 \in 1 .. Len(d) + 1 /\ (Len(d) + 1) - (Len(d) + 1) + 1 = 1
            BY <1>1
        <3>2. q[Len(d) + 1] = Text(r, o[t[1]])
            BY <3>1, <2>2
        <3> QED  BY <3>2, <1>5, <1>7, <1>10
    <2>4. CASE d = <<>>
        <3>1. p = << <<>> >>
            BY <2>4, Shown DEF Pile
        <3>2. Len(d) = 0 /\ Len(q) = 1 /\ q[1] = <<>>
            BY <2>2, <2>3, <2>4
        <3> HIDE DEF q
        <3>3. q = << <<>> >>
            BY <3>2, <2>2
        <3> QED  BY <2>4, <3>1, <3>3 DEF q
    <2>5. CASE d # <<>>
        <3> HIDE DEF p, q
        <3>1. ASSUME NEW i \in 1 .. Len(d) PROVE q[i] = p[i]
            <4>1. /\ (Len(d) + 1) - i + 1 \in 2 .. Len(d) + 1
                  /\ ((Len(d) + 1) - i + 1) - 1 = Len(d) - i + 1 /\ i \in 1 .. Len(d) + 1
                BY <1>1
            <4>2. t[(Len(d) + 1) - i + 1] = d[Len(d) - i + 1]
                BY <4>1, <1>5
            <4>3. d[Len(d) - i + 1] \in DOMAIN m.buf
                <5>1. Len(d) - i + 1 \in DOMAIN d
                    BY <1>1
                <5> QED  BY <5>1, <1>1 DEF ToSet
            <4>4. q[i] = Text(r, o[d[Len(d) - i + 1]])
                BY <4>1, <4>2, <2>2
            <4> QED  BY <4>3, <4>4, <2>1, <2>5, <1>7
        <3>2. /\ Append(p, <<>>) \in Seq(Seq(Line)) /\ Len(Append(p, <<>>)) = Len(d) + 1
              /\ Append(p, <<>>)[Len(d) + 1] = <<>>
              /\ \A i \in 1 .. Len(d) : Append(p, <<>>)[i] = p[i]
            BY <2>1, <2>5, <1>1
        <3>3. \A i \in 1 .. Len(d) + 1 : i \in 1 .. Len(d) \/ i = Len(d) + 1
            BY <1>1
        <3>4. \A i \in 1 .. Len(q) : q[i] = Append(p, <<>>)[i]
            BY <3>1, <3>2, <3>3, <2>2, <2>3
        <3>5. q = Append(p, <<>>)
            BY <3>2, <3>4, <2>2, SeqEqual
        <3> QED  BY <2>5, <3>5 DEF p, q
    <2> QED  BY <2>4, <2>5
<1> QED  BY <1>8, <1>9, <1>11 DEF t, o

-----------------------------------------------------------------------------
(* What the program sees of a queue, and of a line that comes or goes. *)

\* A list of one element.
LEMMA SingleList ==
    ASSUME NEW S, NEW x \in S
    PROVE  <<x>> \in Seq(S) /\ ToSet(<<x>>) = {x}
<1>1. Len(<<x>>) = 1 /\ <<x>>[1] = x /\ DOMAIN <<x>> = 1 .. 1
    OBVIOUS
<1>2. ToSet(<<x>>) = {x}
    BY <1>1 DEF ToSet
<1> QED  BY <1>2

Held(m) == \E d, ls : Holds(m, d, ls)

\* The queue and a command's copy have all the lines there are.
Good(m) ==
    /\ Held(m)
    /\ m.elements + Len(CopyIn(m)) = Cardinality(DOMAIN m.box)

OnTop(st, b) == Append(Front(st), b)

\* What a queue in memory looks like to a program.
LEMMA HeldSeen ==
    ASSUME NEW m, Held(m)
    PROVE  /\ IsMemory(m) /\ m.elements \in Int /\ m.buffers \in Nat
           /\ StackIn(m) \in Seq(Seq(Line)) /\ StackIn(m) # <<>>
           /\ CopyIn(m) \in Seq(Line) /\ Len(CopyIn(m)) \in Nat
           /\ Cardinality(DOMAIN m.box) \in Nat
           /\ Cardinality(DOMAIN m.box) <= Cardinality(Box) /\ Cardinality(Box) \in Nat
           /\ Temp \notin DOMAIN m.buf => CopyIn(m) = <<>>
           /\ m.top = Null => StackIn(m) = << <<>> >> /\ m.buffers = 0
           /\ m.top # Null => /\ m.top \in DOMAIN m.buf \ {Temp} /\ m.buffers > 0
                              /\ Len(StackIn(m)) = m.buffers
<1> PICK d, ls : Holds(m, d, ls)
    BY DEF Held
<1>1. IsMemory(m) /\ m.elements \in Int /\ m.buffers = Len(d)
    BY DEF Holds, IsMemory, Piled
<1>2. /\ Cardinality(DOMAIN m.box) \in Nat
      /\ Cardinality(DOMAIN m.box) <= Cardinality(Box) /\ Cardinality(Box) \in Nat
    BY <1>1, FiniteMemory
<1>3. /\ StackIn(m) \in Seq(Seq(Line)) /\ StackIn(m) # <<>> /\ CopyIn(m) \in Seq(Line)
      /\ Len(StackIn(m)) = IF d = <<>> THEN 1 ELSE Len(d)
    BY PileType
<1>4. Temp \notin DOMAIN m.buf => CopyIn(m) = <<>>
    BY DEF CopyIn
<1>5. m.top = Null => StackIn(m) = << <<>> >> /\ m.buffers = 0
    BY <1>1, BuffersType DEF StackIn
<1>6. m.top # Null => d # <<>> /\ Len(d) >= 1 /\ m.top \in DOMAIN m.buf \ {Temp}
    BY BuffersType
<1>7. Len(d) \in Nat
    BY BuffersType
<1> QED  BY <1>1, <1>2, <1>3, <1>4, <1>5, <1>6, <1>7

\* The counter of lines alone changes nothing that is seen.
LEMMA HeldCount ==
    ASSUME NEW m, Held(m), NEW n \in Int, NEW r, r = Count(m, n)
    PROVE  /\ Held(r) /\ StackIn(r) = StackIn(m) /\ CopyIn(r) = CopyIn(m)
           /\ r.box = m.box /\ r.buf = m.buf /\ r.top = m.top /\ r.buffers = m.buffers
           /\ r.elements = m.elements + n
<1> PICK d, ls : Holds(m, d, ls)
    BY DEF Held
<1>1. IsMemory(m)
    BY DEF Holds
<1>2. Same(m, r) /\ r.elements = m.elements + n
    BY <1>1, CountIs
<1>3. Holds(r, d, ls) /\ StackIn(r) = StackIn(m) /\ CopyIn(r) = CopyIn(m)
    BY <1>2, SameHolds
<1> QED  BY <1>2, <1>3 DEF Held, Same

\* From m to r the number of lines changed by k, the buffers are the same.
Moves(m, r, k) ==
    /\ Held(r) /\ DOMAIN r.buf = DOMAIN m.buf /\ r.top = m.top /\ r.buffers = m.buffers
    /\ r.elements = m.elements
    /\ Cardinality(DOMAIN r.box) = Cardinality(DOMAIN m.box) + k

\* What is seen of a buffer: the top one is the last, the temporary one the copy.
LEMMA TopSeen ==
    ASSUME NEW m, NEW d, NEW ls, Holds(m, d, ls), m.top # Null
    PROVE  m.top \in DOMAIN m.buf /\ Last(StackIn(m)) = Text(m, ls[m.top])
<1>1. d # <<>> /\ Len(d) >= 1 /\ Len(d) \in Nat /\ m.top = d[1] /\ m.top \in DOMAIN m.buf
    BY BuffersType
<1>2. /\ StackIn(m) \in Seq(Seq(Line)) /\ Len(StackIn(m)) = Len(d)
      /\ \A i \in 1 .. Len(d) : StackIn(m)[i] = Text(m, ls[d[Len(d) - i + 1]])
    BY <1>1, PileType
<1>3. Len(d) \in 1 .. Len(d) /\ Len(d) - Len(d) + 1 = 1
    BY <1>1
<1>4. StackIn(m)[Len(d)] = Text(m, ls[d[1]])
    BY <1>2, <1>3
<1> QED  BY <1>1, <1>2, <1>4 DEF Last

\* What is seen of the temporary buffer is the copy.
LEMMA CopySeen ==
    ASSUME NEW m, NEW d, NEW ls, Holds(m, d, ls), Temp \in DOMAIN m.buf
    PROVE  CopyIn(m) = Text(m, ls[Temp])
BY Shown

\* From m to r the lines of b changed, by k, and now are the texts t.
Turning(m, d, ls, b, r, k, t) ==
    \E ls2 : /\ Turned(m, d, ls, b, r, ls2) /\ Text(r, ls2[b]) = t
             /\ Cardinality(DOMAIN r.box) = Cardinality(DOMAIN m.box) + k

\* A change of the lines of the top buffer, and of the temporary queue's.
LEMMA TurnedTop ==
    ASSUME NEW m, NEW d, NEW ls, Holds(m, d, ls), m.top # Null, NEW r, NEW k, NEW t,
           Turning(m, d, ls, m.top, r, k, t)
    PROVE  /\ Moves(m, r, k)
           /\ StackIn(r) = OnTop(StackIn(m), t)
           /\ CopyIn(r) = CopyIn(m)
<1> PICK ls2 : /\ Turned(m, d, ls, m.top, r, ls2) /\ Text(r, ls2[m.top]) = t
               /\ Cardinality(DOMAIN r.box) = Cardinality(DOMAIN m.box) + k
    BY DEF Turning
<1>1. Holds(r, d, ls2) /\ DOMAIN r.buf = DOMAIN m.buf
    BY DEF Turned, OnlyAt
<1>2. StackIn(r) = OnTop(StackIn(m), t) /\ CopyIn(r) = CopyIn(m)
    BY <1>1, RefilledTop DEF Turned, OnTop
<1> QED  BY <1>1, <1>2 DEF Turned, OnlyAt, Moves, Held

\* A change of the lines of the temporary buffer changes the copy alone.
LEMMA TurnedTemp ==
    ASSUME NEW m, NEW d, NEW ls, Holds(m, d, ls), Temp \in DOMAIN m.buf, NEW r, NEW k, NEW t,
           Turning(m, d, ls, Temp, r, k, t)
    PROVE  /\ Moves(m, r, k)
           /\ StackIn(r) = StackIn(m)
           /\ CopyIn(r) = t
<1> PICK ls2 : /\ Turned(m, d, ls, Temp, r, ls2) /\ Text(r, ls2[Temp]) = t
               /\ Cardinality(DOMAIN r.box) = Cardinality(DOMAIN m.box) + k
    BY DEF Turning
<1>1. Holds(r, d, ls2) /\ DOMAIN r.buf = DOMAIN m.buf
    BY DEF Turned, OnlyAt
<1>2. StackIn(r) = StackIn(m) /\ CopyIn(r) = t
    BY <1>1, RefilledTemp DEF Turned
<1> QED  BY <1>1, <1>2 DEF Turned, OnlyAt, Moves, Held

\* LifoLine puts a line on top of the top buffer.
LEMMA LifoTop ==
    ASSUME NEW m, Held(m), m.top # Null, NEW l \in Line, DOMAIN m.box # Box,
           NEW r, r = LifoLine(m, m.top, l)
    PROVE  /\ Moves(m, r, 1)
           /\ StackIn(r) = OnTop(StackIn(m), <<l>> \o Last(StackIn(m)))
           /\ CopyIn(r) = CopyIn(m)
<1> PICK d, ls : Holds(m, d, ls)
    BY DEF Held
<1>1. m.top \in DOMAIN m.buf /\ Last(StackIn(m)) = Text(m, ls[m.top])
    BY TopSeen
<1>2. Turning(m, d, ls, m.top, r, 1, <<l>> \o Text(m, ls[m.top]))
    BY <1>1, LifoLineHolds DEF Turning
<1> QED  BY <1>1, <1>2, TurnedTop

\* FifoLine puts a line below the others of the top buffer.
LEMMA FifoTop ==
    ASSUME NEW m, Held(m), m.top # Null, NEW l \in Line, DOMAIN m.box # Box,
           NEW r, r = FifoLine(m, m.top, l)
    PROVE  /\ Moves(m, r, 1)
           /\ StackIn(r) = OnTop(StackIn(m), Append(Last(StackIn(m)), l))
           /\ CopyIn(r) = CopyIn(m)
<1> PICK d, ls : Holds(m, d, ls)
    BY DEF Held
<1>1. m.top \in DOMAIN m.buf /\ Last(StackIn(m)) = Text(m, ls[m.top])
    BY TopSeen
<1>2. Turning(m, d, ls, m.top, r, 1, Append(Text(m, ls[m.top]), l))
    BY <1>1, FifoLineHolds DEF Turning
<1> QED  BY <1>1, <1>2, TurnedTop

\* FifoLine puts a line below the others of the copy.
LEMMA FifoTemp ==
    ASSUME NEW m, Held(m), Temp \in DOMAIN m.buf, NEW l \in Line, DOMAIN m.box # Box,
           NEW r, r = FifoLine(m, Temp, l)
    PROVE  /\ Moves(m, r, 1)
           /\ StackIn(r) = StackIn(m)
           /\ CopyIn(r) = Append(CopyIn(m), l)
<1> PICK d, ls : Holds(m, d, ls)
    BY DEF Held
<1>1. CopyIn(m) = Text(m, ls[Temp])
    BY CopySeen
<1>2. Turning(m, d, ls, Temp, r, 1, Append(Text(m, ls[Temp]), l))
    BY <1>1, FifoLineHolds DEF Turning
<1> QED  BY <1>1, <1>2, TurnedTemp

\* PopLine takes the top line of the top buffer.
LEMMA PopTop ==
    ASSUME NEW m, Held(m), m.top # Null, m.buf[m.top].top # Null, NEW r, r = PopLine(m, m.top)
    PROVE  /\ Moves(m, r, -1)
           /\ Last(StackIn(m)) # <<>>
           /\ m.box[m.buf[m.top].top].contents = Head(Last(StackIn(m)))
           /\ StackIn(r) = OnTop(StackIn(m), Tail(Last(StackIn(m))))
           /\ CopyIn(r) = CopyIn(m)
<1> PICK d, ls : Holds(m, d, ls)
    BY DEF Held
<1>1. Cardinality(DOMAIN m.box) \in Nat
    BY HeldSeen
<1>2. m.top \in DOMAIN m.buf /\ Last(StackIn(m)) = Text(m, ls[m.top])
    BY TopSeen
<1>3. /\ Text(m, ls[m.top]) # <<>>
      /\ m.box[m.buf[m.top].top].contents = Head(Text(m, ls[m.top]))
    BY <1>2, PopLineHolds
<1>4. Turning(m, d, ls, m.top, r, -1, Tail(Text(m, ls[m.top])))
    <2>1. \E ls2 : /\ Turned(m, d, ls, m.top, r, ls2)
                   /\ Text(r, ls2[m.top]) = Tail(Text(m, ls[m.top]))
                   /\ Cardinality(DOMAIN r.box) = Cardinality(DOMAIN m.box) - 1
        BY <1>2, PopLineHolds
    <2>2. Cardinality(DOMAIN m.box) - 1 = Cardinality(DOMAIN m.box) + (-1)
        BY <1>1
    <2> QED  BY <2>1, <2>2 DEF Turning
<1>5. m.top \in DOMAIN m.buf /\ Turning(m, d, ls, m.top, r, -1, Tail(Text(m, ls[m.top])))
    BY <1>2, <1>4
<1>6. Moves(m, r, -1) /\ StackIn(r) = OnTop(StackIn(m), Tail(Text(m, ls[m.top])))
      /\ CopyIn(r) = CopyIn(m)
    BY <1>5, TurnedTop
<1> QED  BY <1>2, <1>3, <1>6

\* PopLine takes the top line of the copy.
LEMMA PopTemp ==
    ASSUME NEW m, Held(m), Temp \in DOMAIN m.buf, m.buf[Temp].top # Null,
           NEW r, r = PopLine(m, Temp)
    PROVE  /\ Moves(m, r, -1)
           /\ CopyIn(m) # <<>>
           /\ m.box[m.buf[Temp].top].contents = Head(CopyIn(m))
           /\ StackIn(r) = StackIn(m)
           /\ CopyIn(r) = Tail(CopyIn(m))
<1> PICK d, ls : Holds(m, d, ls)
    BY DEF Held
<1>1. Cardinality(DOMAIN m.box) \in Nat
    BY HeldSeen
<1>2. CopyIn(m) = Text(m, ls[Temp])
    BY CopySeen
<1>3. Text(m, ls[Temp]) # <<>> /\ m.box[m.buf[Temp].top].contents = Head(Text(m, ls[Temp]))
    BY PopLineHolds
<1>4. Turning(m, d, ls, Temp, r, -1, Tail(Text(m, ls[Temp])))
    <2>1. \E ls2 : /\ Turned(m, d, ls, Temp, r, ls2)
                   /\ Text(r, ls2[Temp]) = Tail(Text(m, ls[Temp]))
                   /\ Cardinality(DOMAIN r.box) = Cardinality(DOMAIN m.box) - 1
        BY <1>2, PopLineHolds
    <2>2. Cardinality(DOMAIN m.box) - 1 = Cardinality(DOMAIN m.box) + (-1)
        BY <1>1
    <2> QED  BY <2>1, <2>2 DEF Turning
<1> QED  BY <1>2, <1>3, <1>4, TurnedTemp

\* Whether there is a line.
LEMMA NothingOnTop ==
    ASSUME NEW m, Held(m)
    PROVE  /\ m.top # Null => (m.buf[m.top].top = Null <=> Last(StackIn(m)) = <<>>)
           /\ Temp \in DOMAIN m.buf => (m.buf[Temp].top = Null <=> CopyIn(m) = <<>>)
<1> PICK d, ls : Holds(m, d, ls)
    BY DEF Held
<1>1. ASSUME NEW b \in DOMAIN m.buf PROVE m.buf[b].top = Null <=> Text(m, ls[b]) = <<>>
    <2>1. m.buf[b].top = Null <=> ls[b] = <<>>
        BY FilledAt
    <2>2. ls[b] \in Seq(Box) /\ Text(m, ls[b]) \in Seq(Line) /\ Len(Text(m, ls[b])) = Len(ls[b])
        BY LinesType
    <2>3. ls[b] = <<>> <=> Text(m, ls[b]) = <<>>
        BY <2>2
    <2> QED  BY <2>1, <2>3
<1> QED  BY <1>1, TopSeen, CopySeen

\* Before its first use a queue gets its zeroth buffer.
LEMMA Ensured ==
    ASSUME NEW m, Good(m), NEW r, r = EnsureBuffer(m)
    PROVE  /\ Good(r) /\ StackIn(r) = StackIn(m) /\ CopyIn(r) = CopyIn(m)
           /\ r.top # Null /\ r.box = m.box
           /\ Temp \in DOMAIN r.buf <=> Temp \in DOMAIN m.buf
           /\ r.buffers = Len(StackIn(m))
<1> PICK d, ls : Holds(m, d, ls)
    BY DEF Good, Held
<1>1. Held(m)
    BY DEF Good
<1>2. CASE m.top # Null
    BY <1>1, <1>2, HeldSeen DEF EnsureBuffer
<1>3. CASE m.top = Null
    <2> DEFINE z == Malloc(Buf, m.buf)
    <2>1. d = <<>> /\ DOMAIN m.buf \subseteq {Temp} /\ m.bottom = Null
        <3>1. d = <<>> /\ m.bottom = Null
            BY <1>3, BuffersType
        <3>2. ToSet(d) = DOMAIN m.buf \ {Temp}
            BY DEF Holds, Piled
        <3> QED  BY <3>1, <3>2, EmptyList
    <2>2. z \in Buf \ DOMAIN m.buf
        <3>1. \E a : a \in Buf \ DOMAIN m.buf
            BY <2>1, LinksAssumption
        <3> QED  BY <3>1 DEF Malloc
    <2> DEFINE B == Put(m.buf, z, EmptyBuffer)
    <2>3. r = [m EXCEPT !.buf = B, !.top = z, !.bottom = z, !.elements = 0, !.buffers = 1]
        BY <1>3 DEF EnsureBuffer, Holds, IsMemory
    <2> HIDE DEF z, B
    <2>4. /\ r.box = m.box /\ r.buf = B /\ r.top = z /\ r.bottom = z /\ r.elements = 0
          /\ r.buffers = 1
          /\ r \in [box: {r.box}, buf: {r.buf}, top: Buf \cup {Null}, bottom: Buf \cup {Null},
                    buffers: Int, elements: Int]
        <3>1. r = [box |-> m.box, buf |-> B, top |-> z, bottom |-> z, buffers |-> 1, elements |-> 0]
            BY <2>3 DEF Holds, IsMemory
        <3> QED  BY <2>2, <3>1
    <2>5. EmptyBuffer \in BufferCell
        BY DEF EmptyBuffer, BufferCell
    <2>6. IsMemory(r)
        BY <2>2, <2>4, <2>5 DEF Holds, IsMemory, Put, B
    <2>7. Topped(m, d, z, r)
        <3>1. Null \notin DOMAIN m.buf
            BY NullIsNoBuffer DEF Holds
        <3>2. [EmptyBuffer EXCEPT !.lower = m.top] = EmptyBuffer
            BY <1>3 DEF EmptyBuffer
        <3> QED  BY <3>1, <3>2, <1>3, <2>1, <2>2, <2>4, <2>6 DEF Topped, Put, Alike, B
    <2>8. Holds(r, <<z>> \o d, Put(ls, z, <<>>)) /\ StackIn(r) = StackIn(m) /\ CopyIn(r) = CopyIn(m)
        BY <2>1, <2>7, BufferTopped
    <2>9. Cardinality(DOMAIN m.box) = Len(CopyIn(m))
        <3>1. CASE Temp \in DOMAIN m.buf
            <4>1. \A b \in DOMAIN m.buf : b = Temp
                BY <2>1
            <4>2. DOMAIN m.box = ToSet(ls[Temp])
                BY <3>1, <4>1, LinesType DEF Holds, Filled
            <4>3. Cardinality(ToSet(ls[Temp])) = Len(ls[Temp])
                BY <3>1, LinesType, ListSize
            <4>4. CopyIn(m) = Text(m, ls[Temp])
                BY <3>1, CopySeen
            <4>5. Len(Text(m, ls[Temp])) = Len(ls[Temp])
                BY <3>1, LinesType
            <4> QED  BY <4>2, <4>3, <4>4, <4>5
        <3>2. CASE Temp \notin DOMAIN m.buf
            <4>1. DOMAIN m.box = {}
                BY <3>2, <2>1 DEF Holds, Filled
            <4>2. CopyIn(m) = <<>>
                BY <3>2 DEF CopyIn
            <4> QED  BY <4>1, <4>2, FS_EmptySet
        <3> QED  BY <3>1, <3>2
    <2>10. Good(r)
        <3>1. Held(r)
            BY <2>8 DEF Held
        <3>2. Len(CopyIn(m)) \in Nat
            BY <1>1, HeldSeen
        <3> QED  BY <3>1, <3>2, <2>4, <2>8, <2>9 DEF Good
    <2>11. r.top # Null
        BY <2>2, <2>4, LinksAssumption
    <2>12. Temp \in DOMAIN r.buf <=> Temp \in DOMAIN m.buf
        BY <2>2, <2>4, LinksAssumption DEF Put, B
    <2>13. StackIn(m) = << <<>> >>
        BY <1>1, <1>3, HeldSeen
    <2>14. r.buffers = Len(StackIn(m))
        BY <2>4, <2>13
    <2> QED  BY <2>4, <2>8, <2>10, <2>11, <2>12, <2>14
<1> QED  BY <1>2, <1>3

\* REPLACE, and the end of a command: the top buffer loses its lines.
LEMMA TopPurged ==
    ASSUME NEW m, Good(m), NEW r, r = PurgeTop(m)
    PROVE  /\ Good(r) /\ StackIn(r) = OnTop(StackIn(m), <<>>) /\ CopyIn(r) = CopyIn(m)
           /\ Temp \in DOMAIN r.buf <=> Temp \in DOMAIN m.buf
<1> DEFINE e == EnsureBuffer(m)
<1>1. /\ Good(e) /\ StackIn(e) = StackIn(m) /\ CopyIn(e) = CopyIn(m) /\ e.top # Null
      /\ Temp \in DOMAIN e.buf <=> Temp \in DOMAIN m.buf
    BY Ensured
<1>2. r = EmptyBuffers(e, <<e.top>>)
    BY DEF PurgeTop
<1> HIDE DEF e
<1>3. PICK d, ls : Holds(e, d, ls)
    BY <1>1 DEF Good, Held
<1>4. e.top \in DOMAIN e.buf
    BY <1>1, <1>3, TopSeen
<1>5. <<e.top>> \in Seq(DOMAIN e.buf) /\ ToSet(<<e.top>>) = {e.top}
    BY <1>4, SingleList
<1>6. Emptying(e, d, ls, {e.top}, r)
    BY <1>2, <1>3, <1>5, EmptyBuffersHolds
<1> DEFINE ls2 == Emptied(ls, {e.top})
<1>7. /\ ls2[e.top] = <<>>
      /\ \A c \in DOMAIN e.buf \ {e.top} : ls2[c] = ls[c]
    BY <1>3, <1>4 DEF Emptied, Holds, Filled
<1>8. Holds(r, d, ls2) /\ DOMAIN r.buf = DOMAIN e.buf
    BY <1>6 DEF Emptying
<1>9. \A c \in DOMAIN e.buf \ {e.top} : Text(r, ls2[c]) = Text(e, ls[c])
    BY <1>6, <1>7 DEF Emptying
<1> HIDE DEF ls2
<1>10. StackIn(r) = Append(Front(StackIn(e)), Text(r, ls2[e.top])) /\ CopyIn(r) = CopyIn(e)
    BY <1>1, <1>3, <1>8, <1>9, RefilledTop
<1>11. Text(r, ls2[e.top]) = <<>>
    BY <1>7 DEF Text
<1>12. Good(r)
    <2>1. Held(r) /\ Held(e)
        BY <1>1, <1>8 DEF Good, Held
    <2>2. /\ r.elements \in Int /\ e.elements \in Int /\ Len(CopyIn(e)) \in Nat
          /\ Cardinality(DOMAIN r.box) \in Nat /\ Cardinality(DOMAIN e.box) \in Nat
        BY <2>1, HeldSeen
    <2>3. Cardinality(DOMAIN r.box) - r.elements = Cardinality(DOMAIN e.box) - e.elements
        BY <1>6 DEF Emptying
    <2>4. e.elements + Len(CopyIn(e)) = Cardinality(DOMAIN e.box)
        BY <1>1 DEF Good
    <2> QED  BY <2>1, <2>2, <2>3, <2>4, <1>10 DEF Good
<1> QED  BY <1>1, <1>8, <1>10, <1>11, <1>12 DEF OnTop

-----------------------------------------------------------------------------
(* MAKEBUF, and the buffers PULL drops. *)

\* MAKEBUF finds a free buffer while there are fewer than there can be.
LEMMA NewBuffer ==
    ASSUME NEW m, NEW d, NEW ls, Holds(m, d, ls), m.buffers < Cardinality(Buf)
    PROVE  Malloc(Buf, m.buf) \in Buf \ DOMAIN m.buf
<1>1. d \in Seq(Buf) /\ IsInjective(d) /\ ToSet(d) = DOMAIN m.buf \ {Temp} /\ m.buffers = Len(d)
    BY BuffersType DEF Holds, Piled
<1>2. Cardinality(ToSet(d)) = Len(d) /\ Len(d) \in Nat
    <2>1. d \in Seq(Buf) /\ IsInjective(d) /\ Len(d) \in Nat
        BY <1>1
    <2> QED  BY <2>1, ListSize
<1>3. ToSet(d) # Buf
    <2>1. Cardinality(ToSet(d)) < Cardinality(Buf)
        BY <1>1, <1>2
    <2> QED  BY <2>1, <1>2
<1>4. \E a : a \in Buf \ DOMAIN m.buf
    BY <1>1, <1>3, LinksAssumption DEF Holds, IsMemory
<1> QED  BY <1>4 DEF Malloc

\* MAKEBUF puts an empty buffer on top.
LEMMA BufferAdded ==
    ASSUME NEW m, Good(m), m.top # Null, m.buffers < Cardinality(Buf), NEW r, r = AddBuffer(m)
    PROVE  /\ Good(r) /\ StackIn(r) = Append(StackIn(m), <<>>) /\ CopyIn(r) = CopyIn(m)
           /\ Temp \in DOMAIN r.buf <=> Temp \in DOMAIN m.buf
           /\ r.buffers = m.buffers + 1
<1> PICK d, ls : Holds(m, d, ls)
    BY DEF Good, Held
<1> DEFINE n == Malloc(Buf, m.buf)
           c == [EmptyBuffer EXCEPT !.lower = m.top]
           U == [m.buf EXCEPT ![m.top].higher = n]
           B == Put(U, n, c)
<1>1. n \in Buf \ DOMAIN m.buf
    BY NewBuffer
<1>2. r = [m EXCEPT !.buf = B, !.top = n, !.buffers = m.buffers + 1]
    BY DEF AddBuffer, Holds, IsMemory
<1>3. /\ m.top \in DOMAIN m.buf \ {Temp} /\ m.top \in Buf /\ m.buffers = Len(d) /\ Len(d) \in Nat
      /\ d # <<>>
    BY BuffersType DEF Holds, Piled, IsMemory
<1>4. c \in BufferCell /\ c.higher = Null
    BY <1>3 DEF EmptyBuffer, BufferCell
<1>5. /\ DOMAIN U = DOMAIN m.buf /\ \A b \in DOMAIN U : U[b] \in BufferCell
      /\ \A b \in DOMAIN m.buf : Alike(U[b], m.buf[b])
      /\ \A b \in DOMAIN m.buf : U[b].higher = IF b = m.top THEN n ELSE m.buf[b].higher
    BY <1>1, <1>3 DEF Holds, IsMemory, BufferCell, Alike
<1> HIDE DEF n, c, U
<1>6. /\ DOMAIN B = DOMAIN m.buf \cup {n} /\ B \in [DOMAIN B -> BufferCell] /\ B[n] = c
      /\ \A b \in DOMAIN m.buf : B[b] = U[b]
    BY <1>1, <1>4, <1>5 DEF Put
<1> HIDE DEF B
<1>7. /\ r.box = m.box /\ r.buf = B /\ r.top = n /\ r.bottom = m.bottom /\ r.buffers = m.buffers + 1
      /\ r.elements = m.elements
      /\ r \in [box: {r.box}, buf: {r.buf}, top: Buf \cup {Null}, bottom: Buf \cup {Null},
                buffers: Int, elements: Int]
    <2>1. m.buffers + 1 \in Int /\ m.bottom \in Buf \cup {Null} /\ m.elements \in Int
        BY <1>3 DEF Holds, IsMemory
    <2>2. r = [box |-> m.box, buf |-> B, top |-> n, bottom |-> m.bottom,
               buffers |-> m.buffers + 1, elements |-> m.elements]
        BY <1>2 DEF Holds, IsMemory
    <2> QED  BY <2>1, <2>2, <1>1
<1>8. IsMemory(r)
    BY <1>1, <1>6, <1>7 DEF Holds, IsMemory
<1>9. Topped(m, d, n, r)
    BY <1>1, <1>3, <1>5, <1>6, <1>7, <1>8 DEF Topped, c
<1>10. Holds(r, <<n>> \o d, Put(ls, n, <<>>)) /\ StackIn(r) = Append(StackIn(m), <<>>)
       /\ CopyIn(r) = CopyIn(m)
    BY <1>3, <1>9, BufferTopped
<1>11. Good(r)
    BY <1>7, <1>10 DEF Good, Held
<1> QED  BY <1>1, <1>6, <1>7, <1>10, <1>11, LinksAssumption

-----------------------------------------------------------------------------
\* What is counted does not change with the buffers.
LEMMA StillCounted ==
    ASSUME NEW m, Good(m), NEW r, Held(r), CopyIn(r) = CopyIn(m), r.box = m.box,
           r.elements = m.elements
    PROVE  Good(r)
BY DEF Good

\* With no line the queue has none in its buffers, and the other way round.
LEMMA NoneFilled ==
    ASSUME NEW m, NEW d, NEW ls, Holds(m, d, ls)
    PROVE  /\ \A i \in 1 .. Len(d) : m.buf[d[i]].top = Null <=> ls[d[i]] = <<>>
           /\ \A b \in DOMAIN m.buf : Text(m, ls[b]) = <<>> <=> ls[b] = <<>>
<1>1. \A i \in 1 .. Len(d) : m.buf[d[i]].top = Null <=> ls[d[i]] = <<>>
    BY BuffersType, FilledAt
<1>2. ASSUME NEW b \in DOMAIN m.buf PROVE Text(m, ls[b]) = <<>> <=> ls[b] = <<>>
    <2>1. ls[b] \in Seq(Box) /\ Text(m, ls[b]) \in Seq(Line) /\ Len(Text(m, ls[b])) = Len(ls[b])
        BY LinesType
    <2> QED  BY <2>1
<1> QED  BY <1>1, <1>2

-----------------------------------------------------------------------------
\* All buffers of the queue are gone in r, and have had no lines in m.
Bared(m, d, r) ==
    /\ IsMemory(r) /\ r.box = m.box
    /\ DOMAIN r.buf = DOMAIN m.buf \ ToSet(d)
    /\ \A b \in DOMAIN r.buf : r.buf[b] = m.buf[b]
    /\ r.top = Null /\ r.bottom = Null /\ r.buffers = 0

\* What a queue without buffers shows.
LEMMA AllDropped ==
    ASSUME NEW m, NEW d, NEW ls, Holds(m, d, ls), \A b \in ToSet(d) : ls[b] = <<>>,
           NEW r, Bared(m, d, r)
    PROVE  /\ Held(r) /\ StackIn(r) = << <<>> >> /\ CopyIn(r) = CopyIn(m)
           /\ Temp \in DOMAIN r.buf <=> Temp \in DOMAIN m.buf
<1> DEFINE o == OnlyLists(r, ls)
<1>1. ToSet(d) = DOMAIN m.buf \ {Temp}
    BY DEF Holds, Piled
<1>2. /\ DOMAIN r.buf \subseteq DOMAIN m.buf /\ DOMAIN r.buf \ {Temp} = {}
      /\ Temp \in DOMAIN r.buf <=> Temp \in DOMAIN m.buf
    BY <1>1 DEF Bared
<1>3. Filled(r, o) /\ \A s : Text(r, s) = Text(m, s)
    <2>1. \A b \in DOMAIN m.buf \ DOMAIN r.buf : ls[b] = <<>>
        BY DEF Bared
    <2>2. r.box = m.box /\ \A b \in DOMAIN r.buf : /\ r.buf[b].top = m.buf[b].top
                                                   /\ r.buf[b].bottom = m.buf[b].bottom
                                                   /\ r.buf[b].elements = m.buf[b].elements
        BY DEF Bared
    <2> QED  BY <2>1, <2>2, <1>2, FilledLess
<1>4. Piled(r, <<>>)
    <2>1. Temp \in DOMAIN r.buf => r.buf[Temp].higher = Null /\ r.buf[Temp].lower = Null
        BY <1>2 DEF Holds, Piled, Bared
    <2> QED  BY <2>1, <1>2, ListEmpty, EmptyList DEF Piled, Bared
<1>5. Holds(r, <<>>, o)
    BY <1>3, <1>4 DEF Holds, Bared
<1>6. StackIn(r) = << <<>> >>
    BY DEF StackIn, Bared
<1>7. CopyIn(r) = CopyIn(m)
    <2>1. CASE Temp \in DOMAIN m.buf
        <3>1. CopyIn(r) = Text(r, o[Temp])
            BY <2>1, <1>2, <1>5, CopySeen
        <3>2. CopyIn(m) = Text(m, ls[Temp])
            BY <2>1, CopySeen
        <3> QED  BY <3>1, <3>2, <2>1, <1>2, <1>3 DEF OnlyLists
    <2>2. CASE Temp \notin DOMAIN m.buf
        BY <2>2, <1>2 DEF CopyIn
    <2> QED  BY <2>1, <2>2
<1> QED  BY <1>2, <1>5, <1>6, <1>7 DEF Held

\* The beginning and the end of a list.
LEMMA ListParts ==
    ASSUME NEW S, NEW s \in Seq(S), NEW a \in 1 .. Len(s) + 1, NEW z \in 0 .. Len(s)
    PROVE  /\ SubSeq(s, a, z) \in Seq(S)
           /\ ToSet(SubSeq(s, a, z)) = {s[i] : i \in a .. z}
<1> DEFINE t == SubSeq(s, a, z)
<1>1. Len(s) \in Nat /\ DOMAIN s = 1 .. Len(s)
    OBVIOUS
<1>2. /\ t \in Seq(S) /\ Len(t) = (IF a <= z THEN z - a + 1 ELSE 0)
      /\ \A i \in 1 .. z - a + 1 : t[i] = s[a + i - 1]
    BY <1>1, SMTT(20)
<1>3. DOMAIN t = 1 .. z - a + 1
    BY <1>1, <1>2
<1> HIDE DEF t
<1>4. ASSUME NEW i \in a .. z PROVE s[i] \in ToSet(t)
    <2>1. i - a + 1 \in 1 .. z - a + 1 /\ a + (i - a + 1) - 1 = i
        BY <1>1
    <2>2. t[i - a + 1] = s[i]
        BY <2>1, <1>2
    <2> QED  BY <2>1, <2>2, <1>3 DEF ToSet
<1>5. ASSUME NEW i \in 1 .. z - a + 1 PROVE t[i] \in {s[j] : j \in a .. z}
    <2>1. a + i - 1 \in a .. z
        BY <1>1
    <2> QED  BY <2>1, <1>2
<1>6. ToSet(t) = {s[i] : i \in a .. z}
    BY <1>3, <1>4, <1>5 DEF ToSet
<1> QED  BY <1>2, <1>6 DEF t

\* PULL drops the empty buffers on top.
LEMMA EmptyDropped ==
    ASSUME NEW m, Good(m), NEW r, r = DropEmpty(m)
    PROVE  /\ Good(r) /\ CopyIn(r) = CopyIn(m)
           /\ Temp \in DOMAIN r.buf <=> Temp \in DOMAIN m.buf
           /\ r.top = Null => /\ StackIn(r) = << <<>> >>
                              /\ \A i \in DOMAIN StackIn(m) : StackIn(m)[i] = <<>>
           /\ r.top # Null =>
                 \E top \in DOMAIN StackIn(m) :
                    /\ StackIn(m)[top] # <<>>
                    /\ \A i \in top + 1 .. Len(StackIn(m)) : StackIn(m)[i] = <<>>
                    /\ StackIn(r) = SubSeq(StackIn(m), 1, top)
<1> PICK d, ls : Holds(m, d, ls)
    BY DEF Good, Held
<1> DEFINE L == Len(d)
           down == BuffersOf(m)
           filled == {i \in DOMAIN down : m.buf[down[i]].top # Null}
<1>1. down = d /\ filled = {i \in DOMAIN d : m.buf[d[i]].top # Null}
    BY Shown
<1> HIDE DEF down, filled
<1>2. /\ d \in Seq(Buf) /\ L \in Nat /\ DOMAIN d = 1 .. L /\ IsInjective(d)
      /\ ToSet(d) = DOMAIN m.buf \ {Temp} /\ m.buffers = L
    BY BuffersType DEF Holds, Piled
<1>3. \A i \in 1 .. L : m.buf[d[i]].top = Null <=> ls[d[i]] = <<>>
    BY NoneFilled
<1>4. CASE filled = {}
    <2>1. \A i \in 1 .. L : ls[d[i]] = <<>>
        BY <1>1, <1>2, <1>3, <1>4
    <2>2. \A b \in ToSet(d) : ls[b] = <<>>
        BY <2>1, <1>2 DEF ToSet
    <2>3. ToSet(SubSeq(d, 1, L)) = ToSet(d)
        <3>1. ToSet(SubSeq(d, 1, L)) = {d[i] : i \in 1 .. L}
            BY <1>2, ListParts
        <3> QED  BY <3>1, <1>2 DEF ToSet
    <2> DEFINE B == Free(m.buf, ToSet(d))
    <2>4. r = [m EXCEPT !.buf = B, !.top = Null, !.bottom = Null, !.buffers = m.buffers - L]
        BY <1>1, <1>4, <2>3 DEF DropEmpty, Holds, IsMemory, down, filled
    <2>5. /\ DOMAIN B = DOMAIN m.buf \ ToSet(d) /\ \A b \in DOMAIN B : B[b] = m.buf[b]
          /\ B \in [DOMAIN B -> BufferCell]
        BY DEF Free, Restrict, Holds, IsMemory
    <2> HIDE DEF B
    <2>6. r = [box |-> m.box, buf |-> B, top |-> Null, bottom |-> Null, buffers |-> 0,
               elements |-> m.elements]
        <3>1. m.buffers - L = 0
            BY <1>2
        <3> QED  BY <2>4, <3>1 DEF Holds, IsMemory
    <2>7. Bared(m, d, r) /\ r.elements = m.elements
        BY <2>5, <2>6 DEF Bared, Holds, IsMemory
    <2>8. /\ Held(r) /\ StackIn(r) = << <<>> >> /\ CopyIn(r) = CopyIn(m)
          /\ Temp \in DOMAIN r.buf <=> Temp \in DOMAIN m.buf
        BY <2>2, <2>7, AllDropped
    <2>9. Good(r)
        BY <2>7, <2>8, StillCounted DEF Bared
    <2>10. \A i \in DOMAIN StackIn(m) : StackIn(m)[i] = <<>>
        <3>1. CASE d = <<>>
            BY <3>1, Shown DEF Pile
        <3>2. CASE d # <<>>
            <4>1. /\ StackIn(m) \in Seq(Seq(Line)) /\ Len(StackIn(m)) = L
                  /\ \A i \in 1 .. L : StackIn(m)[i] = Text(m, ls[d[L - i + 1]])
                BY <3>2, PileType
            <4>2. \A i \in 1 .. L : L - i + 1 \in 1 .. L
                BY <1>2
            <4>3. Text(m, <<>>) = <<>>
                BY DEF Text
            <4>4. \A i \in 1 .. L : StackIn(m)[i] = <<>>
                BY <4>1, <4>2, <4>3, <2>1
            <4>5. DOMAIN StackIn(m) = 1 .. L
                BY <4>1
            <4> QED  BY <4>4, <4>5
        <3> QED  BY <3>1, <3>2
    <2> QED  BY <2>7, <2>8, <2>9, <2>10 DEF Bared
<1>5. CASE filled # {}
    <2> DEFINE k == Min(filled)
    <2>1. k \in filled /\ \A i \in filled : k <= i
        <3>1. filled \subseteq Nat
            BY <1>1, <1>2
        <3>2. \E i \in filled : \A j \in filled : i <= j
            BY <3>1, <1>5, LeastNat
        <3> QED  BY <3>2 DEF Min
    <2> HIDE DEF k
    <2>2. k \in 1 .. L /\ m.buf[d[k]].top # Null
        BY <2>1, <1>1, <1>2
    <2>3. ASSUME NEW j \in 1 .. k - 1 PROVE m.buf[d[j]].top = Null /\ ls[d[j]] = <<>>
        <3>1. j \in 1 .. L /\ ~(k <= j)
            BY <2>2, <1>2
        <3> QED  BY <3>1, <2>1, <1>1, <1>2, <1>3
    <2> DEFINE gone == {d[j] : j \in 1 .. k - 1}
               B == [Free(m.buf, gone) EXCEPT ![d[k]].higher = Null]
    <2>4. ToSet(SubSeq(d, 1, k - 1)) = gone
        <3>1. k - 1 \in 0 .. Len(d) /\ 1 \in 1 .. Len(d) + 1
            BY <2>2, <1>2
        <3> QED  BY <3>1, <1>2, ListParts
    <2>5. d[k] \in Buf /\ d[k] # Null /\ d[k] \in DOMAIN m.buf \ {Temp}
        BY <2>2, <1>2, LinksAssumption DEF ToSet
    <2>6. d[k] \notin gone
        <3>1. \A j \in 1 .. k - 1 : j \in 1 .. L /\ j # k
            BY <2>2, <1>2
        <3> QED  BY <3>1, <2>2, <1>2 DEF IsInjective
    <2> HIDE DEF gone
    <2>7. r = [m EXCEPT !.buf = B, !.top = d[k], !.bottom = m.bottom,
                        !.buffers = m.buffers - (k - 1)]
        <3>1. r = [m EXCEPT
                      !.buf = IF down[k] = Null THEN Free(m.buf, ToSet(SubSeq(down, 1, k - 1)))
                              ELSE [Free(m.buf, ToSet(SubSeq(down, 1, k - 1)))
                                      EXCEPT ![down[k]].higher = Null],
                      !.top = down[k], !.bottom = IF down[k] = Null THEN Null ELSE m.bottom,
                      !.buffers = m.buffers - (k - 1)]
            BY <1>5 DEF DropEmpty, Holds, IsMemory, k, down, filled
        <3> QED  BY <3>1, <1>1, <2>4, <2>5
    <2>8. /\ DOMAIN B = DOMAIN m.buf \ gone
          /\ \A b \in DOMAIN B : /\ Alike(B[b], m.buf[b])
                                 /\ B[b].higher = IF b = d[k] THEN Null ELSE m.buf[b].higher
                                 /\ B[b] \in BufferCell
        <3>1. DOMAIN B = DOMAIN m.buf \ gone
            BY DEF Free, Restrict
        <3>2. \A b \in DOMAIN B : m.buf[b] \in BufferCell
            BY <3>1 DEF Holds, IsMemory
        <3>3. \A b \in DOMAIN B : B[b] = IF b = d[k] THEN [m.buf[b] EXCEPT !.higher = Null]
                                                   ELSE m.buf[b]
            BY <2>5, <2>6 DEF Free, Restrict
        <3> HIDE DEF B
        <3>4. ASSUME NEW b \in DOMAIN B, b = d[k]
              PROVE  Alike(B[b], m.buf[b]) /\ B[b].higher = Null /\ B[b] \in BufferCell
            <4> DEFINE c == m.buf[b]
            <4>1. c = [higher |-> c.higher, lower |-> c.lower, top |-> c.top,
                       bottom |-> c.bottom, elements |-> c.elements]
                BY <3>2 DEF BufferCell
            <4>2. B[b] = [c EXCEPT !.higher = Null]
                BY <3>3, <3>4
            <4>3. B[b] = [higher |-> Null, lower |-> c.lower, top |-> c.top,
                          bottom |-> c.bottom, elements |-> c.elements]
                BY <4>1, <4>2
            <4>4. c \in BufferCell
                BY <3>2
            <4> HIDE DEF c
            <4>5. B[b] \in BufferCell
                BY <4>3, <4>4 DEF BufferCell
            <4>6. Alike(B[b], c) /\ B[b].higher = Null
                BY <4>3 DEF Alike
            <4> QED  BY <4>5, <4>6 DEF c
        <3>5. ASSUME NEW b \in DOMAIN B, b # d[k]
              PROVE  B[b] = m.buf[b] /\ Alike(B[b], m.buf[b]) /\ B[b] \in BufferCell
            <4>1. B[b] = m.buf[b]
                BY <3>3, <3>5
            <4> QED  BY <4>1, <3>2 DEF Alike
        <3> QED  BY <3>1, <3>4, <3>5
    <2>9. B = [b \in DOMAIN B |-> B[b]]
        BY DEF Free, Restrict
    <2> HIDE DEF B
    <2>10. m.buffers - (k - 1) = L - k + 1 /\ L - k + 1 \in Int
        BY <1>2, <2>2
    <2>11. r = [box |-> m.box, buf |-> B, top |-> d[k], bottom |-> m.bottom,
                buffers |-> L - k + 1, elements |-> m.elements]
        BY <2>7, <2>10 DEF Holds, IsMemory
    <2>12. IsMemory(r) /\ r.elements = m.elements /\ r.box = m.box
        BY <2>5, <2>8, <2>9, <2>10, <2>11 DEF Holds, IsMemory
    <2>13. Dropped(m, d, k, r)
        BY <2>8, <2>11, <2>12 DEF Dropped, gone
    <2>14. /\ Holds(r, SubSeq(d, k, L), OnlyLists(r, ls))
           /\ StackIn(r) = SubSeq(StackIn(m), 1, L - k + 1) /\ CopyIn(r) = CopyIn(m)
        BY <2>2, <2>3, <2>13, TopDropped
    <2>15. Good(r)
        BY <2>12, <2>14, StillCounted DEF Held
    <2>16. r.top # Null
        BY <2>5, <2>11
    <2>17. Temp \in DOMAIN r.buf <=> Temp \in DOMAIN m.buf
        <3>1. Temp \notin gone
            <4>1. \A j \in 1 .. k - 1 : j \in DOMAIN d
                BY <2>2, <1>2
            <4> QED  BY <4>1, <1>2 DEF ToSet, gone
        <3> QED  BY <3>1, <2>8, <2>11
    <2> DEFINE top == L - k + 1
    <2>18. /\ top \in DOMAIN StackIn(m) /\ StackIn(m)[top] # <<>>
           /\ \A i \in top + 1 .. Len(StackIn(m)) : StackIn(m)[i] = <<>>
        <3>1. d # <<>> /\ top \in 1 .. L /\ L - top + 1 = k
            BY <1>2, <2>2
        <3>2. /\ StackIn(m) \in Seq(Seq(Line)) /\ Len(StackIn(m)) = L
              /\ \A i \in 1 .. L : StackIn(m)[i] = Text(m, ls[d[L - i + 1]])
            BY <3>1, PileType
        <3>3. StackIn(m)[top] # <<>>
            <4>1. Text(m, ls[d[k]]) # <<>>
                BY <2>2, <2>5, <1>3, NoneFilled
            <4> QED  BY <4>1, <3>1, <3>2
        <3>4. ASSUME NEW i \in top + 1 .. L PROVE StackIn(m)[i] = <<>>
            <4>1. i \in 1 .. L /\ L - i + 1 \in 1 .. k - 1
                BY <2>2, <1>2
            <4>2. Text(m, <<>>) = <<>>
                BY DEF Text
            <4> QED  BY <4>1, <4>2, <3>2, <2>3
        <3> QED  BY <3>1, <3>2, <3>3, <3>4
    <2> QED  BY <2>14, <2>15, <2>16, <2>17, <2>18
<1> QED  BY <1>4, <1>5

-----------------------------------------------------------------------------
(* DROPBUF. *)

\* Buffers that lose their lines, none of them a command's copy.
LEMMA EmptyingGood ==
    ASSUME NEW m, Good(m), NEW d, NEW ls, Holds(m, d, ls), NEW B, Temp \notin B,
           NEW r, Emptying(m, d, ls, B, r)
    PROVE  Good(r) /\ CopyIn(r) = CopyIn(m)
<1>1. Holds(r, d, Emptied(ls, B)) /\ DOMAIN r.buf = DOMAIN m.buf
    BY DEF Emptying
<1>2. CopyIn(r) = CopyIn(m)
    <2>1. CASE Temp \in DOMAIN m.buf
        <3>1. CopyIn(r) = Text(r, Emptied(ls, B)[Temp])
            BY <2>1, <1>1, CopySeen
        <3>2. CopyIn(m) = Text(m, ls[Temp])
            BY <2>1, CopySeen
        <3>3. Emptied(ls, B)[Temp] = ls[Temp]
            BY <2>1 DEF Emptied, Holds, Filled
        <3>4. Text(r, ls[Temp]) = Text(m, ls[Temp])
            BY <2>1 DEF Emptying
        <3> QED  BY <3>1, <3>2, <3>3, <3>4
    <2>2. CASE Temp \notin DOMAIN m.buf
        BY <2>2, <1>1 DEF CopyIn
    <2> QED  BY <2>1, <2>2
<1>3. Held(r) /\ Held(m)
    BY <1>1 DEF Held
<1>4. /\ r.elements \in Int /\ m.elements \in Int /\ Len(CopyIn(m)) \in Nat
      /\ Cardinality(DOMAIN r.box) \in Nat /\ Cardinality(DOMAIN m.box) \in Nat
    BY <1>3, HeldSeen
<1>5. Cardinality(DOMAIN r.box) - r.elements = Cardinality(DOMAIN m.box) - m.elements
    BY DEF Emptying
<1>6. m.elements + Len(CopyIn(m)) = Cardinality(DOMAIN m.box)
    BY DEF Good
<1> QED  BY <1>2, <1>3, <1>4, <1>5, <1>6 DEF Good

\* DROPBUF empties the buffers it drops and takes them away.
LEMMA BuffersDropped ==
    ASSUME NEW m, Good(m), m.top # Null, NEW n \in Int, n < m.buffers,
           NEW r, r = DropBuffers(m, n)
    PROVE  /\ Good(r) /\ CopyIn(r) = CopyIn(m)
           /\ Temp \in DOMAIN r.buf <=> Temp \in DOMAIN m.buf
           /\ StackIn(r) = IF n <= 0 THEN << <<>> >> ELSE SubSeq(StackIn(m), 1, n)
           /\ r.buffers = Len(StackIn(r))
<1> PICK d, ls : Holds(m, d, ls)
    BY DEF Good, Held
<1> DEFINE L == Len(d)
           up == Reverse(d)
           climbed == IF n > 0 THEN n ELSE 0
           kept == IF climbed = 0 THEN 1 ELSE climbed
           k == L - kept + 1
           e == EmptyBuffers(m, SubSeq(up, climbed + 1, L))
           B == {up[i] : i \in climbed + 1 .. L}
           ls2 == Emptied(ls, B)
           gone == {d[j] : j \in 1 .. k - 1}
<1>1. /\ d \in Seq(Buf) /\ L \in Nat /\ DOMAIN d = 1 .. L /\ IsInjective(d)
      /\ ToSet(d) = DOMAIN m.buf \ {Temp} /\ m.buffers = L /\ d # <<>> /\ L >= 1
      /\ \A i \in 1 .. L : d[i] \in DOMAIN m.buf \ {Temp}
    BY BuffersType DEF Holds, Piled
<1>2. /\ up \in Seq(Buf) /\ Len(up) = L /\ DOMAIN up = 1 .. L
      /\ \A i \in 1 .. L : up[i] = d[L - i + 1]
    BY <1>1, ReverseIs
<1>3. /\ climbed \in 0 .. L - 1 /\ kept \in 1 .. L /\ kept >= climbed /\ k \in 1 .. L
      /\ L - k + 1 = kept
      /\ n <= 0 => climbed = 0 /\ kept = 1
      /\ n > 0 => climbed = n /\ kept = n
    BY <1>1
<1>4. Chain(m.buf, m.bottom, "higher") = up
    BY Shown
<1> HIDE DEF up
<1>5. r = [e EXCEPT !.buf = [Free(e.buf, ToSet(SubSeq(up, kept + 1, L)))
                                EXCEPT ![up[kept]].higher = Null],
                    !.top = up[kept], !.buffers = e.buffers - (L - kept)]
    <2>1. r = [EmptyBuffers(m, SubSeq(up, climbed + 1, Len(up)))
                 EXCEPT !.buf = [Free(@, ToSet(SubSeq(up, kept + 1, Len(up))))
                                    EXCEPT ![up[kept]].higher = Null],
                        !.top = up[kept], !.buffers = @ - (Len(up) - kept)]
        BY <1>4 DEF DropBuffers
    <2>2. IsMemory(e)
        <3>1. \A i \in 1 .. Len(up) : up[i] \in DOMAIN m.buf
            BY <1>1, <1>2
        <3>2. up \in Seq(DOMAIN m.buf)
            BY <1>2, <3>1
        <3>3. climbed + 1 \in 1 .. Len(up) + 1 /\ L \in 0 .. Len(up)
            BY <1>1, <1>2, <1>3
        <3>4. SubSeq(up, climbed + 1, L) \in Seq(DOMAIN m.buf)
            BY <3>2, <3>3, ListParts
        <3> QED  BY <3>4, EmptyBuffersHolds DEF Emptying, Holds
    <2> HIDE DEF climbed, kept
    <2> QED  BY <2>1, <2>2, <1>2 DEF IsMemory
<1> HIDE DEF climbed, kept, k
<1>6. Emptying(m, d, ls, B, e)
    <2>1. \A i \in 1 .. Len(up) : up[i] \in DOMAIN m.buf
        BY <1>1, <1>2
    <2>2. up \in Seq(DOMAIN m.buf)
        BY <1>2, <2>1
    <2>3. climbed + 1 \in 1 .. Len(up) + 1 /\ L \in 0 .. Len(up)
        BY <1>1, <1>2, <1>3
    <2>4. /\ SubSeq(up, climbed + 1, L) \in Seq(DOMAIN m.buf)
          /\ ToSet(SubSeq(up, climbed + 1, L)) = B
        BY <2>2, <2>3, ListParts
    <2> QED  BY <2>4, EmptyBuffersHolds
<1>7. Temp \notin B
    BY <1>1, <1>2, <1>3
<1> HIDE DEF e, B
<1>8. Good(e) /\ CopyIn(e) = CopyIn(m)
    BY <1>6, <1>7, EmptyingGood
<1>9. /\ Holds(e, d, ls2) /\ DOMAIN e.buf = DOMAIN m.buf /\ e.buffers = L /\ e.bottom = m.bottom
      /\ \A b \in DOMAIN m.buf \ B : Text(e, ls[b]) = Text(m, ls[b])
      /\ \A b \in B \cap DOMAIN m.buf : ls2[b] = <<>>
      /\ \A b \in DOMAIN m.buf \ B : ls2[b] = ls[b]
    BY <1>1, <1>6 DEF Emptying, Emptied, Holds, Filled
<1> HIDE DEF ls2
<1>10. ToSet(SubSeq(up, kept + 1, L)) = gone /\ up[kept] = d[k]
    <2>1. kept + 1 \in 1 .. Len(up) + 1 /\ L \in 0 .. Len(up)
        BY <1>1, <1>2, <1>3
    <2>2. ToSet(SubSeq(up, kept + 1, L)) = {up[i] : i \in kept + 1 .. L}
        BY <2>1, <1>2, ListParts
    <2>3. ASSUME NEW i \in kept + 1 .. L PROVE up[i] \in gone
        <3>1. L - i + 1 \in 1 .. k - 1 /\ i \in 1 .. L
            BY <1>1, <1>3
        <3> QED  BY <3>1, <1>2
    <2>4. ASSUME NEW j \in 1 .. k - 1 PROVE d[j] \in {up[i] : i \in kept + 1 .. L}
        <3>1. L - j + 1 \in kept + 1 .. L /\ L - j + 1 \in 1 .. L /\ L - (L - j + 1) + 1 = j
            BY <1>1, <1>3
        <3>2. up[L - j + 1] = d[j]
            BY <3>1, <1>2
        <3> QED  BY <3>1, <3>2
    <2>5. up[kept] = d[k]
        BY <1>2, <1>3 DEF k
    <2> QED  BY <2>2, <2>3, <2>4, <2>5
<1>11. d[k] \in DOMAIN e.buf \ {Temp} /\ d[k] \in Buf /\ d[k] \notin gone /\ Temp \notin gone
    <2>1. k \in DOMAIN d /\ \A j \in 1 .. k - 1 : j \in DOMAIN d /\ j # k
        BY <1>1, <1>3
    <2>2. d[k] \notin gone
        BY <2>1, <1>1 DEF IsInjective
    <2> QED  BY <2>1, <2>2, <1>1, <1>9
<1>12. \A j \in 1 .. k - 1 : ls2[d[j]] = <<>>
    <2>1. ASSUME NEW j \in 1 .. k - 1 PROVE d[j] \in B \cap DOMAIN m.buf
        <3>1. L - j + 1 \in climbed + 1 .. L /\ L - j + 1 \in 1 .. L /\ L - (L - j + 1) + 1 = j
              /\ j \in 1 .. L
            BY <1>1, <1>3
        <3>2. up[L - j + 1] = d[j]
            BY <3>1, <1>2
        <3> QED  BY <3>1, <3>2, <1>1 DEF B
    <2> QED  BY <2>1, <1>9
<1> DEFINE X == [Free(e.buf, gone) EXCEPT ![d[k]].higher = Null]
<1> HIDE DEF gone
<1>13. /\ DOMAIN X = DOMAIN e.buf \ gone /\ X = [b \in DOMAIN X |-> X[b]]
       /\ \A b \in DOMAIN X : /\ Alike(X[b], e.buf[b])
                              /\ X[b].higher = IF b = d[k] THEN Null ELSE e.buf[b].higher
                              /\ X[b] \in BufferCell
    <2>1. X = [b \in DOMAIN X |-> X[b]]
        BY DEF Free, Restrict
    <2>2. DOMAIN X = DOMAIN e.buf \ gone
        BY DEF Free, Restrict
    <2>3. ASSUME NEW b \in DOMAIN X
          PROVE  X[b] = IF b = d[k] THEN [e.buf[b] EXCEPT !.higher = Null] ELSE e.buf[b]
        BY DEF Free, Restrict
    <2>4. \A b \in DOMAIN X : e.buf[b] \in BufferCell
        BY <2>2, <1>9 DEF Holds, IsMemory
    <2> HIDE DEF X
    <2>5. ASSUME NEW b \in DOMAIN X
          PROVE  /\ Alike(X[b], e.buf[b])
                 /\ X[b].higher = IF b = d[k] THEN Null ELSE e.buf[b].higher
                 /\ X[b] \in BufferCell
        BY <2>3, <2>4 DEF Alike, BufferCell
    <2> QED  BY <2>1, <2>2, <2>5
<1>14. r = [box |-> e.box, buf |-> X, top |-> d[k], bottom |-> e.bottom, buffers |-> kept,
            elements |-> e.elements]
    <2>1. e.buffers - (L - kept) = kept
        BY <1>1, <1>3, <1>9
    <2>2. r = [e EXCEPT !.buf = X, !.top = d[k], !.buffers = kept]
        BY <1>5, <1>10, <2>1
    <2> HIDE DEF X
    <2> QED  BY <2>2, <1>9 DEF Holds, IsMemory
<1> HIDE DEF X
<1>15. IsMemory(r) /\ r.elements = e.elements /\ r.box = e.box /\ r.buffers = kept
    BY <1>3, <1>9, <1>11, <1>13, <1>14, SMTT(20) DEF Holds, IsMemory
<1>16. Dropped(e, d, k, r)
    <2>1. r.buf = X /\ r.top = d[k] /\ r.bottom = e.bottom /\ r.buffers = L - k + 1
        BY <1>3, <1>14
    <2> QED  BY <2>1, <1>13, <1>15 DEF Dropped, gone
<1>17. Holds(e, d, ls2) /\ k \in 1 .. Len(d) /\ d # <<>>
    BY <1>1, <1>3, <1>9
<1>18. /\ Holds(r, SubSeq(d, k, Len(d)), OnlyLists(r, ls2))
       /\ StackIn(r) = SubSeq(StackIn(e), 1, Len(d) - k + 1) /\ CopyIn(r) = CopyIn(e)
    BY <1>12, <1>16, <1>17, TopDropped
<1>19. Good(r) /\ CopyIn(r) = CopyIn(m)
    BY <1>8, <1>15, <1>18, StillCounted DEF Held
<1>20. Temp \in DOMAIN r.buf <=> Temp \in DOMAIN m.buf
    BY <1>9, <1>11, <1>13, <1>14
<1>21. StackIn(r) = SubSeq(StackIn(e), 1, kept)
    BY <1>3, <1>18
<1>22. /\ StackIn(e) \in Seq(Seq(Line)) /\ Len(StackIn(e)) = L
       /\ \A i \in 1 .. L : StackIn(e)[i] = Text(e, ls2[d[L - i + 1]])
    BY <1>17, PileType
<1>23. /\ StackIn(m) \in Seq(Seq(Line)) /\ Len(StackIn(m)) = L
       /\ \A i \in 1 .. L : StackIn(m)[i] = Text(m, ls[d[L - i + 1]])
    BY <1>17, PileType
<1>24. /\ StackIn(r) \in Seq(Seq(Line)) /\ Len(StackIn(r)) = kept
       /\ \A i \in 1 .. kept : StackIn(r)[i] = StackIn(e)[i]
    <2>1. StackIn(e) \in Seq(Seq(Line)) /\ kept \in 1 .. Len(StackIn(e))
        BY <1>3, <1>22
    <2> QED  BY <2>1, <1>21
<1>25. CASE n <= 0
    <2>1. 1 \in 1 .. L /\ L - 1 + 1 = L /\ L - L + 1 = 1 /\ L \in 1 .. L /\ L \in climbed + 1 .. L
          /\ 1 \in climbed + 1 .. L
        BY <1>1, <1>3, <1>25
    <2>2. d[L] \in B \cap DOMAIN m.buf
        <3>1. up[1] = d[L]
            BY <2>1, <1>2
        <3> QED  BY <3>1, <2>1, <1>1 DEF B
    <2>3. Text(e, <<>>) = <<>>
        BY DEF Text
    <2>4. StackIn(e)[1] = <<>>
        BY <2>1, <2>2, <2>3, <1>9, <1>22
    <2>5. Len(StackIn(r)) = 1 /\ StackIn(r)[1] = <<>>
        BY <1>3, <1>24, <1>25, <2>4
    <2>6. StackIn(r) = << <<>> >>
        BY <2>5, <1>24
    <2> QED  BY <1>15, <1>19, <1>20, <1>25, <2>6, <1>3, <1>24
<1>26. CASE n > 0
    <2>1. ASSUME NEW i \in 1 .. n PROVE StackIn(e)[i] = StackIn(m)[i]
        <3>1. i \in 1 .. L /\ L - i + 1 \in 1 .. L
            BY <1>1, <1>3, <1>26
        <3>2. d[L - i + 1] \in DOMAIN m.buf \ B
            <4>1. ASSUME NEW j \in climbed + 1 .. L PROVE up[j] # d[L - i + 1]
                <5>1. j \in 1 .. L /\ L - j + 1 \in 1 .. L /\ L - j + 1 # L - i + 1
                    BY <1>1, <1>3, <1>26
                <5>2. up[j] = d[L - j + 1]
                    BY <5>1, <1>2
                <5> QED  BY <5>1, <5>2, <3>1, <1>1 DEF IsInjective
            <4> QED  BY <4>1, <3>1, <1>1 DEF B
        <3>3. /\ StackIn(e)[i] = Text(e, ls2[d[L - i + 1]])
              /\ StackIn(m)[i] = Text(m, ls[d[L - i + 1]])
            BY <3>1, <1>22, <1>23
        <3> QED  BY <3>2, <3>3, <1>9
    <2>2. kept = n /\ n \in 1 .. L
        BY <1>3, <1>26
    <2>3. /\ SubSeq(StackIn(m), 1, n) \in Seq(Seq(Line)) /\ Len(SubSeq(StackIn(m), 1, n)) = n
          /\ \A i \in 1 .. n : SubSeq(StackIn(m), 1, n)[i] = StackIn(m)[i]
        BY <2>2, <1>1, <1>23
    <2>4. \A i \in 1 .. n : StackIn(r)[i] = SubSeq(StackIn(m), 1, n)[i]
        BY <2>1, <2>2, <2>3, <1>24
    <2>5. StackIn(r) = SubSeq(StackIn(m), 1, n)
        BY <2>2, <2>3, <2>4, <1>24, SeqEqual
    <2>6. ~(n <= 0)
        BY <1>26
    <2> QED  BY <1>15, <1>19, <1>20, <2>5, <2>6, <1>24
<1> QED  BY <1>25, <1>26

-----------------------------------------------------------------------------
(* The end of a program, and the temporary queue of a command. *)

\* The end of a program: nothing is left.
LEMMA QueueDeleted ==
    ASSUME NEW m, Good(m), Temp \notin DOMAIN m.buf, NEW r, r = DeleteQueue(m)
    PROVE  /\ Good(r) /\ StackIn(r) = << <<>> >> /\ CopyIn(r) = <<>>
           /\ Temp \notin DOMAIN r.buf
<1> PICK d, ls : Holds(m, d, ls)
    BY DEF Good, Held
<1> DEFINE e == EmptyBuffers(m, d)
           ls2 == Emptied(ls, ToSet(d))
           X == Free(e.buf, ToSet(d))
<1>1. BuffersOf(m) = d
    BY Shown
<1>2. d \in Seq(Buf) /\ ToSet(d) = DOMAIN m.buf \ {Temp} /\ ToSet(d) = DOMAIN m.buf
    BY BuffersType DEF Holds, Piled
<1>3. d \in Seq(DOMAIN m.buf)
    BY <1>2, Elsewhere
<1>4. Emptying(m, d, ls, ToSet(d), e)
    BY <1>3, EmptyBuffersHolds
<1>5. r = [box |-> e.box, buf |-> X, top |-> Null, bottom |-> Null, buffers |-> 0, elements |-> 0]
    BY <1>1 DEF DeleteQueue, Fresh
<1> HIDE DEF e
<1>6. /\ Holds(e, d, ls2) /\ DOMAIN e.buf = ToSet(d) /\ \A b \in ToSet(d) : ls2[b] = <<>>
    BY <1>2, <1>4 DEF Emptying, Emptied, Holds, Filled
<1> HIDE DEF ls2
<1>7. DOMAIN X = {} /\ X = [b \in DOMAIN X |-> X[b]]
    BY <1>6 DEF Free, Restrict
<1> HIDE DEF X
<1>8. Bared(e, d, r)
    BY <1>5, <1>6, <1>7 DEF Bared, Holds, IsMemory
<1>9. Held(r) /\ StackIn(r) = << <<>> >>
    BY <1>6, <1>8, AllDropped
<1>10. CopyIn(r) = <<>> /\ Temp \notin DOMAIN r.buf
    BY <1>5, <1>7 DEF CopyIn
<1>11. DOMAIN r.box = {}
    BY <1>5, <1>6, EmptyList DEF Holds, Filled
<1>12. Good(r)
    <2>1. r.elements = 0
        BY <1>5
    <2>2. Len(CopyIn(r)) = 0
        BY <1>10
    <2>3. Cardinality(DOMAIN r.box) = 0
        BY <1>11, FS_EmptySet
    <2> QED  BY <2>1, <2>2, <2>3, <1>9 DEF Good
<1> QED  BY <1>9, <1>10, <1>12

\* The queue shows the same if its buffers are, and what their lines say.
LEMMA SamePile ==
    ASSUME NEW m, NEW d, NEW ls, Holds(m, d, ls), NEW r, NEW o, Holds(r, d, o),
           \A b \in ToSet(d) : Text(r, o[b]) = Text(m, ls[b])
    PROVE  StackIn(r) = StackIn(m)
<1>1. \A i \in 1 .. Len(d) : d[Len(d) - i + 1] \in ToSet(d)
    BY BuffersType
<1>2. Pile(r, d, o) = Pile(m, d, ls)
    BY <1>1 DEF Pile, Texts
<1>3. StackIn(r) = Pile(r, d, o)
    BY Shown
<1>4. StackIn(m) = Pile(m, d, ls)
    BY Shown
<1> QED  BY <1>2, <1>3, <1>4

\* The end of a command: its copy and the lines in it are gone.
LEMMA TempDeleted ==
    ASSUME NEW m, Good(m), NEW r, r = DeleteTemp(m)
    PROVE  Good(r) /\ StackIn(r) = StackIn(m) /\ CopyIn(r) = <<>> /\ Temp \notin DOMAIN r.buf
<1>1. CASE Temp \notin DOMAIN m.buf
    BY <1>1 DEF DeleteTemp, CopyIn
<1>2. CASE Temp \in DOMAIN m.buf
    <2> PICK d, ls : Holds(m, d, ls)
        BY DEF Good, Held
    <2> DEFINE e == DeleteBufferContent(m, Temp)
               ls2 == Relist(ls, Temp, <<>>)
               X == Free(e.buf, {Temp})
               o == OnlyLists(r, ls2)
    <2>1. /\ Turned(m, d, ls, Temp, e, ls2)
          /\ Cardinality(DOMAIN e.box) = Cardinality(DOMAIN m.box) - Len(ls[Temp])
        BY <1>2, ContentDeleted
    <2>2. r = [e EXCEPT !.buf = X]
        <3>1. IsMemory(e)
            BY <2>1 DEF Turned, Holds
        <3> QED  BY <1>2, <3>1 DEF DeleteTemp, IsMemory
    <2> HIDE DEF e
    <2>3. /\ Holds(e, d, ls2) /\ DOMAIN e.buf = DOMAIN m.buf /\ e.elements = m.elements
          /\ \A b \in DOMAIN m.buf \ {Temp} : Text(e, ls2[b]) = Text(m, ls[b])
          /\ ls2[Temp] = <<>> /\ IsMemory(e)
        BY <2>1, <1>2 DEF Turned, OnlyAt, Relist, Holds, Filled
    <2> HIDE DEF ls2
    <2>4. /\ DOMAIN X = DOMAIN e.buf \ {Temp} /\ X = [b \in DOMAIN X |-> X[b]]
          /\ \A b \in DOMAIN X : X[b] = e.buf[b]
        BY DEF Free, Restrict
    <2> HIDE DEF X
    <2>5. r = [box |-> e.box, buf |-> X, top |-> e.top, bottom |-> e.bottom,
               buffers |-> e.buffers, elements |-> e.elements]
        BY <2>2, <2>3 DEF IsMemory
    <2>6. IsMemory(r)
        BY <2>3, <2>4, <2>5 DEF IsMemory
    <2>7. ToSet(d) = DOMAIN e.buf \ {Temp} /\ List(e.buf, d, e.top, e.bottom) /\ e.buffers = Len(d)
        BY <2>3 DEF Holds, Piled
    <2>8. Piled(r, d)
        <3>1. List(X, d, e.top, e.bottom)
            BY <2>4, <2>7, ListSame
        <3> QED  BY <3>1, <2>4, <2>5, <2>7 DEF Piled
    <2>9. Filled(r, o) /\ \A s : Text(r, s) = Text(e, s)
        <3>1. /\ r.box = e.box /\ DOMAIN r.buf \subseteq DOMAIN e.buf
              /\ \A b \in DOMAIN r.buf : /\ r.buf[b].top = e.buf[b].top
                                         /\ r.buf[b].bottom = e.buf[b].bottom
                                         /\ r.buf[b].elements = e.buf[b].elements
              /\ \A b \in DOMAIN e.buf \ DOMAIN r.buf : ls2[b] = <<>>
            BY <2>3, <2>4, <2>5
        <3> QED  BY <2>3, <3>1, FilledLess
    <2>10. Holds(r, d, o)
        BY <2>6, <2>8, <2>9 DEF Holds
    <2>11. StackIn(r) = StackIn(m)
        <3>1. \A b \in ToSet(d) : Text(r, o[b]) = Text(m, ls[b])
            BY <2>3, <2>4, <2>5, <2>7, <2>9 DEF OnlyLists
        <3> HIDE DEF o
        <3> QED  BY <2>10, <3>1, SamePile
    <2>12. Temp \notin DOMAIN r.buf /\ CopyIn(r) = <<>>
        BY <2>4, <2>5 DEF CopyIn
    <2>13. Good(r)
        <3>1. CopyIn(m) = Text(m, ls[Temp]) /\ Len(Text(m, ls[Temp])) = Len(ls[Temp])
              /\ Len(ls[Temp]) \in Nat
            BY <1>2, CopySeen, LinesType
        <3>2. m.elements + Len(ls[Temp]) = Cardinality(DOMAIN m.box)
            BY <3>1 DEF Good
        <3>3. m.elements \in Int
            BY DEF Holds, IsMemory
        <3>4. r.elements + 0 = Cardinality(DOMAIN r.box)
            BY <3>1, <3>2, <3>3, <2>1, <2>3, <2>5
        <3> QED  BY <3>4, <2>10, <2>12 DEF Good, Held
    <2> QED  BY <2>11, <2>12, <2>13
<1> QED  BY <1>1, <1>2

-----------------------------------------------------------------------------
\* A temporary queue that is empty is there.
WithTemp(m) == [m EXCEPT !.buf = Put(@, Temp, EmptyBuffer)]

\* An empty temporary buffer changes nothing that is seen.
LEMMA TempAdded ==
    ASSUME NEW m, Good(m), Temp \notin DOMAIN m.buf, NEW r, r = WithTemp(m)
    PROVE  /\ Good(r) /\ StackIn(r) = StackIn(m) /\ CopyIn(r) = <<>>
           /\ Temp \in DOMAIN r.buf /\ r.top = m.top /\ r.box = m.box /\ r.elements = m.elements
<1> PICK d, ls : Holds(m, d, ls)
    BY DEF Good, Held
<1> DEFINE X == Put(m.buf, Temp, EmptyBuffer)
           o == Put(ls, Temp, <<>>)
<1>1. /\ DOMAIN X = DOMAIN m.buf \cup {Temp} /\ X = [b \in DOMAIN X |-> X[b]]
      /\ X[Temp] = EmptyBuffer /\ \A b \in DOMAIN m.buf : X[b] = m.buf[b]
    BY DEF Put
<1>2. r = [m EXCEPT !.buf = X]
    BY DEF WithTemp, Holds, IsMemory
<1> HIDE DEF X
<1>3. r = [box |-> m.box, buf |-> X, top |-> m.top, bottom |-> m.bottom,
           buffers |-> m.buffers, elements |-> m.elements]
    BY <1>2 DEF Holds, IsMemory
<1>4. EmptyBuffer \in BufferCell
    BY DEF EmptyBuffer, BufferCell
<1>5. IsMemory(r)
    BY <1>1, <1>3, <1>4 DEF Holds, IsMemory
<1>6. ToSet(d) = DOMAIN m.buf \ {Temp} /\ List(m.buf, d, m.top, m.bottom) /\ m.buffers = Len(d)
    BY DEF Holds, Piled
<1>7. Piled(r, d)
    <2>1. List(X, d, m.top, m.bottom)
        BY <1>1, <1>6, ListSame
    <2> QED  BY <2>1, <1>1, <1>3, <1>6 DEF Piled, EmptyBuffer
<1>8. /\ Filled(r, o) /\ \A s : Text(r, s) = Text(m, s)
      /\ o[Temp] = <<>> /\ \A b \in DOMAIN m.buf : o[b] = ls[b]
    <2>1. /\ r.box = m.box /\ DOMAIN r.buf = DOMAIN m.buf \cup {Temp}
          /\ \A b \in DOMAIN m.buf : /\ r.buf[b].top = m.buf[b].top
                                     /\ r.buf[b].bottom = m.buf[b].bottom
                                     /\ r.buf[b].elements = m.buf[b].elements
          /\ r.buf[Temp].top = Null /\ r.buf[Temp].bottom = Null /\ r.buf[Temp].elements = 0
        BY <1>1, <1>3 DEF EmptyBuffer
    <2> QED  BY <2>1, FilledMore
<1> HIDE DEF o
<1>9. Holds(r, d, o)
    BY <1>5, <1>7, <1>8 DEF Holds
<1>10. StackIn(r) = StackIn(m)
    <2>1. \A b \in ToSet(d) : Text(r, o[b]) = Text(m, ls[b])
        BY <1>6, <1>8
    <2> QED  BY <2>1, <1>9, SamePile
<1>11. Temp \in DOMAIN r.buf
    BY <1>1, <1>3
<1>12. CopyIn(r) = <<>>
    <2>1. CopyIn(r) = Text(r, o[Temp])
        BY <1>9, <1>11, CopySeen
    <2> QED  BY <2>1, <1>8 DEF Text
<1>13. Good(r)
    <2>1. CopyIn(m) = <<>>
        BY DEF CopyIn
    <2> QED  BY <2>1, <1>3, <1>9, <1>12 DEF Good, Held
<1> QED  BY <1>3, <1>10, <1>11, <1>12, <1>13

-----------------------------------------------------------------------------
\* A queue both read and written: the lines of its top buffer become the copy.
LEMMA CellEmptied ==
    ASSUME NEW e \in BufferCell, NEW c, c = [e EXCEPT !.top = Null, !.bottom = Null, !.elements = 0]
    PROVE  /\ c \in BufferCell /\ c.top = Null /\ c.bottom = Null /\ c.elements = 0
           /\ c.lower = e.lower /\ c.higher = e.higher
<1>1. c = [higher |-> e.higher, lower |-> e.lower, top |-> Null, bottom |-> Null, elements |-> 0]
    BY DEF BufferCell
<1>2. e.higher \in Buf \cup {Null} /\ e.lower \in Buf \cup {Null}
    BY DEF BufferCell
<1> QED  BY <1>1, <1>2 DEF BufferCell

\* TakeTop: the copy has the lines of the top buffer, which is empty now.
LEMMA TopTaken ==
    ASSUME NEW m, Good(m), Temp \notin DOMAIN m.buf, NEW r, r = TakeTop(m)
    PROVE  /\ Good(r) /\ StackIn(r) = OnTop(StackIn(m), <<>>) /\ CopyIn(r) = Last(StackIn(m))
           /\ Temp \in DOMAIN r.buf
<1>1. CASE m.top = Null
    <2>1. r = WithTemp(m)
        BY <1>1 DEF TakeTop, WithTemp
    <2>2. /\ Good(r) /\ StackIn(r) = StackIn(m) /\ CopyIn(r) = <<>> /\ Temp \in DOMAIN r.buf
        BY <2>1, TempAdded
    <2>3. StackIn(m) = << <<>> >>
        BY <1>1, HeldSeen DEF Good
    <2>4. Last(<< <<>> >>) = <<>> /\ Front(<< <<>> >>) = <<>> /\ Append(<<>>, <<>>) = << <<>> >>
        BY DEF Last, Front
    <2> QED  BY <2>2, <2>3, <2>4 DEF OnTop
<1>2. CASE m.top # Null
    <2> PICK d, ls : Holds(m, d, ls)
        BY DEF Good, Held
    <2> DEFINE t == m.top
               n == Len(ls[t])
               lines == [m.buf[t] EXCEPT !.higher = Null, !.lower = Null]
               bare == [m.buf[t] EXCEPT !.top = Null, !.bottom = Null, !.elements = 0]
               U == [m.buf EXCEPT ![t] = bare]
               X == Put(U, Temp, lines)
               o == [b \in DOMAIN m.buf \cup {Temp} |->
                        IF b = Temp THEN ls[t] ELSE IF b = t THEN <<>> ELSE ls[b]]
    <2>1. /\ t \in DOMAIN m.buf /\ t # Temp /\ m.buf[t].elements = n /\ n \in Nat
          /\ m.elements \in Int
          /\ Last(StackIn(m)) = Text(m, ls[t]) /\ Len(Text(m, ls[t])) = n
        BY <1>2, BuffersType, FilledAt, TopSeen, LinesType DEF Holds, IsMemory
    <2>2. /\ DOMAIN U = DOMAIN m.buf
          /\ U[t].top = Null /\ U[t].bottom = Null /\ U[t].elements = 0
          /\ \A b \in DOMAIN m.buf : U[b].lower = m.buf[b].lower /\ U[b].higher = m.buf[b].higher
          /\ \A b \in DOMAIN m.buf \ {t} : U[b] = m.buf[b]
          /\ \A b \in DOMAIN m.buf : U[b] \in BufferCell
        <3>1. /\ bare \in BufferCell /\ bare.top = Null /\ bare.bottom = Null /\ bare.elements = 0
              /\ bare.lower = m.buf[t].lower /\ bare.higher = m.buf[t].higher
            <4>1. m.buf[t] \in BufferCell
                BY <2>1 DEF Holds, IsMemory
            <4> QED  BY <4>1, CellEmptied
        <3> HIDE DEF bare
        <3> QED  BY <2>1, <3>1 DEF Holds, IsMemory
    <2>3. U = [m.buf EXCEPT ![t].top = Null, ![t].bottom = Null, ![t].elements = 0]
        BY <2>1 DEF Holds, IsMemory, BufferCell
    <2>4. /\ lines \in BufferCell /\ lines.lower = Null /\ lines.higher = Null
          /\ lines.top = m.buf[t].top /\ lines.bottom = m.buf[t].bottom
          /\ lines.elements = m.buf[t].elements
        BY <2>1 DEF Holds, IsMemory, BufferCell
    <2>5. Same(m, Count(m, -n)) /\ Count(m, -n).elements = m.elements - n
        <3>1. -n \in Int /\ IsMemory(m)
            BY <2>1 DEF Holds
        <3>2. Same(m, Count(m, -n)) /\ Count(m, -n).elements = m.elements + (-n)
            BY <3>1, CountIs
        <3> QED  BY <3>2, <2>1
    <2>6. r = [Count(m, -n) EXCEPT !.buf = X]
        <3>1. r = [Count(m, -n) EXCEPT
                     !.buf = Put([Count(m, -n).buf EXCEPT ![t].top = Null, ![t].bottom = Null,
                                                          ![t].elements = 0], Temp, lines)]
            <4>1. Count(m, -n) = [Count(m, -n) EXCEPT !.box = Count(m, -n).box]
                BY <2>5 DEF Same, IsMemory
            <4> QED  BY <1>2, <2>1, <2>5 DEF TakeTop, Same, IsMemory
        <3>2. Count(m, -n).buf = m.buf
            BY <2>5 DEF Same
        <3> HIDE DEF U
        <3> QED  BY <3>1, <3>2, <2>3
    <2> HIDE DEF U, lines, bare
    <2>7. /\ DOMAIN X = DOMAIN m.buf \cup {Temp} /\ X = [b \in DOMAIN X |-> X[b]]
          /\ X[Temp] = lines /\ \A b \in DOMAIN m.buf : X[b] = U[b]
        BY <2>2 DEF Put
    <2> HIDE DEF X
    <2>8. r = [box |-> m.box, buf |-> X, top |-> m.top, bottom |-> m.bottom,
               buffers |-> m.buffers, elements |-> m.elements - n]
        BY <2>5, <2>6 DEF Same, IsMemory
    <2>9. IsMemory(r)
        <3>1. m.elements - n \in Int
            BY <2>1
        <3> QED  BY <3>1, <2>2, <2>4, <2>7, <2>8 DEF Holds, IsMemory
    <2>10. /\ ToSet(d) = DOMAIN m.buf \ {Temp} /\ List(m.buf, d, m.top, m.bottom)
          /\ m.buffers = Len(d)
        BY DEF Holds, Piled
    <2>11. Piled(r, d)
        <3>1. List(X, d, m.top, m.bottom)
            <4>1. \A x \in ToSet(d) : X[x].lower = m.buf[x].lower /\ X[x].higher = m.buf[x].higher
                BY <2>2, <2>7, <2>10
            <4>2. ToSet(d) \subseteq DOMAIN X
                BY <2>7, <2>10
            <4> QED  BY <4>1, <4>2, <2>10, ListSame
        <3> QED  BY <3>1, <2>4, <2>7, <2>8, <2>10 DEF Piled
    <2>12. /\ DOMAIN o = DOMAIN m.buf \cup {Temp} /\ o[Temp] = ls[t] /\ o[t] = <<>>
           /\ \A b \in DOMAIN m.buf \ {t} : o[b] = ls[b]
        BY <2>1
    <2> HIDE DEF o
    <2>13. Filled(r, o)
        <3>1. ASSUME NEW b \in DOMAIN X
              PROVE  List(m.box, o[b], X[b].top, X[b].bottom) /\ X[b].elements = Len(o[b])
            <4>1. CASE b = Temp
                <5>1. List(m.box, ls[t], m.buf[t].top, m.buf[t].bottom)
                    BY <2>1, FilledAt
                <5> QED  BY <4>1, <5>1, <2>1, <2>4, <2>7, <2>12
            <4>2. CASE b = t
                BY <4>2, <2>1, <2>2, <2>7, <2>12, ListEmpty
            <4>3. CASE b \in DOMAIN m.buf \ {t}
                <5>1. List(m.box, ls[b], m.buf[b].top, m.buf[b].bottom) /\ m.buf[b].elements = Len(ls[b])
                    BY <4>3, FilledAt
                <5> QED  BY <4>3, <5>1, <2>2, <2>7, <2>12
            <4> QED  BY <4>1, <4>2, <4>3, <2>7
        <3> DEFINE was(b) == IF b = Temp THEN t ELSE b
        <3>2. ASSUME NEW b \in DOMAIN X, NEW x \in ToSet(o[b])
              PROVE  b # t /\ was(b) \in DOMAIN m.buf /\ x \in ToSet(ls[was(b)])
            BY <2>1, <2>7, <2>12, EmptyList
        <3>3. ASSUME NEW b \in DOMAIN X, NEW c \in DOMAIN X, NEW x \in ToSet(o[b]), x \in ToSet(o[c])
              PROVE  b = c
            <4>1. was(b) = was(c)
                <5>1. /\ was(b) \in DOMAIN m.buf /\ x \in ToSet(ls[was(b)])
                      /\ was(c) \in DOMAIN m.buf /\ x \in ToSet(ls[was(c)])
                    BY <3>2, <3>3
                <5> HIDE DEF was
                <5> QED  BY <5>1 DEF Holds, Filled
            <4>2. b # t /\ c # t
                BY <3>2, <3>3
            <4> QED  BY <4>1, <4>2
        <3>4. ASSUME NEW x \in DOMAIN m.box PROVE \E b \in DOMAIN X : x \in ToSet(o[b])
            <4>1. PICK b \in DOMAIN m.buf : x \in ToSet(ls[b])
                BY DEF Holds, Filled
            <4>2. CASE b = t
                BY <4>1, <4>2, <2>7, <2>12
            <4>3. CASE b # t
                BY <4>1, <4>3, <2>7, <2>12
            <4> QED  BY <4>2, <4>3
        <3> QED  BY <3>1, <3>3, <3>4, <2>7, <2>8, <2>12 DEF Filled
    <2>14. Holds(r, d, o)
        BY <2>9, <2>11, <2>13 DEF Holds
    <2>15. \A s : Text(r, s) = Text(m, s)
        BY <2>8 DEF Text
    <2>16. StackIn(r) = OnTop(StackIn(m), <<>>)
        <3>1. \A b \in DOMAIN m.buf \ {m.top, Temp} : Text(r, o[b]) = Text(m, ls[b])
            BY <2>12, <2>15
        <3>2. StackIn(r) = Append(Front(StackIn(m)), Text(r, o[m.top]))
            BY <1>2, <2>14, <3>1, TopReplaced
        <3>3. Text(r, o[m.top]) = <<>>
            BY <2>12 DEF Text
        <3> QED  BY <3>2, <3>3 DEF OnTop
    <2>17. Temp \in DOMAIN r.buf
        BY <2>7, <2>8
    <2>18. CopyIn(r) = Text(m, ls[t])
        BY <2>12, <2>14, <2>15, <2>17, CopySeen
    <2>19. Good(r)
        <3>1. CopyIn(m) = <<>>
            BY DEF CopyIn
        <3>2. m.elements + 0 = Cardinality(DOMAIN m.box)
            BY <3>1 DEF Good
        <3>3. r.elements = m.elements - n /\ r.box = m.box
            BY <2>8
        <3>4. r.elements + n = Cardinality(DOMAIN r.box)
            BY <3>2, <3>3, <2>1
        <3> QED  BY <3>4, <2>1, <2>14, <2>18 DEF Good, Held
    <2> QED  BY <2>1, <2>16, <2>17, <2>18, <2>19
<1> QED  BY <1>1, <1>2

-----------------------------------------------------------------------------
\* The function FillTemp is defined by exists.
Fills(f, w, lines, n) ==
    f = [i \in 0 .. n |-> IF i = 0 THEN w ELSE FifoLine(f[i - 1], Temp, lines[i])]

\* Such a function exists.
LEMMA FillingSteps ==
    ASSUME NEW w, NEW lines, NEW n \in Nat
    PROVE  \E f : Fills(f, w, lines, n)
<1> USE DEF Fills
<1> DEFINE Made(k) == \E f :
               f = [i \in 0 .. k |-> IF i = 0 THEN w ELSE FifoLine(f[i - 1], Temp, lines[i])]
           T == {k \in Nat : ~Made(k)}
<1>1. SUFFICES ASSUME T # {}  PROVE FALSE
    OBVIOUS
<1>2. PICK k \in T : \A j \in T : k <= j
    BY <1>1, LeastNat
<1>3. CASE k = 0
    <2> DEFINE f == [i \in 0 .. 0 |-> w]
    <2>1. f = [i \in 0 .. 0 |-> IF i = 0 THEN w ELSE FifoLine(f[i - 1], Temp, lines[i])]
        OBVIOUS
    <2> QED  BY <1>2, <1>3, <2>1
<1>4. CASE k > 0
    <2>1. k \in Nat
        BY <1>2
    <2>2. k - 1 \in Nat /\ k - 1 \notin T
        <3>1. k - 1 \in Nat /\ ~(k <= k - 1)
            BY <2>1, <1>4
        <3> HIDE DEF T
        <3> QED  BY <3>1, <1>2
    <2>3. PICK f : f = [i \in 0 .. k - 1 |-> IF i = 0 THEN w ELSE FifoLine(f[i - 1], Temp, lines[i])]
        BY <2>2
    <2> DEFINE h == [i \in 0 .. k |-> IF i < k THEN f[i] ELSE FifoLine(f[k - 1], Temp, lines[k])]
    <2>4. ASSUME NEW i \in 0 .. k
          PROVE  h[i] = IF i = 0 THEN w ELSE FifoLine(h[i - 1], Temp, lines[i])
        <3> HIDE DEF T
        <3>1. CASE i = k
            <4>1. k - 1 \in 0 .. k /\ k - 1 < k
                BY <2>1, <2>2
            <4> QED  BY <3>1, <4>1, <1>4
        <3>2. CASE i # k
            <4>1. i \in 0 .. k - 1 /\ i < k
                BY <3>2, <2>1, <2>2
            <4>2. h[i] = f[i] /\ (i # 0 => i - 1 \in 0 .. k /\ i - 1 < k)
                BY <4>1, <2>1, <2>2
            <4>3. i # 0 => h[i - 1] = f[i - 1]
                BY <4>2
            <4>4. f[i] = IF i = 0 THEN w ELSE FifoLine(f[i - 1], Temp, lines[i])
                BY <2>3, <4>1
            <4> HIDE DEF h
            <4> QED  BY <4>2, <4>3, <4>4
        <3> QED  BY <3>1, <3>2
    <2>5. h = [i \in 0 .. k |-> h[i]]
        OBVIOUS
    <2> HIDE DEF h
    <2>6. h = [i \in 0 .. k |-> IF i = 0 THEN w ELSE FifoLine(h[i - 1], Temp, lines[i])]
        BY <2>4, <2>5
    <2> QED  BY <1>2, <2>6
<1> QED  BY <1>2, <1>3, <1>4

\* So many lines have been copied.
Filling(w, s, r) ==
    /\ Held(r) /\ Temp \in DOMAIN r.buf /\ StackIn(r) = StackIn(w) /\ CopyIn(r) = s
    /\ r.elements = w.elements
    /\ Cardinality(DOMAIN r.box) = Cardinality(DOMAIN w.box) + Len(s)

\* One more line is copied.
LEMMA FillingMore ==
    ASSUME NEW w, Held(w), NEW s \in Seq(Line), NEW q, Filling(w, s, q), NEW l \in Line,
           Cardinality(DOMAIN w.box) + Len(s) < Cardinality(Box), NEW r, r = FifoLine(q, Temp, l)
    PROVE  Filling(w, Append(s, l), r)
<1>1. Cardinality(DOMAIN w.box) \in Nat /\ Len(s) \in Nat /\ Len(Append(s, l)) = Len(s) + 1
    BY HeldSeen
<1>2. DOMAIN q.box # Box
    BY <1>1 DEF Filling
<1>3. Held(q) /\ Temp \in DOMAIN q.buf
    BY DEF Filling
<1>4. Moves(q, r, 1) /\ StackIn(r) = StackIn(q) /\ CopyIn(r) = Append(CopyIn(q), l)
    BY <1>2, <1>3, FifoTemp
<1> QED  BY <1>1, <1>4 DEF Moves, Filling

\* Input that is copied since the command writes to the same place.
LEMMA TempFilled ==
    ASSUME NEW m, Good(m), Temp \notin DOMAIN m.buf, NEW lines \in Seq(Line),
           Cardinality(DOMAIN m.box) + Len(lines) <= Cardinality(Box),
           NEW r, r = FillTemp(m, lines)
    PROVE  /\ Good(r) /\ StackIn(r) = StackIn(m) /\ CopyIn(r) = lines
           /\ Temp \in DOMAIN r.buf
<1> DEFINE w == WithTemp(m)
           n == Len(lines)
           after == CHOOSE f :
               f = [i \in 0 .. n |-> IF i = 0 THEN w ELSE FifoLine(f[i - 1], Temp, lines[i])]
           S(i) == SubSeq(lines, 1, i)
           T == {i \in 0 .. n : ~Filling(w, S(i), after[i])}
<1>1. n \in Nat /\ DOMAIN lines = 1 .. n /\ r = after[n]
    BY DEF FillTemp, WithTemp
<1>2. /\ Good(w) /\ StackIn(w) = StackIn(m) /\ CopyIn(w) = <<>>
      /\ Temp \in DOMAIN w.buf /\ w.box = m.box
    BY TempAdded
<1> HIDE DEF w, n, after
<1>3. after = [i \in 0 .. n |-> IF i = 0 THEN w ELSE FifoLine(after[i - 1], Temp, lines[i])]
    <2>1. n \in Nat
        BY <1>1
    <2>2. \E f : Fills(f, w, lines, n)
        BY <2>1, FillingSteps
    <2> QED  BY <2>2 DEF after, Fills
<1>4. Held(w) /\ Cardinality(DOMAIN w.box) \in Nat /\ Cardinality(Box) \in Nat
    BY <1>2, HeldSeen DEF Good
<1>5. T = {}
    <2>1. SUFFICES ASSUME T # {} PROVE FALSE
        OBVIOUS
    <2>2. PICK i \in T : \A j \in T : i <= j
        <3>1. T \subseteq Nat
            BY <1>1
        <3> QED  BY <2>1, <3>1, LeastNat
    <2>3. i \in Nat /\ i \in 0 .. n /\ ~Filling(w, S(i), after[i])
        BY <2>2
    <2>4. CASE i = 0
        <3>1. S(0) = <<>> /\ after[0] = w /\ Len(<<>>) = 0
            BY <1>1, <1>3
        <3>2. Filling(w, <<>>, w)
            BY <1>2, <1>4, <3>1 DEF Filling
        <3> QED  BY <3>1, <3>2, <2>3, <2>4
    <2>5. CASE i # 0
        <3>1. i - 1 \in 0 .. n /\ ~(i <= i - 1) /\ i \in 1 .. n
            BY <1>1, <2>3, <2>5
        <3>2. i - 1 \notin T
            <4> HIDE DEF T
            <4> QED  BY <3>1, <2>2
        <3>3. Filling(w, S(i - 1), after[i - 1])
            BY <3>1, <3>2
        <3>4. after[i] = FifoLine(after[i - 1], Temp, lines[i])
            BY <1>3, <2>3, <2>5
        <3>5. lines[i] \in Line
            BY <1>1, <3>1
        <3>6. S(i - 1) \in Seq(Line) /\ Len(S(i - 1)) = i - 1 /\ S(i) = Append(S(i - 1), lines[i])
            BY <1>1, <3>1 DEF n
        <3>7. Cardinality(DOMAIN w.box) + Len(S(i - 1)) < Cardinality(Box)
            BY <1>1, <1>2, <1>4, <3>1, <3>6 DEF n
        <3> HIDE DEF S, T
        <3> QED  BY <2>3, <3>3, <3>4, <3>5, <3>6, <3>7, <1>4, FillingMore
    <2> QED  BY <2>4, <2>5
<1>6. Filling(w, S(n), after[n])
    <2>1. n \in 0 .. n
        BY <1>1
    <2> QED  BY <2>1, <1>5
<1>7. S(n) = lines
    BY DEF n
<1>8. Filling(w, lines, r)
    BY <1>1, <1>6, <1>7
<1>9. Good(r)
    <2>1. w.elements + 0 = Cardinality(DOMAIN w.box) /\ w.elements \in Int
        BY <1>2, <1>4, HeldSeen DEF Good
    <2>2. /\ Held(r) /\ CopyIn(r) = lines /\ r.elements = w.elements
          /\ Cardinality(DOMAIN r.box) = Cardinality(DOMAIN w.box) + n
        BY <1>8 DEF Filling, n
    <2> QED  BY <2>1, <2>2, <1>1 DEF Good, n
<1> QED  BY <1>2, <1>8, <1>9 DEF Filling

-----------------------------------------------------------------------------
(* The counter of lines counts what the program sees. *)

\* Without buffers the only lines are those of a command's copy.
LEMMA BareCount ==
    ASSUME NEW m, NEW ls, Holds(m, <<>>, ls)
    PROVE  Cardinality(DOMAIN m.box) = Len(CopyIn(m))
<1>1. \A b \in DOMAIN m.buf : b = Temp
    BY EmptyList DEF Holds, Piled
<1>2. CASE Temp \in DOMAIN m.buf
    <2>1. DOMAIN m.box = ToSet(ls[Temp])
        BY <1>1, <1>2, LinesType DEF Holds, Filled
    <2>2. Cardinality(ToSet(ls[Temp])) = Len(ls[Temp])
        BY <1>2, LinesType, ListSize
    <2>3. CopyIn(m) = Text(m, ls[Temp])
        BY <1>2, CopySeen
    <2>4. Len(Text(m, ls[Temp])) = Len(ls[Temp])
        BY <1>2, LinesType
    <2> QED  BY <2>1, <2>2, <2>3, <2>4
<1>3. CASE Temp \notin DOMAIN m.buf
    <2>1. DOMAIN m.box = {}
        BY <1>1, <1>3 DEF Holds, Filled
    <2>2. CopyIn(m) = <<>> /\ Len(<<>>) = 0
        BY <1>3 DEF CopyIn
    <2> QED  BY <2>1, <2>2, FS_EmptySet
<1> QED  BY <1>2, <1>3

\* Two sets of lines with nothing in common.
LEMMA DisjointSize ==
    ASSUME NEW S, IsFiniteSet(S), NEW T, IsFiniteSet(T), S \cap T = {}
    PROVE  /\ IsFiniteSet(S \cup T)
           /\ Cardinality(S \cup T) = Cardinality(S) + Cardinality(T)
<1>1. /\ Cardinality(S \cup T) = Cardinality(S) + Cardinality(T) - Cardinality(S \cap T)
      /\ IsFiniteSet(S \cup T)
    BY FS_Union
<1>2. Cardinality(S \cap T) = 0 /\ Cardinality(S) \in Nat /\ Cardinality(T) \in Nat
    BY FS_EmptySet, FS_CardinalityType
<1> QED  BY <1>1, <1>2

\* The lines in the i lowest buffers, and in the whole queue.
LowLines(m, d, ls, i) ==
    {x \in DOMAIN m.box : \E j \in 1 .. i : x \in ToSet(ls[d[Len(d) - j + 1]])}

\* The lines of the queue are as many as the program sees in it.
LEMMA LowCount ==
    ASSUME NEW m, NEW d, NEW ls, Holds(m, d, ls), d # <<>>
    PROVE  /\ IsFiniteSet(LowLines(m, d, ls, Len(d)))
           /\ Cardinality(LowLines(m, d, ls, Len(d))) = Len(FlattenSeq(StackIn(m)))
<1> DEFINE L == Len(d)
           p == StackIn(m)
           U(i) == LowLines(m, d, ls, i)
           S(i) == SubSeq(p, 1, i)
           Counts(i) == IsFiniteSet(U(i)) /\ Cardinality(U(i)) = Len(FlattenSeq(S(i)))
           T == {i \in 0 .. L : ~Counts(i)}
<1>1. /\ L \in Nat /\ DOMAIN d = 1 .. L /\ IsInjective(d)
      /\ \A i \in 1 .. L : L - i + 1 \in 1 .. L /\ d[i] \in DOMAIN m.buf
    BY BuffersType
<1>2. /\ p \in Seq(Seq(Line)) /\ Len(p) = L
      /\ \A i \in 1 .. L : p[i] = Text(m, ls[d[L - i + 1]])
    BY PileType
<1> HIDE DEF L, p, U, S
<1>3. T = {}
    <2>1. SUFFICES ASSUME T # {} PROVE FALSE
        OBVIOUS
    <2>2. PICK i \in T : \A j \in T : i <= j
        <3>1. T \subseteq Nat
            BY <1>1
        <3> HIDE DEF T
        <3> QED  BY <2>1, <3>1, LeastNat
    <2>3. i \in Nat /\ i \in 0 .. L /\ ~Counts(i)
        BY <2>2
    <2>4. CASE i = 0
        <3>1. U(0) = {}
            BY DEF U, LowLines
        <3>2. S(0) = <<>>
            BY <1>2 DEF S
        <3>3. FlattenSeq(<<>>) = <<>> /\ Len(<<>>) = 0
            BY DEF FlattenSeq
        <3>4. IsFiniteSet({}) /\ Cardinality({}) = 0
            BY FS_EmptySet
        <3> QED  BY <3>1, <3>2, <3>3, <3>4, <2>3, <2>4
    <2>5. CASE i # 0
        <3>1. i - 1 \in 0 .. L /\ ~(i <= i - 1) /\ i \in 1 .. L
            BY <1>1, <2>3, <2>5
        <3>2. i - 1 \notin T
            <4> HIDE DEF T
            <4> QED  BY <3>1, <2>2
        <3>3. Counts(i - 1)
            BY <3>1, <3>2
        <3> DEFINE b == d[L - i + 1]
                   X == ToSet(ls[b])
        <3>4. /\ b \in DOMAIN m.buf /\ X \subseteq DOMAIN m.box /\ p[i] = Text(m, ls[b])
              /\ p[i] \in Seq(Line) /\ Len(p[i]) = Len(ls[b]) /\ Len(ls[b]) \in Nat
              /\ ls[b] \in Seq(Box) /\ IsInjective(ls[b])
            <4>1. b \in DOMAIN m.buf
                BY <3>1, <1>1
            <4> HIDE DEF b
            <4>2. p[i] = Text(m, ls[b])
                BY <3>1, <1>2 DEF b
            <4> QED  BY <4>1, <4>2, LinesType
        <3>5. IsFiniteSet(X) /\ Cardinality(X) = Len(ls[b])
            BY <3>4, ListSize
        <3>6. U(i) = U(i - 1) \cup X
            <4>1. \A j \in Int : j \in 1 .. i <=> j \in 1 .. i - 1 \/ j = i
                BY <3>1
            <4>2. \A x : x \in U(i) <=>
                     x \in DOMAIN m.box /\ \E j \in 1 .. i : x \in ToSet(ls[d[L - j + 1]])
                BY DEF U, LowLines, L
            <4>3. \A x : x \in U(i - 1) <=>
                     x \in DOMAIN m.box /\ \E j \in 1 .. i - 1 : x \in ToSet(ls[d[L - j + 1]])
                BY DEF U, LowLines, L
            <4> QED  BY <4>1, <4>2, <4>3, <3>4, <3>1
        <3>7. U(i - 1) \cap X = {}
            <4>1. ASSUME NEW j \in 1 .. i - 1, NEW x \in X, x \in ToSet(ls[d[L - j + 1]]) PROVE FALSE
                <5>1. L - j + 1 \in 1 .. L /\ L - i + 1 \in 1 .. L /\ L - j + 1 # L - i + 1
                    BY <3>1, <1>1
                <5>2. d[L - j + 1] # b /\ d[L - j + 1] \in DOMAIN m.buf
                    BY <5>1, <1>1 DEF IsInjective
                <5> QED  BY <4>1, <5>2, <3>4 DEF Holds, Filled
            <4> QED  BY <4>1 DEF U, LowLines, L
        <3>8. IsFiniteSet(U(i)) /\ Cardinality(U(i)) = Cardinality(U(i - 1)) + Len(ls[b])
            <4>1. IsFiniteSet(U(i - 1))
                BY <3>3
            <4> HIDE DEF X, b
            <4> QED  BY <4>1, <3>5, <3>6, <3>7, DisjointSize
        <3>9. S(i - 1) \in Seq(Seq(Line)) /\ S(i) = Append(S(i - 1), p[i])
            BY <1>2, <3>1 DEF S
        <3>10. FlattenSeq(S(i)) = FlattenSeq(S(i - 1)) \o p[i] /\ FlattenSeq(S(i - 1)) \in Seq(Line)
            BY <3>4, <3>9, FlattenAppend
        <3>11. Len(FlattenSeq(S(i))) = Len(FlattenSeq(S(i - 1))) + Len(ls[b])
            <4> DEFINE g == FlattenSeq(S(i - 1))
                       x == p[i]
            <4>1. g \in Seq(Line) /\ x \in Seq(Line)
                BY <3>4, <3>10
            <4> HIDE DEF g, x
            <4>2. Len(g \o x) = Len(g) + Len(x)
                BY <4>1
            <4> QED  BY <4>2, <3>4, <3>10 DEF g, x
        <3> QED  BY <2>3, <3>3, <3>8, <3>11
    <2> QED  BY <2>4, <2>5
<1>4. Counts(L)
    <2>1. L \in 0 .. L
        BY <1>1
    <2> QED  BY <2>1, <1>3
<1>5. S(L) = p
    BY <1>2 DEF S
<1> QED  BY <1>4, <1>5 DEF U, p, L

\* What the program sees is as many lines as there are.
LEMMA LinesCounted ==
    ASSUME NEW m, Good(m)
    PROVE  /\ Len(FlattenSeq(StackIn(m))) + Len(CopyIn(m)) = Cardinality(DOMAIN m.box)
           /\ m.elements = Len(FlattenSeq(StackIn(m))) /\ m.elements \in Nat
<1> PICK d, ls : Holds(m, d, ls)
    BY DEF Good, Held
<1> DEFINE p == FlattenSeq(StackIn(m))
<1>1. Len(p) + Len(CopyIn(m)) = Cardinality(DOMAIN m.box) /\ Len(p) \in Nat
    <2>1. CASE d = <<>>
        <3>1. StackIn(m) = Append(<<>>, <<>>)
            BY <2>1, Shown DEF Pile
        <3>2. FlattenSeq(<<>>) = <<>>
            BY DEF FlattenSeq
        <3>3. p = <<>> \o <<>>
            <4>1. <<>> \in Seq(Seq(Line)) /\ <<>> \in Seq(Line)
                OBVIOUS
            <4> QED  BY <3>1, <3>2, <4>1, FlattenAppend
        <3>4. Len(p) = 0
            BY <3>3
        <3>5. Len(CopyIn(m)) \in Nat /\ Cardinality(DOMAIN m.box) = Len(CopyIn(m))
            <4>1. Len(CopyIn(m)) \in Nat
                BY HeldSeen DEF Good
            <4> QED  BY <2>1, <4>1, BareCount
        <3> QED  BY <3>4, <3>5
    <2>2. CASE d # <<>>
        <3> DEFINE U == LowLines(m, d, ls, Len(d))
                   X == IF Temp \in DOMAIN m.buf THEN ToSet(ls[Temp]) ELSE {}
        <3>1. IsFiniteSet(U) /\ Cardinality(U) = Len(p)
            BY <2>2, LowCount
        <3>2. IsFiniteSet(X) /\ Cardinality(X) = Len(CopyIn(m))
            <4>1. CASE Temp \in DOMAIN m.buf
                <5>1. /\ CopyIn(m) = Text(m, ls[Temp]) /\ Len(Text(m, ls[Temp])) = Len(ls[Temp])
                      /\ ls[Temp] \in Seq(Box) /\ IsInjective(ls[Temp])
                    BY <4>1, CopySeen, LinesType
                <5> QED  BY <4>1, <5>1, ListSize
            <4>2. CASE Temp \notin DOMAIN m.buf
                <5>1. CopyIn(m) = <<>> /\ Len(<<>>) = 0
                    BY <4>2 DEF CopyIn
                <5> QED  BY <4>2, <5>1, FS_EmptySet
            <4> QED  BY <4>1, <4>2
        <3>3. /\ ToSet(d) = DOMAIN m.buf \ {Temp} /\ Len(d) \in Nat /\ DOMAIN d = 1 .. Len(d)
            BY BuffersType DEF Holds, Piled
        <3>4. \A x : x \in U <=>
                 x \in DOMAIN m.box /\ \E b \in DOMAIN m.buf \ {Temp} : x \in ToSet(ls[b])
            <4>1. ASSUME NEW x \in DOMAIN m.box, NEW b \in DOMAIN m.buf \ {Temp}, x \in ToSet(ls[b])
                  PROVE  x \in U
                <5>1. PICK i \in 1 .. Len(d) : b = d[i]
                    BY <3>3 DEF ToSet
                <5>2. Len(d) - i + 1 \in 1 .. Len(d) /\ Len(d) - (Len(d) - i + 1) + 1 = i
                    BY <3>3
                <5> QED  BY <4>1, <5>1, <5>2 DEF LowLines
            <4>2. ASSUME NEW j \in 1 .. Len(d) PROVE d[Len(d) - j + 1] \in DOMAIN m.buf \ {Temp}
                <5>1. Len(d) - j + 1 \in DOMAIN d
                    BY <3>3
                <5> QED  BY <5>1, <3>3 DEF ToSet
            <4> QED  BY <4>1, <4>2 DEF LowLines
        <3> HIDE DEF U
        <3>5. U \cap X = {}
            <4>1. ASSUME NEW x, x \in U, x \in X PROVE FALSE
                <5>1. PICK b \in DOMAIN m.buf \ {Temp} : x \in ToSet(ls[b])
                    BY <4>1, <3>4
                <5>2. Temp \in DOMAIN m.buf /\ x \in ToSet(ls[Temp])
                    BY <4>1
                <5> QED  BY <5>1, <5>2 DEF Holds, Filled
            <4> QED  BY <4>1
        <3>6. U \cup X = DOMAIN m.box
            <4>1. X \subseteq DOMAIN m.box
                BY LinesType
            <4>2. ASSUME NEW x \in DOMAIN m.box PROVE x \in U \cup X
                <5>1. PICK b \in DOMAIN m.buf : x \in ToSet(ls[b])
                    BY DEF Holds, Filled
                <5> QED  BY <5>1, <3>4
            <4> QED  BY <4>1, <4>2, <3>4
        <3> HIDE DEF X
        <3>7. Cardinality(DOMAIN m.box) = Cardinality(U) + Cardinality(X)
            BY <3>1, <3>2, <3>5, <3>6, DisjointSize
        <3> QED  BY <3>1, <3>2, <3>7, FS_CardinalityType
    <2> QED  BY <2>1, <2>2
<1>2. m.elements \in Int /\ Len(CopyIn(m)) \in Nat
    BY HeldSeen DEF Good
<1>3. m.elements + Len(CopyIn(m)) = Cardinality(DOMAIN m.box)
    BY DEF Good
<1> HIDE DEF p
<1>4. m.elements = Len(p)
    BY <1>1, <1>2, <1>3
<1> QED  BY <1>1, <1>4 DEF p

-----------------------------------------------------------------------------
(* The invariant, and the steps of a program. *)

\* A line comes to the queue, or leaves it, and is counted: after it, before it,
\* or not at all if it is one of the copy.
LEMMA CountedAfter ==
    ASSUME NEW m, Good(m), NEW k \in Int, NEW p, Moves(m, p, k), CopyIn(p) = CopyIn(m),
           NEW r, r = Count(p, k)
    PROVE  /\ Good(r) /\ StackIn(r) = StackIn(p) /\ CopyIn(r) = CopyIn(m)
           /\ DOMAIN r.buf = DOMAIN m.buf
<1>1. Held(p) /\ Held(m)
    BY DEF Moves, Good
<1>2. /\ Held(r) /\ StackIn(r) = StackIn(p) /\ CopyIn(r) = CopyIn(p)
      /\ r.box = p.box /\ r.buf = p.buf /\ r.elements = p.elements + k
    BY <1>1, HeldCount
<1>3. /\ p.elements = m.elements /\ DOMAIN p.buf = DOMAIN m.buf
      /\ Cardinality(DOMAIN p.box) = Cardinality(DOMAIN m.box) + k
      /\ m.elements + Len(CopyIn(m)) = Cardinality(DOMAIN m.box)
    BY DEF Moves, Good
<1>4. m.elements \in Int /\ Len(CopyIn(m)) \in Nat /\ Cardinality(DOMAIN m.box) \in Nat
    BY <1>1, HeldSeen
<1> QED  BY <1>2, <1>3, <1>4 DEF Good

\* A line comes or goes, and was counted before.
LEMMA CountedBefore ==
    ASSUME NEW m, Good(m), NEW k \in Int, NEW c, c = Count(m, k), NEW r, Moves(c, r, k),
           CopyIn(r) = CopyIn(m)
    PROVE  Good(r) /\ DOMAIN r.buf = DOMAIN m.buf
<1>1. Held(m)
    BY DEF Good
<1>2. c.box = m.box /\ c.buf = m.buf /\ c.elements = m.elements + k
    BY <1>1, HeldCount
<1>3. /\ Held(r) /\ r.elements = c.elements /\ DOMAIN r.buf = DOMAIN c.buf
      /\ Cardinality(DOMAIN r.box) = Cardinality(DOMAIN c.box) + k
      /\ m.elements + Len(CopyIn(m)) = Cardinality(DOMAIN m.box)
    BY DEF Moves, Good
<1>4. m.elements \in Int /\ Len(CopyIn(m)) \in Nat /\ Cardinality(DOMAIN m.box) \in Nat
    BY <1>1, HeldSeen
<1> QED  BY <1>2, <1>3, <1>4 DEF Good

\* A line of the copy comes or goes: it is not counted.
LEMMA NotCounted ==
    ASSUME NEW m, Good(m), NEW k \in Int, NEW r, Moves(m, r, k),
           Len(CopyIn(r)) = Len(CopyIn(m)) + k
    PROVE  Good(r) /\ DOMAIN r.buf = DOMAIN m.buf
<1>1. Held(m)
    BY DEF Good
<1>2. /\ Held(r) /\ r.elements = m.elements /\ DOMAIN r.buf = DOMAIN m.buf
      /\ Cardinality(DOMAIN r.box) = Cardinality(DOMAIN m.box) + k
      /\ m.elements + Len(CopyIn(m)) = Cardinality(DOMAIN m.box)
    BY DEF Moves, Good
<1>3. m.elements \in Int /\ Len(CopyIn(m)) \in Nat /\ Cardinality(DOMAIN m.box) \in Nat
    BY <1>1, HeldSeen
<1> QED  BY <1>2, <1>3 DEF Good

-----------------------------------------------------------------------------
Commands == [running: BOOLEAN, reads: {"nothing", "queue", "copy"},
             writes: {"nothing", "lifo", "fifo", "string"}, eof: BOOLEAN]

\* The memory is that of a queue, and there is a temporary queue exactly while a
\* command needs one.
Inv ==
    /\ Good(mem)
    /\ command \in Commands
    /\ ~command.running => command = Rexx!Idle
    /\ Temp \in DOMAIN mem.buf => command.running
    /\ command.reads = "copy" \/ command.writes = "string" => Temp \in DOMAIN mem.buf

\* The operators on sequences are the same in both modules.
LEMMA SameOperators ==
    \A s : Rexx!Front(s) = Front(s) /\ Rexx!Last(s) = Last(s) /\ Rexx!FlattenSeq(s) = FlattenSeq(s)
BY DEF Rexx!Front, Front, Rexx!Last, Last, Rexx!FlattenSeq, FlattenSeq

\* What the invariant says of what a program sees.
LEMMA InvSeen ==
    ASSUME Inv
    PROVE  /\ Good(mem) /\ Held(mem)
           /\ Stack \in Seq(Seq(Line)) /\ Stack # <<>> /\ Copy \in Seq(Line)
           /\ ~command.running => Copy = <<>> /\ Temp \notin DOMAIN mem.buf
           /\ \A n \in Int : Room(n) => Rexx!Room(n)
           /\ mem.elements = Rexx!LinesIn(Stack)
           /\ Room(1) => DOMAIN mem.box # Box
<1>1. Good(mem) /\ Held(mem)
    BY DEF Inv, Good
<1>2. /\ Stack \in Seq(Seq(Line)) /\ Stack # <<>> /\ Copy \in Seq(Line)
      /\ ~command.running => Copy = <<>> /\ Temp \notin DOMAIN mem.buf
    BY <1>1, HeldSeen DEF Inv, Stack, Copy
<1>3. /\ Rexx!LinesIn(Stack) + Len(Copy) = Cardinality(DOMAIN mem.box)
      /\ mem.elements = Rexx!LinesIn(Stack)
    BY <1>1, LinesCounted, SameOperators DEF Rexx!LinesIn, Stack, Copy
<1>4. \A n \in Int : Room(n) => Rexx!Room(n)
    BY <1>3 DEF Room, Rexx!Room
<1>5. Room(1) => DOMAIN mem.box # Box
    BY <1>1, HeldSeen DEF Room
<1> QED  BY <1>1, <1>2, <1>3, <1>4, <1>5

\* PUSH on the links is PUSH on the queue seen.
LEMMA PushStep ==
    ASSUME Inv, NEW l \in Line, Push(l)
    PROVE  Rexx!Push(l) /\ Inv'
<1> DEFINE m == EnsureBuffer(mem)
           p == LifoLine(m, m.top, l)
<1>1. /\ ~command.running /\ command' = command /\ Room(1)
      /\ mem' = Count(p, 1) /\ reply' = Rexx!Said(0, <<>>)
    BY DEF Push, Program
<1> HIDE DEF p
<1>2. /\ Good(m) /\ StackIn(m) = Stack /\ CopyIn(m) = Copy /\ m.top # Null /\ m.box = mem.box
      /\ Temp \in DOMAIN m.buf <=> Temp \in DOMAIN mem.buf
    BY InvSeen, Ensured DEF Stack, Copy
<1> HIDE DEF m
<1>3. DOMAIN m.box # Box /\ Held(m)
    BY <1>1, <1>2, InvSeen DEF Good
<1>4. Moves(m, p, 1) /\ StackIn(p) = OnTop(Stack, <<l>> \o Last(Stack)) /\ CopyIn(p) = Copy
    BY <1>2, <1>3, LifoTop DEF p
<1>5. /\ Good(mem') /\ StackIn(mem') = StackIn(p) /\ CopyIn(mem') = Copy
      /\ DOMAIN mem'.buf = DOMAIN m.buf
    BY <1>1, <1>2, <1>4, CountedAfter
<1>6. Inv'
    BY <1>1, <1>2, <1>5 DEF Inv
<1>7. Stack' = OnTop(Stack, <<l>> \o Last(Stack)) /\ Copy' = Copy
    BY <1>4, <1>5 DEF Stack, Copy
<1>8. Rexx!Push(l)
    <2>1. Rexx!Room(1)
        BY <1>1, InvSeen
    <2>2. Stack' = Rexx!WithTop(<<l>> \o Rexx!Last(Stack))
        BY <1>7, SameOperators DEF Rexx!WithTop, OnTop
    <2>3. Rexx!Program
        BY <1>1, <1>7 DEF Rexx!Program
    <2> QED  BY <1>1, <2>1, <2>2, <2>3 DEF Rexx!Push
<1> QED  BY <1>6, <1>8

\* The zeroth buffer that is made before anything else is not seen.
LEMMA EnsuredSeen ==
    ASSUME Inv, NEW m, m = EnsureBuffer(mem)
    PROVE  /\ Good(m) /\ Held(m) /\ StackIn(m) = Stack /\ CopyIn(m) = Copy /\ m.top # Null
           /\ m.box = mem.box /\ m.buffers = Len(Stack)
           /\ Temp \in DOMAIN m.buf <=> Temp \in DOMAIN mem.buf
<1>1. /\ Good(m) /\ StackIn(m) = Stack /\ CopyIn(m) = Copy /\ m.top # Null
      /\ m.box = mem.box /\ m.buffers = Len(Stack)
      /\ Temp \in DOMAIN m.buf <=> Temp \in DOMAIN mem.buf
    BY InvSeen, Ensured DEF Stack, Copy
<1> QED  BY <1>1 DEF Good

\* A change of the queue by a program.
LEMMA ProgramStep ==
    ASSUME Inv, Program, Good(mem'), Temp \in DOMAIN mem'.buf <=> Temp \in DOMAIN mem.buf
    PROVE  /\ Inv' /\ ~command.running
           /\ CopyIn(mem') = Copy => Copy' = Copy /\ Rexx!Program
           /\ Stack' = StackIn(mem') /\ Copy' = CopyIn(mem')
<1>1. ~command.running /\ command' = command
    BY DEF Program
<1>2. Inv'
    BY <1>1 DEF Inv
<1>3. Stack' = StackIn(mem') /\ Copy' = CopyIn(mem')
    BY DEF Stack, Copy
<1>4. CopyIn(mem') = Copy => Copy' = Copy /\ Rexx!Program
    BY <1>1, <1>3 DEF Rexx!Program
<1> QED  BY <1>1, <1>2, <1>3, <1>4

\* QUEUE on the links is QUEUE on the queue seen.
LEMMA QueueStep ==
    ASSUME Inv, NEW l \in Line, Queue(l)
    PROVE  Rexx!Queue(l) /\ Inv'
<1> DEFINE m == EnsureBuffer(mem)
           p == FifoLine(m, m.top, l)
<1>1. Program /\ Room(1) /\ mem' = Count(p, 1) /\ reply' = Rexx!Said(0, <<>>)
    BY DEF Queue
<1> HIDE DEF p
<1>2. /\ Good(m) /\ Held(m) /\ StackIn(m) = Stack /\ CopyIn(m) = Copy /\ m.top # Null
      /\ m.box = mem.box
      /\ Temp \in DOMAIN m.buf <=> Temp \in DOMAIN mem.buf
    BY EnsuredSeen
<1> HIDE DEF m
<1>3. DOMAIN m.box # Box
    BY <1>1, <1>2, InvSeen
<1>4. Moves(m, p, 1) /\ StackIn(p) = OnTop(Stack, Append(Last(Stack), l)) /\ CopyIn(p) = Copy
    BY <1>2, <1>3, FifoTop DEF p
<1>5. /\ Good(mem') /\ StackIn(mem') = StackIn(p) /\ CopyIn(mem') = Copy
      /\ DOMAIN mem'.buf = DOMAIN m.buf
    BY <1>1, <1>2, <1>4, CountedAfter
<1>6. Inv' /\ Rexx!Program /\ Stack' = StackIn(mem')
    BY <1>1, <1>2, <1>5, ProgramStep
<1>7. Stack' = Rexx!WithTop(Append(Rexx!Last(Stack), l))
    BY <1>4, <1>5, <1>6, SameOperators DEF Rexx!WithTop, OnTop
<1>8. Rexx!Room(1)
    BY <1>1, InvSeen
<1> QED  BY <1>1, <1>6, <1>7, <1>8 DEF Rexx!Queue

\* A beginning of a sequence, its last element and what is before it.
LEMMA Beginning ==
    ASSUME NEW S, NEW q \in Seq(S), NEW n \in 1 .. Len(q)
    PROVE  /\ Last(SubSeq(q, 1, n)) = q[n]
           /\ Front(SubSeq(q, 1, n)) = SubSeq(q, 1, n - 1)
<1> DEFINE b == SubSeq(q, 1, n)
<1>1. b \in Seq(S) /\ Len(b) = n /\ \A i \in 1 .. n : b[i] = q[i]
    OBVIOUS
<1> HIDE DEF b
<1>2. Last(b) = q[n]
    BY <1>1 DEF Last
<1>3. SubSeq(b, 1, n - 1) = SubSeq(q, 1, n - 1)
    <2>1. /\ SubSeq(q, 1, n - 1) \in Seq(S) /\ Len(SubSeq(q, 1, n - 1)) = n - 1
          /\ \A i \in 1 .. n - 1 : SubSeq(q, 1, n - 1)[i] = q[i]
        OBVIOUS
    <2>2. /\ SubSeq(b, 1, n - 1) \in Seq(S) /\ Len(SubSeq(b, 1, n - 1)) = n - 1
          /\ \A i \in 1 .. n - 1 : SubSeq(b, 1, n - 1)[i] = b[i]
        BY <1>1
    <2>3. \A i \in 1 .. n - 1 : SubSeq(b, 1, n - 1)[i] = SubSeq(q, 1, n - 1)[i]
        BY <1>1, <2>1, <2>2
    <2> QED  BY <2>1, <2>2, <2>3, SeqEqual
<1>4. Front(b) = SubSeq(q, 1, n - 1)
    BY <1>1, <1>3 DEF Front
<1> QED  BY <1>2, <1>4 DEF b

\* PULL drops the empty buffers on top, or all, and takes the line the program
\* sees on top.
LEMMA PullStep ==
    ASSUME Inv, Pull
    PROVE  Rexx!Pull /\ Inv'
<1> DEFINE m == DropEmpty(mem)
           p == PopLine(m, m.top)
<1>1. /\ Program
      /\ m.top = Null => mem' = m /\ reply' = Rexx!Said(1, <<>>)
      /\ m.top # Null => /\ mem' = Count(p, -1)
                         /\ reply' = Rexx!Said(0, <<m.box[m.buf[m.top].top].contents>>)
    BY DEF Pull
<1> HIDE DEF p
<1>2. /\ Good(m) /\ CopyIn(m) = Copy
      /\ Temp \in DOMAIN m.buf <=> Temp \in DOMAIN mem.buf
      /\ m.top = Null => /\ StackIn(m) = << <<>> >>
                         /\ \A i \in DOMAIN Stack : Stack[i] = <<>>
      /\ m.top # Null =>
            \E top \in DOMAIN Stack :
               /\ Stack[top] # <<>>
               /\ \A i \in top + 1 .. Len(Stack) : Stack[i] = <<>>
               /\ StackIn(m) = SubSeq(Stack, 1, top)
    BY InvSeen, EmptyDropped DEF Stack, Copy
<1> HIDE DEF m
<1>3. CASE m.top = Null
    <2>1. /\ Good(mem') /\ CopyIn(mem') = Copy /\ StackIn(mem') = << <<>> >>
          /\ Temp \in DOMAIN mem'.buf <=> Temp \in DOMAIN mem.buf
        BY <1>1, <1>2, <1>3
    <2>2. Inv' /\ Rexx!Program /\ Stack' = << <<>> >>
        BY <1>1, <2>1, ProgramStep
    <2> QED  BY <1>1, <1>2, <1>3, <2>2 DEF Rexx!Pull, Rexx!Pristine
<1>4. CASE m.top # Null
    <2>1. PICK top \in DOMAIN Stack :
             /\ Stack[top] # <<>>
             /\ \A i \in top + 1 .. Len(Stack) : Stack[i] = <<>>
             /\ StackIn(m) = SubSeq(Stack, 1, top)
        BY <1>2, <1>4
    <2>2. Stack \in Seq(Seq(Line)) /\ top \in 1 .. Len(Stack)
        BY InvSeen
    <2>3. Last(StackIn(m)) = Stack[top] /\ Front(StackIn(m)) = SubSeq(Stack, 1, top - 1)
        BY <2>1, <2>2, Beginning
    <2>4. Held(m) /\ m.buf[m.top].top # Null
        BY <1>2, <1>4, <2>1, <2>3, NothingOnTop DEF Good
    <2>5. /\ Moves(m, p, -1)
          /\ m.box[m.buf[m.top].top].contents = Head(Stack[top])
          /\ StackIn(p) = OnTop(StackIn(m), Tail(Stack[top])) /\ CopyIn(p) = Copy
        BY <1>2, <1>4, <2>3, <2>4, PopTop DEF p
    <2>6. /\ Good(mem') /\ StackIn(mem') = StackIn(p) /\ CopyIn(mem') = Copy
          /\ DOMAIN mem'.buf = DOMAIN m.buf
        BY <1>1, <1>2, <1>4, <2>5, CountedAfter
    <2>7. Inv' /\ Rexx!Program /\ Stack' = StackIn(mem')
        BY <1>1, <1>2, <2>6, ProgramStep
    <2>8. Stack' = Append(SubSeq(Stack, 1, top - 1), Tail(Stack[top]))
        BY <2>3, <2>5, <2>6, <2>7 DEF OnTop
    <2>9. reply' = Rexx!Said(0, <<Head(Stack[top])>>)
        BY <1>1, <1>4, <2>5
    <2> QED  BY <2>1, <2>7, <2>8, <2>9 DEF Rexx!Pull
<1> QED  BY <1>3, <1>4

\* MAKEBUF on the links is MAKEBUF on the queue seen.
LEMMA MakeBufStep ==
    ASSUME Inv, MakeBuf
    PROVE  Rexx!MakeBuf /\ Inv'
<1> DEFINE m == EnsureBuffer(mem)
<1>1. /\ Program /\ m.buffers < Cardinality(Buf) /\ mem' = AddBuffer(m)
      /\ reply' = Rexx!Said(mem'.buffers - 1, <<>>)
    BY DEF MakeBuf
<1>2. /\ Good(m) /\ StackIn(m) = Stack /\ CopyIn(m) = Copy /\ m.top # Null
      /\ m.buffers = Len(Stack)
      /\ Temp \in DOMAIN m.buf <=> Temp \in DOMAIN mem.buf
    BY EnsuredSeen
<1> HIDE DEF m
<1>3. /\ Good(mem') /\ StackIn(mem') = Append(Stack, <<>>) /\ CopyIn(mem') = Copy
      /\ Temp \in DOMAIN mem'.buf <=> Temp \in DOMAIN m.buf
      /\ mem'.buffers = m.buffers + 1
    BY <1>1, <1>2, BufferAdded
<1>4. Inv' /\ Rexx!Program /\ Stack' = Append(Stack, <<>>)
    BY <1>1, <1>2, <1>3, ProgramStep
<1>5. mem'.buffers - 1 = Len(Stack)
    BY <1>2, <1>3, InvSeen
<1> QED  BY <1>1, <1>2, <1>4, <1>5 DEF Rexx!MakeBuf

\* DROPBUF, which climbs from the bottom and frees as it goes, leaves what the
\* program expects.
LEMMA DropBufStep ==
    ASSUME Inv, NEW n \in Number, DropBuf(n)
    PROVE  (Rexx!DropBuf(n) \/ Rexx!DropTooMany(n)) /\ Inv'
<1> DEFINE m == EnsureBuffer(mem)
           number == IF n < 0 THEN m.buffers + n ELSE n
           lowest == IF n < 0 THEN Len(Stack) + n ELSE n
           kept == IF lowest <= 0 THEN Rexx!Pristine ELSE SubSeq(Stack, 1, lowest)
<1>1. /\ Program
      /\ number >= m.buffers => mem' = m /\ reply' = Rexx!Said(-2, <<>>)
      /\ ~(number >= m.buffers) => /\ mem' = DropBuffers(m, number)
                                   /\ reply' = Rexx!Said(mem'.buffers - 1, <<>>)
    BY DEF DropBuf
<1>2. /\ Good(m) /\ StackIn(m) = Stack /\ CopyIn(m) = Copy /\ m.top # Null
      /\ m.buffers = Len(Stack)
      /\ Temp \in DOMAIN m.buf <=> Temp \in DOMAIN mem.buf
    BY EnsuredSeen
<1> HIDE DEF m
<1>3. number = lowest /\ lowest \in Int /\ Len(Stack) \in Nat
    BY <1>2, InvSeen, ProgramsAssumption DEF Rexx!BuffersAssumption
<1> HIDE DEF number, lowest
<1>4. CASE lowest >= Len(Stack)
    <2>1. /\ Good(mem') /\ StackIn(mem') = Stack /\ CopyIn(mem') = Copy
          /\ Temp \in DOMAIN mem'.buf <=> Temp \in DOMAIN mem.buf
        BY <1>1, <1>2, <1>3, <1>4
    <2>2. Inv' /\ Rexx!Program /\ Stack' = Stack
        BY <1>1, <2>1, ProgramStep
    <2> QED  BY <1>1, <1>2, <1>3, <1>4, <2>2 DEF Rexx!DropBuf, Rexx!Lowest, lowest
<1>5. CASE ~(lowest >= Len(Stack))
    <2>1. number < m.buffers /\ number \in Int
        BY <1>2, <1>3, <1>5
    <2>2. mem' = DropBuffers(m, number) /\ reply' = Rexx!Said(mem'.buffers - 1, <<>>)
        BY <1>1, <1>2, <1>3, <1>5
    <2>3. /\ Good(mem') /\ CopyIn(mem') = CopyIn(m)
          /\ Temp \in DOMAIN mem'.buf <=> Temp \in DOMAIN m.buf
          /\ StackIn(mem') = IF number <= 0 THEN << <<>> >> ELSE SubSeq(StackIn(m), 1, number)
          /\ mem'.buffers = Len(StackIn(mem'))
        BY <1>2, <2>1, <2>2, BuffersDropped
    <2>4. StackIn(mem') = kept
        BY <1>2, <1>3, <2>3 DEF Rexx!Pristine
    <2> HIDE DEF kept
    <2>5. Inv' /\ Rexx!Program /\ Stack' = kept
        BY <1>1, <1>2, <2>3, <2>4, ProgramStep
    <2>6. reply' = Rexx!Said(Len(kept) - 1, <<>>)
        BY <2>2, <2>3, <2>4
    <2>7. CASE lowest < 0
        <3>1. lowest <= 0
            BY <1>3, <2>7
        <3>2. kept = Rexx!Pristine
            BY <3>1 DEF kept
        <3>3. Len(Rexx!Pristine) - 1 = 0
            BY DEF Rexx!Pristine
        <3>4. Stack' = Rexx!Pristine /\ reply' = Rexx!Said(0, <<>>)
            BY <2>5, <2>6, <3>2, <3>3
        <3> QED  BY <2>5, <2>7, <3>4 DEF Rexx!DropTooMany, Rexx!Lowest, lowest
    <2>8. CASE ~(lowest < 0)
        <3>1. kept = IF lowest = 0 THEN Rexx!Pristine ELSE SubSeq(Stack, 1, lowest)
            BY <1>3, <2>8 DEF kept
        <3>2. Rexx!Lowest(n) = lowest
            BY DEF Rexx!Lowest, lowest
        <3> HIDE DEF lowest
        <3> QED  BY <1>3, <1>5, <2>5, <2>6, <2>8, <3>1, <3>2 DEF Rexx!DropBuf
    <2> QED  BY <2>7, <2>8
<1> QED  BY <1>4, <1>5

\* QUEUED answers from a counter, BUFTYPE changes nothing seen, the end of a
\* program leaves nothing.
LEMMA OtherSteps ==
    ASSUME Inv
    PROVE  /\ Queued => Rexx!Queued /\ Inv'
           /\ BufType => Rexx!BufType /\ Inv'
           /\ Purge => Rexx!Purge /\ Inv'
<1>1. ASSUME Queued PROVE Rexx!Queued /\ Inv'
    <2>1. Program /\ mem' = mem /\ reply' = Rexx!Said(mem.elements, <<>>)
        BY <1>1 DEF Queued
    <2>2. /\ Good(mem') /\ StackIn(mem') = Stack /\ CopyIn(mem') = Copy
          /\ Temp \in DOMAIN mem'.buf <=> Temp \in DOMAIN mem.buf
        BY <2>1, InvSeen DEF Stack, Copy
    <2>3. Inv' /\ Rexx!Program /\ Stack' = Stack
        BY <2>1, <2>2, ProgramStep
    <2> QED  BY <2>1, <2>3, InvSeen DEF Rexx!Queued
<1>2. ASSUME BufType PROVE Rexx!BufType /\ Inv'
    <2>1. Program /\ mem' = EnsureBuffer(mem) /\ reply' = Rexx!Said(0, <<>>)
        BY <1>2 DEF BufType
    <2>2. /\ Good(mem') /\ StackIn(mem') = Stack /\ CopyIn(mem') = Copy
          /\ Temp \in DOMAIN mem'.buf <=> Temp \in DOMAIN mem.buf
        BY <2>1, EnsuredSeen
    <2>3. Inv' /\ Rexx!Program /\ Stack' = Stack
        BY <2>1, <2>2, ProgramStep
    <2> QED  BY <2>1, <2>3 DEF Rexx!BufType
<1>3. ASSUME Purge PROVE Rexx!Purge /\ Inv'
    <2>1. Program /\ mem' = DeleteQueue(mem) /\ reply' = Rexx!Said(0, <<>>)
        BY <1>3 DEF Purge
    <2>2. Temp \notin DOMAIN mem.buf /\ Copy = <<>>
        BY <2>1, InvSeen DEF Program
    <2>3. /\ Good(mem') /\ StackIn(mem') = << <<>> >> /\ CopyIn(mem') = Copy
          /\ Temp \in DOMAIN mem'.buf <=> Temp \in DOMAIN mem.buf
        BY <2>1, <2>2, InvSeen, QueueDeleted
    <2>4. Inv' /\ Rexx!Program /\ Stack' = << <<>> >>
        BY <2>1, <2>3, ProgramStep
    <2> QED  BY <2>1, <2>4 DEF Rexx!Purge, Rexx!Pristine
<1> QED  BY <1>1, <1>2, <1>3

-----------------------------------------------------------------------------
(* The steps of a command. *)

\* What was put on a sequence is its last element, and replacing it twice is
\* replacing it once.
LEMMA OnTopTwice ==
    ASSUME NEW S, NEW q \in Seq(S), q # <<>>, NEW x \in S, NEW y \in S
    PROVE  OnTop(OnTop(q, x), y) = OnTop(q, y)
<1> DEFINE f == Front(q)
           t == Append(f, x)
<1>1. Len(q) \in Nat /\ Len(q) >= 1 /\ Len(q) - 1 \in 0 .. Len(q)
    OBVIOUS
<1>2. f \in Seq(S)
    BY <1>1 DEF Front
<1> HIDE DEF f
<1>3. /\ t \in Seq(S) /\ Len(t) = Len(f) + 1 /\ Len(f) \in Nat
      /\ \A i \in 1 .. Len(f) : t[i] = f[i]
    BY <1>2
<1> HIDE DEF t
<1>4. /\ SubSeq(t, 1, Len(f)) \in Seq(S) /\ Len(SubSeq(t, 1, Len(f))) = Len(f)
      /\ \A i \in 1 .. Len(f) : SubSeq(t, 1, Len(f))[i] = t[i]
    BY <1>3
<1>5. SubSeq(t, 1, Len(f)) = f
    <2>1. \A i \in 1 .. Len(f) : SubSeq(t, 1, Len(f))[i] = f[i]
        BY <1>3, <1>4
    <2> QED  BY <1>2, <1>4, <2>1, SeqEqual
<1>6. Front(t) = f
    BY <1>3, <1>5 DEF Front
<1> QED  BY <1>6 DEF OnTop, f, t

\* What is known of the way a command is redirected.
LEMMA WayIs ==
    ASSUME NEW w \in Ways
    PROVE  /\ w.reads \in {"nothing", "queue", "copy"}
           /\ w.writes \in {"nothing", "lifo", "fifo", "string"}
           /\ w.replace \in BOOLEAN /\ w.given \in Seq(Line) /\ Len(w.given) \in Nat
           /\ w.reads # "copy" => w.given = <<>>
           /\ w.reads = "copy" => w.writes = "nothing"
           /\ Rexx!IsCopied(w) => w.reads = "queue" /\ w.writes \in {"lifo", "fifo"}
<1>1. w \in Rexx!Way
    BY ProgramsAssumption DEF Rexx!BuffersAssumption
<1>2. /\ w.reads # "copy" => w.given = <<>>
      /\ w.reads = "copy" => w.writes = "nothing"
    BY ProgramsAssumption DEF Rexx!BuffersAssumption
<1>3. /\ w.reads \in {"nothing", "queue", "copy"}
      /\ w.writes \in {"nothing", "lifo", "fifo", "string"}
      /\ w.replace \in BOOLEAN /\ w.given \in Seq(Line)
    BY <1>1 DEF Rexx!Way
<1>4. Rexx!IsCopied(w) => w.reads = "queue" /\ w.writes \in {"lifo", "fifo"}
    BY DEF Rexx!IsCopied, Rexx!ToQueue
<1>5. Len(w.given) \in Nat
    BY <1>3
<1> QED  BY <1>2, <1>3, <1>4, <1>5

\* The channels of a command are opened: its temporary queue has what it is
\* to read, the queue to be replaced lost the lines of its top buffer.
LEMMA OpenedSeen ==
    ASSUME Inv, ~command.running, NEW w \in Ways, Room(Len(w.given)),
           NEW r, r = Opened(w)
    PROVE  /\ Good(r) /\ StackIn(r) = Rexx!Opened(w)
           /\ CopyIn(r) = IF Rexx!IsCopied(w) THEN Last(Stack) ELSE w.given
           /\ Rexx!IsCopied(w) \/ w.reads = "copy" \/ w.writes = "string" => Temp \in DOMAIN r.buf
<1> DEFINE copied == Rexx!IsCopied(w)
           other == w.reads = "copy" \/ w.writes = "string"
           m == IF copied THEN TakeTop(mem) ELSE IF other THEN FillTemp(mem, w.given) ELSE mem
<1>1. r = IF w.replace THEN PurgeTop(m) ELSE m
    BY DEF Opened
<1>2. /\ Good(mem) /\ Temp \notin DOMAIN mem.buf /\ Copy = <<>>
      /\ Stack \in Seq(Seq(Line)) /\ Stack # <<>>
      /\ StackIn(mem) = Stack /\ CopyIn(mem) = Copy
    BY InvSeen DEF Stack, Copy
<1>3. copied => /\ Good(m) /\ StackIn(m) = OnTop(Stack, <<>>) /\ CopyIn(m) = Last(Stack)
                /\ Temp \in DOMAIN m.buf
    BY <1>2, TopTaken
<1>4. ~copied /\ other => /\ Good(m) /\ StackIn(m) = Stack /\ CopyIn(m) = w.given
                          /\ Temp \in DOMAIN m.buf
    <2>1. Cardinality(DOMAIN mem.box) + Len(w.given) <= Cardinality(Box)
        BY DEF Room
    <2>2. w.given \in Seq(Line)
        BY WayIs
    <2> QED  BY <1>2, <2>1, <2>2, TempFilled
<1>5. ~copied /\ ~other => /\ Good(m) /\ StackIn(m) = Stack /\ CopyIn(m) = w.given
    BY <1>2, WayIs
<1> HIDE DEF m
<1>6. /\ Good(m) /\ StackIn(m) = IF copied THEN OnTop(Stack, <<>>) ELSE Stack
      /\ CopyIn(m) = IF copied THEN Last(Stack) ELSE w.given
      /\ copied \/ other => Temp \in DOMAIN m.buf
    BY <1>3, <1>4, <1>5
<1>7. Rexx!Opened(w) = IF copied \/ w.replace THEN OnTop(Stack, <<>>) ELSE Stack
    BY SameOperators DEF Rexx!Opened, Rexx!WithTop, OnTop
<1>8. CASE w.replace
    <2>1. r = PurgeTop(m)
        BY <1>1, <1>8
    <2>2. /\ Good(r) /\ StackIn(r) = OnTop(StackIn(m), <<>>) /\ CopyIn(r) = CopyIn(m)
          /\ Temp \in DOMAIN r.buf <=> Temp \in DOMAIN m.buf
        BY <1>6, <2>1, TopPurged
    <2>3. OnTop(OnTop(Stack, <<>>), <<>>) = OnTop(Stack, <<>>)
        <3>1. <<>> \in Seq(Line)
            OBVIOUS
        <3> QED  BY <1>2, <3>1, OnTopTwice
    <2> HIDE DEF copied, other
    <2>4. StackIn(r) = OnTop(Stack, <<>>)
        BY <1>6, <2>2, <2>3
    <2> QED  BY <1>6, <1>7, <1>8, <2>2, <2>4 DEF copied, other
<1>9. CASE ~w.replace
    BY <1>1, <1>6, <1>7, <1>9
<1> QED  BY <1>8, <1>9, WayIs

\* A command is started, or cannot be.
LEMMA StartStep ==
    ASSUME Inv, NEW w \in Ways, Start(w)
    PROVE  Rexx!Start(w) /\ Inv'
<1> DEFINE reads == IF Rexx!IsCopied(w) THEN "copy" ELSE w.reads
<1>1. /\ ~command.running /\ Room(Len(w.given)) /\ mem' = Opened(w)
      /\ command' = Rexx!Running(reads, w.writes) /\ reply' = Rexx!Said(0, <<>>)
    BY DEF Start
<1>2. /\ Good(mem') /\ StackIn(mem') = Rexx!Opened(w)
      /\ CopyIn(mem') = IF Rexx!IsCopied(w) THEN Last(Stack) ELSE w.given
      /\ Rexx!IsCopied(w) \/ w.reads = "copy" \/ w.writes = "string" => Temp \in DOMAIN mem'.buf
    BY <1>1, OpenedSeen
<1>3. /\ command' \in Commands /\ command'.running
      /\ command'.reads = reads /\ command'.writes = w.writes
    BY <1>1, WayIs DEF Rexx!Running, Commands
<1>4. Inv'
    BY <1>2, <1>3 DEF Inv
<1>5. Stack' = Rexx!Opened(w) /\ Copy' = IF Rexx!IsCopied(w) THEN Rexx!Last(Stack) ELSE w.given
    BY <1>2, SameOperators DEF Stack, Copy
<1>6. Rexx!Room(Len(w.given))
    BY <1>1, InvSeen, WayIs
<1> QED  BY <1>1, <1>4, <1>5, <1>6 DEF Rexx!Start

\* A command that cannot be started leaves nothing of its temporary queue.
LEMMA FailToStartStep ==
    ASSUME Inv, NEW w \in Ways, FailToStart(w)
    PROVE  Rexx!FailToStart(w) /\ Inv'
<1> DEFINE m == Opened(w)
<1>1. /\ ~command.running /\ Room(Len(w.given)) /\ mem' = DeleteTemp(m)
      /\ command' = command /\ reply' = Rexx!Said(1, <<>>)
    BY DEF FailToStart
<1>2. Good(m) /\ StackIn(m) = Rexx!Opened(w)
    BY <1>1, OpenedSeen
<1> HIDE DEF m
<1>3. /\ Good(mem') /\ StackIn(mem') = Rexx!Opened(w) /\ CopyIn(mem') = <<>>
      /\ Temp \notin DOMAIN mem'.buf
    BY <1>1, <1>2, TempDeleted
<1>4. Inv'
    BY <1>1, <1>3 DEF Inv, Rexx!Idle
<1>5. Stack' = Rexx!Opened(w) /\ Copy' = <<>>
    BY <1>3 DEF Stack, Copy
<1> QED  BY <1>1, <1>4, <1>5 DEF Rexx!FailToStart

\* A command at the end of its input stays what it was otherwise.
LEMMA AtEnd ==
    ASSUME Inv, NEW c, c = [command EXCEPT !.eof = TRUE]
    PROVE  /\ c \in Commands /\ c.running = command.running
           /\ c.reads = command.reads /\ c.writes = command.writes
BY DEF Inv, Commands

\* Lines come to a running command, or from it: what remains to be shown.
LEMMA CommandStep ==
    ASSUME Inv, command.running, Good(mem'), Temp \in DOMAIN mem'.buf <=> Temp \in DOMAIN mem.buf,
           command' \in Commands, command'.running = command.running,
           command'.reads = command.reads, command'.writes = command.writes
    PROVE  Inv' /\ Stack' = StackIn(mem') /\ Copy' = CopyIn(mem')
BY DEF Inv, Stack, Copy

\* A command reads a line of its copy, or is at its end.
LEMMA FeedFromCopyStep ==
    ASSUME Inv, FeedFromCopy
    PROVE  Rexx!FeedFromCopy /\ Inv'
<1> DEFINE p == PopLine(mem, Temp)
<1>1. /\ command.reads = "copy" /\ ~command.eof
      /\ mem.buf[Temp].top = Null =>
            /\ mem' = mem /\ command' = [command EXCEPT !.eof = TRUE]
            /\ reply' = Rexx!Said(1, <<>>)
      /\ mem.buf[Temp].top # Null =>
            /\ mem' = p /\ command' = command
            /\ reply' = Rexx!Said(0, <<mem.box[mem.buf[Temp].top].contents>>)
    BY DEF FeedFromCopy, Feed
<1> HIDE DEF p
<1>2. /\ Good(mem) /\ Held(mem) /\ Temp \in DOMAIN mem.buf /\ command \in Commands
      /\ command.running /\ StackIn(mem) = Stack /\ CopyIn(mem) = Copy
      /\ Copy \in Seq(Line)
    BY <1>1, InvSeen DEF Inv, Rexx!Idle, Stack, Copy
<1>3. CASE mem.buf[Temp].top = Null
    <2>1. Copy = <<>>
        BY <1>2, <1>3, NothingOnTop
    <2>2. /\ command' \in Commands /\ command'.running = command.running
          /\ command'.reads = command.reads /\ command'.writes = command.writes
        BY <1>1, <1>3, AtEnd
    <2>3. Inv' /\ Stack' = Stack /\ Copy' = Copy
        BY <1>1, <1>2, <1>3, <2>2, CommandStep
    <2> QED  BY <1>1, <1>3, <2>1, <2>3 DEF Rexx!FeedFromCopy, Rexx!AtEof
<1>4. CASE mem.buf[Temp].top # Null
    <2>1. /\ Moves(mem, p, -1) /\ Copy # <<>>
          /\ mem.box[mem.buf[Temp].top].contents = Head(Copy)
          /\ StackIn(p) = Stack /\ CopyIn(p) = Tail(Copy)
        BY <1>2, <1>4, PopTemp DEF p
    <2>2. Len(Tail(Copy)) = Len(Copy) + (-1)
        BY <1>2, <2>1
    <2>3. Good(p) /\ DOMAIN p.buf = DOMAIN mem.buf
        BY <1>2, <2>1, <2>2, NotCounted
    <2>4. Inv' /\ Stack' = Stack /\ Copy' = Tail(Copy)
        BY <1>1, <1>2, <1>4, <2>1, <2>3, CommandStep
    <2> QED  BY <1>1, <1>4, <2>1, <2>4 DEF Rexx!FeedFromCopy, Rexx!Fed
<1> QED  BY <1>3, <1>4

\* A command reads a line of the top buffer, or is at its end.
LEMMA FeedFromQueueStep ==
    ASSUME Inv, FeedFromQueue
    PROVE  Rexx!ReadQueue /\ Inv'
<1> DEFINE m == EnsureBuffer(mem)
           p == PopLine(m, m.top)
<1>1. /\ Good(m) /\ Held(m) /\ StackIn(m) = Stack /\ CopyIn(m) = Copy /\ m.top # Null
      /\ Temp \in DOMAIN m.buf <=> Temp \in DOMAIN mem.buf
    BY EnsuredSeen
<1>2. m.top # Temp
    BY <1>1, HeldSeen
<1>3. /\ command.reads = "queue" /\ ~command.eof
      /\ m.buf[m.top].top = Null =>
            /\ mem' = m /\ command' = [command EXCEPT !.eof = TRUE]
            /\ reply' = Rexx!Said(1, <<>>)
      /\ m.buf[m.top].top # Null =>
            /\ mem' = Count(p, -1) /\ command' = command
            /\ reply' = Rexx!Said(0, <<m.box[m.buf[m.top].top].contents>>)
    BY <1>2 DEF FeedFromQueue, Feed
<1> HIDE DEF p, m
<1>4. command.running /\ command \in Commands
    BY <1>3 DEF Inv, Rexx!Idle
<1>5. CASE m.buf[m.top].top = Null
    <2>1. Last(Stack) = <<>>
        BY <1>1, <1>5, NothingOnTop
    <2>2. /\ command' \in Commands /\ command'.running = command.running
          /\ command'.reads = command.reads /\ command'.writes = command.writes
        BY <1>3, <1>5, AtEnd
    <2>3. Inv' /\ Stack' = Stack /\ Copy' = Copy
        BY <1>1, <1>3, <1>4, <1>5, <2>2, CommandStep
    <2>4. Rexx!Last(Stack) = <<>>
        BY <2>1, SameOperators
    <2> QED  BY <1>3, <1>5, <2>3, <2>4 DEF Rexx!ReadQueue, Rexx!AtEof
<1>6. CASE m.buf[m.top].top # Null
    <2>1. /\ Moves(m, p, -1) /\ Last(Stack) # <<>>
          /\ m.box[m.buf[m.top].top].contents = Head(Last(Stack))
          /\ StackIn(p) = OnTop(Stack, Tail(Last(Stack))) /\ CopyIn(p) = CopyIn(m)
        BY <1>1, <1>6, PopTop DEF p
    <2>2. mem' = Count(p, -1) /\ -1 \in Int
        BY <1>3, <1>6
    <2>3. /\ Good(mem') /\ StackIn(mem') = StackIn(p) /\ CopyIn(mem') = CopyIn(m)
          /\ DOMAIN mem'.buf = DOMAIN m.buf
        BY <1>1, <2>1, <2>2, CountedAfter
    <2>4. Inv' /\ Stack' = StackIn(p) /\ Copy' = Copy
        BY <1>1, <1>3, <1>4, <1>6, <2>3, CommandStep
    <2>5. Rexx!Fed(Rexx!Last(Stack))
        BY <1>3, <1>6, <2>1, SameOperators DEF Rexx!Fed
    <2>6. Stack' = Rexx!WithTop(Tail(Rexx!Last(Stack)))
        BY <2>1, <2>4, SameOperators DEF Rexx!WithTop, OnTop
    <2> QED  BY <1>3, <2>4, <2>5, <2>6 DEF Rexx!ReadQueue
<1> QED  BY <1>5, <1>6

\* A line of its output comes into the queue, or into the temporary one.
LEMMA CropStep ==
    ASSUME Inv, NEW l \in Line, Crop(l)
    PROVE  Rexx!Crop(l) /\ Inv'
<1> DEFINE m == EnsureBuffer(mem)
           c == Count(m, 1)
<1>1. /\ Good(m) /\ Held(m) /\ StackIn(m) = Stack /\ CopyIn(m) = Copy /\ m.top # Null
      /\ m.box = mem.box
      /\ Temp \in DOMAIN m.buf <=> Temp \in DOMAIN mem.buf
    BY EnsuredSeen
<1>2. /\ Room(1) /\ reply' = Rexx!Said(0, <<>>) /\ command' = command
      /\ \/ command.writes = "lifo" /\ mem' = LifoLine(c, m.top, l)
         \/ command.writes = "fifo" /\ mem' = FifoLine(c, m.top, l)
         \/ command.writes = "string" /\ mem' = FifoLine(mem, Temp, l)
    BY DEF Crop
<1> HIDE DEF m
<1>3. /\ Held(c) /\ StackIn(c) = Stack /\ CopyIn(c) = Copy
      /\ c.box = m.box /\ c.buf = m.buf /\ c.top = m.top
    BY <1>1, HeldCount
<1> HIDE DEF c
<1>4. /\ DOMAIN mem.box # Box /\ DOMAIN c.box # Box /\ Rexx!Room(1) /\ Good(mem) /\ Held(mem)
      /\ StackIn(mem) = Stack /\ CopyIn(mem) = Copy
    BY <1>1, <1>2, <1>3, InvSeen DEF Stack, Copy
<1>5. /\ command.running /\ command \in Commands /\ command.writes # "nothing"
      /\ command.writes = "string" => Temp \in DOMAIN mem.buf
    BY <1>2 DEF Inv, Rexx!Idle
<1>6. CASE command.writes = "lifo"
    <2>1. mem' = LifoLine(c, c.top, l) /\ c.top # Null
        BY <1>1, <1>2, <1>3, <1>6
    <2>2. /\ Moves(c, mem', 1) /\ StackIn(mem') = OnTop(Stack, <<l>> \o Last(Stack))
          /\ CopyIn(mem') = Copy
        BY <1>3, <1>4, <2>1, LifoTop
    <2>3. Good(mem') /\ DOMAIN mem'.buf = DOMAIN m.buf
        BY <1>1, <2>2, CountedBefore DEF c
    <2>4. Inv' /\ Stack' = StackIn(mem') /\ Copy' = Copy
        BY <1>1, <1>2, <1>5, <2>2, <2>3, CommandStep
    <2>5. Stack' = Rexx!WithTop(<<l>> \o Rexx!Last(Stack))
        BY <2>2, <2>4, SameOperators DEF Rexx!WithTop, OnTop
    <2> QED  BY <1>2, <1>4, <1>5, <1>6, <2>4, <2>5 DEF Rexx!Crop
<1>7. CASE command.writes = "fifo"
    <2>1. mem' = FifoLine(c, c.top, l) /\ c.top # Null
        BY <1>1, <1>2, <1>3, <1>7
    <2>2. /\ Moves(c, mem', 1) /\ StackIn(mem') = OnTop(Stack, Append(Last(Stack), l))
          /\ CopyIn(mem') = Copy
        BY <1>3, <1>4, <2>1, FifoTop
    <2>3. Good(mem') /\ DOMAIN mem'.buf = DOMAIN m.buf
        BY <1>1, <2>2, CountedBefore DEF c
    <2>4. Inv' /\ Stack' = StackIn(mem') /\ Copy' = Copy
        BY <1>1, <1>2, <1>5, <2>2, <2>3, CommandStep
    <2>5. Stack' = Rexx!WithTop(Append(Rexx!Last(Stack), l))
        BY <2>2, <2>4, SameOperators DEF Rexx!WithTop, OnTop
    <2> QED  BY <1>2, <1>4, <1>5, <1>7, <2>4, <2>5 DEF Rexx!Crop
<1>8. CASE command.writes = "string"
    <2>1. mem' = FifoLine(mem, Temp, l) /\ Temp \in DOMAIN mem.buf
        BY <1>2, <1>5, <1>8
    <2>2. /\ Moves(mem, mem', 1) /\ StackIn(mem') = Stack
          /\ CopyIn(mem') = Append(Copy, l)
        BY <1>4, <2>1, FifoTemp
    <2>3. Len(Append(Copy, l)) = Len(Copy) + 1
        BY InvSeen
    <2>4. Good(mem') /\ DOMAIN mem'.buf = DOMAIN mem.buf
        BY <1>4, <2>2, <2>3, NotCounted
    <2>5. Inv' /\ Stack' = Stack /\ Copy' = Append(Copy, l)
        BY <1>2, <1>5, <2>2, <2>4, CommandStep
    <2> QED  BY <1>2, <1>4, <1>5, <1>8, <2>5 DEF Rexx!Crop
<1> QED  BY <1>2, <1>6, <1>7, <1>8

\* A command ends: its temporary queue is freed, and the rest of its input
\* discarded.
LEMMA FinishStep ==
    ASSUME Inv, Finish
    PROVE  Rexx!End /\ Inv'
<1> DEFINE m == IF command.reads = "queue" THEN PurgeTop(mem) ELSE mem
<1>1. /\ command.running /\ mem' = DeleteTemp(m) /\ command' = Rexx!Idle
      /\ reply' = Rexx!Said(0, IF command.writes = "string" THEN Contents(mem, Temp) ELSE <<>>)
    BY DEF Finish
<1>2. Good(mem) /\ StackIn(mem) = Stack /\ CopyIn(mem) = Copy
    BY InvSeen DEF Stack, Copy
<1>3. Good(m) /\ StackIn(m) = IF command.reads = "queue" THEN OnTop(Stack, <<>>) ELSE Stack
    <2>1. CASE command.reads = "queue"
        BY <1>2, <2>1, TopPurged
    <2>2. CASE command.reads # "queue"
        BY <1>2, <2>2
    <2> QED  BY <2>1, <2>2
<1> HIDE DEF m
<1>4. /\ Good(mem') /\ StackIn(mem') = StackIn(m) /\ CopyIn(mem') = <<>>
      /\ Temp \notin DOMAIN mem'.buf
    BY <1>1, <1>3, TempDeleted
<1>5. Inv'
    BY <1>1, <1>4 DEF Inv, Rexx!Idle, Commands
<1>6. /\ Stack' = IF command.reads = "queue" THEN Rexx!WithTop(<<>>) ELSE Stack
      /\ Copy' = <<>>
    BY <1>3, <1>4, SameOperators DEF Stack, Copy, Rexx!WithTop, OnTop
<1>7. command.writes = "string" => Contents(mem, Temp) = Copy
    BY DEF Inv, Copy, CopyIn
<1>8. reply' = Rexx!Said(0, IF command.writes = "string" THEN Copy ELSE <<>>)
    BY <1>1, <1>7
<1> QED  BY <1>1, <1>5, <1>6, <1>8 DEF Rexx!End

-----------------------------------------------------------------------------
(* The whole system. *)

\* A queue that was never used.
LEMMA FreshHeld == Good(Fresh) /\ StackIn(Fresh) = << <<>> >> /\ CopyIn(Fresh) = <<>>
<1>1. /\ Fresh = [box |-> << >>, buf |-> << >>, top |-> Null, bottom |-> Null,
                  buffers |-> 0, elements |-> 0]
      /\ Fresh.box = << >> /\ Fresh.buf = << >> /\ Fresh.top = Null /\ Fresh.bottom = Null
      /\ Fresh.buffers = 0 /\ Fresh.elements = 0
    BY DEF Fresh
<1>2. /\ DOMAIN << >> = {} /\ << >> \in [{} -> LineCell] /\ << >> \in [{} -> BufferCell]
      /\ Len(<<>>) = 0
    OBVIOUS
<1>3. IsMemory(Fresh)
    BY <1>1, <1>2 DEF IsMemory
<1>4. Piled(Fresh, <<>>)
    BY <1>1, <1>2, ListEmpty, EmptyList DEF Piled
<1>5. Filled(Fresh, <<>>)
    BY <1>1, <1>2 DEF Filled
<1>6. Held(Fresh)
    BY <1>3, <1>4, <1>5 DEF Held, Holds
<1>7. StackIn(Fresh) = << <<>> >> /\ CopyIn(Fresh) = <<>>
    BY <1>1, <1>2 DEF StackIn, CopyIn
<1>8. Good(Fresh)
    BY <1>1, <1>2, <1>6, <1>7, FS_EmptySet DEF Good
<1> QED  BY <1>7, <1>8

\* The first state.
LEMMA Started ==
    ASSUME Init
    PROVE  Rexx!Init /\ Inv
<1>1. mem = Fresh /\ command = Rexx!Idle /\ reply = Rexx!Said(0, <<>>)
    BY DEF Init
<1>2. Stack = << <<>> >> /\ Copy = <<>>
    BY <1>1, FreshHeld DEF Stack, Copy
<1>3. Rexx!Init
    BY <1>1, <1>2 DEF Rexx!Init, Rexx!Pristine
<1>4. Inv
    BY <1>1, FreshHeld DEF Inv, Commands, Rexx!Idle, Fresh
<1> QED  BY <1>3, <1>4

\* Every step of the links is that step of the queue a program sees.
LEMMA NextStep ==
    ASSUME Inv, Next
    PROVE  Rexx!Next /\ Inv'
<1>1. CASE \E l \in Line : Push(l) \/ Queue(l) \/ Crop(l)
    BY <1>1, PushStep, QueueStep, CropStep DEF Rexx!Next
<1>2. CASE \E n \in Number : DropBuf(n)
    BY <1>2, DropBufStep DEF Rexx!Next
<1>3. CASE Pull \/ MakeBuf
    BY <1>3, PullStep, MakeBufStep DEF Rexx!Next
<1>4. CASE Queued \/ BufType \/ Purge
    BY <1>4, OtherSteps DEF Rexx!Next
<1>5. CASE \E w \in Ways : Start(w) \/ FailToStart(w)
    BY <1>5, StartStep, FailToStartStep DEF Rexx!Next
<1>6. CASE FeedFromCopy \/ FeedFromQueue \/ Finish
  <2>1. CASE FeedFromCopy
      BY <2>1, FeedFromCopyStep DEF Rexx!Next
  <2>2. CASE FeedFromQueue
      BY <2>2, FeedFromQueueStep DEF Rexx!Next, Rexx!FeedFromQueue, Rexx!FeedFromOwnQueue
  <2>3. CASE Finish
      BY <2>3, FinishStep DEF Rexx!Next, Rexx!Finish, Rexx!FinishOwnQueue
  <2> QED  BY <1>6, <2>1, <2>2, <2>3
<1> QED  BY <1>1, <1>2, <1>3, <1>4, <1>5, <1>6 DEF Next

\* Nothing else changes.
LEMMA Stutter ==
    ASSUME Inv, UNCHANGED vars
    PROVE  Inv' /\ UNCHANGED Rexx!vars
BY DEF Inv, vars, Rexx!vars, Stack, Copy, Room

-----------------------------------------------------------------------------
\* The pointers in a list point into it.
LEMMA ListLinks ==
    ASSUME NEW cells, NEW s, NEW first, NEW last, List(cells, s, first, last)
    PROVE  /\ first \in ToSet(s) \cup {Null} /\ last \in ToSet(s) \cup {Null}
           /\ \A x \in ToSet(s) : /\ cells[x].lower \in ToSet(s) \cup {Null}
                                  /\ cells[x].higher \in ToSet(s) \cup {Null}
<1>1. \A i : At(s, i) \in ToSet(s) \cup {Null}
    BY DEF At, ToSet
<1>2. \A x \in ToSet(s) : \E i \in DOMAIN s : x = s[i]
    BY DEF ToSet
<1>3. \A i \in DOMAIN s :
          cells[s[i]].lower = At(s, i + 1) /\ cells[s[i]].higher = At(s, i - 1)
    BY DEF List
<1>4. first = At(s, 1) /\ last = At(s, Len(s))
    BY DEF List
<1> HIDE DEF At
<1> QED  BY <1>1, <1>2, <1>3, <1>4

\* A list of the cells of a finite set is not longer than that.
LEMMA ListBound ==
    ASSUME NEW S, IsFiniteSet(S), NEW s \in Seq(S), IsInjective(s)
    PROVE  Len(s) \in 0 .. Cardinality(S)
<1>1. ToSet(s) \subseteq S
    BY ToSetType
<1>2. Cardinality(ToSet(s)) = Len(s) /\ Cardinality(ToSet(s)) <= Cardinality(S)
    BY <1>1, ListSize, FS_Subset
<1>3. Len(s) \in Nat /\ Cardinality(S) \in Nat
    BY FS_CardinalityType
<1> QED  BY <1>2, <1>3

\* The lists found by following the links are those of the queue.
LEMMA InvLinked ==
    ASSUME Inv
    PROVE  Linked
<1> PICK d, ls : Holds(mem, d, ls)
    BY DEF Inv, Good, Held
<1>1. /\ IsMemory(mem) /\ Piled(mem, d) /\ Filled(mem, ls)
    BY DEF Holds
<1>2. /\ BuffersOf(mem) = d /\ Chain(mem.buf, mem.bottom, "higher") = Reverse(d)
      /\ \A b \in DOMAIN mem.buf :
            /\ LinesOf(mem, b) = ls[b]
            /\ Chain(mem.box, mem.buf[b].bottom, "higher") = Reverse(ls[b])
    BY Shown
<1>3. /\ d \in Seq(Buf) /\ IsInjective(d) /\ ToSet(d) = DOMAIN mem.buf \ {Temp}
      /\ List(mem.buf, d, mem.top, mem.bottom)
      /\ mem.buffers = Len(d)
      /\ Temp \in DOMAIN mem.buf => mem.buf[Temp].higher = Null /\ mem.buf[Temp].lower = Null
    BY BuffersType DEF Holds, Piled
<1>4. \A b \in DOMAIN mem.buf :
         /\ ls[b] \in Seq(Box) /\ IsInjective(ls[b]) /\ ToSet(ls[b]) \subseteq DOMAIN mem.box
         /\ List(mem.box, ls[b], mem.buf[b].top, mem.buf[b].bottom)
         /\ mem.buf[b].elements = Len(ls[b])
    BY LinesType DEF Holds, Filled
<1>5. /\ \A b, c \in DOMAIN mem.buf : \A x \in ToSet(ls[b]) : x \in ToSet(ls[c]) => b = c
      /\ \A x \in DOMAIN mem.box : \E b \in DOMAIN mem.buf : x \in ToSet(ls[b])
    BY DEF Holds, Filled
<1>6. TypeOK
    <2> DEFINE lines == DOMAIN mem.box \cup {Null}
               buffers == (DOMAIN mem.buf \ {Temp}) \cup {Null}
    <2>1. DOMAIN mem.box \subseteq Box /\ DOMAIN mem.buf \subseteq Buf \cup {Temp}
        BY <1>1 DEF IsMemory
    <2>2. ASSUME NEW n \in DOMAIN mem.box
          PROVE  mem.box[n] \in [higher: lines, lower: lines, contents: Line]
        <3>1. PICK b \in DOMAIN mem.buf : n \in ToSet(ls[b])
            BY <1>5
        <3>2. mem.box[n].lower \in lines /\ mem.box[n].higher \in lines
            BY <1>4, <3>1, ListLinks
        <3>3. mem.box[n] \in LineCell
            BY <1>1 DEF IsMemory
        <3> QED  BY <3>2, <3>3 DEF LineCell
    <2>3. ASSUME NEW b \in DOMAIN mem.buf
          PROVE  mem.buf[b] \in [higher: buffers, lower: buffers, top: lines, bottom: lines,
                                 elements: 0 .. Cardinality(Box)]
        <3>1. mem.buf[b].lower \in buffers /\ mem.buf[b].higher \in buffers
            BY <1>3, ListLinks
        <3>2. mem.buf[b].top \in lines /\ mem.buf[b].bottom \in lines
            BY <1>4, ListLinks
        <3>3. mem.buf[b].elements \in 0 .. Cardinality(Box)
            BY <1>4, ListBound, LinksAssumption
        <3>4. mem.buf[b] \in BufferCell
            BY <1>1 DEF IsMemory
        <3> QED  BY <3>1, <3>2, <3>3, <3>4 DEF BufferCell
    <2>4. mem.top \in buffers /\ mem.bottom \in buffers
        BY <1>3, ListLinks
    <2>5. mem.buffers \in 0 .. Cardinality(Buf)
        BY <1>3, ListBound, LinksAssumption
    <2>6. mem.elements \in 0 .. Cardinality(Box)
        <3>1. /\ mem.elements \in Nat /\ Len(Copy) \in Nat
              /\ mem.elements + Len(Copy) = Cardinality(DOMAIN mem.box)
            <4>1. mem.elements \in Nat /\ Copy \in Seq(Line)
                BY LinesCounted, InvSeen
            <4>2. mem.elements + Len(Copy) = Cardinality(DOMAIN mem.box)
                BY DEF Inv, Good, Copy
            <4> QED  BY <4>1, <4>2
        <3>2. /\ Cardinality(DOMAIN mem.box) \in Nat /\ Cardinality(Box) \in Nat
              /\ Cardinality(DOMAIN mem.box) <= Cardinality(Box)
            BY <1>1, FiniteMemory
        <3> QED  BY <3>1, <3>2
    <2> QED  BY <2>1, <2>2, <2>3, <2>4, <2>5, <2>6 DEF TypeOK
<1>7. Mirrored
    <2>1. Reverse(Reverse(d)) = d
        BY <1>3, ReverseTwice
    <2>2. \A b \in DOMAIN mem.buf : Reverse(Reverse(ls[b])) = ls[b]
        BY <1>4, ReverseTwice
    <2> QED  BY <1>2, <2>1, <2>2 DEF Mirrored
<1>8. Counted
    <2>1. mem.elements = Cardinality(DOMAIN mem.box) - Len(Copy)
        <3>1. mem.elements + Len(Copy) = Cardinality(DOMAIN mem.box)
            BY DEF Inv, Good, Copy
        <3>2. mem.elements \in Nat /\ Len(Copy) \in Nat
            BY LinesCounted, InvSeen
        <3> QED  BY <3>1, <3>2
    <2> QED  BY <1>2, <1>3, <1>4, <2>1 DEF Counted
<1>9. NothingLost
    <2>1. UNION {ToSet(LinesOf(mem, b)) : b \in DOMAIN mem.buf} = DOMAIN mem.box
        BY <1>2, <1>4, <1>5
    <2>2. ASSUME NEW b \in DOMAIN mem.buf, NEW c \in DOMAIN mem.buf, b # c
          PROVE  ToSet(LinesOf(mem, b)) \cap ToSet(LinesOf(mem, c)) = {}
        BY <1>2, <1>5, <2>2
    <2>3. Temp \in DOMAIN mem.buf => command.running
        BY DEF Inv
    <2> QED  BY <1>2, <1>3, <1>4, <2>1, <2>2, <2>3 DEF NothingLost
<1> QED  BY <1>6, <1>7, <1>8, <1>9 DEF Linked

-----------------------------------------------------------------------------
(* RexxBuffers: what lies below the top buffer is out of reach. *)

\* The part of the type that the queue itself has.
StackOK == Stack \in Seq(Seq(Line)) /\ Stack # <<>>

\* What is left and was not on top is as it was.
Below(s, t) == \A i \in DOMAIN s : i < Len(s) /\ i < Len(t) => t[i] = s[i]

\* The buffers up to the k-th one are kept, that one with other lines.
LEMMA CutAt ==
    ASSUME StackOK, NEW k \in 1 .. Len(Stack), NEW b \in Seq(Line)
    PROVE  LET t == Append(SubSeq(Stack, 1, k - 1), b) IN
           /\ t \in Seq(Seq(Line)) \ {<<>>}
           /\ Below(Stack, t)
<1> DEFINE l == SubSeq(Stack, 1, k - 1)
           t == Append(l, b)
<1>1. /\ l \in Seq(Seq(Line)) /\ Len(l) = k - 1
      /\ \A i \in 1 .. k - 1 : l[i] = Stack[i]
    BY DEF StackOK
<1>2. t \in Seq(Seq(Line)) /\ Len(t) = k
    BY <1>1
<1>3. \A i \in 1 .. k - 1 : t[i] = Stack[i]
    BY <1>1
<1>4. Below(Stack, t)
    BY <1>2, <1>3 DEF Below, StackOK
<1> HIDE DEF t, l
<1>5. t # <<>>
    <2>1. k > 0
        BY DEF StackOK
    <2> QED  BY <1>2, <2>1
<1>6. t \in Seq(Seq(Line)) \ {<<>>} /\ Below(Stack, t)
    BY <1>2, <1>4, <1>5
<1> QED  BY <1>6 DEF t, l

\* The buffers up to the k-th one are kept as they are.
LEMMA FirstBuffers ==
    ASSUME StackOK, NEW k \in 1 .. Len(Stack)
    PROVE  LET t == SubSeq(Stack, 1, k) IN
           /\ t \in Seq(Seq(Line)) \ {<<>>}
           /\ Below(Stack, t)
<1> DEFINE t == SubSeq(Stack, 1, k)
<1>1. /\ t \in Seq(Seq(Line)) /\ Len(t) = k
      /\ \A i \in 1 .. k : t[i] = Stack[i]
    BY DEF StackOK
<1> HIDE DEF t
<1>2. t # <<>>
    <2>1. k > 0
        BY DEF StackOK
    <2> QED  BY <1>1, <2>1
<1>3. Below(Stack, t)
    BY <1>1 DEF Below, StackOK
<1>4. t \in Seq(Seq(Line)) \ {<<>>} /\ Below(Stack, t)
    BY <1>1, <1>2, <1>3
<1> QED  BY <1>4 DEF t

\* In particular when only the top buffer gets other lines.
LEMMA NewTop ==
    ASSUME StackOK, NEW b \in Seq(Line)
    PROVE  Rexx!WithTop(b) \in Seq(Seq(Line)) \ {<<>>} /\ Below(Stack, Rexx!WithTop(b))
<1>1. Len(Stack) \in 1 .. Len(Stack)
    BY DEF StackOK
<1>2. Rexx!WithTop(b) = Append(SubSeq(Stack, 1, Len(Stack) - 1), b)
    BY DEF Rexx!WithTop, Rexx!Front
<1> QED  BY <1>1, <1>2, CutAt

\* The top buffer is a sequence of lines, and so is it without its first one.
LEMMA TopIsLines ==
    ASSUME StackOK
    PROVE  /\ Rexx!Last(Stack) \in Seq(Line)
           /\ Rexx!Last(Stack) # <<>> => /\ Head(Rexx!Last(Stack)) \in Line
                                    /\ Tail(Rexx!Last(Stack)) \in Seq(Line)
<1>1. Rexx!Last(Stack) \in Seq(Line)
    BY DEF Rexx!Last, StackOK
<1> QED  BY <1>1

\* In particular when the top buffer is emptied.
LEMMA EmptyTop == StackOK => Rexx!WithTop(<<>>) \in Seq(Seq(Line)) \ {<<>>} /\ Below(Stack, Rexx!WithTop(<<>>))
<1>1. <<>> \in Seq(Line)
    OBVIOUS
<1> QED  BY <1>1, NewTop

\* An empty queue keeps nothing but its zeroth buffer.
LEMMA PristineKeeps ==
    ASSUME StackOK
    PROVE  Rexx!Pristine \in Seq(Seq(Line)) \ {<<>>} /\ Below(Stack, Rexx!Pristine)
BY DEF Rexx!Pristine, Below, StackOK

\* A queue that is left alone is as it was.
LEMMA SameKeeps == StackOK => Stack \in Seq(Seq(Line)) \ {<<>>} /\ Below(Stack, Stack)
BY DEF Below, StackOK

\* Opening a command's channels empties the top buffer at most.
LEMMA OpenedKeeps ==
    ASSUME StackOK, NEW w
    PROVE  Rexx!Opened(w) \in Seq(Seq(Line)) \ {<<>>} /\ Below(Stack, Rexx!Opened(w))
BY EmptyTop, SameKeeps DEF Rexx!Opened

\* What every step keeps: the type, and what is below the top.
Kept == Rexx!TypeOK' /\ Below(Stack, Stack')

\* The queue as it should be, the command untouched and an answer without lines.
LEMMA QuietKeeps ==
    ASSUME Rexx!TypeOK, Rexx!Program, NEW rc, reply' = Rexx!Said(rc, <<>>),
           Stack' \in Seq(Seq(Line)) \ {<<>>}, Below(Stack, Stack')
    PROVE  Kept
<1>1. reply'.lines \in Seq(Line)
    BY DEF Rexx!Said
<1>2. Copy' \in Seq(Line)
    BY DEF Rexx!Program, Rexx!TypeOK
<1>3. command' = command
    BY DEF Rexx!Program
<1> QED  BY <1>1, <1>2, <1>3 DEF Kept, Rexx!TypeOK

\* PULL takes a line of the topmost buffer that has one, and the empty ones above it.
LEMMA PullKeeps == Rexx!TypeOK /\ Rexx!Pull => Kept
<1> SUFFICES ASSUME Rexx!TypeOK, Rexx!Pull PROVE Kept
    OBVIOUS
<1> USE DEF Rexx!TypeOK, Kept, Rexx!Pull, Rexx!Program, Rexx!Said
<1>0. StackOK
    BY DEF StackOK
<1>1. CASE Stack' = Rexx!Pristine /\ reply' = Rexx!Said(1, <<>>)
    BY <1>0, <1>1, PristineKeeps
<1>2. ASSUME NEW top \in DOMAIN Stack, Stack[top] # <<>>,
             reply' = Rexx!Said(0, <<Head(Stack[top])>>),
             Stack' = Append(SubSeq(Stack, 1, top - 1), Tail(Stack[top]))
      PROVE  Kept
    <2>1. top \in 1 .. Len(Stack) /\ Stack[top] \in Seq(Line)
        BY DEF StackOK
    <2>2. Tail(Stack[top]) \in Seq(Line) /\ Head(Stack[top]) \in Line
        BY <1>2, <2>1
    <2>3. Stack' \in Seq(Seq(Line)) \ {<<>>} /\ Below(Stack, Stack')
        BY <1>0, <1>2, <2>1, <2>2, CutAt
    <2> QED  BY <1>2, <2>2, <2>3, SMTT(30)
<1> QED  BY <1>1, <1>2

\* DROPBUF drops buffers, and changes none of the others.
LEMMA DropBufKeeps ==
    ASSUME NEW n \in Number
    PROVE  Rexx!TypeOK /\ (Rexx!DropBuf(n) \/ Rexx!DropTooMany(n)) => Kept
<1> SUFFICES ASSUME Rexx!TypeOK, Rexx!DropBuf(n) \/ Rexx!DropTooMany(n) PROVE Kept
    OBVIOUS
<1> DEFINE lowest == IF n < 0 THEN Len(Stack) + n ELSE n
           kept == IF lowest <= 0 THEN Rexx!Pristine ELSE SubSeq(Stack, 1, lowest)
           rc == Len(kept) - 1
<1>1. StackOK /\ n \in Int /\ lowest \in Int /\ Len(Stack) \in Nat
    BY ProgramsAssumption DEF Rexx!BuffersAssumption, StackOK, Rexx!TypeOK
<1>2. /\ Rexx!Program
      /\ \/ reply' = Rexx!Said(-2, <<>>) /\ Stack' = Stack
         \/ lowest < Len(Stack) /\ reply' = Rexx!Said(rc, <<>>) /\ Stack' = kept
  <2>1. Rexx!Lowest(n) = lowest
      BY DEF Rexx!Lowest
  <2>2. CASE lowest < 0 /\ Rexx!DropTooMany(n)
    <3>1. lowest <= 0 /\ Len(Rexx!Pristine) - 1 = 0
        BY <1>1, <2>2 DEF Rexx!Pristine
    <3>2. kept = Rexx!Pristine
        BY <3>1
    <3>3. rc = 0
        BY <3>1, <3>2
    <3> HIDE DEF lowest, kept, rc
    <3> QED  BY <1>1, <2>1, <2>2, <3>2, <3>3 DEF Rexx!DropTooMany
  <2>3. CASE Rexx!DropBuf(n)
    <3>1. lowest < 0 \/ lowest >= Len(Stack) \/ kept = IF lowest = 0 THEN Rexx!Pristine ELSE SubSeq(Stack, 1, lowest)
        BY <1>1
    <3>2. rc = Len(kept) - 1
        OBVIOUS
    <3> HIDE DEF lowest, kept, rc
    <3> QED  BY <1>1, <2>1, <2>3, <3>1, <3>2 DEF Rexx!DropBuf
  <2> QED  BY <2>1, <2>2, <2>3 DEF Rexx!DropTooMany
<1>3. kept = IF lowest <= 0 THEN Rexx!Pristine ELSE SubSeq(Stack, 1, lowest)
    OBVIOUS
<1> HIDE DEF lowest, kept, rc
<1>4. CASE reply' = Rexx!Said(-2, <<>>) /\ Stack' = Stack
    <2>1. Stack' \in Seq(Seq(Line)) \ {<<>>} /\ Below(Stack, Stack')
        BY <1>1, <1>4, SameKeeps
    <2> DEFINE missing == -2
    <2>2. Rexx!Program /\ reply' = Rexx!Said(missing, <<>>)
        BY <1>2, <1>4
    <2> HIDE DEF missing
    <2> QED  BY <2>1, <2>2, QuietKeeps
<1>5. CASE lowest < Len(Stack) /\ reply' = Rexx!Said(rc, <<>>) /\ Stack' = kept
    <2>1. CASE lowest <= 0
        <3>1. Stack' \in Seq(Seq(Line)) \ {<<>>} /\ Below(Stack, Stack')
            BY <1>1, <1>3, <1>5, <2>1, PristineKeeps
        <3> QED  BY <1>2, <1>5, <3>1, QuietKeeps
    <2>2. CASE lowest > 0
        <3>1. lowest \in 1 .. Len(Stack) /\ kept = SubSeq(Stack, 1, lowest)
            BY <1>1, <1>3, <1>5, <2>2
        <3>2. Stack' \in Seq(Seq(Line)) \ {<<>>} /\ Below(Stack, Stack')
            BY <1>1, <1>5, <3>1, FirstBuffers
        <3> QED  BY <1>2, <1>5, <3>2, QuietKeeps
    <2> QED  BY <1>1, <2>1, <2>2
<1> QED  BY <1>2, <1>4, <1>5

\* A command is started, or cannot be.
LEMMA StartKeeps ==
    ASSUME NEW w \in Ways
    PROVE  Rexx!TypeOK /\ (Rexx!Start(w) \/ Rexx!FailToStart(w)) => Kept
<1> SUFFICES ASSUME Rexx!TypeOK, Rexx!Start(w) \/ Rexx!FailToStart(w) PROVE Kept
    OBVIOUS
<1>0. StackOK /\ w \in Rexx!Way
    BY ProgramsAssumption DEF Rexx!BuffersAssumption, StackOK, Rexx!TypeOK
<1>1. Stack' \in Seq(Seq(Line)) \ {<<>>} /\ Below(Stack, Stack')
    BY <1>0, OpenedKeeps DEF Rexx!Start, Rexx!FailToStart
<1>2. CASE Rexx!Start(w)
    <2>1. Copy' \in Seq(Line)
        BY <1>0, <1>2, TopIsLines DEF Rexx!Start, Rexx!Way
    <2>2. command' \in [running: BOOLEAN, reads: {"nothing", "queue", "copy"},
                        writes: {"nothing", "lifo", "fifo", "string"}, eof: BOOLEAN]
        BY <1>0, <1>2 DEF Rexx!Start, Rexx!Running, Rexx!Way
    <2> QED  BY <1>1, <1>2, <2>1, <2>2 DEF Rexx!Start, Kept, Rexx!TypeOK, Rexx!Said
<1>3. CASE Rexx!FailToStart(w)
    BY <1>1, <1>3 DEF Rexx!FailToStart, Kept, Rexx!TypeOK, Rexx!Said
<1> QED  BY <1>2, <1>3

\* A command reads a line.
LEMMA FeedKeeps == Rexx!TypeOK /\ (Rexx!FeedFromCopy \/ Rexx!ReadQueue) => Kept
<1> SUFFICES ASSUME Rexx!TypeOK, Rexx!FeedFromCopy \/ Rexx!ReadQueue PROVE Kept
    OBVIOUS
<1>0. StackOK
    BY DEF StackOK, Rexx!TypeOK
<1>1. CASE Rexx!FeedFromCopy
    <2>1. CASE Rexx!AtEof(Copy)
        BY <1>0, <2>1, SameKeeps DEF Rexx!AtEof, Kept, Rexx!TypeOK, Rexx!Said
    <2>2. CASE Rexx!Fed(Copy) /\ Copy' = Tail(Copy) /\ UNCHANGED Stack
        BY <1>0, <2>2, SameKeeps DEF Rexx!Fed, Kept, Rexx!TypeOK, Rexx!Said
    <2> QED  BY <1>1, <2>1, <2>2 DEF Rexx!FeedFromCopy
<1>2. CASE Rexx!ReadQueue
    <2>1. CASE Rexx!AtEof(Rexx!Last(Stack))
        <3>1. Stack' = Stack /\ Copy' = Copy /\ reply'.lines \in Seq(Line)
            BY <2>1 DEF Rexx!AtEof, Rexx!Said
        <3>2. command' = [command EXCEPT !.eof = TRUE]
            BY <2>1 DEF Rexx!AtEof
        <3> QED  BY <1>0, <3>1, <3>2, SameKeeps DEF Kept, Rexx!TypeOK
    <2>2. CASE Rexx!Fed(Rexx!Last(Stack)) /\ Stack' = Rexx!WithTop(Tail(Rexx!Last(Stack))) /\ UNCHANGED Copy
        <3>1. Stack' \in Seq(Seq(Line)) \ {<<>>} /\ Below(Stack, Stack')
            BY <1>0, <2>2, TopIsLines, NewTop DEF Rexx!Fed
        <3>2. reply'.lines \in Seq(Line)
            BY <1>0, <2>2, TopIsLines DEF Rexx!Fed, Rexx!Said
        <3>3. command' = command /\ Copy' = Copy
            BY <2>2 DEF Rexx!Fed
        <3> QED  BY <3>1, <3>2, <3>3 DEF Kept, Rexx!TypeOK
    <2> QED  BY <1>2, <2>1, <2>2 DEF Rexx!ReadQueue
<1> QED  BY <1>1, <1>2

\* A line on top of, or at the bottom of, the top buffer.
LEMMA LineKeeps ==
    ASSUME StackOK, NEW l \in Line,
           Stack' \in {Rexx!WithTop(<<l>> \o Rexx!Last(Stack)), Rexx!WithTop(Append(Rexx!Last(Stack), l))}
    PROVE  Stack' \in Seq(Seq(Line)) \ {<<>>} /\ Below(Stack, Stack')
<1>1. <<l>> \o Rexx!Last(Stack) \in Seq(Line) /\ Append(Rexx!Last(Stack), l) \in Seq(Line)
    BY TopIsLines
<1> QED  BY <1>1, NewTop

\* So does every step.
LEMMA StepKeeps == Rexx!TypeOK /\ [Rexx!Next]_Rexx!vars => Kept
<1> SUFFICES ASSUME Rexx!TypeOK, [Rexx!Next]_Rexx!vars PROVE Kept
    OBVIOUS
<1>0. StackOK
    BY DEF StackOK, Rexx!TypeOK
<1>1. ASSUME NEW l \in Line, Rexx!Push(l) \/ Rexx!Queue(l) PROVE Kept
    <2>1. Stack' \in Seq(Seq(Line)) \ {<<>>} /\ Below(Stack, Stack')
        BY <1>0, <1>1, LineKeeps DEF Rexx!Push, Rexx!Queue
    <2>2. Rexx!Program /\ reply' = Rexx!Said(0, <<>>)
        BY <1>1 DEF Rexx!Push, Rexx!Queue
    <2> QED  BY <2>1, <2>2, QuietKeeps
<1>2. ASSUME NEW l \in Line, Rexx!Crop(l) PROVE Kept
    <2>1. Stack' \in Seq(Seq(Line)) \ {<<>>} /\ Below(Stack, Stack')
        BY <1>0, <1>2, LineKeeps, SameKeeps DEF Rexx!Crop
    <2>2. Copy' \in Seq(Line)
        <3>1. Copy \in Seq(Line)
            BY DEF Rexx!TypeOK
        <3>2. Copy' = Copy \/ Copy' = Append(Copy, l)
            BY <1>2 DEF Rexx!Crop
        <3>3. Append(Copy, l) \in Seq(Line)
            BY <3>1
        <3> QED  BY <3>1, <3>2, <3>3
    <2>3. command' = command /\ reply'.lines \in Seq(Line)
        BY <1>2 DEF Rexx!Crop, Rexx!Said
    <2> QED  BY <2>1, <2>2, <2>3 DEF Kept, Rexx!TypeOK
<1>3. ASSUME NEW n \in Number, Rexx!DropBuf(n) \/ Rexx!DropTooMany(n) PROVE Kept
    BY <1>3, DropBufKeeps
<1>4. CASE Rexx!Pull
    BY <1>4, PullKeeps
<1>5. CASE Rexx!MakeBuf
    <2>1. Stack' \in Seq(Seq(Line)) \ {<<>>} /\ Below(Stack, Stack')
        BY <1>0, <1>5 DEF Rexx!MakeBuf, Below, StackOK
    <2> QED  BY <1>5, <2>1 DEF Rexx!MakeBuf, Rexx!Program, Kept, Rexx!TypeOK, Rexx!Said
<1>6. CASE Rexx!Queued \/ Rexx!BufType
    <2>1. Rexx!Program /\ Stack' = Stack /\ \E rc : reply' = Rexx!Said(rc, <<>>)
        BY <1>6 DEF Rexx!Queued, Rexx!BufType
    <2> QED  BY <1>0, <2>1, SameKeeps, QuietKeeps
<1>7. CASE Rexx!Purge
    BY <1>0, <1>7, PristineKeeps DEF Rexx!Purge, Rexx!Program, Kept, Rexx!TypeOK, Rexx!Said
<1>8. ASSUME NEW w \in Ways, Rexx!Start(w) \/ Rexx!FailToStart(w) PROVE Kept
    BY <1>8, StartKeeps
<1>9. CASE Rexx!FeedFromCopy \/ Rexx!FeedFromQueue \/ Rexx!FeedFromOwnQueue
    BY <1>9, FeedKeeps DEF Rexx!FeedFromQueue, Rexx!FeedFromOwnQueue
<1>10. CASE Rexx!End
    <2>1. Stack' \in Seq(Seq(Line)) \ {<<>>} /\ Below(Stack, Stack')
        BY <1>0, <1>10, EmptyTop, SameKeeps DEF Rexx!End
    <2> QED  BY <1>10, <2>1 DEF Rexx!End, Kept, Rexx!TypeOK, Rexx!Said, Rexx!Idle
<1>11. CASE UNCHANGED Rexx!vars
    BY <1>0, <1>11, SameKeeps DEF Rexx!vars, Kept, Rexx!TypeOK
<1> QED
    BY <1>1, <1>2, <1>3, <1>4, <1>5, <1>6, <1>7, <1>8, <1>9, <1>10, <1>11
    DEF Rexx!Next, Rexx!Finish, Rexx!FinishOwnQueue

\* An implementation of RexxBuffers shows a pile of at least one buffer of lines.
LEMMA SeenTyped == Rexx!Spec => []Rexx!TypeOK
<1>1. Rexx!Init => Rexx!TypeOK
    BY DEF Rexx!Init, Rexx!Pristine, Rexx!Idle, Rexx!Said, Rexx!TypeOK
<1>2. Rexx!TypeOK /\ [Rexx!Next]_Rexx!vars => Rexx!TypeOK'
    BY StepKeeps DEF Kept
<1> QED  BY <1>1, <1>2, PTL DEF Rexx!Spec

\* And no step of it changes a buffer below the top.
LEMMA SeenIsolated == Rexx!Spec => Rexx!BelowUntouched
<1>1. Rexx!TypeOK /\ [Rexx!Next]_Rexx!vars
        => [\A i \in DOMAIN Stack : i < Len(Stack) /\ i < Len(Stack') => Stack'[i] = Stack[i]]_Rexx!vars
    BY StepKeeps DEF Kept, Below
<1> QED  BY <1>1, SeenTyped, PTL DEF Rexx!Spec, Rexx!BelowUntouched

-----------------------------------------------------------------------------
\* The invariant of the memory holds in every state.
THEOREM InvAlways == Spec => []Inv
<1>1. Init => Inv
    BY Started
<1>2. Inv /\ [Next]_vars => Inv'
    BY NextStep, Stutter
<1> QED  BY <1>1, <1>2, PTL DEF Spec

\* Pointers and counters are those of lists that own the memory they link, whatever
\* programs and redirected commands do.
THEOREM LinkedAlways == Spec => []Linked
BY InvAlways, InvLinked, PTL

\* The queue in memory behaves as the queue a program sees.
THEOREM Refines == Spec => Implements
<1>1. Init => Rexx!Init
    BY Started
<1>2. Inv /\ [Next]_vars => [Rexx!Next]_Rexx!vars
    BY NextStep, Stutter
<1> QED  BY <1>1, <1>2, InvAlways, PTL DEF Spec, Implements, Rexx!Spec

\* What a program sees is always a pile of at least one buffer of lines, a command's
\* copy holds lines only, and answers consist of lines.
THEOREM TypeCorrect == Spec => []Rexx!TypeOK
BY Refines, SeenTyped DEF Implements

\* MAKEBUF isolates: no operation and no command changes a buffer below the top.
THEOREM Isolation == Spec => BelowUntouched
BY Refines, SeenIsolated DEF Implements, BelowUntouched
=============================================================================
