--------------------------- MODULE RxStackProofs ---------------------------
(***************************************************************************)
(* Proofs about RxStack, for any number of clients, queues, lines and      *)
(* timeouts. A client that sends something or hangs up while it waits      *)
(* without a deadline (Abandons) may tear a list of waiters; until then    *)
(* the lists are intact, and the rest of the invariant outlives it.        *)
(*                                                                         *)
(* The inductive invariant is stated over the pieces of state a command    *)
(* works on, so that the lemmas apply to the state after the interruption  *)
(* of a wait as well as to the state the action started from.              *)
(***************************************************************************)
EXTENDS RxStack, SequenceTheorems, TLAPS

-----------------------------------------------------------------------------
(* Waiting lists: their elements are not repeated, join at the end and leave from
   anywhere. *)

\* The empty list has no element and repeats none.
LEMMA EmptyList ==
    ToSet(<<>>) = {} /\ IsInjective(<<>>)
BY DEF ToSet, IsInjective

\* A list has an element exactly if it is not empty, its head for one.
LEMMA HeadInList ==
    ASSUME NEW S, NEW s \in Seq(S), s # <<>>
    PROVE  Head(s) \in ToSet(s) /\ Head(s) \in S
BY DEF ToSet

\* A newcomer joins the end of a list without repetition.
LEMMA JoinList ==
    ASSUME NEW S, NEW s \in Seq(S), NEW c \in S
    PROVE  /\ Append(s, c) \in Seq(S)
           /\ ToSet(Append(s, c)) = ToSet(s) \cup {c}
           /\ IsInjective(s) /\ c \notin ToSet(s) => IsInjective(Append(s, c))
<1> DEFINE t == Append(s, c)
<1>1. /\ t \in Seq(S) /\ Len(t) = Len(s) + 1
      /\ \A i \in 1..Len(s) : t[i] = s[i]
      /\ t[Len(s) + 1] = c
    OBVIOUS
<1>2. DOMAIN t = 1..(Len(s) + 1) /\ DOMAIN s = 1..Len(s) /\ Len(s) \in Nat
    BY <1>1
<1>3. ToSet(t) = ToSet(s) \cup {c}
    BY <1>1, <1>2 DEF ToSet
<1>4. ASSUME IsInjective(s), c \notin ToSet(s)  PROVE IsInjective(t)
    BY <1>1, <1>2, <1>4 DEF ToSet, IsInjective
<1> QED  BY <1>1, <1>3, <1>4

\* Taking the element at position k out of a list.
LEMMA TakeOutAt ==
    ASSUME NEW S, NEW s \in Seq(S), NEW k \in 1..Len(s)
    PROVE  /\ RemoveAt(s, k) \in Seq(S)
           /\ Len(RemoveAt(s, k)) = Len(s) - 1
           /\ \A i \in 1..(Len(s) - 1) :
                 RemoveAt(s, k)[i] = IF i < k THEN s[i] ELSE s[i + 1]
<1> DEFINE l == SubSeq(s, 1, k - 1)
           r == SubSeq(s, k + 1, Len(s))
<1>1. l \in Seq(S) /\ Len(l) = k - 1 /\ \A i \in 1..(k - 1) : l[i] = s[i]
    OBVIOUS
<1>2. r \in Seq(S) /\ Len(r) = Len(s) - k /\ \A i \in 1..(Len(s) - k) : r[i] = s[k + i]
    OBVIOUS
<1>3. RemoveAt(s, k) = l \o r
    BY DEF RemoveAt
<1> HIDE DEF l, r
<1>4. /\ l \o r \in Seq(S) /\ Len(l \o r) = Len(s) - 1
      /\ \A i \in 1..(Len(s) - 1) : (l \o r)[i] = IF i <= k - 1 THEN l[i] ELSE r[i - (k - 1)]
  <2>1. Len(l) \in Nat /\ Len(r) \in Nat /\ Len(l) + Len(r) = Len(s) - 1
      BY <1>1, <1>2
  <2>2. /\ l \o r \in Seq(S) /\ Len(l \o r) = Len(l) + Len(r)
        /\ \A i \in 1..(Len(l) + Len(r)) :
              (l \o r)[i] = IF i <= Len(l) THEN l[i] ELSE r[i - Len(l)]
      BY <1>1, <1>2, ConcatProperties
  <2> QED  BY <1>1, <2>1, <2>2
<1>5. ASSUME NEW i \in 1..(Len(s) - 1)
      PROVE  (l \o r)[i] = IF i < k THEN s[i] ELSE s[i + 1]
  <2>1. CASE i < k
      BY <2>1, <1>1, <1>4
  <2>2. CASE i >= k
    <3>1. i - (k - 1) \in 1..(Len(s) - k) /\ k + (i - (k - 1)) = i + 1
        BY <2>2
    <3> QED  BY <2>2, <3>1, <1>2, <1>4
  <2>3. i < k \/ i >= k
      OBVIOUS
  <2> QED  BY <2>1, <2>2, <2>3, Zenon
<1> QED  BY <1>3, <1>4, <1>5

\* Taking an element out of a list without repetition leaves all the others.
LEMMA LeaveList ==
    ASSUME NEW S, NEW s \in Seq(S), NEW c, IsInjective(s)
    PROVE  /\ RemoveFirst(s, c) \in Seq(S)
           /\ ToSet(RemoveFirst(s, c)) = ToSet(s) \ {c}
           /\ IsInjective(RemoveFirst(s, c))
<1>1. CASE ~ \E i \in 1..Len(s) : s[i] = c
    BY <1>1 DEF RemoveFirst, ToSet
<1>2. CASE \E i \in 1..Len(s) : s[i] = c
  <2>1. PICK k \in 1..Len(s) : s[k] = c
      BY <1>2
  <2>2. {i \in 1..Len(s) : s[i] = c} = {k}
      BY <2>1 DEF IsInjective
  <2>3. SelectInSeq(s, LAMBDA v : v = c) = k
    <3>1. (CHOOSE x \in {k} : \A y \in {k} : x <= y) = k
        OBVIOUS
    <3> QED  BY <2>2, <3>1 DEF SelectInSeq, Min
  <2>4. RemoveFirst(s, c) = RemoveAt(s, k)
      BY <1>2, <2>3 DEF RemoveFirst
  <2> DEFINE t == RemoveAt(s, k)
  <2>5. /\ t \in Seq(S) /\ Len(t) = Len(s) - 1
        /\ \A i \in 1..(Len(s) - 1) : t[i] = IF i < k THEN s[i] ELSE s[i + 1]
      BY TakeOutAt
  <2> HIDE DEF t
  <2>6. DOMAIN t = 1..(Len(s) - 1) /\ DOMAIN s = 1..Len(s) /\ Len(s) \in Nat
      BY <2>5
  <2>7. IsInjective(t)
    <3>1. ASSUME NEW i \in 1..(Len(s) - 1), NEW j \in 1..(Len(s) - 1), t[i] = t[j]
          PROVE  i = j
      <4> DEFINE at(x) == IF x < k THEN x ELSE x + 1
      <4>1. at(i) \in DOMAIN s /\ at(j) \in DOMAIN s
          BY <2>6
      <4>2. t[i] = s[at(i)] /\ t[j] = s[at(j)]
          BY <2>5
      <4>3. at(i) = at(j)
          BY <3>1, <4>1, <4>2 DEF IsInjective
      <4> QED  BY <4>3
    <3> QED  BY <3>1, <2>6 DEF IsInjective
  <2>8. ToSet(t) \subseteq ToSet(s) \ {c}
      BY <2>1, <2>5, <2>6 DEF ToSet, IsInjective
  <2>9. ASSUME NEW d \in ToSet(s) \ {c}  PROVE d \in ToSet(t)
    <3>1. PICK j \in 1..Len(s) : s[j] = d /\ j # k
        BY <2>1, <2>6 DEF ToSet
    <3>2. CASE j < k
        BY <3>1, <3>2, <2>5, <2>6, SMTT(30) DEF ToSet
    <3>3. CASE j > k
      <4>1. j - 1 \in 1..(Len(s) - 1) /\ t[j - 1] = d
          BY <3>1, <3>3, <2>5, <2>6
      <4> QED  BY <4>1, <2>6 DEF ToSet
    <3> QED  BY <3>1, <3>2, <3>3
  <2> QED  BY <2>4, <2>5, <2>7, <2>8, <2>9 DEF t
<1> QED  BY <1>1, <1>2

-----------------------------------------------------------------------------

Outs == [Client -> Seq([code : 0..9, data : AnswerData])]

QueuesOK(C, D, Q) ==
    /\ DOMAIN Q \subseteq QName
    /\ \A n \in DOMAIN Q : Q[n] \in QueueRec
    /\ Session \in DOMAIN Q /\ Q[Session].real
    /\ \A c \in C : D[c] \in DOMAIN Q

ListsOK(C, Q) ==
    /\ \A n \in DOMAIN Q : ToSet(Q[n].waiters) \subseteq C
    /\ \A n \in DOMAIN Q : IsInjective(Q[n].waiters)
    /\ \A m, n \in DOMAIN Q : m # n => ToSet(Q[m].waiters) \cap ToSet(Q[n].waiters) = {}

FedOK(Q) == \A n \in DOMAIN Q : Q[n].waiters # <<>> => Q[n].buf = <<>>

Unlisted(c, Q) == \A n \in DOMAIN Q : c \notin ToSet(Q[n].waiters)

DeadlinesOK(C, D, L, Q) ==
    \A c \in Client : L[c] # NoDeadline =>
        c \in C /\ D[c] \in DOMAIN Q /\ c \in ToSet(Q[D[c]].waiters)

\* What holds of the state even after a step that has torn a list.
HalfOK(C, D, L, Q) ==
    /\ C \subseteq Client
    /\ D \in [Client -> QName]
    /\ L \in [Client -> Nat \cup {NoDeadline}]
    /\ QueuesOK(C, D, Q)
    /\ FedOK(Q)
    /\ DeadlinesOK(C, D, L, Q)

StateOK(C, D, L, Q) ==
    /\ C \subseteq Client
    /\ D \in [Client -> QName]
    /\ L \in [Client -> Nat \cup {NoDeadline}]
    /\ QueuesOK(C, D, Q)
    /\ ListsOK(C, Q)
    /\ FedOK(Q)
    /\ DeadlinesOK(C, D, L, Q)

\* unique_name() is ahead of every queue name of its making.
IssuedOK(Q, is) == \A n \in DOMAIN Q : n \in Fresh => n \in is

\* The inductive invariant, and what it is while the lists are intact.
HInv == /\ TypeOK
        /\ HalfOK(clients, dflt, left, queue)
        /\ IssuedOK(queue, issued)

IInv == /\ TypeOK
        /\ StateOK(clients, dflt, left, queue)
        /\ IssuedOK(queue, issued)

\* Lists that are intact make the whole of the state sound.
LEMMA Whole == IInv <=> HInv /\ Intact
BY DEF IInv, HInv, StateOK, HalfOK, ListsOK, Intact

-----------------------------------------------------------------------------
(* The queue operations keep StateOK.                                      *)

\* dequeue_waiter: the client leaves its list, and its deadline is dropped.
LEMMA DequeueKeeps ==
    ASSUME NEW C, NEW D, NEW L, NEW Q, StateOK(C, D, L, Q),
           NEW n \in DOMAIN Q, NEW c \in Client,
           c \in ToSet(Q[n].waiters) \/ Unlisted(c, Q)
    PROVE  /\ StateOK(C, D, [L EXCEPT ![c] = NoDeadline], Dequeue(Q, n, c))
           /\ Unlisted(c, Dequeue(Q, n, c))
           /\ DOMAIN Dequeue(Q, n, c) = DOMAIN Q
<1> DEFINE R == Dequeue(Q, n, c)
           M == [L EXCEPT ![c] = NoDeadline]
           w == RemoveFirst(Q[n].waiters, c)
<1>1. Q[n].waiters \in Seq(Client) /\ IsInjective(Q[n].waiters)
    BY DEF StateOK, QueuesOK, ListsOK, QueueRec
<1>2. w \in Seq(Client) /\ ToSet(w) = ToSet(Q[n].waiters) \ {c} /\ IsInjective(w)
    BY <1>1, LeaveList
<1>3. /\ DOMAIN R = DOMAIN Q
      /\ R[n] = [Q[n] EXCEPT !.waiters = w]
      /\ \A m \in DOMAIN Q : m # n => R[m] = Q[m]
    BY DEF Dequeue
<1>4. Q[n] \in QueueRec
    BY DEF StateOK, QueuesOK
<1>5. /\ R[n].waiters = w /\ R[n].buf = Q[n].buf /\ R[n].real = Q[n].real
      /\ R[n] \in QueueRec
    BY <1>2, <1>3, <1>4 DEF QueueRec
<1> HIDE DEF R, w
<1>6. QueuesOK(C, D, R)
    BY <1>3, <1>5 DEF StateOK, QueuesOK
<1>7. \A m \in DOMAIN Q : ToSet(R[m].waiters) = ToSet(Q[m].waiters) \ {c}
  <2> SUFFICES ASSUME NEW m \in DOMAIN Q, m # n
               PROVE  c \notin ToSet(Q[m].waiters)
      BY <1>2, <1>3, <1>5
  <2> QED  BY DEF StateOK, ListsOK, Unlisted
<1>8. ListsOK(C, R)
    BY <1>2, <1>3, <1>5, <1>7 DEF StateOK, ListsOK
<1>9. FedOK(R)
  <2>1. ASSUME w # <<>>  PROVE Q[n].waiters # <<>>
      BY <2>1, <1>2, EmptyList DEF ToSet, w, RemoveFirst
  <2> QED  BY <2>1, <1>3, <1>5 DEF StateOK, FedOK
<1>10. DeadlinesOK(C, D, M, R)
    BY <1>3, <1>7 DEF StateOK, DeadlinesOK
<1>11. Unlisted(c, R)
    BY <1>3, <1>7 DEF Unlisted
<1>13. M \in [Client -> Nat \cup {NoDeadline}]
    BY DEF StateOK
<1> QED  BY <1>3, <1>6, <1>8, <1>9, <1>10, <1>11, <1>13 DEF StateOK, R

\* empty_queue for the queues of S: their waiters are let go.
LEMMA ClearKeeps ==
    ASSUME NEW C, NEW D, NEW L, NEW Q, StateOK(C, D, L, Q),
           NEW S \in SUBSET DOMAIN Q
    PROVE  /\ StateOK(C, D, NoLonger(L, WaitersOf(Q, S)), Cleared(Q, S))
           /\ \A c \in Client : Unlisted(c, Q) => Unlisted(c, Cleared(Q, S))
           /\ \A c \in WaitersOf(Q, S) : Unlisted(c, Cleared(Q, S))
           /\ \A n \in S : Cleared(Q, S)[n].waiters = <<>>
           /\ WaitersOf(Q, S) \subseteq Client
<1> DEFINE R == Cleared(Q, S)
           told == WaitersOf(Q, S)
           M == NoLonger(L, told)
<1>1. /\ DOMAIN R = DOMAIN Q
      /\ \A n \in DOMAIN Q \ S : R[n] = Q[n]
      /\ \A n \in S : R[n] = [Q[n] EXCEPT !.buf = <<>>, !.waiters = <<>>]
    BY DEF Cleared
<1>2. \A n \in S : /\ R[n].waiters = <<>> /\ R[n].buf = <<>>
                   /\ R[n].real = Q[n].real /\ R[n] \in QueueRec
  <2> TAKE n \in S
  <2>1. Q[n] \in QueueRec
      BY DEF StateOK, QueuesOK
  <2>2. <<>> \in Seq(Line) /\ <<>> \in Seq(Client)
      OBVIOUS
  <2>3. R[n] = [Q[n] EXCEPT !.buf = <<>>, !.waiters = <<>>]
      BY <1>1
  <2> HIDE DEF R
  <2> QED  BY <2>1, <2>2, <2>3 DEF QueueRec
<1> HIDE DEF R
<1>3. QueuesOK(C, D, R)
    BY <1>1, <1>2 DEF StateOK, QueuesOK
<1>4. \A n \in S : ToSet(R[n].waiters) = {} /\ IsInjective(R[n].waiters)
    BY <1>2, EmptyList
<1>5. \A n \in DOMAIN Q : n \notin S => R[n] = Q[n]
    BY <1>1
<1>6. ListsOK(C, R)
  <2>1. \A n \in DOMAIN R : ToSet(R[n].waiters) \subseteq ToSet(Q[n].waiters)
                            /\ IsInjective(R[n].waiters)
      BY <1>1, <1>4, <1>5 DEF StateOK, ListsOK
  <2> QED  BY <2>1, <1>1 DEF StateOK, ListsOK
<1>7. FedOK(R)
    BY <1>1, <1>2, <1>5 DEF StateOK, FedOK
<1>8. told \subseteq Client
    BY DEF WaitersOf, StateOK, ListsOK
<1>9. \A c \in told : Unlisted(c, R)
  <2> SUFFICES ASSUME NEW c \in told, NEW n \in DOMAIN R, c \in ToSet(R[n].waiters)
               PROVE  FALSE
      BY DEF Unlisted
  <2>1. PICK m \in S : c \in ToSet(Q[m].waiters)
      BY DEF WaitersOf
  <2>2. n \notin S /\ c \in ToSet(Q[n].waiters)
      BY <1>1, <1>4, <1>5
  <2> QED  BY <2>1, <2>2, <1>1 DEF StateOK, ListsOK
<1>10. \A c \in Client : Unlisted(c, Q) => Unlisted(c, R)
    BY <1>1, <1>4, <1>5 DEF Unlisted
<1>11. M \in [Client -> Nat \cup {NoDeadline}]
    BY DEF StateOK, NoLonger
<1>12. \A c \in Client : M[c] = IF c \in told THEN NoDeadline ELSE L[c]
    BY DEF NoLonger
<1> HIDE DEF M
<1>13. DeadlinesOK(C, D, M, R)
  <2> SUFFICES ASSUME NEW c \in Client, M[c] # NoDeadline
               PROVE  c \in C /\ D[c] \in DOMAIN R /\ c \in ToSet(R[D[c]].waiters)
      BY DEF DeadlinesOK
  <2>1. c \notin told /\ L[c] # NoDeadline
      BY <1>12
  <2>2. c \in C /\ D[c] \in DOMAIN Q /\ c \in ToSet(Q[D[c]].waiters)
      BY <2>1 DEF StateOK, DeadlinesOK
  <2>3. D[c] \notin S
      BY <2>1, <2>2 DEF WaitersOf
  <2> QED  BY <2>2, <2>3, <1>1, <1>5
<1> QED  BY <1>1, <1>2, <1>3, <1>6, <1>7, <1>8, <1>9, <1>10, <1>11, <1>13
         DEF StateOK, R, M

\* delete_a_queue for the queues of S: nobody waits on them any more, and the
\* clients that used them have SESSION again.
LEMMA DeleteKeeps ==
    ASSUME NEW C, NEW D, NEW L, NEW Q, StateOK(C, D, L, Q),
           Session \in QName, NEW S \in SUBSET DOMAIN Q
    PROVE  /\ StateOK(C, DeletedFrom(D, S), NoLonger(L, WaitersOf(Q, S)), Deleted(Q, S))
           /\ \A c \in Client : Unlisted(c, Q) => Unlisted(c, Deleted(Q, S))
           /\ WaitersOf(Q, S) \subseteq Client
<1> DEFINE K == Cleared(Q, S)
           R == Deleted(Q, S)
           E == DeletedFrom(D, S)
           told == WaitersOf(Q, S)
           M == NoLonger(L, told)
<1>1. /\ StateOK(C, D, M, K)
      /\ \A c \in Client : Unlisted(c, Q) => Unlisted(c, K)
      /\ \A c \in told : Unlisted(c, K)
      /\ \A n \in S : K[n].waiters = <<>>
      /\ told \subseteq Client
    BY ClearKeeps
<1>2. DOMAIN K = DOMAIN Q
    BY DEF Cleared
<1> HIDE DEF K
<1>3. /\ DOMAIN R = DOMAIN Q \ (S \ {Session})
      /\ \A n \in DOMAIN R : n \in DOMAIN K /\ R[n] = K[n]
    BY <1>2 DEF Deleted, Unlink, K
<1>4. /\ E \in [Client -> QName]
      /\ \A c \in Client : E[c] = IF D[c] \in S \ {Session} THEN Session ELSE D[c]
    BY DEF DeletedFrom, StateOK
<1> HIDE DEF R, E, M
<1>5. QueuesOK(C, E, R)
    BY <1>1, <1>2, <1>3, <1>4 DEF StateOK, QueuesOK
<1>6. ListsOK(C, R)
    BY <1>1, <1>3 DEF StateOK, ListsOK
<1>7. FedOK(R)
    BY <1>1, <1>3 DEF StateOK, FedOK
<1>8. \A c \in Client : Unlisted(c, K) => Unlisted(c, R)
    BY <1>3 DEF Unlisted
<1>9. DeadlinesOK(C, E, M, R)
  <2> SUFFICES ASSUME NEW c \in Client, M[c] # NoDeadline
               PROVE  c \in C /\ E[c] \in DOMAIN R /\ c \in ToSet(R[E[c]].waiters)
      BY DEF DeadlinesOK
  <2>1. c \in C /\ D[c] \in DOMAIN K /\ c \in ToSet(K[D[c]].waiters)
      BY <1>1 DEF StateOK, DeadlinesOK
  <2>2. D[c] \notin S
      BY <2>1, <1>1, EmptyList
  <2> QED  BY <2>1, <2>2, <1>2, <1>3, <1>4
<1>11. StateOK(C, E, M, R)
    BY <1>1, <1>4, <1>5, <1>6, <1>7, <1>9 DEF StateOK
<1> QED  BY <1>1, <1>8, <1>11 DEF R, E, M

\* A queue that did not exist is linked, empty.
LEMMA LinkKeeps ==
    ASSUME NEW C, NEW D, NEW L, NEW Q, StateOK(C, D, L, Q),
           NEW n \in QName \ DOMAIN Q, NEW q \in QueueRec,
           q.buf = <<>>, q.waiters = <<>>
    PROVE  /\ StateOK(C, D, L, Link(Q, n, q))
           /\ \A c \in Client : Unlisted(c, Q) => Unlisted(c, Link(Q, n, q))
           /\ DOMAIN Link(Q, n, q) = DOMAIN Q \cup {n}
<1> DEFINE R == Link(Q, n, q)
<1>1. /\ DOMAIN R = DOMAIN Q \cup {n}
      /\ R[n] = q
      /\ \A m \in DOMAIN Q : R[m] = Q[m]
    BY DEF Link
<1>2. ToSet(R[n].waiters) = {} /\ IsInjective(R[n].waiters)
    BY <1>1, EmptyList
<1> HIDE DEF R
<1>3. QueuesOK(C, D, R)
    BY <1>1 DEF StateOK, QueuesOK
<1>4. ListsOK(C, R)
    BY <1>1, <1>2 DEF StateOK, ListsOK
<1>5. FedOK(R)
    BY <1>1 DEF StateOK, FedOK
<1>6. DeadlinesOK(C, D, L, R)
    BY <1>1 DEF StateOK, DeadlinesOK
<1>7. \A c \in Client : Unlisted(c, Q) => Unlisted(c, R)
    BY <1>1, <1>2 DEF Unlisted
<1> QED  BY <1>1, <1>3, <1>4, <1>5, <1>6, <1>7 DEF StateOK, R

\* R differs from Q in buffers and in reality only; queues with waiters keep
\* their buffers, and no queue loses its reality.
SameAs(Q, R) ==
    /\ DOMAIN R = DOMAIN Q
    /\ \A n \in DOMAIN Q : /\ R[n] \in QueueRec
                           /\ R[n].waiters = Q[n].waiters
                           /\ R[n].real = Q[n].real \/ R[n].real = TRUE
                           /\ R[n].buf = Q[n].buf \/ Q[n].waiters = <<>>

LEMMA SameLists ==
    ASSUME NEW C, NEW D, NEW L, NEW Q, StateOK(C, D, L, Q),
           NEW R, SameAs(Q, R)
    PROVE  /\ StateOK(C, D, L, R)
           /\ \A c \in Client : Unlisted(c, Q) => Unlisted(c, R)
<1>1. QueuesOK(C, D, R)
    BY DEF StateOK, QueuesOK, SameAs
<1>2. ListsOK(C, R)
    BY DEF StateOK, ListsOK, SameAs
<1>3. FedOK(R)
    BY DEF StateOK, FedOK, SameAs
<1>4. DeadlinesOK(C, D, L, R)
    BY DEF StateOK, DeadlinesOK, SameAs
<1> QED  BY <1>1, <1>2, <1>3, <1>4 DEF StateOK, Unlisted, SameAs

\* A client that waits nowhere joins the list of its default queue, which is empty.
LEMMA EnlistKeeps ==
    ASSUME NEW C, NEW D, NEW L, NEW Q, StateOK(C, D, L, Q),
           NEW c \in C, Unlisted(c, Q), Q[D[c]].buf = <<>>,
           NEW d \in Nat \cup {NoDeadline}
    PROVE  StateOK(C, D, [L EXCEPT ![c] = d], Enlist(Q, D[c], c))
<1> DEFINE n == D[c]
           R == Enlist(Q, n, c)
           w == Append(Q[n].waiters, c)
           M == [L EXCEPT ![c] = d]
<1>0. c \in Client /\ n \in DOMAIN Q /\ Q[n] \in QueueRec
    BY DEF StateOK, QueuesOK
<1>1. Q[n].waiters \in Seq(Client) /\ IsInjective(Q[n].waiters) /\ c \notin ToSet(Q[n].waiters)
    BY <1>0 DEF StateOK, ListsOK, QueueRec, Unlisted
<1>2. w \in Seq(Client) /\ ToSet(w) = ToSet(Q[n].waiters) \cup {c} /\ IsInjective(w)
    BY <1>0, <1>1, JoinList
<1>3. /\ DOMAIN R = DOMAIN Q
      /\ R[n] = [Q[n] EXCEPT !.waiters = w]
      /\ \A m \in DOMAIN Q : m # n => R[m] = Q[m]
    BY <1>0 DEF Enlist
<1>4. /\ R[n].waiters = w /\ R[n].buf = Q[n].buf /\ R[n].real = Q[n].real
      /\ R[n] \in QueueRec
    BY <1>0, <1>2, <1>3 DEF QueueRec
<1> HIDE DEF R, w
<1>5. QueuesOK(C, D, R)
    BY <1>3, <1>4 DEF StateOK, QueuesOK
<1>6. /\ \A m \in DOMAIN Q : m # n => ToSet(R[m].waiters) = ToSet(Q[m].waiters)
                                      /\ c \notin ToSet(R[m].waiters)
      /\ ToSet(R[n].waiters) = ToSet(Q[n].waiters) \cup {c}
    BY <1>2, <1>3, <1>4 DEF Unlisted
<1>7. ListsOK(C, R)
  <2>1. \A m \in DOMAIN R : ToSet(R[m].waiters) \subseteq C /\ IsInjective(R[m].waiters)
      BY <1>2, <1>3, <1>4, <1>6, ZenonT(30) DEF StateOK, ListsOK
  <2>2. ASSUME NEW l \in DOMAIN R, NEW m \in DOMAIN R, l # m
        PROVE  ToSet(R[l].waiters) \cap ToSet(R[m].waiters) = {}
    <3>1. ToSet(Q[l].waiters) \cap ToSet(Q[m].waiters) = {}
        BY <2>2, <1>3 DEF StateOK, ListsOK
    <3>2. CASE l # n /\ m # n
        BY <3>1, <3>2, <1>3, <1>6
    <3>3. CASE l = n
        BY <2>2, <3>1, <3>3, <1>3, <1>6
    <3>4. CASE m = n
        BY <2>2, <3>1, <3>4, <1>3, <1>6
    <3> QED  BY <3>2, <3>3, <3>4
  <2> QED  BY <2>1, <2>2 DEF ListsOK
<1>8. FedOK(R)
    BY <1>3, <1>4 DEF StateOK, FedOK
<1>9. /\ M \in [Client -> Nat \cup {NoDeadline}]
      /\ \A e \in Client : e # c => M[e] = L[e]
    BY <1>0 DEF StateOK
<1>10. DeadlinesOK(C, D, M, R)
    BY <1>0, <1>3, <1>6, <1>9 DEF StateOK, DeadlinesOK
<1>12. StateOK(C, D, M, R)
    BY <1>5, <1>7, <1>8, <1>9, <1>10 DEF StateOK
<1> QED  BY <1>12 DEF R

\* Whoever joins the list of its default queue, linked somewhere already or not.
LEMMA EnlistHalf ==
    ASSUME NEW C, NEW D, NEW L, NEW Q, StateOK(C, D, L, Q),
           NEW c \in C, Q[D[c]].buf = <<>>,
           NEW d \in Nat \cup {NoDeadline}
    PROVE  HalfOK(C, D, [L EXCEPT ![c] = d], Enlist(Q, D[c], c))
<1> DEFINE n == D[c]
           R == Enlist(Q, n, c)
           w == Append(Q[n].waiters, c)
           M == [L EXCEPT ![c] = d]
<1>1. c \in Client /\ n \in DOMAIN Q /\ Q[n] \in QueueRec /\ Q[n].waiters \in Seq(Client)
    BY DEF StateOK, QueuesOK, QueueRec
<1>2. w \in Seq(Client) /\ ToSet(Q[n].waiters) \subseteq ToSet(w) /\ c \in ToSet(w)
  <2> DEFINE s == Q[n].waiters
  <2>1. /\ Len(s) \in Nat /\ DOMAIN s = 1..Len(s) /\ DOMAIN w = 1..(Len(s) + 1) /\ w \in Seq(Client)
        /\ \A i \in 1..Len(s) : w[i] = s[i]
        /\ w[Len(s) + 1] = c
      BY <1>1
  <2> HIDE DEF w, s
  <2> QED  BY <2>1 DEF ToSet, s
<1>3. /\ DOMAIN R = DOMAIN Q
      /\ R[n] = [Q[n] EXCEPT !.waiters = w]
      /\ \A m \in DOMAIN Q : m # n => R[m] = Q[m]
    BY <1>1 DEF Enlist
<1> HIDE DEF w, R
<1>4. /\ R[n].waiters = w /\ R[n].buf = Q[n].buf /\ R[n].real = Q[n].real
      /\ R[n] \in QueueRec
    BY <1>1, <1>2, <1>3 DEF QueueRec
<1>5. QueuesOK(C, D, R)
    BY <1>3, <1>4 DEF StateOK, QueuesOK
<1>6. FedOK(R)
    BY <1>3, <1>4 DEF StateOK, FedOK
<1>7. /\ M \in [Client -> Nat \cup {NoDeadline}]
      /\ \A e \in Client : e # c => M[e] = L[e]
    BY <1>1 DEF StateOK
<1>8. \A m \in DOMAIN Q : ToSet(Q[m].waiters) \subseteq ToSet(R[m].waiters)
    BY <1>2, <1>3, <1>4
<1>9. DeadlinesOK(C, D, M, R)
    BY <1>1, <1>2, <1>3, <1>4, <1>7, <1>8 DEF StateOK, DeadlinesOK
<1>10. HalfOK(C, D, M, R)
    BY <1>5, <1>6, <1>7, <1>9 DEF StateOK, HalfOK
<1> QED  BY <1>10 DEF R

-----------------------------------------------------------------------------
(* Every command keeps the invariant.                                      *)

RestOK(tm, is, ru, ou) ==
    /\ tm \in [Client -> Timeout \cup {Forever, AtOnce}]
    /\ is \subseteq Fresh
    /\ ru \in BOOLEAN
    /\ ou \in Outs

\* What holds when a command of c is carried out. The client may still be linked in a
\* list, if it has waited without a deadline.
Before(c, Q, L, O) ==
    /\ TypeOK
    /\ c \in clients
    /\ StateOK(clients, dflt, L, Q)
    /\ L[c] = NoDeadline
    /\ O \in Outs

\* The client is in no list of waiters (any more).
Alone(c, Q, L, O) == Before(c, Q, L, O) /\ Unlisted(c, Q)

After == /\ StateOK(clients', dflt', left', queue')
         /\ RestOK(tmo', issued', running', out')

\* After a command that has torn a list.
Tore == /\ HalfOK(clients', dflt', left', queue')
        /\ RestOK(tmo', issued', running', out')

\* An answer put into a client's socket.
LEMMA ReplyType ==
    ASSUME NEW O \in Outs, NEW c \in Client, NEW code \in 0..9, NEW data \in AnswerData
    PROVE  Reply(O, c, Answer(code, data)) \in Outs
<1> DEFINE A == [code : 0..9, data : AnswerData]
           a == Answer(code, data)
<1>1. a \in A
    BY DEF Answer
<1>2. O[c] \in Seq(A)
    BY DEF Outs
<1> HIDE DEF a, A
<1>3. Append(O[c], a) \in Seq(A)
    BY <1>1, <1>2
<1> QED  BY <1>3 DEF Reply, Outs, A, a

\* The code 4 sent to waiters that get no data.
LEMMA BadNewsType ==
    ASSUME NEW O \in Outs, NEW S
    PROVE  BadNews(O, S) \in Outs
<1> DEFINE A == [code : 0..9, data : AnswerData]
           a == Answer(4, NoArg)
<1>1. a \in A
    BY DEF Answer, AnswerData
<1>2. \A c \in Client : O[c] \in Seq(A)
    BY DEF Outs
<1> HIDE DEF a, A
<1>3. \A c \in Client : Append(O[c], a) \in Seq(A)
    BY <1>1, <1>2
<1> QED  BY <1>2, <1>3 DEF BadNews, Outs, A, a

LEMMA QueueDataKeeps ==
    ASSUME NEW c, NEW Q, NEW L, NEW O, Before(c, Q, L, O),
           NEW op, NEW line \in Line, QueueData(c, op, line, Q, L, O)
    PROVE  After
<1> DEFINE n == dflt[c]
           w == Head(Q[n].waiters)
<1>1. /\ c \in Client /\ n \in DOMAIN Q /\ Q[n] \in QueueRec
      /\ Q[n].waiters \in Seq(Client) /\ Q[n].buf \in Seq(Line)
      /\ RestOK(tmo, issued, running, O)
    BY DEF Before, TypeOK, StateOK, QueuesOK, QueueRec, RestOK
<1>2. UNCHANGED <<clients, dflt, tmo, issued, running>>
    BY DEF QueueData
<1>3. 0 \in 0..9 /\ line \in AnswerData /\ NoArg \in AnswerData
    BY DEF AnswerData
<1>4. CASE Q[n].waiters # <<>>
  <2>1. w \in ToSet(Q[n].waiters) /\ w \in Client
      BY <1>1, <1>4, HeadInList
  <2>2. StateOK(clients, dflt, left', queue')
    <3>1. queue' = Dequeue(Q, n, w) /\ left' = [L EXCEPT ![w] = NoDeadline]
        BY <1>4 DEF QueueData
    <3> QED  BY <3>1, <2>1, <1>1, DequeueKeeps DEF Before
  <2>3. out' \in Outs
    <3>1. Reply(O, w, Answer(0, line)) \in Outs
        BY <1>1, <1>3, <2>1, ReplyType DEF RestOK
    <3>2. out' = Reply(Reply(O, w, Answer(0, line)), c, Answer(0, NoArg))
        BY <1>4 DEF QueueData
    <3> QED  BY <3>1, <3>2, <1>1, <1>3, ReplyType
  <2> QED  BY <2>2, <2>3, <1>1, <1>2 DEF After, RestOK
<1>5. CASE Q[n].waiters = <<>>
  <2> DEFINE b == IF op = "F" THEN Append(Q[n].buf, line) ELSE <<line>> \o Q[n].buf
  <2>1. b \in Seq(Line)
      BY <1>1
  <2>2. queue' = [Q EXCEPT ![n].buf = b] /\ left' = L
      BY <1>5 DEF QueueData
  <2> HIDE DEF b
  <2>3. /\ DOMAIN queue' = DOMAIN Q
        /\ queue'[n] = [Q[n] EXCEPT !.buf = b]
        /\ \A m \in DOMAIN Q : m # n => queue'[m] = Q[m]
      BY <2>2, <1>1
  <2>4. /\ queue'[n].waiters = Q[n].waiters /\ queue'[n].real = Q[n].real
        /\ queue'[n] \in QueueRec
      BY <2>1, <2>3, <1>1 DEF QueueRec
  <2>5. \A m \in DOMAIN Q : Q[m] \in QueueRec
      BY DEF Before, StateOK, QueuesOK
  <2>6. StateOK(clients, dflt, L, queue')
    <3>1. SameAs(Q, queue')
        BY <2>3, <2>4, <2>5, <1>5 DEF SameAs
    <3> QED  BY <3>1, SameLists DEF Before
  <2>7. out' \in Outs
    <3>1. out' = Reply(O, c, Answer(0, NoArg))
        BY <1>5 DEF QueueData
    <3> QED  BY <3>1, <1>1, <1>3, ReplyType DEF RestOK
  <2> QED  BY <2>2, <2>6, <2>7, <1>1, <1>2 DEF After, RestOK
<1> QED  BY <1>4, <1>5

LEMMA PullKeeps ==
    ASSUME NEW c, NEW Q, NEW L, NEW O, Before(c, Q, L, O),
           NEW nowait \in BOOLEAN, Pull(c, nowait, Q, L, O)
    PROVE  After \/ (Tore /\ ~Unlisted(c, Q))
<1> DEFINE n == dflt[c]
<1>1. /\ c \in Client /\ n \in DOMAIN Q /\ Q[n] \in QueueRec
      /\ Q[n].waiters \in Seq(Client) /\ Q[n].buf \in Seq(Line)
      /\ RestOK(tmo, issued, running, O)
    BY DEF Before, TypeOK, StateOK, QueuesOK, QueueRec, RestOK
<1>2. UNCHANGED <<clients, dflt, tmo, issued, running>>
    BY DEF Pull
<1>3. CASE Q[n].buf # <<>>
  <2>1. /\ queue' = [Q EXCEPT ![n].buf = Tail(@)] /\ left' = L
        /\ out' = Reply(O, c, Answer(0, Head(Q[n].buf)))
      BY <1>3 DEF Pull
  <2>2. Tail(Q[n].buf) \in Seq(Line) /\ Head(Q[n].buf) \in Line
      BY <1>1, <1>3
  <2>3. /\ DOMAIN queue' = DOMAIN Q
        /\ queue'[n] = [Q[n] EXCEPT !.buf = Tail(Q[n].buf)]
        /\ \A m \in DOMAIN Q : m # n => queue'[m] = Q[m]
      BY <2>1, <1>1
  <2>4. /\ queue'[n].waiters = Q[n].waiters /\ queue'[n].real = Q[n].real
        /\ queue'[n] \in QueueRec
      BY <2>2, <2>3, <1>1 DEF QueueRec
  <2>5. \A m \in DOMAIN Q : Q[m] \in QueueRec
      BY DEF Before, StateOK, QueuesOK
  <2>6. Q[n].waiters = <<>>
      BY <1>1, <1>3 DEF Before, StateOK, FedOK
  <2>7. StateOK(clients, dflt, L, queue')
    <3>1. SameAs(Q, queue')
        BY <2>3, <2>4, <2>5, <2>6 DEF SameAs
    <3> QED  BY <3>1, SameLists DEF Before
  <2>8. out' \in Outs
    <3>1. Head(Q[n].buf) \in AnswerData /\ 0 \in 0..9
        BY <2>2 DEF AnswerData
    <3> QED  BY <2>1, <3>1, <1>1, ReplyType DEF RestOK
  <2> QED  BY <2>1, <2>7, <2>8, <1>1, <1>2 DEF After, RestOK
<1>4. CASE Q[n].buf = <<>> /\ (nowait \/ tmo[c] = AtOnce)
  <2>1. queue' = Q /\ left' = L /\ out' = Reply(O, c, Answer(1, NoArg))
      BY <1>4 DEF Pull
  <2>2. out' \in Outs
    <3>1. NoArg \in AnswerData /\ 1 \in 0..9
        BY DEF AnswerData
    <3> QED  BY <2>1, <3>1, <1>1, ReplyType DEF RestOK
  <2> QED  BY <2>1, <2>2, <1>1, <1>2 DEF After, RestOK, Before
<1>5. CASE Q[n].buf = <<>> /\ ~(nowait \/ tmo[c] = AtOnce)
  <2> DEFINE d == IF tmo[c] = Forever THEN NoDeadline ELSE tmo[c]
  <2>1. queue' = Enlist(Q, n, c) /\ left' = [L EXCEPT ![c] = d] /\ out' = O
      BY <1>5 DEF Pull
  <2>2. d \in Nat \cup {NoDeadline}
    <3>1. tmo[c] \in Timeout \cup {Forever, AtOnce}
        BY <1>1 DEF RestOK
    <3>2. Timeout \subseteq Nat /\ AtOnce \in Nat
        BY TimeAssumption DEF AtOnce
    <3> QED  BY <3>1, <3>2
  <2> HIDE DEF d
  <2>3. Unlisted(c, Q) => StateOK(clients, dflt, left', queue')
      BY <2>1, <2>2, <1>5, EnlistKeeps DEF Before
  <2>4. HalfOK(clients, dflt, left', queue')
      BY <2>1, <2>2, <1>5, EnlistHalf DEF Before
  <2> QED  BY <2>1, <2>3, <2>4, <1>1, <1>2 DEF After, Tore, RestOK
<1> QED  BY <1>3, <1>4, <1>5

\* A queue that is made, real or not.
LEMMA NewQueueType ==
    ASSUME TypeOK, NEW isReal \in BOOLEAN
    PROVE  /\ NewQueue(isReal) \in QueueRec
           /\ NewQueue(isReal).buf = <<>> /\ NewQueue(isReal).waiters = <<>>
BY DEF NewQueue, QueueRec, TypeOK

LEMMA SetQueueKeeps ==
    ASSUME NEW c, NEW Q, NEW L, NEW O, Before(c, Q, L, O),
           NEW n \in QName \cup {NoArg}, SetQueue(c, n, Q, L, O)
    PROVE  After
<1>1. c \in Client /\ RestOK(tmo, issued, running, O)
    BY DEF Before, TypeOK, RestOK
<1>2. UNCHANGED <<clients, issued, running>> /\ left' = L
    BY DEF SetQueue
<1>3. CASE n = NoArg
  <2>1. queue' = Q /\ dflt' = dflt /\ tmo' = tmo /\ out' = Reply(O, c, Answer(6, NoArg))
      BY <1>3 DEF SetQueue
  <2>2. NoArg \in AnswerData /\ 6 \in 0..9
      BY DEF AnswerData
  <2>3. out' \in Outs
      BY <2>1, <2>2, <1>1, ReplyType DEF RestOK
  <2> QED  BY <2>1, <2>3, <1>1, <1>2 DEF After, RestOK, Before
<1>4. CASE n # NoArg
  <2>1. /\ queue' = IF n \in DOMAIN Q THEN Q ELSE Link(Q, n, NewQueue(FALSE))
        /\ dflt' = [dflt EXCEPT ![c] = n]
        /\ tmo' = [tmo EXCEPT ![c] = AtOnce]
        /\ out' = Reply(O, c, Answer(0, n))
      BY <1>4 DEF SetQueue
  <2>2. n \in QName /\ n \in AnswerData /\ 0 \in 0..9
      BY <1>4 DEF AnswerData
  <2>3. StateOK(clients, dflt, L, queue') /\ n \in DOMAIN queue'
    <3>1. CASE n \in DOMAIN Q
        BY <3>1, <2>1 DEF Before
    <3>2. CASE n \notin DOMAIN Q
      <4> DEFINE q == NewQueue(FALSE)
      <4>1. q \in QueueRec /\ q.buf = <<>> /\ q.waiters = <<>>
          BY NewQueueType DEF Before
      <4>2. StateOK(clients, dflt, L, Q)
          BY DEF Before
      <4>3. n \in QName \ DOMAIN Q
          BY <2>2, <3>2
      <4>5. queue' = Link(Q, n, q)
          BY <2>1, <3>2
      <4> HIDE DEF q
      <4>4. StateOK(clients, dflt, L, Link(Q, n, q))
          BY <4>1, <4>2, <4>3, LinkKeeps
      <4>7. n \in DOMAIN Link(Q, n, q)
          BY DEF Link
      <4> QED  BY <4>4, <4>5, <4>7
    <3> QED  BY <3>1, <3>2
  <2>4. StateOK(clients, dflt', L, queue')
    <3>1. /\ dflt' \in [Client -> QName] /\ dflt'[c] = n
          /\ \A d \in Client : d # c => dflt'[d] = dflt[d]
        BY <2>1, <2>2, <1>1 DEF Before, StateOK
    <3>2. L[c] = NoDeadline
        BY DEF Before
    <3>3. QueuesOK(clients, dflt', queue')
        BY <3>1, <2>3, <1>1 DEF StateOK, QueuesOK
    <3>4. DeadlinesOK(clients, dflt', L, queue')
        BY <3>1, <3>2, <2>3 DEF StateOK, DeadlinesOK
    <3> QED  BY <3>1, <3>3, <3>4, <2>3 DEF StateOK
  <2>5. out' \in Outs
      BY <2>1, <2>2, <1>1, ReplyType DEF RestOK
  <2>6. tmo' \in [Client -> Timeout \cup {Forever, AtOnce}]
      BY <2>1, <1>1 DEF RestOK
  <2> QED  BY <2>4, <2>5, <2>6, <1>1, <1>2 DEF After, RestOK
<1> QED  BY <1>3, <1>4

LEMMA CreateQueueKeeps ==
    ASSUME NEW c, NEW Q, NEW L, NEW O, Before(c, Q, L, O),
           NEW n \in QName \cup {NoArg}, CreateQueue(c, n, Q, L, O),
           IssuedOK(Q, issued)
    PROVE  After
<1> DEFINE taken == n # NoArg /\ n \in DOMAIN Q
           q == NewQueue(TRUE)
<1>1. c \in Client /\ RestOK(tmo, issued, running, O)
    BY DEF Before, TypeOK, RestOK
<1>2. /\ UNCHANGED <<clients, dflt, running>> /\ left' = L
      /\ tmo' = [tmo EXCEPT ![c] = AtOnce]
    BY DEF CreateQueue
<1>3. tmo' \in [Client -> Timeout \cup {Forever, AtOnce}]
    BY <1>1, <1>2 DEF RestOK
<1>4. q \in QueueRec /\ q.buf = <<>> /\ q.waiters = <<>>
    BY NewQueueType DEF Before
<1> HIDE DEF q
<1>5. StateOK(clients, dflt, L, Q)
    BY DEF Before
<1>6. CASE taken /\ ~Q[n].real
  <2>1. /\ queue' = [Q EXCEPT ![n].real = TRUE] /\ issued' = issued
        /\ out' = Reply(O, c, Answer(0, n))
      BY <1>6 DEF CreateQueue
  <2>2. n \in AnswerData /\ 0 \in 0..9
      BY DEF AnswerData
  <2>3. out' \in Outs
      BY <2>1, <2>2, <1>1, ReplyType DEF RestOK
  <2> DEFINE R == [Q EXCEPT ![n].real = TRUE]
  <2>4. /\ DOMAIN R = DOMAIN Q
        /\ R[n] = [Q[n] EXCEPT !.real = TRUE]
        /\ \A m \in DOMAIN Q : m # n => R[m] = Q[m]
      BY <1>6
  <2> HIDE DEF R
  <2>5. \A m \in DOMAIN Q : Q[m] \in QueueRec
      BY <1>5 DEF StateOK, QueuesOK
  <2>6. /\ R[n].waiters = Q[n].waiters /\ R[n].real = TRUE /\ R[n].buf = Q[n].buf
        /\ R[n] \in QueueRec
      BY <2>4, <2>5, <1>6 DEF QueueRec
  <2>7. SameAs(Q, R)
      BY <2>4, <2>5, <2>6 DEF SameAs
  <2>8. StateOK(clients, dflt, L, R)
      BY <2>7, <1>5, SameLists
  <2> QED  BY <2>1, <2>3, <2>8, <1>1, <1>2, <1>3 DEF After, RestOK, R
<1>7. CASE ~(taken /\ ~Q[n].real) /\ (taken \/ n = NoArg)
  <2>1. PICK u \in Fresh \ issued :
            /\ queue' = Link(Q, u, q) /\ issued' = issued \cup {u}
            /\ out' = Reply(O, c, Answer(IF taken THEN 1 ELSE 0, u))
      BY <1>7 DEF CreateQueue, q
  <2>2. u \in AnswerData /\ (IF taken THEN 1 ELSE 0) \in 0..9 /\ u \in QName \ DOMAIN Q
      BY <2>1 DEF AnswerData, QName, IssuedOK
  <2>3. out' \in Outs
      BY <2>1, <2>2, <1>1, ReplyType DEF RestOK
  <2>4. StateOK(clients, dflt, L, Link(Q, u, q))
      BY <1>4, <1>5, <2>2, LinkKeeps
  <2> QED  BY <2>1, <2>3, <2>4, <1>1, <1>2, <1>3 DEF After, RestOK
<1>8. CASE ~taken /\ n # NoArg
  <2>1. queue' = Link(Q, n, q) /\ issued' = issued /\ out' = Reply(O, c, Answer(0, n))
      BY <1>8 DEF CreateQueue, q
  <2>2. n \in AnswerData /\ 0 \in 0..9 /\ n \in QName \ DOMAIN Q
      BY <1>8 DEF AnswerData
  <2>3. out' \in Outs
      BY <2>1, <2>2, <1>1, ReplyType DEF RestOK
  <2>4. StateOK(clients, dflt, L, Link(Q, n, q))
      BY <1>4, <1>5, <2>2, LinkKeeps
  <2> QED  BY <2>1, <2>3, <2>4, <1>1, <1>2, <1>3 DEF After, RestOK
<1> QED  BY <1>6, <1>7, <1>8

LEMMA DeleteQueueKeeps ==
    ASSUME NEW c, NEW Q, NEW L, NEW O, Before(c, Q, L, O),
           NEW n \in QName \cup {NoArg}, DeleteQueue(c, n, Q, L, O)
    PROVE  After
<1> DEFINE found == n # NoArg /\ n \in DOMAIN Q /\ n # Session
           code  == CASE n = NoArg   -> 6
                      [] n = Session -> 5
                      [] OTHER       -> IF found /\ Q[n].real THEN 0 ELSE 9
           gone  == IF found THEN {n} ELSE {}
           told  == WaitersOf(Q, gone)
<1>1. c \in Client /\ RestOK(tmo, issued, running, O) /\ StateOK(clients, dflt, L, Q)
    BY DEF Before, TypeOK, RestOK
<1>2. /\ queue' = Deleted(Q, gone) /\ dflt' = DeletedFrom(dflt, gone)
      /\ left' = NoLonger(L, told)
      /\ out' = Reply(BadNews(O, told), c, Answer(code, NoArg))
      /\ UNCHANGED <<clients, tmo, issued, running>>
    BY DEF DeleteQueue
<1>3. code \in 0..9 /\ NoArg \in AnswerData
    BY DEF AnswerData
<1>4. gone \in SUBSET DOMAIN Q /\ Session \in QName
    BY NameAssumption DEF QName
<1> HIDE DEF code, gone
<1>5. StateOK(clients, DeletedFrom(dflt, gone), NoLonger(L, told), Deleted(Q, gone))
    BY <1>1, <1>4, DeleteKeeps
<1>6. BadNews(O, told) \in Outs
    BY <1>1, BadNewsType DEF RestOK
<1>7. out' \in Outs
    BY <1>1, <1>2, <1>3, <1>6, ReplyType
<1> QED  BY <1>1, <1>2, <1>5, <1>7 DEF After, RestOK

LEMMA EmptyQueueKeeps ==
    ASSUME NEW c, NEW Q, NEW L, NEW O, Before(c, Q, L, O),
           NEW n \in QName \cup {NoArg}, EmptyQueue(c, n, Q, L, O)
    PROVE  After
<1> DEFINE m    == IF n = NoArg THEN dflt[c] ELSE n
           S    == {m} \cap DOMAIN Q
           told == WaitersOf(Q, S)
           code == IF S = {} THEN 2 ELSE 0
<1>1. c \in Client /\ RestOK(tmo, issued, running, O) /\ StateOK(clients, dflt, L, Q)
    BY DEF Before, TypeOK, RestOK
<1>2. /\ queue' = Cleared(Q, S) /\ left' = NoLonger(L, told)
      /\ out' = Reply(BadNews(O, told), c, Answer(code, NoArg))
      /\ UNCHANGED <<clients, dflt, tmo, issued, running>>
    BY DEF EmptyQueue
<1>3. code \in 0..9 /\ NoArg \in AnswerData /\ S \in SUBSET DOMAIN Q
    BY DEF AnswerData
<1> HIDE DEF code, S
<1>5. StateOK(clients, dflt, NoLonger(L, told), Cleared(Q, S))
    BY <1>1, <1>3, ClearKeeps
<1>6. BadNews(O, told) \in Outs
    BY <1>1, BadNewsType DEF RestOK
<1>7. out' \in Outs
    BY <1>1, <1>2, <1>3, <1>6, ReplyType
<1> QED  BY <1>1, <1>2, <1>5, <1>7 DEF After, RestOK

LEMMA SetTimeoutKeeps ==
    ASSUME NEW c, NEW Q, NEW L, NEW O, Before(c, Q, L, O),
           NEW w \in Timeout \cup {0, Garbled, NoArg}, SetTimeout(c, w, Q, L, O)
    PROVE  After
<1>1. c \in Client /\ RestOK(tmo, issued, running, O)
    BY DEF Before, TypeOK, RestOK
<1>2. UNCHANGED <<clients, dflt, issued, running>> /\ queue' = Q /\ left' = L
    BY DEF SetTimeout
<1>3. NoArg \in AnswerData /\ 0 \in 0..9 /\ 2 \in 0..9 /\ 6 \in 0..9
    BY DEF AnswerData
<1>4. CASE w \in {NoArg, Garbled}
  <2>1. tmo' = tmo /\ out' = Reply(O, c, Answer(IF w = NoArg THEN 6 ELSE 2, NoArg))
      BY <1>4 DEF SetTimeout
  <2>2. out' \in Outs
      BY <2>1, <1>1, <1>3, ReplyType DEF RestOK
  <2> QED  BY <2>1, <2>2, <1>1, <1>2 DEF After, RestOK, Before
<1>5. CASE w \notin {NoArg, Garbled}
  <2>1. /\ tmo' = [tmo EXCEPT ![c] = IF w = 0 THEN Forever ELSE w]
        /\ out' = Reply(O, c, Answer(0, NoArg))
      BY <1>5 DEF SetTimeout
  <2>2. out' \in Outs
      BY <2>1, <1>1, <1>3, ReplyType DEF RestOK
  <2>3. tmo' \in [Client -> Timeout \cup {Forever, AtOnce}]
      BY <2>1, <1>1, <1>5 DEF RestOK
  <2> QED  BY <2>2, <2>3, <1>1, <1>2 DEF After, RestOK, Before
<1> QED  BY <1>4, <1>5

LEMMA QueryKeeps ==
    ASSUME NEW c, NEW Q, NEW L, NEW O, Before(c, Q, L, O),
           NEW op, Query(c, op, Q, L, O)
    PROVE  After
<1>1. /\ c \in Client /\ RestOK(tmo, issued, running, O)
      /\ dflt[c] \in QName /\ Q[dflt[c]].buf \in Seq(Line)
    BY DEF Before, TypeOK, RestOK, StateOK, QueuesOK, QueueRec
<1>2. UNCHANGED <<clients, dflt, tmo, issued, running>> /\ queue' = Q /\ left' = L
    BY DEF Query
<1> DEFINE len == Len(Q[dflt[c]].buf)
<1>3. /\ NoArg \in AnswerData /\ dflt[c] \in AnswerData /\ len \in AnswerData
      /\ 0 \in 0..9 /\ 9 \in 0..9
    BY <1>1 DEF AnswerData
<1>4. \/ out' = Reply(O, c, Answer(0, len)) \/ out' = Reply(O, c, Answer(0, NoArg))
      \/ out' = Reply(O, c, Answer(0, dflt[c])) \/ out' = O
      \/ out' = Reply(O, c, Answer(9, NoArg))
    BY DEF Query
<1> HIDE DEF len
<1>5. out' \in Outs
    BY <1>1, <1>3, <1>4, ReplyType DEF RestOK
<1> QED  BY <1>1, <1>2, <1>5 DEF After, RestOK, Before

\* The client's record is freed, whether a list holds it or not.
LEMMA FreeKeeps ==
    ASSUME NEW c, NEW Q, NEW L, NEW O, Before(c, Q, L, O),
           Free(c, dflt, tmo, L), queue' = Q
    PROVE  /\ HalfOK(clients', dflt', left', queue')
           /\ Unlisted(c, Q) => StateOK(clients', dflt', left', queue')
           /\ tmo' \in [Client -> Timeout \cup {Forever, AtOnce}]
<1>1. /\ c \in Client /\ StateOK(clients, dflt, L, Q)
      /\ tmo \in [Client -> Timeout \cup {Forever, AtOnce}]
    BY DEF Before, TypeOK
<1>2. /\ clients' = clients \ {c} /\ dflt' = [dflt EXCEPT ![c] = Session]
      /\ tmo' = [tmo EXCEPT ![c] = AtOnce] /\ left' = [L EXCEPT ![c] = NoDeadline]
    BY DEF Free
<1>3. dflt' \in [Client -> QName] /\ \A d \in clients' : dflt'[d] = dflt[d]
    BY <1>1, <1>2, NameAssumption DEF QName, StateOK
<1>4. left' \in [Client -> Nat \cup {NoDeadline}] /\ left'[c] = NoDeadline
      /\ \A d \in Client : left'[d] = L[d]
    BY <1>1, <1>2 DEF StateOK, Before
<1>5. QueuesOK(clients', dflt', queue')
    BY <1>1, <1>2, <1>3 DEF StateOK, QueuesOK
<1>6. Unlisted(c, Q) => ListsOK(clients', queue')
    BY <1>1, <1>2 DEF StateOK, ListsOK, Unlisted
<1>7. DeadlinesOK(clients', dflt', left', queue')
    BY <1>1, <1>2, <1>3, <1>4 DEF StateOK, DeadlinesOK
<1>8. clients' \subseteq Client /\ FedOK(queue')
    BY <1>1, <1>2 DEF StateOK
<1> QED  BY <1>1, <1>2, <1>3, <1>4, <1>5, <1>6, <1>7, <1>8 DEF StateOK, HalfOK

LEMMA ExitKeeps ==
    ASSUME NEW c, NEW Q, NEW L, NEW O, Before(c, Q, L, O),
           NEW op, Exit(c, op, Q, L, O)
    PROVE  After \/ (Tore /\ ~Unlisted(c, Q))
<1>1. c \in Client /\ RestOK(tmo, issued, running, O)
    BY DEF Before, TypeOK, RestOK
<1>2. /\ out' = Reply(O, c, Answer(0, NoArg)) /\ issued' = issued
      /\ running' \in BOOLEAN
    BY DEF Exit
<1>3. NoArg \in AnswerData /\ 0 \in 0..9
    BY DEF AnswerData
<1>4. out' \in Outs
    BY <1>1, <1>2, <1>3, ReplyType DEF RestOK
<1>5. Free(c, dflt, tmo, L) /\ queue' = Q
    BY DEF Exit
<1> QED  BY <1>1, <1>2, <1>4, <1>5, FreeKeeps DEF After, Tore, RestOK

LEMMA LostKeeps ==
    ASSUME NEW c, NEW Q, NEW L, NEW O, Before(c, Q, L, O),
           NEW told \in BOOLEAN, Lost(c, told, Q, L, O)
    PROVE  After \/ (Tore /\ ~Unlisted(c, Q))
<1>1. c \in Client /\ RestOK(tmo, issued, running, O)
    BY DEF Before, TypeOK, RestOK
<1>2. (out' = Reply(O, c, Answer(9, NoArg)) \/ out' = O) /\ UNCHANGED <<issued, running>>
    BY DEF Lost
<1>3. NoArg \in AnswerData /\ 9 \in 0..9
    BY DEF AnswerData
<1>4. out' \in Outs
    BY <1>1, <1>2, <1>3, ReplyType DEF RestOK
<1>5. Free(c, dflt, tmo, L) /\ queue' = Q
    BY DEF Lost
<1> QED  BY <1>1, <1>2, <1>4, <1>5, FreeKeeps DEF After, Tore, RestOK
\* What a client may send.
LEMMA RequestType ==
    ASSUME NEW r \in Request
    PROVE  /\ r.op \in {"F", "L"} => r.arg \in Line
           /\ r.op \in {"S", "E", "C", "D"} => r.arg \in QName \cup {NoArg}
           /\ r.op = "T" => r.arg \in Timeout \cup {0, Garbled, NoArg}
BY RequestAssumption

LEMMA CommandKeeps ==
    ASSUME NEW c, NEW Q, NEW L, NEW O, Before(c, Q, L, O),
           NEW r \in Request, Command(c, r, Q, L, O), IssuedOK(Q, issued)
    PROVE  After \/ (Tore /\ ~Unlisted(c, Q))
<1>1. CASE r.op \in {"F", "L"} /\ QueueData(c, r.op, r.arg, Q, L, O)
    BY <1>1, RequestType, QueueDataKeeps
<1>2. CASE r.op \in {"P", "p"} /\ Pull(c, r.op = "p", Q, L, O)
  <2>1. (r.op = "p") \in BOOLEAN
      OBVIOUS
  <2> QED  BY <1>2, <2>1, PullKeeps
<1>3. CASE r.op = "S" /\ SetQueue(c, r.arg, Q, L, O)
    BY <1>3, RequestType, SetQueueKeeps
<1>4. CASE r.op = "C" /\ CreateQueue(c, r.arg, Q, L, O)
    BY <1>4, RequestType, CreateQueueKeeps
<1>5. CASE r.op = "D" /\ DeleteQueue(c, r.arg, Q, L, O)
    BY <1>5, RequestType, DeleteQueueKeeps
<1>6. CASE r.op = "E" /\ EmptyQueue(c, r.arg, Q, L, O)
    BY <1>6, RequestType, EmptyQueueKeeps
<1>7. CASE r.op = "T" /\ SetTimeout(c, r.arg, Q, L, O)
    BY <1>7, RequestType, SetTimeoutKeeps
<1>8. CASE r.op \in {"N", "Q", "G", "?", "other"} /\ Query(c, r.op, Q, L, O)
    BY <1>8, QueryKeeps
<1>9. CASE r.op \in {"X", "Z"} /\ Exit(c, r.op, Q, L, O)
    BY <1>9, ExitKeeps
<1> QED  BY <1>1, <1>2, <1>3, <1>4, <1>5, <1>6, <1>7, <1>8, <1>9 DEF Command

\* A command takes at most the client it serves from the clients.
LEMMA CommandClients ==
    ASSUME NEW c, NEW Q, NEW L, NEW O, NEW r, Command(c, r, Q, L, O)
    PROVE  clients' = clients \/ clients' = clients \ {c}
BY DEF Command, QueueData, Pull, SetQueue, CreateQueue, DeleteQueue, EmptyQueue, SetTimeout,
       Query, Exit, Free

LEMMA LinkNames ==
    ASSUME NEW Q, NEW n, NEW q
    PROVE  DOMAIN Link(Q, n, q) = DOMAIN Q \cup {n}
BY DEF Link

\* A command links no name that unique_name() has still to make up.
LEMMA CommandNames ==
    ASSUME NEW c, NEW Q, NEW L, NEW O, NEW r, Known(r),
           Command(c, r, Q, L, O), IssuedOK(Q, issued)
    PROVE  IssuedOK(queue', issued')
<1>1. CASE r.op \in {"F", "L"} /\ QueueData(c, r.op, r.arg, Q, L, O)
    BY <1>1 DEF QueueData, Dequeue, IssuedOK
<1>2. CASE r.op \in {"P", "p"} /\ Pull(c, r.op = "p", Q, L, O)
    BY <1>2 DEF Pull, Enlist, IssuedOK
<1>3. CASE r.op = "S" /\ SetQueue(c, r.arg, Q, L, O)
  <2>1. issued' = issued /\ DOMAIN queue' \subseteq DOMAIN Q \cup {r.arg}
    <3> DEFINE q == NewQueue(FALSE)
    <3>1. issued' = issued /\ (queue' = Q \/ queue' = Link(Q, r.arg, q))
        BY <1>3 DEF SetQueue
    <3> HIDE DEF q
    <3>2. DOMAIN Link(Q, r.arg, q) = DOMAIN Q \cup {r.arg}
        BY LinkNames
    <3> QED  BY <3>1, <3>2
  <2> QED  BY <2>1 DEF IssuedOK, Known
<1>4. CASE r.op = "C" /\ CreateQueue(c, r.arg, Q, L, O)
  <2>1. \/ issued' = issued /\ DOMAIN queue' \subseteq DOMAIN Q \cup {r.arg}
        \/ \E u \in Fresh : /\ issued' = issued \cup {u}
                            /\ DOMAIN queue' \subseteq DOMAIN Q \cup {u}
    <3> DEFINE q == NewQueue(TRUE)
    <3>1. \/ issued' = issued /\ queue' = [Q EXCEPT ![r.arg].real = TRUE]
          \/ issued' = issued /\ queue' = Link(Q, r.arg, q)
          \/ \E u \in Fresh : /\ issued' = issued \cup {u}
                              /\ queue' = Link(Q, u, q)
        BY <1>4 DEF CreateQueue
    <3> HIDE DEF q
    <3>2. DOMAIN [Q EXCEPT ![r.arg].real = TRUE] = DOMAIN Q
        OBVIOUS
    <3>3. \A u : DOMAIN Link(Q, u, q) = DOMAIN Q \cup {u}
        BY LinkNames
    <3> QED  BY <3>1, <3>2, <3>3
  <2> QED  BY <2>1 DEF IssuedOK, Known
<1>5. CASE r.op = "D" /\ DeleteQueue(c, r.arg, Q, L, O)
  <2>1. issued' = issued /\ DOMAIN queue' \subseteq DOMAIN Q
      BY <1>5 DEF DeleteQueue, Deleted, Unlink, Cleared
  <2> QED  BY <2>1 DEF IssuedOK
<1>6. CASE r.op = "E" /\ EmptyQueue(c, r.arg, Q, L, O)
  <2>1. issued' = issued /\ DOMAIN queue' \subseteq DOMAIN Q
      BY <1>6 DEF EmptyQueue, Cleared
  <2> QED  BY <2>1 DEF IssuedOK
<1>7. CASE r.op = "T" /\ SetTimeout(c, r.arg, Q, L, O)
    BY <1>7 DEF SetTimeout, IssuedOK
<1>8. CASE r.op \in {"N", "Q", "G", "?", "other"} /\ Query(c, r.op, Q, L, O)
    BY <1>8 DEF Query, IssuedOK
<1>9. CASE r.op \in {"X", "Z"} /\ Exit(c, r.op, Q, L, O)
    BY <1>9 DEF Exit, IssuedOK
<1> QED  BY <1>1, <1>2, <1>3, <1>4, <1>5, <1>6, <1>7, <1>8, <1>9 DEF Command

-----------------------------------------------------------------------------
(* Every step of the daemon keeps the invariant.                           *)

\* The pieces put together again.
LEMMA Assemble ==
    ASSUME RestOK(tmo', issued', running', out'), IssuedOK(queue', issued'),
           qleft' \in 0..Week, wake' \in Nat, todo' \subseteq clients',
           phase' \in {"poll", "serve", "clients", "cleanup", "ended", "aborted"}
    PROVE  /\ StateOK(clients', dflt', left', queue') => IInv'
           /\ HalfOK(clients', dflt', left', queue') => HInv'
BY DEF IInv, HInv, TypeOK, StateOK, HalfOK, QueuesOK, RestOK, Outs

\* A deadline that comes nearer is a deadline still.
LEMMA SameDeadlines ==
    ASSUME NEW C, NEW D, NEW L, NEW Q, StateOK(C, D, L, Q),
           NEW M \in [Client -> Nat \cup {NoDeadline}],
           \A c \in Client : M[c] # NoDeadline <=> L[c] # NoDeadline
    PROVE  StateOK(C, D, M, Q)
<1>1. DeadlinesOK(C, D, M, Q)
    BY DEF StateOK, DeadlinesOK
<1> QED  BY <1>1 DEF StateOK

\* Where a command finds the state after the interruption of the client's wait: only
\* a client that gives up an endless wait is still in a list.
LEMMA SeenKeeps ==
    ASSUME IInv, phase = "serve", NEW c \in todo
    PROVE  /\ Before(c, QueueSeen(c), LeftSeen(c), OutSeen(c))
           /\ IssuedOK(QueueSeen(c), issued)
           /\ Unlisted(c, QueueSeen(c)) \/ (IsWaiting(c) /\ left[c] = NoDeadline)
<1>1. /\ TypeOK /\ StateOK(clients, dflt, left, queue) /\ IssuedOK(queue, issued)
      /\ out \in Outs
    BY DEF IInv, TypeOK, Outs
<1>2. c \in clients /\ c \in Client /\ left \in [Client -> Nat \cup {NoDeadline}]
    BY <1>1 DEF StateOK, TypeOK
<1>3. LeftSeen(c)[c] = NoDeadline
    BY <1>2 DEF LeftSeen
<1>4. CASE Interrupted(c)
  <2>1. dflt[c] \in DOMAIN queue /\ c \in ToSet(queue[dflt[c]].waiters)
      BY <1>1, <1>2, <1>4 DEF StateOK, DeadlinesOK, Interrupted
  <2>2. QueueSeen(c) = Dequeue(queue, dflt[c], c) /\ OutSeen(c) = BadNews(out, {c})
      BY <1>4 DEF QueueSeen, OutSeen
  <2>3. /\ StateOK(clients, dflt, LeftSeen(c), QueueSeen(c))
        /\ Unlisted(c, QueueSeen(c)) /\ DOMAIN QueueSeen(c) = DOMAIN queue
    <3> DEFINE n == dflt[c]
    <3>1. n \in DOMAIN queue /\ c \in ToSet(queue[n].waiters)
        BY <2>1
    <3> HIDE DEF n
    <3>2. StateOK(clients, dflt, [left EXCEPT ![c] = NoDeadline], Dequeue(queue, n, c))
        BY <1>1, <1>2, <3>1, DequeueKeeps
    <3>3. Unlisted(c, Dequeue(queue, n, c))
        BY <1>1, <1>2, <3>1, DequeueKeeps
    <3>4. DOMAIN Dequeue(queue, n, c) = DOMAIN queue
        BY DEF Dequeue
    <3> QED  BY <2>2, <3>2, <3>3, <3>4 DEF LeftSeen, n
  <2>4. OutSeen(c) \in Outs
      BY <1>1, <2>2, BadNewsType
  <2> QED  BY <1>1, <1>2, <1>3, <2>3, <2>4 DEF Before, IssuedOK
<1>5. CASE ~Interrupted(c)
  <2>1. left[c] = NoDeadline /\ QueueSeen(c) = queue /\ OutSeen(c) = out
      BY <1>5 DEF Interrupted, QueueSeen, OutSeen
  <2>2. LeftSeen(c) = left
      BY <1>2, <2>1 DEF LeftSeen
  <2>3. Unlisted(c, queue) \/ IsWaiting(c)
      BY DEF Unlisted, IsWaiting
  <2> QED  BY <1>1, <1>2, <1>3, <2>1, <2>2, <2>3 DEF Before
<1> QED  BY <1>4, <1>5

\* What a step keeps: the invariant, and the lists unless it abandons an endless wait.
Kept == HInv' /\ (Intact' \/ Abandons)

\* A client's command or its end, seen from what SeenKeeps says.
LEMMA ServedKept ==
    ASSUME IInv, phase = "serve", NEW c \in todo, todo' = todo \ {c},
           After \/ (Tore /\ ~Unlisted(c, QueueSeen(c))),
           clients' = clients \/ clients' = clients \ {c},
           IssuedOK(queue', issued'), UNCHANGED <<qleft, wake>>,
           phase' \in {"serve", "aborted"}
    PROVE  Kept
<1>1. qleft' \in 0..Week /\ wake' \in Nat /\ todo' \subseteq clients'
    BY DEF IInv, TypeOK
<1>2. CASE After
  <2>1. IInv'
      BY <1>1, <1>2, Assemble DEF After
  <2> QED  BY <2>1, Whole, PTL DEF Kept
<1>3. CASE Tore /\ ~Unlisted(c, QueueSeen(c))
  <2>1. HInv'
      BY <1>1, <1>3, Assemble DEF Tore
  <2>2. Abandons
    <3>1. IsWaiting(c) /\ left[c] = NoDeadline
        BY <1>3, SeenKeeps
    <3>2. c \in BeingServed
        BY DEF BeingServed
    <3> QED  BY <3>1, <3>2 DEF Abandons
  <2> QED  BY <2>1, <2>2 DEF Kept
<1> QED  BY <1>2, <1>3

LEMMA ServeKeeps ==
    ASSUME IInv, NEW c \in Client, NEW r \in Request, Known(r), Serve(c, r)
    PROVE  Kept
<1>1. /\ phase = "serve" /\ c \in todo /\ todo' = todo \ {c}
      /\ Command(c, r, QueueSeen(c), LeftSeen(c), OutSeen(c))
      /\ phase' \in {"serve", "aborted"} /\ UNCHANGED <<qleft, wake>>
    BY DEF Serve
<1>2. After \/ (Tore /\ ~Unlisted(c, QueueSeen(c)))
    BY <1>1, SeenKeeps, CommandKeeps
<1>3. IssuedOK(queue', issued')
    BY <1>1, SeenKeeps, CommandNames
<1>4. clients' = clients \/ clients' = clients \ {c}
    BY <1>1, CommandClients
<1> QED  BY <1>1, <1>2, <1>3, <1>4, ServedKept

LEMMA DropKeeps ==
    ASSUME IInv, NEW c \in Client, NEW told \in BOOLEAN, Drop(c, told)
    PROVE  Kept
<1>1. /\ phase = "serve" /\ c \in todo /\ todo' = todo \ {c}
      /\ Lost(c, told, QueueSeen(c), LeftSeen(c), OutSeen(c))
      /\ UNCHANGED <<qleft, phase, wake>>
    BY DEF Drop
<1>2. After \/ (Tore /\ ~Unlisted(c, QueueSeen(c)))
    BY <1>1, SeenKeeps, LostKeeps
<1>3. IssuedOK(queue', issued') /\ clients' = clients \ {c}
    BY <1>1, SeenKeeps DEF Lost, Free, IssuedOK
<1> QED  BY <1>1, <1>2, <1>3, ServedKept

LEMMA InitHolds == Init => IInv
<1> SUFFICES ASSUME Init  PROVE IInv
    OBVIOUS
<1>1. Session \in QName /\ 0 \in 0..Week /\ WakeUp \in Nat
    BY NameAssumption, TimeAssumption DEF QName
<1>2. <<>> \in Seq(Line) /\ <<>> \in Seq(Client) /\ <<>> \in Seq([code : 0..9, data : AnswerData])
    OBVIOUS
<1>3. /\ DOMAIN queue = {Session} /\ queue[Session] \in QueueRec
      /\ queue[Session].real /\ queue[Session].waiters = <<>> /\ queue[Session].buf = <<>>
    BY <1>1, <1>2 DEF Init, QueueRec
<1>4. /\ dflt \in [Client -> QName] /\ left \in [Client -> Nat \cup {NoDeadline}]
      /\ tmo \in [Client -> Timeout \cup {Forever, AtOnce}] /\ out \in Outs
      /\ \A c \in Client : left[c] = NoDeadline
    BY <1>1, <1>2 DEF Init, Outs
<1>5. clients = {} /\ issued = {} /\ todo = {} /\ Session \notin Fresh
    BY NameAssumption DEF Init
<1>6. TypeOK
    BY <1>1, <1>3, <1>4, <1>5 DEF Init, TypeOK, Outs
<1>7. QueuesOK(clients, dflt, queue) /\ FedOK(queue) /\ DeadlinesOK(clients, dflt, left, queue)
    BY <1>1, <1>3, <1>4, <1>5 DEF QueuesOK, FedOK, DeadlinesOK
<1>8. ListsOK(clients, queue) /\ IssuedOK(queue, issued)
    BY <1>3, <1>5, EmptyList DEF ListsOK, IssuedOK
<1> QED  BY <1>4, <1>5, <1>6, <1>7, <1>8 DEF IInv, StateOK

LEMMA BeginSweepKeeps == IInv /\ BeginSweep => IInv'
<1> SUFFICES ASSUME IInv, BeginSweep  PROVE IInv'
    OBVIOUS
<1>1. StateOK(clients, dflt, left, queue)
    BY DEF IInv
<1>2. /\ todo' = clients' /\ phase' = "clients"
      /\ qleft' \in 0..Week /\ wake' \in Nat
    BY TimeAssumption DEF BeginSweep
<1>3. UNCHANGED <<clients, dflt, tmo, left, queue, issued, running, out>>
    BY DEF BeginSweep
<1> QED  BY <1>1, <1>2, <1>3, Assemble DEF IInv, TypeOK, RestOK, Outs

LEMMA CheckWaitingKeeps ==
    ASSUME IInv, NEW c \in Client, CheckWaiting(c)
    PROVE  IInv'
<1> DEFINE n == dflt[c]
           Q == Refreshed(queue, n)
<1>1. /\ phase = "clients" /\ c \in todo /\ todo' = todo \ {c}
      /\ UNCHANGED <<clients, dflt, tmo, qleft, issued, phase, running>>
    BY DEF CheckWaiting
<1>2. /\ TypeOK /\ StateOK(clients, dflt, left, queue) /\ c \in clients
      /\ n \in DOMAIN queue /\ queue[n] \in QueueRec /\ qleft \in 0..Week
    BY <1>1 DEF IInv, TypeOK, StateOK, QueuesOK
<1>3. /\ DOMAIN Q = DOMAIN queue
      /\ Q[n] = [queue[n] EXCEPT !.left = qleft]
      /\ \A m \in DOMAIN queue : m # n => Q[m] = queue[m]
    BY <1>2 DEF Refreshed
<1>4. /\ Q[n].waiters = queue[n].waiters /\ Q[n].buf = queue[n].buf
      /\ Q[n].real = queue[n].real /\ Q[n] \in QueueRec
    BY <1>2, <1>3 DEF QueueRec
<1>5. SameAs(queue, Q)
  <2>1. \A m \in DOMAIN queue : queue[m] \in QueueRec
      BY <1>2 DEF TypeOK
  <2> HIDE DEF Q
  <2> QED  BY <1>3, <1>4, <2>1 DEF SameAs
<1>6. StateOK(clients, dflt, left, Q)
  <2> HIDE DEF Q
  <2> QED  BY <1>2, <1>5, SameLists
<1>7. CASE left[c] = 0
  <2>1. /\ queue' = Dequeue(Q, n, c) /\ left' = [left EXCEPT ![c] = NoDeadline]
        /\ out' = BadNews(out, {c}) /\ wake' = wake
      BY <1>7 DEF CheckWaiting
  <2>2. n \in DOMAIN Q /\ c \in ToSet(Q[n].waiters)
    <3> HIDE DEF Q
    <3> QED  BY <1>6, <1>7 DEF StateOK, DeadlinesOK, NoDeadline
  <2> HIDE DEF Q, n
  <2>3. StateOK(clients, dflt, [left EXCEPT ![c] = NoDeadline], Dequeue(Q, n, c))
      BY <1>6, <2>2, DequeueKeeps
  <2>4. DOMAIN Dequeue(Q, n, c) = DOMAIN Q
      BY DEF Dequeue
  <2>5. StateOK(clients', dflt', left', queue')
      BY <1>1, <2>1, <2>3
  <2>6. RestOK(tmo', issued', running', out')
      BY <1>1, <1>2, <2>1, BadNewsType DEF RestOK, TypeOK, Outs
  <2>7. IssuedOK(queue', issued')
      BY <1>1, <1>3, <2>1, <2>4 DEF IInv, IssuedOK
  <2> QED  BY <1>1, <1>2, <2>1, <2>5, <2>6, <2>7, Assemble DEF TypeOK
<1>8. CASE left[c] # 0
  <2>1. /\ queue' = Q /\ UNCHANGED <<left, out>>
        /\ wake' = IF left[c] = NoDeadline THEN wake ELSE Earlier(wake, left[c])
      BY <1>8 DEF CheckWaiting
  <2>2. wake' \in Nat
      BY <1>2, <2>1 DEF TypeOK, NoDeadline, Earlier
  <2> HIDE DEF Q, n
  <2>3. StateOK(clients', dflt', left', queue')
      BY <1>1, <1>6, <2>1
  <2>4. RestOK(tmo', issued', running', out')
      BY <1>1, <1>2, <2>1 DEF RestOK, TypeOK, Outs
  <2>5. IssuedOK(queue', issued')
      BY <1>1, <1>3, <2>1 DEF IInv, IssuedOK
  <2> QED  BY <1>1, <1>2, <2>2, <2>3, <2>4, <2>5, Assemble DEF TypeOK
<1> QED  BY <1>7, <1>8

LEMMA CheckQueuesKeeps == IInv /\ CheckQueues => IInv'
<1> SUFFICES ASSUME IInv, CheckQueues  PROVE IInv'
    OBVIOUS
<1> DEFINE expired == {n \in DOMAIN queue : queue[n].left = 0}
           purged  == expired \ {dflt[c] : c \in clients}
           told    == WaitersOf(queue, purged)
           R == [n \in DOMAIN queue |->
                   IF n \in expired THEN [queue[n] EXCEPT !.left = qleft] ELSE queue[n]]
           nearest == {wake} \cup {R[n].left : n \in DOMAIN queue}
<1>1. /\ phase = "clients" /\ todo = {}
      /\ queue' = Deleted(R, purged) /\ dflt' = DeletedFrom(dflt, purged)
      /\ left' = NoLonger(left, told) /\ out' = BadNews(out, told)
      /\ wake' \in nearest /\ phase' = IF running THEN "poll" ELSE "cleanup"
      /\ UNCHANGED <<clients, tmo, qleft, issued, todo, running>>
    BY DEF CheckQueues, AfterSweep
<1>2. /\ TypeOK /\ StateOK(clients, dflt, left, queue) /\ qleft \in 0..Week
      /\ \A n \in DOMAIN queue : queue[n] \in QueueRec
    BY DEF IInv, TypeOK
<1>3. /\ DOMAIN R = DOMAIN queue
      /\ \A n \in DOMAIN queue : R[n] = IF n \in expired THEN [queue[n] EXCEPT !.left = qleft]
                                                        ELSE queue[n]
    OBVIOUS
<1>4. purged \in SUBSET DOMAIN queue
    OBVIOUS
<1> HIDE DEF R, purged, expired
<1>5. \A n \in DOMAIN queue : /\ R[n] \in QueueRec /\ R[n].waiters = queue[n].waiters
                              /\ R[n].real = queue[n].real /\ R[n].buf = queue[n].buf
    BY <1>2, <1>3 DEF QueueRec
<1>6. SameAs(queue, R)
    BY <1>3, <1>5 DEF SameAs
<1>7. StateOK(clients, dflt, left, R)
    BY <1>2, <1>6, SameLists
<1>8. WaitersOf(R, purged) = told
    BY <1>4, <1>5 DEF WaitersOf
<1>9. StateOK(clients, DeletedFrom(dflt, purged), NoLonger(left, told), Deleted(R, purged))
  <2>1. Session \in QName /\ purged \in SUBSET DOMAIN R
      BY <1>3, <1>4, NameAssumption DEF QName
  <2> HIDE DEF told
  <2>2. StateOK(clients, DeletedFrom(dflt, purged), NoLonger(left, WaitersOf(R, purged)),
                Deleted(R, purged))
      BY <1>7, <2>1, DeleteKeeps
  <2> QED  BY <2>2, <1>8
<1>11. StateOK(clients', dflt', left', queue')
    BY <1>1, <1>9
<1>12. RestOK(tmo', issued', running', out')
    BY <1>1, <1>2, BadNewsType DEF RestOK, TypeOK, Outs
<1>13. IssuedOK(queue', issued')
  <2>1. DOMAIN Deleted(R, purged) \subseteq DOMAIN R
      BY DEF Deleted, Unlink, Cleared
  <2> QED  BY <1>1, <1>3, <2>1 DEF IInv, IssuedOK
<1>14. wake' \in Nat
    BY <1>1, <1>2, <1>5, TimeAssumption DEF TypeOK, QueueRec
<1> QED  BY <1>1, <1>2, <1>11, <1>12, <1>13, <1>14, Assemble DEF TypeOK
LEMMA CleanupKeeps == IInv /\ Cleanup => IInv'
<1> SUFFICES ASSUME IInv, Cleanup  PROVE IInv'
    OBVIOUS
<1> DEFINE S    == DOMAIN queue
           told == WaitersOf(queue, S)
<1>1. /\ phase = "cleanup" /\ phase' = "ended"
      /\ queue' = Deleted(queue, S) /\ dflt' = DeletedFrom(dflt, S)
      /\ left' = NoLonger(left, told) /\ out' = BadNews(out, told)
      /\ UNCHANGED <<clients, tmo, qleft, issued, todo, wake, running>>
    BY DEF Cleanup
<1>2. TypeOK /\ StateOK(clients, dflt, left, queue)
    BY DEF IInv
<1>3. Session \in QName /\ S \in SUBSET DOMAIN queue
    BY NameAssumption DEF QName
<1> HIDE DEF S
<1>4. StateOK(clients, DeletedFrom(dflt, S), NoLonger(left, told), Deleted(queue, S))
    BY <1>2, <1>3, DeleteKeeps
<1>5. StateOK(clients', dflt', left', queue')
    BY <1>1, <1>4
<1>6. RestOK(tmo', issued', running', out')
    BY <1>1, <1>2, BadNewsType DEF RestOK, TypeOK, Outs
<1>7. IssuedOK(queue', issued')
  <2>1. DOMAIN Deleted(queue, S) \subseteq DOMAIN queue
      BY DEF Deleted, Unlink, Cleared
  <2> QED  BY <1>1, <2>1 DEF IInv, IssuedOK
<1> QED  BY <1>1, <1>2, <1>5, <1>6, <1>7, Assemble DEF TypeOK

LEMMA AcceptKeeps ==
    ASSUME IInv, NEW c \in Client, Accept(c)
    PROVE  IInv'
<1>1. /\ clients' = clients \cup {c} /\ dflt' = [dflt EXCEPT ![c] = Session]
      /\ tmo' = [tmo EXCEPT ![c] = AtOnce] /\ left' = [left EXCEPT ![c] = NoDeadline]
      /\ out' = [out EXCEPT ![c] = <<>>]
      /\ phase' = "serve" /\ todo' = {}
      /\ UNCHANGED <<queue, qleft, issued, wake, running>>
    BY DEF Accept
<1>2. TypeOK /\ StateOK(clients, dflt, left, queue) /\ c \notin clients
    BY DEF IInv, Accept
<1>3. out' \in Outs
  <2>1. <<>> \in Seq([code : 0..9, data : AnswerData])
      OBVIOUS
  <2> QED  BY <1>1, <1>2, <2>1 DEF TypeOK, Outs
<1>4. /\ dflt' \in [Client -> QName] /\ dflt'[c] = Session
      /\ \A d \in clients : dflt'[d] = dflt[d]
    BY <1>1, <1>2, NameAssumption DEF TypeOK, QName
<1>5. /\ left' \in [Client -> Nat \cup {NoDeadline}] /\ left'[c] = NoDeadline
      /\ \A d \in Client : d # c => left'[d] = left[d]
    BY <1>1, <1>2 DEF TypeOK
<1>6. QueuesOK(clients', dflt', queue') /\ ListsOK(clients', queue')
    BY <1>1, <1>2, <1>4 DEF StateOK, QueuesOK, ListsOK
<1>7. DeadlinesOK(clients', dflt', left', queue')
    BY <1>1, <1>2, <1>4, <1>5 DEF StateOK, DeadlinesOK
<1>8. StateOK(clients', dflt', left', queue')
    BY <1>1, <1>2, <1>4, <1>5, <1>6, <1>7 DEF StateOK
<1>9. tmo' \in [Client -> Timeout \cup {Forever, AtOnce}]
    BY <1>1, <1>2 DEF TypeOK
<1>10. RestOK(tmo', issued', running', out')
    BY <1>1, <1>2, <1>3, <1>9 DEF RestOK, TypeOK
<1> QED  BY <1>1, <1>2, <1>8, <1>10, Assemble DEF IInv, TypeOK

LEMMA ReadyKeeps ==
    ASSUME IInv, NEW S \in SUBSET {c \in clients : MayBeReady(c)}, Ready(S)
    PROVE  IInv'
<1>1. /\ phase' = "serve" /\ todo' = S
      /\ UNCHANGED <<clients, dflt, tmo, left, queue, qleft, issued, wake, running, out>>
    BY DEF Ready
<1>2. TypeOK /\ StateOK(clients, dflt, left, queue)
    BY DEF IInv
<1> QED  BY <1>1, <1>2, Assemble DEF IInv, TypeOK, RestOK, Outs

LEMMA PollTimeoutKeeps == IInv /\ PollTimeout => IInv'
<1> SUFFICES ASSUME IInv, PollTimeout  PROVE IInv'
    OBVIOUS
<1>1. /\ phase' = "serve" /\ todo' = {}
      /\ UNCHANGED <<clients, dflt, tmo, left, queue, qleft, issued, wake, running, out>>
    BY DEF PollTimeout
<1>2. TypeOK /\ StateOK(clients, dflt, left, queue)
    BY DEF IInv
<1> QED  BY <1>1, <1>2, Assemble DEF IInv, TypeOK, RestOK, Outs

LEMMA SignalKeeps == IInv /\ Signal => IInv'
<1> SUFFICES ASSUME IInv, Signal  PROVE IInv'
    OBVIOUS
<1>1. /\ running' = FALSE /\ todo' = todo
      /\ phase' \in {"poll", "serve", "clients", "cleanup"}
      /\ UNCHANGED <<clients, dflt, tmo, left, queue, qleft, issued, todo, wake, out>>
    BY DEF Signal
<1>2. TypeOK /\ StateOK(clients, dflt, left, queue)
    BY DEF IInv
<1> QED  BY <1>1, <1>2, Assemble DEF IInv, TypeOK, RestOK, Outs

LEMMA ReceiveKeeps ==
    ASSUME IInv, NEW c \in Client, Receive(c)
    PROVE  IInv'
<1>1. /\ out' = [out EXCEPT ![c] = Tail(@)] /\ out[c] # <<>>
      /\ UNCHANGED <<clients, dflt, tmo, left, queue, qleft, issued, phase, todo, wake, running>>
    BY DEF Receive
<1>2. TypeOK /\ StateOK(clients, dflt, left, queue)
    BY DEF IInv
<1>3. out' \in Outs
  <2> DEFINE A == [code : 0..9, data : AnswerData]
  <2>2. out[c] \in Seq(A) /\ out[c] # <<>>
      BY <1>1, <1>2 DEF TypeOK
  <2> HIDE DEF A
  <2>3. Tail(out[c]) \in Seq(A)
      BY <2>2
  <2>4. Tail(out[c]) \in Seq([code : 0..9, data : AnswerData])
      BY <2>3 DEF A
  <2> QED  BY <1>1, <1>2, <2>4 DEF TypeOK, Outs
<1>4. RestOK(tmo', issued', running', out')
    BY <1>1, <1>2, <1>3 DEF RestOK, TypeOK
<1>5. StateOK(clients', dflt', left', queue')
    BY <1>1, <1>2
<1> QED  BY <1>1, <1>2, <1>4, <1>5, Assemble DEF IInv, TypeOK

LEMMA TickKeeps == IInv /\ Tick => IInv'
<1> SUFFICES ASSUME IInv, Tick  PROVE IInv'
    OBVIOUS
<1> DEFINE M == [c \in Client |-> Less(left[c])]
           R == [n \in DOMAIN queue |-> [queue[n] EXCEPT !.left = Less(@)]]
<1>1. /\ left' = M /\ queue' = R /\ qleft' = Less(qleft) /\ wake' = Less(wake)
      /\ UNCHANGED <<clients, dflt, tmo, issued, phase, todo, running, out>>
    BY DEF Tick
<1>2. /\ TypeOK /\ StateOK(clients, dflt, left, queue)
      /\ \A n \in DOMAIN queue : queue[n] \in QueueRec
    BY DEF IInv, TypeOK
<1>3. qleft' \in 0..Week /\ wake' \in Nat
    BY <1>1, <1>2, TimeAssumption DEF TypeOK, Less
<1>4. /\ M \in [Client -> Nat \cup {NoDeadline}]
      /\ \A c \in Client : M[c] # NoDeadline <=> left[c] # NoDeadline
    BY <1>2 DEF TypeOK, Less, NoDeadline
<1>5. /\ DOMAIN R = DOMAIN queue
      /\ \A n \in DOMAIN queue : R[n] = [queue[n] EXCEPT !.left = Less(queue[n].left)]
    OBVIOUS
<1>6. \A n \in DOMAIN queue : queue[n].left \in 0..Week /\ Less(queue[n].left) \in 0..Week
    BY <1>2, TimeAssumption DEF QueueRec, Less
<1> HIDE DEF M, R
<1>7. SameAs(queue, R)
    BY <1>2, <1>5, <1>6 DEF SameAs, QueueRec
<1>8. StateOK(clients, dflt, left, R)
    BY <1>2, <1>7, SameLists
<1>9. StateOK(clients, dflt, M, R)
    BY <1>4, <1>8, SameDeadlines
<1>10. StateOK(clients', dflt', left', queue')
    BY <1>1, <1>9
<1>11. RestOK(tmo', issued', running', out')
    BY <1>1, <1>2 DEF RestOK, TypeOK, Outs
<1>12. IssuedOK(queue', issued')
    BY <1>1, <1>5 DEF IInv, IssuedOK
<1> QED  BY <1>1, <1>2, <1>3, <1>10, <1>11, <1>12, Assemble DEF TypeOK

LEMMA StepKeeps ==
    ASSUME IInv, [Next]_vars
    PROVE  Kept
<1>1. CASE \E c \in Client, r \in Request : Known(r) /\ Serve(c, r)
    BY <1>1, ServeKeeps
<1>2. CASE \E c \in Client, told \in BOOLEAN : Drop(c, told)
    BY <1>2, DropKeeps
<1>3. ASSUME IInv'  PROVE Kept
    BY <1>3, Whole, PTL DEF Kept
<1>4. CASE \E c \in Client : Accept(c)
    BY <1>3, <1>4, AcceptKeeps
<1>5. CASE \E S \in SUBSET {c \in clients : MayBeReady(c)} : Ready(S)
    BY <1>3, <1>5, ReadyKeeps
<1>6. CASE Server
    BY <1>3, <1>6, PollTimeoutKeeps, BeginSweepKeeps, CheckWaitingKeeps, CheckQueuesKeeps,
       CleanupKeeps DEF Server, Sweep
<1>7. CASE Signal
    BY <1>3, <1>7, SignalKeeps
<1>8. CASE Tick
    BY <1>3, <1>8, TickKeeps
<1>9. CASE \E c \in Client : Receive(c)
    BY <1>3, <1>9, ReceiveKeeps
<1>10. CASE Ended \/ Torn \/ UNCHANGED vars
  <2>1. UNCHANGED <<clients, dflt, tmo, left, queue, qleft, issued, phase, todo, wake, running, out>>
      BY <1>10 DEF Ended, Torn, vars
  <2>2. TypeOK /\ StateOK(clients, dflt, left, queue) /\ IssuedOK(queue, issued)
      BY DEF IInv
  <2>3. StateOK(clients', dflt', left', queue')
      BY <2>1, <2>2
  <2>4. IInv'
      BY <2>1, <2>2, <2>3, Assemble DEF TypeOK, RestOK, Outs
  <2> QED  BY <1>3, <2>4
<1> QED  BY <1>1, <1>2, <1>4, <1>5, <1>6, <1>7, <1>8, <1>9, <1>10 DEF Next

\* No step is taken from a torn list.
LEMMA StepHalf ==
    ASSUME HInv, [Next]_vars
    PROVE  HInv' /\ (Intact' \/ Abandons \/ UNCHANGED vars)
<1>1. CASE Intact
    BY <1>1, Whole, StepKeeps DEF Kept
<1>2. CASE ~Intact
  <2>1. UNCHANGED vars
      BY <1>2 DEF Next, Torn
  <2>2. HInv'
      BY <2>1 DEF HInv, HalfOK, TypeOK, vars
  <2> QED  BY <2>1, <2>2
<1> QED  BY <1>1, <1>2

-----------------------------------------------------------------------------
(* The theorems.                                                           *)

LEMMA InvariantHolds == Spec => []HInv
<1>1. Init => HInv
    BY InitHolds, Whole
<1>2. HInv /\ [Next]_vars => HInv'
    BY StepHalf
<1> QED  BY <1>1, <1>2, PTL DEF Spec

\* Every variable keeps its type.
THEOREM TypeCorrect == Spec => []TypeOK
<1>1. HInv => TypeOK
    BY DEF HInv
<1> QED  BY <1>1, InvariantHolds, PTL

\* The only way to a list of waiters that holds a freed record or a client twice is to
\* serve a client, or to drop one, that waits without a deadline. Interrupted waits
\* with a deadline, timeouts, deletions, clears, pulls and lines do not lead there.
THEOREM ListsIntact == Spec => IntactKept
<1>1. HInv /\ [Next]_vars => [Intact' \/ Abandons]_vars
    BY StepHalf
<1> QED  BY <1>1, InvariantHolds, PTL DEF Spec, IntactKept

\* A connected client's default queue exists at all times, and so does SESSION.
THEOREM DefaultQueueAlways == Spec => []DefaultQueueValid
<1>1. HInv => DefaultQueueValid
    BY DEF HInv, HalfOK, QueuesOK, DefaultQueueValid
<1> QED  BY <1>1, InvariantHolds, PTL

\* A client with a deadline is linked in the list where the daemon will look
\* for it when the deadline passes or the client interrupts its wait.
THEOREM DeadlineListed == Spec => []DeadlineMeansListed
<1>1. HInv => DeadlineMeansListed
    BY DEF HInv, HalfOK, DeadlinesOK, DeadlineMeansListed
<1> QED  BY <1>1, InvariantHolds, PTL

\* No client waits for data on a queue that has some.
THEOREM NoStarvation == Spec => []NoStarvedWaiter
<1>1. HInv => NoStarvedWaiter
    BY DEF HInv, HalfOK, FedOK, NoStarvedWaiter
<1> QED  BY <1>1, InvariantHolds, PTL
-----------------------------------------------------------------------------
(* The end of the daemon, and the expiry of queues.                        *)

\* After rxstack_cleanup() no list holds a client, and nothing enlists one.
EndedOK == phase = "ended" => \A n \in DOMAIN queue : queue[n].waiters = <<>>

\* In the sweep no time passes: the queues of the clients already visited have the
\* deadline check_for_waiting() has given them.
SweepOK == phase = "clients" =>
    qleft = Week /\ \A c \in clients \ todo : queue[dflt[c]].left = Week

\* Which actions run in which phase.
LEMMA Phases ==
    ASSUME [Next]_vars, phase' \in {"clients", "ended"}
    PROVE  \/ phase = "serve" /\ BeginSweep
           \/ phase = "clients" /\ \E c \in Client : CheckWaiting(c)
           \/ phase = "cleanup" /\ Cleanup
           \/ phase = phase' /\ UNCHANGED <<clients, dflt, queue, qleft, todo>>
<1>1. CASE \E c \in Client : Accept(c)
    BY <1>1 DEF Accept
<1>2. CASE \E S \in SUBSET {c \in clients : MayBeReady(c)} : Ready(S)
    BY <1>2 DEF Ready
<1>3. CASE \E c \in Client, r \in Request : Known(r) /\ Serve(c, r)
    BY <1>3 DEF Serve
<1>4. CASE \E c \in Client, told \in BOOLEAN : Drop(c, told)
    BY <1>4 DEF Drop
<1>5. CASE Server
  <2>1. ~PollTimeout /\ ~CheckQueues
      BY DEF PollTimeout, CheckQueues, AfterSweep
  <2> QED  BY <1>5, <2>1 DEF Server, Sweep, BeginSweep, CheckWaiting, Cleanup
<1>6. CASE Signal
    BY <1>6 DEF Signal
<1>7. CASE Tick
    BY <1>7 DEF Tick
<1>8. CASE \E c \in Client : Receive(c)
    BY <1>8 DEF Receive
<1>9. CASE Ended \/ Torn \/ UNCHANGED vars
    BY <1>9 DEF Ended, Torn, vars
<1> QED  BY <1>1, <1>2, <1>3, <1>4, <1>5, <1>6, <1>7, <1>8, <1>9 DEF Next

LEMMA EndedKeeps ==
    ASSUME HInv, EndedOK, [Next]_vars
    PROVE  EndedOK'
<1> SUFFICES ASSUME phase' = "ended", NEW n \in DOMAIN queue'  PROVE queue'[n].waiters = <<>>
    BY DEF EndedOK
<1>1. CASE phase = "cleanup" /\ Cleanup
  <2>1. queue' = Deleted(queue, DOMAIN queue)
      BY <1>1 DEF Cleanup
  <2> DEFINE D == DOMAIN queue
             Q == Cleared(queue, D)
  <2>2. \A m \in D : queue[m] \in QueueRec
      BY DEF HInv, TypeOK
  <2>3. DOMAIN Q = D /\ \A m \in D : Q[m].waiters = <<>>
    <3>1. DOMAIN Q = D
        BY DEF Cleared
    <3>2. ASSUME NEW m \in D  PROVE Q[m].waiters = <<>>
      <4>1. Q[m] = [queue[m] EXCEPT !.buf = <<>>, !.waiters = <<>>]
          BY DEF Cleared
      <4> HIDE DEF Q
      <4> QED  BY <2>2, <4>1 DEF QueueRec
    <3> QED  BY <3>1, <3>2
  <2>4. queue' = [m \in DOMAIN Q \ (D \ {Session}) |-> Q[m]]
      BY <2>1 DEF Deleted, Unlink
  <2> HIDE DEF Q, D
  <2>5. n \in DOMAIN Q /\ queue'[n] = Q[n]
      BY <2>4
  <2> QED  BY <2>3, <2>5
<1>2. CASE phase = phase' /\ UNCHANGED <<clients, dflt, queue, qleft, todo>>
    BY <1>2 DEF EndedOK
<1>3. ~BeginSweep /\ ~\E c \in Client : CheckWaiting(c)
    BY DEF BeginSweep, CheckWaiting
<1> QED  BY <1>1, <1>2, <1>3, Phases

LEMMA SweepKeeps ==
    ASSUME HInv, SweepOK, [Next]_vars
    PROVE  SweepOK'
<1> SUFFICES ASSUME phase' = "clients"
             PROVE  qleft' = Week /\ \A c \in clients' \ todo' : queue'[dflt'[c]].left = Week
    BY DEF SweepOK
<1>1. CASE BeginSweep
    BY <1>1 DEF BeginSweep
<1>2. ASSUME NEW d \in Client, CheckWaiting(d)
      PROVE  qleft' = Week /\ \A c \in clients' \ todo' : queue'[dflt'[c]].left = Week
  <2> DEFINE n == dflt[d]
             Q == Refreshed(queue, n)
  <2>1. /\ phase = "clients" /\ d \in todo /\ todo' = todo \ {d}
        /\ UNCHANGED <<clients, dflt, qleft>>
        /\ queue' = Q \/ queue' = Dequeue(Q, n, d)
      BY <1>2 DEF CheckWaiting
  <2>2. /\ qleft = Week /\ n \in DOMAIN queue /\ \A m \in DOMAIN queue : queue[m] \in QueueRec
        /\ \A c \in clients : dflt[c] \in DOMAIN queue
      BY <2>1 DEF SweepOK, HInv, TypeOK, HalfOK, QueuesOK
  <2>3. \A m \in DOMAIN queue : /\ Q[m] \in QueueRec
                                /\ Q[m].left = IF m = n THEN Week ELSE queue[m].left
    <3>1. /\ Q[n] = [queue[n] EXCEPT !.left = qleft]
          /\ \A m \in DOMAIN queue : m # n => Q[m] = queue[m]
        BY <2>2 DEF Refreshed
    <3> HIDE DEF Q, n
    <3>2. Q[n] \in QueueRec /\ Q[n].left = Week
        BY <2>2, <3>1, TimeAssumption DEF QueueRec
    <3> QED  BY <2>2, <3>1, <3>2
  <2>4. DOMAIN Q = DOMAIN queue
      BY DEF Refreshed
  <2> HIDE DEF Q, n
  <2>5. \A m \in DOMAIN queue : Dequeue(Q, n, d)[m].left = Q[m].left
      BY <2>2, <2>3, <2>4 DEF Dequeue, QueueRec
  <2>6. \A m \in DOMAIN queue : queue'[m].left = IF m = n THEN Week ELSE queue[m].left
      BY <2>1, <2>3, <2>5
  <2>7. ASSUME NEW c \in clients' \ todo'  PROVE queue'[dflt'[c]].left = Week
    <3>1. dflt'[c] = dflt[c] /\ dflt[c] \in DOMAIN queue /\ (c = d \/ c \in clients \ todo)
        BY <2>1, <2>2, <2>7
    <3>2. c = d => dflt[c] = n
        BY DEF n
    <3> QED  BY <2>1, <2>6, <3>1, <3>2 DEF SweepOK
  <2> QED  BY <2>1, <2>2, <2>7
<1>3. CASE phase = phase' /\ UNCHANGED <<clients, dflt, queue, qleft, todo>>
    BY <1>3 DEF SweepOK
<1>4. ~Cleanup
    BY DEF Cleanup
<1> QED  BY <1>1, <1>2, <1>3, <1>4, Phases

\* A queue that a connected client uses does not expire: the sweep over the clients
\* renews it before the sweep over the queues looks.
THEOREM UsedQueueKept == Spec => []UsedQueueNotExpired
<1>1. Init => HInv /\ SweepOK
    BY InitHolds, Whole DEF Init, SweepOK
<1>2. HInv /\ SweepOK /\ [Next]_vars => HInv' /\ SweepOK'
    BY StepHalf, SweepKeeps
<1>3. SweepOK => UsedQueueNotExpired
    BY TimeAssumption DEF SweepOK, UsedQueueNotExpired
<1> QED  BY <1>1, <1>2, <1>3, PTL DEF Spec

-----------------------------------------------------------------------------
(* The order of the waiters.                                               *)

\* The list y holds only waiters of x, in the order they have there.
Embeds(y, x) ==
    \A k, l \in DOMAIN y : k < l =>
        \E i, j \in DOMAIN x : i < j /\ x[i] = y[k] /\ x[j] = y[l]

\* The list s is x without c.
Without(x, s, c) ==
    /\ s \in Seq(Client) /\ IsInjective(s)
    /\ ToSet(s) = ToSet(x) \ {c}
    /\ Embeds(s, x)
    /\ \A i, j \in DOMAIN x : i < j /\ x[i] # c /\ x[j] # c =>
           \E k, l \in DOMAIN s : k < l /\ s[k] = x[i] /\ s[l] = x[j]

\* In the list y the waiters of s stand as before, but for c at the end.
Joins(y, s, c) ==
    \A k, l \in DOMAIN y : k < l /\ y[l] # c =>
        y[k] # c /\ \E i, j \in DOMAIN s : i < j /\ s[i] = y[k] /\ s[j] = y[l]

\* What is left of a list of clients when one is taken out.
LEMMA ClientTakenOut ==
    ASSUME NEW s \in Seq(Client), NEW p \in 1..Len(s), NEW t, t = RemoveAt(s, p)
    PROVE  /\ Len(t) = Len(s) - 1 /\ Len(s) \in Nat
           /\ \A i \in 1..(Len(s) - 1) : t[i] = IF i < p THEN s[i] ELSE s[i + 1]
<1>1. /\ Len(RemoveAt(s, p)) = Len(s) - 1
      /\ \A i \in 1..(Len(s) - 1) : RemoveAt(s, p)[i] = IF i < p THEN s[i] ELSE s[i + 1]
    BY TakeOutAt
<1>2. Len(s) \in Nat
    OBVIOUS
<1> QED  BY <1>1, <1>2

\* A client that leaves a list of waiters leaves the others in their order.
LEMMA LeaveOrder ==
    ASSUME NEW s \in Seq(Client), IsInjective(s), NEW c
    PROVE  Without(s, RemoveFirst(s, c), c)
<1> DEFINE t == RemoveFirst(s, c)
<1>1. t \in Seq(Client) /\ ToSet(t) = ToSet(s) \ {c} /\ IsInjective(t)
    BY LeaveList
<1>2. CASE ~ \E i \in 1..Len(s) : s[i] = c
  <2>1. t = s
      BY <1>2 DEF RemoveFirst
  <2> QED  BY <1>1, <2>1 DEF Without, Embeds
<1>3. CASE \E i \in 1..Len(s) : s[i] = c
  <2>1. PICK p \in 1..Len(s) : s[p] = c
      BY <1>3
  <2>2. {i \in 1..Len(s) : s[i] = c} = {p}
      BY <2>1 DEF IsInjective
  <2>3. SelectInSeq(s, LAMBDA v : v = c) = p
    <3>1. (CHOOSE x \in {p} : \A y \in {p} : x <= y) = p
        OBVIOUS
    <3> QED  BY <2>2, <3>1 DEF SelectInSeq, Min
  <2>4. t = RemoveAt(s, p)
      BY <1>3, <2>3 DEF RemoveFirst
  <2>5. /\ Len(t) = Len(s) - 1 /\ Len(s) \in Nat
        /\ \A i \in 1..(Len(s) - 1) : t[i] = IF i < p THEN s[i] ELSE s[i + 1]
      BY <2>1, <2>4, ClientTakenOut
  <2> HIDE DEF t
  <2>6. DOMAIN t = 1..(Len(s) - 1) /\ DOMAIN s = 1..Len(s)
      BY <1>1, <2>5
  <2>7. Embeds(t, s)
    <3> SUFFICES ASSUME NEW k \in DOMAIN t, NEW l \in DOMAIN t, k < l
                 PROVE  \E i, j \in DOMAIN s : i < j /\ s[i] = t[k] /\ s[j] = t[l]
        BY Zenon DEF Embeds
    <3> DEFINE at(x) == IF x < p THEN x ELSE x + 1
    <3>1. at(k) \in DOMAIN s /\ at(l) \in DOMAIN s /\ at(k) < at(l)
        BY <2>5, <2>6
    <3>2. t[k] = s[at(k)] /\ t[l] = s[at(l)]
        BY <2>5, <2>6
    <3> QED  BY <3>1, <3>2
  <2>8. ASSUME NEW i \in DOMAIN s, NEW j \in DOMAIN s, i < j, s[i] # c, s[j] # c
        PROVE  \E k, l \in DOMAIN t : k < l /\ t[k] = s[i] /\ t[l] = s[j]
    <3> DEFINE at(x) == IF x < p THEN x ELSE x - 1
    <3>1. i # p /\ j # p
        BY <2>1, <2>8
    <3>2. at(i) \in DOMAIN t /\ at(j) \in DOMAIN t /\ at(i) < at(j)
        BY <2>5, <2>6, <2>8, <3>1
    <3>3. ASSUME NEW x \in DOMAIN s, x # p  PROVE t[at(x)] = s[x]
      <4>1. CASE x < p
          BY <4>1, <2>5, <2>6
      <4>2. CASE x > p
        <5>1. x - 1 \in 1..(Len(s) - 1) /\ ~(x - 1 < p) /\ (x - 1) + 1 = x /\ at(x) = x - 1
            BY <4>2, <2>6, <2>5
        <5> QED  BY <5>1, <2>5
      <4> QED  BY <3>3, <4>1, <4>2, <2>6
    <3> QED  BY <3>1, <3>2, <3>3
  <2>9. Without(s, t, c)
      BY <1>1, <2>7, <2>8, Zenon DEF Without
  <2> QED  BY <2>9 DEF t
<1> QED  BY <1>2, <1>3

\* A list that does not hold c is itself without c.
LEMMA NotInOrder ==
    ASSUME NEW s \in Seq(Client), IsInjective(s), NEW c, c \notin ToSet(s)
    PROVE  Without(s, s, c)
BY DEF Without, Embeds

\* A newcomer stands behind the others.
LEMMA JoinOrder ==
    ASSUME NEW s \in Seq(Client), NEW c, c \notin ToSet(s)
    PROVE  Joins(Append(s, c), s, c)
<1> DEFINE y == Append(s, c)
<1>1. /\ Len(s) \in Nat /\ DOMAIN s = 1..Len(s) /\ DOMAIN y = 1..(Len(s) + 1)
      /\ \A i \in 1..Len(s) : y[i] = s[i]
      /\ y[Len(s) + 1] = c
    OBVIOUS
<1> HIDE DEF y
<1>2. ASSUME NEW k \in DOMAIN y, NEW l \in DOMAIN y, k < l, y[l] # c
      PROVE  y[k] # c /\ \E i, j \in DOMAIN s : i < j /\ s[i] = y[k] /\ s[j] = y[l]
  <2>1. k \in DOMAIN s /\ l \in DOMAIN s
      BY <1>1, <1>2
  <2>2. s[k] = y[k] /\ s[l] = y[l] /\ s[k] # c
      BY <1>1, <2>1 DEF ToSet
  <2> QED  BY <1>2, <2>1, <2>2
<1> QED  BY <1>2 DEF Joins, y

\* What is left of a list without c joins nothing to it.
LEMMA LessOrder ==
    ASSUME NEW s, NEW y, NEW c, c \notin ToSet(s),
           y = s \/ y = <<>> \/ Embeds(y, s)
    PROVE  Joins(y, s, c)
<1>1. Embeds(y, s)
    BY DEF Embeds
<1> QED  BY <1>1 DEF Embeds, Joins, ToSet

\* What happens to the list x of a queue when a client c is served: it leaves, some
\* leave or it comes back at the end, and only the head of the list gets a line.
LEMMA ServedFair ==
    ASSUME NEW x \in Seq(Client), NEW s, NEW y, NEW c,
           Without(x, s, c), Joins(y, s, c)
    PROVE  /\ \A k, l \in DOMAIN y : k < l /\ y[l] # c =>
                 y[k] # c /\ \E i, j \in DOMAIN x : i < j /\ x[i] = y[k] /\ x[j] = y[l]
           /\ s # <<>> => \A i, j \in DOMAIN x : i < j /\ x[j] # c /\ x[j] = Head(s) => x[i] = c
<1>1. ASSUME NEW k \in DOMAIN y, NEW l \in DOMAIN y, k < l, y[l] # c
      PROVE  y[k] # c /\ \E i, j \in DOMAIN x : i < j /\ x[i] = y[k] /\ x[j] = y[l]
  <2>1. y[k] # c /\ \E i, j \in DOMAIN s : i < j /\ s[i] = y[k] /\ s[j] = y[l]
      BY <1>1 DEF Joins
  <2> QED  BY <2>1 DEF Without, Embeds
<1>2. ASSUME s # <<>>, NEW i \in DOMAIN x, NEW j \in DOMAIN x,
             i < j, x[j] # c, x[j] = Head(s), x[i] # c
      PROVE  FALSE
  <2>1. PICK k \in DOMAIN s, l \in DOMAIN s : k < l /\ s[k] = x[i] /\ s[l] = x[j]
      BY <1>2 DEF Without
  <2>2. s \in Seq(Client) /\ IsInjective(s)
      BY DEF Without
  <2>3. 1 \in DOMAIN s /\ s[1] = Head(s) /\ DOMAIN s = 1..Len(s)
      BY <1>2, <2>2
  <2>4. l = 1
      BY <1>2, <2>1, <2>2, <2>3 DEF IsInjective
  <2> QED  BY <2>1, <2>3, <2>4
<1> QED  BY <1>1, <1>2
-----------------------------------------------------------------------------
(* What a command does to the lists, and who is answered.                  *)

\* The lists after a command of c, which stood in none of them.
Moves(c, Q) ==
    \A n \in DOMAIN Q \cap DOMAIN queue' : Joins(queue'[n].waiters, Q[n].waiters, c)

\* Of the other clients only the oldest waiter of a queue gets anything but code 4.
Gives(c, Q, O) ==
    \A d \in Client \ {c} :
        \/ out'[d] = O[d]
        \/ Last(out'[d]).code = 4
        \/ \E n \in DOMAIN Q : Q[n].waiters # <<>> /\ d = Head(Q[n].waiters)

\* The lists a command finds.
LEMMA ListsSeen ==
    ASSUME NEW c, NEW Q, NEW L, NEW O, Alone(c, Q, L, O)
    PROVE  /\ \A n \in DOMAIN Q : /\ Q[n] \in QueueRec
                                  /\ Q[n].waiters \in Seq(Client)
                                  /\ IsInjective(Q[n].waiters)
                                  /\ c \notin ToSet(Q[n].waiters)
           /\ c \in Client /\ dflt[c] \in DOMAIN Q /\ O \in Outs
BY DEF Alone, Before, StateOK, QueuesOK, ListsOK, QueueRec, Unlisted

\* Lists that a command leaves alone or clears.
LEMMA SameMoves ==
    ASSUME NEW c, NEW Q, NEW L, NEW O, Alone(c, Q, L, O),
           \A n \in DOMAIN Q \cap DOMAIN queue' :
               queue'[n].waiters = Q[n].waiters \/ queue'[n].waiters = <<>>
    PROVE  Moves(c, Q)
BY ListsSeen, LessOrder DEF Moves

\* A client that is not told keeps the answers it has, and one that is told finds
\* code 4 behind them.
LEMMA BadNewsLast ==
    ASSUME NEW O \in Outs, NEW S, NEW d \in Client
    PROVE  BadNews(O, S)[d] = O[d] \/ Last(BadNews(O, S)[d]).code = 4
<1> DEFINE A == [code : 0..9, data : AnswerData]
           a == Answer(4, NoArg)
           s == O[d]
<1>1. s \in Seq(A) /\ BadNews(O, S)[d] = IF d \in S THEN Append(s, a) ELSE s
    BY DEF Outs, BadNews
<1>2. a.code = 4
    BY DEF Answer
<1> HIDE DEF a, A, s
<1>3. Last(Append(s, a)) = a
    BY <1>1 DEF Last
<1> QED  BY <1>1, <1>2, <1>3 DEF s

\* The ways a command answers the client it serves, and those it tells.
LEMMA UsualGives ==
    ASSUME NEW c \in Client, NEW Q, NEW O \in Outs, NEW S, NEW a,
           out' = O \/ out' = Reply(O, c, a) \/ out' = Reply(BadNews(O, S), c, a)
    PROVE  Gives(c, Q, O)
<1> SUFFICES ASSUME NEW d \in Client \ {c}
             PROVE  out'[d] = O[d] \/ Last(out'[d]).code = 4
    BY DEF Gives
<1>1. BadNews(O, S) \in Outs
    BY BadNewsType
<1>2. Reply(O, c, a)[d] = O[d] /\ Reply(BadNews(O, S), c, a)[d] = BadNews(O, S)[d]
    BY <1>1 DEF Reply, Outs
<1> QED  BY <1>2, BadNewsLast

\* The lists of queues that are emptied.
LEMMA ClearedLists ==
    ASSUME NEW Q, NEW S, \A n \in DOMAIN Q : Q[n] \in QueueRec
    PROVE  /\ DOMAIN Cleared(Q, S) = DOMAIN Q
           /\ \A n \in DOMAIN Q : \/ Cleared(Q, S)[n].waiters = Q[n].waiters
                                  \/ Cleared(Q, S)[n].waiters = <<>>
<1>1. DOMAIN Cleared(Q, S) = DOMAIN Q
    BY DEF Cleared
<1>2. ASSUME NEW n \in DOMAIN Q
      PROVE  \/ Cleared(Q, S)[n].waiters = Q[n].waiters
             \/ Cleared(Q, S)[n].waiters = <<>>
  <2>1. \/ Cleared(Q, S)[n] = [Q[n] EXCEPT !.buf = <<>>, !.waiters = <<>>]
        \/ Cleared(Q, S)[n] = Q[n]
      BY DEF Cleared
  <2> QED  BY <2>1 DEF QueueRec
<1> QED  BY <1>1, <1>2

LEMMA QueueDataFair ==
    ASSUME NEW c, NEW Q, NEW L, NEW O, Alone(c, Q, L, O),
           NEW op, NEW line, QueueData(c, op, line, Q, L, O)
    PROVE  Moves(c, Q) /\ Gives(c, Q, O)
<1> DEFINE n == dflt[c]
           w == Head(Q[n].waiters)
<1>1. CASE Q[n].waiters # <<>>
  <2>1. /\ queue' = [Q EXCEPT ![n].waiters = RemoveFirst(Q[n].waiters, w)]
        /\ out' = Reply(Reply(O, w, Answer(0, line)), c, Answer(0, NoArg))
      BY <1>1 DEF QueueData, Dequeue
  <2>2. n \in DOMAIN Q /\ Q[n] \in QueueRec /\ Q[n].waiters \in Seq(Client) /\ O \in Outs
        /\ IsInjective(Q[n].waiters) /\ c \notin ToSet(Q[n].waiters) /\ c \in Client
      BY ListsSeen
  <2> HIDE DEF w
  <2> DEFINE r == RemoveFirst(Q[n].waiters, w)
  <2>3. Joins(r, Q[n].waiters, c)
    <3>1. Without(Q[n].waiters, r, w)
        BY <2>2, LeaveOrder
    <3> HIDE DEF r, n
    <3> QED  BY <2>2, <3>1, LessOrder DEF Without
  <2>4. /\ DOMAIN queue' = DOMAIN Q
        /\ queue'[n] = [Q[n] EXCEPT !.waiters = r]
        /\ \A m \in DOMAIN Q : m # n => queue'[m] = Q[m]
      BY <2>1, <2>2
  <2> HIDE DEF r, n
  <2>5. queue'[n].waiters = r
      BY <2>2, <2>4 DEF QueueRec
  <2>6. \A m \in DOMAIN Q : m # n => Joins(queue'[m].waiters, Q[m].waiters, c)
      BY <2>4, ListsSeen, LessOrder
  <2>7. Moves(c, Q)
      BY <2>3, <2>4, <2>5, <2>6 DEF Moves
  <2>8. ASSUME NEW d \in Client \ {c}, d # w  PROVE out'[d] = O[d]
    <3> DEFINE a == Answer(0, line)
               b == Answer(0, NoArg)
    <3>1. out' = [[O EXCEPT ![w] = Append(O[w], a)] EXCEPT
                     ![c] = Append([O EXCEPT ![w] = Append(O[w], a)][c], b)]
        BY <2>1 DEF Reply
    <3>2. O = [e \in Client |-> O[e]]
        BY <2>2 DEF Outs
    <3> HIDE DEF a, b
    <3> QED  BY <2>8, <3>1, <3>2
  <2>9. Gives(c, Q, O)
      BY <1>1, <2>2, <2>8 DEF Gives, w, n
  <2> QED  BY <2>7, <2>9
<1>2. CASE Q[n].waiters = <<>>
  <2> DEFINE b == IF op = "F" THEN Append(Q[n].buf, line) ELSE <<line>> \o Q[n].buf
  <2>1. queue' = [Q EXCEPT ![n].buf = b] /\ out' = Reply(O, c, Answer(0, NoArg))
      BY <1>2 DEF QueueData
  <2>2. n \in DOMAIN Q /\ Q[n] \in QueueRec /\ O \in Outs /\ c \in Client
      BY ListsSeen
  <2> HIDE DEF b
  <2>3. queue'[n] = [Q[n] EXCEPT !.buf = b] /\ \A m \in DOMAIN Q : m # n => queue'[m] = Q[m]
      BY <2>1, <2>2
  <2>4. queue'[n].waiters = Q[n].waiters
      BY <2>2, <2>3 DEF QueueRec
  <2> QED  BY <2>1, <2>2, <2>3, <2>4, SameMoves, UsualGives
<1> QED  BY <1>1, <1>2

LEMMA PullFair ==
    ASSUME NEW c, NEW Q, NEW L, NEW O, Alone(c, Q, L, O),
           NEW nowait, Pull(c, nowait, Q, L, O)
    PROVE  Moves(c, Q) /\ Gives(c, Q, O)
<1> DEFINE n == dflt[c]
<1>1. n \in DOMAIN Q /\ Q[n] \in QueueRec /\ O \in Outs /\ c \in Client
    BY ListsSeen
<1>2. CASE Q[n].buf # <<>>
  <2>1. queue' = [Q EXCEPT ![n].buf = Tail(Q[n].buf)]
        /\ out' = Reply(O, c, Answer(0, Head(Q[n].buf)))
      BY <1>2 DEF Pull
  <2>2. /\ queue'[n] = [Q[n] EXCEPT !.buf = Tail(Q[n].buf)]
        /\ \A m \in DOMAIN Q : m # n => queue'[m] = Q[m]
      BY <1>1, <2>1
  <2>3. queue'[n].waiters = Q[n].waiters
      BY <1>1, <2>2 DEF QueueRec
  <2> QED  BY <1>1, <2>1, <2>2, <2>3, SameMoves, UsualGives
<1>3. CASE Q[n].buf = <<>> /\ (nowait \/ tmo[c] = AtOnce)
  <2>1. queue' = Q /\ out' = Reply(O, c, Answer(1, NoArg))
      BY <1>3 DEF Pull
  <2> QED  BY <1>1, <2>1, SameMoves, UsualGives
<1>4. CASE Q[n].buf = <<>> /\ ~(nowait \/ tmo[c] = AtOnce)
  <2> DEFINE y == Append(Q[n].waiters, c)
  <2>1. queue' = [Q EXCEPT ![n].waiters = y] /\ out' = O
      BY <1>4 DEF Pull, Enlist
  <2>2. Joins(y, Q[n].waiters, c)
    <3>1. Q[n].waiters \in Seq(Client) /\ c \notin ToSet(Q[n].waiters)
        BY <1>1, ListsSeen
    <3> QED  BY <3>1, JoinOrder
  <2>3. /\ DOMAIN queue' = DOMAIN Q
        /\ queue'[n] = [Q[n] EXCEPT !.waiters = y]
        /\ \A m \in DOMAIN Q : m # n => queue'[m] = Q[m]
      BY <1>1, <2>1
  <2> HIDE DEF y, n
  <2>4. queue'[n].waiters = y
      BY <1>1, <2>3 DEF QueueRec
  <2>5. \A m \in DOMAIN Q : m # n => Joins(queue'[m].waiters, Q[m].waiters, c)
      BY <2>3, ListsSeen, LessOrder
  <2>6. Moves(c, Q)
      BY <2>2, <2>3, <2>4, <2>5 DEF Moves
  <2> QED  BY <1>1, <2>1, <2>6, UsualGives
<1> QED  BY <1>2, <1>3, <1>4

\* A queue that is linked has no waiters.
LEMMA LinkMoves ==
    ASSUME NEW c, NEW Q, NEW L, NEW O, Alone(c, Q, L, O),
           NEW n, NEW q, q.waiters = <<>>, queue' = Link(Q, n, q)
    PROVE  Moves(c, Q)
<1>1. \A m \in DOMAIN Q : queue'[m] = IF m = n THEN q ELSE Q[m]
    BY DEF Link
<1> QED  BY <1>1, SameMoves

LEMMA SetQueueFair ==
    ASSUME NEW c, NEW Q, NEW L, NEW O, Alone(c, Q, L, O),
           NEW n, SetQueue(c, n, Q, L, O)
    PROVE  Moves(c, Q) /\ Gives(c, Q, O)
<1> DEFINE q == NewQueue(FALSE)
<1>1. q.waiters = <<>>
    BY NewQueueType DEF Alone, Before
<1>2. /\ queue' = Q \/ queue' = Link(Q, n, q)
      /\ out' = Reply(O, c, Answer(6, NoArg)) \/ out' = Reply(O, c, Answer(0, n))
    BY DEF SetQueue
<1> HIDE DEF q
<1>3. Moves(c, Q)
  <2>1. CASE queue' = Q
      BY <2>1, SameMoves
  <2>2. CASE queue' = Link(Q, n, q)
      BY <2>2, <1>1, LinkMoves
  <2> QED  BY <1>2, <2>1, <2>2
<1>4. Gives(c, Q, O)
    BY <1>2, ListsSeen, UsualGives
<1> QED  BY <1>3, <1>4

LEMMA CreateQueueFair ==
    ASSUME NEW c, NEW Q, NEW L, NEW O, Alone(c, Q, L, O),
           NEW n, CreateQueue(c, n, Q, L, O)
    PROVE  Moves(c, Q) /\ Gives(c, Q, O)
<1> DEFINE q == NewQueue(TRUE)
<1>1. q.waiters = <<>>
    BY NewQueueType DEF Alone, Before
<1>2. PICK u, a :
          /\ \/ n \in DOMAIN Q /\ queue' = [Q EXCEPT ![n].real = TRUE]
             \/ queue' = Link(Q, u, q)
          /\ out' = Reply(O, c, a)
    BY DEF CreateQueue
<1> HIDE DEF q
<1>3. Moves(c, Q)
  <2>1. CASE n \in DOMAIN Q /\ queue' = [Q EXCEPT ![n].real = TRUE]
    <3>1. /\ queue'[n] = [Q[n] EXCEPT !.real = TRUE]
          /\ \A m \in DOMAIN Q : m # n => queue'[m] = Q[m]
        BY <2>1
    <3>2. queue'[n].waiters = Q[n].waiters
        BY <2>1, <3>1, ListsSeen DEF QueueRec
    <3> QED  BY <3>1, <3>2, SameMoves
  <2>2. CASE queue' = Link(Q, u, q)
      BY <2>2, <1>1, LinkMoves
  <2> QED  BY <1>2, <2>1, <2>2
<1>4. Gives(c, Q, O)
    BY <1>2, ListsSeen, UsualGives
<1> QED  BY <1>3, <1>4

\* DELETE and EMPTY: queues go or are emptied, and their waiters are told.
LEMMA ClearFair ==
    ASSUME NEW c, NEW Q, NEW L, NEW O, Alone(c, Q, L, O),
           NEW S, NEW a, queue' = Deleted(Q, S) \/ queue' = Cleared(Q, S),
           out' = Reply(BadNews(O, WaitersOf(Q, S)), c, a)
    PROVE  Moves(c, Q) /\ Gives(c, Q, O)
<1>1. /\ DOMAIN Cleared(Q, S) = DOMAIN Q
      /\ \A n \in DOMAIN Q : \/ Cleared(Q, S)[n].waiters = Q[n].waiters
                             \/ Cleared(Q, S)[n].waiters = <<>>
    BY ListsSeen, ClearedLists
<1>2. \A n \in DOMAIN Q \cap DOMAIN queue' : queue'[n] = Cleared(Q, S)[n]
    BY DEF Deleted, Unlink
<1>3. Moves(c, Q)
    BY <1>1, <1>2, SameMoves
<1>4. Gives(c, Q, O)
    BY ListsSeen, UsualGives
<1> QED  BY <1>3, <1>4

LEMMA CommandFair ==
    ASSUME NEW c, NEW Q, NEW L, NEW O, Alone(c, Q, L, O),
           NEW r, Command(c, r, Q, L, O)
    PROVE  Moves(c, Q) /\ Gives(c, Q, O)
<1>0. c \in Client /\ O \in Outs
    BY ListsSeen
<1>1. CASE QueueData(c, r.op, r.arg, Q, L, O)
    BY <1>1, QueueDataFair
<1>2. CASE Pull(c, r.op = "p", Q, L, O)
    BY <1>2, PullFair
<1>3. CASE SetQueue(c, r.arg, Q, L, O)
    BY <1>3, SetQueueFair
<1>4. CASE CreateQueue(c, r.arg, Q, L, O)
    BY <1>4, CreateQueueFair
<1>5. CASE DeleteQueue(c, r.arg, Q, L, O)
  <2>1. PICK S, a : /\ queue' = Deleted(Q, S)
                    /\ out' = Reply(BadNews(O, WaitersOf(Q, S)), c, a)
      BY <1>5 DEF DeleteQueue
  <2> QED  BY <2>1, ClearFair
<1>6. CASE EmptyQueue(c, r.arg, Q, L, O)
  <2>1. PICK S, a : /\ queue' = Cleared(Q, S)
                    /\ out' = Reply(BadNews(O, WaitersOf(Q, S)), c, a)
      BY <1>6 DEF EmptyQueue
  <2> QED  BY <2>1, ClearFair
<1>7. CASE SetTimeout(c, r.arg, Q, L, O)
  <2>1. queue' = Q /\ \E a : out' = Reply(O, c, a)
      BY <1>7 DEF SetTimeout
  <2> QED  BY <1>0, <2>1, SameMoves, UsualGives
<1>8. CASE Query(c, r.op, Q, L, O)
  <2>1. queue' = Q /\ \E a : out' = Reply(O, c, a) \/ out' = O
      BY <1>8 DEF Query
  <2> QED  BY <1>0, <2>1, SameMoves, UsualGives
<1>9. CASE Exit(c, r.op, Q, L, O)
  <2>1. queue' = Q /\ \E a : out' = Reply(O, c, a)
      BY <1>9 DEF Exit
  <2> QED  BY <1>0, <2>1, SameMoves, UsualGives
<1> QED  BY <1>1, <1>2, <1>3, <1>4, <1>5, <1>6, <1>7, <1>8, <1>9 DEF Command
-----------------------------------------------------------------------------
(* Every step is fair.                                                     *)

\* The lists after the interruption of c's own wait hold the others as before.
LEMMA SeenWithout ==
    ASSUME IInv, phase = "serve", NEW c \in todo, Unlisted(c, QueueSeen(c))
    PROVE  /\ DOMAIN QueueSeen(c) = DOMAIN queue
           /\ \A n \in DOMAIN queue : Without(queue[n].waiters, QueueSeen(c)[n].waiters, c)
           /\ \A d \in Client \ {c} : OutSeen(c)[d] = out[d]
<1>1. /\ StateOK(clients, dflt, left, queue) /\ c \in Client
      /\ \A n \in DOMAIN queue : /\ queue[n] \in QueueRec
                                 /\ queue[n].waiters \in Seq(Client)
                                 /\ IsInjective(queue[n].waiters)
    BY DEF IInv, TypeOK, StateOK, QueuesOK, ListsOK, QueueRec
<1>2. \A d \in Client \ {c} : OutSeen(c)[d] = out[d]
    BY DEF OutSeen, BadNews
<1>3. CASE Interrupted(c)
  <2> DEFINE n == dflt[c]
             r == RemoveFirst(queue[n].waiters, c)
  <2>1. n \in DOMAIN queue /\ c \in ToSet(queue[n].waiters)
      BY <1>1, <1>3 DEF StateOK, DeadlinesOK, Interrupted
  <2>2. QueueSeen(c) = [queue EXCEPT ![n].waiters = r]
      BY <1>3 DEF QueueSeen, Dequeue
  <2>3. Without(queue[n].waiters, r, c)
      BY <1>1, <2>1, LeaveOrder
  <2>4. \A m \in DOMAIN queue : m # n => c \notin ToSet(queue[m].waiters)
      BY <1>1, <2>1 DEF StateOK, ListsOK
  <2> HIDE DEF r, n
  <2>5. /\ DOMAIN QueueSeen(c) = DOMAIN queue
        /\ QueueSeen(c)[n] = [queue[n] EXCEPT !.waiters = r]
        /\ \A m \in DOMAIN queue : m # n => QueueSeen(c)[m] = queue[m]
      BY <2>1, <2>2
  <2>6. QueueSeen(c)[n].waiters = r
      BY <1>1, <2>1, <2>5 DEF QueueRec
  <2>7. \A m \in DOMAIN queue : m # n => Without(queue[m].waiters, QueueSeen(c)[m].waiters, c)
      BY <1>1, <2>4, <2>5, NotInOrder
  <2> QED  BY <1>2, <2>3, <2>5, <2>6, <2>7
<1>4. CASE ~Interrupted(c)
  <2>1. QueueSeen(c) = queue /\ Unlisted(c, queue)
      BY <1>4 DEF QueueSeen
  <2> QED  BY <1>1, <1>2, <2>1, NotInOrder DEF Unlisted
<1> QED  BY <1>3, <1>4

\* Serving one client is fair to those who wait.
LEMMA ServedStep ==
    ASSUME IInv, phase = "serve", NEW c \in todo, todo' = todo \ {c},
           Unlisted(c, QueueSeen(c)),
           Moves(c, QueueSeen(c)), Gives(c, QueueSeen(c), OutSeen(c))
    PROVE  FairStep
<1>1. BeingServed = {c}
    BY DEF BeingServed
<1>2. clients \subseteq Client /\ ListsOK(clients, queue)
    BY DEF IInv, StateOK
<1> SUFFICES ASSUME NEW n \in DOMAIN queue \cap DOMAIN queue'
             PROVE  LET x == queue[n].waiters
                        y == queue'[n].waiters
                    IN  /\ \A k, l \in DOMAIN y : k < l /\ y[l] # c =>
                              y[k] # c /\ \E i, j \in DOMAIN x : i < j /\ x[i] = y[k] /\ x[j] = y[l]
                        /\ \A i, j \in DOMAIN x :
                              /\ i < j /\ x[j] \in clients /\ x[j] # c /\ x[j] \notin ToSet(y)
                              /\ out'[x[j]] # out[x[j]] /\ Last(out'[x[j]]).code = 0
                              => x[i] = c
    BY <1>1 DEF FairStep, ToSet
<1> DEFINE x == queue[n].waiters
           y == queue'[n].waiters
           s == QueueSeen(c)[n].waiters
<1>3. x \in Seq(Client)
    BY DEF IInv, TypeOK, QueueRec
<1>4. Without(x, s, c) /\ DOMAIN QueueSeen(c) = DOMAIN queue
    BY SeenWithout
<1>5. Joins(y, s, c)
    BY <1>4 DEF Moves
<1>6. /\ \A k, l \in DOMAIN y : k < l /\ y[l] # c =>
            y[k] # c /\ \E i, j \in DOMAIN x : i < j /\ x[i] = y[k] /\ x[j] = y[l]
      /\ s # <<>> => \A i, j \in DOMAIN x : i < j /\ x[j] # c /\ x[j] = Head(s) => x[i] = c
  <2> HIDE DEF x, y, s
  <2> QED  BY <1>3, <1>4, <1>5, ServedFair
<1>7. ASSUME NEW i \in DOMAIN x, NEW j \in DOMAIN x,
             i < j, x[j] \in clients, x[j] # c,
             out'[x[j]] # out[x[j]], Last(out'[x[j]]).code = 0
      PROVE  x[i] = c
  <2> DEFINE d == x[j]
  <2>1. d \in Client \ {c} /\ d \in ToSet(x) /\ OutSeen(c)[d] = out[d]
      BY <1>2, <1>7, SeenWithout DEF ToSet
  <2>2. PICK m \in DOMAIN queue : QueueSeen(c)[m].waiters # <<>> /\ d = Head(QueueSeen(c)[m].waiters)
      BY <1>4, <1>7, <2>1 DEF Gives
  <2>3. d \in ToSet(queue[m].waiters)
    <3> DEFINE t == QueueSeen(c)[m].waiters
    <3>1. Without(queue[m].waiters, t, c)
        BY SeenWithout
    <3>2. t # <<>> /\ d = Head(t)
        BY <2>2
    <3> HIDE DEF t, d
    <3>3. t \in Seq(Client) /\ ToSet(t) \subseteq ToSet(queue[m].waiters)
        BY <3>1 DEF Without
    <3> QED  BY <3>2, <3>3, HeadInList
  <2>4. m = n
      BY <1>2, <2>1, <2>3 DEF ListsOK
  <2> QED  BY <1>6, <1>7, <2>2, <2>4
<1> QED  BY <1>6, <1>7

\* A step that changes no list is fair.
LEMMA SameFair ==
    ASSUME BeingServed = {},
           \A n \in DOMAIN queue \cap DOMAIN queue' : queue'[n].waiters = queue[n].waiters
    PROVE  FairStep
BY DEF FairStep, ToSet

\* A step in which some leave the lists, told so by code 4, is fair.
LEMMA ToldFair ==
    ASSUME BeingServed = {},
           \A n \in DOMAIN queue \cap DOMAIN queue' : Embeds(queue'[n].waiters, queue[n].waiters),
           \A d \in clients : out'[d] = out[d] \/ Last(out'[d]).code = 4
    PROVE  FairStep
BY DEF FairStep, Embeds

\* So are the deletions of queues outside of commands.
LEMMA DeletedFair ==
    ASSUME IInv, BeingServed = {}, NEW Q, NEW S, NEW T,
           DOMAIN Q = DOMAIN queue,
           \A n \in DOMAIN queue : Q[n] \in QueueRec /\ Q[n].waiters = queue[n].waiters,
           queue' = Deleted(Q, S), out' = BadNews(out, T)
    PROVE  FairStep
<1>1. /\ DOMAIN Cleared(Q, S) = DOMAIN Q
      /\ \A n \in DOMAIN Q : \/ Cleared(Q, S)[n].waiters = Q[n].waiters
                             \/ Cleared(Q, S)[n].waiters = <<>>
    BY ClearedLists
<1>2. \A n \in DOMAIN queue \cap DOMAIN queue' : queue'[n] = Cleared(Q, S)[n]
    BY <1>1 DEF Deleted, Unlink
<1>3. \A n \in DOMAIN queue \cap DOMAIN queue' :
          queue'[n].waiters = queue[n].waiters \/ queue'[n].waiters = <<>>
    BY <1>1, <1>2
<1>4. \A n \in DOMAIN queue \cap DOMAIN queue' : Embeds(queue'[n].waiters, queue[n].waiters)
    BY <1>3 DEF Embeds
<1>5. clients \subseteq Client /\ out \in Outs
    BY DEF IInv, TypeOK, Outs
<1>6. \A d \in clients : out'[d] = out[d] \/ Last(out'[d]).code = 4
    BY <1>5, BadNewsLast
<1> QED  BY <1>4, <1>6, ToldFair

LEMMA CheckWaitingFair ==
    ASSUME IInv, NEW c \in Client, CheckWaiting(c)
    PROVE  FairStep
<1> DEFINE n == dflt[c]
           Q == Refreshed(queue, n)
<1>1. phase = "clients" /\ c \in todo /\ BeingServed = {}
    BY DEF CheckWaiting, BeingServed
<1>2. /\ n \in DOMAIN queue /\ \A m \in DOMAIN queue : queue[m] \in QueueRec
      /\ clients \subseteq Client /\ out \in Outs
    BY <1>1 DEF IInv, TypeOK, StateOK, QueuesOK, Outs
<1>3. /\ DOMAIN Q = DOMAIN queue
      /\ Q[n] = [queue[n] EXCEPT !.left = qleft]
      /\ \A m \in DOMAIN queue : m # n => Q[m] = queue[m]
    BY <1>2 DEF Refreshed
<1> HIDE DEF Q
<1>4. \A m \in DOMAIN queue : Q[m].waiters = queue[m].waiters
    BY <1>2, <1>3 DEF QueueRec
<1>5. CASE left[c] # 0
  <2>1. queue' = Q
      BY <1>5 DEF CheckWaiting, Q
  <2> QED  BY <1>1, <1>3, <1>4, <2>1, SameFair
<1>6. CASE left[c] = 0
  <2> DEFINE r == RemoveFirst(queue[n].waiters, c)
  <2>1. queue' = [Q EXCEPT ![n].waiters = r] /\ out' = BadNews(out, {c})
      BY <1>2, <1>4, <1>6 DEF CheckWaiting, Dequeue, Q
  <2>2. Embeds(r, queue[n].waiters)
    <3>1. queue[n].waiters \in Seq(Client) /\ IsInjective(queue[n].waiters)
        BY <1>2 DEF IInv, StateOK, ListsOK, QueueRec
    <3> QED  BY <3>1, LeaveOrder DEF Without
  <2> HIDE DEF r, n
  <2>3. /\ queue'[n].waiters = r
        /\ \A m \in DOMAIN queue : m # n => queue'[m].waiters = queue[m].waiters
    <3>1. /\ queue'[n] = [Q[n] EXCEPT !.waiters = r]
          /\ \A m \in DOMAIN queue : m # n => queue'[m] = Q[m]
        BY <1>2, <1>3, <2>1
    <3>2. [Q[n] EXCEPT !.waiters = r].waiters = r
        BY <1>2, <1>3 DEF QueueRec
    <3> QED  BY <1>4, <3>1, <3>2
  <2>4. \A m \in DOMAIN queue : Embeds(queue'[m].waiters, queue[m].waiters)
      BY <2>2, <2>3 DEF Embeds
  <2>5. \A d \in clients : out'[d] = out[d] \/ Last(out'[d]).code = 4
      BY <1>2, <2>1, BadNewsLast
  <2> QED  BY <1>1, <2>4, <2>5, ToldFair
<1> QED  BY <1>5, <1>6

LEMMA CheckQueuesFair == IInv /\ CheckQueues => FairStep
<1> SUFFICES ASSUME IInv, CheckQueues  PROVE FairStep
    OBVIOUS
<1> DEFINE expired == {n \in DOMAIN queue : queue[n].left = 0}
           R == [n \in DOMAIN queue |->
                   IF n \in expired THEN [queue[n] EXCEPT !.left = qleft] ELSE queue[n]]
<1>1. BeingServed = {}
    BY DEF CheckQueues, BeingServed
<1>2. PICK S, T : queue' = Deleted(R, S) /\ out' = BadNews(out, T)
    BY DEF CheckQueues
<1>3. qleft \in 0..Week /\ \A n \in DOMAIN queue : queue[n] \in QueueRec
    BY DEF IInv, TypeOK
<1>4. /\ DOMAIN R = DOMAIN queue
      /\ \A n \in DOMAIN queue : \/ R[n] = [queue[n] EXCEPT !.left = qleft]
                                 \/ R[n] = queue[n]
    OBVIOUS
<1> HIDE DEF R
<1>5. \A n \in DOMAIN queue : R[n] \in QueueRec /\ R[n].waiters = queue[n].waiters
    BY <1>3, <1>4 DEF QueueRec
<1> QED  BY <1>1, <1>2, <1>4, <1>5, DeletedFair

LEMMA CleanupFair == IInv /\ Cleanup => FairStep
<1> SUFFICES ASSUME IInv, Cleanup  PROVE FairStep
    OBVIOUS
<1>1. BeingServed = {}
    BY DEF Cleanup, BeingServed
<1>2. PICK S, T : queue' = Deleted(queue, S) /\ out' = BadNews(out, T)
    BY DEF Cleanup
<1>3. \A n \in DOMAIN queue : queue[n] \in QueueRec
    BY DEF IInv, TypeOK
<1> QED  BY <1>1, <1>2, <1>3, DeletedFair

LEMMA TickFair == IInv /\ Tick => FairStep
<1> SUFFICES ASSUME IInv, Tick  PROVE FairStep
    OBVIOUS
<1>1. BeingServed = {} /\ \A n \in DOMAIN queue : queue[n] \in QueueRec
    BY DEF Tick, BeingServed, IInv, TypeOK
<1>2. \A n \in DOMAIN queue : queue'[n] = [queue[n] EXCEPT !.left = Less(queue[n].left)]
    BY DEF Tick
<1>3. \A n \in DOMAIN queue : queue'[n].waiters = queue[n].waiters
    BY <1>1, <1>2 DEF QueueRec
<1> QED  BY <1>1, <1>3, SameFair

LEMMA StepFair ==
    ASSUME IInv, Next
    PROVE  FairStep \/ Abandons \/ UNCHANGED vars
<1>1. CASE \E c \in Client : Accept(c)
    BY <1>1, SameFair DEF Accept, BeingServed
<1>2. CASE \E S \in SUBSET {c \in clients : MayBeReady(c)} : Ready(S)
    BY <1>2, SameFair DEF Ready, BeingServed
<1>0. ASSUME NEW c \in todo, phase = "serve", todo' = todo \ {c}, ~Abandons
      PROVE  Alone(c, QueueSeen(c), LeftSeen(c), OutSeen(c))
    BY <1>0, SeenKeeps DEF Alone, Abandons, BeingServed
<1>3. ASSUME NEW c \in Client, NEW r \in Request, Serve(c, r), ~Abandons  PROVE FairStep
  <2>1. /\ phase = "serve" /\ c \in todo /\ todo' = todo \ {c}
        /\ Command(c, r, QueueSeen(c), LeftSeen(c), OutSeen(c))
      BY <1>3 DEF Serve
  <2>2. Alone(c, QueueSeen(c), LeftSeen(c), OutSeen(c))
      BY <1>0, <1>3, <2>1
  <2>3. Moves(c, QueueSeen(c)) /\ Gives(c, QueueSeen(c), OutSeen(c))
      BY <2>1, <2>2, CommandFair
  <2> QED  BY <2>1, <2>2, <2>3, ServedStep DEF Alone
<1>4. ASSUME NEW c \in Client, NEW told \in BOOLEAN, Drop(c, told), ~Abandons  PROVE FairStep
  <2>1. /\ phase = "serve" /\ c \in todo /\ todo' = todo \ {c} /\ queue' = QueueSeen(c)
        /\ \/ out' = Reply(OutSeen(c), c, Answer(9, NoArg))
           \/ out' = OutSeen(c)
      BY <1>4 DEF Drop, Lost
  <2>2. Alone(c, QueueSeen(c), LeftSeen(c), OutSeen(c))
      BY <1>0, <1>4, <2>1
  <2>3. Moves(c, QueueSeen(c))
      BY <2>1, <2>2, SameMoves
  <2>4. Gives(c, QueueSeen(c), OutSeen(c))
    <3>1. OutSeen(c) \in Outs
        BY <2>2 DEF Alone, Before
    <3> QED  BY <2>1, <3>1, UsualGives
  <2> QED  BY <2>1, <2>2, <2>3, <2>4, ServedStep DEF Alone
<1>5. CASE Server
  <2>1. PollTimeout \/ BeginSweep => FairStep
      BY SameFair DEF PollTimeout, BeginSweep, BeingServed
  <2> QED  BY <1>5, <2>1, CheckWaitingFair, CheckQueuesFair, CleanupFair DEF Server, Sweep
<1>6. CASE Signal
    BY <1>6, SameFair DEF Signal, BeingServed
<1>7. CASE Tick
    BY <1>7, TickFair
<1>8. CASE \E c \in Client : Receive(c)
    BY <1>8, SameFair DEF Receive, BeingServed
<1>9. CASE Ended \/ Torn
    BY <1>9 DEF Ended, Torn
<1> QED  BY <1>1, <1>2, <1>3, <1>4, <1>5, <1>6, <1>7, <1>8, <1>9 DEF Next

-----------------------------------------------------------------------------
(* Nobody leaves a list unanswered.                                        *)

\* Nobody loses an answer that was sent, and who leaves the lists of Q has one more.
Tells(Q, O) ==
    \A d \in Client :
        /\ Len(O[d]) \in Nat /\ Len(out'[d]) \in Nat /\ Len(out'[d]) >= Len(O[d])
        /\ ~Unlisted(d, Q) /\ Unlisted(d, queue') => Len(out'[d]) > Len(O[d])

\* An answer makes the queue of answers longer, and nobody's shorter.
LEMMA ReplyLonger ==
    ASSUME NEW O \in Outs, NEW c \in Client, NEW a \in [code : 0..9, data : AnswerData],
           NEW d \in Client
    PROVE  /\ Len(O[d]) \in Nat
           /\ Len(Reply(O, c, a)[d]) = IF d = c THEN Len(O[d]) + 1 ELSE Len(O[d])
<1> DEFINE A == [code : 0..9, data : AnswerData]
<1>1. O[c] \in Seq(A) /\ O[d] \in Seq(A)
    BY DEF Outs
<1>2. Reply(O, c, a)[d] = IF d = c THEN Append(O[c], a) ELSE O[d]
    BY DEF Reply, Outs
<1> HIDE DEF A
<1>3. Len(Append(O[c], a)) = Len(O[c]) + 1 /\ Len(O[d]) \in Nat
    BY <1>1 DEF A
<1> QED  BY <1>2, <1>3

LEMMA AnswerType ==
    ASSUME NEW code \in 0..9, NEW data \in AnswerData
    PROVE  Answer(code, data) \in [code : 0..9, data : AnswerData]
BY DEF Answer

LEMMA BadNewsLonger ==
    ASSUME NEW O \in Outs, NEW S, NEW d \in Client
    PROVE  Len(BadNews(O, S)[d]) = IF d \in S THEN Len(O[d]) + 1 ELSE Len(O[d])
<1> DEFINE A == [code : 0..9, data : AnswerData]
           a == Answer(4, NoArg)
<1>1. O[d] \in Seq(A) /\ a \in A
  <2>1. 4 \in 0..9 /\ NoArg \in AnswerData
      BY DEF AnswerData
  <2>2. a \in A
      BY <2>1, AnswerType
  <2> QED  BY <2>2 DEF Outs
<1>2. BadNews(O, S)[d] = IF d \in S THEN Append(O[d], a) ELSE O[d]
    BY DEF BadNews
<1> HIDE DEF A, a
<1>3. Len(Append(O[d], a)) = Len(O[d]) + 1
    BY <1>1
<1> QED  BY <1>2, <1>3

\* Who is answered, and what is sent besides, when nobody leaves a list.
LEMMA SameTells ==
    ASSUME NEW c \in Client, NEW Q, NEW O \in Outs, NEW a \in [code : 0..9, data : AnswerData],
           out' = O \/ out' = Reply(O, c, a),
           \A d \in Client : ~Unlisted(d, Q) => ~Unlisted(d, queue')
    PROVE  Tells(Q, O)
BY ReplyLonger DEF Tells

LEMMA QueueDataTells ==
    ASSUME NEW c, NEW Q, NEW L, NEW O, Before(c, Q, L, O),
           NEW op, NEW line \in Line, QueueData(c, op, line, Q, L, O)
    PROVE  Tells(Q, O)
<1> DEFINE n == dflt[c]
           w == Head(Q[n].waiters)
<1>1. /\ c \in Client /\ n \in DOMAIN Q /\ Q[n] \in QueueRec /\ O \in Outs
      /\ Q[n].waiters \in Seq(Client) /\ IsInjective(Q[n].waiters)
    BY DEF Before, TypeOK, StateOK, QueuesOK, ListsOK, QueueRec
<1>2. 0 \in 0..9 /\ line \in AnswerData /\ NoArg \in AnswerData
    BY DEF AnswerData
<1> DEFINE a == Answer(0, line)
           b == Answer(0, NoArg)
<1>3. a \in [code : 0..9, data : AnswerData] /\ b \in [code : 0..9, data : AnswerData]
    BY <1>2, AnswerType
<1>4. CASE Q[n].waiters # <<>>
  <2> DEFINE r == RemoveFirst(Q[n].waiters, w)
             P == Reply(O, w, a)
  <2>1. w \in Client
      BY <1>1, <1>4, HeadInList
  <2>2. queue' = [Q EXCEPT ![n].waiters = r] /\ out' = Reply(P, c, b)
      BY <1>4 DEF QueueData, Dequeue
  <2>3. ToSet(r) = ToSet(Q[n].waiters) \ {w}
      BY <1>1, LeaveList
  <2>4. P \in Outs
      BY <1>1, <1>2, <2>1, ReplyType
  <2> HIDE DEF r, P, w, a, b, n
  <2>5. /\ DOMAIN queue' = DOMAIN Q
        /\ queue'[n] = [Q[n] EXCEPT !.waiters = r]
        /\ \A m \in DOMAIN Q : m # n => queue'[m] = Q[m]
      BY <2>2, <1>1
  <2>6. queue'[n].waiters = r
      BY <1>1, <2>5 DEF QueueRec
  <2>7. \A d \in Client : ~Unlisted(d, Q) /\ Unlisted(d, queue') => d = w
      BY <2>3, <2>5, <2>6 DEF Unlisted
  <2>8. \A d \in Client : /\ Len(O[d]) \in Nat
                          /\ Len(P[d]) = IF d = w THEN Len(O[d]) + 1 ELSE Len(O[d])
      BY <1>1, <1>3, <2>1, ReplyLonger DEF P
  <2>9. \A d \in Client : Len(out'[d]) = IF d = c THEN Len(P[d]) + 1 ELSE Len(P[d])
      BY <1>1, <1>3, <2>2, <2>4, ReplyLonger
  <2> QED  BY <2>7, <2>8, <2>9 DEF Tells
<1>5. CASE Q[n].waiters = <<>>
  <2> DEFINE e == IF op = "F" THEN Append(Q[n].buf, line) ELSE <<line>> \o Q[n].buf
  <2>1. queue' = [Q EXCEPT ![n].buf = e] /\ out' = Reply(O, c, b)
      BY <1>5 DEF QueueData
  <2> HIDE DEF e, b, n
  <2>2. /\ DOMAIN queue' = DOMAIN Q
        /\ queue'[n] = [Q[n] EXCEPT !.buf = e]
        /\ \A m \in DOMAIN Q : m # n => queue'[m] = Q[m]
      BY <2>1, <1>1
  <2>3. queue'[n].waiters = Q[n].waiters
      BY <1>1, <2>2 DEF QueueRec
  <2>4. \A d \in Client : ~Unlisted(d, Q) => ~Unlisted(d, queue')
      BY <2>2, <2>3 DEF Unlisted
  <2> QED  BY <1>1, <1>3, <2>1, <2>4, SameTells
<1> QED  BY <1>4, <1>5

LEMMA PullTells ==
    ASSUME NEW c, NEW Q, NEW L, NEW O, Before(c, Q, L, O),
           NEW nowait, Pull(c, nowait, Q, L, O)
    PROVE  Tells(Q, O)
<1> DEFINE n == dflt[c]
<1>1. /\ c \in Client /\ n \in DOMAIN Q /\ Q[n] \in QueueRec /\ O \in Outs
      /\ Q[n].waiters \in Seq(Client) /\ Q[n].buf \in Seq(Line)
    BY DEF Before, TypeOK, StateOK, QueuesOK, QueueRec
<1>2. PICK q, a : /\ a \in [code : 0..9, data : AnswerData]
                  /\ queue' = [Q EXCEPT ![n] = q] \/ queue' = Q
                  /\ ToSet(Q[n].waiters) \subseteq ToSet(q.waiters)
                  /\ out' = O \/ out' = Reply(O, c, a)
  <2>1. CASE Q[n].buf # <<>>
    <3> DEFINE q == [Q[n] EXCEPT !.buf = Tail(Q[n].buf)]
               h == Head(Q[n].buf)
    <3>1. queue' = [Q EXCEPT ![n] = q] /\ out' = Reply(O, c, Answer(0, h))
        BY <2>1 DEF Pull
    <3>2. q.waiters = Q[n].waiters /\ h \in AnswerData
        BY <1>1, <2>1 DEF QueueRec, AnswerData
    <3>3. Answer(0, h) \in [code : 0..9, data : AnswerData]
        BY <3>2, AnswerType
    <3> QED  BY <3>1, <3>2, <3>3
  <2>2. CASE Q[n].buf = <<>> /\ (nowait \/ tmo[c] = AtOnce)
    <3>1. queue' = Q /\ out' = Reply(O, c, Answer(1, NoArg))
        BY <2>2 DEF Pull
    <3>2. Answer(1, NoArg) \in [code : 0..9, data : AnswerData]
        BY AnswerType DEF AnswerData
    <3> QED  BY <3>1, <3>2
  <2>3. CASE Q[n].buf = <<>> /\ ~(nowait \/ tmo[c] = AtOnce)
    <3> DEFINE s == Q[n].waiters
               q == [Q[n] EXCEPT !.waiters = Append(s, c)]
    <3>1. queue' = [Q EXCEPT ![n] = q] /\ out' = O
        BY <2>3 DEF Pull, Enlist
    <3>2. q.waiters = Append(s, c) /\ s \in Seq(Client)
        BY <1>1 DEF QueueRec
    <3>3. ToSet(s) \subseteq ToSet(Append(s, c))
      <4>1. /\ Len(s) \in Nat /\ DOMAIN s = 1..Len(s) /\ DOMAIN Append(s, c) = 1..(Len(s) + 1)
            /\ \A i \in 1..Len(s) : Append(s, c)[i] = s[i]
          BY <3>2, <1>1
      <4> HIDE DEF s
      <4> QED  BY <4>1 DEF ToSet
    <3>4. Answer(1, NoArg) \in [code : 0..9, data : AnswerData]
        BY AnswerType DEF AnswerData
    <3> QED  BY <3>1, <3>2, <3>3, <3>4
  <2> QED  BY <2>1, <2>2, <2>3
<1>3. \A d \in Client : ~Unlisted(d, Q) => ~Unlisted(d, queue')
    BY <1>1, <1>2 DEF Unlisted
<1> QED  BY <1>1, <1>2, <1>3, SameTells

\* A queue that is linked takes nobody from a list.
LEMMA LinkTells ==
    ASSUME NEW Q, NEW n, n \notin DOMAIN Q, NEW q, queue' = Link(Q, n, q), NEW d, ~Unlisted(d, Q)
    PROVE  ~Unlisted(d, queue')
BY DEF Link, Unlisted

LEMMA SetQueueTells ==
    ASSUME NEW c, NEW Q, NEW L, NEW O, Before(c, Q, L, O),
           NEW n \in QName \cup {NoArg}, SetQueue(c, n, Q, L, O)
    PROVE  Tells(Q, O)
<1> DEFINE q == NewQueue(FALSE)
<1>1. c \in Client /\ O \in Outs
    BY DEF Before, TypeOK
<1>2. /\ queue' = Q \/ (n \notin DOMAIN Q /\ queue' = Link(Q, n, q))
      /\ out' = Reply(O, c, Answer(6, NoArg)) \/ out' = Reply(O, c, Answer(0, n))
    BY DEF SetQueue
<1> HIDE DEF q
<1>3. /\ Answer(6, NoArg) \in [code : 0..9, data : AnswerData]
      /\ Answer(0, n) \in [code : 0..9, data : AnswerData]
    BY AnswerType DEF AnswerData
<1>4. \A d \in Client : ~Unlisted(d, Q) => ~Unlisted(d, queue')
    BY <1>2, LinkTells
<1> QED  BY <1>1, <1>2, <1>3, <1>4, SameTells

LEMMA CreateQueueTells ==
    ASSUME NEW c, NEW Q, NEW L, NEW O, Before(c, Q, L, O), IssuedOK(Q, issued),
           NEW n \in QName \cup {NoArg}, CreateQueue(c, n, Q, L, O)
    PROVE  Tells(Q, O)
<1> DEFINE q == NewQueue(TRUE)
<1>1. c \in Client /\ O \in Outs /\ \A m \in DOMAIN Q : Q[m] \in QueueRec
    BY DEF Before, TypeOK, StateOK, QueuesOK
<1> DEFINE taken == n # NoArg /\ n \in DOMAIN Q
           A == [code : 0..9, data : AnswerData]
<1>2. PICK u \in QName, a \in A :
          /\ \/ n \in DOMAIN Q /\ queue' = [Q EXCEPT ![n].real = TRUE]
             \/ u \notin DOMAIN Q /\ queue' = Link(Q, u, q)
          /\ out' = Reply(O, c, a)
  <2>1. CASE taken /\ ~Q[n].real
    <3>1. /\ queue' = [Q EXCEPT ![n].real = TRUE] /\ n \in DOMAIN Q
          /\ out' = Reply(O, c, Answer(0, n))
        BY <2>1 DEF CreateQueue
    <3>2. n \in AnswerData /\ 0 \in 0..9 /\ n \in QName
        BY <2>1 DEF AnswerData
    <3>3. Answer(0, n) \in A
        BY <3>2, AnswerType
    <3> QED  BY <3>1, <3>2, <3>3
  <2>2. CASE ~(taken /\ ~Q[n].real) /\ (taken \/ n = NoArg)
    <3>1. PICK u \in Fresh \ issued :
              /\ queue' = Link(Q, u, q)
              /\ out' = Reply(O, c, Answer(IF taken THEN 1 ELSE 0, u))
        BY <2>2 DEF CreateQueue
    <3>2. u \in AnswerData /\ (IF taken THEN 1 ELSE 0) \in 0..9 /\ u \in QName \ DOMAIN Q
        BY <3>1 DEF AnswerData, QName, IssuedOK
    <3> DEFINE a == Answer(IF taken THEN 1 ELSE 0, u)
    <3>3. a \in A
        BY <3>2, AnswerType
    <3>4. out' = Reply(O, c, a) /\ queue' = Link(Q, u, q)
        BY <3>1
    <3> HIDE DEF a, A, taken, q
    <3> QED  BY <3>2, <3>3, <3>4
  <2>3. CASE ~taken /\ n # NoArg
    <3>1. /\ queue' = Link(Q, n, q) /\ out' = Reply(O, c, Answer(0, n))
          /\ n \in QName \ DOMAIN Q
        BY <2>3 DEF CreateQueue
    <3>2. n \in AnswerData /\ 0 \in 0..9
        BY DEF AnswerData
    <3> DEFINE a == Answer(0, n)
    <3>3. a \in A
        BY <3>2, AnswerType
    <3>4. out' = Reply(O, c, a)
        BY <3>1
    <3> HIDE DEF a, A, taken, q
    <3> QED  BY <3>1, <3>3, <3>4
  <2> QED  BY <2>1, <2>2, <2>3
<1> HIDE DEF q
<1>4. ASSUME NEW d \in Client, ~Unlisted(d, Q)  PROVE ~Unlisted(d, queue')
  <2>1. CASE n \in DOMAIN Q /\ queue' = [Q EXCEPT ![n].real = TRUE]
    <3>1. /\ DOMAIN queue' = DOMAIN Q
          /\ queue'[n] = [Q[n] EXCEPT !.real = TRUE]
          /\ \A m \in DOMAIN Q : m # n => queue'[m] = Q[m]
        BY <2>1
    <3>2. queue'[n].waiters = Q[n].waiters
        BY <1>1, <2>1, <3>1 DEF QueueRec
    <3> QED  BY <1>4, <3>1, <3>2 DEF Unlisted
  <2>2. CASE u \notin DOMAIN Q /\ queue' = Link(Q, u, q)
      BY <1>4, <2>2, LinkTells
  <2> QED  BY <1>2, <2>1, <2>2
<1> QED  BY <1>1, <1>2, <1>4, SameTells

\* The waiters of the queues that are cleared or deleted are told.
LEMMA ClearTells ==
    ASSUME NEW Q, NEW S, \A m \in DOMAIN Q : Q[m] \in QueueRec,
           NEW O \in Outs, NEW P, P = BadNews(O, WaitersOf(Q, S)),
           queue' = Deleted(Q, S) \/ queue' = Cleared(Q, S),
           NEW d \in Client
    PROVE  /\ Len(O[d]) \in Nat /\ Len(P[d]) \in Nat /\ Len(P[d]) >= Len(O[d])
           /\ ~Unlisted(d, Q) /\ Unlisted(d, queue') => Len(P[d]) > Len(O[d])
<1>1. Len(O[d]) \in Nat
    BY DEF Outs
<1>2. Len(P[d]) = IF d \in WaitersOf(Q, S) THEN Len(O[d]) + 1 ELSE Len(O[d])
    BY BadNewsLonger
<1>3. ASSUME ~Unlisted(d, Q), Unlisted(d, queue')  PROVE d \in WaitersOf(Q, S)
  <2>1. PICK n \in DOMAIN Q : d \in ToSet(Q[n].waiters)
      BY <1>3 DEF Unlisted
  <2>2. ASSUME n \notin S  PROVE FALSE
    <3>1. n \in DOMAIN queue' /\ queue'[n] = Q[n]
        BY <2>2 DEF Deleted, Unlink, Cleared
    <3> QED  BY <1>3, <2>1, <3>1 DEF Unlisted
  <2> QED  BY <2>1, <2>2 DEF WaitersOf
<1> QED  BY <1>1, <1>2, <1>3

LEMMA GoneTells ==
    ASSUME NEW c, NEW Q, NEW L, NEW O, Before(c, Q, L, O), NEW S, NEW code \in 0..9,
           queue' = Deleted(Q, S) \/ queue' = Cleared(Q, S),
           out' = Reply(BadNews(O, WaitersOf(Q, S)), c, Answer(code, NoArg))
    PROVE  Tells(Q, O)
<1> DEFINE P == BadNews(O, WaitersOf(Q, S))
           a == Answer(code, NoArg)
<1>1. c \in Client /\ O \in Outs /\ \A m \in DOMAIN Q : Q[m] \in QueueRec
    BY DEF Before, TypeOK, StateOK, QueuesOK
<1>2. P \in Outs
    BY <1>1, BadNewsType
<1>3. a \in [code : 0..9, data : AnswerData]
    BY AnswerType DEF AnswerData
<1> HIDE DEF P, a
<1>4. \A d \in Client : Len(out'[d]) = IF d = c THEN Len(P[d]) + 1 ELSE Len(P[d])
    BY <1>1, <1>2, <1>3, ReplyLonger DEF P, a
<1>5. \A d \in Client :
         /\ Len(O[d]) \in Nat /\ Len(P[d]) \in Nat /\ Len(P[d]) >= Len(O[d])
         /\ ~Unlisted(d, Q) /\ Unlisted(d, queue') => Len(P[d]) > Len(O[d])
    BY <1>1, ClearTells DEF P
<1> QED  BY <1>4, <1>5 DEF Tells

LEMMA CommandTells ==
    ASSUME NEW c, NEW Q, NEW L, NEW O, Before(c, Q, L, O), IssuedOK(Q, issued),
           NEW r \in Request, Command(c, r, Q, L, O)
    PROVE  Tells(Q, O)
<1>0. /\ c \in Client /\ O \in Outs /\ NoArg \in AnswerData
      /\ dflt[c] \in AnswerData /\ Q[dflt[c]].buf \in Seq(Line)
    BY DEF Before, TypeOK, StateOK, QueuesOK, QueueRec, AnswerData
<1>1. CASE r.op \in {"F", "L"} /\ QueueData(c, r.op, r.arg, Q, L, O)
    BY <1>1, RequestType, QueueDataTells
<1>2. CASE Pull(c, r.op = "p", Q, L, O)
    BY <1>2, PullTells
<1>3. CASE r.op = "S" /\ SetQueue(c, r.arg, Q, L, O)
    BY <1>3, RequestType, SetQueueTells
<1>4. CASE r.op = "C" /\ CreateQueue(c, r.arg, Q, L, O)
    BY <1>4, RequestType, CreateQueueTells
<1>5. CASE DeleteQueue(c, r.arg, Q, L, O)
  <2> DEFINE n     == r.arg
             found == n # NoArg /\ n \in DOMAIN Q /\ n # Session
             code  == CASE n = NoArg   -> 6
                        [] n = Session -> 5
                        [] OTHER       -> IF found /\ Q[n].real THEN 0 ELSE 9
             S     == IF found THEN {n} ELSE {}
  <2>1. /\ queue' = Deleted(Q, S)
        /\ out' = Reply(BadNews(O, WaitersOf(Q, S)), c, Answer(code, NoArg))
      BY <1>5 DEF DeleteQueue
  <2>2. code \in 0..9
      OBVIOUS
  <2> HIDE DEF code, S
  <2> QED  BY <2>1, <2>2, GoneTells
<1>6. CASE EmptyQueue(c, r.arg, Q, L, O)
  <2> DEFINE m    == IF r.arg = NoArg THEN dflt[c] ELSE r.arg
             S    == {m} \cap DOMAIN Q
             code == IF S = {} THEN 2 ELSE 0
  <2>1. /\ queue' = Cleared(Q, S)
        /\ out' = Reply(BadNews(O, WaitersOf(Q, S)), c, Answer(code, NoArg))
      BY <1>6 DEF EmptyQueue
  <2>2. code \in 0..9
      OBVIOUS
  <2> HIDE DEF code, S
  <2> QED  BY <2>1, <2>2, GoneTells
<1>7. ASSUME queue' = Q, NEW code \in 0..9, NEW data \in AnswerData,
             out' = O \/ out' = Reply(O, c, Answer(code, data))
      PROVE  Tells(Q, O)
    BY <1>0, <1>7, AnswerType, SameTells
<1>8. CASE SetTimeout(c, r.arg, Q, L, O)
  <2>1. queue' = Q /\ \E code \in 0..9 : out' = Reply(O, c, Answer(code, NoArg))
      BY <1>8 DEF SetTimeout
  <2> QED  BY <1>0, <1>7, <2>1
<1>9. CASE Query(c, r.op, Q, L, O)
  <2> DEFINE len == Len(Q[dflt[c]].buf)
  <2>1. len \in AnswerData
      BY <1>0 DEF AnswerData
  <2>2. /\ queue' = Q
        /\ \/ out' = Reply(O, c, Answer(0, len)) \/ out' = Reply(O, c, Answer(0, NoArg))
           \/ out' = Reply(O, c, Answer(0, dflt[c])) \/ out' = O
           \/ out' = Reply(O, c, Answer(9, NoArg))
      BY <1>9 DEF Query
  <2> HIDE DEF len
  <2>3. 0 \in 0..9 /\ 9 \in 0..9
      OBVIOUS
  <2> QED  BY <1>0, <1>7, <2>1, <2>2, <2>3
<1>10. CASE Exit(c, r.op, Q, L, O)
  <2>1. queue' = Q /\ out' = Reply(O, c, Answer(0, NoArg)) /\ 0 \in 0..9
      BY <1>10 DEF Exit
  <2> QED  BY <1>0, <1>7, <2>1
<1> QED  BY <1>1, <1>2, <1>3, <1>4, <1>5, <1>6, <1>8, <1>9, <1>10 DEF Command

\* The client that is served, and the others, from what a command tells.
LEMMA ServedAnswered ==
    ASSUME IInv, phase = "serve", NEW c \in todo, Tells(QueueSeen(c), OutSeen(c))
    PROVE  LeavesAnswered
<1>1. c \in Client /\ out \in Outs /\ clients' \subseteq clients \cup clients'
    BY DEF IInv, TypeOK, Outs
<1>2. \A d \in Client : Len(out[d]) \in Nat
    BY <1>1 DEF Outs
<1>3. ASSUME NEW d \in clients', d \in Client, IsWaiting(d), ~IsWaiting(d)'
      PROVE  Len(out'[d]) > Len(out[d])
  <2>1. ~Unlisted(d, queue) /\ Unlisted(d, queue')
      BY <1>3 DEF IsWaiting, Unlisted
  <2>2. CASE QueueSeen(c) = queue /\ OutSeen(c) = out
      BY <1>3, <2>1, <2>2 DEF Tells
  <2>3. CASE QueueSeen(c) = Dequeue(queue, dflt[c], c) /\ OutSeen(c) = BadNews(out, {c})
    <3>1. Len(OutSeen(c)[d]) = IF d = c THEN Len(out[d]) + 1 ELSE Len(out[d])
        BY <1>1, <1>3, <2>3, BadNewsLonger
    <3>2. CASE d = c
        BY <1>2, <1>3, <3>1, <3>2 DEF Tells
    <3>3. CASE d # c
      <4>1. ~Unlisted(d, QueueSeen(c))
        <5> DEFINE n == dflt[c]
                   r == RemoveFirst(queue[n].waiters, c)
        <5>1. /\ n \in DOMAIN queue /\ queue[n] \in QueueRec /\ queue[n].waiters \in Seq(Client)
              /\ IsInjective(queue[n].waiters)
            BY DEF IInv, TypeOK, StateOK, QueuesOK, ListsOK, QueueRec
        <5>2. ToSet(r) = ToSet(queue[n].waiters) \ {c}
            BY <5>1, LeaveList
        <5>3. QueueSeen(c) = [queue EXCEPT ![n].waiters = r]
            BY <2>3 DEF Dequeue
        <5> HIDE DEF r, n
        <5>4. /\ QueueSeen(c)[n].waiters = r /\ DOMAIN QueueSeen(c) = DOMAIN queue
              /\ \A m \in DOMAIN queue : m # n => QueueSeen(c)[m] = queue[m]
            BY <5>1, <5>3 DEF QueueRec
        <5> QED  BY <2>1, <3>3, <5>2, <5>4 DEF Unlisted
      <4> QED  BY <1>3, <2>1, <3>1, <3>3, <4>1 DEF Tells
    <3> QED  BY <3>2, <3>3
  <2> QED  BY <2>2, <2>3 DEF QueueSeen, OutSeen
<1>4. ASSUME NEW d, IsWaiting(d)  PROVE d \in Client
    BY <1>4 DEF IInv, StateOK, ListsOK, IsWaiting
<1> QED  BY <1>3, <1>4 DEF LeavesAnswered

\* A step that takes nobody from a list answers enough.
LEMMA NobodyLeaves ==
    ASSUME \A n \in DOMAIN queue : n \in DOMAIN queue' /\ queue'[n].waiters = queue[n].waiters
    PROVE  LeavesAnswered
BY DEF LeavesAnswered, IsWaiting

\* The deletions of queues outside of commands.
LEMMA DeletedAnswered ==
    ASSUME IInv, NEW Q, NEW S, DOMAIN Q = DOMAIN queue,
           \A n \in DOMAIN queue : Q[n] \in QueueRec /\ Q[n].waiters = queue[n].waiters,
           queue' = Deleted(Q, S), out' = BadNews(out, WaitersOf(Q, S)), clients' = clients
    PROVE  LeavesAnswered
<1>1. out \in Outs /\ clients' \subseteq Client
    BY DEF IInv, TypeOK, Outs
<1> SUFFICES ASSUME NEW d \in clients', IsWaiting(d), ~IsWaiting(d)'
             PROVE  Len(out'[d]) > Len(out[d])
    BY DEF LeavesAnswered
<1>2. ~Unlisted(d, Q) /\ Unlisted(d, queue')
    BY DEF IsWaiting, Unlisted
<1> QED  BY <1>1, <1>2, ClearTells

LEMMA CheckWaitingAnswered ==
    ASSUME IInv, NEW c \in Client, CheckWaiting(c)
    PROVE  LeavesAnswered
<1> DEFINE n == dflt[c]
           Q == Refreshed(queue, n)
<1>1. c \in todo /\ clients' = clients
    BY DEF CheckWaiting
<1>2. /\ n \in DOMAIN queue /\ \A m \in DOMAIN queue : queue[m] \in QueueRec
      /\ clients \subseteq Client /\ out \in Outs
    BY <1>1 DEF IInv, TypeOK, StateOK, QueuesOK, Outs
<1>3. /\ DOMAIN Q = DOMAIN queue
      /\ Q[n] = [queue[n] EXCEPT !.left = qleft]
      /\ \A m \in DOMAIN queue : m # n => Q[m] = queue[m]
    BY <1>2 DEF Refreshed
<1> HIDE DEF Q
<1>4. \A m \in DOMAIN queue : Q[m].waiters = queue[m].waiters
    BY <1>2, <1>3 DEF QueueRec
<1>5. CASE left[c] # 0
  <2>1. queue' = Q
      BY <1>5 DEF CheckWaiting, Q
  <2> QED  BY <1>3, <1>4, <2>1, NobodyLeaves
<1>6. CASE left[c] = 0
  <2> DEFINE r == RemoveFirst(queue[n].waiters, c)
  <2>1. queue' = [Q EXCEPT ![n].waiters = r] /\ out' = BadNews(out, {c})
      BY <1>2, <1>4, <1>6 DEF CheckWaiting, Dequeue, Q
  <2>2. ToSet(r) = ToSet(queue[n].waiters) \ {c}
    <3>1. queue[n].waiters \in Seq(Client) /\ IsInjective(queue[n].waiters)
        BY <1>2 DEF IInv, StateOK, ListsOK, QueueRec
    <3> QED  BY <3>1, LeaveList
  <2> HIDE DEF r, n
  <2>3. /\ queue'[n] = [Q[n] EXCEPT !.waiters = r] /\ DOMAIN queue' = DOMAIN queue
        /\ \A m \in DOMAIN queue : m # n => queue'[m] = Q[m]
      BY <1>2, <1>3, <2>1
  <2>4. queue'[n].waiters = r
      BY <1>2, <1>3, <2>3 DEF QueueRec
  <2>5. ASSUME NEW d \in clients', IsWaiting(d), ~IsWaiting(d)'
        PROVE  Len(out'[d]) > Len(out[d])
    <3>1. d = c
        BY <1>4, <2>2, <2>3, <2>4, <2>5 DEF IsWaiting
    <3>2. Len(out[d]) \in Nat
        BY <1>2, <3>1 DEF Outs
    <3> QED  BY <1>2, <2>1, <3>1, <3>2, BadNewsLonger
  <2> QED  BY <2>5 DEF LeavesAnswered
<1> QED  BY <1>5, <1>6

LEMMA CheckQueuesAnswered == IInv /\ CheckQueues => LeavesAnswered
<1> SUFFICES ASSUME IInv, CheckQueues  PROVE LeavesAnswered
    OBVIOUS
<1> DEFINE expired == {n \in DOMAIN queue : queue[n].left = 0}
           R == [n \in DOMAIN queue |->
                   IF n \in expired THEN [queue[n] EXCEPT !.left = qleft] ELSE queue[n]]
<1>1. PICK S : /\ queue' = Deleted(R, S) /\ out' = BadNews(out, WaitersOf(queue, S))
               /\ clients' = clients /\ S \subseteq DOMAIN queue
    BY DEF CheckQueues
<1>2. qleft \in 0..Week /\ \A n \in DOMAIN queue : queue[n] \in QueueRec
    BY DEF IInv, TypeOK
<1>3. /\ DOMAIN R = DOMAIN queue
      /\ \A n \in DOMAIN queue : \/ R[n] = [queue[n] EXCEPT !.left = qleft]
                                 \/ R[n] = queue[n]
    OBVIOUS
<1> HIDE DEF R
<1>4. \A n \in DOMAIN queue : R[n] \in QueueRec /\ R[n].waiters = queue[n].waiters
    BY <1>2, <1>3 DEF QueueRec
<1>5. WaitersOf(R, S) = WaitersOf(queue, S)
    BY <1>1, <1>4 DEF WaitersOf
<1> QED  BY <1>1, <1>3, <1>4, <1>5, DeletedAnswered

LEMMA CleanupAnswered == IInv /\ Cleanup => LeavesAnswered
<1> SUFFICES ASSUME IInv, Cleanup  PROVE LeavesAnswered
    OBVIOUS
<1>1. /\ queue' = Deleted(queue, DOMAIN queue) /\ out' = BadNews(out, WaitersOf(queue, DOMAIN queue))
      /\ clients' = clients
    BY DEF Cleanup
<1>2. \A n \in DOMAIN queue : queue[n] \in QueueRec
    BY DEF IInv, TypeOK
<1> QED  BY <1>1, <1>2, DeletedAnswered

LEMMA StepAnswered ==
    ASSUME IInv, Next
    PROVE  LeavesAnswered
<1>1. ASSUME queue' = queue  PROVE LeavesAnswered
    BY <1>1, NobodyLeaves
<1>2. ASSUME NEW c \in Client, NEW r \in Request, Serve(c, r)  PROVE LeavesAnswered
  <2>1. /\ phase = "serve" /\ c \in todo
        /\ Command(c, r, QueueSeen(c), LeftSeen(c), OutSeen(c))
      BY <1>2 DEF Serve
  <2>2. Tells(QueueSeen(c), OutSeen(c))
      BY <2>1, SeenKeeps, CommandTells
  <2> QED  BY <2>1, <2>2, ServedAnswered
<1>3. ASSUME NEW c \in Client, NEW told \in BOOLEAN, Drop(c, told)  PROVE LeavesAnswered
  <2>1. /\ phase = "serve" /\ c \in todo /\ queue' = QueueSeen(c)
        /\ \/ out' = Reply(OutSeen(c), c, Answer(9, NoArg))
           \/ out' = OutSeen(c)
      BY <1>3 DEF Drop, Lost
  <2>2. OutSeen(c) \in Outs /\ Answer(9, NoArg) \in [code : 0..9, data : AnswerData]
      BY <2>1, SeenKeeps, AnswerType DEF Before, AnswerData
  <2>3. Tells(QueueSeen(c), OutSeen(c))
      BY <2>1, <2>2, SameTells
  <2> QED  BY <2>1, <2>3, ServedAnswered
<1>4. CASE Tick
  <2>1. \A n \in DOMAIN queue : queue[n] \in QueueRec
      BY DEF IInv, TypeOK
  <2>2. /\ DOMAIN queue' = DOMAIN queue
        /\ \A n \in DOMAIN queue : queue'[n] = [queue[n] EXCEPT !.left = Less(queue[n].left)]
      BY <1>4 DEF Tick
  <2>3. \A n \in DOMAIN queue : queue'[n].waiters = queue[n].waiters
      BY <2>1, <2>2 DEF QueueRec
  <2> QED  BY <2>2, <2>3, NobodyLeaves
<1>5. CASE Server
  <2>1. PollTimeout \/ BeginSweep => LeavesAnswered
      BY <1>1 DEF PollTimeout, BeginSweep
  <2> QED  BY <1>5, <2>1, CheckWaitingAnswered, CheckQueuesAnswered, CleanupAnswered
           DEF Server, Sweep
<1>6. CASE \/ \E c \in Client : Accept(c)
           \/ \E S \in SUBSET {c \in clients : MayBeReady(c)} : Ready(S)
           \/ Signal \/ (\E c \in Client : Receive(c)) \/ Ended \/ Torn
  <2>1. queue' = queue
      BY <1>6 DEF Accept, Ready, Signal, Receive, Ended, Torn, vars
  <2> QED  BY <1>1, <2>1
<1> QED  BY <1>2, <1>3, <1>4, <1>5, <1>6 DEF Next

\* No waiter is forgotten: who leaves a list is told in the same step, or its connection
\* is gone, and when rxstack_cleanup() has run nobody is left in any list.
THEOREM NobodyForgottenAlways == Spec => NobodyForgotten
<1>1. Init => HInv /\ EndedOK
    BY InitHolds, Whole DEF Init, EndedOK
<1>2. HInv /\ EndedOK /\ [Next]_vars => HInv' /\ EndedOK'
    BY StepHalf, EndedKeeps
<1>3. EndedOK' => (phase' = "ended" => \A c \in Client : ~IsWaiting(c)')
    BY EmptyList DEF EndedOK, IsWaiting
<1>4. HInv /\ EndedOK /\ [Next]_vars
          => [LeavesAnswered /\ (phase' = "ended" => \A c \in Client : ~IsWaiting(c)')]_vars
  <2> SUFFICES ASSUME HInv, EndedOK, Next, ~UNCHANGED vars
               PROVE  LeavesAnswered /\ (phase' = "ended" => \A c \in Client : ~IsWaiting(c)')
      OBVIOUS
  <2>1. Intact
      BY DEF Next, Torn
  <2>2. LeavesAnswered
      BY <2>1, Whole, StepAnswered
  <2> QED  BY <2>2, <1>2, <1>3
<1> QED  BY <1>1, <1>2, <1>4, PTL DEF Spec, NobodyForgotten

\* The queue is fair: whoever else is served, interrupted, timed out or told, the
\* clients that wait keep their order, newcomers go behind them, and a line goes to
\* the one that has waited longest.
THEOREM FairAlways == Spec => FairWaiters
<1>1. HInv /\ [Next]_vars => [FairStep \/ Abandons]_vars
  <2> SUFFICES ASSUME HInv, Next, ~UNCHANGED vars  PROVE FairStep \/ Abandons
      OBVIOUS
  <2>1. Intact
      BY DEF Next, Torn
  <2> QED  BY <2>1, Whole, StepFair
<1> QED  BY <1>1, InvariantHolds, PTL DEF Spec, FairWaiters
=============================================================================
