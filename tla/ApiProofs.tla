----------------------------- MODULE ApiProofs ------------------------------
(***************************************************************************)
(* Proofs about Api, for any libraries, registrations, exits and           *)
(* environments.                                                           *)
(***************************************************************************)
EXTENDS Api, SequenceTheorems, FiniteSetTheorems, FunctionTheorems, TLAPS

-----------------------------------------------------------------------------
(* A host leaves a list. *)

\* Taking the element at position k out of a list.
LEMMA TakeOutAt ==
    ASSUME NEW S, NEW s \in Seq(S), NEW k \in 1..Len(s)
    PROVE  /\ RemoveAt(s, k) \in Seq(S)
           /\ Len(RemoveAt(s, k)) = Len(s) - 1
           /\ \A i \in 1..(Len(s) - 1) :
                 RemoveAt(s, k)[i] = IF i < k THEN s[i] ELSE s[i + 1]
<1> DEFINE l == SubSeq(s, 1, k - 1)
           r == SubSeq(s, k + 1, Len(s))
<1>1. l \in Seq(S) /\ Len(l) = k - 1 /\ \A i \in 1..(k - 1) : l[i] = s[i]
    OBVIOUS
<1>2. r \in Seq(S) /\ Len(r) = Len(s) - k /\ \A i \in 1..(Len(s) - k) : r[i] = s[k + i]
    OBVIOUS
<1>3. RemoveAt(s, k) = l \o r
    BY DEF RemoveAt
<1> HIDE DEF l, r
<1>4. /\ l \o r \in Seq(S) /\ Len(l \o r) = Len(s) - 1
      /\ \A i \in 1..(Len(s) - 1) : (l \o r)[i] = IF i <= k - 1 THEN l[i] ELSE r[i - (k - 1)]
  <2>1. Len(l) \in Nat /\ Len(r) \in Nat /\ Len(l) + Len(r) = Len(s) - 1
      BY <1>1, <1>2
  <2>2. /\ l \o r \in Seq(S) /\ Len(l \o r) = Len(l) + Len(r)
        /\ \A i \in 1..(Len(l) + Len(r)) :
              (l \o r)[i] = IF i <= Len(l) THEN l[i] ELSE r[i - Len(l)]
      BY <1>1, <1>2, ConcatProperties
  <2> QED  BY <1>1, <2>1, <2>2
<1>5. ASSUME NEW i \in 1..(Len(s) - 1)
      PROVE  (l \o r)[i] = IF i < k THEN s[i] ELSE s[i + 1]
  <2>1. CASE i < k
      BY <2>1, <1>1, <1>4
  <2>2. CASE i >= k
    <3>1. i - (k - 1) \in 1..(Len(s) - k) /\ k + (i - (k - 1)) = i + 1
        BY <2>2
    <3> QED  BY <2>2, <3>1, <1>2, <1>4
  <2>3. i < k \/ i >= k
      OBVIOUS
  <2> QED  BY <2>1, <2>2, <2>3, Zenon
<1> QED  BY <1>3, <1>4, <1>5

-----------------------------------------------------------------------------

Codes == {"RXINI", "RXTER", "RXFNC", "RXCMD", "RXSIO"}
Names == {r[2] : r \in Registrable} \cup {""}
Known == [name : Names, lib : Lib \cup {Exe}]
LibsType == [entries : [Slots -> Seq(Known)], linked : SUBSET Lib,
             used : [Lib -> Int], orphans : [Lib -> Nat]]

ScriptType ==
  [kind : {"script"}, how : Hows \cup {"main", "external"}, hooks : SUBSET Codes, file : BOOLEAN,
   bared : BOOLEAN, phase : {"init", "run", "end", "end2", "gone"},
   doTermHook : BOOLEAN, begun : BOOLEAN, terms : Nat, again : BOOLEAN,
   failed : BOOLEAN]
StartType ==
  [kind : {"start"}, how : Hows, exits : SUBSET Codes, env : EnvNames, phase : {"setup", "done"}]
NativeType ==
  [kind : {"native"}, lib : Lib \cup {Exe}, then : Known, args : BOOLEAN,
   why : {"function", "funcexit", "cmdexit", "command", "io", "init", "term"}]
Frame == ScriptType \cup StartType \cup NativeType \cup {Label}

-----------------------------------------------------------------------------
(* The stack of frames.                                                    *)

IsScript(f) == f.kind = "script"
\* Neither exit of the script has come to anything yet.
Fresh(f) == ~f.begun /\ ~f.doTermHook /\ f.terms = 0
Once(f) == IF f.begun THEN 1 ELSE 0
Due(f) == IF f.doTermHook THEN 1 ELSE 0
Sound(f) == IsScript(f) =>
  /\ f.terms + Due(f) = Once(f)
  /\ f.phase = "end2" \/ f.again => f.how = "external"
  /\ f.phase \in {"end2", "gone"} => ~f.doTermHook
  /\ f.phase = "init" => Fresh(f)
  /\ f.how = "main" => f.phase \in {"run", "end"}
  /\ f.bared => f.how = "main"
  /\ f.how = "main" /\ ~f.file => f.bared

Bottom(f) == f.kind = "start" \/ (IsScript(f) /\ f.how = "main")
\* Frame f has been called by frame g.
On(f, g) ==
  /\ IsScript(f) => f.how # "main" /\ g.kind \in {"start", "script", "label"}
  /\ f.kind = "native" =>
       /\ g.kind \in {"script", "label"}
       /\ f.why \in {"init", "term"} => IsScript(g)
       /\ f.why = "init" => Fresh(g)
  /\ f.kind \in {"label", "start"} => g.kind = "native"

Stack(fs) ==
  /\ fs \in Seq(Frame)
  /\ \A k \in 1 .. Len(fs) : Sound(fs[k])
  /\ Len(fs) > 0 => Bottom(fs[1])
  /\ \A k \in 1 .. Len(fs) - 1 : On(fs[k + 1], fs[k])

-----------------------------------------------------------------------------
(* Libraries and handlers.                                                 *)

Hooks == UNION {[S -> Lib \cup {Exe}] : S \in SUBSET Codes}
MainRuns == frames # <<>> /\ IsScript(frames[1]) /\ frames[1].how = "main"
BareMain == MainRuns /\ frames[1].bared

\* Where in a list the entries of a library are, and how many there are in all.
At(s, b) == {k \in DOMAIN s : s[k].lib = b}
Sum(l, b) == Cardinality(At(l.entries["FUNCS"], b)) + Cardinality(At(l.entries["EXITS"], b))
             + Cardinality(At(l.entries["SUBCOMS"], b))
Counted(l) == \A b \in Lib : l.used[b] = Sum(l, b) /\ ((b \in l.linked) <=> (l.used[b] > 0))

Types ==
  /\ libs \in LibsType /\ handlers \in Seq(Hooks) /\ lost \in Nat
  /\ basefile \in BOOLEAN
FramesMapped == \A k \in 1 .. Len(frames) : frames[k].kind = "native" =>
    Mapped(libs, frames[k].lib) /\ Mapped(libs, frames[k].then.lib)
\* The lists in force, and those of them that were left when the main program runs.
HandlersMapped == \A j \in 1 .. Len(handlers) : j > lost \/ MainRuns =>
    \A c \in DOMAIN handlers[j] : Mapped(libs, handlers[j][c])

IInv == Types /\ Stack(frames)
HInv == HandlersKept
LInv == Counted(libs) /\ (~BareMain => FramesMapped /\ HandlersMapped)

-----------------------------------------------------------------------------
(* Frames.                                                                 *)

LEMMA Kinds ==
  ASSUME NEW f \in Frame
  PROVE  /\ f.kind \in {"script", "start", "native", "label"}
         /\ f.kind = "script" <=> f \in ScriptType
         /\ f.kind = "start" <=> f \in StartType
         /\ f.kind = "native" <=> f \in NativeType
         /\ f.kind = "label" <=> f = Label
<1>1. \A g \in ScriptType : g.kind = "script"
    BY DEF ScriptType
<1>2. \A g \in StartType : g.kind = "start"
    BY DEF StartType
<1>3. \A g \in NativeType : g.kind = "native"
    BY DEF NativeType
<1>4. Label.kind = "label"
    BY DEF Label
<1> QED  BY <1>1, <1>2, <1>3, <1>4 DEF Frame

\* Of positions in a list the highest one is one of them.
LEMMA HighestOf ==
  ASSUME NEW n \in Nat, NEW S, S \subseteq 1 .. n, S # {}
  PROVE  Highest(S) \in S /\ \A j \in S : j <= Highest(S)
<1> DEFINE T == {n - k : k \in S}
           R == {ss \in Nat \X Nat : ss[1] < ss[2]}
<1>1. T \subseteq Nat /\ T # {}
  <2>1. \A k \in S : n - k \in Nat
      OBVIOUS
  <2> QED  BY <2>1
<1>2. PICK x \in T : \A y \in T : ~(<<y, x>> \in R)
  <2> HIDE DEF T, R
  <2>1. IsWellFoundedOn(R, Nat)
      BY NatLessThanWellFounded DEF R, OpToRel
  <2> QED  BY <1>1, <2>1, WFMin
<1>3. PICK m \in S : x = n - m
    OBVIOUS
<1>4. \A j \in S : j <= m
  <2> SUFFICES ASSUME NEW j \in S, m < j  PROVE FALSE
      OBVIOUS
  <2>1. n - j \in T /\ n - j \in Nat /\ x \in Nat /\ n - j < x
      BY <1>1, <1>3
  <2>2. <<n - j, x>> \in R
      BY <2>1
  <2> QED  BY <1>2, <2>1, <2>2
<1>5. (CHOOSE k \in S : \A j \in S : j <= k) \in S
      /\ \A j \in S : j <= (CHOOSE k \in S : \A i \in S : i <= k)
    BY <1>4
<1> QED  BY <1>5 DEF Highest

LEMMA Prefix ==
  ASSUME NEW fs, Stack(fs), NEW n \in 0 .. Len(fs)
  PROVE  /\ Stack(SubSeq(fs, 1, n)) /\ Len(SubSeq(fs, 1, n)) = n
         /\ \A k \in 1 .. n : SubSeq(fs, 1, n)[k] = fs[k]
<1> DEFINE gs == SubSeq(fs, 1, n)
<1>1. fs \in Seq(Frame) /\ n \in Nat
    BY DEF Stack
<1>2. gs \in Seq(Frame) /\ Len(gs) = n /\ \A k \in 1 .. n : gs[k] = fs[k]
  <2>1. \A k \in 1 .. n : fs[k] \in Frame
      BY <1>1
  <2>2. /\ gs \in Seq(Frame)
        /\ Len(gs) = IF 1 <= n THEN n - 1 + 1 ELSE 0
        /\ \A i \in 1 .. n - 1 + 1 : gs[i] = fs[1 + i - 1]
      BY <1>1, <2>1, SubSeqProperties
  <2> HIDE DEF gs
  <2> QED  BY <1>1, <2>2
<1> HIDE DEF gs
<1>3. \A k \in 1 .. n : Sound(gs[k])
    BY <1>1, <1>2 DEF Stack
<1>4. n > 0 => Bottom(gs[1])
    BY <1>1, <1>2 DEF Stack
<1>5. \A k \in 1 .. n - 1 : On(gs[k + 1], gs[k])
    BY <1>1, <1>2 DEF Stack
<1>6. Stack(gs)
    BY <1>2, <1>3, <1>4, <1>5 DEF Stack
<1> QED  BY <1>2, <1>6 DEF gs

LEMMA PushFrame ==
  ASSUME NEW fs, Stack(fs), NEW f \in Frame, Sound(f),
         Len(fs) = 0 => Bottom(f), Len(fs) > 0 => On(f, fs[Len(fs)])
  PROVE  /\ Stack(Append(fs, f)) /\ Len(Append(fs, f)) = Len(fs) + 1
         /\ Append(fs, f)[Len(fs) + 1] = f
         /\ \A k \in 1 .. Len(fs) : Append(fs, f)[k] = fs[k]
<1> DEFINE n == Len(fs)
           gs == Append(fs, f)
<1>1. fs \in Seq(Frame) /\ n \in Nat
    BY DEF Stack
<1>2. gs \in Seq(Frame) /\ Len(gs) = n + 1 /\ gs[n + 1] = f /\ \A k \in 1 .. n : gs[k] = fs[k]
    BY <1>1
<1> HIDE DEF gs
<1>3. \A k \in 1 .. n + 1 : Sound(gs[k])
    BY <1>1, <1>2 DEF Stack
<1>4. Bottom(gs[1])
    BY <1>1, <1>2 DEF Stack
<1>5. \A k \in 1 .. n : On(gs[k + 1], gs[k])
    BY <1>1, <1>2 DEF Stack
<1>6. Stack(gs)
    BY <1>1, <1>2, <1>3, <1>4, <1>5 DEF Stack
<1> QED  BY <1>2, <1>6 DEF gs

\* A frame is changed in nothing that the next one goes by.
LEMMA ChangeFrame ==
  ASSUME NEW fs, Stack(fs), NEW i \in 1 .. Len(fs), NEW f \in Frame, Sound(f),
         i = 1 => Bottom(f), i > 1 => On(f, fs[i - 1]), i < Len(fs) => On(fs[i + 1], f),
         NEW gs, gs = [fs EXCEPT ![i] = f]
  PROVE  /\ Stack(gs) /\ Len(gs) = Len(fs) /\ gs[i] = f
         /\ \A k \in 1 .. Len(fs) : k # i => gs[k] = fs[k]
<1> DEFINE n == Len(fs)
<1>1. fs \in Seq(Frame) /\ n \in Nat
    BY DEF Stack
<1>2. gs \in Seq(Frame) /\ Len(gs) = n /\ gs[i] = f /\ \A k \in 1 .. n : k # i => gs[k] = fs[k]
    BY <1>1
<1>3. \A k \in 1 .. n : Sound(gs[k])
    BY <1>1, <1>2 DEF Stack
<1>4. n > 0 => Bottom(gs[1])
    BY <1>1, <1>2 DEF Stack
<1>5. \A k \in 1 .. n - 1 : On(gs[k + 1], gs[k])
  <2> SUFFICES ASSUME NEW k \in 1 .. n - 1  PROVE On(gs[k + 1], gs[k])
      OBVIOUS
  <2>1. On(fs[k + 1], fs[k])
      BY <1>1 DEF Stack
  <2>2. CASE k = i
      BY <1>1, <1>2, <2>2
  <2>3. CASE k + 1 = i
      BY <1>1, <1>2, <2>3
  <2>4. CASE k # i /\ k + 1 # i
      BY <1>1, <1>2, <2>1, <2>4
  <2> QED  BY <2>2, <2>3, <2>4
<1> QED  BY <1>1, <1>2, <1>3, <1>4, <1>5 DEF Stack

-----------------------------------------------------------------------------
(* The innermost script, and what an error leaves.                         *)

Sys(fs) == Highest({k \in DOMAIN fs : fs[k].kind = "script"})
LEMMA TheSystem == System = Sys(frames)
BY DEF System, Sys

LEMMA SysRange ==
  ASSUME NEW fs, Stack(fs)
  PROVE  /\ Sys(fs) \in 0 .. Len(fs)
         /\ Sys(fs) # 0 => fs[Sys(fs)].kind = "script"
         /\ \A k \in 1 .. Len(fs) : fs[k].kind = "script" => k <= Sys(fs) /\ Sys(fs) # 0
<1> DEFINE S == {k \in DOMAIN fs : fs[k].kind = "script"}
<1>1. Len(fs) \in Nat /\ DOMAIN fs = 1 .. Len(fs)
    BY DEF Stack
<1>2. CASE S = {}
    BY <1>1, <1>2 DEF Sys, Highest
<1>3. CASE S # {}
  <2>1. S \subseteq 1 .. Len(fs)
      BY <1>1
  <2> HIDE DEF S
  <2>2. Highest(S) \in S /\ \A j \in S : j <= Highest(S)
      BY <1>1, <1>3, <2>1, HighestOf
  <2> QED  BY <1>1, <2>1, <2>2 DEF S, Sys
<1> QED  BY <1>2, <1>3

\* A RexxStart calls nothing but its script.
LEMMA AfterStart ==
  ASSUME NEW fs, Stack(fs), NEW k \in 1 .. Len(fs) - 1, fs[k].kind = "start"
  PROVE  fs[k + 1].kind = "script"
<1>1. fs \in Seq(Frame) /\ On(fs[k + 1], fs[k]) /\ fs[k + 1] \in Frame
    BY DEF Stack
<1>2. fs[k + 1].kind \in {"script", "start", "native", "label"}
    BY <1>1, Kinds
<1> QED  BY <1>1, <1>2 DEF On

\* Unless a RexxStart has just been called there is a script, and none starts above it.
LEMMA SysThere ==
  ASSUME NEW fs, Stack(fs), Len(fs) > 0, fs[Len(fs)].kind # "start"
  PROVE  /\ Sys(fs) \in 1 .. Len(fs) /\ fs[Sys(fs)] \in ScriptType
         /\ \A k \in 1 .. Len(fs) : k > Sys(fs) => fs[k].kind \notin {"script", "start"}
<1> DEFINE n == Len(fs)
<1>1. n \in Nat /\ fs \in Seq(Frame)
    BY DEF Stack
<1>2. \E k \in 1 .. n : fs[k].kind = "script"
  <2>1. CASE fs[1].kind = "start"
    <3>1. 1 \in 1 .. n - 1
        BY <1>1, <2>1
    <3>2. fs[2].kind = "script"
        BY <2>1, <3>1, AfterStart
    <3> QED  BY <1>1, <3>1, <3>2
  <2>2. CASE fs[1].kind # "start"
    <3>1. Bottom(fs[1])
        BY DEF Stack
    <3> QED  BY <1>1, <2>2, <3>1 DEF Bottom, IsScript
  <2> QED  BY <2>1, <2>2
<1>3. /\ Sys(fs) \in 1 .. n /\ fs[Sys(fs)].kind = "script"
      /\ \A k \in 1 .. n : fs[k].kind = "script" => k <= Sys(fs)
    BY <1>1, <1>2, SysRange
<1>4. fs[Sys(fs)] \in ScriptType
    BY <1>1, <1>3, Kinds
<1>5. ASSUME NEW k \in 1 .. n, k > Sys(fs), fs[k].kind = "start"  PROVE FALSE
  <2>1. k \in 1 .. n - 1 /\ k + 1 \in 1 .. n /\ k + 1 > Sys(fs)
      BY <1>1, <1>3, <1>5
  <2>2. fs[k + 1].kind = "script"
      BY <1>5, <2>1, AfterStart
  <2> QED  BY <1>3, <2>1, <2>2
<1>6. \A k \in 1 .. n : k > Sys(fs) => fs[k].kind # "script"
    BY <1>1, <1>3
<1> QED  BY <1>3, <1>4, <1>5, <1>6

\* A script that ends, well or not, is as sound as it was.
LEMMA EndScript ==
  ASSUME NEW f \in ScriptType, Sound(f)
  PROVE  /\ [f EXCEPT !.phase = "end"] \in Frame /\ Sound([f EXCEPT !.phase = "end"])
         /\ [f EXCEPT !.phase = "end", !.failed = TRUE] \in Frame
         /\ Sound([f EXCEPT !.phase = "end", !.failed = TRUE])
         /\ \A g : On(f, g) => On([f EXCEPT !.phase = "end"], g)
                            /\ On([f EXCEPT !.phase = "end", !.failed = TRUE], g)
         /\ Bottom(f) => /\ Bottom([f EXCEPT !.phase = "end"])
                         /\ Bottom([f EXCEPT !.phase = "end", !.failed = TRUE])
<1> DEFINE a == [f EXCEPT !.phase = "end"]
           b == [f EXCEPT !.phase = "end", !.failed = TRUE]
<1>1. /\ a \in ScriptType /\ a.how = f.how /\ a.terms = f.terms /\ a.phase = "end"
      /\ (a.doTermHook <=> f.doTermHook) /\ (a.begun <=> f.begun) /\ (a.again <=> f.again)
      /\ (a.file <=> f.file) /\ (a.bared <=> f.bared)
    BY DEF ScriptType
<1>2. /\ b \in ScriptType /\ b.how = f.how /\ b.terms = f.terms /\ b.phase = "end"
      /\ (b.doTermHook <=> f.doTermHook) /\ (b.begun <=> f.begun) /\ (b.again <=> f.again)
      /\ (b.file <=> f.file) /\ (b.bared <=> f.bared)
    BY DEF ScriptType
<1> HIDE DEF a, b
<1>3. ASSUME NEW g \in ScriptType, g.how = f.how, g.terms = f.terms, g.phase = "end",
             g.doTermHook <=> f.doTermHook, g.begun <=> f.begun, g.again <=> f.again,
             g.file <=> f.file, g.bared <=> f.bared
      PROVE  Sound(g) /\ g \in Frame /\ (\A h : On(f, h) => On(g, h)) /\ (Bottom(f) => Bottom(g))
  <2>1. f.kind = "script" /\ g.kind = "script" /\ g \in Frame
      BY DEF ScriptType, Frame
  <2>2. Sound(g)
      BY <1>3, <2>1 DEF Sound, IsScript, Once, Due, Fresh
  <2>3. \A h : On(f, h) => On(g, h)
      BY <1>3, <2>1 DEF On, IsScript
  <2>4. Bottom(f) => Bottom(g)
      BY <1>3, <2>1 DEF Bottom, IsScript
  <2> QED  BY <2>1, <2>2, <2>3, <2>4
<1> QED  BY <1>1, <1>2, <1>3 DEF a, b

\* What the other invariants go by in a frame.
Like(g, f) ==
  /\ g.kind = f.kind
  /\ f.kind = "start" => g.exits = f.exits
  /\ f.kind = "native" => g.lib = f.lib /\ g.then = f.then
  /\ f.kind = "script" => g.how = f.how /\ (g.bared <=> f.bared)
LEMMA LikeItself == \A f : Like(f, f)
BY DEF Like

\* Frames gs are frames fs but for those that were left, and no RexxStart was.
Left(gs, fs) ==
  /\ Len(gs) \in 1 .. Len(fs)
  /\ \A k \in 1 .. Len(gs) : Like(gs[k], fs[k])
  /\ \A k \in 1 .. Len(fs) : fs[k].kind = "start" => k <= Len(gs)

\* Script g is script f at its end.
EndOf(g, f) == g = [f EXCEPT !.phase = "end"] \/ g = [f EXCEPT !.phase = "end", !.failed = TRUE]
LEMMA EndLike ==
  ASSUME NEW f \in ScriptType, Sound(f), NEW g, EndOf(g, f)
  PROVE  /\ g \in Frame /\ Sound(g) /\ (\A h : On(f, h) => On(g, h))
         /\ Bottom(f) => Bottom(g)
         /\ Like(g, f) /\ g.kind = "script"
<1>1. ASSUME NEW x \in ScriptType
      PROVE  /\ Like([x EXCEPT !.phase = "end"], x)
             /\ Like([x EXCEPT !.phase = "end", !.failed = TRUE], x) /\ x.kind = "script"
    BY DEF ScriptType, Like
<1>2. Like(g, f) /\ f.kind = "script"
    BY <1>1 DEF EndOf
<1>3. g.kind = "script"
    BY <1>2 DEF Like
<1>4. g \in Frame /\ Sound(g) /\ (\A h : On(f, h) => On(g, h)) /\ (Bottom(f) => Bottom(g))
    BY EndScript DEF EndOf
<1> QED  BY <1>2, <1>3, <1>4

LEMMA EndSystem ==
  ASSUME NEW fs, Stack(fs), NEW i \in 1 .. Len(fs), fs[i] \in ScriptType,
         \A k \in 1 .. Len(fs) : k > i => fs[k].kind # "start",
         NEW f, EndOf(f, fs[i]), NEW gs, gs = Append(SubSeq(fs, 1, i - 1), f)
  PROVE  Stack(gs) /\ Left(gs, fs) /\ gs[Len(gs)].kind # "start"
<1> DEFINE hs == SubSeq(fs, 1, i - 1)
<1>1. Len(fs) \in Nat /\ i - 1 \in 0 .. Len(fs) /\ Sound(fs[i])
    BY DEF Stack
<1>2. Stack(hs) /\ Len(hs) = i - 1 /\ \A k \in 1 .. i - 1 : hs[k] = fs[k]
    BY <1>1, Prefix
<1>3. /\ f \in Frame /\ Sound(f) /\ (\A g : On(fs[i], g) => On(f, g))
      /\ Bottom(fs[i]) => Bottom(f)
      /\ Like(f, fs[i]) /\ f.kind = "script"
    BY <1>1, EndLike
<1>4. gs = Append(hs, f)
    OBVIOUS
<1> HIDE DEF hs
<1>5. Len(hs) = 0 => Bottom(f)
  <2>1. i = 1 => Bottom(fs[i])
      BY <1>1 DEF Stack
  <2> QED  BY <1>1, <1>2, <1>3, <2>1
<1>6. Len(hs) > 0 => On(f, hs[Len(hs)])
  <2> SUFFICES ASSUME Len(hs) > 0  PROVE On(f, hs[Len(hs)])
      OBVIOUS
  <2>1. i - 1 \in 1 .. Len(fs) - 1 /\ hs[Len(hs)] = fs[i - 1] /\ i - 1 + 1 = i
      BY <1>1, <1>2
  <2>2. On(fs[i], fs[i - 1])
      BY <2>1 DEF Stack
  <2> QED  BY <1>3, <2>1, <2>2
<1>7. /\ Stack(Append(hs, f)) /\ Len(Append(hs, f)) = Len(hs) + 1
      /\ Append(hs, f)[Len(hs) + 1] = f
      /\ \A k \in 1 .. Len(hs) : Append(hs, f)[k] = hs[k]
  <2>1. Stack(hs) /\ f \in Frame /\ Sound(f)
      BY <1>2, <1>3
  <2> QED  BY <2>1, <1>5, <1>6, PushFrame
<1>8. Stack(gs) /\ Len(gs) = i /\ gs[i] = f /\ \A k \in 1 .. i - 1 : gs[k] = fs[k]
  <2>1. ASSUME NEW as, as = Append(hs, f)
        PROVE  Stack(as) /\ Len(as) = i /\ as[i] = f /\ \A k \in 1 .. i - 1 : as[k] = fs[k]
    <3>1. /\ Stack(as) /\ Len(as) = Len(hs) + 1 /\ as[Len(hs) + 1] = f
          /\ \A k \in 1 .. Len(hs) : as[k] = hs[k]
        BY <1>7, <2>1
    <3>2. Len(hs) = i - 1 /\ i - 1 + 1 = i
        BY <1>1, <1>2
    <3> QED  BY <1>2, <3>1, <3>2
  <2> QED  BY <1>4, <2>1
<1>9. \A k \in 1 .. i : Like(gs[k], fs[k])
    BY <1>1, <1>3, <1>8, LikeItself
<1>10. Left(gs, fs)
    BY <1>1, <1>8, <1>9 DEF Left
<1> QED  BY <1>3, <1>8, <1>10

LEMMA PartLeft ==
  ASSUME NEW fs, Stack(fs), NEW n \in 1 .. Len(fs),
         \A k \in 1 .. Len(fs) : k > n => fs[k].kind # "start",
         NEW gs, gs = SubSeq(fs, 1, n)
  PROVE  Stack(gs) /\ Left(gs, fs) /\ Len(gs) = n /\ gs[n] = fs[n]
<1>1. Len(fs) \in Nat /\ n \in 0 .. Len(fs)
    BY DEF Stack
<1>2. Stack(gs) /\ Len(gs) = n /\ \A k \in 1 .. n : gs[k] = fs[k]
    BY <1>1, Prefix
<1> QED  BY <1>1, <1>2, LikeItself DEF Left

\* An error leaves the frames above a label or a script, or the script's as well, but
\* no RexxStart whose script has begun.
LEMMA FailStack ==
  ASSUME NEW fs, Stack(fs), Len(fs) > 0, fs[Len(fs)].kind # "start", NEW gs \in Failures(fs)
  PROVE  Stack(gs) /\ Left(gs, fs) /\ gs[Len(gs)].kind # "start"
<1> DEFINE sys == Sys(fs)
<1>1. /\ sys \in 1 .. Len(fs) /\ fs[sys] \in ScriptType
      /\ \A k \in 1 .. Len(fs) : k > sys => fs[k].kind \notin {"script", "start"}
    BY SysThere
<1>2. \/ \E k \in sys .. Len(fs) : Running(fs[k]) /\ gs = SubSeq(fs, 1, k)
      \/ gs = Append(SubSeq(fs, 1, sys - 1), [fs[sys] EXCEPT !.phase = "end", !.failed = TRUE])
    BY DEF Failures, Sys
<1>3. fs \in Seq(Frame) /\ Len(fs) \in Nat
    BY DEF Stack
<1>4. ASSUME NEW k \in sys .. Len(fs), Running(fs[k]), gs = SubSeq(fs, 1, k)
      PROVE  Stack(gs) /\ Left(gs, fs) /\ gs[Len(gs)].kind # "start"
  <2>1. k \in 1 .. Len(fs) /\ \A j \in 1 .. Len(fs) : j > k => fs[j].kind # "start"
      BY <1>1, <1>3
  <2>2. fs[k].kind # "start"
      BY <1>4 DEF Running
  <2>3. Stack(gs) /\ Left(gs, fs) /\ Len(gs) = k /\ gs[k] = fs[k]
    <3> HIDE DEF sys
    <3> QED  BY <1>4, <2>1, PartLeft
  <2> QED  BY <2>2, <2>3
<1>5. ASSUME NEW f, EndOf(f, fs[sys]), gs = Append(SubSeq(fs, 1, sys - 1), f)
      PROVE  Stack(gs) /\ Left(gs, fs) /\ gs[Len(gs)].kind # "start"
  <2>1. \A k \in 1 .. Len(fs) : k > sys => fs[k].kind # "start"
      BY <1>1
  <2> HIDE DEF sys
  <2> QED  BY <1>1, <1>5, <2>1, EndSystem
<1>6. EndOf([fs[sys] EXCEPT !.phase = "end", !.failed = TRUE], fs[sys])
    BY DEF EndOf
<1> QED  BY <1>2, <1>4, <1>5, <1>6

-----------------------------------------------------------------------------
(* Steps that leave every RexxStart as it is.                              *)

\* A library that is known to whatever runs: it has an entry, is an exit of the list
\* in force, or is run already.
Reach(b) ==
  \/ b = Exe
  \/ \E s \in Slots : \E k \in 1 .. Len(libs.entries[s]) : libs.entries[s][k].lib = b
  \/ handlers # <<>> /\ \E c \in DOMAIN handlers[Len(handlers)] : handlers[Len(handlers)][c] = b
  \/ \E k \in 1 .. Len(frames) :
        frames[k].kind = "native" /\ b \in {frames[k].lib, frames[k].then.lib}
\* A frame that may be put on the stack.
Joins(f) ==
  f.kind # "start" /\ (f.kind = "native" => Reach(f.lib) /\ Reach(f.then.lib))
Quiet(gs) ==
  /\ Len(frames) > 0 /\ Len(gs) > 0
  /\ \A k \in 1 .. Len(gs) :
        \/ k <= Len(frames) /\ Like(gs[k], frames[k])
        \/ k > 1 /\ Joins(gs[k])
  /\ \A k \in 1 .. Len(frames) :
        frames[k].kind = "start" => k <= Len(gs) /\ Like(gs[k], frames[k])
Steady(gs) == Stack(gs) /\ Quiet(gs)

LEMMA PushSteady ==
  ASSUME NEW hs, Steady(hs), NEW f \in Frame, Sound(f), Joins(f), On(f, hs[Len(hs)])
  PROVE  Steady(Append(hs, f))
<1>1. Stack(hs) /\ Quiet(hs) /\ Len(hs) > 0 /\ Len(hs) \in Nat
    BY DEF Steady, Quiet, Stack
<1>2. /\ Stack(Append(hs, f)) /\ Len(Append(hs, f)) = Len(hs) + 1
      /\ Append(hs, f)[Len(hs) + 1] = f
      /\ \A k \in 1 .. Len(hs) : Append(hs, f)[k] = hs[k]
    BY <1>1, PushFrame
<1> DEFINE gs == Append(hs, f)
<1> HIDE DEF gs
<1>3. /\ Len(gs) = Len(hs) + 1 /\ gs[Len(hs) + 1] = f
      /\ \A k \in 1 .. Len(hs) : gs[k] = hs[k]
    BY <1>2 DEF gs
<1>4. Quiet(gs)
    BY <1>1, <1>3 DEF Quiet
<1> QED  BY <1>2, <1>4 DEF gs, Steady

LEMMA TopFacts ==
  ASSUME IInv, frames # <<>>
  PROVE  /\ frames \in Seq(Frame) /\ Len(frames) \in Nat /\ Len(frames) > 0
         /\ Top \in Frame /\ Sound(Top) /\ Top = frames[Len(frames)]
BY DEF IInv, Stack, Top

\* The innermost frame is changed.
LEMMA TopSteady ==
  ASSUME IInv, frames # <<>>, NEW f \in Frame, Sound(f), Like(f, Top),
         \A h : On(Top, h) => On(f, h), Bottom(Top) => Bottom(f)
  PROVE  Steady(WithTop(f)) /\ Len(WithTop(f)) = Len(frames) /\ WithTop(f)[Len(frames)] = f
<1> DEFINE n == Len(frames)
<1>1. frames \in Seq(Frame) /\ n \in Nat /\ n > 0 /\ n \in 1 .. Len(frames) /\ Top = frames[n]
      /\ Stack(frames)
    BY TopFacts DEF IInv
<1>2. n = 1 => Bottom(f)
    BY <1>1 DEF Stack
<1>3. n > 1 => On(f, frames[n - 1])
  <2> SUFFICES ASSUME n > 1  PROVE On(f, frames[n - 1])
      OBVIOUS
  <2>1. n - 1 \in 1 .. Len(frames) - 1 /\ n - 1 + 1 = n
      BY <1>1
  <2>2. On(frames[n], frames[n - 1])
      BY <1>1, <2>1 DEF Stack
  <2> QED  BY <1>1, <2>2
<1> DEFINE gs == [frames EXCEPT ![n] = f]
<1>4. gs = WithTop(f)
    BY DEF WithTop
<1>5. ~(n < Len(frames))
    BY <1>1
<1> HIDE DEF gs, n
<1>6. /\ Stack(gs) /\ Len(gs) = Len(frames) /\ gs[n] = f
      /\ \A k \in 1 .. Len(frames) : k # n => gs[k] = frames[k]
    BY <1>1, <1>2, <1>3, <1>5, ChangeFrame DEF gs
<1>7. \A k \in 1 .. Len(frames) : Like(gs[k], frames[k])
    BY <1>1, <1>6, LikeItself
<1>8. Quiet(gs)
    BY <1>1, <1>6, <1>7 DEF Quiet
<1> QED  BY <1>4, <1>6, <1>8 DEF Steady, n

\* The innermost frame goes, which is no RexxStart.
LEMMA BelowFacts ==
  ASSUME IInv, frames # <<>>
  PROVE  /\ Stack(Below) /\ Len(Below) = Len(frames) - 1
         /\ \A k \in 1 .. Len(frames) - 1 : Below[k] = frames[k]
         /\ Len(frames) = 1 => Bottom(Top)
         /\ Len(frames) > 1 => Len(Below) > 0 /\ On(Top, Below[Len(Below)])
<1> DEFINE n == Len(frames)
<1>1. frames \in Seq(Frame) /\ n \in Nat /\ n > 0 /\ Top = frames[n] /\ Stack(frames)
      /\ n - 1 \in 0 .. Len(frames)
    BY TopFacts DEF IInv
<1>2. Stack(Below) /\ Len(Below) = n - 1 /\ \A k \in 1 .. n - 1 : Below[k] = frames[k]
    BY <1>1, Prefix DEF Below
<1>3. n = 1 => Bottom(Top)
    BY <1>1 DEF Stack
<1>4. ASSUME n > 1  PROVE On(Top, Below[n - 1])
  <2>1. n - 1 \in 1 .. Len(frames) - 1 /\ n - 1 + 1 = n /\ Below[n - 1] = frames[n - 1]
      BY <1>1, <1>2, <1>4
  <2>2. On(frames[n], frames[n - 1])
      BY <1>1, <2>1 DEF Stack
  <2> QED  BY <1>1, <2>1, <2>2
<1> QED  BY <1>1, <1>2, <1>3, <1>4
LEMMA BelowSteady ==
  ASSUME IInv, frames # <<>>, ~Bottom(Top)
  PROVE  Steady(Below) /\ Len(Below) = Len(frames) - 1 /\ Len(Below) > 0
         /\ On(Top, Below[Len(Below)])
<1>1. frames \in Seq(Frame) /\ Len(frames) \in Nat /\ Len(frames) > 0 /\ Top = frames[Len(frames)]
    BY TopFacts
<1>2. /\ Stack(Below) /\ Len(Below) = Len(frames) - 1 /\ Len(Below) > 0
      /\ \A k \in 1 .. Len(frames) - 1 : Below[k] = frames[k]
      /\ On(Top, Below[Len(Below)])
    BY <1>1, BelowFacts
<1>3. Top.kind # "start"
    BY DEF Bottom
<1>4. Quiet(Below)
    BY <1>1, <1>2, <1>3, LikeItself DEF Quiet
<1> QED  BY <1>2, <1>4 DEF Steady

LEMMA LeftOfSteady ==
  ASSUME NEW hs, Steady(hs), NEW gs, Stack(gs), Left(gs, hs)
  PROVE  Steady(gs)
<1>1. Len(hs) \in Nat /\ Len(gs) \in Nat /\ Quiet(hs) /\ Len(gs) > 0
    BY DEF Steady, Stack, Left
<1>2. \A k \in 1 .. Len(gs) : \/ k <= Len(frames) /\ Like(gs[k], frames[k])
                              \/ k > 1 /\ Joins(gs[k])
  <2> SUFFICES ASSUME NEW k \in 1 .. Len(gs)
               PROVE  \/ k <= Len(frames) /\ Like(gs[k], frames[k])
                      \/ k > 1 /\ Joins(gs[k])
      OBVIOUS
  <2>1. Like(gs[k], hs[k]) /\ k \in 1 .. Len(hs)
      BY <1>1 DEF Left
  <2>2. CASE k <= Len(frames) /\ Like(hs[k], frames[k])
      BY <2>1, <2>2 DEF Like
  <2>3. CASE k > 1 /\ Joins(hs[k])
      BY <2>1, <2>3 DEF Like, Joins
  <2> QED  BY <1>1, <2>1, <2>2, <2>3 DEF Quiet
<1>3. ASSUME NEW k \in 1 .. Len(frames), frames[k].kind = "start"
      PROVE  k <= Len(gs) /\ Like(gs[k], frames[k])
  <2>1. k <= Len(hs) /\ Like(hs[k], frames[k])
      BY <1>1, <1>3 DEF Quiet
  <2>2. k \in 1 .. Len(hs) /\ hs[k].kind = "start"
      BY <1>1, <1>3, <2>1 DEF Like
  <2>3. k <= Len(gs) /\ Like(gs[k], hs[k])
      BY <1>1, <2>2 DEF Left
  <2> QED  BY <2>1, <2>3 DEF Like
<1>4. Quiet(gs)
    BY <1>1, <1>2, <1>3 DEF Quiet
<1> QED  BY <1>4 DEF Steady

LEMMA FailSteady ==
  ASSUME NEW hs, Steady(hs), hs[Len(hs)].kind # "start", NEW gs \in Failures(hs)
  PROVE  Steady(gs)
<1>1. Stack(hs) /\ Len(hs) > 0
    BY DEF Steady, Quiet
<1>2. Stack(gs) /\ Left(gs, hs)
    BY <1>1, FailStack
<1> QED  BY <1>2, LeftOfSteady

\* Code that is called is that of a library or the application's.
LEMMA NativeFrame ==
  ASSUME NEW b \in Lib \cup {Exe}, NEW e \in Known,
         NEW why \in {"function", "funcexit", "cmdexit", "command", "io", "init", "term"}
  PROVE  /\ Native(why, b, e) \in Frame /\ Sound(Native(why, b, e))
         /\ Reach(b) /\ Reach(e.lib) => Joins(Native(why, b, e))
         /\ \A g : (/\ g.kind \in {"script", "label"}
                    /\ why \in {"init", "term"} => IsScript(g)
                    /\ why = "init" => Fresh(g))
                   => On(Native(why, b, e), g)
<1> DEFINE f == Native(why, b, e)
<1>1. f.kind = "native" /\ f.lib = b /\ f.then = e /\ f.why = why /\ f \in NativeType
    BY DEF Native, NativeType
<1>2. f \in Frame
    BY <1>1 DEF Frame
<1> HIDE DEF f
<1>3. Sound(f)
    BY <1>1 DEF Sound, IsScript
<1>4. Reach(b) /\ Reach(e.lib) => Joins(f)
    BY <1>1 DEF Joins
<1>5. \A g : (/\ g.kind \in {"script", "label"}
              /\ why \in {"init", "term"} => IsScript(g)
              /\ why = "init" => Fresh(g))
             => On(f, g)
    BY <1>1 DEF On, IsScript
<1> QED  BY <1>2, <1>3, <1>4, <1>5 DEF f

LEMMA NobodyKnown == NoOne \in Known /\ Reach(NoOne.lib) /\ NoOne.lib = Exe
<1>1. NoOne = [name |-> "", lib |-> Exe] /\ NoOne.lib = Exe
    BY DEF NoOne
<1>2. NoOne \in Known
    BY <1>1 DEF Known, Names
<1>3. Reach(Exe)
    BY DEF Reach
<1> QED  BY <1>1, <1>2, <1>3

\* An exit that is in force is that of a library that is known.
LEMMA HandlerKnown ==
  ASSUME IInv, NEW code, exit_hook(code)
  PROVE  Handler(code) \in Lib \cup {Exe} /\ Reach(Handler(code))
<1>1. handlers \in Seq(Hooks) /\ handlers # <<>> /\ code \in DOMAIN handlers[Len(handlers)]
    BY DEF IInv, Types, exit_hook
<1>2. Len(handlers) \in 1 .. Len(handlers) /\ handlers[Len(handlers)] \in Hooks
    BY <1>1
<1> DEFINE h == handlers[Len(handlers)]
<1> HIDE DEF h
<1>3. PICK S \in SUBSET Codes : h \in [S -> Lib \cup {Exe}]
    BY <1>2 DEF Hooks, h
<1>4. h[code] \in Lib \cup {Exe}
    BY <1>1, <1>3 DEF h
<1>5. Reach(h[code])
    BY <1>1 DEF Reach, h
<1> QED  BY <1>4, <1>5 DEF Handler, h

\* The lowest of positions in a list is one of them.
LEMMA LowestOf ==
  ASSUME NEW n \in Nat, NEW S, S \subseteq 1 .. n, S # {}
  PROVE  Newest(S) \in S /\ \A j \in S : Newest(S) <= j
<1> DEFINE R == {ss \in Nat \X Nat : ss[1] < ss[2]}
<1>1. PICK x \in S : \A y \in S : ~(<<y, x>> \in R)
  <2> HIDE DEF R
  <2>1. IsWellFoundedOn(R, Nat)
      BY NatLessThanWellFounded DEF R, OpToRel
  <2>2. S \subseteq Nat
      OBVIOUS
  <2> QED  BY <2>1, <2>2, WFMin
<1>2. \A y \in S : x <= y
  <2> SUFFICES ASSUME NEW y \in S, y < x  PROVE FALSE
      OBVIOUS
  <2>1. <<y, x>> \in R
      OBVIOUS
  <2> QED  BY <1>1, <2>1
<1>3. (CHOOSE k \in S : \A j \in S : k <= j) \in S
      /\ \A j \in S : (CHOOSE k \in S : \A i \in S : k <= i) <= j
    BY <1>2
<1> QED  BY <1>3 DEF Newest
LEMMA OldestOf ==
  ASSUME NEW n \in Nat, NEW S, S \subseteq 1 .. n, S # {}
  PROVE  Oldest(S) \in S
BY HighestOf DEF Highest, Oldest, None

\* What an entry's name is looked up for: there is none, or it is an entry.
LEMMA FoundThere ==
  ASSUME NEW l \in LibsType, NEW slot \in Slots, NEW name
  PROVE  LET k == find_first_entry_point(l, slot, name)
         IN  k = None \/ (k \in 1 .. Len(l.entries[slot]) /\ l.entries[slot][k] \in Known)
<1> DEFINE k == find_first_entry_point(l, slot, name)
           S == Named(l, slot, name)
<1>1. l.entries[slot] \in Seq(Known)
    BY DEF LibsType
<1>2. Len(l.entries[slot]) \in Nat /\ S \subseteq 1 .. Len(l.entries[slot])
    BY <1>1 DEF Named
<1>3. CASE S = {}
    BY <1>3 DEF find_first_entry_point, Newest
<1>4. CASE S # {}
  <2> HIDE DEF S
  <2>1. Newest(S) \in S
      BY <1>2, <1>4, LowestOf
  <2> QED  BY <1>1, <1>2, <2>1 DEF find_first_entry_point, S
<1> QED  BY <1>3, <1>4

LEMMA KnownReach ==
  ASSUME IInv, NEW slot \in Slots, NEW name,
         find_first_entry_point(libs, slot, name) # None
  PROVE  LET e == libs.entries[slot][find_first_entry_point(libs, slot, name)]
         IN  e \in Known /\ e.lib \in Lib \cup {Exe} /\ Reach(e.lib)
<1> DEFINE k == find_first_entry_point(libs, slot, name)
<1>1. libs \in LibsType
    BY DEF IInv, Types
<1>2. k \in 1 .. Len(libs.entries[slot]) /\ libs.entries[slot][k] \in Known
    BY <1>1, FoundThere
<1> HIDE DEF k
<1>3. Reach(libs.entries[slot][k].lib)
    BY <1>2 DEF Reach
<1>4. \A e \in Known : e.lib \in Lib \cup {Exe}
    BY DEF Known
<1> QED  BY <1>2, <1>3, <1>4 DEF k

\* The buffers for arguments are given up: nothing else changes.
LEMMA ParamsSteady ==
  ASSUME IInv, frames # <<>>, Top.kind # "native"
  PROVE  Steady(MakeParams(frames)) /\ Len(MakeParams(frames)) = Len(frames)
         /\ MakeParams(frames)[Len(frames)] = Top
<1> DEFINE gs == MakeParams(frames)
           n == Len(frames)
<1>1. frames \in Seq(Frame) /\ n \in Nat /\ n > 0 /\ Top = frames[n] /\ Stack(frames)
    BY TopFacts DEF IInv
<1>2. ASSUME NEW x \in NativeType
      PROVE  /\ [x EXCEPT !.args = FALSE] \in NativeType /\ Like([x EXCEPT !.args = FALSE], x)
             /\ \A g : On(x, g) => On([x EXCEPT !.args = FALSE], g)
             /\ [x EXCEPT !.args = FALSE].kind = "native"
    BY DEF NativeType, Like, On, IsScript
<1>3. ASSUME NEW k \in 1 .. n
      PROVE  /\ gs[k] \in Frame /\ Like(gs[k], frames[k]) /\ \A g : On(frames[k], g) => On(gs[k], g)
             /\ frames[k].kind # "native" => gs[k] = frames[k]
             /\ gs[k].kind = frames[k].kind
  <2>1. gs[k] = IF frames[k].kind = "native" THEN [frames[k] EXCEPT !.args = FALSE] ELSE frames[k]
    <3>1. DOMAIN frames = 1 .. n /\ k \in DOMAIN frames
        BY <1>1
    <3> HIDE DEF n
    <3> QED  BY <3>1 DEF MakeParams
  <2>2. frames[k] \in Frame
      BY <1>1
  <2> HIDE DEF gs
  <2>3. CASE frames[k].kind # "native"
      BY <2>1, <2>2, <2>3, LikeItself
  <2>4. CASE frames[k].kind = "native"
    <3>1. frames[k] \in NativeType
        BY <2>2, <2>4, Kinds
    <3>2. \A x \in NativeType : x \in Frame
        BY DEF Frame
    <3> QED  BY <1>2, <2>1, <2>4, <3>1, <3>2
  <2> QED  BY <2>3, <2>4
<1>4. gs \in Seq(Frame) /\ Len(gs) = n
  <2>1. DOMAIN gs = 1 .. n /\ gs = [k \in 1 .. n |-> gs[k]]
      BY <1>1 DEF MakeParams
  <2> HIDE DEF gs
  <2> QED  BY <1>1, <1>3, <2>1
<1> HIDE DEF gs, n
<1>5. \A k \in 1 .. n : Sound(gs[k])
  <2> SUFFICES ASSUME NEW k \in 1 .. n  PROVE Sound(gs[k])
      OBVIOUS
  <2>1. CASE frames[k].kind = "native"
      BY <1>3, <2>1 DEF Sound, IsScript
  <2>2. CASE frames[k].kind # "native"
      BY <1>1, <1>3, <2>2 DEF Stack, n
  <2> QED  BY <2>1, <2>2
<1>6. Bottom(gs[1])
  <2>1. Bottom(frames[1]) /\ 1 \in 1 .. n
      BY <1>1 DEF Stack, n
  <2>2. frames[1].kind # "native"
      BY <2>1 DEF Bottom, IsScript
  <2> QED  BY <1>3, <2>1, <2>2
<1>7. ASSUME NEW k \in 1 .. n - 1  PROVE On(gs[k + 1], gs[k])
  <2>1. On(frames[k + 1], frames[k]) /\ k \in 1 .. n /\ k + 1 \in 1 .. n
      BY <1>1 DEF Stack, n
  <2>2. On(gs[k + 1], frames[k])
      BY <1>3, <2>1
  <2>3. CASE frames[k].kind # "native"
      BY <1>3, <2>1, <2>2, <2>3
  <2>4. CASE frames[k].kind = "native"
    <3>1. gs[k].kind = "native"
        BY <1>3, <2>1, <2>4
    <3> QED  BY <2>2, <2>4, <3>1 DEF On, IsScript
  <2> QED  BY <2>3, <2>4
<1>8. Stack(gs)
    BY <1>1, <1>4, <1>5, <1>6, <1>7 DEF Stack
<1>9. Quiet(gs)
    BY <1>1, <1>3, <1>4 DEF Quiet, n
<1> QED  BY <1>1, <1>3, <1>4, <1>8, <1>9 DEF Steady, gs, n

-----------------------------------------------------------------------------
(* The actions that leave every RexxStart as it is.                        *)

LEMMA CallBackSteady ==
  ASSUME IInv, CallBack
  PROVE  Steady(frames')
<1>1. frames # <<>> /\ Top.kind = "native" /\ frames' = Append(frames, Label)
    BY DEF CallBack, Push
<1>2. Steady(frames)
    BY <1>1, TopFacts, LikeItself DEF IInv, Steady, Quiet
<1>3. Label.kind = "label" /\ Label \in Frame
    BY DEF Label, Frame
<1>4. Sound(Label) /\ Joins(Label) /\ On(Label, Top)
    BY <1>1, <1>3 DEF Sound, Joins, On, IsScript
<1>5. Top = frames[Len(frames)]
    BY DEF Top
<1> QED  BY <1>1, <1>2, <1>3, <1>4, <1>5, PushSteady

LEMMA Itself ==
  ASSUME IInv, frames # <<>>
  PROVE  Steady(frames) /\ Top = frames[Len(frames)]
BY TopFacts, LikeItself DEF IInv, Steady, Quiet, Top

\* A script that is started is sound.
NewOf(f, how, hooks) ==
  \/ f = Script(how, hooks)
  \/ \E phase \in {"init", "end"}, failed \in BOOLEAN :
        f = [Script(how, hooks) EXCEPT !.phase = phase, !.failed = failed]
LEMMA NewScript ==
  ASSUME NEW how \in Hows \cup {"external"}, NEW hooks \in SUBSET Codes, NEW f, NewOf(f, how, hooks)
  PROVE  /\ f \in Frame /\ Sound(f) /\ Joins(f)
         /\ \A g : g.kind \in {"start", "script", "label"} => On(f, g)
<1>1. how # "main"
    BY ApiAssumption DEF ApiAssumption
<1>2. /\ f \in ScriptType /\ f.kind = "script" /\ f.how = how /\ f.phase \in {"init", "end"}
      /\ ~f.begun /\ ~f.doTermHook /\ f.terms = 0 /\ ~f.again /\ ~f.bared /\ f.file
  <2>1. CASE f = Script(how, hooks)
      BY <2>1 DEF Script, ScriptType
  <2>2. ASSUME NEW phase \in {"init", "end"}, NEW failed \in BOOLEAN,
               f = [Script(how, hooks) EXCEPT !.phase = phase, !.failed = failed]
        PROVE  /\ f \in ScriptType /\ f.kind = "script" /\ f.how = how /\ f.phase \in {"init", "end"}
               /\ ~f.begun /\ ~f.doTermHook /\ f.terms = 0 /\ ~f.again /\ ~f.bared /\ f.file
      BY <2>2 DEF Script, ScriptType
  <2> QED  BY <2>1, <2>2 DEF NewOf
<1>3. f \in Frame
    BY <1>2 DEF Frame
<1>4. Sound(f)
    BY <1>1, <1>2 DEF Sound, IsScript, Once, Due, Fresh
<1>5. Joins(f)
    BY <1>2 DEF Joins
<1>6. \A g : g.kind \in {"start", "script", "label"} => On(f, g)
    BY <1>1, <1>2 DEF On, IsScript
<1> QED  BY <1>3, <1>4, <1>5, <1>6

\* The last frame of a stack is changed.
LEMMA LastSteady ==
  ASSUME NEW hs, Steady(hs), NEW f \in Frame, Sound(f), Like(f, hs[Len(hs)]),
         \A h : On(hs[Len(hs)], h) => On(f, h), Bottom(hs[Len(hs)]) => Bottom(f)
  PROVE  /\ Steady([hs EXCEPT ![Len(hs)] = f])
         /\ Len([hs EXCEPT ![Len(hs)] = f]) = Len(hs) /\ [hs EXCEPT ![Len(hs)] = f][Len(hs)] = f
<1> DEFINE n == Len(hs)
           gs == [hs EXCEPT ![n] = f]
<1>1. hs \in Seq(Frame) /\ n \in Nat /\ n > 0 /\ n \in 1 .. Len(hs) /\ Stack(hs) /\ Quiet(hs)
    BY DEF Steady, Stack, Quiet
<1>2. n = 1 => Bottom(f)
    BY <1>1 DEF Stack
<1>3. n > 1 => On(f, hs[n - 1])
  <2> SUFFICES ASSUME n > 1  PROVE On(f, hs[n - 1])
      OBVIOUS
  <2>1. n - 1 \in 1 .. Len(hs) - 1 /\ n - 1 + 1 = n
      BY <1>1
  <2>2. On(hs[n], hs[n - 1])
      BY <1>1, <2>1 DEF Stack
  <2> QED  BY <2>2
<1>4. Like(f, hs[n])
    OBVIOUS
<1>5. ~(n < Len(hs))
    BY <1>1
<1> HIDE DEF gs, n
<1>6. /\ Stack(gs) /\ Len(gs) = Len(hs) /\ gs[n] = f
      /\ \A k \in 1 .. Len(hs) : k # n => gs[k] = hs[k]
    BY <1>1, <1>2, <1>3, <1>5, ChangeFrame DEF gs
<1>7. \A k \in 1 .. Len(hs) : Like(gs[k], hs[k])
    BY <1>1, <1>4, <1>6, LikeItself
<1>8. \A k \in 1 .. Len(gs) : \/ k <= Len(frames) /\ Like(gs[k], frames[k])
                              \/ k > 1 /\ Joins(gs[k])
  <2> SUFFICES ASSUME NEW k \in 1 .. Len(hs)
               PROVE  \/ k <= Len(frames) /\ Like(gs[k], frames[k])
                      \/ k > 1 /\ Joins(gs[k])
      BY <1>6
  <2>1. Like(gs[k], hs[k])
      BY <1>7
  <2>2. CASE k <= Len(frames) /\ Like(hs[k], frames[k])
      BY <2>1, <2>2 DEF Like
  <2>3. CASE k > 1 /\ Joins(hs[k])
      BY <2>1, <2>3 DEF Like, Joins
  <2> QED  BY <1>1, <2>2, <2>3 DEF Quiet
<1>9. ASSUME NEW k \in 1 .. Len(frames), frames[k].kind = "start"
      PROVE  k <= Len(gs) /\ Like(gs[k], frames[k])
  <2>1. k <= Len(hs) /\ Like(hs[k], frames[k])
      BY <1>1, <1>9 DEF Quiet
  <2>2. k \in 1 .. Len(hs) /\ Like(gs[k], hs[k])
      BY <1>1, <1>7, <2>1
  <2> QED  BY <1>6, <2>1, <2>2 DEF Like
<1>10. Quiet(gs)
    BY <1>1, <1>6, <1>8, <1>9 DEF Quiet
<1> QED  BY <1>6, <1>10 DEF Steady, gs, n

\* The script of a RexxStart begins, or it is not found or only to be translated.
LEMMA BeginsSteady ==
  ASSUME IInv, ScriptBegins,
         ~ (Top.how = "source" /\ System # 0 /\ lost < MaxLost
            /\ frames' \in Failures(frames) /\ lost' = lost + 1)
  PROVE  Steady(frames') /\ lost' = lost
<1>1. frames # <<>> /\ Top.kind = "start"
    BY DEF ScriptBegins
<1>2. Steady(frames) /\ Top = frames[Len(frames)] /\ Top \in Frame /\ Sound(Top)
    BY <1>1, Itself, TopFacts
<1>3. Top \in StartType
    BY <1>1, <1>2, Kinds
<1>4. Top.how \in Hows /\ Top.exits \in SUBSET Codes
    BY <1>3 DEF StartType
<1>5. lost' = lost
    BY DEF ScriptBegins
<1>6. ASSUME NEW f, NewOf(f, Top.how, Top.exits), frames' = Append(frames, f)
      PROVE  Steady(frames')
  <2>1. f \in Frame /\ Sound(f) /\ Joins(f) /\ On(f, frames[Len(frames)])
      BY <1>1, <1>2, <1>4, <1>6, NewScript
  <2> QED  BY <1>2, <1>6, <2>1, PushSteady
<1>7. CASE frames' = WithTop([Top EXCEPT !.phase = "done"])
  <2>1. ASSUME NEW x \in StartType
        PROVE  /\ [x EXCEPT !.phase = "done"] \in StartType
               /\ Like([x EXCEPT !.phase = "done"], x)
               /\ [x EXCEPT !.phase = "done"].kind = "start" /\ x.kind = "start"
      BY DEF StartType, Like
  <2> DEFINE f == [Top EXCEPT !.phase = "done"]
  <2>2. f \in StartType /\ Like(f, Top) /\ f.kind = "start"
      BY <1>3, <2>1
  <2>3. frames' = WithTop(f)
      BY <1>7
  <2> HIDE DEF f
  <2>4. f \in Frame /\ Sound(f) /\ Bottom(f) /\ \A h : On(Top, h) => On(f, h)
      BY <1>1, <2>2 DEF Frame, Sound, Bottom, IsScript, On
  <2>5. Steady(WithTop(f))
    <3>1. /\ f \in Frame /\ Sound(f) /\ Like(f, Top) /\ \A h : On(Top, h) => On(f, h)
          /\ Bottom(Top) => Bottom(f)
        BY <2>2, <2>4
    <3> QED  BY <1>1, <3>1, TopSteady
  <2> QED  BY <1>5, <2>3, <2>5
<1>8. \/ \E f : NewOf(f, Top.how, Top.exits) /\ frames' = Append(frames, f)
      \/ frames' = WithTop([Top EXCEPT !.phase = "done"])
  <2>1. NewOf(Script(Top.how, Top.exits), Top.how, Top.exits)
      BY DEF NewOf
  <2>2. NewOf([Script(Top.how, Top.exits) EXCEPT !.phase = "end", !.failed = TRUE],
              Top.how, Top.exits)
      BY DEF NewOf
  <2> QED  BY <2>1, <2>2 DEF ScriptBegins, Push
<1> QED  BY <1>6, <1>7, <1>8, <1>5

\* A script goes on, with its exit at one end or the other called or not.
LEMMA ScriptLike ==
  ASSUME NEW f \in ScriptType, NEW g \in ScriptType, g.how = f.how, g.bared <=> f.bared
  PROVE  /\ g \in Frame /\ Like(g, f) /\ (Bottom(f) => Bottom(g)) /\ g.kind = "script"
         /\ \A h : On(f, h) => On(g, h)
<1>1. f.kind = "script" /\ g.kind = "script" /\ g \in Frame
    BY DEF ScriptType, Frame
<1>2. Like(g, f)
    BY <1>1 DEF Like
<1>3. Bottom(f) => Bottom(g)
    BY <1>1 DEF Bottom, IsScript
<1>4. \A h : On(f, h) => On(g, h)
    BY <1>1 DEF On, IsScript
<1> QED  BY <1>1, <1>2, <1>3, <1>4

LEMMA HookSteady ==
  ASSUME IInv, frames # <<>>, Top \in ScriptType, NEW after \in ScriptType, Sound(after),
         after.how = Top.how, after.bared <=> Top.bared
  PROVE  /\ Steady(WithTop(after))
         /\ \A code, why : (/\ exit_hook(code) /\ why \in {"init", "term"}
                            /\ why = "init" => Fresh(after))
                          => Steady(Append(WithTop(after), Native(why, Handler(code), NoOne)))
<1>1. /\ after \in Frame /\ Like(after, Top) /\ (Bottom(Top) => Bottom(after))
      /\ after.kind = "script" /\ \A h : On(Top, h) => On(after, h)
    BY ScriptLike
<1> DEFINE hs == WithTop(after)
<1>2. Steady(hs) /\ Len(hs) = Len(frames) /\ hs[Len(frames)] = after
    BY <1>1, TopSteady
<1> HIDE DEF hs
<1>3. \A code, why : (/\ exit_hook(code) /\ why \in {"init", "term"}
                      /\ why = "init" => Fresh(after))
                    => Steady(Append(hs, Native(why, Handler(code), NoOne)))
  <2> TAKE code, why
  <2> HAVE /\ exit_hook(code) /\ why \in {"init", "term"}
           /\ why = "init" => Fresh(after)
  <2>1. Handler(code) \in Lib \cup {Exe} /\ Reach(Handler(code)) /\ NoOne \in Known /\ Reach(NoOne.lib)
      BY HandlerKnown, NobodyKnown
  <2> DEFINE f == Native(why, Handler(code), NoOne)
  <2>2. why \in {"function", "funcexit", "cmdexit", "command", "io", "init", "term"}
      OBVIOUS
  <2>3. /\ f \in Frame /\ Sound(f) /\ Joins(f)
        /\ \A g : (/\ g.kind \in {"script", "label"}
                   /\ why \in {"init", "term"} => IsScript(g)
                   /\ why = "init" => Fresh(g))
                  => On(f, g)
      BY <2>1, <2>2, NativeFrame
  <2> HIDE DEF f
  <2>4. On(f, hs[Len(hs)])
      BY <1>1, <1>2, <2>3 DEF IsScript
  <2>5. Steady(Append(hs, f))
      BY <1>2, <2>3, <2>4, PushSteady
  <2> QED  BY <2>5 DEF f
<1> QED  BY <1>2, <1>3 DEF hs

LEMMA InitHookSteady ==
  ASSUME IInv, InitHook
  PROVE  Steady(frames')
<1>1. frames # <<>> /\ Top.kind = "script" /\ Top.phase = "init"
    BY DEF InitHook, InPhase
<1>2. Top \in ScriptType /\ Sound(Top)
    BY <1>1, TopFacts, Kinds
<1>3. Fresh(Top) /\ (Top.bared => Top.how = "main") /\ Top.how # "main"
    BY <1>1, <1>2 DEF Sound, IsScript
<1>4. ASSUME NEW x \in ScriptType, Sound(x), x.phase = "init"
      PROVE  /\ Begun(x) \in ScriptType /\ Sound(Begun(x)) /\ Begun(x).how = x.how
             /\ Begun(x).bared <=> x.bared
             /\ Beginning(x) \in ScriptType /\ Sound(Beginning(x)) /\ Beginning(x).how = x.how
             /\ Beginning(x).bared <=> x.bared
             /\ Fresh(Beginning(x))
  <2>1. /\ Begun(x) \in ScriptType /\ Begun(x).how = x.how /\ Begun(x).terms = x.terms
        /\ Begun(x).kind = "script" /\ x.kind = "script"
        /\ Begun(x).bared <=> x.bared
        /\ Begun(x).file <=> x.file
        /\ Begun(x).again <=> x.again
        /\ Begun(x).begun /\ Begun(x).doTermHook /\ Begun(x).phase = "run"
      BY DEF ScriptType, Begun
  <2>2. /\ Beginning(x) \in ScriptType /\ Beginning(x).how = x.how /\ Beginning(x).terms = x.terms
        /\ Beginning(x).kind = "script"
        /\ Beginning(x).bared <=> x.bared
        /\ Beginning(x).file <=> x.file
        /\ Beginning(x).again <=> x.again
        /\ Beginning(x).begun <=> x.begun
        /\ Beginning(x).doTermHook <=> x.doTermHook
        /\ Beginning(x).phase = "run"
      BY DEF ScriptType, Beginning
  <2>3. Fresh(x)
      BY <1>4, <2>1 DEF Sound, IsScript
  <2>4. Sound(Begun(x))
      BY <1>4, <2>1, <2>3 DEF Sound, IsScript, Once, Due, Fresh
  <2>5. Fresh(Beginning(x))
      BY <2>2, <2>3 DEF Fresh
  <2>6. Sound(Beginning(x))
      BY <1>4, <2>1, <2>2, <2>3, <2>5 DEF Sound, IsScript, Once, Due, Fresh
  <2> QED  BY <2>1, <2>2, <2>4, <2>5, <2>6
<1>5. CASE frames' = WithTop(Begun(Top))
    BY <1>1, <1>2, <1>4, <1>5, HookSteady
<1>6. CASE exit_hook("RXINI")
           /\ frames' = Append(WithTop(Beginning(Top)), Native("init", Handler("RXINI"), NoOne))
  <2> DEFINE g == Beginning(Top)
  <2>1. g \in ScriptType /\ Sound(g) /\ g.how = Top.how /\ (g.bared <=> Top.bared) /\ Fresh(g)
      BY <1>1, <1>2, <1>4
  <2> HIDE DEF g
  <2>2. \A code, why : (/\ exit_hook(code) /\ why \in {"init", "term"}
                        /\ why = "init" => Fresh(g))
                     => Steady(Append(WithTop(g), Native(why, Handler(code), NoOne)))
      BY <1>1, <1>2, <2>1, HookSteady
  <2>3. Steady(Append(WithTop(g), Native("init", Handler("RXINI"), NoOne)))
      BY <1>6, <2>1, <2>2
  <2> QED  BY <1>6, <2>3 DEF g
<1> QED  BY <1>5, <1>6 DEF InitHook

LEMMA TermHookSteady ==
  ASSUME IInv, TermHook
  PROVE  Steady(frames')
<1>1. frames # <<>> /\ Top.kind = "script" /\ Top.phase = "end" /\ Top.how # "main"
    BY DEF TermHook, InPhase, OfMain, Top
<1>2. Top \in ScriptType /\ Sound(Top)
    BY <1>1, TopFacts, Kinds
<1> DEFINE Called(x) == [x EXCEPT !.doTermHook = FALSE, !.terms = @ + 1,
                                  !.phase = IF x.how = "external" THEN "end2" ELSE "gone"]
           NotCalled(x) == [x EXCEPT !.phase = IF x.how = "external" THEN "end2" ELSE "gone"]
<1> DEFINE Change(x, t, p) == [x EXCEPT !.doTermHook = FALSE, !.terms = t, !.phase = p]
<1>3. ASSUME NEW x \in ScriptType, NEW t \in Nat, NEW p \in {"end2", "gone"}
      PROVE  /\ Change(x, t, p) \in ScriptType /\ Change(x, t, p).how = x.how
             /\ Change(x, t, p).terms = t
             /\ Change(x, t, p).kind = "script" /\ x.kind = "script"
             /\ Change(x, t, p).bared <=> x.bared
             /\ Change(x, t, p).file <=> x.file
             /\ Change(x, t, p).again <=> x.again
             /\ Change(x, t, p).begun <=> x.begun
             /\ ~Change(x, t, p).doTermHook /\ Change(x, t, p).phase = p
    BY DEF ScriptType
<1>4. ASSUME NEW x \in ScriptType, Sound(x), x.phase = "end", x.how # "main"
      PROVE  /\ x.doTermHook => /\ Called(x) \in ScriptType /\ Sound(Called(x))
                                /\ Called(x).how = x.how /\ (Called(x).bared <=> x.bared)
             /\ ~x.doTermHook => /\ NotCalled(x) \in ScriptType /\ Sound(NotCalled(x))
                                 /\ NotCalled(x).how = x.how /\ (NotCalled(x).bared <=> x.bared)
  <2>1. /\ Called(x) \in ScriptType /\ Called(x).how = x.how /\ Called(x).terms = x.terms + 1
        /\ Called(x).kind = "script" /\ x.kind = "script" /\ x.terms \in Nat
        /\ (Called(x).bared <=> x.bared)
        /\ Called(x).file <=> x.file
        /\ Called(x).again <=> x.again
        /\ Called(x).begun <=> x.begun
        /\ ~Called(x).doTermHook
        /\ Called(x).phase = IF x.how = "external" THEN "end2" ELSE "gone"
    <3> DEFINE p == IF x.how = "external" THEN "end2" ELSE "gone"
    <3>1. x.terms \in Nat /\ x.terms + 1 \in Nat /\ p \in {"end2", "gone"}
        BY DEF ScriptType
    <3>2. Called(x) = Change(x, x.terms + 1, p)
        OBVIOUS
    <3> HIDE DEF p, Called, Change
    <3>3. ASSUME NEW t \in Nat, t = x.terms + 1, NEW q \in {"end2", "gone"}, q = p
          PROVE  /\ Called(x) \in ScriptType /\ Called(x).how = x.how /\ Called(x).terms = t
                 /\ Called(x).kind = "script" /\ x.kind = "script"
                 /\ Called(x).bared <=> x.bared
                 /\ Called(x).file <=> x.file
                 /\ Called(x).again <=> x.again
                 /\ Called(x).begun <=> x.begun
                 /\ ~Called(x).doTermHook /\ Called(x).phase = q
      <4>1. Called(x) = Change(x, t, q)
          BY <3>2, <3>3
      <4> QED  BY <1>3, <4>1
    <3> QED  BY <3>1, <3>3 DEF p
  <2>2. /\ NotCalled(x) \in ScriptType /\ NotCalled(x).how = x.how /\ NotCalled(x).terms = x.terms
        /\ NotCalled(x).kind = "script"
        /\ (NotCalled(x).bared <=> x.bared)
        /\ NotCalled(x).file <=> x.file
        /\ NotCalled(x).again <=> x.again
        /\ NotCalled(x).begun <=> x.begun
        /\ NotCalled(x).doTermHook <=> x.doTermHook
        /\ NotCalled(x).phase = IF x.how = "external" THEN "end2" ELSE "gone"
      BY DEF ScriptType
  <2> HIDE DEF Called, NotCalled
  <2>3. x.doTermHook => Sound(Called(x))
      BY <1>4, <2>1 DEF Sound, IsScript, Once, Due, Fresh
  <2>4. ~x.doTermHook => Sound(NotCalled(x))
      BY <1>4, <2>1, <2>2 DEF Sound, IsScript, Once, Due, Fresh
  <2> QED  BY <2>1, <2>2, <2>3, <2>4
<1>5. CASE Top.doTermHook
  <2> DEFINE g == Called(Top)
  <2>1. g \in ScriptType /\ Sound(g) /\ g.how = Top.how /\ (g.bared <=> Top.bared)
      BY <1>1, <1>2, <1>4, <1>5
  <2>2. \/ frames' = WithTop(g)
        \/ exit_hook("RXTER") /\ frames' = Append(WithTop(g), Native("term", Handler("RXTER"), NoOne))
      BY <1>5 DEF TermHook, Calls, Tried, Behind
  <2> HIDE DEF g
  <2>3. /\ Steady(WithTop(g))
        /\ \A code, why : (/\ exit_hook(code) /\ why \in {"init", "term"}
                           /\ why = "init" => Fresh(g))
                          => Steady(Append(WithTop(g), Native(why, Handler(code), NoOne)))
      BY <1>1, <1>2, <2>1, HookSteady
  <2> QED  BY <2>2, <2>3
<1>6. CASE ~Top.doTermHook
  <2> DEFINE g == NotCalled(Top)
  <2>1. g \in ScriptType /\ Sound(g) /\ g.how = Top.how /\ (g.bared <=> Top.bared)
      BY <1>1, <1>2, <1>4, <1>6
  <2>2. frames' = WithTop(g)
      BY <1>6 DEF TermHook, Behind
  <2> HIDE DEF g
  <2> QED  BY <1>1, <1>2, <2>1, <2>2, HookSteady
<1> QED  BY <1>5, <1>6

LEMMA TermHookAgainSteady ==
  ASSUME IInv, TermHookAgain
  PROVE  Steady(frames')
<1>1. frames # <<>> /\ Top.kind = "script" /\ Top.phase = "end2"
    BY DEF TermHookAgain, InPhase
<1>2. Top \in ScriptType /\ Sound(Top)
    BY <1>1, TopFacts, Kinds
<1> DEFINE Called(x) == [x EXCEPT !.phase = "gone", !.again = TRUE]
           g == Called(Top)
<1>4. ASSUME NEW x \in ScriptType, Sound(x), x.phase = "end2"
      PROVE  /\ Called(x) \in ScriptType /\ Sound(Called(x))
             /\ Called(x).how = x.how /\ (Called(x).bared <=> x.bared)
  <2>1. /\ Called(x) \in ScriptType /\ Called(x).how = x.how /\ Called(x).terms = x.terms
        /\ Called(x).kind = "script" /\ x.kind = "script"
        /\ (Called(x).bared <=> x.bared)
        /\ Called(x).file <=> x.file
        /\ Called(x).begun <=> x.begun
        /\ Called(x).doTermHook <=> x.doTermHook
        /\ Called(x).again /\ Called(x).phase = "gone"
      BY DEF ScriptType
  <2> HIDE DEF Called
  <2>2. Sound(Called(x))
      BY <1>4, <2>1 DEF Sound, IsScript, Once, Due, Fresh
  <2> QED  BY <2>1, <2>2
<1>5. g \in ScriptType /\ Sound(g) /\ g.how = Top.how /\ (g.bared <=> Top.bared)
    BY <1>1, <1>2, <1>4
<1>6. \/ frames' = WithTop(g)
      \/ exit_hook("RXTER") /\ frames' = Append(WithTop(g), Native("term", Handler("RXTER"), NoOne))
    BY DEF TermHookAgain, Calls
<1> HIDE DEF g
<1>7. /\ Steady(WithTop(g))
      /\ \A code, why : (/\ exit_hook(code) /\ why \in {"init", "term"}
                         /\ why = "init" => Fresh(g))
                        => Steady(Append(WithTop(g), Native(why, Handler(code), NoOne)))
    BY <1>1, <1>2, <1>5, HookSteady
<1> QED  BY <1>6, <1>7

LEMMA ScriptEndsSteady ==
  ASSUME IInv, ScriptEnds
  PROVE  Steady(frames')
<1>1. frames # <<>> /\ Top.kind = "script" /\ Top.phase = "gone"
    BY DEF ScriptEnds, InPhase
<1>2. Top \in ScriptType /\ Sound(Top)
    BY <1>1, TopFacts, Kinds
<1>3. ~Bottom(Top)
    BY <1>1, <1>2 DEF Sound, IsScript, Bottom
<1>4. Steady(Below) /\ Len(Below) > 0
    BY <1>1, <1>3, BelowSteady
<1> DEFINE m == Len(Below)
           caller == Below[m]
<1>5. m \in Nat /\ caller \in Frame
    BY <1>4 DEF Steady, Stack
<1>6. CASE caller.kind = "start" /\ frames' = [Below EXCEPT ![Len(Below)].phase = "done"]
  <2>1. caller \in StartType
      BY <1>5, <1>6, Kinds
  <2>2. ASSUME NEW x \in StartType
        PROVE  /\ [x EXCEPT !.phase = "done"] \in StartType
               /\ Like([x EXCEPT !.phase = "done"], x)
               /\ [x EXCEPT !.phase = "done"].kind = "start" /\ x.kind = "start"
      BY DEF StartType, Like
  <2> DEFINE f == [caller EXCEPT !.phase = "done"]
  <2>3. f \in StartType /\ Like(f, caller) /\ f.kind = "start"
      BY <2>1, <2>2
  <2>4. frames' = [Below EXCEPT ![m] = f]
      BY <1>6
  <2> HIDE DEF f
  <2>5. f \in Frame /\ Sound(f) /\ Bottom(f) /\ \A h : On(caller, h) => On(f, h)
      BY <1>6, <2>3 DEF Frame, Sound, Bottom, IsScript, On
  <2>6. Steady([Below EXCEPT ![m] = f])
      BY <1>4, <2>3, <2>5, LastSteady
  <2> QED  BY <2>4, <2>6
<1>7. CASE frames' = Below
    BY <1>4, <1>7
<1>8. CASE caller.kind # "start" /\ frames' \in Failures(Below)
    BY <1>4, <1>8, FailSteady
<1> QED  BY <1>6, <1>7, <1>8 DEF ScriptEnds

\* What runs is a script, or a routine of it that was called back.
LEMMA RexxRuns ==
  ASSUME IInv, InRexx
  PROVE  /\ frames # <<>> /\ Top.kind \in {"label", "script"} /\ Steady(frames)
         /\ Top = frames[Len(frames)] /\ Top \in Frame /\ Sound(Top)
         /\ System \in 1 .. Len(frames) /\ frames[System] \in ScriptType
         /\ \A k \in 1 .. Len(frames) : k > System => frames[k].kind \notin {"script", "start"}
<1>1. frames # <<>> /\ Top.kind \in {"label", "script"}
    BY DEF InRexx, InPhase
<1>2. Steady(frames) /\ Top = frames[Len(frames)] /\ Top \in Frame /\ Sound(Top)
    BY <1>1, Itself, TopFacts
<1>3. Stack(frames) /\ Len(frames) > 0 /\ frames[Len(frames)].kind # "start"
    BY <1>1, <1>2 DEF Steady, Quiet
<1>4. /\ Sys(frames) \in 1 .. Len(frames) /\ frames[Sys(frames)] \in ScriptType
      /\ \A k \in 1 .. Len(frames) : k > Sys(frames) => frames[k].kind \notin {"script", "start"}
    BY <1>3, SysThere
<1> QED  BY <1>1, <1>2, <1>4, TheSystem

\* A function, a handler of commands or an exit is called.
LEMMA CallsNative ==
  ASSUME NEW hs, Steady(hs), hs[Len(hs)].kind \in {"label", "script"},
         NEW why \in {"function", "funcexit", "cmdexit", "command", "io"},
         NEW b \in Lib \cup {Exe}, Reach(b), NEW e \in Known, Reach(e.lib)
  PROVE  Steady(Append(hs, Native(why, b, e)))
<1> DEFINE f == Native(why, b, e)
<1>1. why \in {"function", "funcexit", "cmdexit", "command", "io", "init", "term"}
      /\ why \notin {"init", "term"}
    OBVIOUS
<1>2. /\ f \in Frame /\ Sound(f) /\ Joins(f)
      /\ \A g : (/\ g.kind \in {"script", "label"}
                 /\ why \in {"init", "term"} => IsScript(g)
                 /\ why = "init" => Fresh(g))
                => On(f, g)
    BY <1>1, NativeFrame
<1> HIDE DEF f
<1>3. On(f, hs[Len(hs)])
    BY <1>1, <1>2
<1>4. Steady(Append(hs, f))
    BY <1>2, <1>3, PushSteady
<1> QED  BY <1>4 DEF f

LEMMA CallFunctionSteady ==
  ASSUME IInv, CallFunction
  PROVE  Steady(frames')
<1>1. InRexx
    BY DEF CallFunction
<1>2. frames # <<>> /\ Top.kind \in {"label", "script"}
    BY <1>1, RexxRuns
<1> DEFINE hs == MakeParams(frames)
           k == find_first_entry_point(libs, "FUNCS", "f")
           e == libs.entries["FUNCS"][k]
<1>3. Steady(hs) /\ hs[Len(hs)].kind \in {"label", "script"}
    BY <1>2, ParamsSteady
<1>4. k # None => e \in Known /\ e.lib \in Lib \cup {Exe} /\ Reach(e.lib)
    BY KnownReach DEF Slots
<1>5. \/ /\ exit_hook("RXFNC")
         /\ frames' = Append(hs, Native("funcexit", Handler("RXFNC"), IF k = None THEN NoOne ELSE e))
      \/ k # None /\ frames' = Append(hs, Native("function", e.lib, NoOne))
    BY DEF CallFunction
<1> HIDE DEF hs, k, e
<1>6. CASE /\ exit_hook("RXFNC")
           /\ frames' = Append(hs, Native("funcexit", Handler("RXFNC"), IF k = None THEN NoOne ELSE e))
  <2> DEFINE known == IF k = None THEN NoOne ELSE e
  <2>1. known \in Known /\ Reach(known.lib)
      BY <1>4, NobodyKnown
  <2>2. Handler("RXFNC") \in Lib \cup {Exe} /\ Reach(Handler("RXFNC"))
      BY <1>6, HandlerKnown
  <2> HIDE DEF known
  <2>3. Steady(Append(hs, Native("funcexit", Handler("RXFNC"), known)))
      BY <1>3, <2>1, <2>2, CallsNative
  <2> QED  BY <1>6, <2>3 DEF known
<1>7. CASE k # None /\ frames' = Append(hs, Native("function", e.lib, NoOne))
  <2>1. e.lib \in Lib \cup {Exe} /\ Reach(e.lib) /\ NoOne \in Known /\ Reach(NoOne.lib)
      BY <1>4, <1>7, NobodyKnown
  <2>2. Steady(Append(hs, Native("function", e.lib, NoOne)))
      BY <1>3, <2>1, CallsNative
  <2> QED  BY <1>7, <2>2
<1> QED  BY <1>5, <1>6, <1>7

LEMMA CommandSteady ==
  ASSUME IInv, Command
  PROVE  Steady(frames')
<1>1. InRexx
    BY DEF Command
<1>2. /\ Steady(frames) /\ frames[Len(frames)].kind \in {"label", "script"}
    BY <1>1, RexxRuns
<1>3. PICK name \in EnvNames :
        LET k == find_first_entry_point(libs, "SUBCOMS", name)
            known == IF k = None THEN NoOne ELSE libs.entries["SUBCOMS"][k]
        IN  IF exit_hook("RXCMD")
            THEN frames' = Push(Native("cmdexit", Handler("RXCMD"), known))
            ELSE k # None /\ frames' = Push(Native("command", known.lib, NoOne))
    BY DEF Command
<1> DEFINE k == find_first_entry_point(libs, "SUBCOMS", name)
           e == libs.entries["SUBCOMS"][k]
<1>4. k # None => e \in Known /\ e.lib \in Lib \cup {Exe} /\ Reach(e.lib)
    BY KnownReach DEF Slots
<1>5. \/ /\ exit_hook("RXCMD")
         /\ frames' = Append(frames, Native("cmdexit", Handler("RXCMD"), IF k = None THEN NoOne ELSE e))
      \/ k # None /\ frames' = Append(frames, Native("command", e.lib, NoOne))
    BY <1>3 DEF Push
<1> HIDE DEF k, e
<1>6. CASE /\ exit_hook("RXCMD")
           /\ frames' = Append(frames, Native("cmdexit", Handler("RXCMD"), IF k = None THEN NoOne ELSE e))
  <2> DEFINE known == IF k = None THEN NoOne ELSE e
  <2>1. known \in Known /\ Reach(known.lib)
      BY <1>4, NobodyKnown
  <2>2. Handler("RXCMD") \in Lib \cup {Exe} /\ Reach(Handler("RXCMD"))
      BY <1>6, HandlerKnown
  <2> HIDE DEF known
  <2>3. Steady(Append(frames, Native("cmdexit", Handler("RXCMD"), known)))
      BY <1>2, <2>1, <2>2, CallsNative
  <2> QED  BY <1>6, <2>3 DEF known
<1>7. CASE k # None /\ frames' = Append(frames, Native("command", e.lib, NoOne))
  <2>1. e.lib \in Lib \cup {Exe} /\ Reach(e.lib) /\ NoOne \in Known /\ Reach(NoOne.lib)
      BY <1>4, <1>7, NobodyKnown
  <2>2. Steady(Append(frames, Native("command", e.lib, NoOne)))
      BY <1>2, <2>1, CallsNative
  <2> QED  BY <1>7, <2>2
<1> QED  BY <1>5, <1>6, <1>7

LEMMA InOutSteady ==
  ASSUME IInv, InOut
  PROVE  Steady(frames')
<1>1. InRexx /\ exit_hook("RXSIO") /\ frames' = Append(frames, Native("io", Handler("RXSIO"), NoOne))
    BY DEF InOut, Push
<1>2. /\ Steady(frames) /\ frames[Len(frames)].kind \in {"label", "script"}
    BY <1>1, RexxRuns
<1>3. /\ Handler("RXSIO") \in Lib \cup {Exe} /\ Reach(Handler("RXSIO"))
      /\ NoOne \in Known /\ Reach(NoOne.lib)
    BY <1>1, HandlerKnown, NobodyKnown
<1>4. Steady(Append(frames, Native("io", Handler("RXSIO"), NoOne)))
    BY <1>2, <1>3, CallsNative
<1> QED  BY <1>1, <1>4

LEMMA RoutineSteady ==
  ASSUME IInv, Routine
  PROVE  Steady(frames')
<1>1. InRexx
    BY DEF Routine
<1>2. /\ Steady(frames) /\ frames[Len(frames)].kind \in {"label", "script"}
      /\ frames[System] \in ScriptType
    BY <1>1, RexxRuns
<1>3. frames[System].hooks \in SUBSET Codes
    BY <1>2 DEF ScriptType
<1>4. PICK f : NewOf(f, "external", frames[System].hooks) /\ frames' = Append(frames, f)
    BY DEF Routine, NewOf, Push
<1>5. /\ f \in Frame /\ Sound(f) /\ Joins(f)
      /\ \A g : g.kind \in {"start", "script", "label"} => On(f, g)
  <2>1. ASSUME NEW how \in Hows \cup {"external"}, how = "external",
               NEW hooks \in SUBSET Codes, hooks = frames[System].hooks
        PROVE  /\ f \in Frame /\ Sound(f) /\ Joins(f)
               /\ \A g : g.kind \in {"start", "script", "label"} => On(f, g)
    <3>1. NewOf(f, how, hooks)
        BY <1>4, <2>1
    <3> QED  BY <3>1, NewScript
  <2> QED  BY <1>3, <2>1
<1>6. On(f, frames[Len(frames)])
    BY <1>2, <1>5
<1>7. Steady(Append(frames, f))
    BY <1>2, <1>5, <1>6, PushSteady
<1> QED  BY <1>4, <1>7

LEMMA ScriptFailsSteady ==
  ASSUME IInv, ScriptFails
  PROVE  Steady(frames')
<1>1. InRexx /\ frames' \in Failures(frames)
    BY DEF ScriptFails
<1>2. Steady(frames) /\ frames[Len(frames)].kind # "start"
    BY <1>1, RexxRuns
<1> QED  BY <1>1, <1>2, FailSteady

LEMMA ScriptFinishesSteady ==
  ASSUME IInv, ScriptFinishes
  PROVE  Steady(frames')
<1>1. InRexx
    BY DEF ScriptFinishes
<1>2. /\ frames # <<>> /\ Steady(frames) /\ System \in 1 .. Len(frames)
      /\ frames[System] \in ScriptType
      /\ \A k \in 1 .. Len(frames) : k > System => frames[k].kind # "start"
    BY <1>1, RexxRuns
<1>3. CASE Top.kind = "label" /\ frames' = Below
  <2>1. ~Bottom(Top)
      BY <1>3 DEF Bottom, IsScript
  <2> QED  BY <1>2, <1>3, <2>1, BelowSteady
<1>4. CASE frames' = Append(SubSeq(frames, 1, System - 1), [frames[System] EXCEPT !.phase = "end"])
  <2> DEFINE f == [frames[System] EXCEPT !.phase = "end"]
             i == System
             gs == Append(SubSeq(frames, 1, i - 1), f)
  <2>1. EndOf(f, frames[i])
      BY DEF EndOf
  <2> HIDE DEF f, i
  <2>2. Stack(frames) /\ i \in 1 .. Len(frames) /\ frames[i] \in ScriptType
        /\ \A k \in 1 .. Len(frames) : k > i => frames[k].kind # "start"
      BY <1>2 DEF i, IInv
  <2>3. Stack(gs) /\ Left(gs, frames)
      BY <2>1, <2>2, EndSystem
  <2>4. frames' = gs
      BY <1>4 DEF f, i
  <2> HIDE DEF gs
  <2> QED  BY <1>2, <2>3, <2>4, LeftOfSteady
<1> QED  BY <1>3, <1>4 DEF ScriptFinishes

\* A call that an exit has left to others is made in its place.
LEMMA SwapSteady ==
  ASSUME IInv, frames # <<>>, Top.kind = "native", NEW f \in Frame, Sound(f), Joins(f),
         \A h : On(Top, h) => On(f, h)
  PROVE  Steady(WithTop(f))
<1> DEFINE n == Len(frames)
           gs == [frames EXCEPT ![n] = f]
<1>1. frames \in Seq(Frame) /\ n \in Nat /\ n > 0 /\ n \in 1 .. Len(frames) /\ Top = frames[n]
      /\ Stack(frames)
    BY TopFacts DEF IInv
<1>2. n > 1
  <2>1. ~Bottom(Top)
      BY DEF Bottom, IsScript
  <2> QED  BY <1>1, <2>1 DEF Stack
<1>3. On(f, frames[n - 1])
  <2>1. n - 1 \in 1 .. Len(frames) - 1 /\ n - 1 + 1 = n
      BY <1>1, <1>2
  <2>2. On(frames[n], frames[n - 1])
      BY <1>1, <2>1 DEF Stack
  <2> QED  BY <1>1, <2>2
<1>4. gs = WithTop(f)
    BY DEF WithTop
<1>5. ~(n < Len(frames)) /\ n # 1
    BY <1>1, <1>2
<1> HIDE DEF gs, n
<1>6. /\ Stack(gs) /\ Len(gs) = Len(frames) /\ gs[n] = f
      /\ \A k \in 1 .. Len(frames) : k # n => gs[k] = frames[k]
    BY <1>1, <1>3, <1>5, ChangeFrame DEF gs
<1>7. Quiet(gs)
    BY <1>1, <1>2, <1>6, LikeItself DEF Quiet
<1> QED  BY <1>4, <1>6, <1>7 DEF Steady

\* The frame of code of a library is above a script or a routine of it.
LEMMA NativeTop ==
  ASSUME IInv, frames # <<>>, Top.kind = "native"
  PROVE  /\ Top \in NativeType /\ Top.lib \in Lib \cup {Exe} /\ Top.then \in Known
         /\ Top.then.lib \in Lib \cup {Exe} /\ Reach(Top.lib) /\ Reach(Top.then.lib)
         /\ Steady(Below) /\ Len(Below) > 0 /\ Below[Len(Below)].kind \in {"script", "label"}
         /\ On(Top, Below[Len(Below)]) /\ Steady(frames) /\ Top = frames[Len(frames)]
<1>1. Steady(frames) /\ Top = frames[Len(frames)] /\ Top \in Frame /\ Len(frames) \in 1 .. Len(frames)
    BY Itself, TopFacts
<1>2. Top \in NativeType
    BY <1>1, Kinds
<1>3. Top.lib \in Lib \cup {Exe} /\ Top.then \in Known /\ Top.then.lib \in Lib \cup {Exe}
    BY <1>2 DEF NativeType, Known
<1>4. Reach(Top.lib) /\ Reach(Top.then.lib)
    BY <1>1 DEF Reach
<1>5. ~Bottom(Top)
    BY DEF Bottom, IsScript
<1>6. Steady(Below) /\ Len(Below) > 0 /\ On(Top, Below[Len(Below)])
    BY <1>5, BelowSteady
<1>7. Below[Len(Below)].kind \in {"script", "label"}
    BY <1>6 DEF On
<1> QED  BY <1>1, <1>2, <1>3, <1>4, <1>6, <1>7

LEMMA ReturnFunctionSteady ==
  ASSUME IInv, ReturnFunction
  PROVE  Steady(frames')
<1>1. frames # <<>> /\ Top.kind = "native" /\ frames' = Below
    BY DEF ReturnFunction, After
<1> QED  BY <1>1, NativeTop

LEMMA ReturnExitSteady ==
  ASSUME IInv, ReturnExit
  PROVE  Steady(frames')
<1>1. frames # <<>> /\ Top.kind = "native"
    BY DEF ReturnExit
<1>2. /\ Top \in NativeType /\ Top.then.lib \in Lib \cup {Exe} /\ Reach(Top.then.lib)
      /\ Steady(Below) /\ Len(Below) > 0 /\ Below[Len(Below)].kind \in {"script", "label"}
      /\ On(Top, Below[Len(Below)]) /\ NoOne \in Known /\ Reach(NoOne.lib)
    BY <1>1, NativeTop, NobodyKnown
<1>3. CASE /\ Top.why = "funcexit"
           /\ frames' = WithTop([Top EXCEPT !.why = "function", !.lib = Top.then.lib, !.then = NoOne])
  <2> DEFINE Left1(x, b, e) == [x EXCEPT !.why = "function", !.lib = b, !.then = e]
             f == Left1(Top, Top.then.lib, NoOne)
  <2>1. ASSUME NEW x \in NativeType, NEW b \in Lib \cup {Exe}, NEW e \in Known
        PROVE  /\ Left1(x, b, e) \in NativeType /\ Left1(x, b, e).kind = "native" /\ x.kind = "native"
               /\ Left1(x, b, e).lib = b /\ Left1(x, b, e).then = e
               /\ Left1(x, b, e).why = "function"
      BY DEF NativeType
  <2>2. frames' = WithTop(f)
      BY <1>3
  <2> HIDE DEF Left1
  <2>3. /\ f \in NativeType /\ f.kind = "native" /\ f.lib = Top.then.lib /\ f.then = NoOne
        /\ f.why = "function"
      BY <1>2, <2>1
  <2> HIDE DEF f
  <2>4. f \in Frame /\ Sound(f) /\ Joins(f)
      BY <1>2, <2>3 DEF Frame, Sound, IsScript, Joins
  <2>5. \A h : On(Top, h) => On(f, h)
      BY <1>1, <2>3 DEF On, IsScript
  <2>6. Steady(WithTop(f))
      BY <1>1, <2>4, <2>5, SwapSteady
  <2> QED  BY <2>2, <2>6
<1>4. CASE frames' = WithTop(Native("command", Top.then.lib, NoOne))
  <2> DEFINE f == Native("command", Top.then.lib, NoOne)
  <2>1. /\ f \in Frame /\ Sound(f) /\ Joins(f)
        /\ \A g : (/\ g.kind \in {"script", "label"}
                   /\ "command" \in {"init", "term"} => IsScript(g)
                   /\ "command" = "init" => Fresh(g))
                  => On(f, g)
    <3>1. "command" \in {"function", "funcexit", "cmdexit", "command", "io", "init", "term"}
        OBVIOUS
    <3> QED  BY <1>2, <3>1, NativeFrame
  <2>2. frames' = WithTop(f)
      BY <1>4
  <2> HIDE DEF f
  <2>3. \A h : On(Top, h) => On(f, h)
    <3>1. \A h : On(Top, h) => h.kind \in {"script", "label"}
        BY <1>1 DEF On
    <3> QED  BY <2>1, <3>1
  <2>4. Steady(WithTop(f))
      BY <1>1, <2>1, <2>3, SwapSteady
  <2> QED  BY <2>2, <2>4
<1>5. CASE frames' = Below
    BY <1>2, <1>5
<1>6. CASE Top.why = "init" /\ frames' = [Below EXCEPT ![Len(Below)] = Begun(@)]
  <2> DEFINE x == Below[Len(Below)]
             f == Begun(x)
  <2>1. x.kind = "script" /\ Fresh(x) /\ x \in Frame /\ Sound(x)
    <3>1. x.kind = "script" /\ Fresh(x)
        BY <1>1, <1>2, <1>6 DEF On, IsScript
    <3>2. x \in Frame /\ Sound(x)
        BY <1>2 DEF Steady, Stack
    <3> QED  BY <3>1, <3>2
  <2>2. x \in ScriptType
      BY <2>1, Kinds
  <2>3. ASSUME NEW y \in ScriptType, Sound(y), Fresh(y)
        PROVE  /\ Begun(y) \in ScriptType /\ Sound(Begun(y)) /\ Begun(y).how = y.how
               /\ Begun(y).bared <=> y.bared
    <3>1. /\ Begun(y) \in ScriptType /\ Begun(y).how = y.how /\ Begun(y).terms = y.terms
          /\ Begun(y).kind = "script" /\ y.kind = "script"
          /\ Begun(y).bared <=> y.bared
          /\ Begun(y).file <=> y.file
          /\ Begun(y).again <=> y.again
          /\ Begun(y).begun /\ Begun(y).doTermHook /\ Begun(y).phase = "run"
        BY DEF ScriptType, Begun
    <3>2. Sound(Begun(y))
        BY <2>3, <3>1 DEF Sound, IsScript, Once, Due, Fresh
    <3> QED  BY <3>1, <3>2
  <2>4. f \in ScriptType /\ Sound(f) /\ f.how = x.how /\ (f.bared <=> x.bared)
      BY <2>1, <2>2, <2>3
  <2>5. frames' = [Below EXCEPT ![Len(Below)] = f]
      BY <1>6
  <2> HIDE DEF f
  <2>6. /\ f \in Frame /\ Like(f, x) /\ (Bottom(x) => Bottom(f)) /\ \A h : On(x, h) => On(f, h)
      BY <2>2, <2>4, ScriptLike
  <2>7. Steady([Below EXCEPT ![Len(Below)] = f])
      BY <1>2, <2>4, <2>6, LastSteady
  <2> QED  BY <2>5, <2>7
<1> QED  BY <1>3, <1>4, <1>5, <1>6 DEF ReturnExit

LEMMA ReturnErrorSteady ==
  ASSUME IInv, ReturnError
  PROVE  Steady(frames')
<1>1. frames # <<>> /\ Top.kind = "native"
    BY DEF ReturnError
<1>2. /\ Steady(Below) /\ Len(Below) > 0 /\ On(Top, Below[Len(Below)])
      /\ Steady(frames) /\ Top = frames[Len(frames)]
    BY <1>1, NativeTop
<1>3. CASE /\ Top.why \in {"init", "term"}
           /\ frames' = [Below EXCEPT ![Len(Below)].phase = "end", ![Len(Below)].failed = TRUE]
  <2> DEFINE x == Below[Len(Below)]
             f == [x EXCEPT !.phase = "end", !.failed = TRUE]
  <2>1. x \in Frame /\ Sound(x) /\ x.kind = "script"
    <3>1. x.kind = "script"
        BY <1>1, <1>2, <1>3 DEF On, IsScript
    <3>2. x \in Frame /\ Sound(x)
        BY <1>2 DEF Steady, Stack
    <3> QED  BY <3>1, <3>2
  <2>2. x \in ScriptType
      BY <2>1, Kinds
  <2>3. Below \in Seq(Frame) /\ Len(Below) \in 1 .. Len(Below)
      BY <1>2 DEF Steady, Stack
  <2>4. frames' = [Below EXCEPT ![Len(Below)] = f]
      BY <1>3, <2>3
  <2>5. EndOf(f, x)
      BY DEF EndOf
  <2> HIDE DEF f
  <2>6. /\ f \in Frame /\ Sound(f) /\ Like(f, x) /\ (Bottom(x) => Bottom(f))
        /\ \A h : On(x, h) => On(f, h)
      BY <2>1, <2>2, <2>5, EndLike
  <2>7. Steady([Below EXCEPT ![Len(Below)] = f])
      BY <1>2, <2>6, LastSteady
  <2> QED  BY <2>4, <2>7
<1>4. CASE frames' \in Failures(frames)
  <2>1. frames[Len(frames)].kind # "start"
      BY <1>1, <1>2
  <2> QED  BY <1>2, <1>4, <2>1, FailSteady
<1> QED  BY <1>3, <1>4 DEF ReturnError

-----------------------------------------------------------------------------
(* A RexxStart begins and ends.                                            *)

\* The exits that are chosen are those of one library that has an entry.
LEMMA ChosenHooks ==
  ASSUME IInv, NEW x \in ExitLists
  PROVE  /\ Chosen(x) \in Hooks /\ DOMAIN Chosen(x) \in SUBSET Codes
         /\ \A c \in DOMAIN Chosen(x) : \E k \in 1 .. Len(libs.entries["EXITS"]) :
               libs.entries["EXITS"][k].lib = Chosen(x)[c]
<1> DEFINE k == find_first_entry_point(libs, "EXITS", "x")
           h == Chosen(x)
<1>1. x \in SUBSET Codes /\ {} \in SUBSET Codes
    BY ApiAssumption DEF ApiAssumption, Codes
<1>2. h = IF k = None THEN <<>> ELSE [c \in x |-> libs.entries["EXITS"][k].lib]
    BY DEF Chosen
<1>3. k = None \/ (k \in 1 .. Len(libs.entries["EXITS"]) /\ libs.entries["EXITS"][k] \in Known)
  <2>1. libs \in LibsType /\ "EXITS" \in Slots
      BY DEF IInv, Types, Slots
  <2> QED  BY <2>1, FoundThere
<1> HIDE DEF k, h
<1>4. CASE k = None
  <2>1. h = <<>> /\ DOMAIN h = {}
      BY <1>2, <1>4
  <2>2. h \in [{} -> Lib \cup {Exe}]
      BY <2>1
  <2> QED  BY <1>1, <2>1, <2>2 DEF Hooks, h
<1>5. CASE k # None
  <2>1. h = [c \in x |-> libs.entries["EXITS"][k].lib]
      BY <1>2, <1>5
  <2>2. libs.entries["EXITS"][k].lib \in Lib \cup {Exe}
      BY <1>3, <1>5 DEF Known
  <2>3. h \in [x -> Lib \cup {Exe}] /\ DOMAIN h = x
      BY <2>1, <2>2
  <2>4. \A c \in x : h[c] = libs.entries["EXITS"][k].lib
      BY <2>1
  <2> QED  BY <1>1, <1>3, <1>5, <2>3, <2>4 DEF Hooks, h
<1> QED  BY <1>4, <1>5

\* The name of the program of a script is set or taken.
LEMMA NameSet ==
  ASSUME NEW fs, Stack(fs), NEW i \in 1 .. Len(fs), fs[i] \in ScriptType,
         NEW g \in ScriptType, Sound(g), g.how = fs[i].how, g.terms = fs[i].terms,
         g.begun <=> fs[i].begun, g.doTermHook <=> fs[i].doTermHook
  PROVE  /\ Stack([fs EXCEPT ![i] = g]) /\ Len([fs EXCEPT ![i] = g]) = Len(fs)
         /\ [fs EXCEPT ![i] = g][i] = g
         /\ \A k \in 1 .. Len(fs) : k # i => [fs EXCEPT ![i] = g][k] = fs[k]
<1>1. Len(fs) \in Nat /\ g.kind = "script" /\ fs[i].kind = "script" /\ g \in Frame
    BY DEF Stack, ScriptType, Frame
<1>2. i = 1 => Bottom(g)
  <2>1. i = 1 => Bottom(fs[i])
      BY <1>1 DEF Stack
  <2> QED  BY <1>1, <2>1 DEF Bottom, IsScript
<1>3. i > 1 => On(g, fs[i - 1])
  <2> SUFFICES ASSUME i > 1  PROVE On(g, fs[i - 1])
      OBVIOUS
  <2>1. i - 1 \in 1 .. Len(fs) - 1 /\ i - 1 + 1 = i
      BY <1>1
  <2>2. On(fs[i], fs[i - 1])
      BY <2>1 DEF Stack
  <2> QED  BY <1>1, <2>2 DEF On, IsScript
<1>4. i < Len(fs) => On(fs[i + 1], g)
  <2> SUFFICES ASSUME i < Len(fs)  PROVE On(fs[i + 1], g)
      OBVIOUS
  <2>1. i \in 1 .. Len(fs) - 1
      BY <1>1
  <2>2. On(fs[i + 1], fs[i])
      BY <2>1 DEF Stack
  <2> QED  BY <1>1, <2>2 DEF On, IsScript, Fresh
<1> QED  BY <1>1, <1>2, <1>3, <1>4, ChangeFrame

Called(fs, x) ==
  /\ Len(fs) = Len(frames) + 1
  /\ fs[Len(frames) + 1].kind = "start" /\ fs[Len(frames) + 1].exits = DOMAIN Chosen(x)
  /\ \A k \in 1 .. Len(frames) : Like(fs[k], frames[k])
LEMMA StartShape ==
  ASSUME IInv, Start
  PROVE  /\ Stack(frames')
         /\ \E x \in ExitLists : handlers' = Append(handlers, Chosen(x)) /\ Called(frames', x)
<1>1. PICK how \in Hows, x \in ExitLists, e \in EnvNames :
        /\ handlers' = Append(handlers, Chosen(x))
        /\ frames' = IF System = 0 THEN Push(StartOf(how, DOMAIN Chosen(x), e))
                     ELSE Append([frames EXCEPT ![System].file = TRUE],
                                 StartOf(how, DOMAIN Chosen(x), e))
    BY DEF Start
<1> DEFINE s == StartOf(how, DOMAIN Chosen(x), e)
<1>2. /\ s \in Frame /\ s.kind = "start" /\ s.exits = DOMAIN Chosen(x)
  <2>1. DOMAIN Chosen(x) \in SUBSET Codes
      BY ChosenHooks
  <2> DEFINE d == DOMAIN Chosen(x)
  <2> HIDE DEF d
  <2>2. /\ StartOf(how, d, e) \in StartType /\ StartOf(how, d, e).kind = "start"
        /\ StartOf(how, d, e).exits = d
      BY <2>1 DEF StartOf, StartType, d
  <2> QED  BY <2>2 DEF Frame, d
<1>3. Sound(s) /\ Bottom(s) /\ \A g : g.kind = "native" => On(s, g)
    BY <1>2 DEF Sound, Bottom, On, IsScript
<1>4. Stack(frames) /\ Len(frames) \in Nat /\ System \in 0 .. Len(frames)
      /\ (System # 0 => frames[System].kind = "script")
    BY SysRange, TheSystem DEF IInv, Stack
<1>5. Len(frames) > 0 => frames[Len(frames)].kind = "native"
    BY <1>4 DEF Start, MayCall, Top, IInv, Stack
<1>6. ASSUME NEW fs, Stack(fs), Len(fs) = Len(frames),
             \A k \in 1 .. Len(frames) : Like(fs[k], frames[k]), frames' = Append(fs, s)
      PROVE  Stack(frames') /\ Called(frames', x)
  <2> HIDE DEF s
  <2>1. Len(fs) > 0 => On(s, fs[Len(fs)])
      BY <1>3, <1>4, <1>5, <1>6 DEF Like
  <2>2. /\ Stack(Append(fs, s)) /\ Len(Append(fs, s)) = Len(fs) + 1
        /\ Append(fs, s)[Len(fs) + 1] = s
        /\ \A k \in 1 .. Len(fs) : Append(fs, s)[k] = fs[k]
      BY <1>2, <1>3, <1>6, <2>1, PushFrame
  <2> QED  BY <1>2, <1>6, <2>2 DEF Called
<1>7. CASE System = 0
  <2>1. frames' = Append(frames, s)
      BY <1>1, <1>7 DEF Push
  <2> HIDE DEF s
  <2>2. Stack(frames') /\ Called(frames', x)
      BY <1>4, <1>6, <2>1, LikeItself
  <2> QED  BY <1>1, <2>2
<1>8. CASE System # 0
  <2> DEFINE i == System
             g == [frames[i] EXCEPT !.file = TRUE]
             fs == [frames EXCEPT ![i] = g]
  <2>1. i \in 1 .. Len(frames) /\ frames[i] \in ScriptType /\ Sound(frames[i])
    <3>1. i \in 1 .. Len(frames) /\ frames[i].kind = "script"
        BY <1>4, <1>8
    <3>2. frames[i] \in Frame /\ Sound(frames[i])
        BY <1>4, <3>1 DEF Stack
    <3> QED  BY <3>1, <3>2, Kinds
  <2>2. ASSUME NEW y \in ScriptType, Sound(y)
        PROVE  LET z == [y EXCEPT !.file = TRUE]
               IN  /\ z \in ScriptType /\ Sound(z) /\ z.how = y.how /\ z.terms = y.terms
                   /\ z.begun <=> y.begun
                   /\ z.doTermHook <=> y.doTermHook
                   /\ z.bared <=> y.bared
    <3> DEFINE z == [y EXCEPT !.file = TRUE]
    <3>1. /\ z \in ScriptType /\ z.how = y.how /\ z.terms = y.terms /\ z.phase = y.phase
          /\ z.again <=> y.again
          /\ z.begun <=> y.begun
          /\ z.doTermHook <=> y.doTermHook
          /\ z.bared <=> y.bared
          /\ z.file /\ z.kind = "script" /\ y.kind = "script"
        BY DEF ScriptType
    <3> HIDE DEF z
    <3>2. Sound(z)
        BY <2>2, <3>1 DEF Sound, IsScript, Once, Due, Fresh
    <3> QED  BY <3>1, <3>2 DEF z
  <2>3. /\ g \in ScriptType /\ Sound(g) /\ g.how = frames[i].how /\ g.terms = frames[i].terms
        /\ g.begun <=> frames[i].begun
        /\ g.doTermHook <=> frames[i].doTermHook
        /\ g.bared <=> frames[i].bared
      BY <2>1, <2>2
  <2>4. frames' = Append(fs, s)
      BY <1>1, <1>8
  <2> HIDE DEF g
  <2>5. /\ Stack(fs) /\ Len(fs) = Len(frames) /\ fs[i] = g
        /\ \A k \in 1 .. Len(frames) : k # i => fs[k] = frames[k]
      BY <1>4, <2>1, <2>3, NameSet
  <2>6. Like(g, frames[i])
      BY <2>1, <2>3, ScriptLike
  <2> HIDE DEF fs, s
  <2>7. \A k \in 1 .. Len(frames) : Like(fs[k], frames[k])
      BY <2>5, <2>6, LikeItself
  <2>8. Stack(frames') /\ Called(frames', x)
      BY <1>6, <2>4, <2>5, <2>7
  <2> QED  BY <1>1, <2>8
<1> QED  BY <1>7, <1>8

\* What is left of the frames when a RexxStart returns: nothing, or the main program,
\* which has no name any more, or the frames below as they were.
Returned(fs) ==
  /\ Len(fs) = Len(frames) - 1
  /\ \A k \in 1 .. Len(fs) :
        fs[k].kind = frames[k].kind /\ (fs[k].kind = "start" => fs[k].exits = frames[k].exits)
  /\ \/ System = 0 /\ Len(fs) = 0
     \/ System # 0 /\ Len(fs) > 0 /\ IsScript(fs[1]) /\ fs[1].how = "main" /\ fs[1].bared
     \/ /\ System # 0 /\ ~OfMain(System) /\ Len(fs) > 0
        /\ \A k \in 1 .. Len(fs) : Like(fs[k], frames[k])
LEMMA FinishShape ==
  ASSUME IInv, FinishStart
  PROVE  Stack(frames') /\ Returned(frames') /\ frames[Len(frames)].kind = "start"
<1> DEFINE n == Len(frames)
<1>1. /\ frames # <<>> /\ Top.kind = "start"
      /\ frames' = IF System = 0 THEN Below
                   ELSE [Below EXCEPT ![System].file = FALSE, ![System].bared = OfMain(System)]
    BY DEF FinishStart
<1>2. n \in Nat /\ n > 0 /\ Top = frames[n] /\ Stack(frames)
    BY <1>1, TopFacts DEF IInv
<1>3. Stack(Below) /\ Len(Below) = n - 1 /\ \A k \in 1 .. n - 1 : Below[k] = frames[k]
    BY <1>1, BelowFacts
<1>4. /\ System \in 0 .. n
      /\ System # 0 => frames[System].kind = "script"
      /\ \A k \in 1 .. n : frames[k].kind = "script" => System # 0
    BY <1>2, SysRange, TheSystem
<1>5. CASE System = 0
  <2>1. ASSUME n > 1  PROVE FALSE
    <3>1. Bottom(frames[1]) /\ 1 \in 1 .. n - 1 /\ 1 + 1 \in 1 .. n
        BY <1>2, <2>1 DEF Stack
    <3>2. frames[1].kind = "start"
        BY <1>2, <1>4, <1>5, <3>1 DEF Bottom, IsScript
    <3>3. frames[1 + 1].kind = "script"
        BY <1>2, <3>1, <3>2, AfterStart
    <3> QED  BY <1>4, <1>5, <3>1, <3>3
  <2> HIDE DEF n
  <2>2. n = 1
      BY <1>2, <2>1
  <2>3. frames' = Below
      BY <1>1, <1>5
  <2> QED  BY <1>1, <1>2, <1>3, <1>5, <2>2, <2>3 DEF Returned, n
<1>6. CASE System # 0
  <2> DEFINE i == System
             Taken(y) == [y EXCEPT !.file = FALSE, !.bared = (y.how = "main")]
             g == Taken(Below[i])
             fs == [Below EXCEPT ![i] = g]
  <2>1. i \in 1 .. Len(Below) /\ Below[i] = frames[i] /\ Below[i] \in ScriptType /\ Sound(Below[i])
    <3>1. i \in 1 .. n - 1
        BY <1>1, <1>2, <1>4, <1>6
    <3>2. Below[i] = frames[i] /\ i \in 1 .. Len(Below)
        BY <1>3, <3>1
    <3>3. Below[i] \in Frame /\ Sound(Below[i]) /\ Below[i].kind = "script"
        BY <1>3, <1>4, <1>6, <3>2 DEF Stack
    <3> QED  BY <3>2, <3>3, Kinds
  <2>2. ASSUME NEW y \in ScriptType, Sound(y)
        PROVE  /\ Taken(y) \in ScriptType /\ Sound(Taken(y)) /\ Taken(y).how = y.how
               /\ Taken(y).terms = y.terms /\ Taken(y).kind = "script"
               /\ Taken(y).begun <=> y.begun
               /\ Taken(y).doTermHook <=> y.doTermHook
               /\ Taken(y).bared <=> (y.how = "main")
               /\ y.bared => y.how = "main"
    <3>1. /\ Taken(y) \in ScriptType /\ Taken(y).how = y.how /\ Taken(y).terms = y.terms
          /\ Taken(y).phase = y.phase
          /\ Taken(y).again <=> y.again
          /\ Taken(y).begun <=> y.begun
          /\ Taken(y).doTermHook <=> y.doTermHook
          /\ Taken(y).bared <=> (y.how = "main")
          /\ ~Taken(y).file /\ Taken(y).kind = "script" /\ y.kind = "script"
        BY DEF ScriptType
    <3> HIDE DEF Taken
    <3>2. Sound(Taken(y))
        BY <2>2, <3>1 DEF Sound, IsScript, Once, Due, Fresh
    <3>3. y.bared => y.how = "main"
        BY <2>2, <3>1 DEF Sound, IsScript
    <3> QED  BY <3>1, <3>2, <3>3
  <2>3. frames' = fs
    <3>1. Below \in Seq(Frame) /\ (OfMain(i) <=> (Below[i].how = "main"))
        BY <1>3, <2>1 DEF Stack, OfMain
    <3>2. frames' = [Below EXCEPT ![i].file = FALSE, ![i].bared = OfMain(i)]
        BY <1>1, <1>6
    <3>3. OfMain(i) = (Below[i].how = "main")
        BY <2>1 DEF OfMain
    <3>4. frames' = [Below EXCEPT ![i].file = FALSE, ![i].bared = (Below[i].how = "main")]
        BY <3>2, <3>3
    <3> HIDE DEF i
    <3> QED  BY <2>1, <3>1, <3>4
  <2> HIDE DEF Taken
  <2>4. /\ g \in ScriptType /\ Sound(g) /\ g.how = Below[i].how /\ g.terms = Below[i].terms
        /\ g.begun <=> Below[i].begun
        /\ g.doTermHook <=> Below[i].doTermHook
        /\ g.bared <=> (Below[i].how = "main")
        /\ Below[i].bared => Below[i].how = "main"
      BY <2>1, <2>2
  <2> HIDE DEF g
  <2>5. /\ Stack(fs) /\ Len(fs) = Len(Below) /\ fs[i] = g
        /\ \A k \in 1 .. Len(Below) : k # i => fs[k] = Below[k]
      BY <1>3, <2>1, <2>4, NameSet
  <2> HIDE DEF fs
  <2>6. g.kind = "script" /\ Below[i].kind = "script"
      BY <2>1, <2>4 DEF ScriptType
  <2>7. \A k \in 1 .. Len(fs) :
          fs[k].kind = frames[k].kind /\ (fs[k].kind = "start" => fs[k].exits = frames[k].exits)
      BY <1>3, <2>1, <2>5, <2>6
  <2>8. CASE Below[i].how = "main"
    <3>1. i = 1
      <4> SUFFICES ASSUME i > 1  PROVE FALSE
          BY <2>1
      <4>1. i - 1 \in 1 .. Len(Below) - 1 /\ i - 1 + 1 = i
          BY <1>2, <1>3, <2>1
      <4>2. On(Below[i], Below[i - 1])
          BY <1>3, <4>1 DEF Stack
      <4> QED  BY <2>6, <2>8, <4>2 DEF On, IsScript
    <3>2. IsScript(fs[1]) /\ fs[1].how = "main" /\ fs[1].bared /\ Len(fs) > 0
        BY <1>2, <1>3, <2>1, <2>4, <2>5, <2>6, <2>8, <3>1 DEF IsScript
    <3> QED  BY <1>1, <1>2, <1>3, <1>6, <2>3, <2>5, <2>7, <3>2 DEF Returned
  <2>9. CASE Below[i].how # "main"
    <3>1. Like(g, Below[i])
        BY <2>4, <2>6, <2>9 DEF Like
    <3>2. \A k \in 1 .. Len(fs) : Like(fs[k], frames[k])
        BY <1>3, <2>1, <2>5, <3>1, LikeItself
    <3>3. ~OfMain(System) /\ Len(fs) > 0
        BY <1>2, <1>3, <2>1, <2>5, <2>9 DEF OfMain
    <3> QED  BY <1>1, <1>2, <1>3, <1>6, <2>3, <2>5, <2>7, <3>2, <3>3 DEF Returned
  <2> QED  BY <2>8, <2>9
<1> QED  BY <1>5, <1>6

\* The source of a script has an error: its RexxStart goes, too.
LEMMA SourceShape ==
  ASSUME IInv, frames # <<>>, Top.kind = "start", System # 0, NEW gs \in Failures(frames)
  PROVE  Stack(gs) /\ Left(gs, Below)
<1> DEFINE n == Len(frames)
           hs == Below
<1>1. n \in Nat /\ n > 0 /\ Top = frames[n] /\ Stack(frames) /\ frames \in Seq(Frame)
    BY TopFacts DEF IInv
<1>2. Stack(hs) /\ Len(hs) = n - 1 /\ \A k \in 1 .. n - 1 : hs[k] = frames[k]
    BY BelowFacts
<1>3. /\ Sys(frames) \in 1 .. n - 1 /\ frames[Sys(frames)].kind = "script"
      /\ \A k \in 1 .. n : frames[k].kind = "script" => k <= Sys(frames)
  <2>1. /\ Sys(frames) \in 0 .. n /\ Sys(frames) # 0 /\ frames[Sys(frames)].kind = "script"
        /\ \A k \in 1 .. n : frames[k].kind = "script" => k <= Sys(frames)
      BY <1>1, SysRange, TheSystem
  <2> QED  BY <1>1, <2>1
<1>4. hs[Len(hs)].kind # "start" /\ Len(hs) > 0
  <2>1. n > 1 /\ Len(hs) > 0 /\ hs \in Seq(Frame)
      BY <1>1, <1>2, <1>3 DEF Stack
  <2>2. On(Top, hs[Len(hs)])
      BY <2>1, BelowFacts
  <2> QED  BY <2>1, <2>2 DEF On
<1>5. Sys(hs) = Sys(frames)
  <2>1. {k \in DOMAIN hs : hs[k].kind = "script"} = {k \in DOMAIN frames : frames[k].kind = "script"}
    <3>1. DOMAIN hs = 1 .. n - 1 /\ DOMAIN frames = 1 .. n
        BY <1>1, <1>2 DEF Stack
    <3> HIDE DEF hs
    <3> QED  BY <1>1, <1>2, <1>3, <3>1
  <2> QED  BY <2>1 DEF Sys
<1>6. ASSUME NEW m \in 0 .. n - 1
      PROVE  SubSeq(frames, 1, m) = SubSeq(hs, 1, m)
  <2>1. /\ SubSeq(frames, 1, m) \in Seq(Frame) /\ Len(SubSeq(frames, 1, m)) = m
        /\ \A k \in 1 .. m : SubSeq(frames, 1, m)[k] = frames[k]
      BY <1>1, Prefix DEF Stack
  <2>2. /\ SubSeq(hs, 1, m) \in Seq(Frame) /\ Len(SubSeq(hs, 1, m)) = m
        /\ \A k \in 1 .. m : SubSeq(hs, 1, m)[k] = hs[k]
      BY <1>1, <1>2, Prefix DEF Stack
  <2> DEFINE a == SubSeq(frames, 1, m)
             b == SubSeq(hs, 1, m)
  <2> HIDE DEF a, b, hs
  <2>3. \A k \in 1 .. m : a[k] = b[k]
      BY <1>1, <1>2, <2>1, <2>2 DEF a, b
  <2>4. a = b
      BY <2>1, <2>2, <2>3 DEF a, b
  <2> QED  BY <2>4 DEF a, b
<1> DEFINE sys == Sys(frames)
           f == [frames[sys] EXCEPT !.phase = "end", !.failed = TRUE]
<1>7. \/ \E k \in sys .. n : Running(frames[k]) /\ gs = SubSeq(frames, 1, k)
      \/ gs = Append(SubSeq(frames, 1, sys - 1), f)
    BY DEF Failures, Sys
<1>8. hs[sys] = frames[sys] /\ sys \in 1 .. n - 1 /\ sys - 1 \in 0 .. n - 1
    BY <1>1, <1>2, <1>3
<1>9. gs \in Failures(hs)
  <2>1. ASSUME NEW k \in sys .. n, Running(frames[k]), gs = SubSeq(frames, 1, k)
        PROVE  k \in sys .. n - 1 /\ Running(hs[k]) /\ gs = SubSeq(hs, 1, k)
    <3>1. k # n
        BY <1>1, <2>1 DEF Running
    <3>2. k \in sys .. n - 1 /\ k \in 0 .. n - 1 /\ k \in 1 .. n - 1
        BY <1>1, <1>3, <3>1
    <3>3. hs[k] = frames[k]
        BY <1>2, <3>2
    <3> QED  BY <1>6, <2>1, <3>2, <3>3
  <2>2. CASE gs = Append(SubSeq(frames, 1, sys - 1), f)
    <3>1. gs = Append(SubSeq(hs, 1, Sys(hs) - 1), [hs[Sys(hs)] EXCEPT !.phase = "end", !.failed = TRUE])
        BY <1>5, <1>6, <1>8, <2>2
    <3> QED  BY <3>1 DEF Failures, Sys
  <2>3. CASE \E k \in sys .. n : Running(frames[k]) /\ gs = SubSeq(frames, 1, k)
    <3>1. PICK k \in Sys(hs) .. Len(hs) : Running(hs[k]) /\ gs = SubSeq(hs, 1, k)
        BY <1>2, <1>5, <2>1, <2>3
    <3> QED  BY <3>1 DEF Failures, Sys
  <2> QED  BY <1>7, <2>2, <2>3
<1> QED  BY <1>2, <1>4, <1>9, FailStack

-----------------------------------------------------------------------------
(* How many entries of a list are a library's.                             *)

LEMMA SameSize ==
  ASSUME NEW S, NEW T, NEW F, IsFiniteSet(S), F \in [S -> T],
         \A a, b \in S : F[a] = F[b] => a = b, \A t \in T : \E s \in S : F[s] = t
  PROVE  IsFiniteSet(T) /\ Cardinality(T) = Cardinality(S)
<1>1. F \in Bijection(S, T)
    BY Fun_IsBij
<1>2. ExistsBijection(S, T)
    BY <1>1, Fun_ExistsBij
<1> QED  BY <1>2, FS_Bijection

LEMMA AtFinite ==
  ASSUME NEW s \in Seq(Known), NEW b
  PROVE  /\ IsFiniteSet(At(s, b)) /\ Cardinality(At(s, b)) \in Nat
         /\ At(s, b) = {k \in 1 .. Len(s) : s[k].lib = b}
         /\ (Cardinality(At(s, b)) = 0) <=> (\A k \in 1 .. Len(s) : s[k].lib # b)
<1>1. At(s, b) = {k \in 1 .. Len(s) : s[k].lib = b} /\ Len(s) \in Nat
    BY DEF At
<1>2. IsFiniteSet(1 .. Len(s)) /\ At(s, b) \in SUBSET (1 .. Len(s))
    BY <1>1, FS_Interval
<1>3. IsFiniteSet(At(s, b))
    BY <1>2, FS_Subset
<1>4. Cardinality(At(s, b)) \in Nat /\ ((Cardinality(At(s, b)) = 0) <=> (At(s, b) = {}))
    BY <1>3, FS_CardinalityType, FS_EmptySet
<1> QED  BY <1>1, <1>3, <1>4

LEMMA CountAdded ==
  ASSUME NEW s \in Seq(Known), NEW e \in Known, NEW b
  PROVE  /\ <<e>> \o s \in Seq(Known)
         /\ Cardinality(At(<<e>> \o s, b)) =
               Cardinality(At(s, b)) + (IF e.lib = b THEN 1 ELSE 0)
<1> DEFINE t == <<e>> \o s
           n == Len(s)
           S == At(s, b)
           U == {k \in 2 .. n + 1 : t[k].lib = b}
           F == [k \in S |-> k + 1]
<1>1. n \in Nat /\ t \in Seq(Known) /\ Len(t) = n + 1 /\ t[1] = e
      /\ \A k \in 1 .. n : t[k + 1] = s[k]
    OBVIOUS
<1>2. IsFiniteSet(S) /\ Cardinality(S) \in Nat /\ S = {k \in 1 .. n : s[k].lib = b}
    BY AtFinite
<1> HIDE DEF t, S
<1>3. At(t, b) = {k \in 1 .. n + 1 : t[k].lib = b}
  <2>1. DOMAIN t = 1 .. n + 1
      BY <1>1
  <2> QED  BY <2>1 DEF At
<1>4. F \in [S -> U] /\ (\A x, y \in S : F[x] = F[y] => x = y) /\ \A u \in U : \E x \in S : F[x] = u
  <2>1. \A x \in S : F[x] = x + 1 /\ x \in 1 .. n
      BY <1>2
  <2>2. \A x \in S : x + 1 \in U
      BY <1>1, <1>2
  <2>3. ASSUME NEW u \in U  PROVE u - 1 \in S /\ u - 1 + 1 = u
    <3>1. u - 1 \in 1 .. n /\ u - 1 + 1 = u
        BY <1>1
    <3> QED  BY <1>1, <1>2, <3>1
  <2>4. \A x, y \in S : F[x] = F[y] => x = y
      BY <1>1, <2>1
  <2>5. \A u \in U : \E x \in S : F[x] = u
      BY <2>1, <2>3
  <2>6. F \in [S -> U]
      BY <2>2
  <2> QED  BY <2>4, <2>5, <2>6
<1>5. IsFiniteSet(U) /\ Cardinality(U) = Cardinality(S)
  <2> HIDE DEF F, U
  <2>1. IsFiniteSet(S) /\ F \in [S -> U]
      BY <1>2, <1>4
  <2>2. \A x, y \in S : F[x] = F[y] => x = y
      BY <1>4
  <2>3. \A u \in U : \E x \in S : F[x] = u
      BY <1>4
  <2> QED  BY <2>1, <2>2, <2>3, SameSize
<1>6. CASE e.lib = b
  <2>1. At(t, b) = U \cup {1} /\ 1 \notin U
      BY <1>1, <1>3, <1>6
  <2>2. Cardinality(At(t, b)) = Cardinality(U) + 1
    <3> HIDE DEF U
    <3> QED  BY <1>5, <2>1, FS_AddElement
  <2> QED  BY <1>1, <1>2, <1>5, <1>6, <2>2 DEF t, S
<1>7. CASE e.lib # b
  <2>1. At(t, b) = U
      BY <1>1, <1>3, <1>7
  <2>2. Cardinality(At(t, b)) = Cardinality(S) + 0
      BY <1>2, <1>5, <2>1
  <2> QED  BY <1>1, <1>7, <2>2 DEF t, S
<1> QED  BY <1>6, <1>7

LEMMA CountTaken ==
  ASSUME NEW s \in Seq(Known), NEW k \in 1 .. Len(s), NEW b
  PROVE  /\ RemoveAt(s, k) \in Seq(Known)
         /\ Cardinality(At(RemoveAt(s, k), b)) =
               Cardinality(At(s, b)) - (IF s[k].lib = b THEN 1 ELSE 0)
<1> DEFINE t == RemoveAt(s, k)
           n == Len(s)
           S == At(s, b)
           T == At(t, b)
           R == S \ {k}
           F == [i \in R |-> IF i < k THEN i ELSE i - 1]
<1>1. n \in Nat /\ t \in Seq(Known) /\ Len(t) = n - 1
      /\ \A i \in 1 .. n - 1 : t[i] = IF i < k THEN s[i] ELSE s[i + 1]
  <2>1. /\ RemoveAt(s, k) \in Seq(Known) /\ Len(RemoveAt(s, k)) = Len(s) - 1
        /\ \A i \in 1 .. (Len(s) - 1) : RemoveAt(s, k)[i] = IF i < k THEN s[i] ELSE s[i + 1]
      BY TakeOutAt
  <2> QED  BY <2>1
<1>2. IsFiniteSet(S) /\ Cardinality(S) \in Nat /\ S = {i \in 1 .. n : s[i].lib = b}
    BY AtFinite
<1>3. T = {i \in 1 .. n - 1 : t[i].lib = b}
    BY <1>1, AtFinite
<1> HIDE DEF t, S, T
<1>4. /\ F \in [R -> T]
      /\ \A x, y \in R : F[x] = F[y] => x = y
      /\ \A u \in T : \E x \in R : F[x] = u
  <2>1. ASSUME NEW x \in R  PROVE F[x] \in T /\ F[x] = IF x < k THEN x ELSE x - 1
    <3>1. x \in 1 .. n /\ x # k /\ s[x].lib = b /\ F[x] = IF x < k THEN x ELSE x - 1
        BY <1>2
    <3>2. CASE x < k
        BY <1>1, <1>3, <3>1, <3>2
    <3>3. CASE x > k
      <4>1. x - 1 \in 1 .. n - 1 /\ ~(x - 1 < k) /\ x - 1 + 1 = x
          BY <1>1, <3>1, <3>3
      <4> QED  BY <1>1, <1>3, <3>1, <3>3, <4>1
    <3> QED  BY <1>1, <3>1, <3>2, <3>3
  <2>2. \A x, y \in R : F[x] = F[y] => x = y
    <3>1. \A x \in R : x \in 1 .. n /\ x # k
        BY <1>2
    <3> QED  BY <1>1, <2>1, <3>1
  <2>3. ASSUME NEW u \in T  PROVE \E x \in R : F[x] = u
    <3>1. u \in 1 .. n - 1 /\ t[u].lib = b
        BY <1>3
    <3>2. CASE u < k
      <4>1. u \in R
          BY <1>1, <1>2, <3>1, <3>2
      <4> QED  BY <2>1, <3>2, <4>1
    <3>3. CASE ~(u < k)
      <4>1. u + 1 \in R /\ ~(u + 1 < k) /\ u + 1 - 1 = u
          BY <1>1, <1>2, <3>1, <3>3
      <4> HIDE DEF F
      <4>2. PICK v \in R : v = u + 1 /\ ~(v < k) /\ v - 1 = u
        <5> HIDE DEF R
        <5> QED  BY <1>1, <3>1, <4>1
      <4>3. F[v] = v - 1
          BY <2>1, <4>2
      <4> QED  BY <4>2, <4>3
    <3> QED  BY <3>2, <3>3
  <2>4. F \in [R -> T]
      BY <2>1
  <2> QED  BY <2>2, <2>3, <2>4
<1>5. /\ IsFiniteSet(R)
      /\ Cardinality(R) = IF k \in S THEN Cardinality(S) - 1 ELSE Cardinality(S)
    BY <1>2, FS_RemoveElement
<1>6. Cardinality(T) = Cardinality(R)
  <2> HIDE DEF F, R
  <2>1. IsFiniteSet(R) /\ F \in [R -> T]
      BY <1>4, <1>5
  <2>2. \A x, y \in R : F[x] = F[y] => x = y
      BY <1>4
  <2>3. \A u \in T : \E x \in R : F[x] = u
      BY <1>4
  <2> QED  BY <2>1, <2>2, <2>3, SameSize, SMTT(30)
<1>7. (k \in S) <=> (s[k].lib = b)
    BY <1>2
<1> QED  BY <1>1, <1>2, <1>5, <1>6, <1>7 DEF t, S, T

-----------------------------------------------------------------------------
(* What the operations on libraries keep.                                  *)

LEMMA LibsFields ==
  ASSUME NEW l \in LibsType
  PROVE  /\ l.entries \in [Slots -> Seq(Known)] /\ l.linked \in SUBSET Lib
         /\ l.used \in [Lib -> Int] /\ l.orphans \in [Lib -> Nat]
         /\ \A s \in Slots : l.entries[s] \in Seq(Known)
         /\ l.entries["FUNCS"] \in Seq(Known) /\ l.entries["EXITS"] \in Seq(Known)
         /\ l.entries["SUBCOMS"] \in Seq(Known)
         /\ \A b : Sum(l, b) \in Nat
<1>1. /\ l.entries \in [Slots -> Seq(Known)] /\ l.linked \in SUBSET Lib
      /\ l.used \in [Lib -> Int] /\ l.orphans \in [Lib -> Nat]
    BY DEF LibsType
<1>2. /\ l.entries["FUNCS"] \in Seq(Known) /\ l.entries["EXITS"] \in Seq(Known)
      /\ l.entries["SUBCOMS"] \in Seq(Known)
    BY <1>1 DEF Slots
<1>3. ASSUME NEW b  PROVE Sum(l, b) \in Nat
  <2>1. /\ Cardinality(At(l.entries["FUNCS"], b)) \in Nat
        /\ Cardinality(At(l.entries["EXITS"], b)) \in Nat
        /\ Cardinality(At(l.entries["SUBCOMS"], b)) \in Nat
      BY <1>2, AtFinite
  <2> QED  BY <2>1 DEF Sum
<1> QED  BY <1>1, <1>2, <1>3

WithEntries(l, slot, s) == [l EXCEPT !.entries[slot] = s]
WithUsed(l, b, n) == [l EXCEPT !.used[b] = n]
WithLinked(l, S) == [l EXCEPT !.linked = S]
LEMMA EntriesSet ==
  ASSUME NEW l \in LibsType, NEW slot \in Slots, NEW s \in Seq(Known)
  PROVE  LET m == WithEntries(l, slot, s)
         IN  /\ m \in LibsType /\ m.linked = l.linked /\ m.used = l.used /\ m.orphans = l.orphans
             /\ m.entries[slot] = s
             /\ \A t \in Slots : t # slot => m.entries[t] = l.entries[t]
<1> DEFINE m == WithEntries(l, slot, s)
<1>1. l.entries \in [Slots -> Seq(Known)]
    BY LibsFields
<1> DEFINE f == [l.entries EXCEPT ![slot] = s]
<1>2. f \in [Slots -> Seq(Known)] /\ f[slot] = s /\ \A t \in Slots : t # slot => f[t] = l.entries[t]
    BY <1>1
<1>3. m = [l EXCEPT !.entries = f]
    BY DEF WithEntries
<1> HIDE DEF f
<1>4. ASSUME NEW x \in LibsType, NEW g \in [Slots -> Seq(Known)]
      PROVE  LET y == [x EXCEPT !.entries = g]
             IN  /\ y \in LibsType /\ y.linked = x.linked /\ y.used = x.used
                 /\ y.orphans = x.orphans /\ y.entries = g
    BY DEF LibsType
<1>5. /\ m \in LibsType /\ m.linked = l.linked /\ m.used = l.used /\ m.orphans = l.orphans
      /\ m.entries = f
    BY <1>2, <1>3, <1>4
<1> HIDE DEF m
<1> QED  BY <1>2, <1>5 DEF m

LEMMA UsedSet ==
  ASSUME NEW l \in LibsType, NEW b \in Lib, NEW n \in Int
  PROVE  LET m == WithUsed(l, b, n)
         IN  /\ m \in LibsType /\ m.linked = l.linked /\ m.entries = l.entries
             /\ m.orphans = l.orphans /\ m.used[b] = n
             /\ \A c \in Lib : c # b => m.used[c] = l.used[c]
<1> DEFINE m == WithUsed(l, b, n)
<1>1. l.used \in [Lib -> Int]
    BY LibsFields
<1> DEFINE f == [l.used EXCEPT ![b] = n]
<1>2. f \in [Lib -> Int] /\ f[b] = n /\ \A c \in Lib : c # b => f[c] = l.used[c]
    BY <1>1
<1>3. m = [l EXCEPT !.used = f]
    BY DEF WithUsed
<1> HIDE DEF f
<1>4. ASSUME NEW x \in LibsType, NEW g \in [Lib -> Int]
      PROVE  LET y == [x EXCEPT !.used = g]
             IN  /\ y \in LibsType /\ y.linked = x.linked /\ y.entries = x.entries
                 /\ y.orphans = x.orphans /\ y.used = g
    BY DEF LibsType
<1>5. /\ m \in LibsType /\ m.linked = l.linked /\ m.entries = l.entries /\ m.orphans = l.orphans
      /\ m.used = f
    BY <1>2, <1>3, <1>4
<1> HIDE DEF m
<1> QED  BY <1>2, <1>5 DEF m

LEMMA LinkedSet ==
  ASSUME NEW l \in LibsType, NEW S \in SUBSET Lib
  PROVE  LET m == WithLinked(l, S)
         IN  /\ m \in LibsType /\ m.linked = S /\ m.entries = l.entries
             /\ m.orphans = l.orphans /\ m.used = l.used
BY DEF LibsType, WithLinked

\* The sum goes by the entries only, slot by slot.
LEMMA SumSame ==
  ASSUME NEW l \in LibsType, NEW m \in LibsType, m.entries = l.entries, NEW b
  PROVE  Sum(m, b) = Sum(l, b)
BY DEF Sum
LEMMA SumChanged ==
  ASSUME NEW l \in LibsType, NEW m \in LibsType, NEW slot \in Slots, NEW b, NEW d \in Int,
         \A t \in Slots : t # slot => m.entries[t] = l.entries[t],
         Cardinality(At(m.entries[slot], b)) = Cardinality(At(l.entries[slot], b)) + d
  PROVE  Sum(m, b) = Sum(l, b) + d
<1>1. /\ Cardinality(At(l.entries["FUNCS"], b)) \in Nat
      /\ Cardinality(At(l.entries["EXITS"], b)) \in Nat
      /\ Cardinality(At(l.entries["SUBCOMS"], b)) \in Nat
    BY LibsFields, AtFinite
<1>2. CASE slot = "FUNCS"
  <2>1. m.entries["EXITS"] = l.entries["EXITS"] /\ m.entries["SUBCOMS"] = l.entries["SUBCOMS"]
      BY <1>2 DEF Slots
  <2> QED  BY <1>1, <1>2, <2>1 DEF Sum
<1>3. CASE slot = "EXITS"
  <2>1. m.entries["FUNCS"] = l.entries["FUNCS"] /\ m.entries["SUBCOMS"] = l.entries["SUBCOMS"]
      BY <1>3 DEF Slots
  <2> QED  BY <1>1, <1>3, <2>1 DEF Sum
<1>4. CASE slot = "SUBCOMS"
  <2>1. m.entries["FUNCS"] = l.entries["FUNCS"] /\ m.entries["EXITS"] = l.entries["EXITS"]
      BY <1>4 DEF Slots
  <2> QED  BY <1>1, <1>4, <2>1 DEF Sum
<1> QED  BY <1>2, <1>3, <1>4 DEF Slots

\* A library has an entry if the sum is not 0, and the other way round.
LEMMA SumPositive ==
  ASSUME NEW l \in LibsType, NEW slot \in Slots, NEW k \in 1 .. Len(l.entries[slot])
  PROVE  Sum(l, l.entries[slot][k].lib) > 0
<1> DEFINE b == l.entries[slot][k].lib
<1>1. /\ Cardinality(At(l.entries["FUNCS"], b)) \in Nat
      /\ Cardinality(At(l.entries["EXITS"], b)) \in Nat
      /\ Cardinality(At(l.entries["SUBCOMS"], b)) \in Nat
    BY LibsFields, AtFinite
<1>2. l.entries[slot] \in Seq(Known)
    BY LibsFields
<1>3. Cardinality(At(l.entries[slot], b)) # 0
    BY <1>2, AtFinite
<1> HIDE DEF b
<1>4. slot \in {"FUNCS", "EXITS", "SUBCOMS"}
    BY DEF Slots
<1> QED  BY <1>1, <1>3, <1>4 DEF Sum, b

\* Nothing is unmapped unless it is safe.
Keeps(m, l) == \A b \in Lib \cup {Exe} : Mapped(l, b) => Mapped(m, b)
LEMMA UnlinkKeeps ==
  ASSUME NEW l \in LibsType, NEW safe
  PROVE  LET m == unlink_orphaned_libs(l, safe)
         IN  /\ m \in LibsType /\ m.linked = l.linked /\ m.entries = l.entries /\ m.used = l.used
             /\ ~safe => m = l
<1>1. ASSUME NEW x \in LibsType
      PROVE  LET y == [x EXCEPT !.orphans = [b \in Lib |-> 0]]
             IN  y \in LibsType /\ y.linked = x.linked /\ y.entries = x.entries /\ y.used = x.used
    BY DEF LibsType
<1>2. CASE safe
    BY <1>1, <1>2 DEF unlink_orphaned_libs
<1>3. CASE ~safe
    BY <1>3 DEF unlink_orphaned_libs
<1> QED  BY <1>2, <1>3

Orphaned(l, b) == [l EXCEPT !.linked = @ \ {b}, !.orphans[b] = @ + 1]
LEMMA OrphanedFacts ==
  ASSUME NEW l \in LibsType, NEW b \in Lib
  PROVE  LET m == Orphaned(l, b)
         IN  /\ m \in LibsType /\ m.linked = l.linked \ {b} /\ m.entries = l.entries
             /\ m.used = l.used /\ Keeps(m, l)
<1> DEFINE m == Orphaned(l, b)
           f == [l.orphans EXCEPT ![b] = l.orphans[b] + 1]
           S == l.linked \ {b}
<1>1. l.orphans \in [Lib -> Nat] /\ l.linked \in SUBSET Lib
    BY LibsFields
<1>2. /\ f \in [Lib -> Nat] /\ f[b] = l.orphans[b] + 1 /\ S \in SUBSET Lib
      /\ \A c \in Lib : c # b => f[c] = l.orphans[c]
    BY <1>1
<1> DEFINE Both(x, T, g) == [x EXCEPT !.linked = T, !.orphans = g]
<1>3. m = Both(l, S, f)
    BY DEF Orphaned, LibsType
<1> HIDE DEF f
<1>4. ASSUME NEW x \in LibsType, NEW T \in SUBSET Lib, NEW g \in [Lib -> Nat]
      PROVE  /\ Both(x, T, g) \in LibsType /\ Both(x, T, g).linked = T
             /\ Both(x, T, g).entries = x.entries /\ Both(x, T, g).used = x.used
             /\ Both(x, T, g).orphans = g
    BY DEF LibsType
<1> HIDE DEF S, Both, m
<1>5. /\ m \in LibsType /\ m.linked = S /\ m.entries = l.entries /\ m.used = l.used
      /\ m.orphans = f
    BY <1>2, <1>3, <1>4
<1>6. Keeps(m, l)
  <2> SUFFICES ASSUME NEW c \in Lib \cup {Exe}, Mapped(l, c)  PROVE Mapped(m, c)
      BY DEF Keeps
  <2>1. CASE c = Exe
      BY <2>1 DEF Mapped
  <2>2. CASE c = b
    <3>1. m.orphans[b] > 0
        BY <1>1, <1>2, <1>5
    <3> QED  BY <2>2, <3>1 DEF Mapped
  <2>3. CASE c \in Lib /\ c # b
    <3>1. m.orphans[c] = l.orphans[c] /\ ((c \in m.linked) <=> (c \in l.linked))
        BY <1>2, <1>5, <2>3 DEF S
    <3> QED  BY <2>3, <3>1 DEF Mapped
  <2> QED  BY <2>1, <2>2, <2>3
<1> QED  BY <1>5, <1>6 DEF m, S

\* A library is given up: unmapped at once only when that is safe.
LEMMA LibraryRemoved ==
  ASSUME NEW l \in LibsType, NEW b \in Lib, NEW safe
  PROVE  LET m == remove_library(l, b, safe)
         IN  /\ m \in LibsType /\ m.linked = l.linked \ {b} /\ m.entries = l.entries
             /\ m.used = l.used /\ (~safe => Keeps(m, l))
<1> DEFINE o == Orphaned(l, b)
<1>1. /\ o \in LibsType /\ o.linked = l.linked \ {b} /\ o.entries = l.entries
      /\ o.used = l.used /\ Keeps(o, l)
    BY OrphanedFacts
<1>2. remove_library(l, b, safe) = unlink_orphaned_libs(o, safe)
    BY DEF remove_library, Orphaned
<1> HIDE DEF o
<1> QED  BY <1>1, <1>2, UnlinkKeeps

LEMMA KeepsSame ==
  ASSUME NEW l \in LibsType, NEW m \in LibsType, l.linked \subseteq m.linked, m.orphans = l.orphans
  PROVE  Keeps(m, l)
BY DEF Keeps, Mapped
LEMMA KeepsTwice ==
  ASSUME NEW l, NEW m, NEW n, Keeps(m, l), Keeps(n, m)
  PROVE  Keeps(n, l)
BY DEF Keeps

\* What an operation on the libraries leaves.
Good(m, l, safe) == m \in LibsType /\ Counted(m) /\ (~safe => Keeps(m, l))
LEMMA GoodItself ==
  ASSUME NEW l \in LibsType, Counted(l), NEW safe
  PROVE  Good(l, l, safe)
BY DEF Good, Keeps

LEMMA EntryRemoved ==
  ASSUME NEW l \in LibsType, Counted(l), NEW slot \in Slots,
         NEW k \in 1 .. Len(l.entries[slot]), NEW safe
  PROVE  Good(remove_entry(l, slot, k, safe), l, safe)
<1> DEFINE s == l.entries[slot]
           b == s[k].lib
           t == RemoveAt(s, k)
           rest == WithEntries(l, slot, t)
<1>1. s \in Seq(Known) /\ b \in Lib \cup {Exe} /\ l.used \in [Lib -> Int] /\ l.linked \in SUBSET Lib
  <2>1. s \in Seq(Known) /\ s[k] \in Known
      BY LibsFields
  <2> QED  BY <2>1, LibsFields DEF Known
<1>2. /\ t \in Seq(Known)
      /\ \A c : Cardinality(At(t, c)) = Cardinality(At(s, c)) - (IF b = c THEN 1 ELSE 0)
    BY <1>1, CountTaken
<1>3. /\ rest \in LibsType /\ rest.linked = l.linked /\ rest.used = l.used
      /\ rest.orphans = l.orphans /\ rest.entries[slot] = t
      /\ \A u \in Slots : u # slot => rest.entries[u] = l.entries[u]
  <2> HIDE DEF t
  <2> QED  BY <1>2, EntriesSet
<1>4. remove_entry(l, slot, k, safe) =
        IF b = Exe THEN rest
        ELSE IF l.used[b] > 1 THEN WithUsed(rest, b, rest.used[b] - 1)
        ELSE remove_library(WithUsed(rest, b, 0), b, safe)
  <2>1. rest = [l EXCEPT !.entries[slot] = RemoveAt(@, k)]
      BY DEF WithEntries
  <2> QED  BY <2>1 DEF remove_entry, WithUsed
<1>5. Sum(l, b) > 0
    BY SumPositive
<1> HIDE DEF t, rest, b, s
<1>6. \A c : Sum(l, c) \in Nat
    BY LibsFields
<1>7. \A c : /\ c = b => Sum(rest, c) = Sum(l, c) - 1
             /\ c # b => Sum(rest, c) = Sum(l, c)
  <2> SUFFICES ASSUME NEW c
               PROVE  /\ c = b => Sum(rest, c) = Sum(l, c) - 1
                      /\ c # b => Sum(rest, c) = Sum(l, c)
      OBVIOUS
  <2>1. Cardinality(At(s, c)) \in Nat
      BY <1>1, AtFinite
  <2>2. CASE c = b
    <3>1. Cardinality(At(rest.entries[slot], c)) = Cardinality(At(l.entries[slot], c)) + (-1)
        BY <1>2, <1>3, <2>1, <2>2 DEF s
    <3>2. Sum(rest, c) = Sum(l, c) + (-1)
        BY <1>3, <3>1, SumChanged
    <3> QED  BY <1>6, <2>2, <3>2
  <2>3. CASE c # b
    <3>1. Cardinality(At(rest.entries[slot], c)) = Cardinality(At(l.entries[slot], c)) + 0
        BY <1>2, <1>3, <2>1, <2>3 DEF s
    <3>2. Sum(rest, c) = Sum(l, c) + 0
        BY <1>3, <3>1, SumChanged
    <3> QED  BY <1>6, <2>3, <3>2
  <2> QED  BY <2>2, <2>3
<1>8. CASE b = Exe
  <2>1. \A c \in Lib : c # b
      BY <1>8, ApiAssumption DEF ApiAssumption
  <2>2. Counted(rest)
      BY <1>3, <1>7, <2>1 DEF Counted
  <2>3. Keeps(rest, l)
      BY <1>3, KeepsSame
  <2> QED  BY <1>3, <1>4, <1>8, <2>2, <2>3 DEF Good
<1>9. CASE b # Exe /\ l.used[b] > 1
  <2> DEFINE m == WithUsed(rest, b, rest.used[b] - 1)
  <2>1. b \in Lib /\ rest.used[b] - 1 \in Int /\ l.used[b] \in Int
      BY <1>1, <1>3, <1>9
  <2>2. /\ m \in LibsType /\ m.linked = rest.linked /\ m.entries = rest.entries
        /\ m.orphans = rest.orphans /\ m.used[b] = rest.used[b] - 1
        /\ \A c \in Lib : c # b => m.used[c] = rest.used[c]
      BY <1>3, <2>1, UsedSet
  <2>3. remove_entry(l, slot, k, safe) = m
      BY <1>4, <1>9
  <2> HIDE DEF m
  <2>4. \A c : Sum(m, c) = Sum(rest, c)
      BY <1>3, <2>2, SumSame
  <2>5. Counted(m)
      BY <1>3, <1>6, <1>7, <1>9, <2>1, <2>2, <2>4 DEF Counted
  <2>6. Keeps(m, l)
      BY <1>3, <2>2, KeepsSame
  <2> QED  BY <2>2, <2>3, <2>5, <2>6 DEF Good
<1>10. CASE b # Exe /\ ~(l.used[b] > 1)
  <2> DEFINE z == WithUsed(rest, b, 0)
             m == remove_library(z, b, safe)
  <2>1. b \in Lib /\ l.used[b] \in Int
      BY <1>1, <1>10
  <2>2. /\ z \in LibsType /\ z.linked = rest.linked /\ z.entries = rest.entries
        /\ z.orphans = rest.orphans /\ z.used[b] = 0
        /\ \A c \in Lib : c # b => z.used[c] = rest.used[c]
    <3>1. ASSUME NEW n \in Int, n = 0
          PROVE  LET y == WithUsed(rest, b, n)
                 IN  /\ y \in LibsType /\ y.linked = rest.linked /\ y.entries = rest.entries
                     /\ y.orphans = rest.orphans /\ y.used[b] = n
                     /\ \A c \in Lib : c # b => y.used[c] = rest.used[c]
        BY <1>3, <2>1, UsedSet
    <3> QED  BY <3>1
  <2>3. remove_entry(l, slot, k, safe) = m
      BY <1>4, <1>10
  <2> HIDE DEF z
  <2>4. /\ m \in LibsType /\ m.linked = z.linked \ {b} /\ m.entries = z.entries
        /\ m.used = z.used /\ (~safe => Keeps(m, z))
      BY <2>1, <2>2, LibraryRemoved
  <2> HIDE DEF m
  <2>5. \A c : Sum(m, c) = Sum(rest, c)
      BY <1>3, <2>2, <2>4, SumSame
  <2>6. Sum(rest, b) = 0
      BY <1>5, <1>6, <1>7, <1>10, <2>1 DEF Counted
  <2>7. Counted(m)
      BY <1>3, <1>6, <1>7, <2>1, <2>2, <2>4, <2>5, <2>6 DEF Counted
  <2>8. Keeps(z, l)
      BY <1>3, <2>2, KeepsSame
  <2>9. ~safe => Keeps(m, l)
      BY <2>4, <2>8, KeepsTwice
  <2> QED  BY <2>3, <2>4, <2>7, <2>9 DEF Good
<1> QED  BY <1>8, <1>9, <1>10

\* An entry is made: it counts for its library, which is in use.
Made(l, slot, name, b) ==
  add_entry(IF b = Exe THEN l ELSE [l EXCEPT !.used[b] = @ + 1], slot, name, b)
LEMMA MadeFacts ==
  ASSUME NEW l \in LibsType, NEW slot \in Slots, NEW name \in Names, NEW b \in Lib \cup {Exe}
  PROVE  LET m == Made(l, slot, name, b)
         IN  /\ m \in LibsType /\ m.linked = l.linked /\ m.orphans = l.orphans
             /\ \A c \in Lib : /\ c = b => m.used[c] = l.used[c] + 1 /\ Sum(m, c) = Sum(l, c) + 1
                               /\ c # b => m.used[c] = l.used[c] /\ Sum(m, c) = Sum(l, c)
<1> DEFINE e == [name |-> name, lib |-> b]
           u == IF b = Exe THEN l ELSE WithUsed(l, b, l.used[b] + 1)
           s == l.entries[slot]
           t == <<e>> \o s
           m == WithEntries(u, slot, t)
<1>1. e \in Known /\ e.lib = b
    BY DEF Known
<1>2. /\ u \in LibsType /\ u.linked = l.linked /\ u.orphans = l.orphans /\ u.entries = l.entries
      /\ \A c \in Lib : /\ c = b => u.used[c] = l.used[c] + 1
                        /\ c # b => u.used[c] = l.used[c]
  <2>1. CASE b = Exe
    <3>1. b \notin Lib
        BY <2>1, ApiAssumption DEF ApiAssumption
    <3> QED  BY <2>1, <3>1
  <2>2. CASE b # Exe
    <3>1. b \in Lib /\ l.used[b] + 1 \in Int
        BY <2>2, LibsFields
    <3> DEFINE n == l.used[b] + 1
               w == WithUsed(l, b, n)
    <3>2. u = w
        BY <2>2
    <3> HIDE DEF n, u
    <3>3. n \in Int /\ n = l.used[b] + 1
        BY <3>1 DEF n
    <3>4. /\ w \in LibsType /\ w.linked = l.linked /\ w.entries = l.entries
          /\ w.orphans = l.orphans /\ w.used[b] = n
          /\ \A c \in Lib : c # b => w.used[c] = l.used[c]
        BY <3>1, <3>3, UsedSet
    <3> HIDE DEF w
    <3> QED  BY <3>2, <3>3, <3>4
  <2> QED  BY <2>1, <2>2
<1>3. Made(l, slot, name, b) = WithEntries(u, slot, <<e>> \o u.entries[slot])
  <2>1. u = IF b = Exe THEN l ELSE [l EXCEPT !.used[b] = @ + 1]
      BY DEF WithUsed
  <2> HIDE DEF u
  <2> QED  BY <2>1 DEF Made, add_entry, WithEntries
<1> HIDE DEF u, e
<1>4. s \in Seq(Known)
    BY LibsFields
<1>5. /\ t \in Seq(Known)
      /\ \A c : Cardinality(At(t, c)) = Cardinality(At(s, c)) + (IF b = c THEN 1 ELSE 0)
    BY <1>1, <1>4, CountAdded
<1>6. Made(l, slot, name, b) = m
    BY <1>2, <1>3
<1> HIDE DEF t
<1>7. /\ m \in LibsType /\ m.linked = u.linked /\ m.used = u.used /\ m.orphans = u.orphans
      /\ m.entries[slot] = t
      /\ \A v \in Slots : v # slot => m.entries[v] = u.entries[v]
    BY <1>2, <1>5, EntriesSet
<1> HIDE DEF m, s
<1>8. ASSUME NEW c \in Lib
      PROVE  /\ c = b => Sum(m, c) = Sum(l, c) + 1
             /\ c # b => Sum(m, c) = Sum(l, c)
  <2>1. Sum(l, c) \in Nat /\ Cardinality(At(s, c)) \in Nat
      BY <1>4, LibsFields, AtFinite
  <2>2. CASE c = b
    <3>1. Cardinality(At(m.entries[slot], c)) = Cardinality(At(l.entries[slot], c)) + 1
        BY <1>5, <1>7, <2>2 DEF s
    <3>2. \A v \in Slots : v # slot => m.entries[v] = l.entries[v]
        BY <1>2, <1>7
    <3>3. ASSUME NEW d \in Int, d = 1  PROVE Sum(m, c) = Sum(l, c) + d
        BY <1>7, <3>1, <3>2, <3>3, SumChanged
    <3> QED  BY <2>2, <3>3
  <2>3. CASE c # b
    <3>1. Cardinality(At(m.entries[slot], c)) = Cardinality(At(l.entries[slot], c)) + 0
        BY <1>5, <1>7, <2>1, <2>3 DEF s
    <3>2. \A v \in Slots : v # slot => m.entries[v] = l.entries[v]
        BY <1>2, <1>7
    <3>3. ASSUME NEW d \in Int, d = 0  PROVE Sum(m, c) = Sum(l, c) + d
        BY <1>7, <3>1, <3>2, <3>3, SumChanged
    <3> QED  BY <2>1, <2>3, <3>3
  <2> QED  BY <2>2, <2>3
<1> QED  BY <1>2, <1>6, <1>7, <1>8

\* The entry is made, or the libraries stay as they are.
LEMMA LoadedEntry ==
  ASSUME NEW l, NEW slot \in Slots, NEW name, NEW b, NEW exported
  PROVE  LET made == load_entry(l, slot, name, b, exported)
         IN  \/ made.libs = l /\ made.rc \in {1, 3}
             \/ /\ made.libs = Made(l, slot, name, b) /\ made.rc \in {0, 2}
                /\ slot = "FUNCS" => made.rc = 0
<1> DEFINE k == find_entry_point(l, slot, name, b)
           taken == k # None /\ (slot = "FUNCS" \/ l.entries[slot][k].lib = b)
           made == load_entry(l, slot, name, b, exported)
<1>1. made = IF taken THEN [libs |-> l, rc |-> 1]
             ELSE IF b # Exe /\ ~exported THEN [libs |-> l, rc |-> 3]
             ELSE [libs |-> Made(l, slot, name, b), rc |-> IF k = None THEN 0 ELSE 2]
    BY DEF load_entry, Made
<1>2. ~taken /\ slot = "FUNCS" => k = None
    OBVIOUS
<1> HIDE DEF taken, k, made
<1>3. CASE taken
    BY <1>1, <1>3 DEF made
<1>4. CASE ~taken /\ b # Exe /\ ~exported
    BY <1>1, <1>4 DEF made
<1>5. CASE ~taken /\ ~(b # Exe /\ ~exported)
  <2>1. made = [libs |-> Made(l, slot, name, b), rc |-> IF k = None THEN 0 ELSE 2]
      BY <1>1, <1>5
  <2>2. made.libs = Made(l, slot, name, b) /\ made.rc = IF k = None THEN 0 ELSE 2
      BY <2>1
  <2> QED  BY <1>2, <1>5, <2>2 DEF made
<1> QED  BY <1>3, <1>4, <1>5

\* A library is loaded and given up again, and an entry is made.
Undone(l, b, safe) == remove_library(insert_library(l, b), b, safe)
LEMMA LoadedFacts ==
  ASSUME NEW l \in LibsType, NEW b \in Lib \cup {Exe}
  PROVE  LET m == Loaded(l, b)
         IN  /\ m \in LibsType /\ m.entries = l.entries /\ m.orphans = l.orphans /\ m.used = l.used
             /\ m.linked = l.linked \cup (Lib \cap {b})
<1>1. CASE b = Exe
    BY <1>1, ApiAssumption DEF ApiAssumption, Loaded
<1>2. CASE b # Exe /\ b \in l.linked
    BY <1>2 DEF Loaded, find_library
<1>3. CASE b # Exe /\ b \notin l.linked
  <2> DEFINE S == l.linked \cup {b}
             m == WithLinked(l, S)
  <2>1. S \in SUBSET Lib /\ b \in Lib
      BY <1>3, LibsFields
  <2>2. Loaded(l, b) = m
      BY <1>3 DEF Loaded, find_library, insert_library, WithLinked
  <2> HIDE DEF S
  <2>3. m \in LibsType /\ m.linked = S /\ m.entries = l.entries /\ m.orphans = l.orphans
        /\ m.used = l.used
      BY <2>1, LinkedSet
  <2> HIDE DEF m
  <2> QED  BY <2>1, <2>2, <2>3 DEF S
<1> QED  BY <1>1, <1>2, <1>3

LEMMA UndoneGood ==
  ASSUME NEW l \in LibsType, Counted(l), NEW b \in Lib, b \notin l.linked, NEW safe
  PROVE  Good(Undone(l, b, safe), l, safe)
<1> DEFINE i == Loaded(l, b)
           m == remove_library(i, b, safe)
<1>1. i = insert_library(l, b)
    BY ApiAssumption DEF ApiAssumption, Loaded, find_library
<1>2. /\ i \in LibsType /\ i.entries = l.entries /\ i.orphans = l.orphans /\ i.used = l.used
      /\ i.linked = l.linked \cup {b}
    BY LoadedFacts
<1>3. Undone(l, b, safe) = m
    BY <1>1 DEF Undone
<1> HIDE DEF i
<1>4. /\ m \in LibsType /\ m.linked = i.linked \ {b} /\ m.entries = i.entries
      /\ m.used = i.used /\ (~safe => Keeps(m, i))
    BY <1>2, LibraryRemoved
<1> HIDE DEF m
<1>5. m.linked = l.linked /\ m.used = l.used /\ \A c : Sum(m, c) = Sum(l, c)
    BY <1>2, <1>4, SumSame
<1>6. Counted(m)
    BY <1>5 DEF Counted
<1>7. Keeps(i, l)
    BY <1>2, KeepsSame
<1>8. ~safe => Keeps(m, l)
    BY <1>4, <1>7, KeepsTwice
<1> QED  BY <1>3, <1>4, <1>6, <1>8 DEF Good

LEMMA MadeGood ==
  ASSUME NEW l \in LibsType, Counted(l), NEW slot \in Slots, NEW name \in Names,
         NEW b \in Lib \cup {Exe}, NEW safe
  PROVE  Good(Made(Loaded(l, b), slot, name, b), l, safe)
<1> DEFINE i == Loaded(l, b)
           m == Made(i, slot, name, b)
<1>1. /\ i \in LibsType /\ i.entries = l.entries /\ i.orphans = l.orphans /\ i.used = l.used
      /\ i.linked = l.linked \cup (Lib \cap {b})
    BY LoadedFacts
<1> HIDE DEF i
<1>2. /\ m \in LibsType /\ m.linked = i.linked /\ m.orphans = i.orphans
      /\ \A c \in Lib : /\ c = b => m.used[c] = i.used[c] + 1 /\ Sum(m, c) = Sum(i, c) + 1
                        /\ c # b => m.used[c] = i.used[c] /\ Sum(m, c) = Sum(i, c)
    BY <1>1, MadeFacts
<1> HIDE DEF m
<1>3. \A c \in Lib : Sum(i, c) = Sum(l, c) /\ Sum(l, c) \in Nat
    BY <1>1, SumSame, LibsFields
<1>4. ASSUME NEW c \in Lib
      PROVE  m.used[c] = Sum(m, c) /\ ((c \in m.linked) <=> (m.used[c] > 0))
  <2>1. l.used[c] = Sum(l, c) /\ ((c \in l.linked) <=> (l.used[c] > 0))
      BY DEF Counted
  <2>2. CASE c = b
    <3>1. m.used[c] = l.used[c] + 1 /\ Sum(m, c) = Sum(l, c) + 1 /\ c \in m.linked
        BY <1>1, <1>2, <1>3, <2>2
    <3> QED  BY <1>3, <2>1, <3>1
  <2>3. CASE c # b
    <3>1. m.used[c] = l.used[c] /\ Sum(m, c) = Sum(l, c) /\ ((c \in m.linked) <=> (c \in l.linked))
        BY <1>1, <1>2, <1>3, <2>3
    <3> QED  BY <2>1, <3>1
  <2> QED  BY <2>2, <2>3
<1>5. Counted(m)
    BY <1>4 DEF Counted
<1>6. Keeps(m, l)
    BY <1>1, <1>2, KeepsSame
<1> QED  BY <1>2, <1>5, <1>6 DEF Good, m, i

LEMMA FuncAdded ==
  ASSUME NEW l \in LibsType, Counted(l), NEW name \in Names, NEW b \in Lib \cup {Exe},
         NEW loads, NEW exported, NEW safe
  PROVE  Good(rex_funcadd(l, name, b, loads, exported, safe), l, safe)
<1> DEFINE fresh == b # Exe /\ ~find_library(l, b)
           i == Loaded(l, b)
           made == load_entry(i, "FUNCS", name, b, exported)
           m == rex_funcadd(l, name, b, loads, exported, safe)
<1>1. m = IF fresh /\ ~loads THEN l
          ELSE IF fresh /\ made.rc # 0 THEN remove_library(made.libs, b, safe) ELSE made.libs
    BY DEF rex_funcadd
<1>2. \/ made.libs = i /\ made.rc \in {1, 3}
      \/ made.libs = Made(i, "FUNCS", name, b) /\ made.rc = 0
  <2>1. "FUNCS" \in Slots
      BY DEF Slots
  <2>2. \/ made.libs = i /\ made.rc \in {1, 3}
        \/ /\ made.libs = Made(i, "FUNCS", name, b) /\ made.rc \in {0, 2}
           /\ "FUNCS" = "FUNCS" => made.rc = 0
      BY <2>1, LoadedEntry
  <2> QED  BY <2>2
<1>3. /\ fresh => b \in Lib /\ b \notin l.linked /\ i = insert_library(l, b)
      /\ ~fresh => i = l
    BY DEF Loaded, find_library
<1> HIDE DEF made, fresh, i, m
<1>4. CASE m = l
    BY <1>4, GoodItself DEF m
<1>5. CASE fresh /\ made.rc # 0 /\ m = remove_library(made.libs, b, safe)
  <2>1. m = Undone(l, b, safe) /\ b \in Lib /\ b \notin l.linked
      BY <1>2, <1>3, <1>5 DEF Undone
  <2>2. Good(Undone(l, b, safe), l, safe)
      BY <2>1, UndoneGood
  <2> QED  BY <2>1, <2>2 DEF m
<1>6. CASE ~(fresh /\ made.rc # 0) /\ m = made.libs
  <2>1. CASE made.libs = i /\ made.rc \in {1, 3}
    <3>1. m = l
        BY <1>3, <1>6, <2>1
    <3> QED  BY <1>4, <3>1
  <2>2. CASE made.libs = Made(i, "FUNCS", name, b)
    <3>1. "FUNCS" \in Slots
        BY DEF Slots
    <3>2. Good(Made(Loaded(l, b), "FUNCS", name, b), l, safe)
        BY <3>1, MadeGood
    <3> QED  BY <1>6, <2>2, <3>2 DEF m, i
  <2> QED  BY <1>2, <2>1, <2>2
<1> QED  BY <1>1, <1>4, <1>5, <1>6

LEMMA HookAdded ==
  ASSUME NEW l \in LibsType, Counted(l), NEW slot \in Slots, NEW name \in Names,
         NEW b \in Lib \cup {Exe}, NEW loads, NEW exported, NEW safe
  PROVE  Good(rex_hookadd(l, slot, name, b, loads, exported, safe), l, safe)
<1> DEFINE fresh == b # Exe /\ ~find_library(l, b)
           i == Loaded(l, b)
           made == load_entry(i, slot, name, b, exported)
           m == rex_hookadd(l, slot, name, b, loads, exported, safe)
<1>1. m = IF fresh /\ ~loads THEN l
          ELSE IF fresh /\ made.rc \notin {0, 2} THEN remove_library(made.libs, b, safe)
          ELSE made.libs
    BY DEF rex_hookadd
<1>2. \/ made.libs = i /\ made.rc \in {1, 3}
      \/ made.libs = Made(i, slot, name, b) /\ made.rc \in {0, 2}
    BY LoadedEntry
<1>3. /\ fresh => b \in Lib /\ b \notin l.linked /\ i = insert_library(l, b)
      /\ ~fresh => i = l
    BY DEF Loaded, find_library
<1> HIDE DEF made, fresh, i, m
<1>4. CASE m = l
    BY <1>4, GoodItself DEF m
<1>5. CASE fresh /\ made.rc \notin {0, 2} /\ m = remove_library(made.libs, b, safe)
  <2>1. m = Undone(l, b, safe) /\ b \in Lib /\ b \notin l.linked
      BY <1>2, <1>3, <1>5 DEF Undone
  <2>2. Good(Undone(l, b, safe), l, safe)
      BY <2>1, UndoneGood
  <2> QED  BY <2>1, <2>2 DEF m
<1>6. CASE ~(fresh /\ made.rc \notin {0, 2}) /\ m = made.libs
  <2>1. CASE made.libs = i /\ made.rc \in {1, 3}
    <3>1. m = l
        BY <1>3, <1>6, <2>1
    <3> QED  BY <1>4, <3>1
  <2>2. CASE made.libs = Made(i, slot, name, b)
    <3>1. Good(Made(Loaded(l, b), slot, name, b), l, safe)
        BY MadeGood
    <3> QED  BY <1>6, <2>2, <3>1 DEF m, i
  <2> QED  BY <1>2, <2>1, <2>2
<1> QED  BY <1>1, <1>4, <1>5, <1>6

\* What is looked up is an entry of the slot.
LEMMA EntryFound ==
  ASSUME NEW l \in LibsType, NEW slot \in Slots, NEW name, NEW b
  PROVE  LET k == find_entry_point(l, slot, name, b)
         IN  k = None \/ k \in 1 .. Len(l.entries[slot])
<1> DEFINE k == find_entry_point(l, slot, name, b)
           S == Bound(l, slot, name, b)
           T == Named(l, slot, name)
<1>1. l.entries[slot] \in Seq(Known)
    BY LibsFields
<1>2. Len(l.entries[slot]) \in Nat /\ T \subseteq 1 .. Len(l.entries[slot]) /\ S \subseteq T
    BY <1>1 DEF Named, Bound
<1>3. k = IF S # {} THEN Newest(S) ELSE Oldest(T)
    BY DEF find_entry_point
<1> HIDE DEF S, T
<1>4. CASE S # {}
  <2>1. Newest(S) \in S
      BY <1>2, <1>4, LowestOf
  <2> QED  BY <1>2, <1>3, <1>4, <2>1
<1>5. CASE S = {} /\ T # {}
  <2>1. Oldest(T) \in T
      BY <1>2, <1>5, OldestOf
  <2> QED  BY <1>2, <1>3, <1>5, <2>1
<1>6. CASE S = {} /\ T = {}
    BY <1>3, <1>6 DEF Oldest
<1> QED  BY <1>4, <1>5, <1>6

LEMMA EntryUnloaded ==
  ASSUME NEW l \in LibsType, Counted(l), NEW slot \in Slots, NEW name, NEW b, NEW safe
  PROVE  Good(unload_entry(l, slot, name, b, safe), l, safe)
<1> DEFINE k == find_entry_point(l, slot, name, b)
           m == unload_entry(l, slot, name, b, safe)
<1>1. m = l \/ (k # None /\ m = remove_entry(l, slot, k, safe))
    BY DEF unload_entry
<1>2. k = None \/ k \in 1 .. Len(l.entries[slot])
    BY EntryFound
<1> HIDE DEF k, m
<1>3. CASE m = l
    BY <1>3, GoodItself DEF m
<1>4. CASE k # None /\ m = remove_entry(l, slot, k, safe)
  <2>1. k \in 1 .. Len(l.entries[slot])
      BY <1>2, <1>4
  <2>2. Good(remove_entry(l, slot, k, safe), l, safe)
      BY <2>1, EntryRemoved
  <2> QED  BY <1>4, <2>2 DEF m
<1> QED  BY <1>1, <1>3, <1>4

-----------------------------------------------------------------------------
(* The steps keep the invariants.                                          *)

Inv == IInv /\ HInv /\ LInv

\* The RexxStarts that run.
LEMMA StartsFinite ==
  ASSUME IInv
  PROVE  /\ Starts = {k \in 1 .. Len(frames) : frames[k].kind = "start"}
         /\ IsFiniteSet(Starts) /\ Cardinality(Starts) \in Nat
         /\ (Cardinality(Starts) = 0) <=> (Starts = {})
<1>1. frames \in Seq(Frame) /\ Len(frames) \in Nat
    BY DEF IInv, Stack
<1>2. Starts = {k \in 1 .. Len(frames) : frames[k].kind = "start"}
    BY <1>1 DEF Starts
<1>3. IsFiniteSet(1 .. Len(frames)) /\ Starts \in SUBSET (1 .. Len(frames))
    BY <1>1, <1>2, FS_Interval
<1>4. IsFiniteSet(Starts)
    BY <1>3, FS_Subset
<1> QED  BY <1>2, <1>4, FS_CardinalityType, FS_EmptySet

\* While anything runs, the newest list of exits is in force.
LEMMA InForce ==
  ASSUME Inv, frames # <<>>, handlers # <<>>
  PROVE  Len(handlers) \in 1 .. Len(handlers) /\ (Len(handlers) > lost \/ MainRuns)
<1>1. handlers \in Seq(Hooks) /\ lost \in Nat /\ Stack(frames) /\ frames \in Seq(Frame)
      /\ Len(handlers) = Cardinality(Starts) + lost
    BY DEF Inv, IInv, HInv, Types, HandlersKept, Stack
<1>2. Len(frames) > 0 /\ Bottom(frames[1]) /\ 1 \in 1 .. Len(frames)
    BY <1>1 DEF Stack
<1>3. CASE frames[1].kind = "start"
  <2>1. Starts # {}
      BY <1>2, <1>3, StartsFinite DEF Inv
  <2>2. Cardinality(Starts) > 0
      BY <2>1, StartsFinite DEF Inv
  <2> QED  BY <1>1, <2>2, StartsFinite DEF Inv
<1>4. CASE frames[1].kind # "start"
  <2>1. MainRuns
      BY <1>2, <1>4 DEF MainRuns, Bottom
  <2> QED  BY <1>1, <2>1
<1> QED  BY <1>3, <1>4

\* An entry's library is mapped.
LEMMA EntryMapped ==
  ASSUME Inv, NEW s \in Slots, NEW k \in 1 .. Len(libs.entries[s])
  PROVE  Mapped(libs, libs.entries[s][k].lib)
<1> DEFINE b == libs.entries[s][k].lib
<1>1. libs \in LibsType /\ Counted(libs)
    BY DEF Inv, IInv, LInv, Types
<1>2. b \in Lib \cup {Exe}
  <2>1. libs.entries[s] \in Seq(Known)
      BY <1>1, LibsFields
  <2>2. libs.entries[s][k] \in Known
      BY <2>1
  <2> QED  BY <2>2 DEF Known
<1>3. Sum(libs, b) > 0
    BY <1>1, SumPositive
<1> HIDE DEF b
<1>4. b \in Lib => b \in libs.linked
    BY <1>1, <1>3 DEF Counted
<1> QED  BY <1>2, <1>4 DEF Mapped, b

LEMMA ReachMapped ==
  ASSUME Inv, ~BareMain, frames # <<>>, NEW b, Reach(b)
  PROVE  Mapped(libs, b)
<1>1. FramesMapped /\ HandlersMapped
    BY DEF Inv, LInv
<1>2. CASE b = Exe
    BY <1>2 DEF Mapped
<1>3. ASSUME NEW s \in Slots, NEW k \in 1 .. Len(libs.entries[s]), libs.entries[s][k].lib = b
      PROVE  Mapped(libs, b)
    BY <1>3, EntryMapped
<1>4. ASSUME handlers # <<>>, NEW c \in DOMAIN handlers[Len(handlers)],
             handlers[Len(handlers)][c] = b
      PROVE  Mapped(libs, b)
    BY <1>1, <1>4, InForce DEF HandlersMapped
<1>5. ASSUME NEW k \in 1 .. Len(frames), frames[k].kind = "native",
             b \in {frames[k].lib, frames[k].then.lib}
      PROVE  Mapped(libs, b)
    BY <1>1, <1>5 DEF FramesMapped
<1> QED  BY <1>2, <1>3, <1>4, <1>5 DEF Reach

LEMMA QuietStep ==
  ASSUME Inv, Steady(frames'), UNCHANGED <<libs, handlers, basefile, lost>>
  PROVE  Inv'
<1>1. IInv'
    BY DEF Inv, IInv, Types, Steady
<1>2. /\ Len(frames) > 0 /\ Len(frames') > 0 /\ Stack(frames) /\ Stack(frames')
      /\ Len(frames) \in Nat /\ Len(frames') \in Nat /\ frames # <<>> /\ frames' # <<>>
      /\ 1 \in 1 .. Len(frames')
    BY DEF Inv, IInv, Steady, Quiet, Stack
<1>3. /\ Starts = {k \in 1 .. Len(frames) : frames[k].kind = "start"}
      /\ Starts' = {k \in 1 .. Len(frames') : frames'[k].kind = "start"}
    BY <1>2 DEF Stack, Starts
<1>4. \A k \in 1 .. Len(frames') : \/ k \in 1 .. Len(frames) /\ Like(frames'[k], frames[k])
                                   \/ k > 1 /\ Joins(frames'[k])
    BY <1>2 DEF Steady, Quiet
<1>5. \A k \in 1 .. Len(frames) : frames[k].kind = "start" =>
          k \in 1 .. Len(frames') /\ Like(frames'[k], frames[k])
    BY <1>2 DEF Steady, Quiet
<1>6. Starts' = Starts /\ \A k \in Starts : frames'[k].exits = frames[k].exits
  <2>1. \A k \in Starts' : k \in Starts
      BY <1>3, <1>4 DEF Like, Joins
  <2>2. \A k \in Starts : k \in Starts' /\ frames'[k].exits = frames[k].exits
      BY <1>3, <1>5 DEF Like
  <2> QED  BY <2>1, <2>2
<1>7. HInv'
  <2>1. \A k : Depth(k)' = Depth(k)
      BY <1>6 DEF Depth
  <2>2. /\ Len(handlers) = Cardinality(Starts) + lost
        /\ lost = 0 => \A k \in Starts : DOMAIN handlers[Depth(k)] = frames[k].exits
      BY DEF Inv, HInv, HandlersKept
  <2>3. handlers' = handlers /\ lost' = lost
      OBVIOUS
  <2>4. Len(handlers') = Cardinality(Starts') + lost'
      BY <1>6, <2>2, <2>3
  <2>5. ASSUME lost' = 0, NEW k \in Starts'
        PROVE  DOMAIN handlers'[Depth(k)'] = frames'[k].exits
      BY <1>6, <2>1, <2>2, <2>3, <2>5
  <2> QED  BY <2>4, <2>5 DEF HInv, HandlersKept
<1>8. Like(frames'[1], frames[1])
    BY <1>2, <1>4
<1>9. (MainRuns' <=> MainRuns) /\ (BareMain' <=> BareMain)
  <2>1. MainRuns' <=> MainRuns
      BY <1>2, <1>8 DEF MainRuns, Like, IsScript
  <2>2. MainRuns => (frames'[1].bared <=> frames[1].bared)
      BY <1>8 DEF MainRuns, Like, IsScript
  <2> QED  BY <2>1, <2>2 DEF BareMain
<1>10. LInv'
  <2>1. Counted(libs)'
      BY DEF Inv, LInv, Counted, Sum
  <2> SUFFICES ASSUME ~BareMain  PROVE (FramesMapped /\ HandlersMapped)'
      BY <1>9, <2>1 DEF LInv
  <2>2. FramesMapped /\ HandlersMapped
      BY DEF Inv, LInv
  <2>3. FramesMapped'
    <3> SUFFICES ASSUME NEW k \in 1 .. Len(frames'), frames'[k].kind = "native"
                 PROVE  Mapped(libs, frames'[k].lib) /\ Mapped(libs, frames'[k].then.lib)
        BY DEF FramesMapped, Mapped
    <3>1. CASE k \in 1 .. Len(frames) /\ Like(frames'[k], frames[k])
        BY <2>2, <3>1 DEF FramesMapped, Like
    <3>2. CASE Joins(frames'[k])
        BY <1>2, <3>2, ReachMapped DEF Joins
    <3> QED  BY <1>4, <3>1, <3>2
  <2>4. HandlersMapped'
      BY <1>9, <2>2 DEF HandlersMapped, Mapped
  <2> QED  BY <2>3, <2>4
<1> QED  BY <1>1, <1>7, <1>10 DEF Inv

\* It is safe to unmap libraries when nothing runs, or only in the first system, and
\* that has lost its name.
LEMMA SafeMeans ==
  ASSUME Inv, Safe, frames # <<>>, Top.kind # "start"
  PROVE  BareMain
<1>1. Stack(frames) /\ Len(frames) > 0 /\ frames[Len(frames)].kind # "start" /\ Len(frames) \in Nat
    BY TopFacts DEF Inv, IInv
<1>2. System \in 1 .. Len(frames) /\ frames[System] \in ScriptType
    BY <1>1, SysThere, TheSystem
<1>3. frames[System].how = "main" /\ ~frames[System].file /\ frames[System].kind = "script"
    BY <1>2 DEF Safe, IsSafe, HasFile, OfMain, ScriptType
<1>4. Sound(frames[System])
    BY <1>1, <1>2 DEF Stack
<1>5. frames[System].bared
    BY <1>3, <1>4 DEF Sound, IsScript
<1>6. System = 1
  <2>1. ASSUME System > 1  PROVE FALSE
    <3>1. System - 1 \in 1 .. Len(frames) - 1 /\ System - 1 + 1 = System
        BY <1>1, <1>2, <2>1
    <3>2. On(frames[System], frames[System - 1])
        BY <1>1, <3>1 DEF Stack
    <3> QED  BY <1>3, <3>2 DEF On, IsScript
  <2> QED  BY <1>1, <1>2, <2>1
<1> QED  BY <1>3, <1>5, <1>6 DEF BareMain, MainRuns, IsScript

\* Something is registered or is not any more.
LEMMA LibsStep ==
  ASSUME Inv, Good(libs', libs, Safe), UNCHANGED <<handlers, frames, basefile, lost>>,
         frames # <<>> => Top.kind # "start"
  PROVE  Inv'
<1>1. IInv'
    BY DEF Inv, IInv, Types, Good
<1>2. HInv'
  <2>1. Starts' = Starts
      BY DEF Starts
  <2>2. \A k : Depth(k)' = Depth(k)
      BY <2>1 DEF Depth
  <2> QED  BY <2>1, <2>2 DEF Inv, HInv, HandlersKept
<1>3. Counted(libs)'
    BY DEF Good, Counted, Sum
<1>4. (MainRuns' <=> MainRuns) /\ (BareMain' <=> BareMain)
    BY DEF MainRuns, BareMain
<1>5. CASE ~Safe
  <2>1. \A b \in Lib \cup {Exe} : Mapped(libs, b) => Mapped(libs, b)'
      BY <1>5 DEF Good, Keeps, Mapped
  <2> SUFFICES ASSUME ~BareMain  PROVE (FramesMapped /\ HandlersMapped)'
      BY <1>1, <1>2, <1>3, <1>4 DEF Inv, LInv
  <2>2. FramesMapped /\ HandlersMapped /\ frames \in Seq(Frame) /\ handlers \in Seq(Hooks)
      BY DEF Inv, LInv, IInv, Types, Stack
  <2>3. FramesMapped'
    <3> SUFFICES ASSUME NEW k \in 1 .. Len(frames), frames[k].kind = "native"
                 PROVE  Mapped(libs, frames[k].lib)' /\ Mapped(libs, frames[k].then.lib)'
        BY DEF FramesMapped
    <3>1. frames[k] \in NativeType
        BY <2>2, Kinds
    <3>2. frames[k].lib \in Lib \cup {Exe} /\ frames[k].then.lib \in Lib \cup {Exe}
        BY <3>1 DEF NativeType, Known
    <3>3. Mapped(libs, frames[k].lib) /\ Mapped(libs, frames[k].then.lib)
        BY <2>2 DEF FramesMapped
    <3>4. \A b \in Lib \cup {Exe} : Mapped(libs, b) => Mapped(libs', b)
        BY <2>1 DEF Mapped
    <3>5. Mapped(libs', frames[k].lib) /\ Mapped(libs', frames[k].then.lib)
        BY <3>2, <3>3, <3>4
    <3> QED  BY <3>5 DEF Mapped
  <2>4. HandlersMapped'
    <3> SUFFICES ASSUME NEW j \in 1 .. Len(handlers), j > lost \/ MainRuns,
                        NEW c \in DOMAIN handlers[j]
                 PROVE  Mapped(libs', handlers[j][c])
        BY <1>4 DEF HandlersMapped, Mapped
    <3>1. handlers[j][c] \in Lib \cup {Exe}
      <4>1. handlers[j] \in Hooks
          BY <2>2
      <4> QED  BY <4>1 DEF Hooks
    <3>2. Mapped(libs, handlers[j][c])
        BY <2>2 DEF HandlersMapped
    <3>3. \A b \in Lib \cup {Exe} : Mapped(libs, b) => Mapped(libs', b)
        BY <2>1 DEF Mapped
    <3> QED  BY <3>1, <3>2, <3>3
  <2> QED  BY <2>3, <2>4
<1>6. CASE Safe /\ frames # <<>>
  <2>1. BareMain'
      BY <1>4, <1>6, SafeMeans
  <2> QED  BY <1>1, <1>2, <1>3, <2>1 DEF Inv, LInv
<1>7. CASE frames = <<>>
  <2>1. Len(frames) = 0 /\ Starts = {} /\ ~MainRuns
      BY <1>7 DEF Starts, MainRuns
  <2>2. Len(handlers) = lost /\ lost \in Nat
      BY <2>1, FS_EmptySet DEF Inv, HInv, HandlersKept, IInv, Types
  <2>3. FramesMapped'
      BY <2>1 DEF FramesMapped
  <2>4. HandlersMapped'
      BY <1>4, <2>1, <2>2 DEF HandlersMapped
  <2> QED  BY <1>1, <1>2, <1>3, <2>3, <2>4 DEF Inv, LInv
<1> QED  BY <1>5, <1>6, <1>7

LEMMA DepthRange ==
  ASSUME IInv, NEW k \in Starts
  PROVE  Depth(k) \in 1 .. Cardinality(Starts)
<1> DEFINE S == {j \in Starts : j <= k}
<1>1. IsFiniteSet(Starts) /\ Cardinality(Starts) \in Nat /\ Starts \subseteq Int
    BY StartsFinite
<1>2. IsFiniteSet(S) /\ Cardinality(S) <= Cardinality(Starts) /\ k \in S
    BY <1>1, FS_Subset
<1>3. Cardinality(S) \in Nat /\ Cardinality(S) # 0
  <2> HIDE DEF S
  <2> QED  BY <1>2, FS_CardinalityType, FS_EmptySet
<1> QED  BY <1>1, <1>2, <1>3 DEF Depth

LEMMA StartStep ==
  ASSUME Inv, Start
  PROVE  Inv'
<1> DEFINE n == Len(frames)
<1>1. PICK x \in ExitLists : handlers' = Append(handlers, Chosen(x)) /\ Called(frames', x)
    BY StartShape DEF Inv
<1>2. Stack(frames') /\ libs' = libs /\ lost' = lost /\ basefile' \in BOOLEAN
    BY StartShape DEF Start, Inv
<1>3. /\ Chosen(x) \in Hooks
      /\ \A c \in DOMAIN Chosen(x) : \E k \in 1 .. Len(libs.entries["EXITS"]) :
               libs.entries["EXITS"][k].lib = Chosen(x)[c]
    BY ChosenHooks DEF Inv
<1>4. /\ handlers \in Seq(Hooks) /\ n \in Nat /\ lost \in Nat /\ frames \in Seq(Frame)
      /\ libs \in LibsType /\ Stack(frames) /\ IInv
    BY DEF Inv, IInv, Types, Stack
<1> DEFINE h == Chosen(x)
<1> HIDE DEF h
<1>5. /\ handlers' \in Seq(Hooks) /\ Len(handlers') = Len(handlers) + 1
      /\ handlers'[Len(handlers) + 1] = h
      /\ \A j \in 1 .. Len(handlers) : handlers'[j] = handlers[j]
    BY <1>1, <1>3, <1>4 DEF h
<1>6. IInv'
    BY <1>2, <1>4, <1>5 DEF IInv, Types
<1>7. /\ Len(frames') = n + 1 /\ frames'[n + 1].kind = "start" /\ frames'[n + 1].exits = DOMAIN h
      /\ \A k \in 1 .. n : Like(frames'[k], frames[k])
    BY <1>1 DEF Called, h
<1>8. /\ Starts = {k \in 1 .. n : frames[k].kind = "start"}
      /\ Starts' = {k \in 1 .. n + 1 : frames'[k].kind = "start"}
      /\ IsFiniteSet(Starts) /\ Cardinality(Starts) \in Nat
  <2>1. DOMAIN frames' = 1 .. n + 1
      BY <1>2, <1>7 DEF Stack
  <2> QED  BY <1>4, <2>1, StartsFinite DEF Starts
<1>9. Starts' = Starts \cup {n + 1} /\ n + 1 \notin Starts
    BY <1>4, <1>7, <1>8 DEF Like
<1>10. Cardinality(Starts') = Cardinality(Starts) + 1
    BY <1>8, <1>9, FS_AddElement
<1>11. HInv'
  <2>1. /\ Len(handlers) = Cardinality(Starts) + lost
        /\ lost = 0 => \A k \in Starts : DOMAIN handlers[Depth(k)] = frames[k].exits
      BY DEF Inv, HInv, HandlersKept
  <2>2. Len(handlers') = Cardinality(Starts') + lost'
      BY <1>2, <1>4, <1>5, <1>8, <1>10, <2>1
  <2>3. ASSUME lost = 0, NEW k \in Starts'
        PROVE  DOMAIN handlers'[Depth(k)'] = frames'[k].exits
    <3>1. CASE k \in Starts
      <4>1. {j \in Starts' : j <= k} = {j \in Starts : j <= k}
          BY <1>4, <1>8, <1>9, <3>1
      <4>2. Depth(k)' = Depth(k)
          BY <4>1 DEF Depth
      <4>3. Depth(k) \in 1 .. Len(handlers)
          BY <1>4, <1>8, <2>1, <2>3, <3>1, DepthRange
      <4>4. DOMAIN handlers[Depth(k)] = frames[k].exits /\ frames'[k].exits = frames[k].exits
          BY <1>7, <1>8, <2>1, <2>3, <3>1 DEF Like
      <4> QED  BY <1>5, <4>2, <4>3, <4>4
    <3>2. CASE k = n + 1
      <4>1. {j \in Starts' : j <= k} = Starts'
          BY <1>4, <1>8, <3>2
      <4>2. Depth(k)' = Len(handlers) + 1
        <5>1. Depth(k)' = Cardinality(Starts')
            BY <4>1 DEF Depth
        <5>2. Cardinality(Starts') = Len(handlers) + 1
            BY <1>8, <1>10, <2>1, <2>3
        <5> QED  BY <5>1, <5>2
      <4> QED  BY <1>5, <1>7, <3>2, <4>2
    <3> QED  BY <1>9, <3>1, <3>2
  <2> QED  BY <1>2, <2>2, <2>3 DEF HInv, HandlersKept
<1>12. /\ MainRuns' <=> MainRuns
       /\ BareMain' <=> BareMain
  <2>1. CASE n = 0
    <3>1. frames = <<>> /\ frames'[1].kind = "start"
        BY <1>4, <1>7, <2>1
    <3> QED  BY <3>1 DEF MainRuns, BareMain, IsScript
  <2>2. CASE n > 0
    <3>1. frames # <<>> /\ frames' # <<>> /\ Like(frames'[1], frames[1])
        BY <1>2, <1>4, <1>7, <2>2 DEF Stack
    <3> QED  BY <3>1 DEF MainRuns, BareMain, IsScript, Like
  <2> QED  BY <1>4, <2>1, <2>2
<1>13. LInv'
  <2>1. Counted(libs)'
      BY <1>2 DEF Inv, LInv, Counted, Sum
  <2> SUFFICES ASSUME ~BareMain  PROVE (FramesMapped /\ HandlersMapped)'
      BY <1>12, <2>1 DEF LInv
  <2>2. FramesMapped /\ HandlersMapped
      BY DEF Inv, LInv
  <2>3. FramesMapped'
    <3> SUFFICES ASSUME NEW k \in 1 .. n + 1, frames'[k].kind = "native"
                 PROVE  Mapped(libs, frames'[k].lib) /\ Mapped(libs, frames'[k].then.lib)
        BY <1>2, <1>7 DEF FramesMapped, Mapped
    <3>1. k \in 1 .. n
        BY <1>4, <1>7
    <3> QED  BY <1>7, <2>2, <3>1 DEF FramesMapped, Like
  <2>4. HandlersMapped'
    <3> SUFFICES ASSUME NEW j \in 1 .. Len(handlers) + 1, j > lost \/ MainRuns,
                        NEW c \in DOMAIN handlers'[j]
                 PROVE  Mapped(libs, handlers'[j][c])
        BY <1>2, <1>5, <1>12 DEF HandlersMapped, Mapped
    <3>1. CASE j \in 1 .. Len(handlers)
        BY <1>5, <2>2, <3>1 DEF HandlersMapped
    <3>2. CASE j = Len(handlers) + 1
      <4>1. PICK k \in 1 .. Len(libs.entries["EXITS"]) :
                libs.entries["EXITS"][k].lib = handlers'[j][c]
          BY <1>3, <1>5, <3>2 DEF h
      <4>2. "EXITS" \in Slots
          BY DEF Slots
      <4> QED  BY <4>1, <4>2, EntryMapped
    <3> QED  BY <1>4, <3>1, <3>2
  <2> QED  BY <2>3, <2>4
<1> QED  BY <1>6, <1>11, <1>13 DEF Inv

\* The exits of a RexxStart that is refused stay.
LEMMA RefusedStep ==
  ASSUME Inv, StartRefused
  PROVE  Inv'
<1>1. PICK x \in ExitLists : handlers' = Append(handlers, Chosen(x))
    BY DEF StartRefused
<1>2. lost' = lost + 1 /\ UNCHANGED <<libs, frames, basefile>>
    BY DEF StartRefused
<1>3. /\ Chosen(x) \in Hooks
      /\ \A c \in DOMAIN Chosen(x) : \E k \in 1 .. Len(libs.entries["EXITS"]) :
               libs.entries["EXITS"][k].lib = Chosen(x)[c]
    BY ChosenHooks DEF Inv
<1>4. handlers \in Seq(Hooks) /\ lost \in Nat /\ IInv
    BY DEF Inv, IInv, Types
<1> DEFINE h == Chosen(x)
<1> HIDE DEF h
<1>5. /\ handlers' \in Seq(Hooks) /\ Len(handlers') = Len(handlers) + 1
      /\ handlers'[Len(handlers) + 1] = h
      /\ \A j \in 1 .. Len(handlers) : handlers'[j] = handlers[j]
    BY <1>1, <1>3, <1>4 DEF h
<1>6. IInv'
    BY <1>2, <1>4, <1>5 DEF IInv, Types
<1>7. HInv'
  <2>1. Len(handlers) = Cardinality(Starts) + lost
      BY DEF Inv, HInv, HandlersKept
  <2>2. Starts' = Starts /\ Cardinality(Starts) \in Nat
      BY <1>2, <1>4, StartsFinite DEF Starts
  <2>3. Len(handlers') = Cardinality(Starts') + lost' /\ lost' # 0
      BY <1>2, <1>4, <1>5, <2>1, <2>2
  <2> QED  BY <2>3 DEF HInv, HandlersKept
<1>8. /\ MainRuns' <=> MainRuns
      /\ BareMain' <=> BareMain
    BY <1>2 DEF MainRuns, BareMain
<1>9. LInv'
  <2>1. Counted(libs)'
      BY <1>2 DEF Inv, LInv, Counted, Sum
  <2> SUFFICES ASSUME ~BareMain  PROVE (FramesMapped /\ HandlersMapped)'
      BY <1>8, <2>1 DEF LInv
  <2>2. FramesMapped /\ HandlersMapped
      BY DEF Inv, LInv
  <2>3. FramesMapped'
      BY <1>2, <2>2 DEF FramesMapped, Mapped
  <2>4. HandlersMapped'
    <3> SUFFICES ASSUME NEW j \in 1 .. Len(handlers) + 1, j > lost + 1 \/ MainRuns,
                        NEW c \in DOMAIN handlers'[j]
                 PROVE  Mapped(libs, handlers'[j][c])
        BY <1>2, <1>5, <1>8 DEF HandlersMapped, Mapped
    <3>1. CASE j \in 1 .. Len(handlers)
        BY <1>4, <1>5, <2>2, <3>1 DEF HandlersMapped
    <3>2. CASE j = Len(handlers) + 1
      <4>1. PICK k \in 1 .. Len(libs.entries["EXITS"]) :
                libs.entries["EXITS"][k].lib = handlers'[j][c]
          BY <1>3, <1>5, <3>2 DEF h
      <4>2. "EXITS" \in Slots
          BY DEF Slots
      <4> QED  BY <4>1, <4>2, EntryMapped
    <3> QED  BY <1>4, <3>1, <3>2
  <2> QED  BY <2>3, <2>4
<1> QED  BY <1>6, <1>7, <1>9 DEF Inv

\* The innermost RexxStart goes.
OneLess ==
  /\ Len(frames) > 0 /\ frames[Len(frames)].kind = "start" /\ Len(frames') < Len(frames)
  /\ \A k \in 1 .. Len(frames') :
        frames'[k].kind = frames[k].kind
        /\ (frames'[k].kind = "start" => frames'[k].exits = frames[k].exits)
  /\ \A k \in 1 .. Len(frames) - 1 : frames[k].kind = "start" => k <= Len(frames')
LEMMA StartsLess ==
  ASSUME IInv, Stack(frames'), OneLess
  PROVE  /\ Starts' = Starts \ {Len(frames)} /\ Len(frames) \in Starts
         /\ Cardinality(Starts') = Cardinality(Starts) - 1
         /\ Cardinality(Starts) \in Nat
         /\ \A k \in Starts' : frames'[k].exits = frames[k].exits /\ Depth(k)' = Depth(k)
                               /\ Depth(k) \in 1 .. Cardinality(Starts) - 1
<1> DEFINE n == Len(frames)
<1>1. n \in Nat /\ Len(frames') \in Nat /\ frames' \in Seq(Frame)
    BY DEF IInv, Stack
<1>2. /\ Starts = {k \in 1 .. n : frames[k].kind = "start"}
      /\ IsFiniteSet(Starts) /\ Cardinality(Starts) \in Nat
    BY StartsFinite
<1>3. Starts' = {k \in 1 .. Len(frames') : frames'[k].kind = "start"}
    BY <1>1 DEF Starts
<1>4. n \in Starts
    BY <1>1, <1>2 DEF OneLess
<1>5. \A k \in Starts' : k \in Starts /\ k < n /\ frames'[k].exits = frames[k].exits
    BY <1>1, <1>2, <1>3 DEF OneLess
<1>6. \A k \in Starts : k # n => k \in Starts'
  <2> SUFFICES ASSUME NEW k \in Starts, k # n  PROVE k \in Starts'
      OBVIOUS
  <2>1. k \in 1 .. n - 1 /\ frames[k].kind = "start"
      BY <1>1, <1>2
  <2>2. k \in 1 .. Len(frames')
      BY <1>1, <2>1 DEF OneLess
  <2> QED  BY <1>3, <2>1, <2>2 DEF OneLess
<1>7. Starts' = Starts \ {n}
    BY <1>1, <1>5, <1>6
<1>8. Cardinality(Starts') = Cardinality(Starts) - 1 /\ IsFiniteSet(Starts')
    BY <1>2, <1>4, <1>7, FS_RemoveElement
<1>9. ASSUME NEW k \in Starts'
      PROVE  Depth(k)' = Depth(k) /\ Depth(k) \in 1 .. Cardinality(Starts) - 1
  <2>1. k \in Starts /\ k < n
      BY <1>5
  <2> DEFINE S == {j \in Starts' : j <= k}
  <2>2. S = {j \in Starts : j <= k}
      BY <1>1, <1>2, <1>7, <2>1
  <2>3. Depth(k)' = Cardinality(S) /\ Depth(k) = Cardinality(S)
      BY <2>2 DEF Depth
  <2>4. IsFiniteSet(S) /\ Cardinality(S) <= Cardinality(Starts') /\ k \in S
      BY <1>1, <1>2, <1>8, <2>1, FS_Subset
  <2> HIDE DEF S
  <2>5. Cardinality(S) \in Nat /\ Cardinality(S) # 0
      BY <2>4, FS_CardinalityType, FS_EmptySet
  <2> QED  BY <1>2, <1>8, <2>3, <2>4, <2>5
<1> QED  BY <1>2, <1>4, <1>5, <1>7, <1>8, <1>9

\* A RexxStart returns: to nothing, to the main program, which is bare from then on, or
\* to a script of a library's, and then nothing is unmapped.
LEMMA FinishStep ==
  ASSUME Inv, FinishStart
  PROVE  Inv'
<1> DEFINE n == Len(frames)
           m == Len(handlers)
<1>1. /\ Stack(frames') /\ Returned(frames') /\ frames[n].kind = "start" /\ frames # <<>>
      /\ Stack(frames)
    BY FinishShape DEF FinishStart, Inv, IInv
<1>2. /\ n \in Nat /\ n > 0 /\ Len(frames') \in Nat /\ handlers \in Seq(Hooks) /\ lost \in Nat
      /\ libs \in LibsType /\ m \in Nat /\ frames \in Seq(Frame) /\ frames' \in Seq(Frame)
    BY <1>1 DEF Inv, IInv, Types, Stack
<1>3. OneLess
    BY <1>1, <1>2 DEF OneLess, Returned
<1>4. /\ Cardinality(Starts') = Cardinality(Starts) - 1
      /\ Cardinality(Starts) \in Nat /\ Cardinality(Starts) > 0
      /\ \A k \in Starts' : frames'[k].exits = frames[k].exits /\ Depth(k)' = Depth(k)
                            /\ Depth(k) \in 1 .. Cardinality(Starts) - 1
  <2>1. n \in Starts
      BY <1>1, <1>3, StartsLess DEF Inv
  <2>2. Cardinality(Starts) # 0
      BY <2>1, StartsFinite DEF Inv
  <2> QED  BY <1>1, <1>3, <2>2, StartsLess DEF Inv
<1>5. /\ m = Cardinality(Starts) + lost
      /\ lost = 0 => \A k \in Starts : DOMAIN handlers[Depth(k)] = frames[k].exits
    BY DEF Inv, HInv, HandlersKept
<1>6. m > 0
    BY <1>2, <1>4, <1>5
<1>7. /\ handlers' \in Seq(Hooks) /\ Len(handlers') = m - 1
      /\ \A j \in 1 .. m - 1 : handlers'[j] = handlers[j]
  <2>1. handlers' = SubSeq(handlers, 1, m - 1)
      BY DEF FinishStart, WithoutNewest, Front
  <2> DEFINE hs == SubSeq(handlers, 1, m - 1)
  <2>2. m - 1 \in Nat /\ \A k \in 1 .. m - 1 : handlers[k] \in Hooks
      BY <1>2, <1>6
  <2>3. /\ hs \in Seq(Hooks)
        /\ Len(hs) = IF 1 <= m - 1 THEN m - 1 - 1 + 1 ELSE 0
        /\ \A i \in 1 .. m - 1 - 1 + 1 : hs[i] = handlers[1 + i - 1]
      BY <1>2, <2>2, SubSeqProperties
  <2>4. handlers' = hs
      BY <2>1
  <2> HIDE DEF hs
  <2> QED  BY <1>2, <1>6, <2>2, <2>3, <2>4
<1>8. lost' = lost /\ basefile' \in BOOLEAN
    BY DEF FinishStart
<1>9. /\ libs' \in LibsType /\ libs'.linked = libs.linked /\ libs'.entries = libs.entries
      /\ libs'.used = libs.used /\ (~IsSafe(System, FALSE) => libs' = libs)
  <2> DEFINE safe == IsSafe(System, FALSE)
  <2>1. libs' = unlink_orphaned_libs(libs, safe)
      BY DEF FinishStart
  <2> HIDE DEF safe
  <2>2. /\ libs' \in LibsType /\ libs'.linked = libs.linked /\ libs'.entries = libs.entries
        /\ libs'.used = libs.used /\ (~safe => libs' = libs)
      BY <1>2, <2>1, UnlinkKeeps
  <2> QED  BY <2>2 DEF safe
<1>10. IInv'
    BY <1>1, <1>2, <1>7, <1>8, <1>9 DEF IInv, Types
<1>11. HInv'
  <2>1. Len(handlers') = Cardinality(Starts') + lost'
      BY <1>2, <1>4, <1>5, <1>7, <1>8
  <2>2. ASSUME lost' = 0, NEW k \in Starts'
        PROVE  DOMAIN handlers'[Depth(k)'] = frames'[k].exits
    <3>1. k \in Starts /\ lost = 0
        BY <1>1, <1>3, <1>8, <2>2, StartsLess DEF Inv
    <3>2. Depth(k) \in 1 .. m - 1
        BY <1>4, <1>5, <2>2, <3>1
    <3>3. DOMAIN handlers[Depth(k)] = frames[k].exits
        BY <1>5, <3>1
    <3> QED  BY <1>4, <1>7, <2>2, <3>2, <3>3
  <2> QED  BY <2>1, <2>2 DEF HInv, HandlersKept
<1>12. Counted(libs)'
  <2>1. \A b : Sum(libs', b) = Sum(libs, b)
      BY <1>9 DEF Sum
  <2>2. \A b : Sum(libs, b)' = Sum(libs, b)
      BY <2>1 DEF Sum
  <2> QED  BY <1>9, <2>2 DEF Inv, LInv, Counted
<1>13. LInv'
  <2> SUFFICES ASSUME ~BareMain'  PROVE FramesMapped' /\ HandlersMapped'
      BY <1>12 DEF LInv
  <2>1. CASE Len(frames') = 0
    <3>1. Starts' = {} /\ ~MainRuns'
        BY <1>2, <2>1 DEF Starts, MainRuns
    <3>2. Len(handlers') = lost'
        BY <1>8, <1>11, <3>1, <1>2, FS_EmptySet DEF HInv, HandlersKept
    <3>3. FramesMapped'
        BY <2>1 DEF FramesMapped
    <3>4. HandlersMapped'
        BY <1>2, <1>8, <3>1, <3>2 DEF HandlersMapped
    <3> QED  BY <3>3, <3>4
  <2>2. CASE Len(frames') # 0
    <3>1. frames' # <<>> /\ 1 \in 1 .. Len(frames')
        BY <1>2, <2>2
    <3>2. ~(IsScript(frames'[1]) /\ frames'[1].how = "main" /\ frames'[1].bared)
        BY <3>1 DEF BareMain, MainRuns
    <3>3. /\ System # 0 /\ ~OfMain(System) /\ Len(frames') = n - 1
          /\ \A k \in 1 .. Len(frames') : Like(frames'[k], frames[k])
        BY <1>1, <2>2, <3>2 DEF Returned
    <3>4. libs' = libs
        BY <1>9, <3>3 DEF IsSafe
    <3>5. Like(frames'[1], frames[1])
        BY <3>1, <3>3
    <3>6. (MainRuns' <=> MainRuns) /\ ~BareMain
        BY <1>1, <3>1, <3>5 DEF MainRuns, BareMain, IsScript, Like
    <3>7. FramesMapped /\ HandlersMapped
        BY <3>6 DEF Inv, LInv
    <3>8. FramesMapped'
      <4> SUFFICES ASSUME NEW k \in 1 .. Len(frames'), frames'[k].kind = "native"
                   PROVE  Mapped(libs, frames'[k].lib) /\ Mapped(libs, frames'[k].then.lib)
          BY <3>4 DEF FramesMapped, Mapped
      <4>1. k \in 1 .. n /\ Like(frames'[k], frames[k])
          BY <1>2, <3>3
      <4> QED  BY <3>7, <4>1 DEF FramesMapped, Like
    <3>9. HandlersMapped'
      <4> SUFFICES ASSUME NEW j \in 1 .. m - 1, j > lost \/ MainRuns,
                          NEW c \in DOMAIN handlers'[j]
                   PROVE  Mapped(libs, handlers'[j][c])
          BY <1>7, <1>8, <3>4, <3>6 DEF HandlersMapped, Mapped
      <4>1. handlers'[j] = handlers[j] /\ j \in 1 .. m
          BY <1>2, <1>7
      <4> QED  BY <3>7, <4>1 DEF HandlersMapped
    <3> QED  BY <3>8, <3>9
  <2> QED  BY <2>1, <2>2
<1> QED  BY <1>10, <1>11, <1>13 DEF Inv

\* An error in a source leaves its RexxStart, and its exits with it.
LEMMA SourceStep ==
  ASSUME Inv, frames # <<>>, Top.kind = "start", System # 0, frames' \in Failures(frames),
         lost' = lost + 1, UNCHANGED <<libs, handlers, basefile>>
  PROVE  Inv'
<1> DEFINE n == Len(frames)
<1>1. /\ Stack(frames') /\ Left(frames', Below) /\ Stack(frames) /\ frames[n].kind = "start"
      /\ n \in Nat /\ n > 0
    BY SourceShape, TopFacts DEF Inv, IInv
<1>2. Len(Below) = n - 1 /\ \A k \in 1 .. n - 1 : Below[k] = frames[k]
    BY BelowFacts DEF Inv
<1>3. /\ lost \in Nat /\ handlers \in Seq(Hooks) /\ Len(frames') \in 1 .. n - 1
      /\ frames \in Seq(Frame) /\ frames' \in Seq(Frame)
    BY <1>1, <1>2 DEF Inv, IInv, Types, Stack, Left
<1>4. \A k \in 1 .. Len(frames') : k \in 1 .. n - 1 /\ Like(frames'[k], frames[k])
    BY <1>1, <1>2, <1>3 DEF Left
<1>5. OneLess
  <2>1. \A k \in 1 .. Len(frames') :
           frames'[k].kind = frames[k].kind
           /\ (frames'[k].kind = "start" => frames'[k].exits = frames[k].exits)
      BY <1>4 DEF Like
  <2>2. \A k \in 1 .. n - 1 : frames[k].kind = "start" => k <= Len(frames')
      BY <1>1, <1>2 DEF Left
  <2> QED  BY <1>1, <1>3, <2>1, <2>2 DEF OneLess
<1>6. IInv'
    BY <1>1, <1>3 DEF Inv, IInv, Types
<1>7. HInv'
  <2>1. Len(handlers) = Cardinality(Starts) + lost
      BY DEF Inv, HInv, HandlersKept
  <2>2. Cardinality(Starts') = Cardinality(Starts) - 1 /\ Cardinality(Starts) \in Nat
      BY <1>1, <1>5, StartsLess DEF Inv
  <2>3. Len(handlers') = Cardinality(Starts') + lost' /\ lost' # 0
      BY <1>3, <2>1, <2>2
  <2> QED  BY <2>3 DEF HInv, HandlersKept
<1>8. Like(frames'[1], frames[1]) /\ frames' # <<>>
    BY <1>3, <1>4
<1>9. /\ MainRuns' <=> MainRuns
      /\ BareMain' <=> BareMain
  <2>1. MainRuns' <=> MainRuns
      BY <1>8 DEF MainRuns, Like, IsScript
  <2>2. MainRuns => (frames'[1].bared <=> frames[1].bared)
      BY <1>8 DEF MainRuns, Like, IsScript
  <2> QED  BY <2>1, <2>2 DEF BareMain
<1>10. LInv'
  <2>1. Counted(libs)'
      BY DEF Inv, LInv, Counted, Sum
  <2> SUFFICES ASSUME ~BareMain  PROVE (FramesMapped /\ HandlersMapped)'
      BY <1>9, <2>1 DEF LInv
  <2>2. FramesMapped /\ HandlersMapped
      BY DEF Inv, LInv
  <2>3. FramesMapped'
    <3> SUFFICES ASSUME NEW k \in 1 .. Len(frames'), frames'[k].kind = "native"
                 PROVE  Mapped(libs, frames'[k].lib) /\ Mapped(libs, frames'[k].then.lib)
        BY DEF FramesMapped, Mapped
    <3>1. k \in 1 .. n /\ Like(frames'[k], frames[k])
        BY <1>1, <1>4
    <3> QED  BY <2>2, <3>1 DEF FramesMapped, Like
  <2>4. HandlersMapped'
    <3> SUFFICES ASSUME NEW j \in 1 .. Len(handlers), j > lost + 1 \/ MainRuns,
                        NEW c \in DOMAIN handlers[j]
                 PROVE  Mapped(libs, handlers[j][c])
        BY <1>9 DEF HandlersMapped, Mapped
    <3> QED  BY <1>3, <2>2 DEF HandlersMapped
  <2> QED  BY <2>3, <2>4
<1> QED  BY <1>6, <1>7, <1>10 DEF Inv

LEMMA Registered ==
  ASSUME NEW r \in Registrable
  PROVE  r[1] \in Slots /\ r[2] \in Names /\ r[3] \in Lib \cup {Exe}
<1>1. r \in Slots \X STRING \X (Lib \cup {Exe})
    BY ApiAssumption
<1> QED  BY <1>1 DEF Names

LEMMA RegisterStep ==
  ASSUME Inv, Register
  PROVE  Inv'
<1> DEFINE safe == Safe
<1>1. PICK r \in Registrable, loads \in BOOLEAN, exported \in BOOLEAN :
        libs' = IF r[1] = "FUNCS" THEN rex_funcadd(libs, r[2], r[3], loads, exported, safe)
                ELSE rex_hookadd(libs, r[1], r[2], r[3], loads, exported, safe)
    BY DEF Register
<1>2. libs \in LibsType /\ Counted(libs)
    BY DEF Inv, IInv, LInv, Types
<1>3. r[1] \in Slots /\ r[2] \in Names /\ r[3] \in Lib \cup {Exe}
    BY Registered
<1> HIDE DEF safe
<1>4. Good(rex_funcadd(libs, r[2], r[3], loads, exported, safe), libs, safe)
    BY <1>2, <1>3, FuncAdded
<1>5. Good(rex_hookadd(libs, r[1], r[2], r[3], loads, exported, safe), libs, safe)
    BY <1>2, <1>3, HookAdded
<1>6. Good(libs', libs, Safe)
    BY <1>1, <1>4, <1>5 DEF safe
<1>7. /\ UNCHANGED <<handlers, frames, basefile, lost>>
      /\ frames # <<>> => Top.kind # "start"
    BY DEF Register, MayCall
<1> QED  BY <1>6, <1>7, LibsStep

LEMMA DeregisterStep ==
  ASSUME Inv, Deregister
  PROVE  Inv'
<1> DEFINE safe == Safe
<1>1. PICK r \in Registrable :
        libs' = unload_entry(libs, r[1], r[2], IF r[1] = "FUNCS" THEN Exe ELSE r[3], safe)
    BY DEF Deregister
<1>2. libs \in LibsType /\ Counted(libs) /\ r[1] \in Slots
    BY Registered DEF Inv, IInv, LInv, Types
<1> HIDE DEF safe
<1>3. Good(libs', libs, safe)
    BY <1>1, <1>2, EntryUnloaded
<1>4. /\ UNCHANGED <<handlers, frames, basefile, lost>>
      /\ frames # <<>> => Top.kind # "start"
    BY DEF Deregister, MayCall
<1> QED  BY <1>3, <1>4, LibsStep DEF safe

LEMMA RxFuncAddStep ==
  ASSUME Inv, RxFuncAdd
  PROVE  Inv'
<1> DEFINE safe == Safe
<1>1. PICK r \in Registrable, loads \in BOOLEAN, exported \in BOOLEAN :
        libs' = rex_funcadd(libs, r[2], r[3], loads, exported, safe)
    BY DEF RxFuncAdd
<1>2. /\ libs \in LibsType /\ Counted(libs)
      /\ r[1] \in Slots /\ r[2] \in Names /\ r[3] \in Lib \cup {Exe}
    BY Registered DEF Inv, IInv, LInv, Types
<1> HIDE DEF safe
<1>3. Good(libs', libs, safe)
    BY <1>1, <1>2, FuncAdded
<1>4. /\ UNCHANGED <<handlers, frames, basefile, lost>>
      /\ frames # <<>> => Top.kind # "start"
    BY DEF RxFuncAdd, InRexx, InPhase
<1> QED  BY <1>3, <1>4, LibsStep DEF safe

LEMMA RxFuncDropStep ==
  ASSUME Inv, RxFuncDrop
  PROVE  Inv'
<1> DEFINE safe == Safe
<1>1. PICK r \in Registrable : libs' = unload_entry(libs, "FUNCS", r[2], Exe, safe)
    BY DEF RxFuncDrop
<1>2. libs \in LibsType /\ Counted(libs) /\ "FUNCS" \in Slots
    BY DEF Inv, IInv, LInv, Types, Slots
<1> HIDE DEF safe
<1>3. Good(libs', libs, safe)
    BY <1>1, <1>2, EntryUnloaded
<1>4. /\ UNCHANGED <<handlers, frames, basefile, lost>>
      /\ frames # <<>> => Top.kind # "start"
    BY DEF RxFuncDrop, InRexx, InPhase
<1> QED  BY <1>3, <1>4, LibsStep DEF safe

\* The invariants hold at the start.
LEMMA InvInit ==
  ASSUME Init
  PROVE  Inv
<1>1. libs = Nothing /\ handlers = <<>> /\ frames \in {<<>>, <<MainScript>>} /\ basefile = FALSE
      /\ lost = 0
    BY DEF Init
<1>2. MainScript \in ScriptType /\ Sound(MainScript) /\ Bottom(MainScript)
      /\ MainScript.kind = "script" /\ MainScript.how = "main"
  <2>1. ASSUME NEW f \in ScriptType
        PROVE  LET g == [f EXCEPT !.phase = "run"]
               IN  /\ g \in ScriptType /\ g.kind = "script" /\ g.how = f.how
                   /\ g.phase = "run" /\ g.file = f.file /\ g.bared = f.bared
                   /\ g.doTermHook = f.doTermHook /\ g.begun = f.begun /\ g.terms = f.terms
                   /\ g.again = f.again
      BY DEF ScriptType
  <2> DEFINE f == Script("main", {})
  <2>2. /\ f \in ScriptType /\ f.how = "main" /\ f.file = TRUE /\ f.bared = FALSE
        /\ f.doTermHook = FALSE /\ f.begun = FALSE /\ f.terms = 0 /\ f.again = FALSE
      BY DEF Script, ScriptType
  <2>3. MainScript = [f EXCEPT !.phase = "run"]
      BY DEF MainScript
  <2> HIDE DEF f
  <2> DEFINE g == [f EXCEPT !.phase = "run"]
  <2>4. /\ g \in ScriptType /\ g.kind = "script" /\ g.how = "main"
        /\ g.phase = "run" /\ g.file = TRUE /\ g.bared = FALSE
        /\ g.doTermHook = FALSE /\ g.begun = FALSE /\ g.terms = 0 /\ g.again = FALSE
      BY <2>1, <2>2
  <2> HIDE DEF g
  <2>5. Sound(g) /\ Bottom(g)
      BY <2>4 DEF Sound, Bottom, IsScript, Due, Once
  <2> QED  BY <2>3, <2>4, <2>5 DEF g
<1>3. MainScript \in Frame
    BY <1>2 DEF Frame
<1>4. Stack(frames)
  <2>1. CASE frames = <<>>
      BY <2>1 DEF Stack
  <2>2. CASE frames = <<MainScript>>
    <3>1. frames \in Seq(Frame) /\ Len(frames) = 1 /\ frames[1] = MainScript
        BY <1>3, <2>2
    <3> QED  BY <1>2, <3>1 DEF Stack
  <2> QED  BY <1>1, <2>1, <2>2
<1>5. libs \in LibsType /\ \A s \in Slots : libs.entries[s] = <<>>
    BY <1>1 DEF Nothing, LibsType
<1>6. IInv
  <2>1. lost \in Nat /\ basefile \in BOOLEAN
      BY <1>1
  <2>2. handlers \in Seq(Hooks)
    <3>1. handlers = <<>>
        BY <1>1
    <3> QED  BY <3>1, EmptySeq
  <2> QED  BY <1>4, <1>5, <2>1, <2>2 DEF IInv, Types
<1>7. Starts = {}
  <2>1. CASE frames = <<>>
      BY <2>1 DEF Starts
  <2>2. CASE frames = <<MainScript>>
      BY <1>2, <2>2 DEF Starts
  <2> QED  BY <1>1, <2>1, <2>2
<1>8. HInv
    BY <1>1, <1>7, FS_EmptySet DEF HInv, HandlersKept
<1>9. Counted(libs)
  <2>1. \A s \in Slots : \A b : At(libs.entries[s], b) = {}
      BY <1>5 DEF At
  <2>2. {"FUNCS", "EXITS", "SUBCOMS"} \subseteq Slots
      BY DEF Slots
  <2>3. \A b : Sum(libs, b) = 0
      BY <2>1, <2>2, FS_EmptySet DEF Sum
  <2>4. libs.linked = {} /\ \A b \in Lib : libs.used[b] = 0
      BY <1>1 DEF Nothing
  <2> QED  BY <2>3, <2>4 DEF Counted
<1>10. FramesMapped
  <2>1. CASE frames = <<>>
      BY <2>1 DEF FramesMapped
  <2>2. CASE frames = <<MainScript>>
      BY <1>2, <2>2 DEF FramesMapped
  <2> QED  BY <1>1, <2>1, <2>2
<1>11. HandlersMapped
    BY <1>1 DEF HandlersMapped
<1> QED  BY <1>6, <1>8, <1>9, <1>10, <1>11 DEF Inv, LInv

\* Every step keeps them.
LEMMA InvNext ==
  ASSUME Inv, [Next]_vars
  PROVE  Inv'
<1>1. IInv
    BY DEF Inv
<1>2. CASE Register
    BY <1>2, RegisterStep
<1>3. CASE Deregister
    BY <1>3, DeregisterStep
<1>4. CASE Start
    BY <1>4, StartStep
<1>5. CASE StartRefused
    BY <1>5, RefusedStep
<1>6. CASE CallBack
  <2>1. UNCHANGED <<libs, handlers, basefile, lost>>
      BY <1>6 DEF CallBack
  <2> QED  BY <1>1, <1>6, <2>1, CallBackSteady, QuietStep
<1>7. CASE ScriptBegins
  <2> DEFINE failed == Top.how = "source" /\ System # 0 /\ lost < MaxLost
                       /\ frames' \in Failures(frames) /\ lost' = lost + 1
  <2>1. UNCHANGED <<libs, handlers, basefile>> /\ frames # <<>> /\ Top.kind = "start"
      BY <1>7 DEF ScriptBegins
  <2>2. CASE failed
      BY <2>1, <2>2, SourceStep
  <2>3. CASE ~failed
      BY <1>1, <1>7, <2>1, <2>3, BeginsSteady, QuietStep
  <2> QED  BY <2>2, <2>3
<1>8. CASE FinishStart
    BY <1>8, FinishStep
<1>9. CASE InitHook
  <2>1. UNCHANGED <<libs, handlers, basefile, lost>>
      BY <1>9 DEF InitHook
  <2> QED  BY <1>1, <1>9, <2>1, InitHookSteady, QuietStep
<1>10. CASE TermHook
  <2>1. UNCHANGED <<libs, handlers, basefile, lost>>
      BY <1>10 DEF TermHook
  <2> QED  BY <1>1, <1>10, <2>1, TermHookSteady, QuietStep
<1>11. CASE TermHookAgain
  <2>1. UNCHANGED <<libs, handlers, basefile, lost>>
      BY <1>11 DEF TermHookAgain
  <2> QED  BY <1>1, <1>11, <2>1, TermHookAgainSteady, QuietStep
<1>12. CASE ScriptEnds
  <2>1. UNCHANGED <<libs, handlers, basefile, lost>>
      BY <1>12 DEF ScriptEnds
  <2> QED  BY <1>1, <1>12, <2>1, ScriptEndsSteady, QuietStep
<1>13. CASE RxFuncAdd
    BY <1>13, RxFuncAddStep
<1>14. CASE RxFuncDrop
    BY <1>14, RxFuncDropStep
<1>15. CASE CallFunction
    BY <1>1, <1>15, CallFunctionSteady, QuietStep DEF CallFunction, Unchanged
<1>16. CASE Command
    BY <1>1, <1>16, CommandSteady, QuietStep DEF Command, Unchanged
<1>17. CASE InOut
    BY <1>1, <1>17, InOutSteady, QuietStep DEF InOut, Unchanged
<1>18. CASE Routine
    BY <1>1, <1>18, RoutineSteady, QuietStep DEF Routine, Unchanged
<1>19. CASE ScriptFails
    BY <1>1, <1>19, ScriptFailsSteady, QuietStep DEF ScriptFails, Unchanged
<1>20. CASE ScriptFinishes
    BY <1>1, <1>20, ScriptFinishesSteady, QuietStep DEF ScriptFinishes, Unchanged
<1>21. CASE ReturnFunction
    BY <1>1, <1>21, ReturnFunctionSteady, QuietStep DEF ReturnFunction, Unchanged
<1>22. CASE ReturnExit
    BY <1>1, <1>22, ReturnExitSteady, QuietStep DEF ReturnExit, Unchanged
<1>23. CASE ReturnError
    BY <1>1, <1>23, ReturnErrorSteady, QuietStep DEF ReturnError, Unchanged
<1>24. CASE UNCHANGED vars
  <2>1. UNCHANGED <<libs, handlers, frames, basefile, lost>>
      BY <1>24 DEF vars
  <2>2. IInv'
      BY <1>1, <2>1 DEF IInv, Types
  <2>3. HInv'
    <3>1. Starts' = Starts
        BY <2>1 DEF Starts
    <3>2. \A k : Depth(k)' = Depth(k)
        BY <3>1 DEF Depth
    <3> QED  BY <2>1, <3>1, <3>2 DEF Inv, HInv, HandlersKept
  <2>4. LInv'
      BY <2>1 DEF Inv, LInv, Counted, Sum, BareMain, MainRuns, FramesMapped, HandlersMapped, Mapped
  <2> QED  BY <2>2, <2>3, <2>4 DEF Inv
<1> QED  BY <1>2, <1>3, <1>4, <1>5, <1>6, <1>7, <1>8, <1>9, <1>10, <1>11, <1>12, <1>13, <1>14,
            <1>15, <1>16, <1>17, <1>18, <1>19, <1>20, <1>21, <1>22, <1>23, <1>24 DEF Next

LEMMA InvAlways == Spec => []Inv
<1>1. Init => Inv
    BY InvInit
<1>2. Inv /\ [Next]_vars => Inv'
    BY InvNext
<1> QED  BY <1>1, <1>2, PTL DEF Spec

-----------------------------------------------------------------------------

\* The frames are those the C stack can hold: a script runs for a RexxStart, for
\* another script or for a label, an exit is called by a script, and only the code of a
\* library or of the application calls the interface (rexxsaa.c, client.c).
THEOREM TypeCorrect == Spec => []IInv
<1>1. Inv => IInv
    BY DEF Inv
<1> QED  BY <1>1, InvAlways, PTL

\* A script's exit at the end is tried exactly once when the exit at the begin has come
\* back well, and never otherwise, whatever failed and wherever an error went, the exit's
\* own too; only a script of a file tries it again, against the comment that forbids it
\* (do_instore, execute_external).
THEOREM ExitsAlways == Spec => []ExitsPaired
<1>1. Inv => ExitsPaired
  <2> SUFFICES ASSUME Inv, NEW k \in DOMAIN frames,
                      frames[k].kind = "script", frames[k].phase = "gone"
               PROVE  Paired(frames[k])
      BY DEF ExitsPaired
  <2>1. Stack(frames) /\ k \in 1 .. Len(frames) /\ frames \in Seq(Frame)
      BY DEF Inv, IInv, Stack
  <2>2. Sound(frames[k]) /\ frames[k] \in ScriptType
      BY <2>1, Kinds DEF Stack
  <2>3. frames[k].terms \in Nat /\ ~frames[k].doTermHook
      BY <2>2 DEF Sound, IsScript, ScriptType
  <2> QED  BY <2>2, <2>3 DEF Sound, IsScript, Paired, TriedAgain, Once, Due
<1> QED  BY <1>1, InvAlways, PTL

\* Every RexxStart that runs has its own list of exits, in the order they were started,
\* and what is on top of them is what was refused or left by an error (RexxStart).
THEOREM HandlersAlways == Spec => []HandlersKept
<1>1. Inv => HandlersKept
    BY DEF Inv, HInv
<1> QED  BY <1>1, InvAlways, PTL

\* No library is unmapped while its code runs, is about to be called, is an exit in
\* force or is registered, and none stays when nothing of it is registered any more; but
\* for a main program that has lost its name (unlink_orphaned_libs, remove_entry).
THEOREM LibrariesAlways == Spec => []LibrariesKept
<1>1. Inv => LibrariesKept
  <2> SUFFICES ASSUME Inv  PROVE LibrariesKept
      OBVIOUS
  <2>1. \A b \in Lib : /\ libs.used[b] = Entries(b)
                       /\ (b \in libs.linked) <=> (libs.used[b] > 0)
      BY DEF Inv, LInv, Counted, Sum, Entries, Of, At
  <2>2. ASSUME ~Bare  PROVE ~BareMain
    <3> SUFFICES ASSUME BareMain  PROVE FALSE
        OBVIOUS
    <3>1. frames \in Seq(Frame) /\ frames # <<>> /\ frames[1].kind = "script" /\ frames[1].bared
        BY DEF Inv, IInv, Stack, BareMain, MainRuns, IsScript
    <3>2. 1 \in DOMAIN frames
        BY <3>1
    <3> QED  BY <2>2, <3>1, <3>2 DEF Bare
  <2>3. frames \in Seq(Frame) /\ DOMAIN frames = 1 .. Len(frames) /\ Len(frames) \in Nat
        /\ handlers \in Seq(Hooks)
      BY DEF Inv, IInv, Stack, Types
  <2>4. ASSUME ~Bare, NEW k \in DOMAIN frames, frames[k].kind = "native"
        PROVE  Mapped(libs, frames[k].lib) /\ Mapped(libs, frames[k].then.lib)
      BY <2>2, <2>3, <2>4 DEF Inv, LInv, FramesMapped
  <2>5. ASSUME ~Bare, System # 0, handlers # <<>>, NEW c \in DOMAIN handlers[Len(handlers)]
        PROVE  Mapped(libs, Handler(c))
    <3>1. System \in 1 .. Len(frames)
        BY <2>3, <2>5, SysRange, TheSystem DEF Inv, IInv
    <3>2. frames # <<>>
        BY <2>3, <3>1
    <3>3. Len(handlers) \in 1 .. Len(handlers) /\ (Len(handlers) > lost \/ MainRuns)
        BY <2>5, <3>2, InForce
    <3> QED  BY <2>2, <2>5, <3>3 DEF Inv, LInv, HandlersMapped, Handler
  <2> QED  BY <2>1, <2>4, <2>5 DEF LibrariesKept
<1> QED  BY <1>1, InvAlways, PTL

=============================================================================
