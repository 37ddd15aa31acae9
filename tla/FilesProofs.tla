---------------------------- MODULE FilesProofs ----------------------------
(***************************************************************************)
(* Being swapped out is not noticed, a box stays where its stream is, and  *)
(* only STREAM RESET leaves a box without a stream and without a mark of   *)
(* it, for every number of files, streams, calls and bytes.                *)
(***************************************************************************)
EXTENDS Files, WellFoundedInduction, TLAPS

-----------------------------------------------------------------------------
(* Numbers. *)

\* A set of numbers that is not empty has a least one.
LEMMA LeastNat ==
    ASSUME NEW T, T \subseteq Nat, T # {}
    PROVE  \E m \in T : \A k \in T : m <= k
<1> DEFINE R == {p \in Nat \X Nat : p[1] < p[2]}
<1>1. IsWellFoundedOn(R, Nat)
    BY NatLessThanWellFounded DEF R, OpToRel
<1>2. PICK m \in T : \A k \in T : <<k, m>> \notin R
    BY <1>1, WFMin
<1>3. \A k \in T : ~(k < m)
    BY <1>2
<1>4. m \in Nat /\ \A k \in T : k \in Nat
    OBVIOUS
<1>5. \A k \in T : m <= k
    BY <1>3, <1>4
<1> QED  BY <1>5

-----------------------------------------------------------------------------

----------------------------------------------------------------------------
(* What every routine keeps of a box.                                       *)

Fields == {"flags", "stream", "readpos", "writepos", "thispos", "readline", "writeline",
           "linesleft", "oper", "raised"}
Shape(b) == DOMAIN b = Fields /\ DOMAIN b.stream = {"mode", "pos", "eof"}
Firm == {"read", "write", "persist", "swapped", "none"}
SameFirm(b, c) == \A x \in Firm : x \in b.flags <=> x \in c.flags
\* The routines below the built-in functions open and close nothing and take back no
\* error.
Kept(b, c) ==
    /\ Shape(c) /\ c.stream.mode = b.stream.mode
    /\ SameFirm(b, c)
    /\ Failed(b) => Failed(c)
\* A box that is not where its stream is says so by its error.
Track(b) == Shape(b) /\ "persist" \in b.flags /\ (Failed(b) \/ ~Misled(b))
Kind(b, c) == Kept(b, c) /\ (Track(b) => Track(c))

LEMMA KeptItself ==
  ASSUME NEW b, Shape(b)
  PROVE  Kept(b, b)
BY DEF Kept, SameFirm

LEMMA KeptOn ==
  ASSUME NEW a, NEW b, NEW c, Kept(a, b), Kept(b, c)
  PROVE  Kept(a, c)
BY DEF Kept, SameFirm

LEMMA WithKeeps ==
  ASSUME NEW b, Shape(b), NEW add, NEW remove,
         add \cap Firm = {}, remove \cap (Firm \cup {"error"}) = {}
  PROVE  /\ Kept(b, With(b, add, remove))
         /\ With(b, add, remove).stream = b.stream /\ With(b, add, remove).thispos = b.thispos
BY DEF With, Shape, Fields, Kept, SameFirm, Failed

LEMMA SoughtKeeps ==
  ASSUME NEW b, Shape(b), NEW p
  PROVE  /\ Kept(b, Sought(b, p)) /\ Sought(b, p).stream.pos = p /\ Sought(b, p).thispos = b.thispos
         /\ Sought(b, p).flags = b.flags
BY DEF Sought, Shape, Fields, Kept, SameFirm, Failed

LEMMA RaisedKeeps ==
  ASSUME NEW b, Shape(b), NEW flags, \A x \in Firm : x \in b.flags <=> x \in flags,
         Failed(b) => "error" \in flags
  PROVE  /\ Kept(b, Raised(b, flags)) /\ Raised(b, flags).stream = b.stream
         /\ Raised(b, flags).thispos = b.thispos
         /\ "error" \in flags => Failed(Raised(b, flags))
BY DEF Raised, Shape, Fields, Kept, SameFirm, Failed, Firm

LEMMA ErrorKeeps ==
  ASSUME NEW b, Shape(b)
  PROVE  Kept(b, file_error(b)) /\ Failed(file_error(b))
BY RaisedKeeps DEF file_error, Failed, Firm

LEMMA RefuseKeeps ==
  ASSUME NEW b, Shape(b), Failed(b)
  PROVE  Kept(b, Refuse(b)) /\ Failed(Refuse(b))
BY ErrorKeeps, KeptItself DEF Refuse

LEMMA WarningKeeps ==
  ASSUME NEW b, Shape(b)
  PROVE  /\ Kept(b, file_warning(b)) /\ file_warning(b).stream = b.stream
         /\ file_warning(b).thispos = b.thispos
BY RaisedKeeps DEF file_warning, Failed, Firm

LEMMA KindOn ==
  ASSUME NEW a, NEW b, NEW c, Kind(a, b), Kind(b, c)
  PROVE  Kind(a, c)
BY KeptOn DEF Kind

LEMMA KindItself ==
  ASSUME NEW b, Shape(b)
  PROVE  Kind(b, b)
BY KeptItself DEF Kind

\* An error makes up for anything, and so does a stream where the box believes it.
LEMMA KindFailed ==
  ASSUME NEW b, NEW c, Kept(b, c), Failed(c)
  PROVE  Kind(b, c)
BY DEF Kind, Kept, Track, SameFirm, Firm

LEMMA KindTold ==
  ASSUME NEW b, NEW c, Kept(b, c), c.thispos = c.stream.pos
  PROVE  Kind(b, c)
BY DEF Kind, Kept, Track, SameFirm, Firm, Misled

\* A stream and a belief that move together.
LEMMA KindAlong ==
  ASSUME NEW b, NEW c, Kept(b, c), b.thispos = b.stream.pos => c.thispos = c.stream.pos
  PROVE  Kind(b, c)
BY DEF Kind, Kept, Track, SameFirm, Firm, Misled, HasStream

LEMMA FixupKind ==
  ASSUME NEW b, Shape(b)
  PROVE  /\ Kind(b, fixup_file(b))
         /\ "persist" \in b.flags => ~Misled(fixup_file(b))
<1> DEFINE s == IF "persist" \in b.flags THEN Sought(b, 0) ELSE Sought(b, b.stream.pos)
           c == IF HasStream(b) THEN [s EXCEPT !.thispos = 0, !.oper = "none"] ELSE b
<1>1. fixup_file(b) = With(c, {}, {"fake"})
    BY DEF fixup_file
<1>2. Kept(b, s) /\ ("persist" \in b.flags => s.stream.pos = 0)
    BY SoughtKeeps
<1> HIDE DEF s
<1>3. Kept(b, c) /\ ("persist" \in b.flags /\ HasStream(b) => c.thispos = c.stream.pos)
    BY <1>2 DEF Kept, Shape, Fields, SameFirm, Failed
<1>4. ~HasStream(b) => c = b
    OBVIOUS
<1> HIDE DEF c
<1>5. /\ Kept(c, With(c, {}, {"fake"})) /\ With(c, {}, {"fake"}).stream = c.stream
      /\ With(c, {}, {"fake"}).thispos = c.thispos
    BY <1>3, WithKeeps DEF Kept, Firm
<1>6. Kept(b, fixup_file(b))
    BY <1>1, <1>3, <1>5, KeptOn
<1>7. "persist" \in b.flags => ~Misled(fixup_file(b))
    BY <1>1, <1>3, <1>4, <1>5, <1>6 DEF Misled, HasStream, Kept
<1> QED  BY <1>6, <1>7 DEF Kind, Track, Kept, SameFirm, Firm

LEMMA ReadLineKind ==
  ASSUME NEW b, Shape(b), NEW s
  PROVE  Kind(b, readoneline(b, s).box)
<1> DEFINE w == IF "rdeof" \in b.flags THEN file_warning(b) ELSE b
           p == IF b.readpos = EOF THEN b.stream.pos ELSE b.readpos
           i == LineEnd(s, p)
           after == i - 1 + Terminator(s, i)
           whole == i <= Len(s)
           ends == after >= Len(s)
           v == With(w, IF ends THEN {"rdeof"} ELSE {}, {})
           c == [v EXCEPT !.stream.pos = after, !.stream.eof = ends,
                          !.readpos = after, !.thispos = after, !.oper = "read",
                          !.readline = IF whole /\ @ > 0 THEN @ + 1 ELSE @,
                          !.linesleft = IF whole /\ b.readline > 0 /\ @ > 0
                                        THEN @ - 1 ELSE @]
<1>1. CASE Failed(b)
  <2>1. readoneline(b, s).box = Refuse(b)
      BY <1>1 DEF readoneline
  <2> QED  BY <1>1, <2>1, RefuseKeeps, KindFailed
<1>2. CASE ~Failed(b)
  <2>1. readoneline(b, s).box = c
      BY <1>2 DEF readoneline
  <2> HIDE DEF after, ends, whole
  <2>2. Kept(b, w)
      BY WarningKeeps, KeptItself
  <2> HIDE DEF w
  <2>3. Kept(w, v)
      BY <2>2, WithKeeps DEF Kept, Firm
  <2> HIDE DEF v
  <2>4. Kept(v, c) /\ c.thispos = c.stream.pos
      BY <2>3 DEF Kept, Shape, Fields, SameFirm, Failed
  <2> QED  BY <2>1, <2>2, <2>3, <2>4, KeptOn, KindTold
<1> QED  BY <1>1, <1>2

LEMMA ReadBytesKind ==
  ASSUME NEW b, Shape(b), NEW s, NEW n, NEW noerrors
  PROVE  Kind(b, readbytes(b, s, n, noerrors).box)
<1> DEFINE moves == b.thispos # b.readpos
           m == IF moves THEN [Sought(b, b.readpos) EXCEPT !.thispos = b.readpos] ELSE b
           did == Len(SubSeq(s, m.stream.pos + 1, Least(m.stream.pos + n, Len(s))))
           short == did < n
           warned == IF short /\ ~noerrors THEN file_warning(m) ELSE m
           v == With(warned, IF short THEN {"rdeof"} ELSE {},
                     IF short THEN {} ELSE {"rdeof", "after_rdeof"})
           c == [v EXCEPT !.stream.pos = @ + did, !.stream.eof = short,
                          !.thispos = @ + did, !.readpos = @ + did,
                          !.readline = 0, !.linesleft = 0, !.oper = "read"]
<1>1. CASE Failed(b)
  <2>1. readbytes(b, s, n, noerrors).box = IF noerrors THEN b ELSE Refuse(b)
      BY <1>1 DEF readbytes
  <2> QED  BY <1>1, <2>1, RefuseKeeps, KindFailed, KindItself
<1>2. CASE ~Failed(b) /\ moves /\ b.readpos < 0
  <2>1. readbytes(b, s, n, noerrors).box = IF noerrors THEN b ELSE file_error(b)
      BY <1>2 DEF readbytes
  <2> QED  BY <2>1, ErrorKeeps, KindFailed, KindItself
<1>3. CASE ~Failed(b) /\ ~(moves /\ b.readpos < 0)
  <2>1. readbytes(b, s, n, noerrors).box = c
      BY <1>3 DEF readbytes
  <2>2. Kept(b, m) /\ (m.thispos = m.stream.pos \/ m = b)
    <3>1. Kept(b, Sought(b, b.readpos)) /\ Sought(b, b.readpos).stream.pos = b.readpos
        BY SoughtKeeps
    <3> QED  BY <3>1, KeptItself DEF Kept, Shape, Fields, SameFirm, Failed
  <2> HIDE DEF did, short, m
  <2>3. Kept(m, warned) /\ warned.stream = m.stream /\ warned.thispos = m.thispos
      BY <2>2, WarningKeeps, KeptItself DEF Kept
  <2> HIDE DEF warned
  <2>4. Kept(warned, v) /\ v.stream = warned.stream /\ v.thispos = warned.thispos
      BY <2>3, WithKeeps DEF Kept, Firm
  <2> HIDE DEF v
  <2>5. Kept(v, c) /\ c.thispos = v.thispos + did /\ c.stream.pos = v.stream.pos + did
      BY <2>4 DEF Kept, Shape, Fields, SameFirm, Failed
  <2> HIDE DEF c
  <2>6. Kept(b, c)
      BY <2>2, <2>3, <2>4, <2>5, KeptOn
  <2>7. b.thispos = b.stream.pos => c.thispos = c.stream.pos
      BY <2>2, <2>3, <2>4, <2>5
  <2> QED  BY <2>1, <2>6, <2>7, KindAlong
<1> QED  BY <1>1, <1>2, <1>3

\* A stream that does not append goes on by what is written.
LEMMA PutKeeps ==
  ASSUME NEW b, Shape(b), NEW s, NEW data, data # << >>
  PROVE  /\ Kept(b, Put(b, s, data).box)
         /\ Put(b, s, data).box.thispos = b.thispos
         /\ b.stream.mode # "ab" =>
              Put(b, s, data).box.stream.pos = b.stream.pos + Len(data)
BY SoughtKeeps DEF Put, Place

LEMMA KindWritten ==
  ASSUME NEW b, NEW c, Kept(b, c), NEW n,
         b.stream.mode # "ab" => c.stream.pos = b.stream.pos + n,
         c.thispos = b.thispos + n
  PROVE  Kind(b, c)
BY DEF Kind, Kept, Track, SameFirm, Firm, Misled, HasStream

LEMMA WriteBytesKind ==
  ASSUME NEW b, Shape(b), NEW s, NEW data, data # << >>, NEW noerrors
  PROVE  Kind(b, writebytes(b, s, data, noerrors).box)
<1> DEFINE moves == b.thispos # b.writepos
           g == IF "persist" \in b.flags THEN Sought(b, b.writepos) ELSE b
           m == IF moves THEN [g EXCEPT !.thispos = b.writepos] ELSE b
           put == Put(m, s, data)
           v == With(put.box, {}, {"rdeof", "after_rdeof"})
           c == [v EXCEPT !.thispos = @ + Len(data), !.writepos = @ + Len(data),
                          !.writeline = 0, !.oper = "none"]
<1>1. CASE Failed(b)
  <2>1. writebytes(b, s, data, noerrors).box = IF noerrors THEN b ELSE Refuse(b)
      BY <1>1 DEF writebytes
  <2> QED  BY <1>1, <2>1, RefuseKeeps, KindFailed, KindItself
<1>2. CASE ~Failed(b) /\ moves /\ "persist" \in b.flags /\ b.writepos < 0
  <2>1. writebytes(b, s, data, noerrors).box = IF noerrors THEN b ELSE file_error(b)
      BY <1>2 DEF writebytes
  <2> QED  BY <2>1, ErrorKeeps, KindFailed, KindItself
<1>3. CASE ~Failed(b) /\ ~(moves /\ "persist" \in b.flags /\ b.writepos < 0)
  <2>1. writebytes(b, s, data, noerrors).box = c
      BY <1>3 DEF writebytes
  <2>2. Kept(b, m) /\ ("persist" \in b.flags => m.thispos = m.stream.pos \/ m = b)
    <3>1. Kept(b, g) /\ ("persist" \in b.flags => g.stream.pos = b.writepos)
        BY SoughtKeeps, KeptItself
    <3> HIDE DEF g
    <3> QED  BY <3>1, KeptItself DEF Kept, Shape, Fields, SameFirm, Failed
  <2> HIDE DEF m
  <2>3. Kept(m, put.box) /\ put.box.thispos = m.thispos
        /\ (m.stream.mode # "ab" => put.box.stream.pos = m.stream.pos + Len(data))
      BY <2>2, PutKeeps DEF Kept
  <2> HIDE DEF put
  <2>4. Kept(put.box, v) /\ v.stream = put.box.stream /\ v.thispos = put.box.thispos
      BY <2>3, WithKeeps DEF Kept, Firm
  <2> HIDE DEF v
  <2>5. Kept(v, c) /\ c.thispos = v.thispos + Len(data) /\ c.stream.pos = v.stream.pos
      BY <2>4 DEF Kept, Shape, Fields, SameFirm, Failed
  <2> HIDE DEF c
  <2>6. Kind(m, c)
    <3>1. Kept(m, c)
        BY <2>3, <2>4, <2>5, KeptOn
    <3> QED  BY <2>3, <2>4, <2>5, <3>1, KindWritten
  <2>7. Kind(b, m)
      BY <2>2 DEF Kind, Kept, Track, SameFirm, Firm, Misled
  <2> QED  BY <2>1, <2>6, <2>7, KindOn
<1> QED  BY <1>1, <1>2, <1>3

LEMMA TruncatedKind ==
  ASSUME NEW b, Shape(b), NEW s
  PROVE  Kind(b, Truncated(b, s).box)
<1> DEFINE g == Sought(b, b.writepos)
           t == [g EXCEPT !.thispos = b.writepos, !.oper = "none"]
           c == IF b.readpos > b.writepos
                THEN [t EXCEPT !.readpos = b.writepos, !.readline = 0, !.linesleft = 0]
                ELSE t
<1>1. Truncated(b, s).box = c
    BY DEF Truncated
<1>2. Kept(b, g) /\ g.stream.pos = b.writepos
    BY SoughtKeeps
<1> HIDE DEF g
<1>3. Kept(b, t) /\ t.thispos = t.stream.pos
    BY <1>2 DEF Kept, Shape, Fields, SameFirm, Failed
<1> HIDE DEF t
<1>4. Kept(b, c) /\ c.thispos = c.stream.pos
    BY <1>3 DEF Kept, Shape, Fields, SameFirm, Failed
<1> QED  BY <1>1, <1>4, KindTold

LEMMA WriteLineKind ==
  ASSUME NEW b, Shape(b), NEW s, NEW S, NEW data \in Seq(S)
  PROVE  Kind(b, writeoneline(b, s, data).box)
<1> DEFINE t == IF Truncates(b) THEN Truncated(b, s) ELSE [disk |-> s, box |-> b]
           line == Append(data, EOL)
           put == Put(t.box, t.disk, line)
           after == t.box.thispos + Len(line)
           v == With(put.box, {"wreof"}, {})
           c == [v EXCEPT !.thispos = after, !.writepos = after, !.oper = "write",
                          !.writeline = IF @ # 0 THEN @ + 1 ELSE 0]
<1>0. line # << >>
  <2>1. data \in Seq(S \cup {EOL}) /\ EOL \in S \cup {EOL}
      OBVIOUS
  <2>2. Len(line) = Len(data) + 1 /\ Len(data) \in Nat
      BY <2>1
  <2> QED  BY <2>2
<1> HIDE DEF line
<1>1. CASE Failed(b)
  <2>1. writeoneline(b, s, data).box = Refuse(b)
      BY <1>1 DEF writeoneline
  <2> QED  BY <1>1, <2>1, RefuseKeeps, KindFailed
<1>2. CASE ~Failed(b) /\ Truncates(b) /\ b.writepos < 0
  <2> DEFINE e == file_error(b)
             d == [e EXCEPT !.oper = "write"]
  <2>1. writeoneline(b, s, data).box = d
      BY <1>2 DEF writeoneline
  <2>2. Kept(b, e) /\ Failed(e)
      BY ErrorKeeps
  <2> HIDE DEF e
  <2>3. Kept(b, d) /\ Failed(d)
      BY <2>2 DEF Kept, Shape, Fields, SameFirm, Failed
  <2> QED  BY <2>1, <2>3, KindFailed
<1>3. CASE ~Failed(b) /\ ~(Truncates(b) /\ b.writepos < 0)
  <2>1. writeoneline(b, s, data).box = c
      BY <1>3 DEF writeoneline, line
  <2>2. Kind(b, t.box)
      BY TruncatedKind, KindItself
  <2> HIDE DEF t
  <2>3. Kept(t.box, put.box) /\ put.box.thispos = t.box.thispos
        /\ (t.box.stream.mode # "ab" => put.box.stream.pos = t.box.stream.pos + Len(line))
      BY <1>0, <2>2, PutKeeps DEF Kind, Kept
  <2> HIDE DEF put
  <2>4. Kept(put.box, v) /\ v.stream = put.box.stream
      BY <2>3, WithKeeps DEF Kept, Firm
  <2> HIDE DEF v
  <2>5. Kept(v, c) /\ c.thispos = t.box.thispos + Len(line) /\ c.stream.pos = v.stream.pos
      BY <2>4 DEF Kept, Shape, Fields, SameFirm, Failed
  <2> HIDE DEF c
  <2>6. Kind(t.box, c)
    <3>1. Kept(t.box, c)
        BY <2>3, <2>4, <2>5, KeptOn
    <3> QED  BY <2>3, <2>4, <2>5, <3>1, KindWritten
  <2> QED  BY <2>1, <2>2, <2>6, KindOn
<1> QED  BY <1>1, <1>2, <1>3

LEMMA CharsLeftKind ==
  ASSUME NEW b, Shape(b)
  PROVE  Kind(b, calc_chars_left(b))
<1> DEFINE g == Sought(b, b.stream.pos)
           c == [g EXCEPT !.oper = "none"]
<1>1. Kept(b, g) /\ g.stream.pos = b.stream.pos /\ g.thispos = b.thispos
    BY SoughtKeeps
<1> HIDE DEF g
<1>2. Kept(b, c) /\ c.stream.pos = b.stream.pos /\ c.thispos = b.thispos
    BY <1>1 DEF Kept, Shape, Fields, SameFirm, Failed
<1> HIDE DEF c
<1>3. Kind(b, c)
    BY <1>2, KindAlong
<1>4. Failed(b) => Kind(b, Refuse(b))
    BY RefuseKeeps, KindFailed
<1> QED  BY <1>3, <1>4, KindItself DEF calc_chars_left, c, g

LEMMA CountKept ==
  ASSUME NEW b, Shape(b), NEW s
  PROVE  Kept(b, countlines(b, s))
<1> DEFINE from == IF b.readpos = EOF THEN b.stream.pos ELSE b.readpos
           left == IF b.stream.mode = "ab" THEN 0 ELSE LinesFrom(s, from)
           g == Sought(b, b.stream.pos)
           c == [g EXCEPT !.thispos = b.readpos, !.oper = "none", !.linesleft = left]
<1>1. \/ countlines(b, s) = Refuse(b) /\ Failed(b)
      \/ countlines(b, s) = b
      \/ countlines(b, s) = c
    BY DEF countlines
<1>2. Kept(b, g)
    BY SoughtKeeps
<1> HIDE DEF g, left
<1>3. Kept(b, c)
    BY <1>2 DEF Kept, Shape, Fields, SameFirm, Failed
<1> QED  BY <1>1, <1>3, RefuseKeeps, KeptItself

----------------------------------------------------------------------------
(* Moving the positions.                                                    *)

Still(b, c) == Kept(b, c) /\ c.stream.pos = b.stream.pos /\ c.thispos = b.thispos
Settles(b, c) == Kept(b, c) /\ c.thispos = c.stream.pos

LEMMA StillOn ==
  ASSUME NEW a, NEW b, NEW c, Still(b, c)
  PROVE  /\ Still(a, b) => Still(a, c)
         /\ Settles(a, b) => Settles(a, c)
         /\ Kept(a, b) => Kept(a, c)
         /\ Kind(b, c)
BY KeptOn, KindAlong DEF Still, Settles

LEMMA ToldKeeps ==
  ASSUME NEW b, Shape(b), NEW p
  PROVE  Settles(b, Told(b, p))
<1> DEFINE g == Sought(b, p)
<1>1. Kept(b, g) /\ g.stream.pos = p
    BY SoughtKeeps
<1>2. Told(b, p) = [g EXCEPT !.thispos = p]
    BY DEF Told
<1> HIDE DEF g
<1> QED  BY <1>1, <1>2 DEF Settles, Kept, Shape, Fields, SameFirm, Failed

LEMMA SeenEndKeeps ==
  ASSUME NEW b, Shape(b), NEW oper
  PROVE  Still(b, SeenEnd(b, oper))
BY WithKeeps DEF SeenEnd, Still, Firm

LEMMA AtReadKeeps ==
  ASSUME NEW b, Shape(b), NEW p, NEW line
  PROVE  Still(b, AtRead(b, p, line)) /\ Still(b, AtWrite(b, p, line))
BY DEF AtRead, AtWrite, Still, Kept, Shape, Fields, SameFirm, Failed

LEMMA ArrivedKeeps ==
  ASSUME NEW b, Shape(b), NEW oper, NEW line
  PROVE  Still(b, Arrived(b, oper, line))
<1> DEFINE c == SeenEnd(b, oper)
           d == ReadHere(c, oper, line)
           e == WriteHere(d, oper, line)
<1>1. Still(b, c)
    BY SeenEndKeeps
<1>2. Arrived(b, oper, line) = e
    BY DEF Arrived
<1> HIDE DEF c
<1>3. Still(c, d)
    BY <1>1, AtReadKeeps, KeptItself DEF ReadHere, Still, Kept
<1> HIDE DEF d
<1>4. Still(d, e)
    BY <1>3, AtReadKeeps, KeptItself DEF WriteHere, Still, Kept
<1> QED  BY <1>1, <1>2, <1>3, <1>4, StillOn

LEMMA ByBytesKept ==
  ASSUME NEW b, Shape(b), NEW s, NEW oper, NEW where, NEW from
  PROVE  Kept(b, positioncharfile(b, s, oper, where, from))
<1> DEFINE r == ReadTarget(b, s, where, from)
           w == WriteTarget(b, s, where, from)
           g == Sought(b, b.stream.pos)
           i == [g EXCEPT !.oper = "none"]
           m == Moved(i, oper, r, w)
<1>1. Idle(b) = i
    BY DEF Idle
<1>2. Kept(b, g)
    BY SoughtKeeps
<1> HIDE DEF g
<1>3. Kept(b, i)
    BY <1>2 DEF Kept, Shape, Fields, SameFirm, Failed
<1> HIDE DEF i
<1>4. Kept(i, m)
    BY <1>3 DEF Moved, Kept, Shape, Fields, SameFirm, Failed
<1>5. \/ positioncharfile(b, s, oper, where, from) = Refuse(b) /\ Failed(b)
      \/ positioncharfile(b, s, oper, where, from) = file_error(i)
      \/ positioncharfile(b, s, oper, where, from) = SeenEnd(m, oper)
    BY <1>1 DEF positioncharfile
<1> HIDE DEF m
<1>6. Kept(i, file_error(i)) /\ Kept(m, SeenEnd(m, oper)) /\ (Failed(b) => Kept(b, Refuse(b)))
    BY <1>3, <1>4, ErrorKeeps, SeenEndKeeps, RefuseKeeps DEF Kept, Still
<1> QED  BY <1>3, <1>4, <1>5, <1>6, KeptOn

LEMMA FoundKind ==
  ASSUME NEW b, Shape(b), NEW oper, NEW n, NEW near, NEW to
  PROVE  Kind(b, Found(b, oper, n, near, to))
<1> DEFINE start == IF "write" \in oper THEN b.writepos ELSE b.readpos
           f == Forgot(b, to)
           t == Told(f, to.pos)
           v == [t EXCEPT !.oper = IF n > near.line \/ near.pos > 0 THEN "read"
                                   ELSE IF start # 0 THEN "none" ELSE @,
                          !.stream.eof = to.line < n /\ ~Blind(b)]
<1>1. Found(b, oper, n, near, to) = Arrived(v, oper, to.line)
    BY DEF Found
<1>2. Kept(b, f)
    BY DEF Forgot, Kept, Shape, Fields, SameFirm, Failed
<1> HIDE DEF f
<1>3. Settles(f, t)
    BY <1>2, ToldKeeps DEF Kept
<1> HIDE DEF t, start
<1>4. Still(t, v)
    BY <1>3 DEF Still, Settles, Kept, Shape, Fields, SameFirm, Failed
<1> HIDE DEF v
<1>5. Still(v, Arrived(v, oper, to.line))
    BY <1>4, ArrivedKeeps DEF Still, Kept
<1>6. Settles(f, Found(b, oper, n, near, to))
    BY <1>1, <1>3, <1>4, <1>5, StillOn
<1> QED  BY <1>2, <1>6, KeptOn, KindTold DEF Settles

LEMMA SeekSetKind ==
  ASSUME NEW b, Shape(b), NEW s, NEW oper, NEW n
  PROVE  Kind(b, SeekSet(b, s, oper, n))
<1> DEFINE near == Nearest(b, n)
           to == Search(b, s, near, n)
           g == Sought(b, 0)
           c == [g EXCEPT !.thispos = near.pos, !.oper = "read"]
<1>1. \/ SeekSet(b, s, oper, n) = file_error(b)
      \/ SeekSet(b, s, oper, n) = file_error(c)
      \/ SeekSet(b, s, oper, n) = Found(b, oper, n, near, to)
    BY DEF SeekSet, SeekFrom
<1> HIDE DEF near, to
<1>2. Kept(b, g)
    BY SoughtKeeps
<1> HIDE DEF g
<1>3. Kept(b, c)
    BY <1>2 DEF Kept, Shape, Fields, SameFirm, Failed
<1> HIDE DEF c
<1>4. Kind(b, file_error(b))
    BY ErrorKeeps, KindFailed
<1>5. Kind(b, file_error(c))
    BY <1>3, ErrorKeeps, KeptOn, KindFailed DEF Kept
<1>6. Kind(b, Found(b, oper, n, near, to))
    BY FoundKind
<1> QED  BY <1>1, <1>4, <1>5, <1>6

LEMMA SeekCurrentKind ==
  ASSUME NEW b, Shape(b), NEW s, NEW oper, NEW n
  PROVE  Kind(b, SeekCurrent(b, s, oper, n))
<1> DEFINE from == IF oper = {"read"} THEN b.readline ELSE b.writeline
           t == Told(b, 0)
           r == AtRead(t, 1, 1)
           w == AtWrite(t, 0, 1)
           c == [r EXCEPT !.oper = "read"]
           d == [w EXCEPT !.oper = "write"]
<1>1. \/ SeekCurrent(b, s, oper, n) = b
      \/ SeekCurrent(b, s, oper, n) = SeekSet(b, s, oper, from + n)
      \/ SeekCurrent(b, s, oper, n) = c
      \/ SeekCurrent(b, s, oper, n) = d
    BY DEF SeekCurrent
<1>2. Settles(b, t)
    BY ToldKeeps
<1> HIDE DEF t
<1>3. Still(t, r) /\ Still(t, w)
    BY <1>2, AtReadKeeps DEF Settles, Kept
<1> HIDE DEF r, w
<1>4. Still(r, c) /\ Still(w, d)
    BY <1>3 DEF Still, Kept, Shape, Fields, SameFirm, Failed
<1> HIDE DEF c, d
<1>5. Kind(b, c) /\ Kind(b, d)
    BY <1>2, <1>3, <1>4, StillOn, KindTold DEF Settles
<1> QED  BY <1>1, <1>5, SeekSetKind, KindItself

LEMMA SeekEndKind ==
  ASSUME NEW b, Shape(b), NEW s, NEW oper, NEW n
  PROVE  Kind(b, SeekEnd(b, s, oper, n))
<1> DEFINE total == LinesFrom(s, 0)
           eols == Cardinality(EolPlaces(s))
           k == Most(1, n + 1 - (total - eols))
           found == k <= eols
           pos == IF found THEN KthBefore(s, Len(s), k) ELSE 0
           line == IF found THEN 1 + total - n ELSE 1
           g == Sought(b, 0)
           c == [g EXCEPT !.oper = "read"]
           t == Told(b, pos)
           u == [t EXCEPT !.oper = "read"]
           a == Arrived(u, oper, line)
           v == [a EXCEPT !.linesleft = total - 1]
<1>1. SeekEnd(b, s, oper, n) = file_error(c) \/ SeekEnd(b, s, oper, n) = v
  <2>1. SeekEnd(b, s, oper, n) = IF s = << >> \/ Blind(b) THEN file_error(c) ELSE v
      BY Zenon DEF SeekEnd
  <2> QED  BY <2>1, Zenon
<1> HIDE DEF pos, line, total
<1>2. Kept(b, g) /\ Settles(b, t)
    BY SoughtKeeps, ToldKeeps
<1> HIDE DEF g, t
<1>3. Kept(b, c) /\ Still(t, u)
    BY <1>2 DEF Settles, Still, Kept, Shape, Fields, SameFirm, Failed
<1> HIDE DEF c, u
<1>4. Still(u, a)
    BY <1>3, ArrivedKeeps DEF Still, Kept
<1> HIDE DEF a
<1>5. Still(a, v)
    BY <1>4 DEF Still, Kept, Shape, Fields, SameFirm, Failed
<1> HIDE DEF v
<1>6. Kind(b, v)
    BY <1>2, <1>3, <1>4, <1>5, StillOn, KindTold DEF Settles
<1>7. Kind(b, file_error(c))
    BY <1>3, ErrorKeeps, KeptOn, KindFailed DEF Kept
<1> QED  BY <1>1, <1>6, <1>7

LEMMA SeekBothKind ==
  ASSUME NEW b, Shape(b), NEW s, NEW n
  PROVE  Kind(b, SeekBoth(b, s, n))
<1> DEFINE r == SeekCurrent(b, s, {"read"}, n)
           w == SeekCurrent(r, s, {"write"}, n)
           c == [w EXCEPT !.oper = "none"]
<1>1. SeekBoth(b, s, n) = b \/ SeekBoth(b, s, n) = r \/ SeekBoth(b, s, n) = c
    BY DEF SeekBoth
<1>2. Kind(b, r)
    BY SeekCurrentKind
<1> HIDE DEF r
<1>3. Kind(r, w)
    BY <1>2, SeekCurrentKind DEF Kind, Kept
<1> HIDE DEF w
<1>4. Still(w, c)
    BY <1>3 DEF Kind, Still, Kept, Shape, Fields, SameFirm, Failed
<1> QED  BY <1>1, <1>2, <1>3, <1>4, StillOn, KindOn, KindItself

LEMMA ByLinesKind ==
  ASSUME NEW b, Shape(b), NEW s, NEW oper, NEW n, NEW from \in {"SET", "CUR", "END"}
  PROVE  Kind(b, positionfile(b, s, oper, n, from))
<1> DEFINE g == SeenEnd(b, oper)
           r == [g EXCEPT !.linesleft = 0, !.thispos = IF @ = EOF THEN b.stream.pos ELSE @]
           to == positionfile(b, s, oper, n, from)
<1>1. Ready(b, oper) = r
    BY DEF Ready
<1>2. \/ to = Refuse(b) /\ Failed(b)
      \/ to = SeekSet(r, s, oper, n)
      \/ to = SeekEnd(r, s, oper, n)
      \/ to = SeekBoth(r, s, n)
      \/ to = SeekCurrent(r, s, oper, n)
      \/ to = r
    BY <1>1 DEF positionfile
<1>3. Still(b, g)
    BY SeenEndKeeps
<1> HIDE DEF g, to
<1>4. Kept(b, r) /\ r.stream.pos = b.stream.pos
      /\ (b.thispos = b.stream.pos => r.thispos = r.stream.pos)
    BY <1>3 DEF Still, Kept, Shape, Fields, SameFirm, Failed
<1> HIDE DEF r
<1>5. Kind(b, r) /\ Shape(r)
    BY <1>4, KindAlong DEF Kept
<1>6. Failed(b) => Kind(b, Refuse(b))
    BY RefuseKeeps, KindFailed
<1>7. Kind(r, to) => Kind(b, to)
    BY <1>5, KindOn
<1>8. (to = Refuse(b) /\ Failed(b)) \/ Kind(r, to)
    BY <1>2, <1>5, SeekSetKind, SeekEndKind, SeekBothKind, SeekCurrentKind, KindItself
<1> QED  BY <1>6, <1>7, <1>8 DEF to

----------------------------------------------------------------------------
(* The table.                                                               *)

TableShape(t) ==
    /\ DOMAIN t = {"disk", "box", "mru", "raised"}
    /\ DOMAIN t.box = Files
    /\ \A h \in Files : Shape(t.box[h])
\* A box that another file's call swapped out, or left alone.
Aside(b, c) == Shape(c) /\ (c = b \/ (~HasStream(c) /\ "swapped" \in c.flags))
Moves(t, u, f) == TableShape(u) /\ \A h \in Files \ {f} : Aside(t.box[h], u.box[h])

LEMMA MovesOn ==
  ASSUME NEW t, NEW u, NEW v, NEW f, Moves(t, u, f), Moves(u, v, f)
  PROVE  Moves(t, v, f)
BY DEF Moves, Aside

LEMMA MovesNowhere ==
  ASSUME NEW t, TableShape(t), NEW f
  PROVE  Moves(t, t, f)
BY DEF Moves, Aside, TableShape

LEMMA IntoMoves ==
  ASSUME NEW t, TableShape(t), NEW f \in Files, NEW b, Shape(b)
  PROVE  Moves(t, Into(t, f, b), f) /\ Into(t, f, b).box[f] = b
BY DEF Moves, Aside, TableShape, Into

LEMMA StoredMoves ==
  ASSUME NEW t, TableShape(t), NEW f \in Files, NEW w, Shape(w.box)
  PROVE  Moves(t, Stored(t, f, w), f) /\ Stored(t, f, w).box[f] = w.box
BY DEF Moves, Aside, TableShape, Stored

\* What a box knows of its file besides the stream.
Like(b, c) ==
    /\ Shape(c)
    /\ c.thispos = b.thispos /\ c.readpos = b.readpos /\ c.writepos = b.writepos
    /\ \A x : x # "swapped" => (x \in b.flags <=> x \in c.flags)

LEMMA FlushIs ==
  ASSUME NEW b, Shape(b)
  PROVE  /\ Like(b, flush_output(b)) /\ Aside(b, flush_output(b))
         /\ flush_output(b) = b \/ flush_output(b).stream = NoStream
BY DEF flush_output, With, Like, Aside, Shape, Fields, NoStream, HasStream

LEMMA SwapOutIs ==
  ASSUME NEW t, TableShape(t), NEW f
  PROVE  /\ TableShape(swapout_file(t, f))
         /\ \A h \in Files :
              LET b == t.box[h]
                  c == swapout_file(t, f).box[h]
              IN  Like(b, c) /\ Aside(b, c) /\ (c = b \/ c.stream = NoStream)
<1> DEFINE v == Victim(t, f)
           s == [t EXCEPT !.box[v] = flush_output(@)]
<1>1. swapout_file(t, f) = t \/ swapout_file(t, f) = s
    BY DEF swapout_file
<1> HIDE DEF v
<1>2. /\ DOMAIN s = {"disk", "box", "mru", "raised"} /\ DOMAIN s.box = Files
      /\ \A h \in Files : s.box[h] = IF h = v THEN flush_output(t.box[h]) ELSE t.box[h]
    BY DEF TableShape
<1> HIDE DEF s
<1>3. \A h \in Files : /\ Shape(t.box[h]) /\ Like(t.box[h], t.box[h]) /\ Aside(t.box[h], t.box[h])
    BY DEF TableShape, Like, Aside
<1>4. \A h \in Files :
        LET b == t.box[h]
            c == flush_output(b)
        IN  Like(b, c) /\ Aside(b, c) /\ (c = b \/ c.stream = NoStream)
    BY <1>3, FlushIs
<1>5. \A h \in Files :
        LET b == t.box[h]
            c == s.box[h]
        IN  Like(b, c) /\ Aside(b, c) /\ (c = b \/ c.stream = NoStream)
    BY <1>2, <1>3, <1>4
<1>6. TableShape(s)
    BY <1>2, <1>5 DEF TableShape, Like
<1> QED  BY <1>1, <1>3, <1>5, <1>6

LEMMA OpenIs ==
  ASSUME NEW t, TableShape(t), NEW f \in Files, NEW mode
  PROVE  /\ Moves(t, fopen(t, f, mode), f)
         /\ Like(t.box[f], fopen(t, f, mode).box[f])
         /\ fopen(t, f, mode).box[f].stream \in {t.box[f].stream, NoStream, Stream(mode)}
<1> DEFINE s == swapout_file(t, f)
           d == IF mode \in {"w_b", "wb"} THEN << >> ELSE s.disk[f]
           o == [s EXCEPT !.box[f].stream = Stream(mode), !.disk[f] = d]
<1>1. fopen(t, f, mode) = s \/ fopen(t, f, mode) = o
    BY DEF fopen
<1>2. /\ TableShape(s)
      /\ \A h \in Files : /\ Like(t.box[h], s.box[h]) /\ Aside(t.box[h], s.box[h])
                          /\ s.box[h] = t.box[h] \/ s.box[h].stream = NoStream
    BY SwapOutIs
<1> HIDE DEF s, d
<1>3. /\ DOMAIN o = {"disk", "box", "mru", "raised"} /\ DOMAIN o.box = Files
      /\ o.box[f] = [s.box[f] EXCEPT !.stream = Stream(mode)]
      /\ \A h \in Files \ {f} : o.box[h] = s.box[h]
    BY <1>2 DEF TableShape
<1> HIDE DEF o
<1>4. Like(t.box[f], o.box[f]) /\ o.box[f].stream = Stream(mode)
    BY <1>2, <1>3 DEF Like, Shape, Fields, Stream
<1>5. TableShape(o) /\ \A h \in Files \ {f} : Aside(t.box[h], o.box[h])
    BY <1>2, <1>3, <1>4 DEF TableShape, Like
<1> QED  BY <1>1, <1>2, <1>4, <1>5 DEF Moves

----------------------------------------------------------------------------
(* Getting hold of a box.                                                   *)

\* The mode of a stream agrees with what the box is used for.
Matched(b) ==
    HasStream(b) /\ b.stream.mode # "wb" => (b.stream.mode = "ab" <=> "read" \notin b.flags)
LostBox(b) == ~HasStream(b) /\ b.flags \cap {"none", "error", "swapped"} = {}
\* What is kept of every box, and of every box that is not reset.
Sound(b, c) == Shape(c) /\ (Matched(b) => Matched(c))
NotLost(b, c) == LostBox(c) => LostBox(b)
\* The boxes that a step must keep track of, and those that it may mislead.
Sure(b) == ~Misled(b) /\ Placed(b) /\ ~({"swapped", "rdeof"} \subseteq b.flags)
Crossed(b, c) == Halfway(b) /\ {"read", "write"} \subseteq c.flags
Step(b, c) ==
    Sound(b, c) /\ NotLost(b, c) /\ (Sure(b) /\ ~Crossed(b, c) => Track(c))
\* The box as it was found, its stream apart.
Got(b, c) ==
    /\ Sound(b, c) /\ NotLost(b, c) /\ (Sure(b) => Track(c))
    /\ c.readpos = b.readpos /\ c.writepos = b.writepos
    /\ \A x \in {"read", "write", "persist"} : x \in b.flags <=> x \in c.flags

LEMMA ErrorIs ==
  ASSUME NEW b, Shape(b)
  PROVE  /\ file_error(b).stream = b.stream
         /\ file_error(b).readpos = b.readpos /\ file_error(b).writepos = b.writepos
BY DEF file_error, Raised, Shape, Fields

LEMMA SwappedIs ==
  ASSUME NEW b, Shape(b), NEW x, Like(b, x), NEW s, "swapped" \in b.flags,
         x.stream \in {b.stream, NoStream, Stream(ModeOf(b))}
  PROVE  Got(b, Swapped(x, s))
<1> DEFINE w == With(x, {}, {"swapped"})
           c == Sought(w, IF w.thispos = EOF THEN 0 ELSE w.thispos)
           d == [c EXCEPT !.stream.pos = Len(s), !.stream.eof = TRUE]
<1>1. /\ Shape(w) /\ w.stream = x.stream /\ w.thispos = b.thispos
      /\ w.readpos = b.readpos /\ w.writepos = b.writepos
      /\ \A y : y # "swapped" => (y \in b.flags <=> y \in w.flags)
    BY DEF Like, With, Shape, Fields
<1>2. Shape(x)
    BY DEF Like
<1>3. CASE HasStream(x)
  <2>1. Swapped(x, s) = IF "rdeof" \in w.flags THEN d ELSE c
      BY <1>3 DEF Swapped, Resumed
  <2> HIDE DEF w
  <2>2. /\ Kept(w, c) /\ c.stream.pos = (IF w.thispos = EOF THEN 0 ELSE w.thispos)
        /\ c.thispos = w.thispos /\ c.flags = w.flags
        /\ c.readpos = w.readpos /\ c.writepos = w.writepos
      BY <1>1, SoughtKeeps DEF Sought, Shape, Fields
  <2> HIDE DEF c
  <2>3. /\ Shape(d) /\ d.stream.mode = c.stream.mode /\ d.flags = c.flags
        /\ d.readpos = c.readpos /\ d.writepos = c.writepos
      BY <2>2 DEF Kept, Shape, Fields
  <2> HIDE DEF d
  <2> DEFINE e == Swapped(x, s)
  <2>4. /\ Shape(e) /\ e.stream.mode = x.stream.mode /\ HasStream(e)
        /\ e.readpos = b.readpos /\ e.writepos = b.writepos
        /\ \A y : y # "swapped" => (y \in b.flags <=> y \in e.flags)
        /\ "rdeof" \notin b.flags /\ b.thispos # EOF => e.thispos = e.stream.pos
      BY <1>1, <1>3, <2>1, <2>2, <2>3 DEF Kept, HasStream
  <2> HIDE DEF e
  <2>5. Matched(b) => Matched(e)
      BY <1>3, <2>4 DEF Matched, HasStream, NoStream, Stream, ModeOf
  <2>6. Sure(b) => Track(e)
      BY <2>4 DEF Sure, Track, Misled, Placed
  <2> QED  BY <2>4, <2>5, <2>6 DEF Got, Sound, NotLost, LostBox, e
<1>4. CASE ~HasStream(x)
  <2>1. Swapped(x, s) = file_error(w)
      BY <1>4 DEF Swapped
  <2> HIDE DEF w
  <2>2. /\ Kept(w, file_error(w)) /\ Failed(file_error(w)) /\ file_error(w).stream = w.stream
        /\ file_error(w).readpos = w.readpos /\ file_error(w).writepos = w.writepos
      BY <1>1, ErrorKeeps, ErrorIs
  <2> DEFINE e == file_error(w)
  <2>3. /\ Shape(e) /\ ~HasStream(e) /\ Failed(e)
        /\ e.readpos = b.readpos /\ e.writepos = b.writepos
        /\ \A y \in {"read", "write", "persist"} : y \in b.flags <=> y \in e.flags
      BY <1>1, <1>4, <2>2 DEF Kept, SameFirm, Firm, HasStream
  <2> HIDE DEF e
  <2> QED  BY <2>1, <2>3 DEF Got, Sound, NotLost, LostBox, Matched, Failed, Sure, Track, Placed, e
<1> QED  BY <1>3, <1>4

LEMMA GotItself ==
  ASSUME NEW b, Shape(b)
  PROVE  Got(b, b)
BY DEF Got, Sound, NotLost, Sure, Track, Placed

LEMMA FilePtrIs ==
  ASSUME NEW t, TableShape(t), NEW f \in Files
  PROVE  /\ Moves(t, getfileptr(t, f), f)
         /\ Got(t.box[f], getfileptr(t, f).box[f])
         /\ "swapped" \notin t.box[f].flags => getfileptr(t, f).box[f] = t.box[f]
<1> DEFINE u == [t EXCEPT !.mru = <<f>> \o Without(@, f)]
           r == fopen(u, f, ModeOf(u.box[f]))
           v == [r EXCEPT !.box[f] = Swapped(@, r.disk[f])]
<1>1. TableShape(u) /\ u.box = t.box
    BY DEF TableShape
<1> HIDE DEF u
<1>2. Moves(t, u, f) /\ Got(t.box[f], u.box[f])
    BY <1>1, GotItself DEF Moves, Aside, TableShape
<1>3. \/ getfileptr(t, f) = t
      \/ getfileptr(t, f) = u
      \/ getfileptr(t, f) = v /\ "swapped" \in t.box[f].flags
    BY DEF getfileptr, swapin_file, u
<1>4. ASSUME "swapped" \in t.box[f].flags
      PROVE  Moves(t, v, f) /\ Got(t.box[f], v.box[f])
  <2>1. /\ Moves(u, r, f) /\ Like(u.box[f], r.box[f])
        /\ r.box[f].stream \in {u.box[f].stream, NoStream, Stream(ModeOf(u.box[f]))}
      BY <1>1, OpenIs
  <2> HIDE DEF r
  <2>2. Got(t.box[f], Swapped(r.box[f], r.disk[f]))
      BY <1>1, <1>4, <2>1, SwappedIs DEF TableShape
  <2> DEFINE b == Swapped(r.box[f], r.disk[f])
  <2>3. v = Into(r, f, b)
      BY DEF Into
  <2> HIDE DEF b, v
  <2>4. Moves(r, v, f) /\ v.box[f] = b
      BY <2>1, <2>2, <2>3, IntoMoves DEF Got, Sound, Moves, b
  <2> QED  BY <1>2, <2>1, <2>2, <2>4, MovesOn DEF b
<1>5. Moves(t, t, f) /\ Got(t.box[f], t.box[f])
    BY MovesNowhere, GotItself DEF TableShape
<1> HIDE DEF v
<1> QED  BY <1>1, <1>2, <1>3, <1>4, <1>5

LEMMA ModeIs ==
  ASSUME NEW f, NEW access
  PROVE  /\ access = "READ" => Mode(f, access) = "rb"
         /\ access = "WRITE" => Mode(f, access) \in {"r_b", "w_b", "wb"}
         /\ access \in {"APPEND", "STREAM_APPEND"} => Mode(f, access) = "ab"
         /\ access \in {"STREAM_REPLACE", "CREATE"} => Mode(f, access) = "w_b"
         /\ access = "UPDATE" => Mode(f, access) = "r_b"
<1> DEFINE s == Tries(access)
           works == {i \in DOMAIN s : Opens(f, s[i])}
           k == IF works = {} THEN 1 ELSE CHOOSE i \in works : \A j \in works : i <= j
<1>1. Mode(f, access) = s[k]
    BY DEF Mode
<1>2. ASSUME NEW n \in Nat, DOMAIN s = 1..n, n > 0  PROVE k \in 1..n
  <2>1. works \subseteq Nat
      BY <1>2
  <2>2. CASE works # {}
    <3>1. \E i \in works : \A j \in works : i <= j
        BY <2>1, <2>2, LeastNat
    <3> HIDE DEF works
    <3>2. k \in works
        BY <2>2, <3>1
    <3> QED  BY <1>2, <3>2 DEF works
  <2> QED  BY <1>2, <2>2
<1> HIDE DEF k
<1>3. CASE access = "WRITE"
  <2>1. s = <<"r_b", "w_b", "wb">>
      BY <1>3 DEF Tries
  <2> HIDE DEF s
  <2>2. k \in 1..3
      BY <2>1, <1>2
  <2> QED  BY <1>1, <1>3, <2>1, <2>2
<1>4. ASSUME NEW m, s = <<m>>  PROVE Mode(f, access) = m
  <2> HIDE DEF s
  <2>1. k \in 1..1
      BY <1>4, <1>2
  <2> QED  BY <1>1, <1>4, <2>1
<1> QED  BY <1>3, <1>4 DEF Tries

\* A box just opened is where its stream is, unless that is not known to it.
New(c, access) ==
    /\ Shape(c) /\ Matched(c) /\ ~LostBox(c)
    /\ access \in {"READ", "WRITE", "STREAM_APPEND", "STREAM_REPLACE", "CREATE"} =>
         Track(c) \/ Failed(c)
    /\ Track(c) \/ ~Placed(c) \/ Failed(c)

LEMMA EndIs ==
  ASSUME NEW b, Shape(b), NEW s
  PROVE  /\ Settles(b, AtStart(AtEnd(b, s))) /\ Settles(b, Emptied(b)) /\ Settles(b, AtEnd(b, s))
<1> DEFINE t == Told(b, Len(s))
           e == [t EXCEPT !.writepos = Len(s), !.writeline = 0]
           a == [e EXCEPT !.readpos = 0, !.readline = 1]
           z == Told(b, 0)
           y == [z EXCEPT !.readpos = 0, !.readline = 1]
           x == [y EXCEPT !.writepos = 0, !.writeline = 1]
<1>1. AtStart(AtEnd(b, s)) = a /\ Emptied(b) = x /\ AtEnd(b, s) = e
    BY DEF AtStart, AtEnd, Emptied
<1>2. Settles(b, t) /\ Settles(b, z)
    BY ToldKeeps
<1> HIDE DEF t, z
<1>3. Settles(b, e) /\ Settles(b, y)
    BY <1>2 DEF Settles, Kept, Shape, Fields, SameFirm, Failed
<1> HIDE DEF e, y
<1>4. Settles(b, a) /\ Settles(b, x)
    BY <1>3 DEF Settles, Kept, Shape, Fields, SameFirm, Failed
<1> QED  BY <1>1, <1>3, <1>4

LEMMA OpenedIs ==
  ASSUME NEW f \in Files, NEW access \in {"READ", "WRITE", "APPEND", "STREAM_APPEND",
         "STREAM_REPLACE", "CREATE", "UPDATE"}, NEW s,
         NEW x, x = [NewBox EXCEPT !.stream = Stream(Mode(f, access))]
  PROVE  New(Opened(x, s, access), access)
<1>1. /\ Shape(x) /\ x.stream = [mode |-> Mode(f, access), pos |-> 0, eof |-> FALSE]
      /\ x.flags = {} /\ x.thispos = EOF
    BY DEF NewBox, Shape, Fields, Stream
<1>0. ASSUME NEW add
      PROVE  /\ Shape(With(x, add, {})) /\ With(x, add, {}).stream = x.stream
             /\ With(x, add, {}).flags = add /\ With(x, add, {}).thispos = x.thispos
    BY <1>1 DEF With, Shape, Fields
<1>2. CASE access = "READ"
  <2> DEFINE w == With(x, {"read", "persist"}, {})
             a == [w EXCEPT !.readpos = 0, !.readline = 1]
             c == [a EXCEPT !.thispos = 0]
  <2>1. Opened(x, s, access) = c
      BY <1>2 DEF Opened, AtStart
  <2>2. Shape(w) /\ w.stream = x.stream /\ w.flags = {"read", "persist"}
      BY <1>0
  <2> HIDE DEF w
  <2>3. /\ Shape(c) /\ c.stream = w.stream /\ c.flags = w.flags /\ c.thispos = 0
      BY <2>2 DEF Shape, Fields
  <2> HIDE DEF c
  <2>4. Mode(f, access) = "rb"
      BY <1>2, ModeIs
  <2> QED  BY <1>1, <2>1, <2>2, <2>3, <2>4 DEF New, Matched, LostBox, Track, Misled, HasStream
<1>3. CASE access = "WRITE"
  <2> DEFINE w == With(x, IF x.stream.mode = "wb" THEN Both \ {"read"} ELSE Both, {})
             c == AtStart(AtEnd(w, s))
  <2>1. Opened(x, s, access) = c
      BY <1>3 DEF Opened
  <2>2. Shape(w) /\ w.stream = x.stream
        /\ w.flags = IF x.stream.mode = "wb" THEN Both \ {"read"} ELSE Both
      BY <1>0
  <2> HIDE DEF w
  <2>3. Settles(w, c)
      BY <2>2, EndIs
  <2> HIDE DEF c
  <2>4. Mode(f, access) \in {"r_b", "w_b", "wb"}
      BY <1>3, ModeIs
  <2>5. Shape(c) /\ c.stream.mode = x.stream.mode /\ c.thispos = c.stream.pos
        /\ "persist" \in c.flags /\ (x.stream.mode # "wb" => "read" \in c.flags)
      BY <2>2, <2>3 DEF Settles, Kept, SameFirm, Firm, Both
  <2> QED  BY <1>1, <2>1, <2>4, <2>5 DEF New, Matched, LostBox, Track, Misled, HasStream
<1>4. CASE access = "APPEND"
  <2> DEFINE c == With(x, {"write", "wreof"}, {})
  <2>1. Opened(x, s, access) = c
      BY <1>4 DEF Opened
  <2>2. Shape(c) /\ c.stream = x.stream /\ c.flags = {"write", "wreof"}
      BY <1>0
  <2> HIDE DEF c
  <2>3. Mode(f, access) = "ab"
      BY <1>4, ModeIs
  <2> QED  BY <1>1, <1>4, <2>1, <2>2, <2>3 DEF New, Matched, LostBox, HasStream, Placed
<1>5. CASE access = "STREAM_APPEND"
  <2> DEFINE w == With(x, {"write", "wreof", "persist"}, {})
             c == AtStart(AtEnd(w, s))
  <2>1. Opened(x, s, access) = c
      BY <1>5 DEF Opened
  <2>2. Shape(w) /\ w.stream = x.stream /\ w.flags = {"write", "wreof", "persist"}
      BY <1>0
  <2> HIDE DEF w
  <2>3. Settles(w, c)
      BY <2>2, EndIs
  <2> HIDE DEF c
  <2>4. Mode(f, access) = "ab"
      BY <1>5, ModeIs
  <2>5. Shape(c) /\ c.stream.mode = x.stream.mode /\ c.thispos = c.stream.pos
        /\ "persist" \in c.flags /\ "read" \notin c.flags
      BY <2>2, <2>3 DEF Settles, Kept, SameFirm, Firm
  <2> QED  BY <1>1, <2>1, <2>4, <2>5 DEF New, Matched, LostBox, Track, Misled, HasStream
<1>6. CASE access \in {"STREAM_REPLACE", "CREATE"}
  <2> DEFINE w == With(x, Both \cup {"wreof", "rdeof"}, {})
             c == Emptied(w)
  <2>1. Opened(x, s, access) = c
      BY <1>6 DEF Opened
  <2>2. Shape(w) /\ w.stream = x.stream /\ w.flags = Both \cup {"wreof", "rdeof"}
      BY <1>0
  <2> HIDE DEF w
  <2>3. Settles(w, c)
      BY <2>2, EndIs
  <2> HIDE DEF c
  <2>4. Mode(f, access) = "w_b"
      BY <1>6, ModeIs
  <2>5. Shape(c) /\ c.stream.mode = x.stream.mode /\ c.thispos = c.stream.pos
        /\ "persist" \in c.flags /\ "read" \in c.flags
      BY <2>2, <2>3 DEF Settles, Kept, SameFirm, Firm, Both
  <2> QED  BY <1>1, <2>1, <2>4, <2>5 DEF New, Matched, LostBox, Track, Misled, HasStream
<1>7. CASE access = "UPDATE"
  <2> DEFINE c == With(x, Both, {})
  <2>1. Opened(x, s, access) = c
      BY <1>7 DEF Opened
  <2>2. Shape(c) /\ c.stream = x.stream /\ c.flags = Both /\ c.thispos = EOF
      BY <1>0, <1>1
  <2> HIDE DEF c
  <2>3. Mode(f, access) = "r_b"
      BY <1>7, ModeIs
  <2> QED  BY <1>1, <1>7, <2>1, <2>2, <2>3 DEF New, Matched, LostBox, HasStream, Placed, Both
<1> QED  BY <1>2, <1>3, <1>4, <1>5, <1>6, <1>7

LEMMA OpenFileIs ==
  ASSUME NEW t, TableShape(t), NEW f \in Files, NEW access \in {"READ", "WRITE", "APPEND",
         "STREAM_APPEND", "STREAM_REPLACE", "CREATE", "UPDATE"}
  PROVE  Moves(t, openfile(t, f, access), f) /\ New(openfile(t, f, access).box[f], access)
<1> DEFINE g == getfileptr(t, f)
           u == [g EXCEPT !.box[f] = NewBox, !.mru = <<f>> \o Without(@, f)]
           m == Mode(f, access)
           r == fopen(u, f, m)
           x == r.box[f]
           c == IF HasStream(x) THEN Opened(x, r.disk[f], access) ELSE file_error(x)
<1>1. openfile(t, f, access) = Into(r, f, c)
    BY DEF openfile, Noted, Into
<1>2. Moves(t, g, f)
    BY FilePtrIs
<1> HIDE DEF g
<1>3. Shape(NewBox)
    BY DEF NewBox, Shape, Fields, NoStream
<1>4. TableShape(u) /\ u.box[f] = NewBox /\ \A h \in Files \ {f} : u.box[h] = g.box[h]
    BY <1>2, <1>3 DEF Moves, TableShape
<1> HIDE DEF u
<1>5. Moves(t, u, f)
    BY <1>2, <1>4 DEF Moves
<1>6. Moves(u, r, f) /\ Like(NewBox, x) /\ x.stream \in {NoStream, Stream(m)}
    BY <1>4, OpenIs DEF NewBox
<1>7. ASSUME HasStream(x)  PROVE x = [NewBox EXCEPT !.stream = Stream(m)]
  <2>1. fopen(u, f, m) = swapout_file(u, f) \/ fopen(u, f, m).box[f] =
          [swapout_file(u, f).box[f] EXCEPT !.stream = Stream(m)]
    <3> DEFINE s == swapout_file(u, f)
               d == IF m \in {"w_b", "wb"} THEN << >> ELSE s.disk[f]
               o == [s EXCEPT !.box[f].stream = Stream(m), !.disk[f] = d]
    <3>1. fopen(u, f, m) = s \/ fopen(u, f, m) = o
        BY DEF fopen
    <3>2. TableShape(s)
        BY <1>4, SwapOutIs
    <3> HIDE DEF s, d
    <3>3. o.box[f] = [s.box[f] EXCEPT !.stream = Stream(m)]
        BY <3>2 DEF TableShape
    <3> QED  BY <3>1, <3>3 DEF s
  <2>2. swapout_file(u, f).box[f] = NewBox
    <3> DEFINE s == swapout_file(u, f)
               v == Victim(u, f)
    <3>1. s = u \/ s = [u EXCEPT !.box[v] = flush_output(@)]
        BY DEF swapout_file
    <3>2. flush_output(NewBox) = NewBox
        BY DEF flush_output, HasStream, NewBox, NoStream
    <3> HIDE DEF s, v
    <3> QED  BY <1>4, <3>1, <3>2 DEF s, TableShape
  <2>3. ~HasStream(NewBox)
      BY DEF HasStream, NewBox, NoStream
  <2> QED  BY <1>7, <2>1, <2>2, <2>3
<1> HIDE DEF r
<1>8. New(c, access)
  <2>1. CASE HasStream(x)
      BY <1>7, <2>1, OpenedIs
  <2>2. CASE ~HasStream(x)
    <3>1. Kept(x, file_error(x)) /\ Failed(file_error(x))
        BY <1>6, ErrorKeeps DEF Like
    <3> QED  BY <2>2, <3>1 DEF New, Kept, Matched, LostBox, HasStream, Failed
  <2> QED  BY <2>1, <2>2
<1> HIDE DEF c, x
<1>9. Moves(r, Into(r, f, c), f) /\ Into(r, f, c).box[f] = c
    BY <1>6, <1>8, IntoMoves DEF Moves, New
<1> QED  BY <1>1, <1>5, <1>6, <1>8, <1>9, MovesOn

LEMMA ReopenedIs ==
  ASSUME NEW b, Shape(b), NEW x, Like(b, x), NEW s, x.stream = Stream("r_b"),
         NEW oper \in {"read", "write"}, oper \notin b.flags
  PROVE  /\ Shape(Reopened(x, s)) /\ Matched(Reopened(x, s)) /\ ~LostBox(Reopened(x, s))
         /\ "persist" \in b.flags /\ ~Crossed(b, Reopened(x, s)) => Track(Reopened(x, s))
<1> DEFINE a == [x EXCEPT !.readpos = 0, !.readline = 1]
           r == IF x.readpos = EOF THEN [a EXCEPT !.thispos = 0, !.linesleft = 0] ELSE x
           e == AtEnd(r, s)
           w == IF r.writepos # EOF THEN r
                ELSE IF "persist" \in r.flags THEN e
                ELSE [r EXCEPT !.writepos = 0, !.writeline = 0, !.thispos = 0]
           c == [w EXCEPT !.flags = Both, !.oper = "none"]
<1>1. /\ Shape(x) /\ x.stream.mode = "r_b" /\ x.stream.pos = 0
      /\ x.thispos = b.thispos /\ x.readpos = b.readpos /\ x.writepos = b.writepos
      /\ "persist" \in x.flags <=> "persist" \in b.flags
    BY DEF Like, Stream
<1>2. Reopened(x, s) = c
  <2>1. r.writepos = x.writepos /\ r.flags = x.flags
      BY <1>1 DEF Shape, Fields
  <2> QED  BY <2>1 DEF Reopened, AtStart
<1>3. /\ Shape(r) /\ r.stream = x.stream /\ r.flags = x.flags /\ r.writepos = x.writepos
      /\ r.thispos = IF x.readpos = EOF THEN 0 ELSE x.thispos
    BY <1>1 DEF Shape, Fields
<1> HIDE DEF r
<1>4. Settles(r, e)
    BY <1>3, EndIs
<1> HIDE DEF e
<1>5. /\ Shape(w) /\ w.stream.mode = "r_b"
      /\ "persist" \in b.flags /\ ~(b.readpos # EOF /\ b.writepos # EOF) => w.thispos = w.stream.pos
    BY <1>1, <1>3, <1>4 DEF Settles, Kept, Shape, Fields
<1> HIDE DEF w
<1>6. /\ Shape(c) /\ c.stream = w.stream /\ c.flags = Both /\ c.thispos = w.thispos
    BY <1>5 DEF Shape, Fields
<1> HIDE DEF c
<1>7. "persist" \in b.flags /\ ~Crossed(b, c) => Track(c)
    BY <1>1, <1>5, <1>6 DEF Crossed, Halfway, Track, Misled, Both
<1>8. Matched(c) /\ ~LostBox(c)
    BY <1>5, <1>6 DEF Matched, LostBox, HasStream, Both
<1> QED  BY <1>2, <1>6, <1>7, <1>8

LEMMA ReopenIs ==
  ASSUME NEW t, TableShape(t), NEW f \in Files, NEW oper \in {"read", "write"},
         oper \notin t.box[f].flags
  PROVE  /\ Moves(t, reopen_file(t, f), f)
         /\ LET b == t.box[f]
                c == reopen_file(t, f).box[f]
            IN  /\ Shape(c) /\ Matched(c) /\ ~LostBox(c)
                /\ "persist" \in b.flags /\ ~Crossed(b, c) => Track(c)
<1> DEFINE b == t.box[f]
           z == [b EXCEPT !.stream = NoStream]
           u == [t EXCEPT !.box[f].stream = NoStream]
           r == fopen(u, f, "r_b")
           x == r.box[f]
           c == IF HasStream(x) THEN Reopened(x, r.disk[f]) ELSE file_error(x)
<1>1. reopen_file(t, f) = Into(r, f, c)
    BY DEF reopen_file, Into
<1>2. TableShape(u) /\ u.box[f] = z /\ \A h \in Files \ {f} : u.box[h] = t.box[h]
    BY DEF TableShape, Shape, Fields, NoStream
<1>3. Shape(b) /\ Like(b, z) /\ z.stream = NoStream
    BY DEF TableShape, Like, Shape, Fields, NoStream
<1> HIDE DEF u, z
<1>4. Moves(t, u, f)
    BY <1>2 DEF Moves, Aside, TableShape
<1>5. Moves(u, r, f) /\ Like(z, x) /\ x.stream \in {NoStream, Stream("r_b")}
    BY <1>2, <1>3, OpenIs
<1> HIDE DEF r
<1>6. Like(b, x)
    BY <1>3, <1>5 DEF Like
<1>7. /\ Shape(c) /\ Matched(c) /\ ~LostBox(c)
      /\ "persist" \in b.flags /\ ~Crossed(b, c) => Track(c)
  <2>1. CASE HasStream(x)
    <3>1. x.stream = Stream("r_b")
        BY <1>5, <2>1 DEF HasStream, NoStream
    <3> HIDE DEF b, x
    <3> QED  BY <1>3, <1>6, <2>1, <3>1, ReopenedIs DEF b
  <2>2. CASE ~HasStream(x)
    <3>1. Kept(x, file_error(x)) /\ Failed(file_error(x))
        BY <1>5, ErrorKeeps DEF Like
    <3>2. "persist" \in b.flags <=> "persist" \in x.flags
        BY <1>6 DEF Like
    <3> HIDE DEF b, x
    <3> QED  BY <2>2, <3>1, <3>2 DEF Kept, Matched, LostBox, HasStream, Failed, Track, SameFirm, Firm
  <2> QED  BY <2>1, <2>2
<1> HIDE DEF c, x
<1>8. Moves(r, Into(r, f, c), f) /\ Into(r, f, c).box[f] = c
    BY <1>5, <1>7, IntoMoves DEF Moves
<1> QED  BY <1>1, <1>4, <1>5, <1>7, <1>8, MovesOn

LEMMA GotStep ==
  ASSUME NEW b, NEW c, Got(b, c)
  PROVE  Step(b, c)
BY DEF Got, Step

LEMMA GetFilePtr ==
  ASSUME NEW t, TableShape(t), NEW f \in Files, NEW oper \in {"read", "write", "both"},
         NEW access \in {"READ", "WRITE"}
  PROVE  /\ Moves(t, get_file_ptr(t, f, oper, access), f)
         /\ Step(t.box[f], get_file_ptr(t, f, oper, access).box[f])
<1> DEFINE b == t.box[f]
           g == getfileptr(t, f)
           w == reopen_file(g, f)
           c == g.box[f]
           d == w.box[f]
<1>1. CASE InTable(t, f)
  <2>1. \/ get_file_ptr(t, f, oper, access) = g
        \/ /\ get_file_ptr(t, f, oper, access) = w
           /\ oper \in {"read", "write"} /\ oper \notin c.flags /\ ~Failed(c)
      BY <1>1 DEF get_file_ptr, Turned
  <2>2. Moves(t, g, f) /\ Got(b, c)
      BY FilePtrIs
  <2> HIDE DEF g
  <2>3. ASSUME oper \in {"read", "write"}, oper \notin c.flags, ~Failed(c)
        PROVE  Moves(g, w, f) /\ Step(b, d)
    <3>1. /\ Moves(g, w, f) /\ Shape(d) /\ Matched(d) /\ ~LostBox(d)
          /\ "persist" \in c.flags /\ ~Crossed(c, d) => Track(d)
        BY <2>2, <2>3, ReopenIs DEF Moves
    <3> HIDE DEF b, c, d, w
    <3>2. "persist" \in b.flags /\ ~Crossed(b, d) => Track(d)
        BY <2>2, <3>1 DEF Got, Crossed, Halfway
    <3> QED  BY <3>1, <3>2 DEF Step, Sound, NotLost, Sure, Placed
  <2> HIDE DEF w
  <2> QED  BY <2>1, <2>2, <2>3, MovesOn, GotStep
<1>2. CASE ~InTable(t, f)
  <2> DEFINE o == openfile(t, f, access)
  <2>1. get_file_ptr(t, f, oper, access) = o
      BY <1>2 DEF get_file_ptr
  <2>2. Moves(t, o, f) /\ New(o.box[f], access)
      BY OpenFileIs
  <2>3. ~Sure(b)
      BY <1>2 DEF InTable, Sure, Placed, NoBox, NewBox
  <2> HIDE DEF o, b
  <2> QED  BY <2>1, <2>2, <2>3 DEF Step, Sound, NotLost, New, b
<1> QED  BY <1>1, <1>2

----------------------------------------------------------------------------
(* The built-in functions.                                                  *)

TableKept(t, u, f) == Moves(t, u, f) /\ Kept(t.box[f], u.box[f])
TableKind(t, u, f) == Moves(t, u, f) /\ Kind(t.box[f], u.box[f])

LEMMA TableOn ==
  ASSUME NEW t, NEW u, NEW v, NEW f
  PROVE  /\ TableKept(t, u, f) /\ TableKept(u, v, f) => TableKept(t, v, f)
         /\ TableKind(t, u, f) /\ TableKind(u, v, f) => TableKind(t, v, f)
         /\ TableKind(t, u, f) => TableKept(t, u, f)
BY MovesOn, KeptOn, KindOn DEF TableKept, TableKind, Kind

LEMMA TableItself ==
  ASSUME NEW t, TableShape(t), NEW f \in Files
  PROVE  TableKind(t, t, f)
BY MovesNowhere, KindItself DEF TableKind, TableShape

LEMMA TableShaped ==
  ASSUME NEW t, NEW u, NEW f \in Files, TableKept(t, u, f) \/ TableKind(t, u, f)
  PROVE  TableShape(u)
BY DEF TableKept, TableKind, Moves

LEMMA IntoTable ==
  ASSUME NEW t, TableShape(t), NEW f \in Files, NEW b
  PROVE  /\ Kept(t.box[f], b) => TableKept(t, Into(t, f, b), f)
         /\ Kind(t.box[f], b) => TableKind(t, Into(t, f, b), f)
BY IntoMoves DEF TableKept, TableKind, Kind, Kept

LEMMA StoredTable ==
  ASSUME NEW t, TableShape(t), NEW f \in Files, NEW w, Kind(t.box[f], w.box)
  PROVE  TableKind(t, Stored(t, f, w), f)
BY StoredMoves DEF TableKind, Kind, Kept

LEMMA AtByteKept ==
  ASSUME NEW t, TableShape(t), NEW f \in Files, NEW oper, NEW p
  PROVE  /\ TableKept(t, AtByte(t, f, oper, p), f)
         /\ p = 0 => TableKind(t, AtByte(t, f, oper, p), f)
<1>1. Kept(t.box[f], positioncharfile(t.box[f], t.disk[f], {oper}, p, "SET"))
    BY ByBytesKept DEF TableShape
<1> QED  BY <1>1, IntoTable, TableItself, TableOn DEF AtByte

LEMMA AtLineKind ==
  ASSUME NEW t, TableShape(t), NEW f \in Files, NEW oper, NEW n
  PROVE  TableKind(t, AtLine(t, f, oper, n), f)
<1>1. Kind(t.box[f], positionfile(t.box[f], t.disk[f], {oper}, n, "SET"))
    BY ByLinesKind DEF TableShape
<1> QED  BY <1>1, IntoTable, TableItself DEF AtLine

LEMMA CharinKept ==
  ASSUME NEW t, TableShape(t), NEW f \in Files, NEW start, NEW length
  PROVE  /\ TableKept(t, std_charin(t, f, start, length), f)
         /\ start = 0 => TableKind(t, std_charin(t, f, start, length), f)
<1> DEFINE g == AtByte(t, f, "read", start)
           u == Bytes(g, f, length)
<1>1. TableKept(t, g, f) /\ (start = 0 => TableKind(t, g, f))
    BY AtByteKept
<1>2. TableShape(g)
    BY <1>1, TableShaped
<1> HIDE DEF g
<1>3. Kind(g.box[f], readbytes(g.box[f], g.disk[f], length, FALSE).box)
  <2>1. ASSUME NEW no PROVE Kind(g.box[f], readbytes(g.box[f], g.disk[f], length, no).box)
      BY <1>2, ReadBytesKind DEF TableShape
  <2> QED  BY <2>1, Zenon
<1>4. TableKind(g, u, f)
    BY <1>2, <1>3, IntoTable, TableItself, Zenon DEF Bytes
<1> HIDE DEF u
<1> QED  BY <1>1, <1>4, TableOn DEF std_charin, g, u

LEMMA LineinKind ==
  ASSUME NEW t, TableShape(t), NEW f \in Files, NEW line, NEW count
  PROVE  TableKind(t, std_linein(t, f, line, count), f)
<1> DEFINE g == AtLine(t, f, "read", line)
           u == Line(g, f, count)
<1>1. TableKind(t, g, f) /\ TableShape(g)
    BY AtLineKind, TableShaped
<1> HIDE DEF g
<1>2. Kind(g.box[f], readoneline(g.box[f], g.disk[f]).box)
    BY <1>1, ReadLineKind DEF TableShape
<1>3. TableKind(g, u, f)
    BY <1>1, <1>2, IntoTable, TableItself, Zenon DEF Line
<1> HIDE DEF u
<1> QED  BY <1>1, <1>3, TableOn DEF std_linein, g, u

Texts == {<< >>, <<"a">>}

LEMMA PutBytesKind ==
  ASSUME NEW t, TableShape(t), NEW f \in Files, NEW string \in Texts, string # << >>
  PROVE  TableKind(t, PutBytes(t, f, string), f)
<1>1. ASSUME NEW no PROVE Kind(t.box[f], writebytes(t.box[f], t.disk[f], string, no).box)
    BY WriteBytesKind DEF TableShape
<1>2. Kind(t.box[f], writebytes(t.box[f], t.disk[f], string, FALSE).box)
    BY <1>1, Zenon
<1> QED  BY <1>2, StoredTable DEF PutBytes

LEMMA PutLineKind ==
  ASSUME NEW t, TableShape(t), NEW f \in Files, NEW string \in Texts
  PROVE  TableKind(t, PutLine(t, f, string), f)
<1>1. string \in Seq({"a"})
  <2>1. << >> \in Seq({"a"}) /\ <<"a">> \in Seq({"a"})
      OBVIOUS
  <2> QED  BY <2>1 DEF Texts
<1>2. Kind(t.box[f], writeoneline(t.box[f], t.disk[f], string).box)
    BY <1>1, WriteLineKind DEF TableShape
<1> QED  BY <1>2, StoredTable DEF PutLine

\* The end of a call on a box that was got hold of.
BothWays(b) == {"read", "write"} \subseteq b.flags
Lasting(b, c) == Sound(b, c) /\ NotLost(b, c)
Ending(b, c) ==
    /\ Lasting(b, c)
    /\ \/ ~Placed(c)
       \/ (BothWays(b) => BothWays(c)) /\ (Track(b) => Failed(c) \/ ~Misled(c))
Fine(b, c) == Sure(b) /\ ~Crossed(b, c) => Failed(c) \/ ~Misled(c) \/ ~Placed(c)

LEMMA KeptLasts ==
  ASSUME NEW b, NEW c, Kept(b, c)
  PROVE  Lasting(b, c)
BY DEF Lasting, Sound, NotLost, LostBox, Matched, HasStream, Kept, SameFirm, Firm, Failed

LEMMA KindEnds ==
  ASSUME NEW b, NEW c, Kind(b, c)
  PROVE  Ending(b, c)
BY KeptLasts DEF Kind, Ending, Track, BothWays, Kept, SameFirm, Firm

LEMMA StepEnds ==
  ASSUME NEW a, NEW b, NEW c, Step(a, b)
  PROVE  /\ Lasting(b, c) => Lasting(a, c)
         /\ Ending(b, c) => Fine(a, c)
BY DEF Step, Ending, Lasting, Sound, NotLost, Fine, Crossed, BothWays

LEMMA FlushEnds ==
  ASSUME NEW b, Shape(b)
  PROVE  Ending(b, flush_output(b))
<1> DEFINE c == flush_output(b)
<1>1. CASE ~HasStream(b)
  <2>1. c = b
      BY <1>1 DEF flush_output
  <2> QED  BY <2>1, KindItself, KindEnds
<1>2. CASE HasStream(b)
  <2>1. /\ Like(b, c) /\ c.stream = NoStream /\ "swapped" \in c.flags
      BY <1>2, FlushIs DEF flush_output, HasStream, NoStream, With, Shape, Fields
  <2> HIDE DEF c
  <2>2. Shape(c) /\ ~HasStream(c) /\ (BothWays(b) => BothWays(c))
      BY <2>1 DEF Like, HasStream, NoStream, BothWays
  <2>3. Matched(c) /\ ~LostBox(c) /\ ~Misled(c)
      BY <2>1, <2>2 DEF Matched, LostBox, Misled
  <2> QED  BY <2>2, <2>3 DEF Ending, Lasting, Sound, NotLost, c
<1> QED  BY <1>1, <1>2

LEMMA CloseEnds ==
  ASSUME NEW t, TableShape(t), NEW f \in Files
  PROVE  Moves(t, closefile(t, f), f) /\ \A b : Ending(b, closefile(t, f).box[f])
<1>1. Shape(NoBox) /\ ~HasStream(NoBox) /\ "none" \in NoBox.flags /\ ~Placed(NoBox)
    BY DEF NoBox, NewBox, Shape, Fields, NoStream, HasStream, Placed
<1>2. \A b : Ending(b, NoBox)
    BY <1>1 DEF Ending, Lasting, Sound, NotLost, Matched, LostBox
<1> QED  BY <1>1, <1>2 DEF closefile, Moves, Aside, TableShape

TableEnds(t, u, f) == Moves(t, u, f) /\ Ending(t.box[f], u.box[f])

LEMMA CharoutEnds ==
  ASSUME NEW t, TableShape(t), NEW f \in Files, NEW string \in Texts, NEW pos
  PROVE  /\ Moves(t, std_charout(t, f, string, pos), f)
         /\ Lasting(t.box[f], std_charout(t, f, string, pos).box[f])
         /\ pos = 0 => Ending(t.box[f], std_charout(t, f, string, pos).box[f])
<1> DEFINE g == AtByte(t, f, "write", pos)
           u == PutBytes(g, f, string)
           b == t.box[f]
           e == [b EXCEPT !.writepos = End(b, t.disk[f]), !.writeline = 0]
           o == Into(t, f, flush_output(e))
<1>1. TableKept(t, g, f) /\ (pos = 0 => TableKind(t, g, f)) /\ TableShape(g)
    BY AtByteKept, TableShaped
<1> HIDE DEF g
<1>2. string # << >> => TableKind(g, u, f)
    BY <1>1, PutBytesKind
<1> HIDE DEF u
<1>3. Kind(b, e)
  <2>1. Kept(b, e) /\ e.thispos = b.thispos /\ e.stream = b.stream
      BY DEF TableShape, Kept, Shape, Fields, SameFirm, Failed
  <2> QED  BY <2>1, KindAlong
<1> HIDE DEF e
<1>4. Ending(e, flush_output(e)) /\ Shape(flush_output(e))
    BY <1>3, FlushEnds DEF Kind, Kept, Ending, Lasting, Sound
<1>5. Ending(b, flush_output(e))
  <2>1. Lasting(b, e) /\ (BothWays(b) => BothWays(e))
      BY <1>3, KeptLasts DEF Kind, Kept, SameFirm, Firm, BothWays
  <2> QED  BY <1>3, <1>4, <2>1 DEF Ending, Lasting, Sound, NotLost, Kind
<1>6. Moves(t, o, f) /\ o.box[f] = flush_output(e)
    BY <1>4, IntoMoves
<1> HIDE DEF o
<1>7. \/ std_charout(t, f, string, pos) = u /\ string # << >>
      \/ std_charout(t, f, string, pos) = g /\ pos # 0
      \/ std_charout(t, f, string, pos) = o
    BY DEF std_charout, o, e, g, u
<1>8. TableKept(t, g, f) => Moves(t, g, f) /\ Lasting(t.box[f], g.box[f])
    BY KeptLasts DEF TableKept
<1>9. /\ TableKept(t, u, f) => Moves(t, u, f) /\ Lasting(t.box[f], u.box[f])
      /\ TableKind(t, u, f) => Ending(t.box[f], u.box[f])
    BY KeptLasts, KindEnds DEF TableKept, TableKind
<1>10. string # << >> => TableKept(t, u, f) /\ (pos = 0 => TableKind(t, u, f))
    BY <1>1, <1>2, TableOn
<1> QED  BY <1>1, <1>5, <1>6, <1>7, <1>8, <1>9, <1>10 DEF Ending

LEMMA LineoutEnds ==
  ASSUME NEW t, TableShape(t), NEW f \in Files, NEW string \in Texts, NEW line
  PROVE  TableEnds(t, std_lineout(t, f, string, line), f)
<1> DEFINE g == AtLine(t, f, "write", line)
           u == PutLine(g, f, string)
           v == std_lineout(t, f, string, line)
<1>1. TableKind(t, g, f) /\ TableShape(g)
    BY AtLineKind, TableShaped
<1> HIDE DEF g
<1>2. TableKind(t, u, f)
    BY <1>1, PutLineKind, TableOn
<1> HIDE DEF u
<1>3. TableKind(t, v, f) \/ v = closefile(t, f)
    BY <1>1, <1>2 DEF std_lineout, g, u
<1> HIDE DEF v
<1> QED  BY <1>3, CloseEnds, KindEnds DEF TableEnds, TableKind, v

----------------------------------------------------------------------------
(* The calls of a program.                                                  *)

Boxes == DOMAIN box = Files /\ \A h \in Files : Shape(box[h])
SameBox(b, c) ==
    Shape(c) /\ c.stream = b.stream /\ c.flags = b.flags /\ c.thispos = b.thispos
\* What a call on f does to the boxes.
Went(f) ==
    /\ DOMAIN box' = Files
    /\ \A h \in Files : Sound(box[h], box'[h])
    /\ \A h \in Files \ {f} : NotLost(box[h], box'[h]) /\ Fine(box[h], box'[h])

LEMMA SameDoes ==
  ASSUME NEW a, NEW b, NEW c, SameBox(b, c)
  PROVE  /\ Sound(a, b) => Sound(a, c)
         /\ NotLost(a, b) => NotLost(a, c)
         /\ Fine(a, b) => Fine(a, c)
BY DEF SameBox, Sound, NotLost, Fine, Matched, LostBox, Misled, Placed, Failed, Crossed, HasStream

LEMMA ItselfDoes ==
  ASSUME NEW b, Shape(b)
  PROVE  Sound(b, b) /\ NotLost(b, b) /\ Fine(b, b)
BY DEF Sound, NotLost, Fine, Sure

LEMMA AsideDoes ==
  ASSUME NEW b, NEW c, Aside(b, c)
  PROVE  Sound(b, c) /\ NotLost(b, c) /\ Fine(b, c)
BY ItselfDoes DEF Aside, Sound, NotLost, Fine, Matched, LostBox, Misled

LEMMA DoneDoes ==
  ASSUME Boxes, NEW f \in Files, NEW t, Moves(table, t, f), Sound(box[f], t.box[f]), Done(f, t)
  PROVE  /\ Went(f)
         /\ NotLost(box[f], t.box[f]) => NotLost(box[f], box'[f])
         /\ Fine(box[f], t.box[f]) => Fine(box[f], box'[f])
<1>1. box' = [h \in Files |-> [t.box[h] EXCEPT !.raised = FALSE]]
    BY DEF Done
<1>2. TableShape(t) /\ \A h \in Files \ {f} : Aside(box[h], t.box[h])
    BY DEF Moves, table
<1>3. \A h \in Files : SameBox(t.box[h], box'[h])
    BY <1>1, <1>2 DEF SameBox, TableShape, Shape, Fields
<1>4. ASSUME NEW h \in Files \ {f}
      PROVE  Sound(box[h], box'[h]) /\ NotLost(box[h], box'[h]) /\ Fine(box[h], box'[h])
    BY <1>2, <1>3, AsideDoes, SameDoes
<1>5. DOMAIN box' = Files
    BY <1>1
<1>6. SameBox(t.box[f], box'[f])
    BY <1>3
<1> QED  BY <1>4, <1>5, <1>6, SameDoes DEF Went

LEMMA CrashDoes ==
  ASSUME Boxes, NEW f \in Files, UNCHANGED box
  PROVE  Went(f) /\ NotLost(box[f], box'[f]) /\ Fine(box[f], box'[f])
BY ItselfDoes DEF Boxes, Went

LEMMA TableIs ==
  ASSUME Boxes
  PROVE  TableShape(table) /\ table.box = box /\ table.disk = disk
BY DEF Boxes, TableShape, table

\* A call on a box that was got hold of.
LEMMA CallDoes ==
  ASSUME Boxes, NEW f \in Files, NEW g, NEW t, Moves(table, g, f), Step(box[f], g.box[f]),
         Moves(g, t, f), Lasting(g.box[f], t.box[f]), Done(f, t)
  PROVE  /\ Went(f) /\ NotLost(box[f], box'[f])
         /\ Ending(g.box[f], t.box[f]) => Fine(box[f], box'[f])
<1>1. Moves(table, t, f)
    BY MovesOn
<1>2. Lasting(box[f], t.box[f])
      /\ (Ending(g.box[f], t.box[f]) => Fine(box[f], t.box[f]))
    BY StepEnds
<1> QED  BY <1>1, <1>2, DoneDoes DEF Lasting

LEMMA Same ==
  ASSUME NEW t, TableShape(t), NEW f \in Files
  PROVE  Moves(t, t, f) /\ Ending(t.box[f], t.box[f])
BY MovesNowhere, KindItself, KindEnds DEF TableShape

LEMMA CharInDoes ==
  ASSUME Boxes, NEW f \in Files, NEW start, NEW length, CharIn(f, start, length)
  PROVE  /\ Went(f) /\ NotLost(box[f], box'[f])
         /\ start = 0 => Fine(box[f], box'[f])
<1> DEFINE g == get_file_ptr(table, f, "read", "READ")
           t == IF Stops(g.box[f], "read", start) THEN g ELSE std_charin(g, f, start, length)
<1>1. UNCHANGED box \/ Done(f, t)
    BY DEF CharIn, Crash
<1>2. Moves(table, g, f) /\ Step(box[f], g.box[f])
    BY TableIs, GetFilePtr
<1>3. TableShape(g)
    BY <1>2 DEF Moves
<1> HIDE DEF g
<1>4. Moves(g, t, f) /\ Lasting(g.box[f], t.box[f])
      /\ (start = 0 => Ending(g.box[f], t.box[f]))
  <2> DEFINE v == std_charin(g, f, start, length)
  <2>1. TableKept(g, v, f) /\ (start = 0 => TableKind(g, v, f))
      BY <1>3, CharinKept
  <2> HIDE DEF v
  <2>2. Moves(g, v, f) /\ Lasting(g.box[f], v.box[f])
        /\ (start = 0 => Ending(g.box[f], v.box[f]))
      BY <2>1, KeptLasts, KindEnds DEF TableKept, TableKind
  <2> QED  BY <1>3, <2>2, Same DEF Ending, v
<1> HIDE DEF t
<1> QED  BY <1>1, <1>2, <1>4, CallDoes, CrashDoes

LEMMA LineInDoes ==
  ASSUME Boxes, NEW f \in Files, NEW line, NEW count, LineIn(f, line, count)
  PROVE  Went(f) /\ NotLost(box[f], box'[f]) /\ Fine(box[f], box'[f])
<1> DEFINE g == get_file_ptr(table, f, "read", "READ")
           t == IF Stops(g.box[f], "read", line) THEN g ELSE std_linein(g, f, line, count)
<1>1. UNCHANGED box \/ Done(f, t)
    BY DEF LineIn, Crash
<1>2. Moves(table, g, f) /\ Step(box[f], g.box[f])
    BY TableIs, GetFilePtr
<1>3. TableShape(g)
    BY <1>2 DEF Moves
<1> HIDE DEF g
<1>4. Moves(g, t, f) /\ Ending(g.box[f], t.box[f])
  <2> DEFINE v == std_linein(g, f, line, count)
  <2>1. TableKind(g, v, f)
      BY <1>3, LineinKind
  <2> HIDE DEF v
  <2>2. Moves(g, v, f) /\ Ending(g.box[f], v.box[f])
      BY <2>1, KindEnds DEF TableKind
  <2> QED  BY <1>3, <2>2, Same DEF v
<1> HIDE DEF t
<1> QED  BY <1>1, <1>2, <1>4, CallDoes, CrashDoes DEF Ending

LEMMA CharOutDoes ==
  ASSUME Boxes, NEW f \in Files, NEW string \in Texts, NEW pos, CharOut(f, string, pos)
  PROVE  /\ Went(f) /\ NotLost(box[f], box'[f])
         /\ pos = 0 => Fine(box[f], box'[f])
<1> DEFINE g == get_file_ptr(table, f, "write", "WRITE")
           t == IF Stops(g.box[f], "write", pos) THEN g ELSE std_charout(g, f, string, pos)
<1>1. UNCHANGED box \/ Done(f, t)
    BY DEF CharOut, Crash
<1>2. Moves(table, g, f) /\ Step(box[f], g.box[f])
    BY TableIs, GetFilePtr
<1>3. TableShape(g)
    BY <1>2 DEF Moves
<1> HIDE DEF g
<1>4. Moves(g, t, f) /\ Lasting(g.box[f], t.box[f])
      /\ (pos = 0 => Ending(g.box[f], t.box[f]))
  <2> DEFINE v == std_charout(g, f, string, pos)
  <2>1. Moves(g, v, f) /\ Lasting(g.box[f], v.box[f])
        /\ (pos = 0 => Ending(g.box[f], v.box[f]))
      BY <1>3, CharoutEnds
  <2> HIDE DEF v
  <2> QED  BY <1>3, <2>1, Same DEF Ending, v
<1> HIDE DEF t
<1> QED  BY <1>1, <1>2, <1>4, CallDoes, CrashDoes

LEMMA LineOutDoes ==
  ASSUME Boxes, NEW f \in Files, NEW string \in Texts, NEW line, LineOut(f, string, line)
  PROVE  Went(f) /\ NotLost(box[f], box'[f]) /\ Fine(box[f], box'[f])
<1> DEFINE g == get_file_ptr(table, f, "write", "WRITE")
           t == IF Stops(g.box[f], "write", line) THEN g ELSE std_lineout(g, f, string, line)
<1>1. UNCHANGED box \/ Done(f, t)
    BY DEF LineOut, Crash
<1>2. Moves(table, g, f) /\ Step(box[f], g.box[f])
    BY TableIs, GetFilePtr
<1>3. TableShape(g)
    BY <1>2 DEF Moves
<1> HIDE DEF g
<1>4. Moves(g, t, f) /\ Ending(g.box[f], t.box[f])
  <2> DEFINE v == std_lineout(g, f, string, line)
  <2>1. TableEnds(g, v, f)
      BY <1>3, LineoutEnds
  <2> HIDE DEF v
  <2> QED  BY <1>3, <2>1, Same DEF TableEnds, v
<1> HIDE DEF t
<1> QED  BY <1>1, <1>2, <1>4, CallDoes, CrashDoes DEF Ending

LEMMA FoundBox ==
  ASSUME Boxes, NEW f \in Files
  PROVE  /\ Moves(table, getfileptr(table, f), f) /\ TableShape(getfileptr(table, f))
         /\ Step(box[f], getfileptr(table, f).box[f])
BY TableIs, FilePtrIs, GotStep DEF Moves

LEMMA ClosedDoes ==
  ASSUME Boxes, NEW f \in Files, NEW g, Moves(table, g, f), Done(f, closefile(g, f))
  PROVE  Went(f) /\ NotLost(box[f], box'[f]) /\ Fine(box[f], box'[f])
<1> DEFINE t == closefile(g, f)
<1>1. Moves(g, t, f) /\ Ending(box[f], t.box[f])
    BY CloseEnds DEF Moves
<1>2. Moves(table, t, f)
    BY <1>1, MovesOn
<1>3. Step(box[f], box[f]) /\ Moves(table, table, f)
    BY TableIs, GotItself, GotStep, MovesNowhere DEF Boxes
<1> HIDE DEF t
<1> QED  BY <1>1, <1>2, <1>3, TableIs, CallDoes DEF Ending, t

LEMMA CharsDoes ==
  ASSUME Boxes, NEW f \in Files, Chars(f)
  PROVE  Went(f) /\ NotLost(box[f], box'[f]) /\ Fine(box[f], box'[f])
<1> DEFINE g == getfileptr(table, f)
           t == CharsLeft(g, f)
           o == openfile(table, f, "READ")
           u == CharsLeft(o, f)
<1>1. UNCHANGED box \/ Done(f, t) \/ Done(f, closefile(u, f))
    BY DEF Chars, Crash, std_chars, Asked, Answered
<1>2. Moves(table, g, f) /\ TableShape(g) /\ Step(box[f], g.box[f])
    BY FoundBox
<1> HIDE DEF g
<1>3. Kind(g.box[f], calc_chars_left(g.box[f]))
    BY <1>2, CharsLeftKind DEF TableShape
<1>4. Moves(g, t, f) /\ Ending(g.box[f], t.box[f])
    BY <1>2, <1>3, IntoTable, KindEnds DEF CharsLeft, TableKind
<1> HIDE DEF t
<1>5. Moves(table, o, f) /\ TableShape(o)
    BY TableIs, OpenFileIs DEF Moves
<1> HIDE DEF o
<1>6. Kind(o.box[f], calc_chars_left(o.box[f]))
    BY <1>5, CharsLeftKind DEF TableShape
<1>7. Moves(table, u, f)
    BY <1>5, <1>6, IntoTable, MovesOn DEF CharsLeft, TableKind
<1> HIDE DEF u
<1> QED  BY <1>1, <1>2, <1>4, <1>7, CallDoes, CrashDoes, ClosedDoes DEF Ending

LEMMA LinesDoes ==
  ASSUME Boxes, NEW f \in Files, Lines(f)
  PROVE  Went(f) /\ NotLost(box[f], box'[f])
<1> DEFINE g == getfileptr(table, f)
           t == LinesLeft(g, f)
           o == openfile(table, f, "READ")
           u == LinesLeft(o, f)
<1>1. UNCHANGED box \/ Done(f, t) \/ Done(f, closefile(u, f))
    BY DEF Lines, Crash, std_lines, Asked, Answered
<1>2. Moves(table, g, f) /\ TableShape(g) /\ Step(box[f], g.box[f])
    BY FoundBox
<1> HIDE DEF g
<1>3. Kept(g.box[f], countlines(g.box[f], g.disk[f]))
    BY <1>2, CountKept DEF TableShape
<1>4. Moves(g, t, f) /\ Lasting(g.box[f], t.box[f])
    BY <1>2, <1>3, IntoTable, KeptLasts DEF LinesLeft, TableKept
<1> HIDE DEF t
<1>5. Moves(table, o, f) /\ TableShape(o)
    BY TableIs, OpenFileIs DEF Moves
<1> HIDE DEF o
<1>6. Kept(o.box[f], countlines(o.box[f], o.disk[f]))
    BY <1>5, CountKept DEF TableShape
<1>7. Moves(table, u, f)
    BY <1>5, <1>6, IntoTable, MovesOn DEF LinesLeft, TableKept
<1> HIDE DEF u
<1> QED  BY <1>1, <1>2, <1>4, <1>7, CallDoes, CrashDoes, ClosedDoes DEF Ending

LEMMA NewDoes ==
  ASSUME NEW b, NEW c, NEW access, New(c, access)
  PROVE  Sound(b, c) /\ NotLost(b, c) /\ Fine(b, c)
BY DEF New, Sound, NotLost, Fine, Track

LEMMA OpenDoes ==
  ASSUME Boxes, NEW f \in Files, NEW access \in {"READ", "WRITE", "APPEND",
         "STREAM_APPEND", "STREAM_REPLACE", "CREATE", "UPDATE"}, Open(f, access)
  PROVE  Went(f) /\ NotLost(box[f], box'[f]) /\ Fine(box[f], box'[f])
<1> DEFINE g == getfileptr(table, f)
           c == closefile(g, f)
           t == openfile(c, f, access)
<1>1. Done(f, t)
    BY DEF Open, std_stream_open
<1>2. Moves(table, g, f) /\ TableShape(g)
    BY FoundBox
<1> HIDE DEF g
<1>3. Moves(g, c, f) /\ TableShape(c)
    BY <1>2, CloseEnds DEF Moves
<1> HIDE DEF c
<1>4. Moves(c, t, f) /\ New(t.box[f], access)
    BY <1>3, OpenFileIs
<1> HIDE DEF t
<1>5. Moves(table, t, f)
    BY <1>2, <1>3, <1>4, MovesOn
<1> QED  BY <1>1, <1>4, <1>5, NewDoes, DoneDoes

LEMMA CloseDoes ==
  ASSUME Boxes, NEW f \in Files, Close(f)
  PROVE  Went(f) /\ NotLost(box[f], box'[f]) /\ Fine(box[f], box'[f])
BY FoundBox, ClosedDoes DEF Close

LEMMA FlushDoes ==
  ASSUME Boxes, NEW f \in Files, Flush(f)
  PROVE  Went(f) /\ NotLost(box[f], box'[f]) /\ Fine(box[f], box'[f])
<1> DEFINE g == getfileptr(table, f)
<1>1. Done(f, g)
    BY DEF Flush
<1>2. Moves(table, g, f) /\ TableShape(g) /\ Step(box[f], g.box[f])
    BY FoundBox
<1> HIDE DEF g
<1> QED  BY <1>1, <1>2, Same, CallDoes DEF Ending

\* What a reset leaves: the mode of the stream, and what it is used for.
LEMMA ResetIs ==
  ASSUME NEW b, Shape(b)
  PROVE  /\ Sound(b, reset_file(b))
         /\ \A x \in {"read", "write", "persist"} : x \in b.flags <=> x \in reset_file(b).flags
         /\ "persist" \in b.flags => ~Misled(reset_file(b))
<1> DEFINE c == fixup_file(b)
           d == With(c, {}, {"error", "fake"})
<1>1. Kind(b, c) /\ ("persist" \in b.flags => ~Misled(c))
    BY FixupKind
<1>2. reset_file(b) = d
    BY DEF reset_file
<1> HIDE DEF c
<1>3. /\ Shape(d) /\ d.stream = c.stream /\ d.thispos = c.thispos
      /\ \A x \in {"read", "write", "persist"} : x \in c.flags <=> x \in d.flags
    BY <1>1 DEF Kind, Kept, With, Shape, Fields
<1> HIDE DEF d
<1>4. \A x \in {"read", "write", "persist"} : x \in b.flags <=> x \in c.flags
    BY <1>1 DEF Kind, Kept, SameFirm, Firm
<1> QED  BY <1>1, <1>2, <1>3, <1>4 DEF Kind, Kept, Sound, Matched, Misled, HasStream

LEMMA ResetDoes ==
  ASSUME Boxes, NEW f \in Files, Reset(f)
  PROVE  Went(f) /\ Fine(box[f], box'[f])
<1> DEFINE g == getfileptr(table, f)
           b == reset_file(g.box[f])
           t == [g EXCEPT !.box[f] = reset_file(@)]
<1>1. Done(f, t) \/ Done(f, table)
    BY DEF Reset, std_stream_reset
<1>2. Moves(table, g, f) /\ TableShape(g) /\ Step(box[f], g.box[f]) /\ Got(box[f], g.box[f])
    BY FoundBox, FilePtrIs, TableIs
<1>3. t = Into(g, f, b)
    BY <1>2 DEF Into
<1> HIDE DEF g, t
<1>4. /\ Sound(g.box[f], b)
      /\ \A x \in {"read", "write", "persist"} : x \in g.box[f].flags <=> x \in b.flags
      /\ "persist" \in g.box[f].flags => ~Misled(b)
    BY <1>2, ResetIs DEF TableShape
<1> HIDE DEF b
<1>5. Moves(table, t, f) /\ t.box[f] = b
    BY <1>2, <1>3, <1>4, IntoMoves, MovesOn DEF Sound
<1>6. Sound(box[f], b)
    BY <1>2, <1>4 DEF Step, Sound
<1>7. Fine(box[f], b)
    BY <1>2, <1>4 DEF Got, Fine, Sure, Placed
<1>8. Moves(table, table, f) /\ Sound(box[f], box[f]) /\ Fine(box[f], box[f])
    BY TableIs, MovesNowhere, ItselfDoes DEF Boxes
<1> QED  BY <1>1, <1>5, <1>6, <1>7, <1>8, TableIs, DoneDoes

LEMMA SeekDoes ==
  ASSUME Boxes, NEW f \in Files, NEW oper \in {{}, {"read"}, {"write"}}, NEW n,
         NEW from \in {"SET", "CUR", "END"}, NEW unit \in {"CHAR", "LINE"},
         Seek(f, oper, n, from, unit)
  PROVE  /\ Went(f) /\ NotLost(box[f], box'[f])
         /\ unit = "LINE" => Fine(box[f], box'[f])
<1> DEFINE o == SeekOper(table, f, oper)
           g == SeekBox(table, f, o)
           t == getseek(g, f, o, n, from, unit)
<1>1. UNCHANGED box \/ Done(f, g) \/ Done(f, t)
    BY DEF Seek, Crash
<1> HIDE DEF o
<1>2. Moves(table, g, f) /\ Step(box[f], g.box[f])
  <2>1. OneOf(o) \in {"read", "write", "both"}
      BY DEF OneOf
  <2> QED  BY <2>1, TableIs, GetFilePtr DEF SeekBox
<1>3. TableShape(g)
    BY <1>2 DEF Moves
<1> HIDE DEF g
<1>4. /\ Kept(g.box[f], positioncharfile(g.box[f], g.disk[f], o, n, from))
      /\ Kind(g.box[f], positionfile(g.box[f], g.disk[f], o, n, from))
    BY <1>3, ByBytesKept, ByLinesKind DEF TableShape
<1>5. Moves(g, t, f) /\ Lasting(g.box[f], t.box[f])
      /\ (unit = "LINE" => Ending(g.box[f], t.box[f]))
    BY <1>3, <1>4, IntoTable, KeptLasts, KindEnds DEF getseek, TableKept, TableKind, Ending
<1> HIDE DEF t
<1>6. Moves(g, g, f) /\ Ending(g.box[f], g.box[f])
    BY <1>3, Same
<1> QED  BY <1>1, <1>2, <1>5, <1>6, CallDoes, CrashDoes DEF Ending

LEMMA StepOn ==
  ASSUME NEW a, NEW b, NEW c, Step(a, b), Kind(b, c)
  PROVE  Step(a, c)
<1>1. Lasting(b, c)
    BY KeptLasts DEF Kind
<1>2. BothWays(b) <=> BothWays(c)
    BY DEF Kind, Kept, SameFirm, Firm, BothWays
<1> QED  BY <1>1, <1>2 DEF Step, Lasting, Sound, NotLost, Kind, Crossed, BothWays

LEMMA RedirectDoes ==
  ASSUME Boxes, NEW f \in Files, NEW code \in {"r", "A", "R"}, NEW string \in Texts,
         Redirect(f, code, string)
  PROVE  Went(f) /\ NotLost(box[f], box'[f]) /\ Fine(box[f], box'[f])
<1> DEFINE g == addr_reopen_file(table, f, code)
           i == addr_io_file(g, f, string)
           a == addr_reset_file(i, f)
           t == IF HasStream(g.box[f]) THEN a ELSE g
           Replaced == \E access \in {"STREAM_APPEND", "STREAM_REPLACE"} : New(g.box[f], access)
<1>1. UNCHANGED box \/ Done(f, t)
    BY DEF Redirect, Crash
<1>2. Moves(table, g, f) /\ (Step(box[f], g.box[f]) \/ Replaced)
  <2>1. CASE code = "r"
    <3> DEFINE h == get_file_ptr(table, f, "read", "READ")
               b == [h.box[f] EXCEPT !.readpos = 0]
               r == [h EXCEPT !.box[f].readpos = 0]
    <3>1. g = r
        BY <2>1 DEF addr_reopen_file
    <3>2. Moves(table, h, f) /\ Step(box[f], h.box[f]) /\ TableShape(h)
        BY TableIs, GetFilePtr DEF Moves
    <3> HIDE DEF g, h
    <3>3. r = Into(h, f, b)
        BY <3>2 DEF Into
    <3>4. Kind(h.box[f], b)
      <4>1. Kept(h.box[f], b) /\ b.thispos = h.box[f].thispos /\ b.stream = h.box[f].stream
          BY <3>2 DEF TableShape, Kept, Shape, Fields, SameFirm, Failed
      <4> QED  BY <4>1, KindAlong
    <3> HIDE DEF b, r
    <3>5. Moves(h, r, f) /\ Kind(h.box[f], r.box[f])
        BY <3>2, <3>3, <3>4, IntoTable DEF TableKind
    <3> QED  BY <3>1, <3>2, <3>5, MovesOn, StepOn
  <2>2. ASSUME NEW access \in {"STREAM_APPEND", "STREAM_REPLACE"},
               g = std_stream_open(table, f, access)
        PROVE  Moves(table, g, f) /\ New(g.box[f], access)
    <3> DEFINE h == getfileptr(table, f)
               c == closefile(h, f)
               o == openfile(c, f, access)
    <3>1. g = o
        BY <2>2 DEF std_stream_open
    <3>2. Moves(table, h, f) /\ TableShape(h)
        BY FoundBox
    <3> HIDE DEF h, g
    <3>3. Moves(h, c, f) /\ TableShape(c)
        BY <3>2, CloseEnds DEF Moves
    <3> HIDE DEF c
    <3>4. Moves(c, o, f) /\ New(o.box[f], access)
        BY <3>3, OpenFileIs
    <3> HIDE DEF o
    <3> QED  BY <3>1, <3>2, <3>3, <3>4, MovesOn
  <2>3. /\ code = "A" => g = std_stream_open(table, f, "STREAM_APPEND")
        /\ code = "R" => g = std_stream_open(table, f, "STREAM_REPLACE")
      BY DEF addr_reopen_file
  <2> HIDE DEF g
  <2> QED  BY <2>1, <2>2, <2>3
<1>3. TableShape(g)
    BY <1>2 DEF Moves
<1> HIDE DEF g
<1>4. TableKind(g, i, f)
  <2>1. \A b : Shape(b) => /\ \A no, s, n : Kind(b, readbytes(b, s, n, no).box)
                           /\ string # << >> =>
                                \A no, s : Kind(b, writebytes(b, s, string, no).box)
      BY ReadBytesKind, WriteBytesKind
  <2> DEFINE b == g.box[f]
             s == g.disk[f]
  <2>2. Shape(b)
      BY <1>3 DEF TableShape
  <2> HIDE DEF b, s
  <2>3. /\ \A n : Kind(b, readbytes(b, s, n, TRUE).box)
        /\ string # << >> => Kind(b, writebytes(b, s, string, TRUE).box)
      BY <2>1, <2>2, Zenon
  <2>4. \/ i = g
        \/ i = Into(g, f, readbytes(b, s, Len(s) + 1, TRUE).box)
        \/ i = Stored(g, f, writebytes(b, s, string, TRUE)) /\ string # << >>
      BY Zenon DEF addr_io_file, b, s
  <2>5. /\ TableKind(g, g, f)
        /\ \A c : Kind(b, c) => TableKind(g, Into(g, f, c), f)
        /\ \A w : Kind(b, w.box) => TableKind(g, Stored(g, f, w), f)
      BY <1>3, TableItself, IntoTable, StoredTable DEF b
  <2> HIDE DEF i
  <2> QED  BY <2>3, <2>4, <2>5, Zenon
<1>5. TableShape(i)
    BY <1>4, TableShaped
<1> HIDE DEF i
<1>6. TableKind(i, a, f)
  <2>1. addr_reset_file(i, f) = Into(i, f, fixup_file(i.box[f]))
      BY DEF addr_reset_file, fixup_file
  <2>2. Kind(i.box[f], fixup_file(i.box[f]))
      BY <1>5, FixupKind DEF TableShape
  <2> QED  BY <1>5, <2>1, <2>2, IntoTable
<1> HIDE DEF a
<1>7. TableKind(g, a, f) /\ TableKind(g, g, f)
    BY <1>3, <1>4, <1>6, TableOn, TableItself
<1>8. Moves(g, t, f) /\ Kind(g.box[f], t.box[f])
    BY <1>7 DEF TableKind
<1> HIDE DEF t
<1>9. CASE Step(box[f], g.box[f])
    BY <1>1, <1>2, <1>8, <1>9, KindEnds, CallDoes, CrashDoes DEF Ending
<1>10. CASE Replaced
  <2>1. Sound(box[f], t.box[f]) /\ NotLost(box[f], t.box[f])
    <3>1. Lasting(g.box[f], t.box[f])
        BY <1>8, KeptLasts DEF Kind
    <3>2. Lasting(box[f], g.box[f])
        BY <1>10, NewDoes DEF Lasting
    <3> QED  BY <3>1, <3>2 DEF Lasting, Sound, NotLost
  <2>2. Fine(box[f], t.box[f])
    <3>1. Track(g.box[f]) \/ Failed(g.box[f])
        BY <1>10 DEF New
    <3> QED  BY <1>8, <3>1 DEF Kind, Kept, Track, Fine
  <2>3. Moves(table, t, f)
      BY <1>2, <1>8, MovesOn
  <2> QED  BY <1>1, <2>1, <2>2, <2>3, DoneDoes, CrashDoes
<1> QED  BY <1>2, <1>9, <1>10

----------------------------------------------------------------------------
(* A stream that was opened again does the same.                            *)

\* Two boxes that differ by their streams, which stand at the same place.
Twin(b, c) ==
    /\ Shape(b) /\ Shape(c) /\ \A x \in Fields \ {"stream"} : b[x] = c[x]
    /\ b.stream.mode = "ab" <=> c.stream.mode = "ab"
    /\ b.stream.mode # "ab" => b.stream.pos = c.stream.pos

LEMMA TwinFields ==
  ASSUME NEW b, NEW c, Twin(b, c)
  PROVE  /\ b.flags = c.flags /\ b.readpos = c.readpos /\ b.writepos = c.writepos
         /\ b.thispos = c.thispos /\ b.oper = c.oper
BY DEF Twin, Fields

LEMMA ReadAlike ==
  ASSUME NEW b, NEW c, Twin(b, c), b.stream.mode # "ab", NEW s
  PROVE  NextRead(b, s) = NextRead(c, s)
<1>1. b.stream.pos = c.stream.pos
    BY DEF Twin
<1>2. readoneline(b, s).data = readoneline(c, s).data
    BY <1>1, TwinFields DEF readoneline, Failed
<1>3. ASSUME NEW n, NEW no
      PROVE  readbytes(b, s, n, no).data = readbytes(c, s, n, no).data
  <2> DEFINE at(d) == IF d.thispos # d.readpos THEN Sought(d, d.readpos).stream.pos
                      ELSE d.stream.pos
             line(d) == SubSeq(s, at(d) + 1, Least(at(d) + n, Len(s)))
  <2>1. ASSUME NEW d, Shape(d)
        PROVE  readbytes(d, s, n, no).data =
                 IF Failed(d) \/ (d.thispos # d.readpos /\ d.readpos < 0) THEN << >> ELSE line(d)
    <3> DEFINE g == Sought(d, d.readpos)
               m == IF d.thispos # d.readpos THEN [g EXCEPT !.thispos = d.readpos] ELSE d
    <3>1. m.stream.pos = at(d)
      <4>1. Shape(g)
          BY <2>1, SoughtKeeps DEF Kept
      <4> HIDE DEF g
      <4> QED  BY <4>1 DEF Shape, Fields, g
    <3>2. readbytes(d, s, n, no).data =
            IF Failed(d) \/ (d.thispos # d.readpos /\ d.readpos < 0) THEN << >>
            ELSE SubSeq(s, m.stream.pos + 1, Least(m.stream.pos + n, Len(s)))
        BY DEF readbytes
    <3> HIDE DEF m, at
    <3> QED  BY <3>1, <3>2
  <2>2. at(b) = at(c)
      BY <1>1, SoughtKeeps, TwinFields DEF Twin
  <2> HIDE DEF at
  <2> QED  BY <2>1, <2>2, TwinFields DEF Twin, Failed
<1>4. readbytes(b, s, 1, TRUE).data = readbytes(c, s, 1, TRUE).data
    BY <1>3, Zenon
<1> QED  BY <1>2, <1>4 DEF NextRead

LEMMA PutAlike ==
  ASSUME NEW b, NEW c, Twin(b, c), NEW s, NEW data
  PROVE  Put(b, s, data).disk = Put(c, s, data).disk
BY DEF Put, Place, Twin

LEMMA SoughtAlike ==
  ASSUME NEW b, NEW c, Twin(b, c), NEW p
  PROVE  Twin([Sought(b, p) EXCEPT !.thispos = p], [Sought(c, p) EXCEPT !.thispos = p])
BY DEF Sought, Twin, Shape, Fields

LEMMA WriteAlike ==
  ASSUME NEW b, NEW c, Twin(b, c), "persist" \in b.flags, NEW s, NEW data, NEW no
  PROVE  writebytes(b, s, data, no).disk = writebytes(c, s, data, no).disk
<1> DEFINE m(d) == IF d.thispos # d.writepos THEN [Sought(d, d.writepos) EXCEPT !.thispos = d.writepos]
                   ELSE d
           refused(d) == Failed(d) \/ (d.thispos # d.writepos /\ d.writepos < 0)
<1>1. ASSUME NEW d, "persist" \in d.flags
      PROVE  writebytes(d, s, data, no).disk =
               IF refused(d) THEN s ELSE Put(m(d), s, data).disk
    BY <1>1 DEF writebytes
<1>2. Twin(m(b), m(c))
    BY SoughtAlike, TwinFields
<1>3. refused(b) <=> refused(c)
    BY TwinFields DEF Failed
<1> HIDE DEF m, refused
<1>4. Put(m(b), s, data).disk = Put(m(c), s, data).disk
    BY <1>2, PutAlike
<1> QED  BY <1>1, <1>3, <1>4, TwinFields

LEMMA WriteLineAlike ==
  ASSUME NEW b, NEW c, Twin(b, c), NEW s, NEW data
  PROVE  writeoneline(b, s, data).disk = writeoneline(c, s, data).disk
<1> DEFINE k(d) == Truncated(d, s)
           refused(d) == Failed(d) \/ (Truncates(d) /\ d.writepos < 0)
           line == Append(data, EOL)
<1>1. ASSUME NEW d
      PROVE  writeoneline(d, s, data).disk =
               IF refused(d) THEN s
               ELSE IF Truncates(d) THEN Put(k(d).box, k(d).disk, line).disk
               ELSE Put(d, s, line).disk
    BY DEF writeoneline
<1>2. (refused(b) <=> refused(c)) /\ (Truncates(b) <=> Truncates(c))
    BY TwinFields DEF Failed, Truncates
<1>3. k(b).disk = k(c).disk /\ Twin(k(b).box, k(c).box)
  <2> DEFINE g(d) == [Sought(d, d.writepos) EXCEPT !.thispos = d.writepos]
             t(d) == [g(d) EXCEPT !.oper = "none"]
             x(d) == IF d.readpos > d.writepos
                     THEN [t(d) EXCEPT !.readpos = d.writepos, !.readline = 0, !.linesleft = 0]
                     ELSE t(d)
  <2>1. \A d : k(d).disk = Resized(s, d.writepos) /\ k(d).box = x(d)
    <3>1. \A d : t(d) = [Sought(d, d.writepos) EXCEPT !.thispos = d.writepos, !.oper = "none"]
        OBVIOUS
    <3> QED  BY <3>1 DEF Truncated
  <2>2. Twin(g(b), g(c))
      BY SoughtAlike, TwinFields
  <2> HIDE DEF g
  <2>3. Twin(t(b), t(c))
      BY <2>2 DEF Twin, Shape, Fields
  <2> HIDE DEF t
  <2>4. Twin(x(b), x(c))
      BY <2>3, TwinFields DEF Twin, Shape, Fields
  <2> QED  BY <2>1, <2>4, TwinFields
<1> HIDE DEF k, refused, line
<1>4. /\ Put(k(b).box, k(b).disk, line).disk = Put(k(c).box, k(c).disk, line).disk
      /\ Put(b, s, line).disk = Put(c, s, line).disk
    BY <1>3, PutAlike
<1> QED  BY <1>1, <1>2, <1>4

LEMMA ResumedTwin ==
  ASSUME NEW b, Shape(b), Matched(b), NEW s, HasStream(b), b.stream.mode # "wb", Placed(b),
         ~Misled(b), "rdeof" \in b.flags => b.thispos = Len(s)
  PROVE  Twin(b, Resumed([b EXCEPT !.stream = Stream(ModeOf(b))], s))
<1> DEFINE x == [b EXCEPT !.stream = Stream(ModeOf(b))]
           g == Sought(x, IF x.thispos = EOF THEN 0 ELSE x.thispos)
           d == [g EXCEPT !.stream.pos = Len(s), !.stream.eof = TRUE]
           c == IF "rdeof" \in x.flags THEN d ELSE g
<1>1. /\ Shape(x) /\ x.stream.mode = ModeOf(b)
      /\ \A y \in Fields \ {"stream"} : x[y] = b[y]
    BY DEF Shape, Fields, Stream
<1>2. x.flags = b.flags /\ x.thispos = b.thispos
    BY <1>1 DEF Fields
<1>3. Resumed(x, s) = c
    BY DEF Resumed
<1> HIDE DEF x
<1>4. /\ Shape(g) /\ g.stream.mode = x.stream.mode /\ g.stream.pos = b.thispos
      /\ \A y \in Fields \ {"stream"} : g[y] = x[y]
    BY <1>1, <1>2 DEF Sought, Shape, Fields, Placed
<1> HIDE DEF g
<1>5. /\ Shape(d) /\ d.stream.mode = g.stream.mode /\ d.stream.pos = Len(s)
      /\ \A y \in Fields \ {"stream"} : d[y] = g[y]
    BY <1>4 DEF Shape, Fields
<1> HIDE DEF d
<1>6. /\ Shape(c) /\ c.stream.mode = ModeOf(b) /\ c.stream.pos = b.thispos
      /\ \A y \in Fields \ {"stream"} : c[y] = b[y]
    BY <1>1, <1>2, <1>4, <1>5
<1> HIDE DEF c
<1>7. b.stream.mode = "ab" <=> ModeOf(b) = "ab"
    BY DEF Matched, ModeOf
<1>8. b.stream.mode # "ab" => b.stream.pos = b.thispos
    BY DEF Misled
<1>9. Twin(b, c)
    BY <1>6, <1>7, <1>8 DEF Twin
<1> QED  BY <1>3, <1>9 DEF x

----------------------------------------------------------------------------
(* The theorems.                                                            *)

\* Every stream goes the way that its box is used.
IInv ==
    /\ Boxes
    /\ \A f \in Files : Matched(box[f])
    /\ nextsig \in Files \cup {Nobody}

LEMMA UnnoticedThen ==
  ASSUME IInv
  PROVE  SwapUnnoticed
<1> SUFFICES ASSUME NEW f \in Files, HasStream(box[f]), box[f].stream.mode # "wb", Placed(box[f]),
                    ~Misled(box[f]), "rdeof" \in box[f].flags => box[f].thispos = Len(disk[f])
             PROVE  LET b == box[f]
                        s == disk[f]
                        c == Resumed([b EXCEPT !.stream = Stream(ModeOf(b))], s)
                    IN  /\ "read" \in b.flags => NextRead(b, s) = NextRead(c, s)
                        /\ "write" \in b.flags =>
                             /\ writebytes(b, s, <<"x">>, TRUE).disk
                                  = writebytes(c, s, <<"x">>, TRUE).disk
                             /\ writeoneline(b, s, <<"x">>).disk
                                  = writeoneline(c, s, <<"x">>).disk
    BY Zenon DEF SwapUnnoticed
<1> DEFINE b == box[f]
           s == disk[f]
           c == Resumed([b EXCEPT !.stream = Stream(ModeOf(b))], s)
<1>1. Shape(b) /\ Matched(b)
    BY DEF IInv, Boxes
<1>2. Twin(b, c)
    BY <1>1, ResumedTwin
<1>3. "read" \in b.flags => b.stream.mode # "ab"
    BY <1>1 DEF Matched
<1>4. "persist" \in b.flags
    BY DEF Placed
<1> HIDE DEF b, s, c
<1>5. "read" \in b.flags => NextRead(b, s) = NextRead(c, s)
    BY <1>2, <1>3, ReadAlike
<1>6. \A no : writebytes(b, s, <<"x">>, no).disk = writebytes(c, s, <<"x">>, no).disk
    BY <1>2, <1>4, WriteAlike
<1>7. writeoneline(b, s, <<"x">>).disk = writeoneline(c, s, <<"x">>).disk
    BY <1>2, WriteLineAlike
<1> QED  BY <1>5, <1>6, <1>7, Zenon DEF b, s, c

LEMMA AtInit ==
  ASSUME Init
  PROVE  IInv
<1>1. Shape(NoBox) /\ ~HasStream(NoBox)
    BY DEF NoBox, NewBox, Shape, Fields, NoStream, HasStream
<1> QED  BY <1>1 DEF Init, IInv, Boxes, Matched

\* What a call on f does: what the properties are about, in one step.
Does(f) ==
    /\ Went(f)
    /\ NotLost(box[f], box'[f]) \/ Reset(f)
    /\ Fine(box[f], box'[f]) \/ Excused(f)

LEMMA TransferDoes ==
  ASSUME Boxes, NEW f \in Files, Transfer(f)
  PROVE  Does(f)
<1>1. ASSUME NEW line, NEW count, LineIn(f, line, count)  PROVE Does(f)
    BY <1>1, LineInDoes DEF Does
<1>2. ASSUME NEW string \in Texts, NEW line, LineOut(f, string, line)  PROVE Does(f)
    BY <1>2, LineOutDoes DEF Does
<1> QED  BY <1>1, <1>2 DEF Transfer, Texts

LEMMA PositionDoes ==
  ASSUME Boxes, NEW f \in Files, Position(f)
  PROVE  Does(f)
<1>1. ASSUME NEW start \in Places, NEW length \in Lengths, CharIn(f, start, length)
      PROVE  Does(f)
  <2>1. start # 0 => Excused(f)
      BY <1>1 DEF Excused
  <2> QED  BY <1>1, <2>1, CharInDoes DEF Does
<1>2. ASSUME NEW string \in Texts, NEW pos \in Places, CharOut(f, string, pos)
      PROVE  Does(f)
  <2>1. pos # 0 => Excused(f)
      BY <1>2 DEF Excused, Texts
  <2> QED  BY <1>2, <2>1, CharOutDoes DEF Does
<1>3. ASSUME NEW oper \in {{}, {"read"}, {"write"}}, NEW from \in {"SET", "CUR", "END"},
             NEW n \in Places \cup {-1}, NEW unit \in {"CHAR", "LINE"},
             Seek(f, oper, n, from, unit)
      PROVE  Does(f)
  <2>1. unit = "CHAR" => Excused(f)
      BY <1>3 DEF Excused
  <2> QED  BY <1>3, <2>1, SeekDoes DEF Does
<1>4. ASSUME Chars(f)  PROVE Does(f)
    BY <1>4, CharsDoes DEF Does
<1>5. ASSUME Lines(f)  PROVE Does(f)
    BY <1>5, LinesDoes DEF Does, Excused
<1>6. \/ \E start \in Places, length \in Lengths : CharIn(f, start, length)
      \/ \E string \in Texts, pos \in Places : CharOut(f, string, pos)
      \/ \E oper \in {{}, {"read"}, {"write"}}, from \in {"SET", "CUR", "END"},
            n \in Places \cup {-1}, unit \in {"CHAR", "LINE"} : Seek(f, oper, n, from, unit)
      \/ Chars(f) \/ Lines(f)
    BY Zenon DEF Position, Texts
<1> QED  BY <1>1, <1>2, <1>3, <1>4, <1>5, <1>6, Zenon

LEMMA ManageDoes ==
  ASSUME Boxes, NEW f \in Files, Manage(f)
  PROVE  Does(f)
<1>1. ASSUME NEW access \in Accesses, Open(f, access)  PROVE Does(f)
    BY <1>1, OpenDoes, FilesAssumption DEF Does
<1>2. ASSUME NEW string \in Texts, NEW code \in {"r", "A", "R"}, Redirect(f, code, string)
      PROVE  Does(f)
    BY <1>2, RedirectDoes DEF Does
<1> QED  BY <1>1, <1>2 DEF Manage, Texts

LEMMA CallsDo ==
  ASSUME Boxes, Call
  PROVE  \E f \in Files : Does(f)
<1>1. ASSUME NEW f \in Files, Reset(f)  PROVE Does(f)
    BY <1>1, ResetDoes DEF Does
<1>2. ASSUME NEW f \in Files, Close(f) \/ Flush(f)  PROVE Does(f)
    BY <1>2, CloseDoes, FlushDoes DEF Does
<1> QED  BY <1>1, <1>2, TransferDoes, PositionDoes, ManageDoes DEF Call

\* The handler of NOTREADY runs.
LEMMA HandleDoes ==
  ASSUME IInv, Handle
  PROVE  \E f \in Files : Does(f)
<1> DEFINE f == nextsig
           g == getfileptr(table, f)
           b == g.box[f]
           x == fixup_file(b)
           c == [x EXCEPT !.raised = FALSE]
<1>1. f \in Files /\ Boxes
    BY DEF Handle, IInv
<1>2. /\ Moves(table, g, f) /\ TableShape(g) /\ Step(box[f], b)
    BY <1>1, FoundBox
<1>3. UNCHANGED box \/ box' = [g.box EXCEPT ![f] = c]
    BY DEF Handle
<1> HIDE DEF g, f
<1>4. Kind(b, x)
    BY <1>1, <1>2, FixupKind DEF TableShape
<1> HIDE DEF x
<1>5. SameBox(x, c)
    BY <1>4 DEF Kind, Kept, SameBox, Shape, Fields
<1> HIDE DEF c
<1>6. Sound(box[f], x) /\ NotLost(box[f], x) /\ Fine(box[f], x)
    BY <1>2, <1>4, StepOn, KindEnds, StepEnds DEF Step
<1>7. Sound(box[f], c) /\ NotLost(box[f], c) /\ Fine(box[f], c)
    BY <1>5, <1>6, SameDoes
<1>8. ASSUME box' = [g.box EXCEPT ![f] = c]  PROVE Does(f)
  <2>1. DOMAIN box' = Files /\ box'[f] = c /\ \A h \in Files \ {f} : box'[h] = g.box[h]
      BY <1>1, <1>2, <1>8 DEF TableShape
  <2>2. \A h \in Files \ {f} : Aside(box[h], g.box[h])
      BY <1>2 DEF Moves, table
  <2>3. ASSUME NEW h \in Files \ {f}
        PROVE  Sound(box[h], box'[h]) /\ NotLost(box[h], box'[h]) /\ Fine(box[h], box'[h])
      BY <2>1, <2>2, AsideDoes
  <2> QED  BY <1>1, <1>7, <2>1, <2>3 DEF Does, Went
<1>9. ASSUME UNCHANGED box  PROVE Does(f)
    BY <1>1, <1>9, CrashDoes DEF Does
<1> QED  BY <1>1, <1>3, <1>8, <1>9

\* The condition noted is one of a file of the program.
LEMMA NotesFile ==
  ASSUME IInv, Call
  PROVE  nextsig' \in Files \cup {Nobody}
<1> DEFINE Ok == nextsig' \in Files \cup {Nobody}
<1>1. ASSUME NEW f \in Files, NEW t, Done(f, t)  PROVE Ok
    BY <1>1 DEF Done, IInv
<1>2. Crash => Ok
    BY DEF Crash, IInv
<1> HIDE DEF Ok
<1>3. ASSUME NEW f \in Files, NEW line, NEW count, LineIn(f, line, count)  PROVE Ok
    BY <1>1, <1>2, <1>3, Zenon DEF LineIn
<1>4. ASSUME NEW f \in Files, NEW string, NEW line, LineOut(f, string, line)  PROVE Ok
    BY <1>1, <1>2, <1>4, Zenon DEF LineOut
<1>5. ASSUME NEW f \in Files, NEW start, NEW length, CharIn(f, start, length)  PROVE Ok
    BY <1>1, <1>2, <1>5, Zenon DEF CharIn
<1>6. ASSUME NEW f \in Files, NEW string, NEW pos, CharOut(f, string, pos)  PROVE Ok
    BY <1>1, <1>2, <1>6, Zenon DEF CharOut
<1>7. ASSUME NEW f \in Files, NEW oper, NEW n, NEW from, NEW unit,
             Seek(f, oper, n, from, unit)
      PROVE  Ok
    BY <1>1, <1>2, <1>7, Zenon DEF Seek
<1>8. ASSUME NEW f \in Files, NEW code, NEW string, Redirect(f, code, string)  PROVE Ok
    BY <1>1, <1>2, <1>8, Zenon DEF Redirect
<1>9. ASSUME NEW f \in Files, Chars(f) \/ Lines(f)  PROVE Ok
    BY <1>1, <1>2, <1>9, Zenon DEF Chars, Lines
<1>10. ASSUME NEW f \in Files, Close(f) \/ Flush(f) \/ Reset(f)  PROVE Ok
    BY <1>1, <1>10, Zenon DEF Close, Flush, Reset
<1>11. ASSUME NEW f \in Files, NEW access, Open(f, access)  PROVE Ok
    BY <1>1, <1>11, Zenon DEF Open
<1>12. ASSUME NEW f \in Files, Transfer(f)  PROVE Ok
    BY <1>3, <1>4, <1>12, Zenon DEF Transfer
<1>13. ASSUME NEW f \in Files, Position(f)  PROVE Ok
    BY <1>5, <1>6, <1>7, <1>9, <1>13, Zenon DEF Position
<1>14. ASSUME NEW f \in Files, Manage(f)  PROVE Ok
    BY <1>8, <1>11, <1>14, Zenon DEF Manage
<1>15. Ok
    BY <1>10, <1>12, <1>13, <1>14 DEF Call
<1> QED  BY <1>15 DEF Ok

\* What a step does to every box.
LEMMA StepDoes ==
  ASSUME IInv, [Next]_vars
  PROVE  /\ IInv'
         /\ \A f \in Files : NotLost(box[f], box'[f]) \/ Reset(f)
         /\ \A f \in Files : Fine(box[f], box'[f]) \/ Excused(f)
<1>1. ASSUME NEW h \in Files, Does(h)
      PROVE  /\ Boxes' /\ \A f \in Files : Matched(box'[f])
             /\ \A f \in Files : NotLost(box[f], box'[f]) \/ Reset(f)
             /\ \A f \in Files : Fine(box[f], box'[f]) \/ Excused(f)
  <2>1. \A f \in Files : Sound(box[f], box'[f])
      BY <1>1 DEF Does, Went
  <2> QED  BY <1>1, <2>1 DEF Does, Went, Sound, IInv, Boxes
<1>2. ASSUME UNCHANGED box
      PROVE  /\ Boxes' /\ \A f \in Files : Matched(box'[f])
             /\ \A f \in Files : NotLost(box[f], box'[f])
             /\ \A f \in Files : Fine(box[f], box'[f])
    BY <1>2, ItselfDoes DEF IInv, Boxes
<1>3. CASE Call
    BY <1>1, <1>3, CallsDo, NotesFile DEF IInv
<1>4. CASE Handle
  <2>1. nextsig' \in Files \cup {Nobody}
      BY <1>4 DEF Handle
  <2> QED  BY <1>1, <1>4, <2>1, HandleDoes DEF IInv
<1>5. CASE HandlerReturns \/ UNCHANGED vars
  <2>1. UNCHANGED <<box, nextsig>>
      BY <1>5 DEF HandlerReturns, vars
  <2> QED  BY <1>2, <2>1 DEF IInv
<1> QED  BY <1>3, <1>4, <1>5 DEF Next

\* What is known of every state of the tables.
LEMMA Invariant == Spec => []IInv
<1>1. IInv /\ [Next]_vars => IInv'
    BY StepDoes
<1> QED  BY <1>1, AtInit, PTL DEF Spec

----------------------------------------------------------------------------
\* A stream that was taken away to spare the number of open streams comes back as it
\* was: what is read next, and where a byte and a line are written next, are the same
\* as if the stream had stayed, for a box that knew where its stream was (flush_output,
\* swapin_file).
THEOREM SwapAlways == Spec => []SwapUnnoticed
<1>1. IInv => SwapUnnoticed
    BY UnnoticedThen
<1> QED  BY <1>1, Invariant, PTL

\* A box comes to lack a stream and to look fit for use by STREAM RESET alone, so that
\* no other call sets up the use of a null pointer that crashes a later one.
THEOREM LostAlways == Spec => LostByReset
<1>1. IInv /\ [Next]_vars => \A f \in Files : Lost(f)' /\ ~Lost(f) => Reset(f)
    BY StepDoes DEF NotLost, LostBox, Lost
<1> QED  BY <1>1, Invariant, PTL DEF Spec, LostByReset

\* A box that knew where its stream is still knows it after every call, but for the
\* four ways of losing it that the property names: going to a byte, counting lines,
\* turning a box of which both places are known, and coming back at a noted end.
THEOREM TrackAlways == Spec => TrackKept
<1>1. ASSUME IInv, [Next]_vars, NEW f \in Files,
             Misled(box'[f]), ~Failed(box'[f]), Placed(box'[f]), ~Misled(box[f]), Placed(box[f])
      PROVE  \/ Excused(f)
             \/ Halfway(box[f]) /\ {"read", "write"} \subseteq box'[f].flags
             \/ {"swapped", "rdeof"} \subseteq box[f].flags
    BY <1>1, StepDoes DEF Fine, Sure, Crossed
<1>2. IInv /\ [Next]_vars =>
        \A f \in Files :
          /\ Misled(box'[f]) /\ ~Failed(box'[f]) /\ Placed(box'[f])
          /\ ~Misled(box[f]) /\ Placed(box[f])
          =>
            \/ Excused(f)
            \/ Halfway(box[f]) /\ {"read", "write"} \subseteq box'[f].flags
            \/ {"swapped", "rdeof"} \subseteq box[f].flags
    BY <1>1, Zenon
<1> QED  BY <1>2, Invariant, PTL DEF Spec, TrackKept
=============================================================================
