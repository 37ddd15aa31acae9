------------------------------ MODULE FileSeek ------------------------------
(***************************************************************************)
(* Moving the read and the write position of a box: by bytes,              *)
(* positioncharfile, and by lines, positionfile.  `oper` is the set of     *)
(* the positions to move, `from` says what the distance is counted from.   *)
(***************************************************************************)
EXTENDS FileBox, TLC

\* What the built-in function checks first; a failed check is a syntax error.
Allowed(b, oper) == "persist" \in b.flags /\ oper \subseteq b.flags

Told(b, p) == [Sought(b, p) EXCEPT !.thispos = p]
SeenEnd(b, oper) ==
    With(b, {}, (IF "read" \in oper THEN {"rdeof", "after_rdeof"} ELSE {})
                \cup (IF "write" \in oper THEN {"wreof"} ELSE {}))
AtRead(b, p, line) == [b EXCEPT !.readpos = p, !.readline = line]
AtWrite(b, p, line) == [b EXCEPT !.writepos = p, !.writeline = line]
\* The last lines of most: the positions in oper are where the stream is.
ReadHere(b, oper, line) == IF "read" \in oper THEN AtRead(b, b.stream.pos, line) ELSE b
WriteHere(b, oper, line) == IF "write" \in oper THEN AtWrite(b, b.stream.pos, line) ELSE b
Arrived(b, oper, line) == WriteHere(ReadHere(SeenEnd(b, oper), oper, line), oper, line)

----------------------------------------------------------------------------
(* By bytes.  The first byte is number 1.                                  *)

ReadTarget(b, s, where, from) ==
    CASE from = "SET" -> where
      [] from = "CUR" -> 1 + where + b.readpos
      [] from = "END" -> Len(s) - where
WriteTarget(b, s, where, from) ==
    CASE from = "SET" -> where
      [] from = "CUR" -> 1 + where + b.writepos
      [] from = "END" -> 1 + Len(s) - where

\* thispos is left one further than the stream.
Idle(b) == [Sought(b, b.stream.pos) EXCEPT !.oper = "none"]
\* The read position is sought last.
Moved(b, oper, r, w) ==
    [b EXCEPT !.stream.pos = IF "read" \in oper THEN r - 1 ELSE w - 1,
              !.thispos = IF "read" \in oper THEN r ELSE w,
              !.readpos = IF "read" \in oper THEN r - 1 ELSE @,
              !.readline = IF "read" \in oper THEN 0 ELSE @,
              !.writepos = IF "write" \in oper THEN w - 1 ELSE @,
              !.writeline = IF "write" \in oper THEN 0 ELSE @]
positioncharfile(b, s, oper, where, from) ==
    LET r == ReadTarget(b, s, where, from)
        w == WriteTarget(b, s, where, from)
    IN  IF Failed(b) THEN Refuse(b)
        ELSE IF \/ "read" \in oper /\ r \notin 1..Len(s)
                \/ "write" \in oper /\ w \notin 1 .. Len(s) + 1
                \/ oper = {}
        THEN file_error(Idle(b))
        ELSE SeenEnd(Moved(Idle(b), oper, r, w), oper)

----------------------------------------------------------------------------
(* By lines.                                                               *)

EolPlaces(s) == {i \in 1..Len(s) : s[i] = EOL}
\* The k-th end of line after p, or before p.
KthAfter(s, p, k) ==
    CHOOSE i \in EolPlaces(s) : i > p /\ EolsIn(s, p + 1, i) = k
KthBefore(s, p, k) ==
    CHOOSE i \in EolPlaces(s) : i <= p /\ EolsIn(s, i, p) = k

\* Forwards from line `line` at p to line n: where one gets and the line reached.
Forward(s, p, line, n) ==
    LET ahead == EolsIn(s, p + 1, Len(s))
    IN  IF n <= line THEN [pos |-> p, line |-> line]
        ELSE IF ahead >= n - line THEN [pos |-> KthAfter(s, p, n - line), line |-> n]
        ELSE [pos |-> Most(p, Len(s)), line |-> line + ahead]
\* Nothing can be read from a stream that is open for writing only: the search does
\* not get on forwards, and backwards it goes two bytes at a time.
Blind(b) == b.stream.mode \in {"ab", "wb"}
Stuck(near, n) ==
    IF n <= near.line /\ near.pos > 0 THEN [pos |-> 0, line |-> 1, reset |-> n > 1]
    ELSE near @@ [reset |-> FALSE]
\* Backwards to the start of line n, or to the start of the file, which is line 1
\* whatever the count says; then forwards from there.
Backward(s, p, line, n) ==
    IF EolsIn(s, 1, p) >= line - n + 1
    THEN [pos |-> KthBefore(s, p, line - n + 1), line |-> n, reset |-> FALSE]
    ELSE LET again == Forward(s, 0, 1, n)
         IN  [pos |-> again.pos, line |-> again.line, reset |-> n > 1]

\* The known place nearest to line n: the start of the file, the read position or
\* the write position.
Distance(a, n) == IF a < n THEN n - a ELSE a - n
Nearest(b, n) ==
    LET start == [line |-> 1, pos |-> 0]
        read == IF /\ "read" \in b.flags /\ b.readline > 0
                   /\ Distance(b.readline, n) < n - 1
                THEN [line |-> b.readline, pos |-> b.readpos] ELSE start
    IN  IF /\ "write" \in b.flags /\ b.writeline > 0
           /\ Distance(b.writeline, n) < n - read.line
        THEN [line |-> b.writeline, pos |-> b.writepos] ELSE read

\* The read and the write position must be known before they are moved.
Unknown(b, oper) ==
    ("read" \in oper /\ b.readpos < 0) \/ ("write" \in oper /\ b.writepos < 0)
Search(b, s, near, n) ==
    IF Blind(b) THEN Stuck(near, n)
    ELSE IF n <= near.line /\ near.pos > 0 THEN Backward(s, near.pos, near.line, n)
    ELSE Forward(s, near.pos, near.line, n) @@ [reset |-> FALSE]
Forgot(b, to) == IF to.reset THEN [b EXCEPT !.readline = -1, !.writeline = 0] ELSE b
\* oper is as the reads and seeks of the search left it.
Found(b, oper, n, near, to) ==
    LET start == IF "write" \in oper THEN b.writepos ELSE b.readpos
    IN  Arrived([Told(Forgot(b, to), to.pos) EXCEPT
                   !.oper = IF n > near.line \/ near.pos > 0 THEN "read"
                            ELSE IF start # 0 THEN "none" ELSE @,
                   !.stream.eof = to.line < n /\ ~Blind(b)],
                oper, to.line)
SeekFrom(b, s, oper, n, near) ==
    IF Unknown(b, oper) THEN file_error(b)
    ELSE IF Blind(b) /\ n <= near.line /\ near.pos % 2 = 1
    THEN file_error([Sought(b, 0) EXCEPT !.thispos = near.pos, !.oper = "read"])
    ELSE Found(b, oper, n, near, Search(b, s, near, n))
SeekSet(b, s, oper, n) == SeekFrom(b, s, oper, n, Nearest(b, n))

\* Relative to the line that oper, a single position, is on.  Before the first
\* line the read position becomes 1, the second byte.
SeekCurrent(b, s, oper, n) ==
    LET from == IF oper = {"read"} THEN b.readline ELSE b.writeline
    IN  IF from <= 0 THEN b
        ELSE IF from + n >= 1 THEN SeekSet(b, s, oper, from + n)
        ELSE IF oper = {"read"} THEN [AtRead(Told(b, 0), 1, 1) EXCEPT !.oper = "read"]
        ELSE [AtWrite(Told(b, 0), 0, 1) EXCEPT !.oper = "write"]

\* The n-th line from the end.
SeekEnd(b, s, oper, n) ==
    LET total == LinesFrom(s, 0)
        eols == Cardinality(EolPlaces(s))
        k == Most(1, n + 1 - (total - eols))
        found == k <= eols
        pos == IF found THEN KthBefore(s, Len(s), k) ELSE 0
        line == IF found THEN 1 + total - n ELSE 1
    IN  IF s = << >> \/ Blind(b) THEN file_error([Sought(b, 0) EXCEPT !.oper = "read"])
        ELSE [Arrived([Told(b, pos) EXCEPT !.oper = "read"], oper, line)
              EXCEPT !.linesleft = total - 1]

\* Both at once: a line that is not known ends the matter.
SeekBoth(b, s, n) ==
    IF b.readline <= 0 THEN b
    ELSE LET r == SeekCurrent(b, s, {"read"}, n)
         IN  IF r.writeline <= 0 THEN r
             ELSE [SeekCurrent(r, s, {"write"}, n) EXCEPT !.oper = "none"]
Ready(b, oper) == [SeenEnd(b, oper) EXCEPT
                   !.linesleft = 0, !.thispos = IF @ = EOF THEN b.stream.pos ELSE @]
positionfile(b, s, oper, n, from) ==
    IF Failed(b) THEN Refuse(b)
    ELSE CASE from = "SET" -> SeekSet(Ready(b, oper), s, oper, n)
           [] from = "END" -> SeekEnd(Ready(b, oper), s, oper, n)
           [] from = "CUR" -> IF oper = {"read", "write"} THEN SeekBoth(Ready(b, oper), s, n)
                              ELSE IF oper = {} THEN Ready(b, oper)
                              ELSE SeekCurrent(Ready(b, oper), s, oper, n)

=============================================================================
