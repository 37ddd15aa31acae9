------------------------------ MODULE FileBox ------------------------------
(***************************************************************************)
(* One entry of the file table of files.c, a box, and what the routines    *)
(* below the built-in functions do to it and to the bytes s of its file.   *)
(* A box remembers three positions - where the program reads, where it     *)
(* writes, and where it believes the C stream to be - and line numbers     *)
(* for the first two.  The stream has its own position and end-of-file     *)
(* indicator.  The files are regular files.                                *)
(***************************************************************************)
EXTENDS Integers, Sequences, FiniteSets
CONSTANT LineoutTrunc   \* OPTIONS LINEOUTTRUNC, on by default
VARIABLE trap           \* CALL ON NOTREADY is in force

ASSUME OptionAssumption == LineoutTrunc \in BOOLEAN

EOL == "LF"
CR == "CR"
NUL == "NUL"            \* what fills a hole in a file
EOF == -1               \* a position that is not known

Flags == {"read", "write", "persist", "error", "fake", "swapped",
          "rdeof", "after_rdeof", "wreof"}

Least(a, b) == IF a < b THEN a ELSE b
Most(a, b) == IF a < b THEN b ELSE a

----------------------------------------------------------------------------
(* The C library: a stream of mode m on a file with the bytes s.           *)

NoStream == [mode |-> "none", pos |-> 0, eof |-> FALSE]
Stream(m) == [mode |-> m, pos |-> 0, eof |-> FALSE]
HasStream(b) == b.stream.mode # "none"
Sought(b, p) == [b EXCEPT !.stream.pos = p, !.stream.eof = FALSE]
\* A negative position is refused and nothing moves.
fseek(b, p) == IF p >= 0 THEN Sought(b, p) ELSE b
Resized(s, n) == [i \in 1..n |-> IF i <= Len(s) THEN s[i] ELSE NUL]
Place(b, s) == IF b.stream.mode = "ab" THEN Len(s) ELSE b.stream.pos
\* fwrite: the file and the box after it; an appending stream writes at the end.
Overwritten(s, p, data) ==
    Resized(s, p) \o data \o SubSeq(s, p + Len(data) + 1, Len(s))
Put(b, s, data) ==
    [disk |-> IF data = << >> THEN s ELSE Overwritten(s, Place(b, s), data),
     box |-> IF data = << >> THEN b ELSE Sought(b, Place(b, s) + Len(data))]

----------------------------------------------------------------------------
(* Errors.                                                                 *)

With(b, add, remove) == [b EXCEPT !.flags = (@ \ remove) \cup add]

\* handle_file_error: I/O is faked from here on when NOTREADY is trapped by
\* CALL; `raised` says that the condition was raised.  A warning, of level 0,
\* leaves the file ready.
Raised(b, flags) ==
    IF {"error", "fake"} \subseteq b.flags THEN b
    ELSE [b EXCEPT !.flags = IF trap THEN flags \cup {"fake"} ELSE flags,
                   !.raised = @ \/ trap]
file_error(b) == Raised(b, (b.flags \ {"fake"}) \cup {"error"})
file_warning(b) ==
    Raised(b, IF "rdeof" \in b.flags THEN b.flags \cup {"after_rdeof"} ELSE b.flags)

\* The first lines of most routines: a file in error is not touched, and says
\* so once more unless it is faked.
Failed(b) == "error" \in b.flags
Refuse(b) == IF "fake" \in b.flags THEN b ELSE file_error(b)

\* Mutant: the stream goes back, the box does not note it.
FixupUnnoted(b) ==
    With(IF ~HasStream(b) THEN b
         ELSE [(IF "persist" \in b.flags THEN Sought(b, 0) ELSE Sought(b, b.stream.pos))
                 EXCEPT !.oper = "none"], {}, {"fake"})
\* fixup_file, before the handler of NOTREADY runs.
fixup_file(b) ==
    LET c == IF ~HasStream(b) THEN b
             ELSE [(IF "persist" \in b.flags THEN Sought(b, 0)
                    ELSE Sought(b, b.stream.pos)) EXCEPT
                   !.thispos = 0, !.oper = "none"]
    IN  With(c, {}, {"fake"})
reset_file(b) == With(fixup_file(b), {}, {"error", "fake"})

----------------------------------------------------------------------------
(* Reading.                                                                *)

\* The index of the end of the line at p, and the length of its terminator: LF,
\* CR LF or CR; none at the end of the file.
LineEnd(s, p) ==
    LET ends == {i \in p + 1 .. Len(s) : s[i] \in {EOL, CR}}
    IN  IF ends = {} THEN Most(Len(s), p) + 1
        ELSE CHOOSE i \in ends : \A j \in ends : i <= j
Terminator(s, i) ==
    IF i > Len(s) THEN 0
    ELSE IF s[i] = CR /\ i < Len(s) /\ s[i + 1] = EOL THEN 2 ELSE 1

\* readoneline: the line at readpos.  After it one byte more is tried, so that the
\* end of the file is known before it is met.
readoneline(b, s) ==
    LET w == IF "rdeof" \in b.flags THEN file_warning(b) ELSE b
        p == IF b.readpos = EOF THEN b.stream.pos ELSE b.readpos
        i == LineEnd(s, p)
        after == i - 1 + Terminator(s, i)
        whole == i <= Len(s)
        ends == after >= Len(s)
    IN  IF Failed(b) THEN [box |-> Refuse(b), data |-> << >>]
        ELSE [box |-> [With(w, IF ends THEN {"rdeof"} ELSE {}, {}) EXCEPT
                       !.stream.pos = after, !.stream.eof = ends,
                       !.readpos = after, !.thispos = after, !.oper = "read",
                       !.readline = IF whole /\ @ > 0 THEN @ + 1 ELSE @,
                       !.linesleft = IF whole /\ b.readline > 0 /\ @ > 0
                                     THEN @ - 1 ELSE @],
              data |-> SubSeq(s, p + 1, i - 1)]

\* readbytes: n bytes from where the stream is; it is moved to readpos first when
\* it is believed to be elsewhere.
readbytes(b, s, n, noerrors) ==
    LET moves == b.thispos # b.readpos
        m == IF moves THEN [Sought(b, b.readpos) EXCEPT !.thispos = b.readpos] ELSE b
        data == SubSeq(s, m.stream.pos + 1, Least(m.stream.pos + n, Len(s)))
        did == Len(data)
        short == did < n
        warned == IF short /\ ~noerrors THEN file_warning(m) ELSE m
    IN  IF Failed(b)
        THEN [box |-> IF noerrors THEN b ELSE Refuse(b), data |-> << >>]
        ELSE IF moves /\ b.readpos < 0
        THEN [box |-> IF noerrors THEN b ELSE file_error(b), data |-> << >>]
        ELSE [box |-> [With(warned, IF short THEN {"rdeof"} ELSE {},
                            IF short THEN {} ELSE {"rdeof", "after_rdeof"}) EXCEPT
                       !.stream.pos = @ + did, !.stream.eof = short,
                       !.thispos = @ + did, !.readpos = @ + did,
                       !.readline = 0, !.linesleft = 0, !.oper = "read"],
              data |-> data]

----------------------------------------------------------------------------
(* Writing.                                                                *)

writebytes(b, s, data, noerrors) ==
    LET moves == b.thispos # b.writepos
        m == IF moves
             THEN [(IF "persist" \in b.flags THEN Sought(b, b.writepos) ELSE b)
                      EXCEPT !.thispos = b.writepos]
             ELSE b
        put == Put(m, s, data)
    IN  IF Failed(b)
        THEN [disk |-> s, box |-> IF noerrors THEN b ELSE Refuse(b)]
        ELSE IF moves /\ "persist" \in b.flags /\ b.writepos < 0
        THEN [disk |-> s, box |-> IF noerrors THEN b ELSE file_error(b)]
        ELSE [disk |-> put.disk,
              box |-> [With(put.box, {}, {"rdeof", "after_rdeof"}) EXCEPT
                       !.thispos = @ + Len(data), !.writepos = @ + Len(data),
                       !.writeline = 0, !.oper = "none"]]

\* The file is cut at writepos before the first of several lines.
Truncates(b) ==
    LineoutTrunc /\ b.oper # "write" /\ "wreof" \notin b.flags /\ "persist" \in b.flags
Truncated(b, s) ==
    LET t == [Sought(b, b.writepos) EXCEPT !.thispos = b.writepos, !.oper = "none"]
    IN  [disk |-> Resized(s, b.writepos),
         box |-> IF b.readpos > b.writepos
                 THEN [t EXCEPT !.readpos = b.writepos, !.readline = 0, !.linesleft = 0]
                 ELSE t]

\* writeoneline: the bytes go to where the stream is.
writeoneline(b, s, data) ==
    LET t == IF Truncates(b) THEN Truncated(b, s) ELSE [disk |-> s, box |-> b]
        line == Append(data, EOL)
        put == Put(t.box, t.disk, line)
        after == t.box.thispos + Len(line)
    IN  IF Failed(b) THEN [disk |-> s, box |-> Refuse(b)]
        ELSE IF Truncates(b) /\ b.writepos < 0
        THEN [disk |-> s, box |-> [file_error(b) EXCEPT !.oper = "write"]]
        ELSE [disk |-> put.disk,
              box |-> [With(put.box, {"wreof"}, {}) EXCEPT
                       !.thispos = after, !.writepos = after, !.oper = "write",
                       !.writeline = IF @ # 0 THEN @ + 1 ELSE 0]]

----------------------------------------------------------------------------
(* Counting.                                                               *)

EolsIn(s, from, to) == Cardinality({i \in from..to : i \in 1..Len(s) /\ s[i] = EOL})
\* The lines from p on, the last one also without a terminator.
LinesFrom(s, p) ==
    EolsIn(s, p + 1, Len(s)) + (IF p < Len(s) /\ s[Len(s)] # EOL THEN 1 ELSE 0)

\* LINES(f): is there anything to read?
AnyLines(b, s) == ~b.stream.eof /\ s # << >>

\* countlines, LINES(f,'C'): the count is kept in the box.  The stream returns to
\* where it was.
countlines(b, s) ==
    LET from == IF b.readpos = EOF THEN b.stream.pos ELSE b.readpos
        left == IF b.stream.mode = "ab" THEN 0 ELSE LinesFrom(s, from)
    IN  IF Failed(b) THEN Refuse(b)
        ELSE IF "persist" \notin b.flags \/ b.linesleft # 0 THEN b
        ELSE [Sought(b, b.stream.pos) EXCEPT
              !.thispos = b.readpos, !.oper = "none", !.linesleft = left]

\* calc_chars_left, CHARS(f).
calc_chars_left(b) ==
    IF "read" \notin b.flags THEN b
    ELSE IF Failed(b) THEN Refuse(b)
    ELSE [Sought(b, b.stream.pos) EXCEPT !.oper = "none"]

=============================================================================
