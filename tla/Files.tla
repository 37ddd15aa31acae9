------------------------------- MODULE Files -------------------------------
(***************************************************************************)
(* The stream functions of files.c over the table of boxes: LINEIN,        *)
(* LINEOUT, CHARIN, CHAROUT, LINES, CHARS, STREAM and the redirection of   *)
(* ADDRESS WITH to a file.  The system gives the process MaxOpen streams;  *)
(* when they are used up the box used least recently is swapped out and    *)
(* opened again when it is next named.  NOTREADY is trapped by CALL ON or  *)
(* by nothing.  Every file exists; Access says what the process may do.    *)
(***************************************************************************)
EXTENDS FileSeek
CONSTANTS Files,        \* names of regular files
          Access,        \* for each file, the permissions: of {"read", "write"}
          MaxOpen,       \* streams the process may have
          Contents,      \* what a file holds at first
          MaxLength,     \* bound: bytes a file may grow to
          Places,        \* bound: byte and line numbers a program gives; 0: none
          Lengths,       \* bound: how many bytes CHARIN asks for
          Accesses,      \* bound: the ways in which STREAM opens a file
          Calls,         \* bound: functions that are called
          Plain          \* bound: files used only by LINEIN, LINEOUT and STREAM RESET

ASSUME FilesAssumption ==
    /\ MaxOpen \in Nat \ {0} /\ MaxLength \in Nat
    /\ Access \in [Files -> SUBSET {"read", "write"}]
    /\ Accesses \subseteq {"READ", "WRITE", "APPEND", "STREAM_APPEND", "STREAM_REPLACE",
                         "CREATE", "UPDATE"}

VARIABLES disk,         \* the bytes of the files
          box,          \* the table: a box or NoBox
          mru,          \* the files in the table, most recently used first
          nextsig,      \* the file whose NOTREADY is to be handled, or Nobody
          delayed,      \* its handler is running
          dead,         \* a stream that is not there was used
          calls         \* functions called so far
\* What the routines work on; `raised`: the files that raised NOTREADY and were closed.
table == [disk |-> disk, box |-> box, mru |-> mru, raised |-> {}]
vars == <<disk, box, mru, nextsig, delayed, dead, trap, calls>>

Nobody == "nobody"
NewBox == [flags |-> {}, stream |-> NoStream, readpos |-> EOF, writepos |-> EOF,
           thispos |-> EOF, readline |-> 0, writeline |-> 0, linesleft |-> 0,
           oper |-> "none", raised |-> FALSE]
NoBox == [NewBox EXCEPT !.flags = {"none"}]
InTable(t, f) == t.box[f] # NoBox

Init == /\ disk \in [Files -> Contents]
        /\ box = [f \in Files |-> NoBox]
        /\ mru = << >>
        /\ nextsig = Nobody /\ delayed = FALSE /\ dead = FALSE /\ calls = 0
        /\ trap \in BOOLEAN

----------------------------------------------------------------------------
(* Streams of the process.                                                 *)

Without(s, f) == SelectSeq(s, LAMBDA g : g # f)
Used(t) == {f \in Files : HasStream(t.box[f])}
\* flush_output: the stream goes, all that is known about the file stays.
flush_output(b) ==
    IF HasStream(b) THEN [With(b, {"swapped"}, {}) EXCEPT !.stream = NoStream] ELSE b
\* swapout_file: the oldest box that is older than f, else the next newer one.
Victim(t, f) ==
    LET at == {i \in 1..Len(t.mru) : t.mru[i] \in Used(t) \ {f}}
        own == CHOOSE i \in 1..Len(t.mru) : t.mru[i] = f
        older == {i \in at : i > own}
    IN  IF older # {} THEN t.mru[CHOOSE i \in older : \A j \in older : j <= i]
        ELSE t.mru[CHOOSE i \in at : \A j \in at : j <= i]
swapout_file(t, f) ==
    IF Cardinality(Used(t)) < MaxOpen THEN t
    ELSE [t EXCEPT !.box[Victim(t, f)] = flush_output(@)]

Needs == [rb |-> {"read"}, r_b |-> {"read", "write"}, w_b |-> {"read", "write"},
          wb |-> {"write"}, ab |-> {"write"}]
\* fopen: the box gets a stream when the permissions allow the mode; the modes that
\* create a file empty it.
Opens(f, mode) == Needs[mode] \subseteq Access[f]
fopen(t, f, mode) ==
    IF ~Opens(f, mode) THEN swapout_file(t, f)
    ELSE [swapout_file(t, f) EXCEPT !.box[f].stream = Stream(mode),
                                    !.disk[f] = IF mode \in {"w_b", "wb"} THEN << >> ELSE @]

\* swapin_file.
ModeOf(b) == IF {"read", "write"} \subseteq b.flags THEN "r_b"
             ELSE IF "read" \in b.flags THEN "rb" ELSE "ab"
ResumedAtRead(b, s) == Sought(b, Most(b.readpos, 0))
Resumed(b, s) ==
    LET c == Sought(b, IF b.thispos = EOF THEN 0 ELSE b.thispos)
    IN  IF "rdeof" \in b.flags
        THEN [c EXCEPT !.stream.pos = Len(s), !.stream.eof = TRUE] ELSE c
Swapped(b, s) ==
    IF HasStream(b) THEN Resumed(With(b, {}, {"swapped"}), s)
    ELSE file_error(With(b, {}, {"swapped"}))
swapin_file(t, f) ==
    LET r == fopen(t, f, ModeOf(t.box[f])) IN [r EXCEPT !.box[f] = Swapped(@, r.disk[f])]

\* getfileptr: the box comes to the front and gets its stream back.
getfileptr(t, f) ==
    LET front == [t EXCEPT !.mru = <<f>> \o Without(@, f)]
    IN  IF ~InTable(t, f) THEN t
        ELSE IF "swapped" \in t.box[f].flags THEN swapin_file(front, f) ELSE front

----------------------------------------------------------------------------
(* Opening and closing.                                                    *)

closefile(t, f) == [t EXCEPT !.box[f] = NoBox, !.mru = Without(@, f),
                             !.raised = IF t.box[f].raised THEN {f} ELSE @]

AtStart(b) == [b EXCEPT !.readpos = 0, !.readline = 1]
AtEnd(b, s) == [Told(b, Len(s)) EXCEPT !.writepos = Len(s), !.writeline = 0]
Emptied(b) == [AtStart(Told(b, 0)) EXCEPT !.writepos = 0, !.writeline = 1]
Both == {"read", "write", "persist"}
\* The fopen modes an access tries in turn.
Tries(access) == CASE access = "READ" -> <<"rb">>
                   [] access = "WRITE" -> <<"r_b", "w_b", "wb">>
                   [] access \in {"APPEND", "STREAM_APPEND"} -> <<"ab">>
                   [] access \in {"STREAM_REPLACE", "CREATE"} -> <<"w_b">>
                   [] access = "UPDATE" -> <<"r_b">>
\* What the box of a file just opened says.
Opened(b, s, access) ==
    CASE access = "READ" -> [AtStart(With(b, {"read", "persist"}, {})) EXCEPT !.thispos = 0]
      [] access = "WRITE" ->
           AtStart(AtEnd(With(b, IF b.stream.mode = "wb" THEN Both \ {"read"} ELSE Both, {}), s))
      [] access = "APPEND" -> With(b, {"write", "wreof"}, {})
      [] access = "STREAM_APPEND" ->
           AtStart(AtEnd(With(b, {"write", "wreof", "persist"}, {}), s))
      [] access \in {"STREAM_REPLACE", "CREATE"} ->
           Emptied(With(b, Both \cup {"wreof", "rdeof"}, {}))
      [] access = "UPDATE" -> With(b, Both, {})
Mode(f, access) ==
    LET works == {i \in DOMAIN Tries(access) : Opens(f, Tries(access)[i])}
    IN  Tries(access)[IF works = {} THEN 1 ELSE CHOOSE i \in works : \A j \in works : i <= j]
Noted(r, f, access) ==
    [r EXCEPT !.box[f] = IF HasStream(@) THEN Opened(@, r.disk[f], access) ELSE file_error(@)]
openfile(t, f, access) ==
    Noted(fopen([getfileptr(t, f) EXCEPT !.box[f] = NewBox, !.mru = <<f>> \o Without(@, f)],
                f, Mode(f, access)),
          f, access)

\* reopen_file: a file open one way is named in a function that goes the other way.
\* The place in the queue of streams is its own.
Reopened(b, s) ==
    LET r == IF b.readpos = EOF THEN [AtStart(b) EXCEPT !.thispos = 0, !.linesleft = 0] ELSE b
        w == IF b.writepos # EOF THEN r
             ELSE IF "persist" \in b.flags THEN AtEnd(r, s)
             ELSE [r EXCEPT !.writepos = 0, !.writeline = 0, !.thispos = 0]
    IN  [w EXCEPT !.flags = Both, !.oper = "none"]
\* Mutant: a stream that cannot be opened is not an error.
ReopenUnchecked(t, f) ==
    LET r == fopen([t EXCEPT !.box[f].stream = NoStream], f, "r_b")
    IN  [r EXCEPT !.box[f] = IF HasStream(@) THEN Reopened(@, r.disk[f]) ELSE @]
reopen_file(t, f) ==
    LET r == fopen([t EXCEPT !.box[f].stream = NoStream], f, "r_b")
    IN  [r EXCEPT !.box[f] = IF HasStream(@) THEN Reopened(@, r.disk[f]) ELSE file_error(@)]

Turned(g, f, oper) ==
    IF oper \in {"read", "write"} /\ ~Failed(g.box[f]) /\ oper \notin g.box[f].flags
    THEN reopen_file(g, f) ELSE g
get_file_ptr(t, f, oper, access) ==
    IF InTable(t, f) THEN Turned(getfileptr(t, f), f, oper) ELSE openfile(t, f, access)

----------------------------------------------------------------------------
(* The built-in functions: the table after each.                           *)

Into(t, f, b) == [t EXCEPT !.box[f] = b]
Stored(t, f, w) == [t EXCEPT !.disk[f] = w.disk, !.box[f] = w.box]
\* A position is given but may not be moved: a syntax error.
Stops(b, oper, p) == p # 0 /\ ~Failed(b) /\ ~Allowed(b, {oper})
\* Repositioning before the transfer, when a place is given.
AtByte(t, f, oper, p) ==
    IF p = 0 THEN t ELSE Into(t, f, positioncharfile(t.box[f], t.disk[f], {oper}, p, "SET"))
AtLine(t, f, oper, n) ==
    IF n = 0 THEN t ELSE Into(t, f, positionfile(t.box[f], t.disk[f], {oper}, n, "SET"))

Bytes(g, f, length) ==
    IF length = 0 THEN g ELSE Into(g, f, readbytes(g.box[f], g.disk[f], length, FALSE).box)
Line(g, f, count) == IF count = 0 THEN g ELSE Into(g, f, readoneline(g.box[f], g.disk[f]).box)
std_charin(t, f, start, length) == Bytes(AtByte(t, f, "read", start), f, length)
std_linein(t, f, line, count) == Line(AtLine(t, f, "read", line), f, count)

\* With neither data nor place the write position goes to the end of the file and
\* the stream is closed: CHAROUT keeps the box, LINEOUT does not.
End(b, s) == IF "persist" \in b.flags THEN Len(s) ELSE 0
PutBytes(g, f, string) == Stored(g, f, writebytes(g.box[f], g.disk[f], string, FALSE))
PutLine(g, f, string) == Stored(g, f, writeoneline(g.box[f], g.disk[f], string))
std_charout(t, f, string, pos) ==
    IF string # << >> THEN PutBytes(AtByte(t, f, "write", pos), f, string)
    ELSE IF pos # 0 THEN AtByte(t, f, "write", pos)
    ELSE Into(t, f, flush_output([t.box[f] EXCEPT !.writepos = End(t.box[f], t.disk[f]),
                                                  !.writeline = 0]))
std_lineout(t, f, string, line) ==
    IF string # << >> THEN PutLine(AtLine(t, f, "write", line), f, string)
    ELSE IF line # 0 THEN AtLine(t, f, "write", line)
    ELSE closefile(t, f)

\* A file that is not open is opened for the question and closed again.
Asked(t, f) == IF InTable(t, f) THEN getfileptr(t, f) ELSE openfile(t, f, "READ")
Answered(t, f, g) == IF InTable(t, f) THEN g ELSE closefile(g, f)
CharsLeft(g, f) == Into(g, f, calc_chars_left(g.box[f]))
LinesLeft(g, f) == Into(g, f, countlines(g.box[f], g.disk[f]))
std_chars(t, f) == Answered(t, f, CharsLeft(Asked(t, f), f))
std_lines(t, f) == Answered(t, f, LinesLeft(Asked(t, f), f))

std_stream_open(t, f, access) == openfile(closefile(getfileptr(t, f), f), f, access)
std_stream_reset(t, f) ==
    IF InTable(t, f) THEN [getfileptr(t, f) EXCEPT !.box[f] = reset_file(@)] ELSE t
\* getseek: without READ or WRITE both positions that the file has are moved.
SeekOper(t, f, oper) ==
    IF oper # {} THEN oper ELSE getfileptr(t, f).box[f].flags \cap {"read", "write"}
OneOf(oper) == IF oper = {"read"} THEN "read" ELSE IF oper = {"write"} THEN "write" ELSE "both"
SeekBox(t, f, o) ==
    get_file_ptr(t, f, OneOf(o), IF "write" \in o THEN "WRITE" ELSE "READ")
getseek(t, f, o, n, from, unit) ==
    Into(t, f, IF unit = "LINE" THEN positionfile(t.box[f], t.disk[f], o, n, from)
               ELSE positioncharfile(t.box[f], t.disk[f], o, n, from))

----------------------------------------------------------------------------
(* ADDRESS WITH: the file that takes a command's output or gives its input.  *)

addr_reopen_file(t, f, code) ==
    CASE code = "r" -> [get_file_ptr(t, f, "read", "READ") EXCEPT !.box[f].readpos = 0]
      [] code = "A" -> std_stream_open(t, f, "STREAM_APPEND")
      [] code = "R" -> std_stream_open(t, f, "STREAM_REPLACE")
addr_io_file(t, f, string) ==
    LET b == t.box[f]
    IN  IF ~HasStream(b) THEN t
        ELSE IF string = << >> THEN Into(t, f, readbytes(b, t.disk[f], Len(t.disk[f]) + 1, TRUE).box)
        ELSE Stored(t, f, writebytes(b, t.disk[f], string, TRUE))
addr_reset_file(t, f) ==
    LET b == t.box[f]
        c == [(IF "persist" \in b.flags THEN Sought(b, 0) ELSE Sought(b, b.stream.pos))
                EXCEPT !.thispos = 0, !.oper = "none"]
    IN  Into(t, f, With(IF HasStream(b) THEN c ELSE b, {}, {"fake"}))

----------------------------------------------------------------------------
(* A program's calls.                                                      *)

\* The call on f leaves the table t.  The condition raised last is the one that
\* will be handled; while a handler runs none is noted.
Done(f, t) ==
    /\ Len(t.disk[f]) <= MaxLength
    /\ disk' = t.disk /\ mru' = t.mru
    /\ box' = [g \in Files |-> [t.box[g] EXCEPT !.raised = FALSE]]
    /\ nextsig' = IF (t.box[f].raised \/ t.raised # {}) /\ ~delayed THEN f ELSE nextsig
    /\ UNCHANGED <<delayed, dead, trap>>
Crash == /\ dead' = TRUE
         /\ UNCHANGED <<disk, box, mru, nextsig, delayed, trap>>
\* The box of f has no stream and is not in error: the next use of the stream is a
\* use of the null pointer.  A call does so when it
\* reopens the file to go the other way, seeks in it or transfers.
Lost(f) == ~HasStream(box[f]) /\ box[f].flags \cap {"none", "error", "swapped"} = {}
Fatal(f, oper, uses, p) ==
    /\ Lost(f)
    /\ \/ oper \notin box[f].flags
       \/ IF p # 0 THEN "persist" \in box[f].flags ELSE uses

CharIn(f, start, length) == \E g \in {get_file_ptr(table, f, "read", "READ")} :
    IF Fatal(f, "read", length # 0, start) THEN Crash
    ELSE Done(f, IF Stops(g.box[f], "read", start) THEN g ELSE std_charin(g, f, start, length))
LineIn(f, line, count) == \E g \in {get_file_ptr(table, f, "read", "READ")} :
    IF Fatal(f, "read", count # 0, line) THEN Crash
    ELSE Done(f, IF Stops(g.box[f], "read", line) THEN g ELSE std_linein(g, f, line, count))
\* The end of the file is sought also in a file in error.
Blindly(b, string, pos) ==
    string = << >> /\ pos = 0 /\ "persist" \in b.flags /\ ~HasStream(b)
CharOut(f, string, pos) == \E g \in {get_file_ptr(table, f, "write", "WRITE")} :
    IF Blindly(g.box[f], string, pos) \/ Fatal(f, "write", string # << >>, pos) THEN Crash
    ELSE Done(f, IF Stops(g.box[f], "write", pos) THEN g ELSE std_charout(g, f, string, pos))
LineOut(f, string, line) == \E g \in {get_file_ptr(table, f, "write", "WRITE")} :
    IF Fatal(f, "write", string # << >>, line) THEN Crash
    ELSE Done(f, IF Stops(g.box[f], "write", line) THEN g ELSE std_lineout(g, f, string, line))
Chars(f) ==
    IF Lost(f) /\ "read" \in box[f].flags THEN Crash ELSE Done(f, std_chars(table, f))
Lines(f) ==
    IF Lost(f) /\ "persist" \in box[f].flags THEN Crash ELSE Done(f, std_lines(table, f))
Open(f, access) == Done(f, std_stream_open(table, f, access))
Close(f) == Done(f, closefile(getfileptr(table, f), f))
Flush(f) == Done(f, getfileptr(table, f))
Reset(f) == Done(f, std_stream_reset(table, f))
Seek(f, oper, n, from, unit) ==
    \E o \in {SeekOper(table, f, oper)} : \E g \in {SeekBox(table, f, o)} :
        IF /\ Lost(f)
           /\ OneOf(o) \in {"read", "write"} \ box[f].flags \/ "persist" \in box[f].flags
        THEN Crash
        ELSE Done(f, IF ~Failed(g.box[f]) /\ ~Allowed(g.box[f], o) THEN g
                     ELSE getseek(g, f, o, n, from, unit))
Redirect(f, code, string) ==
    IF code = "r" /\ Lost(f) /\ "read" \notin box[f].flags THEN Crash
    ELSE \E g \in {addr_reopen_file(table, f, code)} :
           Done(f, IF HasStream(g.box[f]) THEN addr_reset_file(addr_io_file(g, f, string), f)
                   ELSE g)

\* The end of a clause: the file is made ready and the handler of NOTREADY runs.
Handle ==
    /\ nextsig # Nobody /\ ~delayed
    /\ \E g \in {getfileptr(table, nextsig)} :
          /\ box' = IF InTable(table, nextsig)
                     THEN [g.box EXCEPT ![nextsig] = [fixup_file(@) EXCEPT !.raised = FALSE]]
                     ELSE box
          /\ mru' = g.mru /\ disk' = g.disk
    /\ nextsig' = Nobody /\ delayed' = TRUE
    /\ UNCHANGED <<dead, trap, calls>>
HandlerReturns ==
    /\ delayed /\ delayed' = FALSE
    /\ UNCHANGED <<disk, box, mru, nextsig, dead, trap, calls>>

Transfer(f) ==
    \/ \E line \in {0, 2}, count \in {0, 1} : LineIn(f, line, count)
    \/ \E string \in {<< >>, <<"a">>}, line \in {0, 2} : LineOut(f, string, line)
Position(f) ==
    \/ \E start \in Places, length \in Lengths : CharIn(f, start, length)
    \/ \E string \in {<< >>, <<"a">>}, pos \in Places : CharOut(f, string, pos)
    \/ \E oper \in {{}, {"read"}, {"write"}}, from \in {"SET", "CUR", "END"},
          n \in Places \cup {-1}, unit \in {"CHAR", "LINE"} :
          (n < 0 => from = "CUR") /\ Seek(f, oper, n, from, unit)
    \/ Chars(f) \/ Lines(f)
Manage(f) ==
    \/ \E access \in Accesses : Open(f, access)
    \/ \E string \in {<< >>, <<"a">>}, code \in {"r", "A", "R"} :
          (string = << >> <=> code = "r") /\ Redirect(f, code, string)
Call == \/ \E f \in Files : Transfer(f) \/ Reset(f)
        \/ \E f \in Files \ Plain : Position(f) \/ Manage(f) \/ Close(f) \/ Flush(f)
Next == /\ ~dead
        /\ \/ calls < Calls /\ calls' = calls + 1 /\ Call
           \/ Handle \/ HandlerReturns
Spec == Init /\ [][Next]_vars

----------------------------------------------------------------------------
(* Properties.                                                             *)

\* The stream is not where the box believes it to be; one that appends need not be.
Misled(b) == HasStream(b) /\ b.stream.mode # "ab" /\ b.thispos # b.stream.pos
\* The box has been given positions, which it is not by OPEN UPDATE and APPEND.
Placed(b) == "persist" \in b.flags /\ b.thispos # EOF

\* Having been swapped out and in again is not noticed: the next line and the next
\* byte read, and where a byte and a line are written, are the same, unless the box
\* was misled before or notes the end of the file while its stream is elsewhere.  A
\* file that may only be written is left out: it comes back open for appending and
\* goes on at its end, wherever it was (swapout_file, flush_output, swapin_file).
NextRead(b, s) == <<readoneline(b, s).data, readbytes(b, s, 1, TRUE).data>>
SwapUnnoticed ==
    \A f \in Files :
      LET b == box[f]
          s == disk[f]
          c == Resumed([b EXCEPT !.stream = Stream(ModeOf(b))], s)
          sound == ~Misled(b) /\ ("rdeof" \in b.flags => b.thispos = Len(s))
      IN  HasStream(b) /\ b.stream.mode # "wb" /\ Placed(b) /\ sound =>
            /\ "read" \in b.flags => NextRead(b, s) = NextRead(c, s)
            /\ "write" \in b.flags =>
                 /\ writebytes(b, s, <<"x">>, TRUE).disk = writebytes(c, s, <<"x">>, TRUE).disk
                 /\ writeoneline(b, s, <<"x">>).disk = writeoneline(c, s, <<"x">>).disk

\* Only going to a byte, counting the lines, reopening for the other direction a file
\* whose position that way is known already, and being swapped in with the end of the
\* file noted, leave a box misled (readbytes, writebytes, positionfile, fixup_file).
Halfway(b) ==
    ("read" \notin b.flags /\ b.readpos # EOF) \/ ("write" \notin b.flags /\ b.writepos # EOF)
Excused(f) ==
    \/ \E start \in Places \ {0}, length \in Lengths : CharIn(f, start, length)
    \/ \E string \in {<< >>, <<"a">>}, pos \in Places \ {0} : CharOut(f, string, pos)
    \/ \E oper \in {{}, {"read"}, {"write"}}, from \in {"SET", "CUR", "END"},
          n \in Places \cup {-1} : Seek(f, oper, n, from, "CHAR")
    \/ Lines(f)
TrackKept ==
    [][\A f \in Files :
         /\ Misled(box'[f]) /\ ~Failed(box'[f]) /\ Placed(box'[f])
         /\ ~Misled(box[f]) /\ Placed(box[f])
         =>
           \/ Excused(f)
           \/ Halfway(box[f]) /\ {"read", "write"} \subseteq box'[f].flags
           \/ {"swapped", "rdeof"} \subseteq box[f].flags]_vars

\* Only STREAM RESET makes a box that has no stream look fit for use, and such a box
\* is what crashes the interpreter.
LostByReset == [][\A f \in Files : Lost(f)' /\ ~Lost(f) => Reset(f)]_vars
=============================================================================
