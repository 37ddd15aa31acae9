----------------------------- MODULE SourceLines ------------------------------
(***************************************************************************)
(* How the text of a program reaches the scanner: get_next_line cuts it    *)
(* into lines, fill_buffer puts backquotes for comments, which may nest    *)
(* and reach over lines, and a blank for a comma that continues a line.    *)
(* Characters are strings of length one; a run of backquotes counts as one.*)
(* The numbers of the lines are left out.                                  *)
(***************************************************************************)
EXTENDS Naturals, Sequences

CR == "\r"
LF == "\n"
SUB == "sub"        \* ^Z, the end of a file of CP/M
BackTick == "back quote"
High == "high"      \* a byte with its highest bit set: less than 0 where char is signed
Space == {" ", "\t"}
MY_ISBLANK == Space \cup {BackTick}

LOCAL At(text, i) == IF i \in DOMAIN text THEN text[i] ELSE ""
LOCAL Rest(text, i) == SubSeq(text, i, Len(text))
LOCAL Least(set) == CHOOSE i \in set : \A j \in set : i <= j

----------------------------------------------------------------------------
(* One line, and what is left of the text.                                 *)
NoInput == [eof |-> TRUE, line |-> <<>>, rest |-> <<>>]
Ends(text) == {i \in DOMAIN text : text[i] \in {CR, LF}}
get_next_line(text) ==
    IF Ends(text) = {}
    THEN IF text \in {<<>>, <<SUB>>} THEN NoInput
         ELSE [eof |-> FALSE, line |-> text \o <<LF>>, rest |-> <<>>]
    ELSE LET end == Least(Ends(text))
             pairChar == IF text[end] = CR THEN LF ELSE CR
         IN  [eof |-> FALSE, line |-> SubSeq(text, 1, end - 1) \o <<LF>>,
              rest |-> Rest(text, IF At(text, end + 1) = pairChar THEN end + 2 ELSE end + 1)]

----------------------------------------------------------------------------
(* Within a line: how deep in comments, or in what else.  scan.at is the   *)
(* next character, scan.text what the scanner will get.                    *)
Pair(line, i) == <<At(line, i), At(line, i + 1)>>
Open == <<"/", "*">>
Close == <<"*", "/">>
Quotes == {"quote", "double quote"}

Moved(scan, by, char) == [scan EXCEPT !.at = @ + by, !.text = Append(@, char)]
InComment(scan, line) ==
    CASE Pair(line, scan.at) = Close -> [Moved(scan, 2, BackTick) EXCEPT !.nesting = @ - 1]
      [] Pair(line, scan.at) = Open  -> [Moved(scan, 2, BackTick) EXCEPT !.nesting = @ + 1]
      [] OTHER                       -> Moved(scan, 1, BackTick)
InQuotes(scan, line) ==
    LET c == line[scan.at]
    IN  IF c = scan.mode THEN [Moved(scan, 1, c) EXCEPT !.mode = "plain"]
        ELSE IF c = LF THEN [scan EXCEPT !.err = "6.2"]
        ELSE Moved(scan, 1, c)
BelowBlank == {LF, "\t", SUB, High}
InLineComment(scan, line) ==
    IF line[scan.at] \in BelowBlank THEN [Moved(scan, 1, line[scan.at]) EXCEPT !.mode = "plain"]
    ELSE Moved(scan, 1, BackTick)
InText(scan, line, single) ==
    LET c == line[scan.at]
    IN  IF c \in Quotes THEN [Moved(scan, 1, c) EXCEPT !.mode = c]
        ELSE IF Pair(line, scan.at) = Open THEN [Moved(scan, 2, BackTick) EXCEPT !.nesting = 1]
        ELSE IF single /\ Pair(line, scan.at) = <<"-", "-">>
             THEN [Moved(scan, 2, BackTick) EXCEPT !.mode = "--"]
        ELSE IF c = BackTick THEN [scan EXCEPT !.err = "13.1"]
        ELSE Moved(scan, 1, c)

RECURSIVE Replaced(_, _, _)
Replaced(scan, line, single) ==
    IF scan.err # "" \/ scan.at > Len(line) THEN scan
    ELSE Replaced(IF scan.nesting > 0 THEN InComment(scan, line)
                  ELSE IF scan.mode \in Quotes THEN InQuotes(scan, line)
                  ELSE IF scan.mode = "--" THEN InLineComment(scan, line)
                  ELSE InText(scan, line, single), line, single)

(* The comment that began on an earlier line, to its end or the line's.    *)
RECURSIVE SkipComment(_, _)
SkipComment(scan, line) ==
    IF scan.nesting = 0 \/ scan.at > Len(line) THEN scan
    ELSE SkipComment(InComment(scan, line), line)

----------------------------------------------------------------------------
(* The comma that ends a line.                                             *)
LastNot(text, set) ==
    LET others == {i \in DOMAIN text : text[i] \notin set}
    IN  IF others = {} THEN 0 ELSE CHOOSE i \in others : \A j \in others : j <= i
Continued(text, i) == SubSeq(text, 1, i - 1) \o <<" ">>
AtEnd(scan) ==
    LET blanks == IF scan.nesting > 0 THEN {BackTick} ELSE MY_ISBLANK \cup {LF}
        i      == LastNot(scan.text, blanks)
    IN  IF At(scan.text, i) = "," THEN [text |-> Continued(scan.text, i), contline |-> TRUE]
        ELSE [text |-> scan.text, contline |-> FALSE]

----------------------------------------------------------------------------
(* rdr is what get_next_line has left, what fill_buffer remembers, and     *)
(* what it has handed to the scanner.                                      *)
Reader(text) ==
    [rest |-> text, out |-> <<>>, nesting |-> 0, contline |-> FALSE, first |-> TRUE, err |-> "",
     eof |-> FALSE]
Shebang(rdr, line) ==
    IF rdr.first /\ Pair(line, 1) = <<"#", "!">> THEN Open \o Close \o <<LF>> ELSE line
Scan(rdr) == [at |-> 1, nesting |-> rdr.nesting, mode |-> "plain", text |-> <<>>, err |-> ""]

Transmit(rdr, scan) ==
    LET end == AtEnd(scan)
    IN  IF scan.err # "" THEN [rdr EXCEPT !.err = scan.err, !.eof = TRUE]
        ELSE [rdr EXCEPT !.out = @ \o end.text, !.nesting = scan.nesting,
                         !.contline = end.contline]
(* A comment behind the comma of a continued line has ended: only blanks   *)
(* and comments may follow it.                                             *)
RECURSIVE AfterComma(_, _)
AfterComma(scan, line) ==
    IF scan.nesting > 0 THEN IF scan.at > Len(line) THEN scan
                             ELSE AfterComma(SkipComment(scan, line), line)
    ELSE IF scan.at > Len(line) THEN scan
    ELSE IF Pair(line, scan.at) = Open
         THEN AfterComma([scan EXCEPT !.at = @ + 2, !.nesting = 1], line)
    ELSE IF line[scan.at] \in Space \cup {LF} THEN AfterComma([scan EXCEPT !.at = @ + 1], line)
    ELSE [scan EXCEPT !.err = "64.1"]

fill_buffer(rdr, single) ==
    LET next == get_next_line(rdr.rest)
        line == Shebang(rdr, next.line)
        got  == [rdr EXCEPT !.rest = next.rest, !.first = FALSE,
                            !.contline = @ /\ rdr.nesting > 0]
        scan == IF rdr.nesting > 0 THEN SkipComment(Scan(rdr), line) ELSE Scan(rdr)
    IN  IF next.eof THEN [rdr EXCEPT !.eof = TRUE, !.err = IF rdr.nesting > 0 THEN "6.1" ELSE ""]
        ELSE IF scan.nesting > 0 /\ scan.at > Len(line) THEN [got EXCEPT !.nesting = scan.nesting]
        ELSE IF got.contline
        THEN LET after == AfterComma(scan, line)
             IN  [got EXCEPT !.nesting = after.nesting, !.err = after.err, !.eof = after.err # ""]
        ELSE Transmit(got, Replaced(scan, line, single))

RECURSIVE ReadAll(_, _)
ReadAll(rdr, single) == IF rdr.eof THEN rdr ELSE ReadAll(fill_buffer(rdr, single), single)
=============================================================================
