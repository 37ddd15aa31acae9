------------------------------- MODULE Scanner --------------------------------
(***************************************************************************)
(* The scanner of lexsrc.l: words, numbers, strings and signs become the   *)
(* tokens of the grammar.  What a word means depends on the start          *)
(* condition and on a dozen flags that earlier tokens have left.           *)
(*                                                                         *)
(* The text is a sequence of atoms: a word, number or literal, one sign,   *)
(* a blank, a comment, the end of a line.  Of the rules that match, flex   *)
(* takes the one that reaches farthest, and the first of those; a rule     *)
(* that rejects leaves the text to the next.  Reserved names (.RC) and     *)
(* lines and columns are left out.                                         *)
(***************************************************************************)
EXTENDS Integers, Sequences
CONSTANTS Names, Numbers, Literals, HexLiterals    \* what atoms there are

Atoms == Names \cup Numbers \cup Literals \cup HexLiterals
Blank == " "
Comment == "comment"
EOL == {";", "\n"}
Token(t, v) == [t |-> t, v |-> v]

(* What the words are that begin a clause, and the start condition behind. *)
Commands == {"ADDRESS", "ARG", "CALL", "DO", "DROP", "ELSE", "EXIT", "IF", "INTERPRET", "ITERATE",
    "LEAVE", "OPTIONS", "NOP", "NUMERIC", "PARSE", "PROCEDURE", "PULL", "PUSH", "QUEUE", "RETURN",
    "SAY", "SELECT", "SIGNAL", "TRACE", "UPPER", "WHEN", "OTHERWISE", "END"}
StartOf(w) ==
    CASE w \in {"ADDRESS", "TRACE"}   -> "value1"
      [] w \in {"CALL", "SIGNAL"}     -> "signal"
      [] w \in {"IF", "WHEN"}         -> "ifcont"
      [] w \in {"ELSE", "OTHERWISE"}  -> "comm"
      [] w = "DO"                     -> "do1"
      [] w = "NUMERIC"                -> "numeric"
      [] w = "PARSE"                  -> "parse"
      [] w = "PROCEDURE"              -> "procd"
      [] OTHER                        -> "other"
Conditions == {"ERROR", "HALT", "NOVALUE", "NOTREADY", "FAILURE", "SYNTAX", "LOSTDIGITS"}
ParseFlags == {"UPPER", "LOWER", "CASELESS"}
ParseSources == {"ARG", "NUMERIC", "PULL", "SOURCE", "EXTERNAL", "LINEIN", "VERSION"}
Resources == {"INPUT", "OUTPUT", "ERROR", "NORMAL", "APPEND", "REPLACE", "STREAM", "STEM",
              "LIFO", "FIFO", "NOEOL"}
Words == Commands \cup Conditions \cup ParseFlags \cup ParseSources \cup Resources \cup Names
    \cup {"VALUE", "ON", "OFF", "NAME", "EXPOSE", "VAR", "THEN", "WITH", "DIGITS", "FORM", "FUZZ",
          "SCIENTIFIC", "ENGINEERING", "FOREVER", "TO", "BY", "FOR", "WHILE", "UNTIL"}

Signs == {"+", "-", "*", "/", "%", "|", "&", "=", "<", ">", "not"}
Operators == {[s |-> <<c>>, t |-> c] : c \in Signs \ {"<", ">", "not"}} \cup
    {[s |-> <<"*", "*">>, t |-> "EXP"], [s |-> <<"/", "/">>, t |-> "MODULUS"],
     [s |-> <<"&", "&">>, t |-> "XOR"], [s |-> <<"|", "|">>, t |-> "CONCATENATE"],
     [s |-> <<"=", "=">>, t |-> "EQUALEQUAL"], [s |-> <<"not", "=", "=">>, t |-> "NOTEQUALEQUAL"],
     [s |-> <<">", ">">>, t |-> "GTGT"], [s |-> <<"<", "<">>, t |-> "LTLT"],
     [s |-> <<"not", ">", ">">>, t |-> "NOTGTGT"], [s |-> <<"not", "<", "<">>, t |-> "NOTLTLT"],
     [s |-> <<">", ">", "=">>, t |-> "GTGTE"], [s |-> <<"<", "<", "=">>, t |-> "LTLTE"]} \cup
    {[s |-> s, t |-> "GT"] : s \in {<<">">>, <<"not", "<", "=">>, <<"not", "=", "<">>}} \cup
    {[s |-> s, t |-> "GTE"] : s \in {<<"not", "<">>, <<"=", ">">>, <<">", "=">>}} \cup
    {[s |-> s, t |-> "LT"] : s \in {<<"<">>, <<"not", ">", "=">>, <<"not", "=", ">">>}} \cup
    {[s |-> s, t |-> "LTE"] : s \in {<<"not", ">">>, <<"=", "<">>, <<"<", "=">>}} \cup
    {[s |-> s, t |-> "DIFFERENT"] : s \in {<<"not", "=">>, <<"<", ">">>, <<">", "<">>}}
Sums == {[s |-> <<"+", "=">>, t |-> "PLUSASSIGNMENTVARIABLE"],
         [s |-> <<"-", "=">>, t |-> "MINUSASSIGNMENTVARIABLE"]}
Products == {[s |-> <<"*", "=">>, t |-> "MULTASSIGNMENTVARIABLE"],
             [s |-> <<"/", "=">>, t |-> "DIVASSIGNMENTVARIABLE"],
             [s |-> <<"%", "=">>, t |-> "INTDIVASSIGNMENTVARIABLE"],
             [s |-> <<"/", "/", "=">>, t |-> "MODULUSASSIGNMENTVARIABLE"]}
Logicals == {[s |-> <<"|", "=">>, t |-> "ORASSIGNMENTVARIABLE"],
             [s |-> <<"&", "=">>, t |-> "ANDASSIGNMENTVARIABLE"],
             [s |-> <<"&", "&", "=">>, t |-> "XORASSIGNMENTVARIABLE"]}
Concats == {[s |-> <<"|", "|", "=">>, t |-> "CONCATASSIGNMENTVARIABLE"]}
Assignments == {[s |-> <<"=">>, t |-> "ASSIGNMENTVARIABLE"]} \cup
    Sums \cup Products \cup Logicals \cup Concats

----------------------------------------------------------------------------
(* Places in the text.                                                     *)
Atom(text, i) == IF i \in DOMAIN text THEN text[i] ELSE "eof"
RECURSIVE Past(_, _, _)
Past(text, i, set) == IF Atom(text, i) \in set THEN Past(text, i + 1, set) ELSE i
Between(text, i) == Past(text, i, {Blank, Comment})
HasBlank(text, i, j) == \E k \in i..j - 1 : text[k] = Blank

(* Where the signs s end that begin at i, with blanks among them; 0 if they*)
(* do not stand there.                                                     *)
RECURSIVE SignsEnd(_, _, _)
SignsEnd(text, i, s) ==
    IF s = <<>> THEN i
    ELSE IF Atom(text, i) # Head(s) THEN 0
    ELSE IF Len(s) = 1 THEN i + 1 ELSE SignsEnd(text, Past(text, i + 1, {Blank}), Tail(s))
Found(text, i, table) == {o \in table : SignsEnd(text, i, o.s) # 0}
Farthest(text, i, table) ==
    LET found == Found(text, i, table)
    IN  CHOOSE o \in found : \A p \in found : SignsEnd(text, i, p.s) <= SignsEnd(text, i, o.s)

----------------------------------------------------------------------------
(* What the scanner remembers; out are the tokens so far.                  *)
init_it_all ==
    [at |-> 1, out |-> <<>>, err |-> "", done |-> FALSE, start |-> "comm", do_level |-> 0,
     in_numform |-> FALSE, next_numform |-> FALSE, obs_with |-> FALSE, in_do |-> 0,
     in_then |-> FALSE, in_parse |-> 0, in_trace |-> FALSE, itflag |-> FALSE,
     in_signal |-> FALSE, in_call |-> FALSE, in_address |-> "no", last_in_address |-> "no",
     seek_with |-> "no", expression_ended |-> FALSE, insert_abuttal |-> FALSE,
     delayed |-> Token("", ""), inhibit |-> FALSE, kill_this |-> FALSE, kill_next |-> TRUE]

Raise(lx, code) == [lx EXCEPT !.err = code, !.done = TRUE]
Goto(lx, at) == [lx EXCEPT !.at = at]
Return(lx, at, t, v) == [lx EXCEPT !.at = at, !.out = Append(@, Token(t, v))]
Begin(lx, start) == [lx EXCEPT !.start = start]

(* What is done at every call, before a rule is looked for.                *)
Delayed(lx) ==
    [lx EXCEPT !.out = Append(@, lx.delayed), !.delayed = Token("", ""),
               !.expression_ended = ~lx.inhibit, !.inhibit = FALSE]
Entry(lx) ==
    [lx EXCEPT !.in_numform = lx.next_numform, !.next_numform = FALSE,
               !.last_in_address = lx.in_address,
               !.in_address = IF @ = "keyword" THEN "main" ELSE @,
               !.kill_this = lx.kill_next, !.kill_next = FALSE,
               !.in_trace = @ /\ ~lx.itflag, !.itflag = lx.in_trace /\ ~lx.itflag,
               !.seek_with = IF lx.itflag THEN "no" ELSE @,
               !.insert_abuttal = lx.expression_ended, !.expression_ended = FALSE]

(* An operand follows another directly: the operator first, then the token.*)
Abutted(lx, at, t, v, inhibit) ==
    [Return(lx, at, "CONCATENATE", "") EXCEPT !.delayed = Token(t, v), !.inhibit = inhibit]

(* The end of a clause.                                                    *)
EndOfClause(lx, at) ==
    IF lx.start = "ifcont" THEN Return(lx, at, "STATSEP", "")
    ELSE IF lx.obs_with THEN Raise(lx, "38.1")
    ELSE Return([lx EXCEPT !.start = "comm", !.in_do = 0, !.in_signal = FALSE, !.in_call = FALSE,
                           !.in_address = "no", !.in_parse = 0,
                           !.seek_with = IF @ = "address" THEN "no" ELSE @],
                at, "STATSEP", "")

----------------------------------------------------------------------------
(* The word that begins a clause.                                          *)
Command(lx, w, at) ==
    LET begun == Begin(lx, StartOf(w))
        went  ==
            CASE w = "ADDRESS" -> [begun EXCEPT !.seek_with = "address", !.in_address = "keyword",
                                                !.in_call = TRUE]
              [] w \in {"ARG", "DROP", "PARSE", "PULL", "UPPER"} -> [begun EXCEPT !.in_parse = 1]
              [] w = "CALL"   -> [begun EXCEPT !.in_call = TRUE]
              [] w = "DO"     -> [begun EXCEPT !.do_level = @ + 1, !.in_do = 1]
              [] w \in {"IF", "WHEN"} -> [begun EXCEPT !.in_then = TRUE]
              [] w = "SELECT" -> [begun EXCEPT !.do_level = @ + 1]
              [] w = "SIGNAL" -> [begun EXCEPT !.in_signal = TRUE]
              [] w = "TRACE"  -> [begun EXCEPT !.in_trace = TRUE]
              [] w = "END"    -> [begun EXCEPT !.do_level = IF @ = 0 THEN 0 ELSE @ - 1]
              [] OTHER        -> begun
    IN  IF w = "END" /\ lx.do_level = 0 THEN Raise(lx, "10.1") ELSE Return(went, at, w, w)

(* The words that mean something within a clause; none applies when the    *)
(* guard of each fails, and the word is a name.                            *)
AddressValue(lx) == lx.last_in_address = "keyword" /\ lx.in_address = "main"
Applies(lx, w) ==
    \/ w = "VALUE" /\ lx.start \in {"nmform", "signal", "value1"} /\ (lx.in_call => AddressValue(lx))
    \/ w \in {"ON", "OFF"} /\ lx.start = "signal"
    \/ w = "NAME" /\ lx.start = "signame"
    \/ w \in Conditions /\ lx.start = "sgtype"
    \/ w = "EXPOSE" /\ lx.start = "procd"
    \/ w \in ParseFlags \cup ParseSources \cup {"VAR", "VALUE"} /\ lx.start = "parse"
    \/ w = "THEN" /\ (lx.start = "comm" \/ (lx.start \in {"other", "ifcont"} /\ lx.in_then))
    \/ w = "WITH" /\ lx.in_do = 0 /\ lx.seek_with # "no"
    \/ w \in {"DIGITS", "FORM", "FUZZ"} /\ lx.start = "numeric"
    \/ w \in {"SCIENTIFIC", "ENGINEERING"} /\ lx.start = "nmform"
    \/ w = "FOREVER" /\ lx.start = "do1"
    \/ w \in {"TO", "BY", "FOR"} /\ lx.in_do \in {1, 2}
    \/ w \in {"WHILE", "UNTIL"} /\ lx.in_do # 0

Value(lx, at) ==
    IF lx.start = "parse"
    THEN Return([lx EXCEPT !.seek_with = "parse", !.in_trace = FALSE, !.in_parse = 0,
                           !.start = "with"], at, "VALUE", "")
    ELSE IF lx.in_call
    THEN Return([lx EXCEPT !.start = "other", !.in_address = "value", !.in_call = FALSE],
                at, "VALUE", "")
    ELSE Return([lx EXCEPT !.start = "other", !.in_trace = FALSE, !.in_signal = FALSE,
                           !.obs_with = \/ @
                                        \/ /\ ~lx.in_trace
                                           /\ lx.in_address = "no"
                                           /\ ~lx.in_signal
                                           /\ ~lx.in_numform],
                at, "VALUE", "")
With(lx, at) ==
    Return([lx EXCEPT !.start = "other", !.seek_with = "no",
                      !.in_parse = IF lx.seek_with = "parse" THEN 1 ELSE @,
                      !.in_address = IF @ = "no" THEN "no" ELSE "with"], at, "WITH", "")
Keyword(lx, w, at) ==
    CASE w = "VALUE" -> Value(lx, at)
      [] w = "WITH"  -> With(lx, at)
      [] w \in {"ON", "OFF"} -> Return(Begin(lx, "sgtype"), at, w, w)
      [] w \in Conditions /\ lx.start = "sgtype" -> Return(Begin(lx, "signame"), at, w, w)
      [] w = "EXPOSE" -> Return([Begin(lx, "other") EXCEPT !.in_parse = 1], at, w, w)
      [] w \in ParseFlags \cup {"SCIENTIFIC", "ENGINEERING"} -> Return(lx, at, w, w)
      [] w = "VAR" -> Return([Begin(lx, "other") EXCEPT !.in_parse = 2], at, w, w)
      [] w = "THEN" -> Return([lx EXCEPT !.start = "comm", !.in_then = FALSE], at, w, w)
      [] w = "FORM" -> Return([Begin(lx, "nmform") EXCEPT !.next_numform = TRUE], at, w, w)
      [] w = "FOREVER" -> Return([Begin(lx, "other") EXCEPT !.in_do = 2], at, w, w)
      [] w \in {"TO", "BY", "FOR"} ->
            IF lx.in_do = 1 THEN Raise(lx, "27.1") ELSE Return(Begin(lx, "other"), at, w, w)
      [] w \in {"WHILE", "UNTIL"} ->
            IF lx.in_do = 3 THEN Raise(lx, "27.1")
            ELSE Return([Begin(lx, "other") EXCEPT !.in_do = 3], at, w, w)
      [] OTHER -> Return(Begin(lx, "other"), at, w, w)

----------------------------------------------------------------------------
(* Operands.  A name is that of a function when a parenthesis follows.     *)
Parenthesis(text, i) == Past(text, i, {Comment})
Called(lx, text, i) == Atom(text, Parenthesis(text, i)) = "("
FunctionName(lx, text, i, t, v) ==
    LET at == Parenthesis(text, i) + 1
        begun == [lx EXCEPT !.start = "other", !.kill_next = TRUE]
    IN  IF lx.insert_abuttal THEN Abutted(begun, at, t, v, TRUE) ELSE Return(begun, at, t, v)
Operand(lx, at, t, v) ==
    IF lx.insert_abuttal /\ lx.in_parse = 0 THEN Abutted(lx, at, t, v, FALSE)
    ELSE Return([lx EXCEPT !.expression_ended = TRUE], at, t, v)
AfterCall(lx, at, t, v) ==
    Return([lx EXCEPT !.start = "other", !.in_call = FALSE, !.kill_next = TRUE], at, t, v)

(* WITH's words are looked for as long as the clause lasts: the grammar    *)
(* means to stop that for the name of a resource, when the name has been   *)
(* read already.                                                           *)
var_symbol(lx, text, w) ==
    LET i == lx.at + 1
    IN  IF lx.in_trace THEN Raise(lx, "13.1")
        ELSE IF lx.in_numform THEN Raise(lx, "25.11")
        ELSE IF AddressValue(lx)
        THEN Return([lx EXCEPT !.kill_next = TRUE, !.in_call = FALSE], i, "SIMSYMBOL", w)
        ELSE IF lx.in_call THEN AfterCall(lx, i, "SIMSYMBOL", w)
        ELSE IF lx.in_parse = 2
        THEN Return([lx EXCEPT !.start = "other", !.in_parse = 1, !.kill_next = TRUE],
                    i, "SIMSYMBOL", w)
        ELSE IF Called(lx, text, i) THEN FunctionName(lx, text, i, "INFUNCNAME", w)
        ELSE IF lx.insert_abuttal /\ lx.in_parse = 0
        THEN Abutted(Begin(lx, "other"), i, "SIMSYMBOL", w, FALSE)
        ELSE IF lx.in_address = "with"
        THEN Return([lx EXCEPT !.start = "other", !.kill_next = TRUE, !.expression_ended = TRUE], i,
                    IF w \in Resources THEN w ELSE "SIMSYMBOL", w)
        ELSE Operand(Begin(lx, "other"), i, "SIMSYMBOL", w)
process_number_or_const(lx, text, w) ==
    LET i == lx.at + 1
    IN  IF lx.in_parse # 0 THEN Return(lx, i, "OFFSET", w)
        ELSE IF lx.in_numform THEN Raise(lx, "25.11")
        ELSE IF lx.in_call THEN AfterCall(lx, i, "CONSYMBOL", w)
        ELSE IF Called(lx, text, i) THEN FunctionName(lx, text, i, "INFUNCNAME", w)
        ELSE Operand(Begin(lx, "other"), i, "CONSYMBOL", w)
text_string(lx, text, w) ==
    LET i == lx.at + 1
    IN  IF Called(lx, text, i) THEN FunctionName(lx, text, i, "EXFUNCNAME", w)
        ELSE IF lx.in_numform THEN Raise(lx, "25.11")
        ELSE IF lx.in_call THEN AfterCall(lx, i, "STRING", w)
        ELSE IF lx.in_signal
        THEN Return([Begin(lx, "other") EXCEPT !.expression_ended = TRUE], i, "STRING", w)
        ELSE Operand(Begin(lx, "other"), i, "STRING", w)
process_hex_or_bin_string(lx, text, w) ==
    LET i == lx.at + 1
    IN  IF Called(lx, text, i) THEN FunctionName(lx, text, i, "INFUNCNAME", w)
        ELSE IF lx.in_call THEN AfterCall(lx, i, "HEXSTRING", w)
        ELSE Operand(Begin(lx, "other"), i, "HEXSTRING", w)

(* Signs that are no operators.                                            *)
OpenParen(lx, at) ==
    IF lx.insert_abuttal THEN Abutted(Begin(lx, "other"), at, "(", "(", TRUE)
    ELSE Return(Begin(lx, "other"), at, "(", "(")
CloseParen(lx, at) == Return([lx EXCEPT !.expression_ended = TRUE], at, ")", ")")
Operator(lx, text, i) ==
    LET o == Farthest(text, i, Operators)
    IN  Return(IF o.t \in {"+", "-"} THEN Begin(lx, "other") ELSE lx,
               Between(text, SignsEnd(text, i, o.s)), o.t, o.t)

----------------------------------------------------------------------------
(* One call of yylex, after its entry: blanks and comments, if any, lead to*)
(* atom j.                                                                 *)
IsOperator(text, j) == Found(text, j, Operators) # {}
IsSymbol(w) == w \in Words \cup Numbers
(* The rules that take the blanks before them as well.                     *)
Whatever(lx, w) == lx.start = "value1" /\ lx.in_trace /\ IsSymbol(w)
TakesBlanks(lx, w) ==
    \/ w \in {"THEN", "WITH"} /\ Applies(lx, w)
    \/ w = "VALUE" /\ lx.start # "parse" /\ Applies(lx, w)
    \/ Whatever(lx, w)
KeywordOrWhatever(lx, w, at) ==
    IF Whatever(lx, w) /\ w # "VALUE"
    THEN Return(lx, at, "WHATEVER", w) ELSE Keyword(lx, w, at)

LeadingWord(lx, text, w) ==
    LET k == Between(text, lx.at + 1)
    IN  IF lx.start = "comm" /\ Atom(text, k) = ":"
        THEN Return(lx, Between(text, k + 1), "LABEL", w)
        ELSE IF lx.start = "comm" /\ Found(text, k, Assignments) # {}
        THEN LET o == Farthest(text, k, Assignments)
             IN  IF w \in Numbers THEN Raise(lx, "31.2")
                 ELSE Return(Begin(lx, "other"), Between(text, SignsEnd(text, k, o.s)), o.t, w)
        ELSE IF lx.start = "do1" /\ Atom(text, k) = "=" /\ w \in Words
        THEN Return([lx EXCEPT !.start = "other", !.in_do = 2], k, "DOVARIABLE", w)
        ELSE IF lx.start = "comm" /\ w \in Commands THEN Command(lx, w, k)
        ELSE IF Applies(lx, w) \/ Whatever(lx, w) THEN KeywordOrWhatever(lx, w, k)
        ELSE IF w \in Numbers THEN process_number_or_const(lx, text, w)
        ELSE var_symbol(lx, text, w)
Literal(lx, text, w) ==
    LET k == Between(text, lx.at + 1)
    IN  IF lx.start = "comm" /\ Atom(text, k) = ":"
        THEN Return(lx, Between(text, k + 1), "LABEL", w)
        ELSE text_string(lx, text, w)
NoGap(lx, text) ==
    LET a == Atom(text, lx.at)
        next == Between(text, lx.at + 1)
    IN  CASE IsSymbol(a)                -> LeadingWord(lx, text, a)
          [] a \in Literals             -> Literal(lx, text, a)
          [] a \in HexLiterals          -> process_hex_or_bin_string(lx, text, a)
          [] IsOperator(text, lx.at)    -> Operator(lx, text, lx.at)
          [] a = "not"                  -> Return(Begin(lx, "other"), next, "NOT", "NOT")
          [] a = "("                    -> OpenParen(lx, next)
          [] a = ")"                    -> CloseParen(lx, lx.at + 1)
          [] a = ","                    -> Return(lx, next, ",", ",")
          [] a = "." /\ lx.in_parse # 0 -> Return(lx, lx.at + 1, "PLACEHOLDER", ".")
          [] a = ":"                    -> Raise(lx, "20.1")
          [] OTHER                      -> process_number_or_const(lx, text, a)

RECURSIVE Rules(_, _)
Rules(lx, text) ==
    LET i == lx.at
        j == Between(text, i)
        b == Atom(text, j)
    IN  IF b \in EOL THEN EndOfClause(lx, Between(text, j + 1))
        ELSE IF j = i THEN NoGap(lx, text)
        ELSE IF IsOperator(text, j) THEN Operator(lx, text, j)
        ELSE IF b = ")" THEN CloseParen(lx, j + 1)
        ELSE IF b = "," THEN Return(lx, Between(text, j + 1), ",", ",")
        ELSE IF TakesBlanks(lx, b) THEN KeywordOrWhatever(lx, b, Between(text, j + 1))
        ELSE IF ~HasBlank(text, i, j) THEN Rules(Goto(lx, j), text)
        ELSE IF lx.in_parse # 0 THEN Rules(Entry(Goto(lx, j)), text)
        ELSE IF lx.in_address = "value" \/ ~lx.kill_this THEN Return(lx, j, "SPACE", "SPACE")
        ELSE Rules(Entry(Goto(lx, j)), text)
yywrap(lx) == IF lx.do_level > 0 THEN Raise(lx, "14.0") ELSE [lx EXCEPT !.done = TRUE]
yylex(lx, text) ==
    IF lx.delayed.t # "" THEN Delayed(lx)
    ELSE IF Between(text, lx.at) > Len(text) THEN yywrap(lx)
    ELSE Rules(Entry(lx), text)

RECURSIVE Tokens(_, _)
Tokens(lx, text) == IF lx.done THEN lx ELSE Tokens(yylex(lx, text), text)
Scanned(text) == Tokens(init_it_all, text)
=============================================================================
