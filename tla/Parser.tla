------------------------------- MODULE Parser --------------------------------
(***************************************************************************)
(* The grammar of yaccsrc.y: the tokens of the scanner become the tree the *)
(* interpreter walks.  The parser stops at the first error.                *)
(*                                                                         *)
(* A production is an operator from parser state to parser state that      *)
(* leaves its value on the stack of values.  A value is a chain: the nodes *)
(* linked by ->next, <<>> for NULL.  The last argument of a production is  *)
(* the error of the innermost production with the token "error" that is    *)
(* open around it: bison unwinds its stack to that one at a token it cannot*)
(* use.  Without one the error is 64.                                      *)
(***************************************************************************)
EXTENDS Scanner
CONSTANT Stems              \* the names with a single dot, at their end

Null == <<>>
Last(seq) == seq[Len(seq)]

(* u is the union of a node: the flags and choices kept in it.             *)
makenode(type, p) == [type |-> type, name |-> "", p |-> p, u |-> {}]
Part(chain, i) == IF i \in DOMAIN chain[1].p THEN chain[1].p[i] ELSE Null
IS_EXPRLIST(chain) == chain # Null /\ chain[1].type \in {"EXPRLIST", "CEXPRLIST"}
IS_FUNCTION(chain) == chain # Null /\ chain[1].type \in {"EX_FUNC", "IN_FUNC"}

----------------------------------------------------------------------------
(* The parser's state, its tokens and its stack of values.                 *)
Tok(s) == s.in[s.at].t
Val(s) == s.in[s.at].v
Bad(s) == s.err # ""
Is(s, tokens) == ~Bad(s) /\ Tok(s) \in tokens
Shift(s) == IF Bad(s) THEN s ELSE [s EXCEPT !.at = @ + 1]

(* An action that raises an error before the next token is read, and one   *)
(* for which the next token, and the scanner's error there, come first.    *)
exiterror(s, code) == IF Bad(s) THEN s ELSE [s EXCEPT !.err = code]
Fail(s, code) ==
    IF Bad(s) THEN s
    ELSE exiterror(s, IF Tok(s) = "raise" THEN Val(s) ELSE code)
Expect(s, tokens, h) == IF Is(s, tokens) THEN Shift(s) ELSE Fail(s, h)
Check(s, right, code) == IF Bad(s) \/ right THEN s ELSE Fail(s, code)

Top(s) == Last(s.vals)
Under(s, k) == s.vals[Len(s.vals) - k]
Replace(s, k, chain) ==
    IF Bad(s) THEN s ELSE [s EXCEPT !.vals = Append(SubSeq(@, 1, Len(@) - k), chain)]
Push(s, chain) == Replace(s, 0, chain)
Place(s, k, chain) == IF Bad(s) THEN s ELSE [s EXCEPT !.vals[Len(s.vals) - k] = chain]
Node(s, type, k) ==
    Replace(s, k, <<makenode(type, SubSeq(s.vals, Len(s.vals) - k + 1, Len(s.vals)))>>)
Named(s, name) == IF Bad(s) THEN s ELSE Place(s, 0, [Top(s) EXCEPT ![1].name = name])
Marked(s, flags) == IF Bad(s) THEN s ELSE Place(s, 0, [Top(s) EXCEPT ![1].u = @ \cup flags])
(* A token that is a node by itself, named after its text.                 *)
Leaf(s, type) == Shift(Named(Node(s, type, 0), Val(s)))
(* optgluelast of the two values on top.                                   *)
optgluelast(s) == IF Bad(s) THEN s ELSE Replace(s, 2, Under(s, 1) \o Top(s))

----------------------------------------------------------------------------
(* Expressions.  parendepth counts how many parentheses may be open around *)
(* a list of expressions: one for the extended CALL, at its beginning.     *)
Level(t) ==
    CASE t \in {"|", "XOR"}             -> 1
      [] t = "&"                        -> 2
      [] t \in {"=", "DIFFERENT", "GTE", "GT", "LT", "LTE", "EQUALEQUAL", "NOTEQUALEQUAL", "GTGT",
                "LTLT", "NOTGTGT", "NOTLTLT", "GTGTE", "LTLTE"} -> 3
      [] t \in {"CONCATENATE", "SPACE"} -> 4
      [] t \in {"+", "-"}               -> 5
      [] t \in {"*", "/", "%", "MODULUS"} -> 6
      [] t = "EXP"                      -> 7
      [] OTHER                          -> 0
Operands == {"SIMSYMBOL", "CONSYMBOL", "HEXSTRING", "STRING"}
Functions == {"INFUNCNAME", "EXFUNCNAME"}
Begins(s) == ~Bad(s) /\ (Tok(s) \in Operands \cup Functions \cup {"(", "NOT"} \/ Level(Tok(s)) > 0)

Deeper(s, by) == [s EXCEPT !.parendepth = @ + by]
InDepth(s, d) == [s EXCEPT !.parendepth = d]

(* reduce_expr_list with REDUCE_EXPR, and with REDUCE_CALL or REDUCE_RIGHT.*)
ReduceExpr(chain) ==
    IF /\ IS_EXPRLIST(chain) /\ Part(chain, 1) # Null /\ Part(chain, 2) = Null
       /\ ~IS_EXPRLIST(Part(chain, 1))
    THEN Part(chain, 1) ELSE chain
ReduceCall(chain) ==
    IF IS_EXPRLIST(chain) /\ IS_EXPRLIST(Part(chain, 1)) /\ Part(chain, 2) = Null
    THEN Part(chain, 1) ELSE chain
(* REDUCE_SUBEXPR: a list is no operand, but the one in parentheses is.    *)
Single(list) == Part(list, 1) # Null /\ Part(list, 2) = Null
ReduceSub(s) ==
    IF Bad(s) THEN s
    ELSE LET c == Top(s)
             lists == IF c = Null \/ IS_FUNCTION(c) \/ IS_EXPRLIST(c) \/ s.parendepth # 1 THEN {}
                      ELSE {i \in DOMAIN c[1].p \cap {1, 2} : IS_EXPRLIST(c[1].p[i])}
         IN  IF \E i \in lists : ~Single(c[1].p[i]) THEN Fail(s, "35.0")
             ELSE Place(s, 0, IF lists = {} THEN c
                              ELSE [c EXCEPT ![1].p = [i \in DOMAIN @ |->
                                        IF i \in lists THEN Part(@[i], 1) ELSE @[i]]])
AUTO_REDUCE(s, k, operator) ==
    IF Bad(s) \/ s.parendepth # 1 THEN s
    ELSE LET c == ReduceExpr(Under(s, k))
         IN  IF ~IS_EXPRLIST(c) THEN Place(s, k, c)
             ELSE Fail(s, IF operator # "" THEN "35.1"
                          ELSE IF Part(c, 1) = Null THEN "37.0" ELSE "37.1")

is_a_descr(name) == name \in Numbers
Numeric == {"+", "-", "*", "/", "%", "MODULUS", "U_PLUSS", "U_MINUS", "=", "DIFFERENT", "GTE", "GT",
            "LTE", "LT"}
gettypeof(n) ==
    CASE n.type \in Numeric                       -> "number"
      [] n.type = "SIM_SYMBOL"                    -> IF n.name \in Stems THEN "" ELSE "simple"
      [] n.type = "STRING" /\ is_a_descr(n.name)  -> "number"
      [] n.type = "STRING" /\ ~is_a_descr(n.name) -> "no number"
      [] OTHER                                    -> ""
(* A comparison is made for numbers, for strings, or left to be found out  *)
(* with a hint on either side.                                             *)
Hint(n, var, num) ==
    IF gettypeof(n) = "simple" THEN {var}
    ELSE IF n.type = "STRING" /\ is_a_descr(n.name) THEN {num} ELSE {}
transform(s) ==
    IF Bad(s) THEN s
    ELSE LET left == Part(Top(s), 1)[1]
             rght == Part(Top(s), 2)[1]
             types == {gettypeof(left), gettypeof(rght)}
         IN  Marked(s, IF types = {"number"} THEN {"numbers"}
                       ELSE IF "no number" \in types THEN {"strings"}
                       ELSE Hint(left, "lsvar", "lnum") \cup Hint(rght, "rsvar", "rnum"))
Transformed == {"=", "GTE", "LTE", "GT", "LT", "DIFFERENT"}

RECURSIVE is_const(_)
is_const(chain) ==
    \/ chain = Null
    \/ chain[1].type = "STRING"
    \/ /\ chain[1].type \in {"SPACE", "CONCATENATE"}
       /\ is_const(Part(chain, 1)) /\ is_const(Part(chain, 2))
checkconst(s) ==
    IF Bad(s) \/ ~is_const(Part(Top(s), 1)) THEN s
    ELSE Place(s, 0, [Top(s) EXCEPT ![1].type = "CEXPRLIST"])

(* What productions are made of in circles.                                *)
RECURSIVE Production(_, _, _)
expr(s, h) == Production("expr", s, h)
exprs(s, h) == Production("exprs", s, h)
Statement(s, h) == Production("statement", s, h)
Statements(s, h) == Production("statements", s, h)

RECURSIVE Primary(_, _), Climb(_, _, _)
nexpr(s, h) == IF Begins(s) THEN expr(s, h) ELSE Push(s, Null)

exprs_sub(s, h) ==
    IF Is(s, {"STATSEP"}) THEN Fail(s, "36.0") ELSE Expect(exprs(s, h), {")"}, "36.0")
Parenthesized(s, h) ==
    LET r == Deeper(exprs_sub(Deeper(Shift(s), -1), h), 1)
    IN  IF Bad(r) \/ r.parendepth = 1 THEN r
        ELSE IF ReduceExpr(Top(r)) = Top(r) THEN exiterror(r, "49.1")
        ELSE Place(r, 0, ReduceExpr(Top(r)))
function(s, h) ==
    LET r == exprs_sub(InDepth(Shift(s), 0), h)
    IN  Named(Node(InDepth(r, s.parendepth), IF Tok(s) = "INFUNCNAME" THEN "IN_FUNC" ELSE "EX_FUNC",
                   1), Val(s))
Prefix(s, type, operator, h) ==
    IF Begins(Shift(s)) THEN Node(AUTO_REDUCE(Primary(Shift(s), h), 0, operator), type, 1)
    ELSE Fail(Shift(s), "35.1")
Primary(s, h) ==
    IF ~Begins(s) THEN Fail(s, h)
    ELSE CASE Tok(s) = "("           -> Parenthesized(s, h)
           [] Tok(s) = "+"           -> Prefix(s, "U_PLUSS", "", "35.1")
           [] Tok(s) = "-"           -> Prefix(s, "U_MINUS", "", "35.1")
           [] Tok(s) = "NOT"         -> Prefix(s, "NOT", "not", h)
           [] Tok(s) = "SIMSYMBOL"   -> Leaf(s, "SIM_SYMBOL")
           [] Tok(s) \in Operands \ {"SIMSYMBOL"} -> Leaf(s, "STRING")
           [] Tok(s) \in Functions   -> function(s, h)
           [] OTHER                  -> exiterror(s, "35.1")
Binary(s, h) ==
    LET op == Tok(s)
        r  == Climb(Primary(Deeper(Shift(s), -1), h), Level(op) + 1, h)
        n  == Node(AUTO_REDUCE(Deeper(r, 1), 1, op), op, 2)
    IN  IF op \in Transformed THEN transform(n) ELSE n
(* A blank before a keyword is no operator.                                *)
Operates(s, min) == Level(Tok(s)) >= min /\ (Tok(s) = "SPACE" => Begins(Shift(s)) \/ Tok(Shift(s)) = "raise")
Climb(s, min, h) ==
    IF Bad(s) THEN s ELSE IF Operates(s, min) THEN Climb(Binary(s, h), min, h) ELSE s

(* A list of expressions: each member is a node EXPRLIST with the rest.    *)
FirstOfMore(s) ==
    LET r == Place(s, 0, ReduceExpr(Top(s)))
    IN  IF Bad(s) THEN s
        ELSE IF s.parendepth < 0 THEN exiterror(s, "37.1")
        ELSE IF IS_EXPRLIST(Top(r)) THEN exiterror(r, "37.1")
        ELSE ReduceSub(r)
RestRight(s) ==
    LET inner == Part(Top(s), 1)
        r     == ReduceCall(Top(s))
        curr  == Part(r, 1)
    IN  IF Bad(s) THEN s
        ELSE IF IS_EXPRLIST(inner) /\ Part(Top(s), 2) = Null /\ Part(inner, 1) = Null
        THEN Fail(s, "37.0")
        ELSE IF IS_EXPRLIST(inner) /\ Part(Top(s), 2) = Null /\ IS_EXPRLIST(Part(inner, 2))
        THEN Fail(s, "37.1")
        ELSE IF /\ curr # Null /\ ~IS_EXPRLIST(curr) /\ ~IS_FUNCTION(curr)
                /\ \E i \in {1, 2} : IS_EXPRLIST(Part(curr, i))
        THEN Fail(s, "35.0")
        ELSE Place(s, 0, r)
OnlyOne(s) ==
    Node(ReduceSub(Check(s, s.parendepth >= 0 \/ Top(s) # Null, "37.0")), "EXPRLIST", 1)
AnyExprs(s, h) ==
    LET first == nexpr(s, h)
    IN  checkconst(IF Is(first, {","})
                   THEN Node(RestRight(exprs(FirstOfMore(Shift(first)), h)), "EXPRLIST", 2)
                   ELSE OnlyOne(first))

----------------------------------------------------------------------------
(* Labels and the ends of clauses.  A label within IF, DO or SELECT is for *)
(* tracing only: nothing can jump to it.                                   *)
label_stat(s) ==
    LET n == Leaf(s, "LABEL")
    IN  Marked([n EXCEPT !.labels = Append(@, Val(s))], IF s.level = 0 THEN {} ELSE {"trace_only"})
RECURSIVE MoreLabels(_), MoreNcl(_)
MoreLabels(s) == IF Is(s, {"LABEL"}) THEN MoreLabels(optgluelast(label_stat(s))) ELSE s
optLabels(s) == MoreLabels(Push(s, Null))
MoreNcl(s) ==
    IF Is(s, {"STATSEP"}) THEN MoreNcl(optgluelast(optLabels(Shift(s)))) ELSE s
nlncl(s) == MoreNcl(optLabels(s))
ncl(s, h) == MoreNcl(optLabels(Expect(s, {"STATSEP"}, h)))
Deep(s, by) == IF Bad(s) THEN s ELSE [s EXCEPT !.level = @ + by]
nspace(s) == IF Is(s, {"SPACE"}) THEN Shift(s) ELSE s

(* move_labels: front, end are the chains under the value on top; the      *)
(* labels at the end of end go behind front.                               *)
justlabels(chain) == \A i \in DOMAIN chain : chain[i].type = "LABEL"
LastClause(chain) ==
    CHOOSE i \in DOMAIN chain : /\ chain[i].type # "LABEL"
                               /\ justlabels(SubSeq(chain, i + 1, Len(chain)))
\* Mutant: labels moved into a loop or a branch stay targets of a jump.
RelabelledNot(labels, level) == labels
Relabelled(labels, level) ==
    [i \in DOMAIN labels |-> [labels[i] EXCEPT !.u = IF level = 0 THEN {} ELSE {"trace_only"}]]
WithoutLabels(end) == SubSeq(end, 1, LastClause(end))
MovedLabels(end, level) == Relabelled(SubSeq(end, LastClause(end) + 1, Len(end)), level)

----------------------------------------------------------------------------
(* The clauses.  A name that must follow a keyword, or may.                *)
simsymb(s) == IF Is(s, {"SIMSYMBOL"}) THEN Shift(Named(s, Val(s))) ELSE Fail(s, "20.1")
AtEnd(s, code) == IF Is(s, {"STATSEP"}) THEN s ELSE Fail(s, code)
MaybeNamed(s) == IF Is(s, {"STATSEP"}) THEN s ELSE AtEnd(simsymb(s), "21.1")

RECURSIVE anyvars(_, _)
anyvar(s, h) ==
    IF Is(s, {"("})
    THEN LET name == Shift(s)
         IN  IF Is(name, {"SIMSYMBOL"})
             THEN Expect(Leaf(name, "IND_SYMBOL"), {")"}, h) ELSE Fail(name, h)
    ELSE IF Is(s, {"SIMSYMBOL"}) THEN Leaf(s, "SIM_SYMBOL") ELSE Fail(s, h)
anyvars(s, h) ==
    LET v == anyvar(s, h)
    IN  IF ~Is(v, {"SIMSYMBOL", "("}) THEN v
        ELSE LET more == anyvars(v, h)
             IN  IF Bad(more) THEN more
                 ELSE Replace(more, 2, <<[Under(more, 1)[1] EXCEPT !.p = <<Top(more)>>]>>)
WithVars(s, type, h) == AtEnd(Node(anyvars(Shift(s), h), type, 1), "20.1")

(* ADDRESS ... WITH: each of the three resources once, in any order.       *)
ResourceKinds == <<"INPUT", "OUTPUT", "ERROR">>
ResourceCodes == <<"25.6", "25.7", "25.14">>
NoName(t) ==
    CASE t = "STREAM" -> "53.1" [] t = "STEM" -> "53.2" [] t = "LIFO" -> "53.100"
      [] t = "FIFO"   -> "53.101"
resources(s, h) ==
    LET t == Tok(s)
        name == nspace(Shift(s))
    IN  IF ~Is(s, {"STREAM", "STEM", "LIFO", "FIFO"}) THEN Fail(s, h)
        ELSE IF Is(name, {"SIMSYMBOL"})
        THEN IF t = "STEM" /\ Val(name) \notin Stems THEN exiterror(Shift(name), "53.3")
             ELSE Marked(Leaf(name, "ADDR_WITH"), {t, "SIMSYMBOL"})
        ELSE IF Is(name, {"STRING", "HEXSTRING"}) /\ t # "STEM"
        THEN Marked(Leaf(name, "ADDR_WITH"), {t, "STRING"})
        ELSE Fail(name, NoName(t))
Normal(s) == Shift(Node(s, "ADDR_WITH", 0))
resourcei(s) ==
    IF Is(s, {"NOEOL"}) THEN Marked(resources(Shift(s), "25.8"), {"noeol"})
    ELSE IF Is(s, {"NORMAL"}) THEN Normal(s) ELSE resources(s, "25.6")
resourceo(s, h) ==
    IF Is(s, {"APPEND"}) THEN Marked(resources(Shift(s), "25.8"), {"append"})
    ELSE IF Is(s, {"REPLACE"}) THEN resources(Shift(s), "25.9")
    ELSE IF Is(s, {"NORMAL"}) THEN Normal(s) ELSE resources(s, h)
Resource(s, i) ==
    LET r == IF i = 1 THEN resourcei(nspace(Shift(s)))
             ELSE resourceo(nspace(Shift(s)), ResourceCodes[i])
    IN  IF Bad(r) THEN r
        ELSE Replace(r, 2, <<[Under(r, 1)[1] EXCEPT !.p[i] = Top(r)]>>)
RECURSIVE connection(_, _)
connection(s, left) ==
    LET here == nspace(s)
        found == {i \in left : Is(here, {ResourceKinds[i]})}
    IN  IF found # {} THEN LET i == CHOOSE j \in found : TRUE
                           IN  connection(Resource(here, i), left \ {i})
        ELSE IF left = 1..3 THEN Fail(here, "25.5") ELSE AtEnd(here, "25.5")
addr_with(s) == connection(Shift(s), 1..3)
naddr_with(s) ==
    IF Is(s, {"WITH"})
    THEN addr_with(Push(s, <<makenode("ADDR_WITH", <<Null, Null, Null>>)>>))
    ELSE Push(AtEnd(s, "19.1"), Null)
address_stat(s) ==
    LET a == Shift(s)
        command == naddr_with(nexpr(Shift(a), "19.1"))
    IN  CASE Is(a, {"VALUE"})   -> Node(naddr_with(expr(Shift(a), "19.1")), "ADDR_V", 2)
          [] Is(a, {"STATSEP"}) -> Node(a, "ADDR_S", 0)
          [] Is(a, {"CONSYMBOL", "SIMSYMBOL", "STRING"}) ->
                Named(Node(command, "ADDR_N", 2), Val(a))
          [] Is(a, {"("}) ->
                LET close == Expect(expr(Shift(a), "19.1"), {")"}, "19.1")
                IN  Marked(Node(naddr_with(nspace(close)), "ADDR_V", 2), {"nonansi"})
          [] Is(a, {"WITH"}) -> Fail(nspace(Shift(a)), "25.5")
          [] OTHER -> Fail(a, "19.1")

(* CALL with arguments, which the extended form may put in parentheses.    *)
call_args(s) ==
    LET r == exprs(InDepth(s, s.start), "19.2")
        c == IF Is(r, {")"}) THEN Fail(r, "37.2") ELSE r
    IN  IF Bad(c) THEN c ELSE InDepth(Place(c, 0, ReduceCall(Top(c))), 0)
namespec(s) ==
    IF Is(s, {"SIMSYMBOL", "STRING"}) THEN Shift(Named(s, Val(s))) ELSE Fail(s, "19.3")
c_action == {"ERROR", "HALT", "NOTREADY", "FAILURE"}
s_action == c_action \cup {"NOVALUE", "SYNTAX", "LOSTDIGITS"}
(* ON and OFF with a condition, for CALL and for SIGNAL.                   *)
Trap(s, type, conditions, codes) ==
    LET set == Leaf(s, Tok(s))
        act == IF Is(set, conditions) THEN Leaf(set, Tok(set))
               ELSE Fail(set, codes[IF Tok(s) = "ON" THEN 1 ELSE 2])
        n   == Node(act, type, 2)
    IN  IF Is(n, {"NAME"}) /\ Tok(s) = "ON" THEN AtEnd(namespec(Shift(n)), "19.3")
        ELSE AtEnd(n, "21.1")
call_stat(s) ==
    LET c == Shift(s)
    IN  CASE Is(c, {"CONSYMBOL", "SIMSYMBOL"}) ->
                Named(Node(call_args(Shift(c)), "CALL", 1), Val(c))
          [] Is(c, {"STRING", "HEXSTRING"}) ->
                Named(Node(call_args(Shift(c)), "EX_FUNC", 1), Val(c))
          [] Is(c, {"ON", "OFF"}) -> Trap(c, "CALL_SET", c_action, <<"25.1", "25.2">>)
          [] OTHER -> Fail(c, "19.2")
signal_stat(s) ==
    LET c == Shift(s)
    IN  CASE Is(c, {"VALUE"}) -> Node(expr(Shift(c), "19.4"), "SIG_VAL", 1)
          [] Is(c, {"CONSYMBOL", "SIMSYMBOL", "STRING"}) -> AtEnd(Leaf(c, "SIG_LAB"), "21.1")
          [] Is(c, {"ON", "OFF"}) -> Trap(c, "SIG_SET", s_action, <<"25.3", "25.4">>)
          [] OTHER -> Fail(c, "19.4")

(* Templates.                                                              *)
RECURSIVE pv(_), template(_, _), templs(_)
pv(s) ==
    IF Is(s, {"PLACEHOLDER"}) THEN Node(pv(Shift(s)), "TPL_POINT", 1)
    ELSE IF Is(s, {"SIMSYMBOL"})
    THEN LET more == pv(Leaf(s, "SIM_SYMBOL"))
         IN  IF Bad(more) THEN more
             ELSE Replace(more, 2, <<makenode("TPL_SYMBOL", <<Top(more), Under(more, 1)>>)>>)
    ELSE Push(s, Null)
SolidTokens == {"-", "+", "=", "OFFSET", "CONSYMBOL", "(", "STRING", "HEXSTRING"}
SolidType(t) == CASE t = "-" -> "NEG_OFFS" [] t = "+" -> "POS_OFFS" [] OTHER -> "ABS_OFFS"
Indirect(s, type) ==
    LET v == Expect(s, {"SIMSYMBOL"}, "38.1")
    IN  IF Bad(v) THEN v ELSE Expect(Node(Leaf(s, "SIM_SYMBOL"), type, 1), {")"}, "38.1")
offset(s, type) ==
    IF Is(s, {"OFFSET"}) THEN Leaf(s, type)
    ELSE IF Is(s, {"CONSYMBOL"})
    THEN exiterror(s, IF is_a_descr(Val(s)) THEN "26.4" ELSE "38.0")
    ELSE Fail(s, "38.1")
solid(s) ==
    CASE Is(s, {"STRING", "HEXSTRING"}) -> Leaf(s, "TPL_MVE")
      [] Is(s, {"("})                   -> Indirect(Shift(s), "TPL_VAR")
      [] Is(s, {"-", "+", "="})         ->
            IF Is(Shift(s), {"("}) THEN Indirect(Shift(Shift(s)), SolidType(Tok(s)))
            ELSE offset(Shift(s), SolidType(Tok(s)))
      [] OTHER                          -> offset(s, "ABS_OFFS")
template(s, ends) ==
    IF ~Is(s, SolidTokens \cup {"PLACEHOLDER", "SIMSYMBOL"} \cup ends) THEN Fail(s, "38.1")
    ELSE LET v == pv(s)
         IN  IF Is(v, SolidTokens)
             THEN Node(template(solid(v), {",", "STATSEP"}), "TPL_SOLID", 3)
             ELSE Node(v, "TPL_SOLID", 1)
templs(s) ==
    LET first == template(s, {",", "STATSEP"})
    IN  IF Is(first, {","}) THEN optgluelast(templs(Shift(first))) ELSE first
arg_stat(s) == Marked(Node(templs(Shift(Node(s, "PARSE_ARG", 0))), "PARSE", 2), {"UPPER"})

parse_flags(s) ==
    LET one == Val(s)
    IN  IF ~Is(s, ParseFlags) THEN [s |-> s, flags |-> {}]
        ELSE IF Is(Shift(s), {"UPPER", "LOWER"}) /\ one = "CASELESS"
        THEN [s |-> Shift(Shift(s)), flags |-> {one, Val(Shift(s))}]
        ELSE IF Is(Shift(s), {"CASELESS"}) /\ one # "CASELESS"
        THEN [s |-> Shift(Shift(s)), flags |-> {one, "CASELESS"}]
        ELSE [s |-> Shift(s), flags |-> {one}]
parse_param(s) ==
    CASE Is(s, {"ARG", "VERSION", "PULL", "SOURCE"}) -> Shift(Node(s, Tok(s), 0))
      [] Is(s, {"LINEIN", "EXTERNAL"})               -> Shift(Node(s, "EXTERNAL", 0))
      [] Is(s, {"VAR"})   -> simsymb(Shift(Node(s, "VAR", 0)))
      [] Is(s, {"VALUE"}) ->
            LET v == Shift(s)
                e == IF Begins(v) \/ Is(v, {"WITH"}) THEN nexpr(v, "38.3") ELSE Fail(v, "38.3")
            IN  Expect(Node(e, "VALUE", 1), {"WITH"}, "38.3")
      [] OTHER -> Fail(s, "25.12")
parse_stat(s) ==
    LET f == parse_flags(Shift(s))
    IN  Marked(Node(templs(parse_param(f.s)), "PARSE", 2), f.flags)

numeric_stat(s) ==
    LET n == Shift(s)
        a == Shift(n)
    IN  CASE Is(n, {"DIGITS", "FUZZ"}) ->
                IF Begins(a) THEN Node(expr(a, "25.15"), Tok(n), 1) ELSE Node(a, Tok(n), 0)
          [] Is(n, {"FORM"}) ->
                CASE Is(a, {"SCIENTIFIC", "ENGINEERING"}) ->
                        AtEnd(Node(Shift(Node(a, Tok(a), 0)), "FORM", 1), "21.1")
                  [] Is(a, {"STATSEP"}) -> Node(a, "FORM", 0)
                  [] Is(a, {"VALUE"})   -> Node(expr(Shift(a), "25.11"), "FORM VALUE", 1)
                  [] OTHER              -> Fail(a, "25.11")
          [] OTHER -> Fail(n, "25.15")
proc_stat(s) ==
    CASE Is(Shift(s), {"STATSEP"}) -> Shift(Node(s, "PROCEDURE", 0))
      [] Is(Shift(s), {"EXPOSE"})  -> WithVars(Shift(s), "PROCEDURE", "20.1")
      [] OTHER                     -> Fail(Shift(s), "25.17")
trace_stat(s, h) ==
    LET a == Shift(s)
    IN  CASE Is(a, {"VALUE"})    -> Node(expr(Shift(a), h), "TRACE", 1)
          [] Is(a, {"WHATEVER"}) -> AtEnd(Leaf(a, "TRACE"), "21.1")
          [] OTHER               -> Node(nexpr(a, h), "TRACE", 1)
Assigned == {o.t : o \in Assignments}
assignment(s, h) ==
    LET target == Named(Node(s, "SIM_SYMBOL", 0), Val(s))
        r == nexpr(Shift(target), h)
        value == Top(r)
        n == Node(r, Tok(s), 2)
    IN  CASE Bad(r) -> r
          [] Tok(s) = "ASSIGNMENTVARIABLE" ->
                IF value # Null /\ Part(value, 1) # Null /\ gettypeof(value[1]) = "number"
                THEN Marked(n, {"numbers"}) ELSE n
          [] Tok(s) = "CONCATASSIGNMENTVARIABLE" -> n
          [] OTHER -> Check(n, value # Null, "41.2")

----------------------------------------------------------------------------
(* DO, IF and SELECT.                                                      *)
ystatement(s, h) ==
    IF Is(s, {"END"}) THEN Fail(ncl(MaybeNamed(Shift(Node(s, "END", 0))), h), "10.1")
    ELSE Statement(s, h)

Repeats == {"TO", "BY", "FOR"}
RECURSIVE tobyfors(_, _, _)
tobyfors(s, n, h) ==
    IF n = 3 \/ ~Is(s, Repeats) THEN Node(s, "REP", n + 1)
    ELSE tobyfors(nspace(Node(expr(Shift(s), h), Tok(s), 1)), n + 1, h)
checkdosyntax(s) ==
    IF Bad(s) THEN s
    ELSE Check(s, \A i, j \in 2..4 : i < j /\ Part(Top(s), i) # Null /\ Part(Top(s), j) # Null
                      => Part(Top(s), i)[1].type # Part(Top(s), j)[1].type, "27.1")
repetitor(s, h) ==
    CASE Is(s, {"DOVARIABLE"}) ->
            LET start == nspace(expr(Expect(Shift(s), {"="}, h), h))
            IN  checkdosyntax(Named(tobyfors(start, 0, h), Val(s)))
      [] Is(s, {"FOREVER"}) ->
            LET f == nspace(Shift(Node(s, "REP_FOREVER", 0)))
            IN  IF Is(f, {"WHILE", "UNTIL", "STATSEP"}) THEN f ELSE Fail(f, "25.16")
      [] Begins(s) -> Node(Node(nspace(expr(Push(s, Null), h)), "DO_EXPR", 1), "REP", 2)
      [] OTHER -> Push(s, Null)
conditional(s, h) ==
    IF Is(s, {"WHILE", "UNTIL"}) THEN Node(nspace(expr(Shift(s), h)), Tok(s), 1) ELSE Push(s, Null)
(* END with the name of the loop, or without.                              *)
end(s, h) == IF Is(s, {"END"}) THEN MaybeNamed(Deep(Shift(Node(s, "END", 0)), -1)) ELSE Fail(s, h)
RightEnd(s) ==
    IF Bad(s) THEN s
    ELSE LET loop == Part(Top(s), 1)
             name == Part(Top(s), 4)[1].name
         IN  Check(s, name = "" \/ (loop # Null /\ loop[1].name = name), "10.0")
do_stat(s, h) ==
    LET head == ncl(conditional(repetitor(Deep(Shift(s), 1), h), h), h)
    IN  RightEnd(Node(end(Statements(head, h), h), "DO", 4))

(* The value on top is the chain of what follows THEN or ELSE.             *)
Branch(s, h) == optgluelast(ystatement(nlncl(Shift(s)), h))
if_stat(s, h) ==
    LET cond == optgluelast(nlncl(expr(Deep(Shift(s), 1), h)))
        thn  == IF Is(cond, {"THEN"}) THEN Branch(cond, "14.3") ELSE Fail(cond, "18.1")
        els  == IF Is(thn, {"ELSE"}) THEN Branch(thn, "14.4") ELSE thn
        n    == IF Is(thn, {"ELSE"}) THEN 3 ELSE 2
    IN  IF Is(Shift(s), {"STATSEP"}) THEN Fail(Shift(s), "14.0")
        ELSE IF Bad(els) THEN els
        ELSE LET bare == Node(Place(els, 0, WithoutLabels(Top(els))), "IF", n)
             IN  Deep(Place(bare, 0, Top(bare) \o MovedLabels(Top(els), els.level - 1)), -1)

when_stat(s) ==
    LET cond == optgluelast(nlncl(expr(Shift(s), "35.0")))
        thn  == Shift(cond)
        body == Node(optgluelast(Statement(nlncl(thn), "35.0")), "WHEN", 2)
    IN  IF Is(cond, {"THEN"})
        THEN IF Is(body, {"THEN"}) THEN Fail(body, "8.0") ELSE body
        ELSE Fail(cond, "35.0")
RECURSIVE when_stats(_)
when_stats(s) == IF Is(s, {"WHEN"}) THEN when_stats(optgluelast(when_stat(s))) ELSE s
otherwise_stat(s) ==
    IF Is(s, {"OTHERWISE"})
    THEN Node(Statements(nlncl(Shift(s)), "14.0"), "OTHERWISE", 1)
    ELSE Node(s, "NO_OTHERWISE", 0)
sel_end(s, h) ==
    LET e == Expect(s, {"END"}, h)
    IN  IF Is(e, {"STATSEP"}) THEN Deep(e, -1)
        ELSE IF Is(e, {"SIMSYMBOL"}) THEN Check(Shift(e), ~Is(Shift(e), {"STATSEP"}), "10.0")
        ELSE Fail(e, "20.1")
select_stat(s) ==
    LET sel   == ncl(Deep(Shift(s), 1), "21.1")
        whens == when_stats(sel)
        other == otherwise_stat(whens)
        after == IF Is(whens, {"OTHERWISE"}) THEN "14.0" ELSE "7.2"
    IN  CASE Is(sel, {"END"})       -> Fail(Shift(sel), "7.1")
          [] Is(sel, {"OTHERWISE"}) -> Fail(Shift(sel), "7.2")
          [] Is(sel, {"THEN"})      -> exiterror(sel, "8.0")
          [] Is(sel, {"WHEN"})      -> Node(sel_end(other, after), "SELECT", 2)
          [] OTHER                  -> Fail(sel, "7.2")

----------------------------------------------------------------------------
Simple == {"EXIT", "OPTIONS", "PUSH", "QUEUE", "RETURN", "SAY"}
nclstatement(s, h) ==
    CASE Is(s, Simple)               -> Node(nexpr(Shift(s), h), Tok(s), 1)
      [] Is(s, {"INTERPRET"})        -> Node(expr(Shift(s), h), "INTERPRET", 1)
      [] Is(s, {"ITERATE", "LEAVE"}) -> MaybeNamed(Shift(Node(s, Tok(s), 0)))
      [] Is(s, {"NOP"})              -> AtEnd(Shift(Node(s, "NOP", 0)), "21.1")
      [] Is(s, {"DROP", "UPPER"})    -> WithVars(s, Tok(s), h)
      [] Is(s, {"PULL"})             -> Node(template(Shift(s), {"STATSEP"}), "PULL", 1)
      [] Is(s, {"ADDRESS"})          -> address_stat(s)
      [] Is(s, {"ARG"})              -> arg_stat(s)
      [] Is(s, {"CALL"})             -> call_stat(s)
      [] Is(s, {"DO"})               -> do_stat(s, h)
      [] Is(s, {"NUMERIC"})          -> numeric_stat(s)
      [] Is(s, {"PARSE"})            -> parse_stat(s)
      [] Is(s, {"PROCEDURE"})        -> proc_stat(s)
      [] Is(s, {"SELECT"})           -> select_stat(s)
      [] Is(s, {"SIGNAL"})           -> signal_stat(s)
      [] Is(s, {"TRACE"})            -> trace_stat(s, h)
      [] Is(s, Assigned)             -> assignment(s, h)
      [] Begins(s)                   -> Node(expr(s, h), "COMMAND", 1)
      [] OTHER                       -> Fail(s, h)
AnyStatement(s, h) ==
    CASE Is(s, {"IF"})        -> if_stat(s, h)
      [] Is(s, {"THEN"})      -> exiterror(s, "8.1")
      [] Is(s, {"ELSE"})      -> exiterror(s, "8.2")
      [] Is(s, {"WHEN"})      -> exiterror(s, "9.1")
      [] Is(s, {"OTHERWISE"}) -> exiterror(s, "9.2")
      [] OTHER                -> optgluelast(ncl(nclstatement(s, h), h))
(* The statements up to an END, or to what cannot begin a statement.       *)
AnyStatements(s, h) ==
    IF Bad(s) THEN s ELSE IF Tok(s) \in {"END", "$end"} THEN s
    ELSE Statements(optgluelast(Statement(s, h)), h)
Production(name, s, h) ==
    CASE name = "expr"       -> Climb(Primary(s, h), 1, h)
      [] name = "exprs"      -> AnyExprs(s, h)
      [] name = "statement"  -> AnyStatement(s, h)
      [] name = "statements" -> AnyStatements(s, h)
RECURSIVE stats(_)
stats(s) == IF Bad(s) \/ Is(s, {"$end"}) THEN s ELSE stats(optgluelast(ystatement(s, "64")))
(* The source's tokens lead to a tree or to an error; start is 1 when CALL *)
(* may have its arguments in parentheses.                                  *)
prog(tokens, start) ==
    stats(nlncl([in |-> tokens, at |-> 1, err |-> "", vals |-> <<>>, level |-> 0, parendepth |-> 0,
                 start |-> start, labels |-> <<>>]))
LastToken(lx) == IF lx.err = "" THEN Token("$end", "") ELSE Token("raise", lx.err)
Parsed(text, start) ==
    LET lx == Scanned(text) IN prog(Append(lx.out, LastToken(lx)), start)
=============================================================================
