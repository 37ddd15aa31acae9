----------------------------- MODULE VarPoolMC -----------------------------
(***************************************************************************)
(* Small instances of VarPool: two values, one literal tail, and lists of  *)
(* PROCEDURE EXPOSE that meet every branch of expose_var.                  *)
(***************************************************************************)
EXTENDS VarPool

X == <<"X">>
Stem == <<"S">>
S1 == <<"S", "1">>
SX == <<"S", "X">>

SomeLists == {<<X, X>>, <<S1, Stem, S1>>, <<X, SX>>}
=============================================================================
