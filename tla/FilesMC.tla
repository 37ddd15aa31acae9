------------------------------ MODULE FilesMC ------------------------------
EXTENDS Files
MCAccess == [f \in Files |-> CASE f = "q" -> {"read"} [] f = "r" -> {"write"} [] OTHER -> {"read", "write"}]
MCContents == {<<"b", "LF", "c">>}
=============================================================================
