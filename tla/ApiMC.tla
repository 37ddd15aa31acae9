------------------------------- MODULE ApiMC ---------------------------------
EXTENDS Api
SomeEntries == {<<"FUNCS", "f", "A">>, <<"EXITS", "x", "A">>, <<"SUBCOMS", "S", Exe>>}
SomeExits == {{"RXINI", "RXTER", "RXSIO"}, {"RXFNC", "RXCMD"}}
=============================================================================
