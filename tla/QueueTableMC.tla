--------------------------- MODULE QueueTableMC ---------------------------
(***************************************************************************)
(* Small instances of QueueTable: a local name, two queues of one host and *)
(* one of another.                                                         *)
(***************************************************************************)
EXTENDS QueueTable

OneLocal == {<<"A">>}
ThreeRemote == {<<"A", "h">>, <<"B", "h">>, <<"A", "k">>}
SomeWiths == {<< <<"A">>, <<"A", "h">> >>, << <<"A", "h">>, <<"A", "k">> >>}
=============================================================================
