SPECIFICATION Spec
CONSTANTS
  Files = {"p", "q", "r"}
  Plain = {"q", "r"}
  Access <- MCAccess
  Contents <- MCContents
  MaxOpen = 1
  MaxLength = 4
  Calls = 3
  Lengths = {0, 2}
  Places = {0, 1, 2}
  Accesses = {"READ","WRITE","APPEND","STREAM_APPEND","CREATE","UPDATE"}
  LineoutTrunc = TRUE
INVARIANTS
  SwapUnnoticed
PROPERTIES
  TrackKept
  LostByReset
CHECK_DEADLOCK FALSE
