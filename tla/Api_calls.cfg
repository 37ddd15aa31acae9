SPECIFICATION Spec
CONSTANTS
  Lib = {"A"}
  Exe = "exe"
  Registrable <- SomeEntries
  ExitLists <- SomeExits
  EnvNames = {"S"}
  Hows = {"external", "source"}
  MaxFrames = 5
  MaxLost = 1
  MaxOrphans = 1
INVARIANTS
  LibrariesKept
  HandlersKept
  ExitsPaired
CHECK_DEADLOCK FALSE
