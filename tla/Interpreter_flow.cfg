SPECIFICATION FairSpec
CONSTANTS
  Trees <- MCTrees
  MaxRaises = 3
  MaxCalls = 12
INVARIANTS
  DelayedWhileHandled
PROPERTIES
  NestingKept
  PendingTaken
  ProgramEnds
CHECK_DEADLOCK FALSE
