SPECIFICATION FairSpec
CONSTANTS
  x = x
  CR = CR
  LF = LF
  Null = Null
  Text = {x}
  Jobs <- AllJobs
  BufCap = 2
  PipeCap = 2
  PipeAtomic = 1
INVARIANTS
  WatchesAll
  ArrivesWhole
PROPERTIES
  CommandEnds
