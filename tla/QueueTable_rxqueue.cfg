SPECIFICATION Spec
CONSTANTS
  LocalNames <- OneLocal
  RemoteNames <- ThreeRemote
  Withs <- SomeWiths
  Hosts = {"h", "k"}
  NumberQueues = 4
  Habits = {"fail"}
  MaxEnv = 2
  MaxRunner = 1
INVARIANTS
  NamesKept
  ConnectionsOwned
PROPERTY
  CommandKeepsCurrent
CHECK_DEADLOCK FALSE
