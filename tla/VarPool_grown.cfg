SPECIFICATION Spec
CONSTANTS
  Simples = {"X", "Y"}
  Tails = {"1", "X"}
  ConstTails = {"1"}
  Vals = {"1"}
  ExposeLists <- SomeLists
  Habits = {}
  InitSize = 4
  MaxLevel = 2
  MaxId = 5
INVARIANT CallerRestored
