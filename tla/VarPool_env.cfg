SPECIFICATION Spec
CONSTANTS
  Simples = {"X"}
  Tails = {"1", "X"}
  ConstTails = {"1"}
  Vals = {"1"}
  ExposeLists <- SomeLists
  Habits = {}
  InitSize = 227
  MaxLevel = 2
  MaxId = 5
INVARIANTS
  ShortcutTruth
  EveryBoxHasAHome
PROPERTY
  Implements
