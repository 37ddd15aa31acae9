SPECIFICATION ProgramSpec
CONSTANTS
  Texts <- SomeTexts
  Others <- SomeOthers
  Numerals <- SomeNumerals
  Bytestrings <- SomeBytestrings
  Wholes <- SomeWholes
  Sources <- SomeSources
  SomeTemplates <- Templates3
  Variables = {"x", "y"}
  Counts = {1, 2, 3, 5}
  Afters = {0, 32, 98}
  Digits = 2
  Engineering = TRUE
  MaxExponent = 9
  Lefts <- SomeLefts
  Rights <- SomeRights
  Decimals = {0, 1, 3}
  Formats <- SomeFormats
  MaxPower = 5
  Widest = 7
  Shifts <- SomeShifts
  Descriptions <- SomeStems
  Figures <- SomeFigures
  Layouts <- SomeLayouts
  Writings <- SomeWritings
  Clauses <- SomeClauses
  Followers <- SomeFollowers
  Nests <- SomeNests
  Expressions <- SomeExpressions
  Actuals <- SomeActuals
  MaxLikes = 2
  GCI_ARGS = 4
  MaxUnset = 1
INVARIANTS
  StringsRight
  StaysInside
  ConversionsRight
  TemplateFilled
  CalculatedRight
  ForeignCallsRight
  ProgramsRead
CHECK_DEADLOCK FALSE
