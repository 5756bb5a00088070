SPECIFICATION Spec
CONSTANTS
  NoValue = NoValue
  Word <- SomeWords
  MaxWords = 4
  ValueType = {"int", "float"}
  MaxDeclarations = 2
  MaxErrors = 1
INVARIANTS
  TypeOK
  ArgumentsKeepTheirRoles
  SuccessIsEarned
  OutputIsComplete
  FailuresAreExplained
  AnalysisCoversGlobals
PROPERTY ProgramEnds
CHECK_DEADLOCK FALSE
