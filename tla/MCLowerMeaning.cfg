\* Branches, loops, returns and connectives over one bool variable.
SPECIFICATION RememberingSpec
CONSTANTS
  Name <- ControlName
  Tmp = "tmp"
  DeclTypes <- ControlTypes
  Headers <- ControlHeaders
  Callees <- OneCallee
  Globals = {}
  Syntax <- ControlSyntax
  Literals <- OneLiteral
  MaxStmts = 4
  MaxExprs = 2
  MaxNodes = 4
  MaxCalls = 3
  MaxTests = 8
INVARIANTS
  MeaningPreserved
  DefDominatesUse
  PhisMatchPredecessors
  NoDegeneratePhi
  EveryBlockEnds
  ReturnsIsSound
PROPERTY
  LoweringEnds
CHECK_DEADLOCK FALSE
