\* A name declared again with another type after its first scope ended.
SPECIFICATION Spec
CONSTANTS
  Name <- ScopeName
  Tmp = "tmp"
  DeclTypes <- ScopeTypes
  Headers <- VoidHeader
  Callees <- BoolCallees
  Globals = {}
  Syntax = {"VARIABLE", "ASSIGNMENT", "BLOCK", "IF", "AND", "CALL"}
  Literals <- IntLiteral
  MaxStmts = 5
  MaxExprs = 3
INVARIANT
  NothingDropped
CHECK_DEADLOCK FALSE
