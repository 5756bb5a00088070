\* One name declared with two types in scopes that do not overlap.
SPECIFICATION Spec
CONSTANTS
  Name <- ScopeName
  Tmp = "tmp"
  DeclTypes <- ScopeTypes
  Headers <- VoidHeader
  Callees <- BoolCallees
  Globals = {}
  Syntax = {"VARIABLE", "ASSIGNMENT", "BLOCK", "IF", "AND", "CALL"}
  Literals <- IntLiteral
  MaxStmts = 5
  MaxExprs = 3
INVARIANTS
  SingleAssignment
  ControlFlowConsistent
CHECK_DEADLOCK FALSE
