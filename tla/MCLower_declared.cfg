\* A declaration without a value, then an assignment.
SPECIFICATION Spec
CONSTANTS
  Name <- ScopeName
  Tmp = "tmp"
  DeclTypes <- ScopeTypes
  Headers <- VoidHeader
  Callees <- BoolCallees
  Globals = {}
  Syntax = {"VARIABLE", "ASSIGNMENT", "BLOCK", "IF", "AND", "CALL"}
  Literals <- IntLiteral
  MaxStmts = 2
  MaxExprs = 0
INVARIANT
  DeclaredIsAssignable
CHECK_DEADLOCK FALSE
