\* Both branches of an if return.
SPECIFICATION Spec
CONSTANTS
  Name <- ControlName
  Tmp = "tmp"
  DeclTypes <- ControlTypes
  Headers <- ControlHeaders
  Callees = {}
  Globals = {}
  Syntax = {"RET", "IF"}
  Literals <- OneLiteral
  MaxStmts = 3
  MaxExprs = 0
INVARIANT
  AcceptedReturnsAreLowered
CHECK_DEADLOCK FALSE
