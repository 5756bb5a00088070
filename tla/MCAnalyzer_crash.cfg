SPECIFICATION Spec
CONSTANTS
  Name = {"a", "b", "g"}
  Programs <- SomePrograms
  Exprs <- SomeExprs
  Height <- SomeHeight
  DeclTypes = {"INT", "VOID"}
  MaxStmts = 2
INVARIANT NeverCrashes
