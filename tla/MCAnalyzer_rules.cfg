SPECIFICATION Spec
CONSTANTS
  Name = {"a", "b", "g"}
  Programs <- SomePrograms
  Exprs <- SomeExprs
  Height <- SomeHeight
  DeclTypes = {"INT", "VOID"}
  MaxStmts = 3
INVARIANTS TypeOK AssertionsHold FunctionsAreDescribed ScopesFollowBlocks TypingAgrees
 
