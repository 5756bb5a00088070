\* Operators, connectives, calls and globals over variables of one type each.
SPECIFICATION Spec
CONSTANTS
  Name <- TypesName
  Tmp = "tmp"
  DeclTypes <- TypesTypes
  Headers <- TypesHeaders
  Callees <- TypesCallees
  Globals <- GlobalBool
  Syntax <- AllSyntax
  Literals <- BothBools
  MaxStmts = 2
  MaxExprs = 2
INVARIANTS
  TypeOK
  VersionsUnique
  
  BindingTypesMatch
  CodeIsTyped
CHECK_DEADLOCK FALSE
