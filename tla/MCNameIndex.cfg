SPECIFICATION Spec
CONSTANTS
  Garbage = Garbage
  Invalid = Invalid
  Name = {"a", "b", "c"}
  Hashes <- FewHashes
  FirstCapacity = 2
  FirstSlots = 4
  FirstCells = 1
  MaxValues = 2
  MaxSaved = 1
INVARIANTS TypeOK IndexFindsNames
PROPERTY ImplementsBindings
