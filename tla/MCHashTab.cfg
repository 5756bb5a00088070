SPECIFICATION Spec
CONSTANTS
  Key = {"a", "b", "c"}
  Value = {"v", "w"}
  Null = Null
  Hashes <- AllHashes
  Sizes = {1, 2, 3}
  SizeMax = 12
INVARIANTS TypeOK ChainsUnbroken CountsEntries
PROPERTY ImplementsMap
