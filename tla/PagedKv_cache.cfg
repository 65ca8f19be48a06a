CONSTANTS
  a = a
  b = b
  Blank = Blank
  Tokens <- MCTokens
  Inputs <- MCInputs
  HotCapacity = 2
  PageIds <- ThreePages
  p1 = p1
  p2 = p2
  p3 = p3
  MaxSeqs = 2
  Configs <- AllConfigs
SPECIFICATION Spec
SYMMETRY Symmetry
CHECK_DEADLOCK FALSE
INVARIANTS
  RefsExact
  FreeListsExact
PROPERTY ImplementsKvSequences
