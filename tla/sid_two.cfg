CONSTANTS
  s1 = s1
  s2 = s2
  i1 = i1
  i2 = i2
  d1 = d1
  d2 = d2
  n1 = n1
  n2 = n2
  n3 = n3
  n4 = n4
  Null = Null
  Astray = Astray
  NULL = Null
  Wild = Astray
  Searchers <- TwoSearchers
  Inserters <- TwoInserters
  Deleters <- TwoDeleters
  Nodes <- FourNodes
  Values <- TwoValues
  Garbage <- Uncleared
SPECIFICATION Spec
INVARIANTS Exclusion NoDanglingPointer ListWhole SearchMissesNothing
PROPERTY LeaksOnlyWithHead
SYMMETRY Symmetric
