CONSTANTS
  p1 = p1
  p2 = p2
  t1 = t1
  t2 = t2
  c1 = c1
  c2 = c2
  c3 = c3
  PageUnits = 5
  SLOB_UNIT = 2
  Pages <- TwoPages
  Threads <- TwoThreads
  BestFit = FALSE
  KmallocSizes <- FewSizes
  KmallocAlign = 2
  Caches <- MCCaches
  ObjectSize <- MCObjectSize
  CacheAlign <- MCCacheAlign
  RcuCaches <- MCRcuCaches
  RcuSize = 2
  SLOB_BREAK1 = 6
  SLOB_BREAK2 = 7
SPECIFICATION Spec
INVARIANTS FreeListExact PagesInPlace NoBug
PROPERTIES ImplementsArena NoNeedlessGrowth
SYMMETRY Symmetric
