SPECIFICATION ContainersSpec
CONSTANTS
  Key = {1, 2, 3, 4, 5, 6, 7, 8, 9, 10}
  nil = nil
  NULL = NULL
  k0 = k0
  k12 = k12
  k3 = k3
  k5 = k5
  NoEntry = NoEntry
  Data = {k0, k12, k3, k5}
  HT_PRIME <- Primes
  Hash <- HashOf
  EstSize = {0, 3}
  MaxLF = 1
  Name = {1, 2, 3}
  RefCount = {1, 2}
  MaxLen = 6
  ARRAY_CAP_MIN = 2
CONSTRAINT ShallowOrDeep
INVARIANTS
  RulesHold
  NodesAccounted
  IteratorDepth
  ChainsHold
  MergedExactly
PROPERTIES
  ImplementsKeySet
  ImplementsSet
  EveryCallReturns
