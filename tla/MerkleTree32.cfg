\* Two writers, four leaves, two transactions of up to two updates, one fault.
\* The bound on transactions ends every behaviour, so the end is no deadlock.
SPECIFICATION Spec
CONSTANTS
  Writers = {w1, w2}
  Values = {a, b}
  Empty = Empty
  EmptyLeaf = EmptyLeaf
  Height = 2
  MaxBatch = 2
  MaxUpdates = 2
  MaxFaults = 1
CHECK_DEADLOCK FALSE
INVARIANTS
  TypeOK
  SerialRootIsRight
  RootHoldsLastUpdate
PROPERTIES
  EveryUpdateEnds
