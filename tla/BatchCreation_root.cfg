\* A batch left without a root, no faults.
CONSTANTS
  TxIds = {1, 2}
  Amount <- MCAmount
  Requests = {r1}
  Bg = {b1}
  RequestSizes = {1}
  MaxBatchSize = 1
  PendingLimit = 3
  MaxFaults = 0
SPECIFICATION Spec
INVARIANT
  EveryBatchHasItsRoot
