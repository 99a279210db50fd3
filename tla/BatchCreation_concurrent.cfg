\* One API request and the background processor over two transactions, with one
\* failed statement or one crash, after which a call of the dead process may run
\* beside the new one, under fairness.
CONSTANTS
  TxIds = {1, 2}
  Amount <- MCAmount
  Requests = {r1}
  Bg = {b1, b2}
  RequestSizes = {0, 1}
  MaxBatchSize = 2
  PendingLimit = 3
  MaxFaults = 1
SPECIFICATION FairSpec
INVARIANTS
  TypeOK
  LinksMatchBatches
  EveryBatchHasAnOrigin
  
PROPERTIES
  ClaimsAreForever
  EventuallyBatched
  ImplementsLedger
