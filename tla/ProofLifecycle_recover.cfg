\* One batch, no faults, a database without the tables of the cache.
CONSTANTS
  Batches = {1}
  Amounts <- MCAmounts
  Word = 4
  CacheReady = FALSE
  Slots = {s1}
  SubmitLimit = 1
  CheckLimit = 1
  PostLimit = 1
  MaxJobs = 6
  MaxDisturbances = 0
  PutStatuses = {}
SPECIFICATION FairSpec
PROPERTIES
  StaysProvenIsPosted
