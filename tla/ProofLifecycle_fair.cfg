\* One batch, one task at a time, one fault, under fairness.
CONSTANTS
  Batches = {1}
  Amounts <- MCAmounts
  Word = 4
  CacheReady = TRUE
  Slots = {s1}
  SubmitLimit = 1
  CheckLimit = 1
  PostLimit = 1
  MaxJobs = 5
  MaxDisturbances = 1
  PutStatuses = {}
SPECIFICATION FairSpec
PROPERTIES
  EventuallySettled
  ProvenIsPosted
