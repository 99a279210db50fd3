\* Two batches, two tasks at a time, two jobs, one fault or one proof set by hand.
CONSTANTS
  Batches = {1, 2}
  Amounts <- MCAmounts
  Word = 4
  CacheReady = TRUE
  Slots = {s1, s2}
  SubmitLimit = 1
  CheckLimit = 1
  PostLimit = 1
  MaxJobs = 2
  MaxDisturbances = 1
  PutStatuses = {"proven"}
SYMMETRY SlotSymmetry
CONSTRAINT OneTaskAfterDisturbance
SPECIFICATION Spec
INVARIANTS
  TypeOK
  RowsTellTheTruth
  PostedRootsAreProven
  PostedTracksContract
  RootsBelongTogether
PROPERTIES
  VerdictsAreFinal
