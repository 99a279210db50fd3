\* One caller that makes three calls, no fault.
SPECIFICATION Spec
CONSTANTS
  Values = {1, 2, 3}
  Compliant = {1, 3}
  Lists <- MCLists
  BatchLimit = 2
  CacheLimit = 2
  Callers = {c1}
  MaxCalls = 3
  MaxFaults = 0
CHECK_DEADLOCK FALSE
INVARIANT
  CommitmentCountsNullifiers
