\* Three nullifiers, two calls in flight and three in all, one fault.
\* When the calls are made the services have nothing to do.
SPECIFICATION Spec
CONSTANTS
  Values = {1, 2, 3}
  Compliant = {1, 3}
  Lists <- MCLists
  BatchLimit = 2
  CacheLimit = 1
  Callers = {c1, c2}
  MaxCalls = 3
  MaxFaults = 1
CHECK_DEADLOCK FALSE
INVARIANTS
  TypeOK
  InsertionsAreAudited
  TrailsAreComplete
  BatchIsContiguous
  SettlementCoversInsertion
