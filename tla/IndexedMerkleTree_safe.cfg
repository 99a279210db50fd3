\* Three nullifiers, two callers that bypass the lock of the service, one
\* abandoned insertion, a tree of sixteen leaves.
SPECIFICATION Spec
CONSTANTS
  MaxValue = 3
  Values = {1, 2, 3}
  Height = 4
  Callers = {c1, c2}
  MaxFaults = 1
SYMMETRY CallersAlike
INVARIANTS
  TypeOK
  ChainLeadsUp
  LowIsPredecessor
  IndexesAreUnique
  TransitionVerifies
  MembersHaveProofs
