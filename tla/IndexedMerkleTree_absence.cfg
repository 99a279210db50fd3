\* Two nullifiers, no faults.
SPECIFICATION Spec
CONSTANTS
  MaxValue = 4
  Values = {1, 2}
  Height = 2
  Callers = {}
  MaxFaults = 0
INVARIANT NoMemberIsProvedAbsent
