\* Two accounts, states (one of them zero) and roots, three proofs, batches of two; no call after three events.
SPECIFICATION Spec
CONSTANTS
  deployer = deployer
  poster = poster
  s1 = s1
  r1 = r1
  r2 = r2
  p1 = p1
  p2 = p2
  p3 = p3
  k1 = k1
  k2 = k2
  k3 = k3
  v = v
  w = w
  Accounts = {deployer, poster}
  Deployer = deployer
  StateIds = {s1, None}
  Roots = {r1, r2}
  Proofs = {p1, p2, p3}
  Results = {v, w}
  ProofIds = {k1, k2, k3}
  Keccak <- MCKeccak
  Accepted <- MCAccepted
  None = None
  MaxBatch = 2
  MaxCalls = 3
SYMMETRY Symmetric
INVARIANTS
  TypeOK
  EnumerationIsExact
  HistoryMatchesProofs
PROPERTIES
  RecordsAreForever
