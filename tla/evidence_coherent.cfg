CONSTANTS
  t1 = t1  t2 = t2  h1 = h1  h2 = h2  p1 = p1  p2 = p2
  c1 = c1  n1 = n1  noNonce = noNonce
  Threads = {t1}
  Handles = {h1}
  Procs = {p1}
  HandleOf <- OneThread
  ProcOf <- OneProcess
  ElevatedProcs = {p1}
  MockAllowed = FALSE
  MaxBegins = 2
  MaxSecrets = 1
  MaxSeeds = 2
  MaxFaults = 1
  Collectors = {c1}
  Nonces = {n1}
  EmptyNonce = noNonce
  NumPcrs = 2
  MaxMeasurements = 1
SPECIFICATION EvidenceSpec
INVARIANTS
  EvidenceTypeOK
  EvidenceCoherent
  RefusedOnlyDuringSwap
