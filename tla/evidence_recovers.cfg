CONSTANTS
  t1 = t1  t2 = t2  h1 = h1  h2 = h2  p1 = p1  p2 = p2
  c1 = c1  n1 = n1  noNonce = noNonce
  Threads = {t1, t2}
  Handles = {h1}
  Procs = {p1}
  HandleOf <- SharedHandle
  ProcOf <- OneProcess
  ElevatedProcs = {p1}
  MockAllowed = FALSE
  MaxBegins = 2
  MaxSecrets = 1
  MaxSeeds = 1
  MaxFaults = 0
  Collectors = {c1}
  Nonces = {n1}
  EmptyNonce = noNonce
  NumPcrs = 1
  MaxMeasurements = 0
SPECIFICATION RecoverySpec
PROPERTIES
  NotEnrolledRecovers
  HandshakeConverges
