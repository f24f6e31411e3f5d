CONSTANTS
  t1 = t1  t2 = t2  t3 = t3  h1 = h1  h2 = h2  h3 = h3  p1 = p1  p2 = p2
  Threads = {t1, t2}
  Handles = {h1, h2}
  Procs = {p1}
  HandleOf <- HandlePerWorker
  ProcOf <- HandlesOfProcess
  ElevatedProcs = {p1}
  MockAllowed = FALSE
  MaxBegins = 2
  MaxSecrets = 1
  MaxSeeds = 1
  MaxFaults = 0
SPECIFICATION Spec
INVARIANT HandshakeNotStolen
