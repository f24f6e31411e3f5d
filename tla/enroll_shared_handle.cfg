CONSTANTS
  t1 = t1  t2 = t2  t3 = t3  h1 = h1  h2 = h2  h3 = h3  p1 = p1  p2 = p2
  Threads = {t1, t2, t3}
  Handles = {h1, h2}
  Procs = {p1, p2}
  HandleOf <- SharedAndOwn
  ProcOf <- HandlePerProcess
  ElevatedProcs = {p1, p2}
  MockAllowed = TRUE
  MaxBegins = 2
  MaxSecrets = 2
  MaxSeeds = 2
  MaxFaults = 1
SPECIFICATION Spec
SYMMETRY WorkerSymmetry
INVARIANTS
  TypeOK
  HandshakeNotStolen
  InFlightCanComplete
  TransientsOwned
  SessionsScoped
  AkLostOnlyByFault
PROPERTY ImplementsHandshake
