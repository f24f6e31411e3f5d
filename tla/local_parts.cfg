CONSTANTS
  main = main  worker = worker  cb1 = cb1  cb2 = cb2  NULL = NULL
  LogThreads = {main, worker}
  Callbacks = {cb1, cb2}
  LogLevels = {1, 3}
  MaxRegs = 3
  MaxLines = 2
  root = root  inter = inter  big = big
  Certs = {root, inter, big}
  CaCerts = {root, inter}
  CertSize <- MCCertSize
  NumIndices = 3
  kChunk = 2
  kMaxIntermediates = 2
  Width = 8
  MaxStore = 2
  MaxNvFaults = 1
  oem = oem  ms = ms  ca = ca  custom = custom
  Subjects = {oem, ms, ca, custom}
  OemCerts = {oem, ms}
  MicrosoftCerts = {ms}
  UefiCaCerts = {ca}
  LogEvents <- MCEvents
  MaxEvents = 4
  rsaCert = rsaCert  eccCert = eccCert
  EkCerts = {rsaCert, eccCert}
  Junk = Junk
  Parts = 2
  MaxBlobs = 2
  MaxIdFaults = 1
SPECIFICATION LocalSpec
INVARIANTS LogTypeOK LinesMatchedUnlessRegistering
  CertTypeOK ChainWhole ChainComplete MergeAddsNoDuplicate
  BootTypeOK AnalysisMatchesLog ChainGrounded PostureAgrees
  IdentityTypeOK EkCertSent OneLocalId IdKnownIfInStore
PROPERTY GatheringEnds
CHECK_DEADLOCK FALSE
