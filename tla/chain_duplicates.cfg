CONSTANTS
  main = main  worker = worker  cb1 = cb1  cb2 = cb2  NULL = NULL
  LogThreads = {main, worker}
  Callbacks = {cb1, cb2}
  LogLevels = {1, 3}
  MaxRegs = 0
  MaxLines = 0
  root = root  inter = inter  big = big
  Certs = {root, inter, big}
  CaCerts = {root, inter}
  CertSize <- MCCertSize
  NumIndices = 2
  kChunk = 2
  kMaxIntermediates = 2
  Width = 8
  MaxStore = 0
  MaxNvFaults = 0
  oem = oem  ms = ms  ca = ca  custom = custom
  Subjects = {oem, ms, ca, custom}
  OemCerts = {oem, ms}
  MicrosoftCerts = {ms}
  UefiCaCerts = {ca}
  LogEvents <- MCEvents
  MaxEvents = 0
  rsaCert = rsaCert  eccCert = eccCert
  EkCerts = {rsaCert, eccCert}
  Junk = Junk
  Parts = 2
  MaxBlobs = 0
  MaxIdFaults = 0
SPECIFICATION LocalSpec
INVARIANT ChainDeduplicated
CHECK_DEADLOCK FALSE
