CONSTANTS
  rsaCert = rsaCert  eccCert = eccCert
  EkCerts = {rsaCert, eccCert}
  Junk = Junk
  Parts = 2
  MaxBlobs = 1
  MaxIdFaults = 0
SPECIFICATION IdentitySpec
INVARIANT IdKnownToServer
