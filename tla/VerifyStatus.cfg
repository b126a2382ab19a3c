CONSTANTS
  NoKeyId = "none"
  NoTS = NoTS
  NoCert = NoCert
  Certificates <- MCCertificates
  Requests <- MCRequests
  Stores <- MCStores
  Later <- MCLater
  Reverified = {"root"}
  DamagedCrls = {}
  Now = 3
  MaxCalls = 2
SPECIFICATION Spec
CHECK_DEADLOCK FALSE
INVARIANTS  SourcesTried  ChainVerified
