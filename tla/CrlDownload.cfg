CONSTANTS
  Calls = {a, b, c}
  NoCall = NoCall
  Certs = {s1, s2}
  MaxTime = 2
SPECIFICATION DownloadSpec
CHECK_DEADLOCK FALSE
INVARIANTS CrlsConsistent NeverOlder
PROPERTIES FirstDownloadReturns
