CONSTANTS
  Calls = {a, b}
  NoCall = NoCall
  Certs = {s1, s2}
  MaxTime = 2
SPECIFICATION DownloadSpec
CHECK_DEADLOCK FALSE
INVARIANT NoDeadlock
