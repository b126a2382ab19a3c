CONSTANTS
  Threads = {a, b}
  NoThread = NoThread
SPECIFICATION Spec
INVARIANT Exclusion
