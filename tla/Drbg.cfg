SPECIFICATION Spec
CONSTANTS
  Threads = {t1, t2}
  NoThread = NoThread
  Overlapping = {}
  NULL = NULL
  ReseedInterval = 1
  MaxBlocks = 2
  MaxEntropy = 3
  MaxAge = 3
INVARIANTS SecretInUse BuffersApart
PROPERTY ImplementsSource
