CONSTANTS
  Threads = {a, b, c, d}
  NoThread = NoThread
SPECIFICATION FairSpec
INVARIANTS SerialAlone CounterExact
PROPERTIES GateHolds SerialProgress ImplementsGate
