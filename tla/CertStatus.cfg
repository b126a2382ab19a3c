CONSTANTS
  NoKeyId = "none"
  NoAnswer = NoAnswer
  Stores = {}
  Callers = {"signer"}
  Types = {"NONE", "CHAIN", "OCSP", "CRL"}
  Scenarios <- MCScenarios
  AskedFor = {"signer"}
  CrlSigners <- MCCrlSigners
  Revocations <- MCRevocations
  Offset = 1
  Period = 1
  MaxTime = 2
SPECIFICATION StatusSpec
CHECK_DEADLOCK FALSE
INVARIANTS NeverStale AnswersVerified ObtainedLinked
PROPERTIES MissingIsExpected
