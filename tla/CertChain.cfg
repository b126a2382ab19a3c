CONSTANTS
  NoKeyId = "none"
  Stores <- Hierarchies
SPECIFICATION Spec
CHECK_DEADLOCK FALSE
 
PROPERTIES ChainEnds
