CONSTANTS
  Certs <- SomeCerts
  NoKeyId = "none"
  TrustedLists <- SomeTrusted
  Batches <- SomeBatches
  MaxItems = 3
SPECIFICATION Spec
INVARIANTS StoreConsistent KeyIdFindsNewest 
PROPERTIES SavedIsLoaded TemporaryOnly LoadNormalises
