SPECIFICATION Spec
CONSTANTS
  MaxNackRetries = 1
  MaxTimeoutRetries = 1
  MaxBackoffExp = 14
  MaxPipelineSize = 3
  MaxLastSegment = 4
  Contents <- PlainContents
INVARIANTS
  TypeOK
  FetchedOnce
  NoneSkipped
PROPERTIES
  Termination
  ContractSpec
CHECK_DEADLOCK FALSE
