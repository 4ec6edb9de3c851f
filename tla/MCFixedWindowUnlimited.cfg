SPECIFICATION ReliableSpec
CONSTANTS
  MaxNackRetries <- MAX_RETRIES_INFINITE
  MaxTimeoutRetries <- MAX_RETRIES_INFINITE
  MaxBackoffExp = 14
  MaxPipelineSize = 2
  MaxLastSegment = 2
  Contents <- AllContents
PROPERTIES
  TerminationUnlimited
CHECK_DEADLOCK FALSE
