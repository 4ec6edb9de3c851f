SPECIFICATION SystemSpec
CONSTANTS
  MaxLastSegment = 2
  AtMostOnce = TRUE
  Versions <- MCVersions
  Inputs <- MCInputs
  MaxSegmentSize = 2
  foo = foo
  StraySegments = {foo}
  StrayData <- MCStrayData
  MaxRetries = 2
  MaxRetriesAfterVersionFound = 1
  MaxBackoffExp = 1
INVARIANTS
  WrittenInOrder
  NoneLostNorWithheld
  SuccessMeansWritten
  RoundTrip
  LargestReported
  NotifiedOnce
PROPERTIES
  Termination
  StillAConsumer
CHECK_DEADLOCK FALSE
