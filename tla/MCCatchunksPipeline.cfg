SPECIFICATION SystemSpec
CONSTANTS
  MaxLastSegment = 2
  AtMostOnce = TRUE
  Versions <- MCVersions
  Inputs <- MCInputs
  MaxSegmentSize = 2
  foo = foo
  StraySegments = {foo}
  StrayData <- MCStrayData
  MaxRetries = 2
  MaxRetriesAfterVersionFound = 1
  MaxBackoffExp = 1
INVARIANT
  PipelineNotNull
CHECK_DEADLOCK FALSE
