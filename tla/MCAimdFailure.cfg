SPECIFICATION Spec
CONSTANTS
  Contents <- AllContents
  MaxLastSegment = 2
  MaxSegmentNo = 3
  MaxCwnd = 2
  InitCwnd = 2
  InitSsthresh = 9
  Windows <- AimdWindows
  InitWindows <- AimdInitWindows
  Cwnd <- AimdCwnd
  Increased <- AimdIncreased
  Decreased <- AimdDecreased
  IgnoresUnknown = FALSE
  DisableCwa = FALSE
  ResetCwndToInit = FALSE
  MaxRetries = 0
  Events = {"Rto", "Other"}
PROPERTIES
  FailureIsReported
CHECK_DEADLOCK FALSE
