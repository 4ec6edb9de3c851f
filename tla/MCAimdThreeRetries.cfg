SPECIFICATION Spec
CONSTANTS
  Contents <- AllContents
  MaxLastSegment = 2
  MaxSegmentNo = 2
  MaxCwnd = 2
  InitCwnd = 1
  InitSsthresh = 9
  Windows <- AimdWindows
  InitWindows <- AimdInitWindows
  Cwnd <- AimdCwnd
  Increased <- AimdIncreased
  Decreased <- AimdDecreased
  IgnoresUnknown = FALSE
  DisableCwa = FALSE
  ResetCwndToInit = FALSE
  MaxRetries = 3
  Events = {"Rto"}
INVARIANTS
  DoneMeansComplete
CHECK_DEADLOCK FALSE
