SPECIFICATION Spec
CONSTANTS
  Contents <- EndKnown
  MaxLastSegment = 3
  MaxSegmentNo = 3
  MaxCwnd = 3
  InitCwnd = 2
  InitSsthresh = 9
  Windows <- AimdWindows
  InitWindows <- AimdInitWindows
  Cwnd <- AimdCwnd
  Increased <- AimdIncreased
  Decreased <- AimdDecreased
  IgnoresUnknown = FALSE
  DisableCwa = FALSE
  ResetCwndToInit = TRUE
  MaxRetries = 2
  Events = {"Rto", "Lifetime", "Congestion", "Duplicate", "Other"}
INVARIANTS
  NothingForgotten
PROPERTIES
  Termination
CHECK_DEADLOCK FALSE
