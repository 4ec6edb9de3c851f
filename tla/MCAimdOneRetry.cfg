SPECIFICATION Spec
CONSTANTS
  Contents <- AllContents
  MaxLastSegment = 3
  MaxSegmentNo = 4
  MaxCwnd = 3
  InitCwnd = 3
  InitSsthresh = 9
  Windows <- AimdWindows
  InitWindows <- AimdInitWindows
  Cwnd <- AimdCwnd
  Increased <- AimdIncreased
  Decreased <- AimdDecreased
  IgnoresUnknown = FALSE
  DisableCwa = FALSE
  ResetCwndToInit = FALSE
  MaxRetries = 1
  Events = {"Rto", "Lifetime", "Congestion", "Duplicate", "Other"}
INVARIANTS
  TypeOK
  RetxQueueCovers
  RecordedOrResent
  ReceivedOnce
PROPERTIES
  WindowRespected
  ContractSpec
CHECK_DEADLOCK FALSE
