SPECIFICATION Spec
CONSTANTS
  Contents <- SeveralSegments
  MaxLastSegment = 2
  MaxSegmentNo = 3
  DisableCwa = FALSE
  MaxRetries = 2
  Events = {"Rto", "Lifetime", "Congestion", "Duplicate", "Other"}
  CubicMaxCwnd = 3
  CubicInitCwnds = {1, 2}
  BicMaxCwnd = 3
  BicInitCwnds = {2}
  InitSsthresh = 9
  LOW_WINDOW = 3
  Garbage = {0, 2}
INVARIANTS
  WindowStaysOpen
  ReceivedOnce
PROPERTIES
  Termination
CHECK_DEADLOCK FALSE
