SPECIFICATION Spec
CONSTANTS
  Contents <- SeveralSegments
  MaxLastSegment = 1
  MaxSegmentNo = 2
  DisableCwa = TRUE
  MaxRetries = 2
  Events = {"Rto", "Lifetime", "Congestion", "Duplicate", "Other"}
  CubicMaxCwnd = 3
  CubicInitCwnds = {1, 2}
  BicMaxCwnd = 3
  BicInitCwnds = {}
  InitSsthresh = 9
  LOW_WINDOW = 3
  Garbage = {0, 2}
PROPERTIES
  Termination
CHECK_DEADLOCK FALSE
