SPECIFICATION FairSpec
CONSTANTS
  mss = 2
  maxcwnd = 8
  initial_cwnd = 4
  Width = 64
  ObjectSizes = {9}
  MaxAdds = 2
  MaxCloses = 1
  MaxLosses = 0
  MaxInFlight = 5
PROPERTY DriverContinues
CHECK_DEADLOCK FALSE
