SPECIFICATION FairSpec
CONSTANTS
  mss = 2
  maxcwnd = 8
  initial_cwnd = 4
  Width = 64
  ObjectSizes = {0, 3, 9}
  MaxAdds = 2
  MaxCloses = 1
  MaxLosses = 2
  MaxInFlight = 3
   
PROPERTIES NoDataDiscarded Completes
CHECK_DEADLOCK FALSE
