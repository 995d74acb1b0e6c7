\* Two connections accepted one after the other, as the applications do,
\* under fairness, with nothing assumed of losses.
SPECIFICATION FairSpec
CONSTANTS
  NConn = 2
  MaxRetry = 2
  MaxConnects = 1
  ParallelAccept = FALSE
  NetCap = 2
PROPERTIES AcceptedMeansConnected CallsReturn ConnectedIsAccepted
CHECK_DEADLOCK FALSE
