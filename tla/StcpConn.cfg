\* Two connections, each accepted by a thread of its own, a second connect
\* after a failure, and a segment under way in each direction.
SPECIFICATION Spec
CONSTANTS
  NConn = 2
  MaxRetry = 2
  MaxConnects = 2
  ParallelAccept = TRUE
  NetCap = 1
INVARIANTS TypeOK ConnectAgrees DisconnectAgrees ClockSafe SemCount
  StaleOnlyAfterLastTry
PROPERTIES AbortCause
CHECK_DEADLOCK FALSE
