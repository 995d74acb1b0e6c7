\* Safety, liveness and the byte stream, with every loss, late SYN and
\* duplicate ack.
SPECIFICATION FairSpec
CONSTANTS
  ISN = 0
  Length = 7
  MaxSegLen = 2
  GbnWindow = 3
  RecvLen = 3
  CopyOrders <- Up
  DupSyn = 2
  NetCap = 5
INVARIANTS TypeOK WindowInv FreedOnlyAccepted InOrder IInv
PROPERTIES ExpectNeverDecreases SendCompletes ImplementsStream
