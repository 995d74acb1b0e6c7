\* Three nodes in a chain, SIP processes on two of them, one signal.
SPECIFICATION FairSpec
CONSTANTS
  Topology <- Chain
  StartInTime = TRUE
  SipNodes = {1, 3}
  MaxSessions = 2
  MaxUpdates = 2
  MaxStops = 1
INVARIANTS AcceptAssertion UpHasLinks NoGap
PROPERTIES AllComeUp UpdatesArrive LinkedSonStops
CHECK_DEADLOCK FALSE
