\* Three calls: the later appends race with old timers and acks.
SPECIFICATION Spec
CONSTANTS
  LastOf <- ThreeCalls
  GbnWindow = 2
  UIntMod = 8
  AckCap = 3
INVARIANTS TimerAssertion FreedOnlyAccepted FirstCallExact
PROPERTIES ReturnMeansAccepted
