\* The second call appends beside a timer and an ack.
SPECIFICATION Spec
CONSTANTS
  LastOf <- TwoCalls
  GbnWindow = 2
  UIntMod = 8
  AckCap = 2
INVARIANTS ListIntact
