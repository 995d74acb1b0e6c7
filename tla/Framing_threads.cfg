\* Two neighbours' threads forward to the SIP process at once.
SPECIFICATION Spec
CONSTANTS
  Labs = {7}
  Writers = {w1, w2}
  FrameNum = 1
  HeaderLen = 0
  DataLen = 1
INVARIANTS FramesIntact
CHECK_DEADLOCK FALSE
