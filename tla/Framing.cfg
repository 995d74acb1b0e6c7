\* Two frames of every content, for the receivers of lab5, lab6 and lab7.
SPECIFICATION FairSpec
CONSTANTS
  Labs = {5, 6, 7}
  Writers = {w1}
  FrameNum = 2
  HeaderLen = 2
  DataLen = 1
INVARIANTS CleanIntact
PROPERTIES AllReceived
CHECK_DEADLOCK FALSE
