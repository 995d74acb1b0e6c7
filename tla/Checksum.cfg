\* Bytes of two bits, words of four, segments of up to six bytes of data.
SPECIFICATION SegSpec
CONSTANTS
  Bits = 2
  MaxSegLen = 6
  Bytes = {0, 1, 3}
INVARIANTS WholeIsAccepted OnlyLengthSlips
CHECK_DEADLOCK FALSE
