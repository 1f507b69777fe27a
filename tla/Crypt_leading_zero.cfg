\* A modulus longer than a block, with keys and vectors that begin with a zero byte.
SPECIFICATION Spec
CONSTANTS
  Base = 4
  BlockSize = 2
  N = 33
  E = 3
  D = 7
  MsgBytes = {0, 3}
  MaxMsg = 3
  MaxWire = 5
CHECK_DEADLOCK FALSE
INVARIANT
  RoundTrip
