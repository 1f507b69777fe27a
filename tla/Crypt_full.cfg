\* The shortest modulus that keygen allows, as long as a block and smaller than
\* some of them; texts of up to two blocks, and anything of up to five bytes in
\* place of a cyphered text.  decrypt() returns in the end.
SPECIFICATION Spec
CONSTANTS
  Base = 4
  BlockSize = 2
  N = 10
  E = 3
  D = 3
  MsgBytes = {0, 3}
  MaxMsg = 3
  MaxWire = 5
CHECK_DEADLOCK FALSE
INVARIANTS
  RoundTripOfFullBlocks
  DamageInFirstBlock
  RefusedOrRight
  ReadsWithin
