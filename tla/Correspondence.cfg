\* One session, which may be killed and started again at any point, and the
\* letters of two peers.  Every call may fail but the removal of a link.
SPECIFICATION LetterSpec
CONSTANTS
  Sessions = {s1}
  KeyNames = {work, home}
  Peers = {bob, carol}
  Files = {}
  Nobody = Nobody
  Absent = Absent
  Empty = Empty
  MaxPairs = 3
  MaxPost = 1
  UnlinkMayFail = FALSE
SYMMETRY Interchangeable
INVARIANTS
  NoDanglingAssoc
  PairsMatch
  LettersNotOrphaned
  LetterInv
PROPERTIES
  KeyNeverReplaced
  ReadableUntilUnlinked
  UnlinkedAsNamed
  LettersStayReadable
  ImplementsKeychain
