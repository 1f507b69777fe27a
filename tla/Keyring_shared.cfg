\* Two sessions of one user at the same directory, and links that cannot be
\* removed.
SPECIFICATION Spec
CONSTANTS
  Sessions = {s1, s2}
  KeyNames = {work, home}
  Peers = {bob}
  Files = {bobsKey, oldKey}
  Nobody = Nobody
  Absent = Absent
  Empty = Empty
  MaxPairs = 2
  UnlinkMayFail = TRUE
SYMMETRY Interchangeable
INVARIANTS
  TypeOK
PROPERTIES
  ImportsStay
