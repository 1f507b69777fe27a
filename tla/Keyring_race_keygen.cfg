\* Two sessions of one user generate a key under one name.
SPECIFICATION Spec
CONSTANTS
  Sessions = {s1, s2}
  KeyNames = {work, home}
  Peers = {bob}
  Files = {bobsKey}
  Nobody = Nobody
  Absent = Absent
  Empty = Empty
  MaxPairs = 2
  UnlinkMayFail = FALSE
SYMMETRY Interchangeable
PROPERTIES
  KeyNeverReplaced
