\* Two sessions of one user: one relinks a peer while the other asks its user
\* whether to take the association away.
SPECIFICATION Spec
CONSTANTS
  Sessions = {s1, s2}
  KeyNames = {work, home}
  Peers = {bob}
  Files = {}
  Nobody = Nobody
  Absent = Absent
  Empty = Empty
  MaxPairs = 2
  UnlinkMayFail = FALSE
SYMMETRY Interchangeable
PROPERTY
  UnlinkedAsNamed
