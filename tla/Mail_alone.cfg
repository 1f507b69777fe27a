\* One session that all users take turns at, and three messages: long listings
\* and the order of their entries.
SPECIFICATION Spec
CONSTANTS
  Sessions = {s1}
  Usernames = {alice, bob}
  Passwords = {pw}
  Texts = {hello}
  NoText = NoText
  Keys = {k1}
  NoKey = NoKey
  NoUser = NoUser
  MaxUsers = 2
  MaxMessages = 3
SYMMETRY Interchangeable
INVARIANTS
  UnmarkedIsPlain
  MailInv
