\* One session, one key pair that an addressee has given out: the mark of a
\* message against what became of its text.
SPECIFICATION Spec
CONSTANTS
  Sessions = {s1}
  Usernames = {alice, bob}
  Passwords = {pw}
  Texts = {hello}
  NoText = NoText
  Keys = {k1}
  NoKey = NoKey
  NoUser = NoUser
  MaxUsers = 2
  MaxMessages = 1
SYMMETRY Interchangeable
INVARIANT
  MarkedIsCyphered
