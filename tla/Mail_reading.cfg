\* Two sessions, both possibly of the same user, and two messages with one
\* text in the clear: syncing, reading and removing race.
SPECIFICATION Spec
CONSTANTS
  Sessions = {s1, s2}
  Usernames = {alice, bob}
  Passwords = {pw}
  Texts = {hello}
  NoText = NoText
  Keys = {}
  NoKey = NoKey
  NoUser = NoUser
  MaxUsers = 2
  MaxMessages = 2
SYMMETRY Interchangeable
INVARIANTS
  TypeOK
  OneRowPerUser
  InboxFaithful
  InboxNoDuplicates
  InboxWithinListing
PROPERTIES
  ListingComplete
  ImplementsPostbox
