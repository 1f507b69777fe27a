\* Inboxes and query results over four messages, each in every order.  The
\* loop stops when no record is left.
SPECIFICATION Spec
CONSTANTS
  MaxId = 4
  Old = Old
  New = New
  Usernames = {}
  Passwords = {}
  Texts = {}
  NoText = NoText
  Keys = {}
  NoKey = NoKey
CHECK_DEADLOCK FALSE
INVARIANTS
  SyncsIsTheLoop
  SummaryIsTrue
