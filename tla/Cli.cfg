\* One process.  It ends in the end, and then there is nothing more to do.
SPECIFICATION Spec
CHECK_DEADLOCK FALSE
INVARIANTS
  TypeOK
  AgreeAtPrompt
  NoEventDropped
  EchoUnlessHidden
PROPERTIES
  EndsWithInput
  QuitEnds
  ImplementsSession
