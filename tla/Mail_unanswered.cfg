\* One session whose input may end at the question "Send the message? (y/n)".
SPECIFICATION Spec
CONSTANTS
  Sessions = {s1}
  Usernames = {alice, bob}
  Passwords = {pw}
  Texts = {hello}
  NoText = NoText
  Keys = {}
  NoKey = NoKey
  NoUser = NoUser
  MaxUsers = 2
  MaxMessages = 1
SYMMETRY Interchangeable
PROPERTY
  SentOnYes
