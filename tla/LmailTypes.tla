----------------------------- MODULE LmailTypes -----------------------------
(***************************************************************************)
(* The data that the parts of lmail pass to one another: what a user types *)
(* and the rows and records made from it.  A text is a model value; all    *)
(* that is kept of its encoding is whether it is cyphered, and for which   *)
(* key pair.                                                               *)
(***************************************************************************)
EXTENDS Naturals

CONSTANTS
  Usernames,   \* the names users register under
  Passwords,   \* the passwords they type
  Texts,       \* the non-empty topics and bodies they type
  NoText,      \* the empty string
  Keys,        \* RSA key pairs
  NoKey        \* the "key" of a text that is not cyphered

ASSUME TypesAssumption == NoText \notin Texts /\ NoKey \notin Keys

\* The password column holds a digest of the salted password; the digest
\* function is taken to be free of collisions.
Salted(password) == [typed |-> password, salt |-> "kSalt"]
Digest(password) == [sha3_256 |-> Salted(password)]
Digests == {Digest(password) : password \in Passwords}

\* A topic or a body: the text, and the key it is cyphered for.
Blob  == [text : Texts, key : Keys \cup {NoKey}]
Plain(text) == [text |-> text, key |-> NoKey]

\* encrypt(): a text becomes readable with the private half of `key' only.
Encrypt(blob, key) == [blob EXCEPT !.key = key]

\* The rows of the two tables.  AUTOINCREMENT starts at 1.
RowId   == Nat \ {0}
User    == [id : RowId, username : Usernames, password : Digests]
Message == [id : RowId, orig_user_id : RowId, dest_user_id : RowId,
            topic : Blob, body : Blob, cyphered : BOOLEAN]

\* One entry of a session's inbox.  Its body stays empty until the message
\* is read.
NoBody == Plain(NoText)
InboxMessage == [id : RowId, topic : Blob, body : Blob \cup {NoBody},
                 cyphered : BOOLEAN, user_from : Usernames]
=============================================================================
