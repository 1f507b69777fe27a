---------------------------- MODULE MailPostbox ----------------------------
(***************************************************************************)
(* The sessions and the database implement the postbox: forget the order   *)
(* of an inbox, how far its bodies were read, the accounts, and every step *)
(* of a command but the one that takes effect.                             *)
(***************************************************************************)
EXTENDS Mail

NameOf(uid) == (CHOOSE u \in users : u.id = uid).username

Heading(m) == [topic |-> m.topic, cyphered |-> m.cyphered]

Reader(s) == IF LoggedIn(s) THEN user[s].username ELSE NoUser

Posted(m) == [id |-> m.id, from |-> NameOf(m.orig_user_id),
              to |-> NameOf(m.dest_user_id), heading |-> Heading(m)]

Copy(entry, name) == [id |-> entry.id, from |-> entry.user_from,
                      to |-> name, heading |-> Heading(entry)]

View(box, name) == {Copy(box[i], name) : i \in DOMAIN box}

Live    == {Posted(m) : m \in messages}
Readers == [s \in Sessions |-> Reader(s)]
Views   == [s \in Sessions |-> View(inbox[s], Reader(s))]

P == INSTANCE Postbox WITH
       Names     <- Usernames,
       Headings  <- [topic : Blob, cyphered : BOOLEAN],
       NoReader  <- NoUser,
       given     <- sqlite_sequence["messages"],
       live      <- Live,
       reader    <- Readers,
       view      <- Views,
       disposing <- victim

\* Every behaviour of the sessions is one of the postbox: ids are never used
\* twice, copies are true, a listing has all there is, messages go only when
\* and where their addressee removes them, and nothing of one user is left
\* for the next one who logs in.
ImplementsPostbox == P!Spec
=============================================================================
