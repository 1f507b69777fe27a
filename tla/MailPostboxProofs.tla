-------------------------- MODULE MailPostboxProofs --------------------------
(***************************************************************************)
(* The sessions and the database implement the postbox, for any number of  *)
(* sessions, users and messages.  Each action is given the step of the     *)
(* postbox it makes, or is shown to make none; MailInv says in which       *)
(* states the actions are taken.                                           *)
(***************************************************************************)
EXTENDS MailPostbox, MailProofs

-----------------------------------------------------------------------------
(* What the mapping shows of a state *)

\* The name that goes with the id of a stored user is that user's name.
LEMMA NameOfUser ==
  ASSUME OneRowPerUser, NEW u \in users
  PROVE  NameOf(u.id) = u.username
<1>1. \A v \in users : v.id = u.id => v = u
  BY DEF OneRowPerUser
<1> QED BY <1>1 DEF NameOf

\* A session has a reader when it is logged in, who is a stored user.
LEMMA ReaderKnown ==
  ASSUME MailInv, NEW s \in Sessions
  PROVE  /\ LoggedIn(s) <=> Reader(s) # NoUser
         /\ LoggedIn(s) => /\ user[s] \in users
                           /\ Reader(s) = user[s].username
                           /\ Reader(s) \in Usernames
                           /\ Reader(s) = NameOf(user[s].id)
<1>1. CASE LoggedIn(s)
  <2>1. user[s] \in users
    BY <1>1 DEF MailInv, InboxInv, InboxFaithful
  <2>2. user[s].username \in Usernames
    BY <2>1 DEF MailInv, TypeInv, TypeOK, StorageTypeOK, User
  <2>3. NameOf(user[s].id) = user[s].username
    BY <2>1, NameOfUser DEF MailInv, StorageInv
  <2> QED BY <1>1, <2>1, <2>2, <2>3, MailAssumption DEF Reader
<1>2. CASE ~LoggedIn(s)
  BY <1>2 DEF Reader
<1> QED BY <1>1, <1>2

\* A message is addressed to the reader of a session if it is the user's own.
LEMMA AddressedToReader ==
  ASSUME MailInv, NEW s \in Sessions, LoggedIn(s), NEW m \in messages
  PROVE  Posted(m).to = Reader(s) <=> m.dest_user_id = user[s].id
<1>1. PICK u \in users : u.id = m.dest_user_id
  BY DEF MailInv, AddressInv
<1>2. NameOf(m.dest_user_id) = u.username
  BY <1>1, NameOfUser DEF MailInv, StorageInv
<1>3. user[s] \in users /\ Reader(s) = user[s].username
  BY ReaderKnown
<1>4. u.username = user[s].username <=> u.id = user[s].id
  BY <1>3 DEF MailInv, StorageInv, OneRowPerUser
<1> QED BY <1>1, <1>2, <1>3, <1>4 DEF Posted

\* An entry that is a true copy of a message to the reader shows what the
\* postbox has.
LEMMA CopyOfPosted ==
  ASSUME MailInv, NEW s \in Sessions, LoggedIn(s), NEW m \in messages,
         m.dest_user_id = user[s].id, NEW e, e.id = m.id, TrueCopy(e, m)
  PROVE  Copy(e, Reader(s)) = Posted(m)
<1>1. PICK u \in users : u.id = m.orig_user_id /\ u.username = e.user_from
  BY DEF TrueCopy
<1>2. NameOf(m.orig_user_id) = e.user_from
  BY <1>1, NameOfUser DEF MailInv, StorageInv
<1>3. NameOf(m.dest_user_id) = Reader(s)
  BY ReaderKnown
<1>4. e.topic = m.topic /\ e.cyphered = m.cyphered
  BY DEF TrueCopy
<1> QED BY <1>2, <1>3, <1>4 DEF Copy, Posted, Heading

\* An entry whose message is stored shows what the postbox has.
LEMMA EntryOfPosted ==
  ASSUME MailInv, NEW s \in Sessions, LoggedIn(s), NEW i \in DOMAIN inbox[s],
         NEW m \in messages, m.id = inbox[s][i].id
  PROVE  m.dest_user_id = user[s].id /\ Copy(inbox[s][i], Reader(s)) = Posted(m)
<1>1. m.dest_user_id = user[s].id /\ TrueCopy(inbox[s][i], m)
  BY DEF MailInv, InboxInv, InboxFaithful
<1> QED BY <1>1, CopyOfPosted

\* Erasing an entry takes its copy out of what the reader has.
LEMMA ViewOfErase ==
  ASSUME NEW S, NEW box \in Seq(S), NEW idx \in DOMAIN box, NEW name,
         \A i, j \in DOMAIN box : box[i].id = box[j].id => i = j
  PROVE  View(Erase(box, idx), name) = View(box, name) \ {Copy(box[idx], name)}
<1> DEFINE rest == Erase(box, idx)
<1>1. \A e, f : Copy(e, name) = Copy(f, name) => e.id = f.id
  BY DEF Copy
<1>2. \A i \in DOMAIN rest : \E j \in DOMAIN box : j # idx /\ rest[i] = box[j]
  BY EraseKeeps
<1>3. /\ Len(box) \in Nat /\ DOMAIN box = 1..Len(box) /\ idx \in 1..Len(box)
  BY LenProperties
<1>4. /\ rest \in Seq(S) /\ Len(rest) = Len(box) - 1
      /\ \A i \in 1..Len(box) - 1 : rest[i] = IF i < idx THEN box[i] ELSE box[i + 1]
  BY EraseProperties
<1>5. DOMAIN rest = 1..Len(box) - 1
  BY <1>4, LenProperties
<1> HIDE DEF rest
<1>6. ASSUME NEW j \in DOMAIN box, j # idx
      PROVE  \E i \in DOMAIN rest : rest[i] = box[j]
  <2>1. CASE j < idx
    BY <1>3, <1>4, <1>5, <2>1
  <2>2. CASE ~(j < idx)
    <3>1. j - 1 \in 1..Len(box) - 1 /\ ~(j - 1 < idx) /\ (j - 1) + 1 = j
      BY <1>3, <1>6, <2>2
    <3> QED BY <1>4, <1>5, <3>1
  <2> QED BY <2>1, <2>2
<1>7. ASSUME NEW c \in View(rest, name)
      PROVE  c \in View(box, name) \ {Copy(box[idx], name)}
  <2>1. PICK i \in DOMAIN rest : c = Copy(rest[i], name)
    BY DEF View
  <2>2. PICK j \in DOMAIN box : j # idx /\ rest[i] = box[j]
    BY <1>2
  <2>3. c # Copy(box[idx], name)
    BY <1>1, <2>1, <2>2
  <2> QED BY <2>1, <2>2, <2>3 DEF View
<1>8. ASSUME NEW c \in View(box, name) \ {Copy(box[idx], name)}
      PROVE  c \in View(rest, name)
  <2>1. PICK j \in DOMAIN box : c = Copy(box[j], name)
    BY DEF View
  <2>2. j # idx
    BY <2>1
  <2> QED BY <1>6, <2>1, <2>2 DEF View
<1> QED BY <1>7, <1>8 DEF rest

\* An inbox that was brought up to date shows every message to the reader,
\* and of the messages that are gone what it showed before.
LEMMA ViewOfSync ==
  ASSUME MailInv, NEW s \in Sessions, LoggedIn(s),
         NEW box \in Syncs(inbox[s], RowsTo(user[s].id))
  PROVE  View(box, Reader(s)) =
           P!Addressed(Reader(s)) \cup
             {c \in View(inbox[s], Reader(s)) : c.id \notin P!IdsOf(P!Addressed(Reader(s)))}
<1> DEFINE old == inbox[s]
           name == Reader(s)
           own == {m \in messages : m.dest_user_id = user[s].id}
<1>1. P!Addressed(name) = {Posted(m) : m \in own}
  BY AddressedToReader DEF P!Addressed, Live
<1>2. P!IdsOf(P!Addressed(name)) = {m.id : m \in own}
  <2>1. \A m \in own : Posted(m).id = m.id
    BY DEF Posted
  <2> HIDE DEF own, name
  <2> QED BY <1>1, <2>1 DEF P!IdsOf
<1>3. /\ \A i \in DOMAIN box : \A m \in messages : m.id = box[i].id =>
           m \in own /\ TrueCopy(box[i], m)
      /\ \A m \in own : m.id \in Ids(box)
  BY SyncedInbox DEF MailInv
<1>4. \A i \in DOMAIN box, m \in messages : m.id = box[i].id => Copy(box[i], name) = Posted(m)
  BY <1>3, CopyOfPosted
<1>5. PICK n \in Nat :
        /\ DOMAIN box = 1..n + Len(old)
        /\ DOMAIN old = 1..Len(old) /\ Len(old) \in Nat
        /\ \A i \in 1..n : \E row \in RowsTo(user[s].id) :
             box[i] = TopicEntry(row) /\ row.id \notin Ids(old)
        /\ \A i, j \in 1..n : box[i] = box[j] => i = j
        /\ \A row \in RowsTo(user[s].id) : row.id \notin Ids(old) =>
             \E i \in 1..n : box[i] = TopicEntry(row)
        /\ \A j \in DOMAIN old :
             /\ box[n + j].id = old[j].id
             /\ \/ box[n + j] = old[j]
                \/ \E row \in RowsTo(user[s].id) : box[n + j] = TopicEntry(row)
  BY SyncOrigin DEF MailInv
<1>6. \A row \in RowsTo(user[s].id) : \E m \in own : m.id = TopicEntry(row).id
  BY RowsToOwn DEF Row, TopicEntry, ReadEntry
<1> HIDE DEF old, own, name
<1>7. \A i \in DOMAIN box : i \in 1..n \/ (i - n \in DOMAIN old /\ n + (i - n) = i)
  BY <1>5
<1>8. \A j \in DOMAIN old : n + j \in DOMAIN box
  BY <1>5
<1>9. ASSUME NEW i \in DOMAIN box
      PROVE  \/ Copy(box[i], name) \in {Posted(m) : m \in own}
             \/ /\ \E j \in DOMAIN old : box[i] = old[j]
                /\ box[i].id \notin {m.id : m \in own}
  <2>1. CASE \E m \in own : m.id = box[i].id
    BY <1>4, <2>1 DEF own
  <2>2. CASE ~\E m \in own : m.id = box[i].id
    <3>1. ~\E row \in RowsTo(user[s].id) : box[i] = TopicEntry(row)
      BY <1>6, <2>2
    <3>2. i - n \in DOMAIN old /\ box[n + (i - n)] = box[i]
      BY <1>5, <1>7, <3>1
    <3>3. box[i] = old[i - n]
      BY <1>5, <3>1, <3>2
    <3> QED BY <2>2, <3>2, <3>3
  <2> QED BY <2>1, <2>2
<1>10. ASSUME NEW m \in own
       PROVE  \E i \in DOMAIN box : Copy(box[i], name) = Posted(m)
  <2>1. PICK i \in DOMAIN box : box[i].id = m.id
    BY <1>3 DEF Ids
  <2> QED BY <1>4, <2>1 DEF own
<1>11. ASSUME NEW j \in DOMAIN old, old[j].id \notin {m.id : m \in own}
       PROVE  \E i \in DOMAIN box : box[i] = old[j]
  <2>1. box[n + j].id = old[j].id /\ n + j \in DOMAIN box
    BY <1>5, <1>8
  <2>2. ~\E row \in RowsTo(user[s].id) : box[n + j] = TopicEntry(row)
    BY <1>6, <1>11, <2>1
  <2>3. box[n + j] = old[j]
    BY <1>5, <2>2
  <2> QED BY <2>1, <2>3
<1>12. \A e : Copy(e, name).id = e.id
  BY DEF Copy
<1>13. View(box, name) =
         {Posted(m) : m \in own} \cup {c \in View(old, name) : c.id \notin {m.id : m \in own}}
  <2>1. ASSUME NEW c \in View(box, name)
        PROVE  \/ c \in {Posted(m) : m \in own}
               \/ c \in View(old, name) /\ c.id \notin {m.id : m \in own}
    <3>1. PICK i \in DOMAIN box : c = Copy(box[i], name)
      BY DEF View
    <3> QED BY <1>9, <1>12, <3>1 DEF View
  <2>2. ASSUME NEW m \in own
        PROVE  Posted(m) \in View(box, name)
    BY <1>10 DEF View
  <2>3. ASSUME NEW c \in View(old, name), c.id \notin {m.id : m \in own}
        PROVE  c \in View(box, name)
    <3>1. PICK j \in DOMAIN old : c = Copy(old[j], name)
      BY DEF View
    <3>2. PICK i \in DOMAIN box : box[i] = old[j]
      BY <1>11, <1>12, <2>3, <3>1
    <3> QED BY <3>1, <3>2 DEF View
  <2> QED BY <2>1, <2>2, <2>3
<1> QED BY <1>1, <1>2, <1>13 DEF old, name

-----------------------------------------------------------------------------
(* What a step shows through the mapping *)

\* The names of the stored users stay what they are.
LEMMA NamesStay ==
  ASSUME OneRowPerUser, OneRowPerUser', users \subseteq users', NEW u \in users
  PROVE  NameOf(u.id)' = NameOf(u.id)
<1>1. \A v \in users' : v.id = u.id => v = u
  BY DEF OneRowPerUser
<1>2. NameOf(u.id)' = u.username
  BY <1>1 DEF NameOf
<1> QED BY <1>2, NameOfUser

\* So do the messages as the postbox has them, one by one.
LEMMA PostedStays ==
  ASSUME MailInv, MailInv', users \subseteq users', NEW m \in messages
  PROVE  Posted(m)' = Posted(m)
<1>1. OneRowPerUser /\ OneRowPerUser'
  BY DEF MailInv, StorageInv
<1>2. PICK u \in users : u.id = m.orig_user_id
  BY DEF MailInv, StorageInv, SendersStored
<1>3. PICK v \in users : v.id = m.dest_user_id
  BY DEF MailInv, AddressInv
<1>4. NameOf(u.id)' = NameOf(u.id) /\ NameOf(v.id)' = NameOf(v.id)
  BY <1>1, NamesStay
<1> QED BY <1>2, <1>3, <1>4 DEF Posted, Heading

\* A step that stores and removes no message leaves the postbox's messages.
LEMMA LiveStays ==
  ASSUME MailInv, MailInv', users \subseteq users', messages' = messages
  PROVE  Live' = Live
<1>1. \A m \in messages : Posted(m)' = Posted(m)
  BY PostedStays
<1>2. Live' = {Posted(m)' : m \in messages}
  BY DEF Live
<1> QED BY <1>1, <1>2 DEF Live

\* A step that neither opens nor closes a session nor touches an inbox leaves
\* what the readers see.
LEMMA ViewsStay ==
  ASSUME UNCHANGED <<fsm, user, inbox>>
  PROVE  Readers' = Readers /\ Views' = Views
BY DEF Readers, Views, Reader, LoggedIn

\* A step of one session changes what the reader of that session sees.
LEMMA OneSession ==
  ASSUME NEW s \in Sessions,
         \A t \in Sessions : t # s => /\ fsm'[t] = fsm[t]
                                      /\ user'[t] = user[t]
                                      /\ inbox'[t] = inbox[t]
  PROVE  /\ Readers' = [Readers EXCEPT ![s] = Reader(s)']
         /\ Views' = [Views EXCEPT ![s] = View(inbox'[s], Reader(s)')]
         /\ Reader(s)' = IF fsm'[s] = "logged-in" THEN user'[s].username ELSE NoUser
<1> DEFINE name == Reader(s)'
<1>2. \A t \in Sessions : t # s => Reader(t)' = Reader(t)
  BY DEF Reader, LoggedIn
<1>3. Reader(s)' = IF fsm'[s] = "logged-in" THEN user'[s].username ELSE NoUser
  BY DEF Reader, LoggedIn
<1>4. /\ Readers' = [t \in Sessions |-> Reader(t)'] 
      /\ Views' = [t \in Sessions |-> View(inbox'[t], Reader(t)')]
  BY DEF Readers, Views
<1>5. Readers' = [Readers EXCEPT ![s] = name]
  BY <1>2, <1>3, <1>4 DEF Readers
<1>6. Views' = [Views EXCEPT ![s] = View(inbox'[s], name)]
  <2>1. \A t \in Sessions : t # s => View(inbox'[t], Reader(t)') = View(inbox[t], Reader(t))
    BY <1>2
  <2>2. View(inbox'[s], Reader(s)') = View(inbox'[s], name)
    OBVIOUS
  <2>3. \A t \in Sessions : t # s => Views'[t] = Views[t]
    BY <1>4, <2>1 DEF Views
  <2>4. Views'[s] = View(inbox'[s], name)
    BY <1>4, <2>2
  <2>5. Views = [t \in Sessions |-> Views[t]] /\ Views' = [t \in Sessions |-> Views'[t]]
    BY <1>4 DEF Views
  <2> HIDE DEF Views
  <2> QED BY <2>3, <2>4, <2>5
<1> QED BY <1>3, <1>5, <1>6

-----------------------------------------------------------------------------
(* The step of the postbox that each action makes *)

\* Registering, starting, writing a message and reading are no steps of the
\* postbox: they leave all that it has as it is.
LEMMA NoStep ==
  ASSUME MailInv, MailInv', users \subseteq users', messages' = messages,
         sqlite_sequence'["messages"] = sqlite_sequence["messages"],
         UNCHANGED <<Readers, Views, victim>>
  PROVE  UNCHANGED P!pvars
BY LiveStays DEF P!pvars

\* A process that starts shows what one that is off does.
LEMMA StartIsNoStep ==
  ASSUME MailInv, MailInv', NEW s \in Sessions, Start(s)
  PROVE  UNCHANGED P!pvars
<1>1. fsm[s] # "logged-in" /\ fsm'[s] # "logged-in" /\ fsm' = [fsm EXCEPT ![s] = "main"]
  BY DEF Start, MailInv, TypeInv, TypeOK, SessionTypeOK
<1>2. UNCHANGED <<user, inbox, victim, users, messages, sqlite_sequence>>
  BY DEF Start, storageVars
<1>3. \A t \in Sessions : Reader(t)' = Reader(t)
  BY <1>1, <1>2 DEF Reader, LoggedIn, MailInv, TypeInv, TypeOK, SessionTypeOK
<1>4. UNCHANGED <<Readers, Views>>
  BY <1>2, <1>3 DEF Readers, Views
<1> QED BY <1>2, <1>4, NoStep

\* Who logs in opens the session.
LEMMA LoginOpens ==
  ASSUME MailInv, MailInv', NEW s \in Sessions,
         NEW name \in Usernames, NEW password \in Passwords, Login(s, name, password)
  PROVE  P!Open(s)
<1>1. PICK u \in users : u.username = name /\ user' = [user EXCEPT ![s] = u]
  BY DEF Login, UsersNamed
<1>2. /\ ~LoggedIn(s) /\ inbox[s] = <<>> /\ inbox' = inbox
      /\ inbox' = [inbox EXCEPT ![s] = <<>>]
      /\ fsm' = [fsm EXCEPT ![s] = "logged-in"]
      /\ UNCHANGED <<users, messages, sqlite_sequence, victim>>
  BY DEF Login, LoggedIn, storageVars, MailInv, TypeInv, TypeOK, SessionTypeOK, InboxInv,
         SessionsClean
<1>3. /\ Readers' = [Readers EXCEPT ![s] = name]
      /\ Views' = [Views EXCEPT ![s] = View(<<>>, name)]
  <2>1. fsm'[s] = "logged-in" /\ user'[s] = u /\ inbox'[s] = <<>>
    BY <1>1, <1>2 DEF MailInv, TypeInv, TypeOK, SessionTypeOK
  <2>2. \A t \in Sessions : t # s => fsm'[t] = fsm[t] /\ user'[t] = user[t] /\ inbox'[t] = inbox[t]
    BY <1>1, <1>2 DEF MailInv, TypeInv, TypeOK, SessionTypeOK
  <2> QED BY <1>1, <2>1, <2>2, OneSession
<1>4. Readers[s] = NoUser
  BY <1>2 DEF Readers, Reader
<1>5. Views[s] = View(<<>>, name) /\ Views = [t \in Sessions |-> Views[t]]
  BY <1>2 DEF Views, View
<1>6. Views' = Views
  BY <1>3, <1>5
<1>7. Live' = Live
  BY <1>2, LiveStays
<1> QED BY <1>2, <1>3, <1>4, <1>6, <1>7 DEF P!Open

\* Whoever logs out, or whose process ends, closes the session.
LEMMA LeavingCloses ==
  ASSUME MailInv, MailInv', NEW s \in Sessions, Exit(s) \/ Logout(s)
  PROVE  IF LoggedIn(s) THEN P!Close(s) ELSE UNCHANGED P!pvars
<1>1. PICK f \in {"off", "main"} : fsm' = [fsm EXCEPT ![s] = f]
  BY DEF Exit, Logout
<1>2. /\ user' = [user EXCEPT ![s] = NoUser]
      /\ inbox' = [inbox EXCEPT ![s] = <<>>]
      /\ UNCHANGED <<users, messages, sqlite_sequence>>
  BY DEF Exit, Logout, storageVars
<1>3. victim' = [victim EXCEPT ![s] = 0]
  <2>1. CASE Exit(s)
    BY <2>1 DEF Exit
  <2>2. CASE Logout(s)
    <3>1. victim[s] = 0 /\ victim' = victim
      BY <2>2 DEF Logout, At, MailInv, InboxInv, SessionsClean
    <3> QED BY <3>1 DEF MailInv, TypeInv, TypeOK, SessionTypeOK
  <2> QED BY <2>1, <2>2
<1>4. /\ Readers' = [Readers EXCEPT ![s] = NoUser]
      /\ Views' = [Views EXCEPT ![s] = View(<<>>, NoUser)]
  <2>1. fsm'[s] # "logged-in" /\ inbox'[s] = <<>>
    BY <1>1, <1>2 DEF MailInv, TypeInv, TypeOK, SessionTypeOK
  <2>2. \A t \in Sessions : t # s => fsm'[t] = fsm[t] /\ user'[t] = user[t] /\ inbox'[t] = inbox[t]
    BY <1>1, <1>2 DEF MailInv, TypeInv, TypeOK, SessionTypeOK
  <2> QED BY <2>1, <2>2, OneSession
<1>5. View(<<>>, NoUser) = {}
  BY DEF View
<1>6. Live' = Live
  BY <1>2, LiveStays
<1>7. CASE LoggedIn(s)
  <2>1. Readers[s] # NoUser
    BY <1>7, ReaderKnown DEF Readers
  <2> QED BY <1>2, <1>3, <1>4, <1>5, <1>6, <1>7, <2>1 DEF P!Close
<1>8. CASE ~LoggedIn(s)
  <2>1. inbox[s] = <<>> /\ victim[s] = 0 /\ Reader(s) = NoUser
    BY <1>8 DEF MailInv, InboxInv, SessionsClean, Reader
  <2>2. Readers[s] = NoUser /\ Readers = [t \in Sessions |-> Readers[t]]
    BY <2>1 DEF Readers
  <2>3. Views[s] = View(<<>>, NoUser) /\ Views = [t \in Sessions |-> Views[t]]
    BY <2>1 DEF Views
  <2>4. UNCHANGED <<Readers, Views>>
    BY <1>4, <2>2, <2>3
  <2>5. victim' = victim
    BY <1>3, <2>1 DEF MailInv, TypeInv, TypeOK, SessionTypeOK
  <2> QED BY <1>2, <1>8, <2>4, <2>5, NoStep
<1> QED BY <1>7, <1>8

\* A session that goes on with another inbox.
LEMMA NewView ==
  ASSUME TypeOK, NEW s \in Sessions, LoggedIn(s), NEW box,
         inbox' = [inbox EXCEPT ![s] = box], UNCHANGED <<fsm, user>>
  PROVE  /\ Readers' = Readers /\ Readers[s] = Reader(s)
         /\ Views' = [Views EXCEPT ![s] = View(box, Reader(s))]
         /\ Views[s] = View(inbox[s], Reader(s))
<1>1. Reader(s)' = Reader(s)
  BY DEF Reader, LoggedIn
<1>2. inbox'[s] = box /\ \A t \in Sessions : t # s => inbox'[t] = inbox[t]
  BY DEF TypeOK, SessionTypeOK
<1>3. Views' = [Views EXCEPT ![s] = View(box, Reader(s))]
  BY <1>1, <1>2, OneSession
<1>4. Readers' = Readers
  BY DEF Readers, Reader, LoggedIn
<1> QED BY <1>3, <1>4 DEF Readers, Views

\* inbox, and the listing after login, looks.
LEMMA ListingLooks ==
  ASSUME MailInv, MailInv', NEW s \in Sessions, ListInbox(s)
  PROVE  P!Look(s)
<1>1. PICK box \in Syncs(inbox[s], RowsTo(user[s].id)) : inbox' = [inbox EXCEPT ![s] = box]
  BY DEF ListInbox
<1>2. LoggedIn(s) /\ UNCHANGED <<users, messages, sqlite_sequence, fsm, user, victim>>
  BY DEF ListInbox, storageVars
<1>3. /\ Readers' = Readers /\ Readers[s] = Reader(s)
      /\ Views' = [Views EXCEPT ![s] = View(box, Reader(s))]
      /\ Views[s] = View(inbox[s], Reader(s))
  BY <1>1, <1>2, NewView DEF MailInv, TypeInv
<1>4. View(box, Reader(s)) =
        P!Addressed(Reader(s)) \cup
          {c \in Views[s] : c.id \notin P!IdsOf(P!Addressed(Reader(s)))}
  BY <1>2, <1>3, ViewOfSync
<1>5. Live' = Live
  BY <1>2, LiveStays
<1>6. Readers[s] # NoUser
  BY <1>2, <1>3, ReaderKnown
<1> QED BY <1>2, <1>3, <1>4, <1>5, <1>6 DEF P!Look

\* readmsg of a stored message shows the reader what the listing showed.
LEMMA ReadingIsNoStep ==
  ASSUME MailInv, MailInv', NEW s \in Sessions, NEW idx \in DOMAIN inbox[s], ReadMsg(s, idx)
  PROVE  UNCHANGED P!pvars
<1>1. PICK row \in RowsWithId(inbox[s][idx].id) :
        inbox' = [inbox EXCEPT ![s] = SyncAt(inbox[s], idx, row)]
  BY DEF ReadMsg
<1>2. LoggedIn(s) /\ UNCHANGED <<users, messages, sqlite_sequence, fsm, user, victim>>
  BY DEF ReadMsg, storageVars
<1>3. PICK m \in messages, u \in users :
        row = Row(m, u) /\ m.orig_user_id = u.id /\ m.id = inbox[s][idx].id
  BY DEF RowsWithId, Joined
<1> DEFINE box == SyncAt(inbox[s], idx, row)
<1>4. Copy(ReadEntry(row), Reader(s)) = Copy(inbox[s][idx], Reader(s))
  <2>1. /\ m.dest_user_id = user[s].id
        /\ Copy(inbox[s][idx], Reader(s)) = Posted(m)
    BY <1>2, <1>3, EntryOfPosted
  <2>2. TrueCopy(ReadEntry(row), m) /\ ReadEntry(row).id = m.id
    BY <1>3, RowIsCopy DEF MailInv, ReadEntry, Row
  <2> QED BY <1>2, <2>1, <2>2, CopyOfPosted
<1>5. /\ DOMAIN box = DOMAIN inbox[s]
      /\ \A i \in DOMAIN box : Copy(box[i], Reader(s)) = Copy(inbox[s][i], Reader(s))
  BY <1>4 DEF SyncAt
<1>6. View(box, Reader(s)) = View(inbox[s], Reader(s))
  BY <1>5 DEF View
<1> HIDE DEF box
<1>7. /\ Readers' = Readers
      /\ Views' = [Views EXCEPT ![s] = View(box, Reader(s))]
      /\ Views[s] = View(inbox[s], Reader(s))
  BY <1>1, <1>2, NewView DEF MailInv, TypeInv, box
<1>8. Views = [t \in Sessions |-> Views[t]]
  BY DEF Views
<1>9. Views' = Views
  BY <1>6, <1>7, <1>8
<1> QED BY <1>2, <1>7, <1>9, NoStep

\* readmsg of a message that is gone gives its copy up, and rmmsg puts a copy
\* away.
LEMMA ErasingTakesCopy ==
  ASSUME MailInv, MailInv', NEW s \in Sessions, LoggedIn(s), NEW idx \in DOMAIN inbox[s],
         inbox' = [inbox EXCEPT ![s] = Erase(inbox[s], idx)],
         UNCHANGED <<users, messages, sqlite_sequence, fsm, user>>
  PROVE  /\ Copy(inbox[s][idx], Reader(s)) \in Views[s]
         /\ Views' = [Views EXCEPT ![s] = @ \ {Copy(inbox[s][idx], Reader(s))}]
         /\ UNCHANGED <<Readers, Live>>
<1>1. /\ Readers' = Readers
      /\ Views' = [Views EXCEPT ![s] = View(Erase(inbox[s], idx), Reader(s))]
      /\ Views[s] = View(inbox[s], Reader(s))
  BY NewView DEF MailInv, TypeInv
<1>2. /\ inbox[s] \in Seq(InboxMessage)
      /\ \A i, j \in DOMAIN inbox[s] : inbox[s][i].id = inbox[s][j].id => i = j
  BY DEF MailInv, TypeInv, TypeOK, SessionTypeOK, InboxInv, InboxNoDuplicates
<1>3. View(Erase(inbox[s], idx), Reader(s)) =
        View(inbox[s], Reader(s)) \ {Copy(inbox[s][idx], Reader(s))}
  BY <1>2, ViewOfErase
<1>4. Copy(inbox[s][idx], Reader(s)) \in View(inbox[s], Reader(s))
  BY DEF View
<1>5. Live' = Live
  BY LiveStays
<1> QED BY <1>1, <1>3, <1>4, <1>5

\* readmsg of a message that was removed misses it.
LEMMA ReadingRemovedMisses ==
  ASSUME MailInv, MailInv', NEW s \in Sessions, NEW idx \in DOMAIN inbox[s],
         ReadRemovedMsg(s, idx)
  PROVE  \E c \in Views[s] : P!Miss(s, c)
<1> DEFINE c == Copy(inbox[s][idx], Reader(s))
<1>1. /\ LoggedIn(s) /\ inbox' = [inbox EXCEPT ![s] = Erase(inbox[s], idx)]
      /\ UNCHANGED <<users, messages, sqlite_sequence, fsm, user, victim>>
      /\ RowsWithId(inbox[s][idx].id) = {}
  BY DEF ReadRemovedMsg, storageVars
<1>2. /\ c \in Views[s] /\ Views' = [Views EXCEPT ![s] = @ \ {c}]
      /\ UNCHANGED <<Readers, Live>>
  BY <1>1, ErasingTakesCopy
<1>3. \A m \in messages : m.id # inbox[s][idx].id
  <2> SUFFICES ASSUME NEW m \in messages, m.id = inbox[s][idx].id PROVE FALSE
    OBVIOUS
  <2>1. PICK u \in users : u.id = m.orig_user_id
    BY DEF MailInv, StorageInv, SendersStored
  <2>2. <<m, u>> \in Joined /\ <<m, u>>[1].id = inbox[s][idx].id
    BY <2>1 DEF Joined
  <2>3. Row(m, u) \in RowsWithId(inbox[s][idx].id)
    BY <2>2 DEF RowsWithId
  <2> QED BY <1>1, <2>3
<1>4. c.id \notin P!IdsOf(Live)
  BY <1>3 DEF P!IdsOf, Live, Posted, Copy
<1> HIDE DEF c
<1> QED BY <1>1, <1>2, <1>4 DEF P!Miss

\* rmmsg puts the copy away first ...
LEMMA RemovingPutsAway ==
  ASSUME MailInv, MailInv', NEW s \in Sessions, NEW idx \in DOMAIN inbox[s], RmMsg(s, idx)
  PROVE  \E c \in Views[s] : P!PutAway(s, c)
<1> DEFINE c == Copy(inbox[s][idx], Reader(s))
<1>1. /\ LoggedIn(s) /\ At(s, "prompt")
      /\ inbox' = [inbox EXCEPT ![s] = Erase(inbox[s], idx)]
      /\ UNCHANGED <<users, messages, sqlite_sequence, fsm, user>>
      /\ victim' = [victim EXCEPT ![s] = inbox[s][idx].id]
  BY DEF RmMsg, storageVars
<1>2. /\ c \in Views[s] /\ Views' = [Views EXCEPT ![s] = @ \ {c}]
      /\ UNCHANGED <<Readers, Live>>
  BY <1>1, ErasingTakesCopy
<1>3. victim[s] = 0
  BY <1>1 DEF At, MailInv, InboxInv, SessionsClean
<1>4. c.id = inbox[s][idx].id
  BY DEF Copy
<1> HIDE DEF c
<1> QED BY <1>1, <1>2, <1>3, <1>4 DEF P!PutAway

\* ... and disposes of the message then, or fails to.
LEMMA RemovingDisposes ==
  ASSUME MailInv, MailInv', NEW s \in Sessions, RmMsgStored(s) \/ RmMsgFails(s)
  PROVE  P!Dispose(s)
<1>1. /\ At(s, "removing") /\ victim' = [victim EXCEPT ![s] = 0]
      /\ UNCHANGED <<users, sqlite_sequence, fsm, user, inbox>>
  BY DEF RmMsgStored, RmMsgFails, RemoveMessage, storageVars
<1>2. victim[s] # 0 /\ LoggedIn(s)
  BY <1>1 DEF At, MailInv, InboxInv, SessionsClean
<1>3. UNCHANGED <<Readers, Views>> /\ Readers[s] = Reader(s)
  BY <1>1, ViewsStay DEF Readers
<1> DEFINE gone == {m \in P!Addressed(Reader(s)) : m.id = victim[s]}
<1>4. Live' \in {Live, Live \ gone}
  <2>1. CASE RmMsgFails(s)
    <3>1. messages' = messages
      BY <2>1 DEF RmMsgFails, storageVars
    <3> QED BY <1>1, <3>1, LiveStays
  <2>2. CASE RmMsgStored(s)
    <3>1. messages' = {m \in messages : ~(m.id = victim[s] /\ m.dest_user_id = user[s].id)}
      BY <2>2 DEF RmMsgStored, RemoveMessage
    <3>2. \A m \in messages : Posted(m)' = Posted(m)
      BY <1>1, PostedStays
    <3>3. Live' = {Posted(m)' : m \in messages'}
      BY DEF Live
    <3>4. Live' = {Posted(m) : m \in messages'}
      BY <3>1, <3>2, <3>3
    <3>5. \A m \in messages : Posted(m) \in gone <=>
            m.id = victim[s] /\ m.dest_user_id = user[s].id
      BY <1>2, AddressedToReader DEF P!Addressed, Live, Posted
    <3> HIDE DEF gone
    <3>6. Live' = Live \ gone
      BY <3>1, <3>4, <3>5 DEF Live
    <3> QED BY <3>6
  <2> QED BY <2>1, <2>2
<1> QED BY <1>1, <1>2, <1>3, <1>4 DEF P!Dispose

\* sendmsg posts a message to another user.
LEMMA SendingPosts ==
  ASSUME MailInv, MailInv', NEW s \in Sessions, InsertMsg(s)
  PROVE  P!Post(s)
<1>1. PICK new :
        /\ new = [id |-> sqlite_sequence["messages"] + 1, orig_user_id |-> user[s].id,
                  dest_user_id |-> draft[s].dest, topic |-> draft[s].topic,
                  body |-> draft[s].body, cyphered |-> draft[s].cyphered]
        /\ messages' = messages \cup {new}
        /\ sqlite_sequence' = [sqlite_sequence EXCEPT !["messages"] = @ + 1]
        /\ UNCHANGED <<users, fsm, user, inbox, victim>>
  BY DEF InsertMsg, InsertMessage, MailInv, TypeInv, TypeOK, StorageTypeOK
<1>2. At(s, "sending") /\ LoggedIn(s)
  BY DEF InsertMsg, At, MailInv, InboxInv, SessionsClean
<1>3. PICK u \in users : u.id = draft[s].dest /\ u.username # user[s].username
  BY <1>2 DEF At, MailInv, AddressInv, WithText
<1>4. UNCHANGED <<Readers, Views>> /\ Readers[s] = Reader(s) /\ Reader(s) # NoUser
  BY <1>1, <1>2, ViewsStay, ReaderKnown DEF Readers
<1>5. OneRowPerUser /\ OneRowPerUser'
  BY DEF MailInv, StorageInv
<1>6. /\ NameOf(user[s].id)' = Reader(s)
      /\ NameOf(u.id)' = u.username /\ u.username # Reader(s) /\ u.username \in Usernames
  <2>1. user[s] \in users /\ Reader(s) = user[s].username
    BY <1>2, ReaderKnown
  <2>2. NameOf(user[s].id)' = user[s].username /\ NameOf(u.id)' = u.username
    BY <1>1, <1>5, <2>1, NamesStay, NameOfUser
  <2> QED BY <1>3, <2>1, <2>2 DEF MailInv, TypeInv, TypeOK, StorageTypeOK, User
<1>7. Posted(new)' = [id |-> sqlite_sequence["messages"] + 1, from |-> Reader(s),
                      to |-> u.username, heading |-> Heading(new)]
  BY <1>3, <1>6, <1>1 DEF Posted, Heading
<1>8. Heading(new) \in [topic : Blob, cyphered : BOOLEAN]
  <2>1. new \in Message
    BY <1>1 DEF MailInv, TypeInv, TypeOK, StorageTypeOK
  <2> QED BY <2>1 DEF Message, Heading
<1>9. Live' = Live \cup {[id |-> sqlite_sequence["messages"] + 1, from |-> Reader(s),
                          to |-> u.username, heading |-> Heading(new)]}
  <2>1. \A m \in messages : Posted(m)' = Posted(m)
    BY <1>1, PostedStays
  <2>2. Live' = {Posted(m)' : m \in messages'}
    BY DEF Live
  <2> QED BY <1>1, <1>7, <2>1, <2>2 DEF Live
<1>10. sqlite_sequence'["messages"] = sqlite_sequence["messages"] + 1
  BY <1>1 DEF MailInv, TypeInv, TypeOK, StorageTypeOK
<1> QED BY <1>1, <1>4, <1>6, <1>8, <1>9, <1>10 DEF P!Post

-----------------------------------------------------------------------------
(* The refinement *)

\* The empty database shows an empty postbox.
LEMMA InitMaps == Init => P!Init
BY DEF Init, StorageInit, P!Init, Live, Readers, Reader, LoggedIn, Views, View

\* Talking with the user, and registering, are no steps of the postbox.
LEMMA UnseenSteps ==
  ASSUME MailInv, MailInv', NEW s \in Sessions,
         \/ Talking(s)
         \/ \E name \in Usernames, password \in Passwords : Register(s, name, password)
  PROVE  UNCHANGED P!pvars
<1>1. CASE Talking(s)
  BY <1>1, TalkingChangesNothing, ViewsStay, NoStep
<1>2. ASSUME NEW name \in Usernames, NEW password \in Passwords, Register(s, name, password)
      PROVE  UNCHANGED P!pvars
  <2>1. /\ users \subseteq users' /\ messages' = messages
        /\ sqlite_sequence'["messages"] = sqlite_sequence["messages"]
        /\ UNCHANGED <<fsm, user, inbox, victim>>
    BY <1>2 DEF Register, InsertUser, sessionVars, MailInv, TypeInv, TypeOK, StorageTypeOK
  <2> QED BY <2>1, ViewsStay, NoStep
<1> QED BY <1>1, <1>2

\* Every step is a step of the postbox or changes nothing of it.
LEMMA StepMaps == MailInv /\ MailInv' /\ [Next]_vars => [P!Next]_(P!pvars)
<1> SUFFICES ASSUME MailInv, MailInv', [Next]_vars
             PROVE  P!Next \/ UNCHANGED P!pvars
  OBVIOUS
<1>1. CASE UNCHANGED vars
  <2>1. UNCHANGED <<users, messages, sqlite_sequence, fsm, user, inbox, victim>>
    BY <1>1 DEF vars
  <2> QED BY <2>1, ViewsStay, NoStep
<1>2. CASE Next
  <2> PICK s \in Sessions :
        \/ Talking(s)
        \/ Start(s)
        \/ Exit(s)
        \/ \E name \in Usernames, password \in Passwords : Register(s, name, password)
        \/ \E name \in Usernames, password \in Passwords : Login(s, name, password)
        \/ Logout(s)
        \/ ListInbox(s)
        \/ \E idx \in DOMAIN inbox[s] : ReadMsg(s, idx)
        \/ \E idx \in DOMAIN inbox[s] : ReadRemovedMsg(s, idx)
        \/ \E idx \in DOMAIN inbox[s] : RmMsg(s, idx)
        \/ RmMsgStored(s)
        \/ RmMsgFails(s)
        \/ InsertMsg(s)
    BY <1>2, Steps
  <2>1. CASE \/ Talking(s)
             \/ \E name \in Usernames, password \in Passwords : Register(s, name, password)
    BY <2>1, UnseenSteps
  <2>2. CASE Start(s)
    BY <2>2, StartIsNoStep
  <2>3. CASE Exit(s) \/ Logout(s)
    BY <2>3, LeavingCloses DEF P!Next
  <2>4. CASE \E name \in Usernames, password \in Passwords : Login(s, name, password)
    BY <2>4, LoginOpens DEF P!Next
  <2>5. CASE ListInbox(s)
    BY <2>5, ListingLooks DEF P!Next
  <2>6. CASE \E idx \in DOMAIN inbox[s] : ReadMsg(s, idx)
    BY <2>6, ReadingIsNoStep
  <2>7. CASE \E idx \in DOMAIN inbox[s] : ReadRemovedMsg(s, idx)
    BY <2>7, ReadingRemovedMisses DEF P!Next
  <2>8. CASE \E idx \in DOMAIN inbox[s] : RmMsg(s, idx)
    BY <2>8, RemovingPutsAway DEF P!Next
  <2>9. CASE RmMsgStored(s) \/ RmMsgFails(s)
    BY <2>9, RemovingDisposes DEF P!Next
  <2>10. CASE InsertMsg(s)
    BY <2>10, SendingPosts DEF P!Next
  <2> QED BY <2>1, <2>2, <2>3, <2>4, <2>5, <2>6, <2>7, <2>8, <2>9, <2>10
<1> QED BY <1>1, <1>2

\* Every behaviour of the sessions is, through the mapping, a behaviour of the
\* postbox.
THEOREM Implementation == Spec => ImplementsPostbox
<1>1. Init => P!Init
  BY InitMaps
<1>2. MailInv /\ MailInv' /\ [Next]_vars => [P!Next]_(P!pvars)
  BY StepMaps
<1> QED BY <1>1, <1>2, MailCorrect, PTL DEF Spec, ImplementsPostbox, P!Spec
=============================================================================
