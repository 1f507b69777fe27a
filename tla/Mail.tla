-------------------------------- MODULE Mail --------------------------------
(***************************************************************************)
(* Several lmail processes ("sessions") on one database.  A session runs   *)
(* one command at a time; a command that waits for its user, or that works *)
(* on the database more than once, takes several steps here, and the steps *)
(* of different sessions interleave.  What a command does to its own       *)
(* memory between two such points is one step with it.                     *)
(*                                                                         *)
(* Commands that leave all of the state as it was (lsusers, lskeys, help,  *)
(* a command refused because of what was typed, a statement that fails     *)
(* before anything was changed) are stuttering steps.                      *)
(***************************************************************************)
EXTENDS Storage, Inbox

CONSTANTS
  Sessions,      \* the lmail processes
  NoUser,        \* the user of a session that is not logged in
  MaxUsers,      \* bound: how many users are registered
  MaxMessages    \* bound: how many messages are sent

ASSUME MailAssumption == NoUser \notin User \cup Usernames

VARIABLES
  fsm,      \* "off": no process; else the state of its command line
  user,     \* LoggedUser::user_, a copy of the row read at login
  inbox,    \* LoggedUser::inbox_
  listed,   \* the ids of the last listing, as they stand on the screen
  pc,       \* where the command in progress stands
  draft,    \* the message that sendmsg is putting together
  victim    \* the id that rmmsg has taken out of the inbox, else 0

sessionVars == <<fsm, user, inbox, listed, pc, draft, victim>>
vars == <<users, messages, sqlite_sequence, fsm, user, inbox, listed, pc, draft, victim>>

Points == {"prompt",      \* no command in progress
           "greeting",    \* login: logged in, the inbox not yet listed
           "writing",     \* sendmsg: addressee known, topic and body to be typed
           "cyphering",   \* sendmsg: text typed, to be cyphered or not
           "confirming",  \* sendmsg: "Send the message? (y/n)"
           "sending",     \* sendmsg: message to be inserted
           "removing"}    \* rmmsg: taken out of the inbox, row to be deleted

Answers == {"none", "y", "n", "eof"}

Draft == [dest : Nat, topic : Blob \cup {NoBody}, body : Blob \cup {NoBody},
          cyphered : BOOLEAN, answer : Answers]

NoDraft == [dest |-> 0, topic |-> NoBody, body |-> NoBody,
            cyphered |-> FALSE, answer |-> "none"]

Init ==
  /\ StorageInit
  /\ fsm = [s \in Sessions |-> "off"]
  /\ user = [s \in Sessions |-> NoUser]
  /\ inbox = [s \in Sessions |-> <<>>]
  /\ listed = [s \in Sessions |-> <<>>]
  /\ pc = [s \in Sessions |-> "prompt"]
  /\ draft = [s \in Sessions |-> NoDraft]
  /\ victim = [s \in Sessions |-> 0]

At(s, point) == pc[s] = point
LoggedIn(s)  == fsm[s] = "logged-in"
IdSeq(box)   == [i \in DOMAIN box |-> box[i].id]

-----------------------------------------------------------------------------
(* The process *)

\* main(): a new process goes through "idle" to "main" before its first prompt.
Start(s) ==
  /\ fsm[s] = "off"
  /\ fsm' = [fsm EXCEPT ![s] = "main"]
  /\ UNCHANGED <<storageVars, user, inbox, listed, pc, draft, victim>>

\* quit, end of input at the prompt, or the process is killed in the middle
\* of a command.  All that is in memory is gone.
Exit(s) ==
  /\ fsm[s] # "off"
  /\ fsm' = [fsm EXCEPT ![s] = "off"]
  /\ user' = [user EXCEPT ![s] = NoUser]
  /\ inbox' = [inbox EXCEPT ![s] = <<>>]
  /\ listed' = [listed EXCEPT ![s] = <<>>]
  /\ pc' = [pc EXCEPT ![s] = "prompt"]
  /\ draft' = [draft EXCEPT ![s] = NoDraft]
  /\ victim' = [victim EXCEPT ![s] = 0]
  /\ UNCHANGED storageVars

-----------------------------------------------------------------------------
(* Accounts *)

Register(s, name, password) ==
  /\ fsm[s] = "main"
  /\ sqlite_sequence["users"] < MaxUsers
  /\ InsertUser(name, Digest(password))
  /\ UNCHANGED sessionVars

\* The session gets a LoggedUser with an empty inbox; the listing that greets
\* the user is the next step.
Login(s, name, password) ==
  /\ fsm[s] = "main"
  /\ \E u \in UsersNamed(name) :
       /\ u.password = Digest(password)
       /\ user' = [user EXCEPT ![s] = u]
  /\ fsm' = [fsm EXCEPT ![s] = "logged-in"]
  /\ pc' = [pc EXCEPT ![s] = "greeting"]
  /\ UNCHANGED <<storageVars, inbox, listed, draft, victim>>

\* Mutated form: the LoggedUser outlives the logout and is used again.
LogoutKeepingInbox(s) ==
  /\ LoggedIn(s)
  /\ At(s, "prompt")
  /\ fsm' = [fsm EXCEPT ![s] = "main"]
  /\ user' = [user EXCEPT ![s] = NoUser]
  /\ UNCHANGED <<storageVars, inbox, listed, pc, draft, victim>>

Logout(s) ==
  /\ LoggedIn(s)
  /\ At(s, "prompt")
  /\ fsm' = [fsm EXCEPT ![s] = "main"]
  /\ user' = [user EXCEPT ![s] = NoUser]
  /\ inbox' = [inbox EXCEPT ![s] = <<>>]
  /\ listed' = [listed EXCEPT ![s] = <<>>]
  /\ UNCHANGED <<storageVars, pc, draft, victim>>

-----------------------------------------------------------------------------
(* Reading *)

\* Mutated form: the inbox is brought up to date, and not listed.
ListInboxSilently(s) ==
  /\ LoggedIn(s)
  /\ pc[s] \in {"prompt", "greeting"}
  /\ \E box \in Syncs(inbox[s], RowsTo(user[s].id)) :
       inbox' = [inbox EXCEPT ![s] = box]
  /\ pc' = [pc EXCEPT ![s] = "prompt"]
  /\ UNCHANGED <<storageVars, fsm, user, listed, draft, victim>>

\* inbox, and the greeting after login: sync with the database, then print
\* every entry with its index.
ListInbox(s) ==
  /\ LoggedIn(s)
  /\ pc[s] \in {"prompt", "greeting"}
  /\ \E box \in Syncs(inbox[s], RowsTo(user[s].id)) :
       /\ inbox' = [inbox EXCEPT ![s] = box]
       /\ listed' = [listed EXCEPT ![s] = IdSeq(box)]
  /\ pc' = [pc EXCEPT ![s] = "prompt"]
  /\ UNCHANGED <<storageVars, fsm, user, draft, victim>>

\* The greeting cannot read the database: the user is logged in all the same.
GreetingFails(s) ==
  /\ At(s, "greeting")
  /\ pc' = [pc EXCEPT ![s] = "prompt"]
  /\ UNCHANGED <<storageVars, fsm, user, inbox, listed, draft, victim>>

\* readmsg of a message that is still stored: its entry takes over the row,
\* the body with it, and is shown.
ReadMsg(s, idx) ==
  /\ LoggedIn(s)
  /\ At(s, "prompt")
  /\ idx \in DOMAIN inbox[s]
  /\ \E row \in RowsWithId(inbox[s][idx].id) :
       inbox' = [inbox EXCEPT ![s] = SyncAt(inbox[s], idx, row)]
  /\ UNCHANGED <<storageVars, fsm, user, listed, pc, draft, victim>>

\* readmsg of a message that another session has removed meanwhile.
ReadRemovedMsg(s, idx) ==
  /\ LoggedIn(s)
  /\ At(s, "prompt")
  /\ idx \in DOMAIN inbox[s]
  /\ RowsWithId(inbox[s][idx].id) = {}
  /\ inbox' = [inbox EXCEPT ![s] = Erase(inbox[s], idx)]
  /\ UNCHANGED <<storageVars, fsm, user, listed, pc, draft, victim>>

-----------------------------------------------------------------------------
(* Removing *)

\* rmmsg takes the entry out of the inbox first.
RmMsg(s, idx) ==
  /\ LoggedIn(s)
  /\ At(s, "prompt")
  /\ idx \in DOMAIN inbox[s]
  /\ victim' = [victim EXCEPT ![s] = inbox[s][idx].id]
  /\ inbox' = [inbox EXCEPT ![s] = Erase(inbox[s], idx)]
  /\ pc' = [pc EXCEPT ![s] = "removing"]
  /\ UNCHANGED <<storageVars, fsm, user, listed, draft>>

\* ... and then the row out of the database,
RmMsgStored(s) ==
  /\ At(s, "removing")
  /\ RemoveMessage(victim[s], user[s].id)
  /\ pc' = [pc EXCEPT ![s] = "prompt"]
  /\ victim' = [victim EXCEPT ![s] = 0]
  /\ UNCHANGED <<fsm, user, inbox, listed, draft>>

\* ... unless the statement throws (the database is locked, say): then the
\* row stays, while the entry is gone.
RmMsgFails(s) ==
  /\ At(s, "removing")
  /\ pc' = [pc EXCEPT ![s] = "prompt"]
  /\ victim' = [victim EXCEPT ![s] = 0]
  /\ UNCHANGED <<storageVars, fsm, user, inbox, listed, draft>>

-----------------------------------------------------------------------------
(* Sending *)

\* sendmsg: the addressee exists and is somebody else.
SendMsg(s, name) ==
  /\ LoggedIn(s)
  /\ At(s, "prompt")
  /\ name # user[s].username
  /\ \E u \in UsersNamed(name) :
       draft' = [draft EXCEPT ![s] = [NoDraft EXCEPT !.dest = u.id]]
  /\ pc' = [pc EXCEPT ![s] = "writing"]
  /\ UNCHANGED <<storageVars, fsm, user, inbox, listed, victim>>

\* Mutated form: the body may be left empty.
WriteMsgUnchecked(s, topic, body) ==
  /\ At(s, "writing")
  /\ \E typed \in {Plain(body), NoBody} :
       draft' = [draft EXCEPT ![s].topic = Plain(topic), ![s].body = typed]
  /\ pc' = [pc EXCEPT ![s] = "cyphering"]
  /\ UNCHANGED <<storageVars, fsm, user, inbox, listed, victim>>

WriteMsg(s, topic, body) ==
  /\ At(s, "writing")
  /\ draft' = [draft EXCEPT ![s].topic = Plain(topic), ![s].body = Plain(body)]
  /\ pc' = [pc EXCEPT ![s] = "cyphering"]
  /\ UNCHANGED <<storageVars, fsm, user, inbox, listed, victim>>

\* No public key was imported for the addressee, or the answer to "Would you
\* like to cypher the message? (y/n)" is not "y".
LeavePlain(s) ==
  /\ At(s, "cyphering")
  /\ pc' = [pc EXCEPT ![s] = "confirming"]
  /\ UNCHANGED <<storageVars, fsm, user, inbox, listed, draft, victim>>

\* CmdSendMsg::encrypt(): topic, then body.  An exception ends it where it
\* stands, and is reported to the user but not to the caller.
EncryptDraft(d, key, done) ==
  [d EXCEPT !.topic = IF "topic" \in done THEN Encrypt(@, key) ELSE @,
            !.body  = IF "body" \in done THEN Encrypt(@, key) ELSE @]

\* Mutated form: the message counts as cyphered only when both texts are.
CypherMsgMarkedLate(s, key) ==
  /\ At(s, "cyphering")
  /\ \E done \in {{}, {"topic"}, {"topic", "body"}} :
       draft' = [draft EXCEPT ![s] = [EncryptDraft(@, key, done) EXCEPT
                                         !.cyphered = (done = {"topic", "body"})]]
  /\ pc' = [pc EXCEPT ![s] = "confirming"]
  /\ UNCHANGED <<storageVars, fsm, user, inbox, listed, victim>>

\* The answer is "y".  The message counts as cyphered whatever became of the
\* attempt: the key file need not hold a key, nor be there any more.
CypherMsg(s, key) ==
  /\ At(s, "cyphering")
  /\ \E done \in {{}, {"topic"}, {"topic", "body"}} :
       draft' = [draft EXCEPT ![s] = [EncryptDraft(@, key, done) EXCEPT !.cyphered = TRUE]]
  /\ pc' = [pc EXCEPT ![s] = "confirming"]
  /\ UNCHANGED <<storageVars, fsm, user, inbox, listed, victim>>

\* "Send the message? (y/n)" is asked until the answer is "y" or "n" or the
\* input ends; the message is sent unless the answer is "n".
ConfirmMsg(s, answer) ==
  /\ At(s, "confirming")
  /\ answer # "n"
  /\ draft' = [draft EXCEPT ![s].answer = answer]
  /\ pc' = [pc EXCEPT ![s] = "sending"]
  /\ UNCHANGED <<storageVars, fsm, user, inbox, listed, victim>>

InsertMsg(s) ==
  /\ At(s, "sending")
  /\ sqlite_sequence["messages"] < MaxMessages
  /\ InsertMessage(user[s].id, draft[s].dest, draft[s].topic, draft[s].body, draft[s].cyphered)
  /\ draft' = [draft EXCEPT ![s] = NoDraft]
  /\ pc' = [pc EXCEPT ![s] = "prompt"]
  /\ UNCHANGED <<fsm, user, inbox, listed, victim>>

\* sendmsg ends without a message: end of input or nothing typed, the answer
\* "n", an INSERT that throws, or anything else that does.
AbandonMsg(s) ==
  /\ pc[s] \in {"writing", "cyphering", "confirming", "sending"}
  /\ draft' = [draft EXCEPT ![s] = NoDraft]
  /\ pc' = [pc EXCEPT ![s] = "prompt"]
  /\ UNCHANGED <<storageVars, fsm, user, inbox, listed, victim>>

-----------------------------------------------------------------------------

Account(s) ==
  \/ \E name \in Usernames, password \in Passwords :
       Register(s, name, password) \/ Login(s, name, password)
  \/ Logout(s)

Reading(s) ==
  \/ ListInbox(s)
  \/ GreetingFails(s)
  \/ \E idx \in DOMAIN inbox[s] : ReadMsg(s, idx) \/ ReadRemovedMsg(s, idx)

Removing(s) ==
  \/ \E idx \in DOMAIN inbox[s] : RmMsg(s, idx)
  \/ RmMsgStored(s)
  \/ RmMsgFails(s)

Sending(s) ==
  \/ \E name \in Usernames : SendMsg(s, name)
  \/ \E topic, body \in Texts : WriteMsg(s, topic, body)
  \/ LeavePlain(s)
  \/ \E key \in Keys : CypherMsg(s, key)
  \/ \E answer \in {"y", "n", "eof"} : ConfirmMsg(s, answer)
  \/ InsertMsg(s)
  \/ AbandonMsg(s)

Next ==
  \E s \in Sessions :
    Start(s) \/ Exit(s) \/ Account(s) \/ Reading(s) \/ Removing(s) \/ Sending(s)

Spec == Init /\ [][Next]_vars

-----------------------------------------------------------------------------
(* Properties *)

SessionTypeOK ==
  /\ fsm \in [Sessions -> {"off", "main", "logged-in"}]
  /\ user \in [Sessions -> User \cup {NoUser}]
  /\ inbox \in [Sessions -> Seq(InboxMessage)]
  /\ listed \in [Sessions -> Seq(RowId)]
  /\ pc \in [Sessions -> Points]
  /\ draft \in [Sessions -> Draft]
  /\ victim \in [Sessions -> Nat]

\* Every variable has its type; a table is a finite set of rows.
TypeOK == StorageTypeOK /\ SessionTypeOK

\* No two rows of "users" share a name or an id: login and sendmsg never end
\* the process with "FATAL: inconsistent data base".
OneRowPerUser ==
  \A u, v \in users : u.username = v.username \/ u.id = v.id => u = v

\* An entry as a command finds it: a copy of the stored message, whose body
\* may not have been read yet, under the name of the message's sender.
TrueCopy(entry, m) ==
  /\ entry.topic = m.topic
  /\ entry.body \in {m.body, NoBody}
  /\ entry.cyphered = m.cyphered
  /\ \E u \in users : u.id = m.orig_user_id /\ u.username = entry.user_from

\* The commands trust their copies: the user of a session is a row of the
\* database, and while a stored message has the id of an inbox entry the entry
\* is a true copy of it and the message is the user's own.  readmsg selects by
\* id alone, so that what it shows is the user's by virtue of this.
InboxFaithful ==
  \A s \in Sessions : LoggedIn(s) =>
    /\ user[s] \in users
    /\ \A i \in DOMAIN inbox[s] : \A m \in messages :
         m.id = inbox[s][i].id =>
           m.dest_user_id = user[s].id /\ TrueCopy(inbox[s][i], m)

\* A message has at most one index in an inbox, however syncing, reading and
\* removing follow one another in this and in other sessions.
InboxNoDuplicates ==
  \A s \in Sessions : \A i, j \in DOMAIN inbox[s] :
    inbox[s][i].id = inbox[s][j].id => i = j

\* The inbox is what remains of the last listing on the screen, in its order:
\* between two listings an index can only come to denote a message listed
\* further down, never one that is not on the screen, and never does a message
\* overtake one that was listed before it.
InboxWithinListing ==
  \A s \in Sessions :
    /\ \A i \in DOMAIN inbox[s] :
         \E a \in DOMAIN listed[s] : i <= a /\ listed[s][a] = inbox[s][i].id
    /\ \A i, j \in DOMAIN inbox[s] : i < j =>
         \E a, b \in DOMAIN listed[s] :
           a < b /\ listed[s][a] = inbox[s][i].id /\ listed[s][b] = inbox[s][j].id

\* A listing has every message that is stored for the user, one that an
\* earlier rmmsg took out of the inbox but failed to delete included.
ListingComplete ==
  [][\A s \in Sessions : ListInbox(s) =>
       \A m \in messages : m.dest_user_id = user[s].id => m.id \in Ids(inbox'[s])]_vars

\* A row that is not marked as cyphered holds neither a cyphered topic nor a
\* cyphered body: readers show such a row as it stands.
UnmarkedIsPlain ==
  \A m \in messages : ~m.cyphered => m.topic.key = NoKey /\ m.body.key = NoKey

\* A row that is marked as cyphered is cyphered, topic and body: this is what
\* the sender was told and what readers act upon.  (The code fails here.)
MarkedIsCyphered ==
  \A m \in messages : m.cyphered => m.topic.key # NoKey /\ m.body.key # NoKey

\* A message is put into the database only after the answer "y" to "Send the
\* message? (y/n)".  (The code fails here: the input may have ended.)
SentOnYes ==
  [][\A s \in Sessions : InsertMsg(s) => draft[s].answer = "y"]_vars

-----------------------------------------------------------------------------
(* The inductive invariant behind the safety properties, in four layers     *)

WithText == {"cyphering", "confirming", "sending"}

\* What sendmsg has put together when it gets to a given point.
DraftsWritten ==
  \A s \in Sessions :
    /\ pc[s] \in {"writing", "cyphering"} => ~draft[s].cyphered
    /\ pc[s] \in WithText =>
         /\ draft[s].topic \in Blob
         /\ draft[s].body \in Blob
         /\ ~draft[s].cyphered => draft[s].topic.key = NoKey /\ draft[s].body.key = NoKey

TypeInv == TypeOK /\ DraftsWritten

\* No id is above the counter of its table, and a row has its id to itself.
IdsGivenOut ==
  /\ \A u \in users : u.id <= sqlite_sequence["users"]
  /\ \A m \in messages : m.id <= sqlite_sequence["messages"]
  /\ \A m, n \in messages : m.id = n.id => m = n

SendersStored == \A m \in messages : \E u \in users : u.id = m.orig_user_id

StorageInv == OneRowPerUser /\ IdsGivenOut /\ SendersStored /\ UnmarkedIsPlain

\* Nothing of a user is left in a session that is not logged in, and no entry
\* of an inbox has an id that is still to be given out.
SessionsClean ==
  \A s \in Sessions :
    /\ ~LoggedIn(s) => user[s] = NoUser /\ inbox[s] = <<>> /\ pc[s] = "prompt"
    /\ \A i \in DOMAIN inbox[s] : inbox[s][i].id <= sqlite_sequence["messages"]
    /\ victim[s] # 0 <=> pc[s] = "removing"

InboxInv == SessionsClean /\ InboxFaithful /\ InboxNoDuplicates

\* A message has an addressee, and nobody writes to themselves.
AddressInv ==
  /\ \A m \in messages : \E u \in users : u.id = m.dest_user_id
  /\ \A s \in Sessions : pc[s] \in {"writing"} \cup WithText =>
       \E u \in users : u.id = draft[s].dest /\ u.username # user[s].username

MailInv == TypeInv /\ StorageInv /\ InboxInv /\ AddressInv
=============================================================================
