----------------------------- MODULE MailProofs -----------------------------
(***************************************************************************)
(* Proofs about the sessions and the database, for any number of sessions, *)
(* users, messages and texts.  The invariant MailInv has four layers:      *)
(* the types; the tables, which depend on nothing but the statements; the  *)
(* copies in the inboxes, which depend on the tables; and the addressees.  *)
(***************************************************************************)
EXTENDS Mail, InboxTheorems

\* The actions that change neither the database nor what a session knows of
\* it: everything that happens while sendmsg talks with its user.
Talking(s) ==
  \/ GreetingFails(s)
  \/ \E name \in Usernames : SendMsg(s, name)
  \/ \E topic, body \in Texts : WriteMsg(s, topic, body)
  \/ LeavePlain(s)
  \/ \E key \in Keys : CypherMsg(s, key)
  \/ \E answer \in {"y", "n", "eof"} : ConfirmMsg(s, answer)
  \/ AbandonMsg(s)

\* They change no row, no inbox and no account of a session.
LEMMA TalkingChangesNothing ==
  ASSUME NEW s \in Sessions, Talking(s)
  PROVE  UNCHANGED <<users, messages, sqlite_sequence, fsm, user, inbox, victim>>
BY DEF Talking, GreetingFails, SendMsg, WriteMsg, LeavePlain, CypherMsg, ConfirmMsg,
       AbandonMsg, storageVars

\* The steps of a session, one disjunct each.
LEMMA Steps ==
  ASSUME Next
  PROVE  \E s \in Sessions :
           \/ Talking(s)
           \/ Start(s)
           \/ Exit(s)
           \/ \E name \in Usernames, password \in Passwords : Register(s, name, password)
           \/ \E name \in Usernames, password \in Passwords : Login(s, name, password)
           \/ Logout(s)
           \/ ListInbox(s)
           \/ \E idx \in DOMAIN inbox[s] : ReadMsg(s, idx)
           \/ \E idx \in DOMAIN inbox[s] : ReadRemovedMsg(s, idx)
           \/ \E idx \in DOMAIN inbox[s] : RmMsg(s, idx)
           \/ RmMsgStored(s)
           \/ RmMsgFails(s)
           \/ InsertMsg(s)
BY DEF Next, Account, Reading, Removing, Sending, Talking

-----------------------------------------------------------------------------
(* The types *)

\* A query returns finitely many rows, of the columns' types.
LEMMA RowsTyped ==
  ASSUME StorageTypeOK, NEW uid
  PROVE  /\ IsFiniteSet(RowsTo(uid))
         /\ \A row \in RowsTo(uid) :
              /\ row.id \in RowId
              /\ TopicEntry(row) \in InboxMessage
<1> DEFINE pairs == {q \in Joined : q[1].dest_user_id = uid}
           row(q) == Row(q[1], q[2])
           f == [q \in pairs |-> row(q)]
<1>1. IsFiniteSet(messages \X users)
  BY FS_Product DEF StorageTypeOK
<1>2. IsFiniteSet(pairs)
  BY <1>1, FS_Subset DEF Joined
<1>3. f \in Surjection(pairs, RowsTo(uid))
  BY DEF Surjection, RowsTo
<1>4. IsFiniteSet(RowsTo(uid))
  BY <1>2, <1>3, FS_Surjection
<1>5. ASSUME NEW r \in RowsTo(uid)
      PROVE  r.id \in RowId /\ TopicEntry(r) \in InboxMessage
  <2>1. PICK m \in messages, u \in users : r = Row(m, u)
    BY DEF RowsTo, Joined
  <2>2. m \in Message /\ u \in User
    BY DEF StorageTypeOK
  <2> QED BY <2>1, <2>2 DEF Row, TopicEntry, ReadEntry, InboxMessage, Message, User
<1> QED BY <1>4, <1>5

\* Finitely many rows give finitely many new entries.
LEMMA FreshFinite ==
  ASSUME NEW box, NEW rows, IsFiniteSet(rows)
  PROVE  IsFiniteSet(Fresh(box, rows))
<1> DEFINE new == {r \in rows : r.id \notin Ids(box)}
           f == [r \in new |-> TopicEntry(r)]
<1>1. IsFiniteSet(new)
  BY FS_Subset
<1>2. f \in Surjection(new, Fresh(box, rows))
  BY DEF Surjection, Fresh
<1> QED BY <1>1, <1>2, FS_Surjection

\* An inbox that was brought up to date has the type of an inbox.
LEMMA BoxTyped ==
  ASSUME TypeOK, NEW s \in Sessions, NEW uid,
         NEW box \in Syncs(inbox[s], RowsTo(uid))
  PROVE  box \in Seq(InboxMessage)
<1>1. inbox[s] \in Seq(InboxMessage)
  BY DEF TypeOK, SessionTypeOK
<1>2. IsFiniteSet(Fresh(inbox[s], RowsTo(uid)))
  BY RowsTyped, FreshFinite DEF TypeOK
<1>3. \A row \in RowsTo(uid) : TopicEntry(row) \in InboxMessage
  BY RowsTyped DEF TypeOK
<1> QED BY <1>1, <1>2, <1>3, SyncsProperties

\* The ids in an inbox form a sequence of ids.
LEMMA IdSeqTyped ==
  ASSUME NEW box \in Seq(InboxMessage)
  PROVE  IdSeq(box) \in Seq(RowId)
<1>1. /\ DOMAIN box = 1..Len(box) /\ Len(box) \in Nat
      /\ \A i \in 1..Len(box) : box[i] \in InboxMessage
  BY LenProperties, ElementOfSeq
<1>2. \A i \in 1..Len(box) : box[i].id \in RowId
  BY <1>1 DEF InboxMessage
<1>3. IdSeq(box) \in [1..Len(box) -> RowId]
  BY <1>1, <1>2 DEF IdSeq
<1> QED BY <1>1, <1>3, SeqDef

\* The types hold at first ...
LEMMA TypeInit == Init => TypeInv
<1> SUFFICES ASSUME Init PROVE TypeInv
  OBVIOUS
<1>1. StorageTypeOK
  BY FS_EmptySet DEF Init, StorageInit, StorageTypeOK
<1>2. NoDraft \in Draft
  BY DEF NoDraft, Draft, NoBody, Plain, Answers
<1>3. <<>> \in Seq(InboxMessage) /\ <<>> \in Seq(RowId)
  BY EmptySeq
<1>4. SessionTypeOK
  BY <1>2, <1>3 DEF Init, SessionTypeOK, Points
<1>5. DraftsWritten
  BY DEF Init, DraftsWritten, WithText
<1> QED BY <1>1, <1>4, <1>5 DEF TypeInv, TypeOK

\* The parts of the invariant that a session's own steps can disturb.
LEMMA TalkingTyped ==
  ASSUME TypeInv, NEW s \in Sessions, Talking(s)
  PROVE  TypeInv'
<1> USE DEF TypeInv
<1>1. StorageTypeOK'
  BY TalkingChangesNothing DEF TypeOK, StorageTypeOK
<1>2. SUFFICES /\ listed' \in [Sessions -> Seq(RowId)]
               /\ pc' \in [Sessions -> Points]
               /\ draft' \in [Sessions -> Draft]
               /\ DraftsWritten'
  BY <1>1, <1>2, TalkingChangesNothing DEF TypeOK, SessionTypeOK
<1>3. /\ listed \in [Sessions -> Seq(RowId)]
      /\ pc \in [Sessions -> Points]
      /\ draft \in [Sessions -> Draft]
      /\ users \subseteq User
  BY DEF TypeOK, SessionTypeOK, StorageTypeOK
<1>4. CASE GreetingFails(s)
  BY <1>3, <1>4 DEF GreetingFails, DraftsWritten, WithText, Points, At
<1>5. ASSUME NEW name \in Usernames, SendMsg(s, name)
      PROVE  /\ listed' \in [Sessions -> Seq(RowId)] /\ pc' \in [Sessions -> Points]
             /\ draft' \in [Sessions -> Draft] /\ DraftsWritten'
  <2>1. PICK u \in users : draft' = [draft EXCEPT ![s] = [NoDraft EXCEPT !.dest = u.id]]
    BY <1>5 DEF SendMsg, UsersNamed
  <2>2. /\ [NoDraft EXCEPT !.dest = u.id] \in Draft
        /\ ~[NoDraft EXCEPT !.dest = u.id].cyphered
    BY <1>3 DEF NoDraft, Draft, NoBody, Plain, Answers, User, RowId
  <2> QED BY <1>3, <1>5, <2>1, <2>2 DEF SendMsg, DraftsWritten, WithText, Points
<1>6. ASSUME NEW topic \in Texts, NEW body \in Texts, WriteMsg(s, topic, body)
      PROVE  /\ listed' \in [Sessions -> Seq(RowId)] /\ pc' \in [Sessions -> Points]
             /\ draft' \in [Sessions -> Draft] /\ DraftsWritten'
  <2>1. Plain(topic) \in Blob /\ Plain(body) \in Blob
        /\ Plain(topic).key = NoKey /\ Plain(body).key = NoKey
    BY DEF Plain, Blob
  <2>2. /\ pc[s] = "writing" /\ ~draft[s].cyphered /\ draft[s] \in Draft
        /\ pc' = [pc EXCEPT ![s] = "cyphering"]
        /\ draft' = [draft EXCEPT ![s] = [draft[s] EXCEPT !.topic = Plain(topic),
                                                        !.body = Plain(body)]]
    BY <1>3, <1>6 DEF WriteMsg, At, DraftsWritten
  <2> HIDE DEF TypeInv
  <2>3. draft' \in [Sessions -> Draft]
    BY <1>3, <2>1, <2>2 DEF Draft
  <2>4. DraftsWritten'
    BY <1>3, <2>1, <2>2 DEF DraftsWritten, WithText, Draft, TypeInv
  <2> QED BY <1>3, <1>6, <2>2, <2>3, <2>4 DEF WriteMsg, Points
<1>7. CASE LeavePlain(s)
  BY <1>3, <1>7 DEF LeavePlain, DraftsWritten, WithText, Points, At
<1>8. ASSUME NEW key \in Keys, CypherMsg(s, key)
      PROVE  /\ listed' \in [Sessions -> Seq(RowId)] /\ pc' \in [Sessions -> Points]
             /\ draft' \in [Sessions -> Draft] /\ DraftsWritten'
  <2>1. PICK done \in {{}, {"topic"}, {"topic", "body"}} :
          draft' = [draft EXCEPT
                     ![s] = [EncryptDraft(draft[s], key, done) EXCEPT !.cyphered = TRUE]]
    BY <1>8 DEF CypherMsg
  <2> DEFINE d == [EncryptDraft(draft[s], key, done) EXCEPT !.cyphered = TRUE]
  <2>2. /\ pc[s] = "cyphering" /\ draft[s] \in Draft
        /\ draft[s].topic \in Blob /\ draft[s].body \in Blob
        /\ pc' = [pc EXCEPT ![s] = "confirming"]
    BY <1>3, <1>8 DEF CypherMsg, At, DraftsWritten, WithText
  <2>3. \A blob \in Blob : Encrypt(blob, key) \in Blob
    BY DEF Encrypt, Blob
  <2>4. /\ d.topic \in Blob /\ d.body \in Blob /\ d.cyphered = TRUE
        /\ d \in Draft
    BY <2>2, <2>3 DEF EncryptDraft, Draft
  <2> HIDE DEF d, TypeInv
  <2>5. draft' = [draft EXCEPT ![s] = d]
    BY <2>1 DEF d
  <2>6. DraftsWritten'
    BY <1>3, <2>2, <2>4, <2>5 DEF DraftsWritten, WithText, TypeInv
  <2> QED BY <1>3, <1>8, <2>2, <2>4, <2>5, <2>6 DEF CypherMsg, Points
<1>9. ASSUME NEW answer \in {"y", "n", "eof"}, ConfirmMsg(s, answer)
      PROVE  /\ listed' \in [Sessions -> Seq(RowId)] /\ pc' \in [Sessions -> Points]
             /\ draft' \in [Sessions -> Draft] /\ DraftsWritten'
  <2>1. /\ listed' \in [Sessions -> Seq(RowId)] /\ pc' \in [Sessions -> Points]
        /\ draft' \in [Sessions -> Draft]
    BY <1>3, <1>9 DEF ConfirmMsg, Points, Draft, Answers
  <2>2. DraftsWritten'
    BY <1>3, <1>9 DEF ConfirmMsg, DraftsWritten, WithText, At, Draft
  <2> QED BY <2>1, <2>2
<1>10. CASE AbandonMsg(s)
  <2>1. NoDraft \in Draft
    BY DEF NoDraft, Draft, NoBody, Plain, Answers
  <2> QED BY <1>3, <1>10, <2>1 DEF AbandonMsg, DraftsWritten, WithText, Points
<1> QED BY <1>4, <1>5, <1>6, <1>7, <1>8, <1>9, <1>10 DEF Talking

\* ... and after every step.
LEMMA TypeStep == TypeInv /\ [Next]_vars => TypeInv'
<1> SUFFICES ASSUME TypeInv, [Next]_vars PROVE TypeInv'
  OBVIOUS
<1>1. CASE UNCHANGED vars
  BY <1>1 DEF vars, TypeInv, TypeOK, StorageTypeOK, SessionTypeOK, DraftsWritten
<1>2. CASE Next
  <2> PICK s \in Sessions :
        \/ Talking(s)
        \/ Start(s)
        \/ Exit(s)
        \/ \E name \in Usernames, password \in Passwords : Register(s, name, password)
        \/ \E name \in Usernames, password \in Passwords : Login(s, name, password)
        \/ Logout(s)
        \/ ListInbox(s)
        \/ \E idx \in DOMAIN inbox[s] : ReadMsg(s, idx)
        \/ \E idx \in DOMAIN inbox[s] : ReadRemovedMsg(s, idx)
        \/ \E idx \in DOMAIN inbox[s] : RmMsg(s, idx)
        \/ RmMsgStored(s)
        \/ RmMsgFails(s)
        \/ InsertMsg(s)
    BY <1>2, Steps
  <2>0. /\ StorageTypeOK /\ SessionTypeOK /\ DraftsWritten
        /\ NoDraft \in Draft
        /\ <<>> \in Seq(InboxMessage) /\ <<>> \in Seq(RowId)
    BY EmptySeq DEF TypeInv, TypeOK, NoDraft, Draft, NoBody, Plain, Answers
  <2>1. CASE Talking(s)
    BY <2>1, TalkingTyped
  <2> USE DEF TypeInv, TypeOK
  <2>2. CASE Start(s)
    BY <2>0, <2>2 DEF Start, storageVars, StorageTypeOK, SessionTypeOK, DraftsWritten
  <2>3. CASE Exit(s)
    <3>1. StorageTypeOK' /\ SessionTypeOK'
      BY <2>0, <2>3 DEF Exit, storageVars, StorageTypeOK, SessionTypeOK, Points
    <3>2. DraftsWritten'
      BY <2>0, <2>3 DEF Exit, SessionTypeOK, DraftsWritten, WithText
    <3> QED BY <3>1, <3>2
  <2>4. ASSUME NEW name \in Usernames, NEW password \in Passwords, Register(s, name, password)
        PROVE  TypeInv'
    <3> DEFINE row == [id |-> sqlite_sequence["users"] + 1, username |-> name,
                       password |-> Digest(password)]
    <3>1. row \in User
      BY <2>0 DEF StorageTypeOK, User, RowId, Digests
    <3>2. IsFiniteSet(users \cup {row})
      BY <2>0, FS_AddElement DEF StorageTypeOK
    <3>3. StorageTypeOK'
      BY <2>0, <2>4, <3>1, <3>2 DEF Register, InsertUser, StorageTypeOK
    <3> QED BY <2>0, <2>4, <3>3 DEF Register, sessionVars, SessionTypeOK, DraftsWritten
  <2>5. ASSUME NEW name \in Usernames, NEW password \in Passwords, Login(s, name, password)
        PROVE  TypeInv'
    <3>1. StorageTypeOK'
      BY <2>0, <2>5 DEF Login, storageVars, StorageTypeOK
    <3>2. PICK u \in users : user' = [user EXCEPT ![s] = u]
      BY <2>5 DEF Login, UsersNamed
    <3>3. u \in User
      BY <2>0 DEF StorageTypeOK
    <3> QED BY <2>0, <2>5, <3>1, <3>2, <3>3
            DEF Login, SessionTypeOK, Points, DraftsWritten, WithText
  <2>6. CASE Logout(s)
    BY <2>0, <2>6 DEF Logout, storageVars, StorageTypeOK, SessionTypeOK, DraftsWritten
  <2>7. CASE ListInbox(s)
    <3>1. StorageTypeOK'
      BY <2>0, <2>7 DEF ListInbox, storageVars, StorageTypeOK
    <3>2. PICK box \in Syncs(inbox[s], RowsTo(user[s].id)) :
            /\ inbox' = [inbox EXCEPT ![s] = box]
            /\ listed' = [listed EXCEPT ![s] = IdSeq(box)]
      BY <2>7 DEF ListInbox
    <3>3. box \in Seq(InboxMessage) /\ IdSeq(box) \in Seq(RowId)
      BY BoxTyped, IdSeqTyped
    <3> QED BY <2>0, <2>7, <3>1, <3>2, <3>3
            DEF ListInbox, SessionTypeOK, Points, DraftsWritten, WithText
  <2>8. ASSUME NEW idx \in DOMAIN inbox[s], ReadMsg(s, idx)
        PROVE  TypeInv'
    <3>1. StorageTypeOK'
      BY <2>0, <2>8 DEF ReadMsg, storageVars, StorageTypeOK
    <3>2. PICK row \in RowsWithId(inbox[s][idx].id) :
            inbox' = [inbox EXCEPT ![s] = SyncAt(inbox[s], idx, row)]
      BY <2>8 DEF ReadMsg
    <3>3. ReadEntry(row) \in InboxMessage
      <4>1. PICK m \in messages, u \in users : row = Row(m, u)
        BY DEF RowsWithId, Joined
      <4>2. m \in Message /\ u \in User
        BY <2>0 DEF StorageTypeOK
      <4> QED BY <4>1, <4>2 DEF Row, ReadEntry, InboxMessage, Message, User
    <3>4. inbox[s] \in Seq(InboxMessage) /\ idx \in 1..Len(inbox[s])
      BY <2>0, LenProperties DEF SessionTypeOK
    <3>5. SyncAt(inbox[s], idx, row) \in Seq(InboxMessage)
      BY <3>3, <3>4, ExceptSeq DEF SyncAt
    <3> QED BY <2>0, <2>8, <3>1, <3>2, <3>5 DEF ReadMsg, SessionTypeOK, DraftsWritten
  <2>9. ASSUME NEW idx \in DOMAIN inbox[s], ReadRemovedMsg(s, idx)
        PROVE  TypeInv'
    <3>1. StorageTypeOK'
      BY <2>0, <2>9 DEF ReadRemovedMsg, storageVars, StorageTypeOK
    <3>2. Erase(inbox[s], idx) \in Seq(InboxMessage)
      BY <2>0, EraseProperties DEF SessionTypeOK
    <3> QED BY <2>0, <2>9, <3>1, <3>2 DEF ReadRemovedMsg, SessionTypeOK, DraftsWritten
  <2>10. ASSUME NEW idx \in DOMAIN inbox[s], RmMsg(s, idx)
         PROVE  TypeInv'
    <3>1. StorageTypeOK'
      BY <2>0, <2>10 DEF RmMsg, storageVars, StorageTypeOK
    <3>2. Erase(inbox[s], idx) \in Seq(InboxMessage)
      BY <2>0, EraseProperties DEF SessionTypeOK
    <3>3. inbox[s][idx].id \in Nat
      <4>1. inbox[s] \in Seq(InboxMessage) /\ idx \in 1..Len(inbox[s])
        BY <2>0, LenProperties DEF SessionTypeOK
      <4>2. inbox[s][idx] \in InboxMessage
        BY <4>1, ElementOfSeq
      <4> QED BY <4>2 DEF InboxMessage, RowId
    <3> QED BY <2>0, <2>10, <3>1, <3>2, <3>3
            DEF RmMsg, SessionTypeOK, Points, DraftsWritten, WithText
  <2>11. CASE RmMsgStored(s)
    <3>1. StorageTypeOK'
      <4>1. /\ messages' = {m \in messages :
                              ~(m.id = victim[s] /\ m.dest_user_id = user[s].id)}
            /\ users' = users /\ sqlite_sequence' = sqlite_sequence
        BY <2>11 DEF RmMsgStored, RemoveMessage
      <4>2. IsFiniteSet(messages')
        BY <2>0, <4>1, FS_Subset DEF StorageTypeOK
      <4> QED BY <2>0, <4>1, <4>2 DEF StorageTypeOK
    <3> QED BY <2>0, <2>11, <3>1 DEF RmMsgStored, SessionTypeOK, Points, DraftsWritten, WithText
  <2>12. CASE RmMsgFails(s)
    BY <2>0, <2>12 DEF RmMsgFails, storageVars, StorageTypeOK, SessionTypeOK, Points,
                       DraftsWritten, WithText
  <2>13. CASE InsertMsg(s)
    <3>1. StorageTypeOK'
      <4> DEFINE row == [id |-> sqlite_sequence["messages"] + 1,
                         orig_user_id |-> user[s].id, dest_user_id |-> draft[s].dest,
                         topic |-> draft[s].topic, body |-> draft[s].body,
                         cyphered |-> draft[s].cyphered]
      <4>1. /\ pc[s] = "sending"
            /\ {user[s].id, draft[s].dest} \subseteq {u.id : u \in users}
            /\ messages' = messages \cup {row}
            /\ sqlite_sequence' = [sqlite_sequence EXCEPT !["messages"] =
                                     sqlite_sequence["messages"] + 1]
            /\ users' = users
        BY <2>13 DEF InsertMsg, InsertMessage, At
      <4>2. user[s].id \in RowId /\ draft[s].dest \in RowId
        <5>1. \A u \in users : u.id \in RowId
          BY <2>0 DEF StorageTypeOK, User
        <5> QED BY <4>1, <5>1
      <4>3. draft[s].topic \in Blob /\ draft[s].body \in Blob /\ draft[s].cyphered \in BOOLEAN
        BY <2>0, <4>1 DEF DraftsWritten, WithText, SessionTypeOK, Draft
      <4>4. row \in Message
        BY <2>0, <4>2, <4>3 DEF Message, RowId, StorageTypeOK
      <4>5. IsFiniteSet(messages \cup {row})
        BY <2>0, FS_AddElement DEF StorageTypeOK
      <4> HIDE DEF row
      <4> QED BY <2>0, <4>1, <4>4, <4>5 DEF StorageTypeOK
    <3> QED BY <2>0, <2>13, <3>1 DEF InsertMsg, SessionTypeOK, Points, DraftsWritten, WithText
  <2> QED BY <2>1, <2>2, <2>3, <2>4, <2>5, <2>6, <2>7, <2>8, <2>9, <2>10, <2>11, <2>12, <2>13
<1> QED BY <1>1, <1>2

\* The tables and the memory of every session have their types, always, and a
\* draft that is about to be sent has a text: no command stores a row that
\* the schema does not allow.
THEOREM TypeCorrect == Spec => []TypeInv
<1>1. Init => TypeInv
  BY TypeInit
<1>2. TypeInv /\ [Next]_vars => TypeInv'
  BY TypeStep
<1> QED BY <1>1, <1>2, PTL DEF Spec

-----------------------------------------------------------------------------
(* The tables *)

\* A step that leaves the database alone keeps it consistent,
LEMMA StorageStays ==
  ASSUME StorageInv, UNCHANGED storageVars
  PROVE  StorageInv'
BY DEF StorageInv, storageVars, OneRowPerUser, IdsGivenOut, SendersStored, UnmarkedIsPlain

\* Only three commands change the database.
LEMMA StorageChanges ==
  ASSUME Next
  PROVE  \/ UNCHANGED storageVars
         \/ \E s \in Sessions, name \in Usernames, password \in Passwords :
              Register(s, name, password)
         \/ \E s \in Sessions : RmMsgStored(s) \/ InsertMsg(s)
<1> PICK s \in Sessions :
      \/ Talking(s)
      \/ Start(s)
      \/ Exit(s)
      \/ \E name \in Usernames, password \in Passwords : Register(s, name, password)
      \/ \E name \in Usernames, password \in Passwords : Login(s, name, password)
      \/ Logout(s)
      \/ ListInbox(s)
      \/ \E idx \in DOMAIN inbox[s] : ReadMsg(s, idx)
      \/ \E idx \in DOMAIN inbox[s] : ReadRemovedMsg(s, idx)
      \/ \E idx \in DOMAIN inbox[s] : RmMsg(s, idx)
      \/ RmMsgStored(s)
      \/ RmMsgFails(s)
      \/ InsertMsg(s)
  BY Steps
<1>1. CASE Talking(s)
  BY <1>1, TalkingChangesNothing DEF storageVars
<1> QED BY <1>1 DEF Start, Exit, Login, Logout, ListInbox, ReadMsg, ReadRemovedMsg, RmMsg,
                    RmMsgFails

\* and so does every step of Next.
LEMMA StorageStep == TypeInv /\ StorageInv /\ [Next]_vars => StorageInv'
<1> SUFFICES ASSUME TypeInv, StorageInv, [Next]_vars PROVE StorageInv'
  OBVIOUS
<1>0. /\ users \subseteq User /\ messages \subseteq Message
      /\ sqlite_sequence \in [{"users", "messages"} -> Nat]
      /\ \A u \in users : u.id \in Nat
      /\ \A m \in messages : m.id \in Nat
  BY DEF TypeInv, TypeOK, StorageTypeOK, User, Message, RowId
<1>1. CASE UNCHANGED storageVars
  BY <1>1, StorageStays
<1>2. ASSUME NEW s \in Sessions, NEW name \in Usernames, NEW password \in Passwords,
             Register(s, name, password)
      PROVE  StorageInv'
  <2> DEFINE row == [id |-> sqlite_sequence["users"] + 1, username |-> name,
                     password |-> Digest(password)]
  <2>1. /\ \A u \in users : u.username # name
        /\ users' = users \cup {row}
        /\ messages' = messages
        /\ sqlite_sequence' =
             [sqlite_sequence EXCEPT !["users"] = sqlite_sequence["users"] + 1]
    BY <1>2 DEF Register, InsertUser, UsersNamed
  <2>2. \A u \in users : u.id # row.id /\ u.id < row.id
    BY <1>0 DEF StorageInv, IdsGivenOut
  <2>3. /\ row.id = sqlite_sequence'["users"] /\ row.username = name
        /\ sqlite_sequence'["messages"] = sqlite_sequence["messages"]
        /\ row.id \in Nat
    BY <1>0, <2>1
  <2> HIDE DEF row
  <2>4. OneRowPerUser'
    BY <2>1, <2>2, <2>3 DEF StorageInv, OneRowPerUser
  <2>5. IdsGivenOut'
    BY <1>0, <2>1, <2>2, <2>3 DEF StorageInv, IdsGivenOut
  <2> QED BY <2>1, <2>4, <2>5 DEF StorageInv, SendersStored, UnmarkedIsPlain
<1>3. ASSUME NEW s \in Sessions, RmMsgStored(s)
      PROVE  StorageInv'
  <2>1. messages' \subseteq messages /\ users' = users /\ sqlite_sequence' = sqlite_sequence
    BY <1>3 DEF RmMsgStored, RemoveMessage
  <2> QED BY <2>1 DEF StorageInv, OneRowPerUser, IdsGivenOut, SendersStored, UnmarkedIsPlain
<1>4. ASSUME NEW s \in Sessions, InsertMsg(s)
      PROVE  StorageInv'
  <2> DEFINE row == [id |-> sqlite_sequence["messages"] + 1,
                     orig_user_id |-> user[s].id, dest_user_id |-> draft[s].dest,
                     topic |-> draft[s].topic, body |-> draft[s].body,
                     cyphered |-> draft[s].cyphered]
  <2>1. /\ pc[s] = "sending"
        /\ user[s].id \in {u.id : u \in users}
        /\ messages' = messages \cup {row}
        /\ sqlite_sequence' =
             [sqlite_sequence EXCEPT !["messages"] = sqlite_sequence["messages"] + 1]
        /\ users' = users
    BY <1>4 DEF InsertMsg, InsertMessage, At
  <2>2. ~row.cyphered => row.topic.key = NoKey /\ row.body.key = NoKey
    BY <2>1 DEF TypeInv, DraftsWritten, WithText
  <2>3. \A m \in messages : m.id # row.id /\ m.id < row.id
    BY <1>0 DEF StorageInv, IdsGivenOut
  <2>4. /\ row.id = sqlite_sequence'["messages"] /\ row.orig_user_id = user[s].id
        /\ sqlite_sequence'["users"] = sqlite_sequence["users"]
        /\ row.id \in Nat
    BY <1>0, <2>1
  <2> HIDE DEF row
  <2>5. IdsGivenOut'
    BY <1>0, <2>1, <2>3, <2>4 DEF StorageInv, IdsGivenOut
  <2>6. SendersStored'
    BY <2>1, <2>4 DEF StorageInv, SendersStored
  <2>7. UnmarkedIsPlain'
    BY <2>1, <2>2 DEF StorageInv, UnmarkedIsPlain
  <2> QED BY <2>1, <2>5, <2>6, <2>7 DEF StorageInv, OneRowPerUser
<1>5. CASE UNCHANGED vars
  BY <1>1, <1>5 DEF vars, storageVars
<1> QED BY <1>1, <1>2, <1>3, <1>4, <1>5, StorageChanges

\* The database is consistent at first.
LEMMA StorageStart == Init => StorageInv
BY DEF Init, StorageInit, StorageInv, OneRowPerUser, IdsGivenOut, SendersStored, UnmarkedIsPlain

\* No interleaving of registrations, logins, sends and removals leaves two
\* rows that share a name or an id: "FATAL: inconsistent data base" is dead
\* code in login, sendmsg and readmsg.
THEOREM StorageCorrect == Spec => []StorageInv
<1>1. Spec => []TypeInv
  BY TypeCorrect
<1>2. Init => StorageInv
  BY StorageStart
<1>3. TypeInv /\ StorageInv /\ [Next]_vars => StorageInv'
  BY StorageStep
<1> QED BY <1>1, <1>2, <1>3, PTL DEF Spec

-----------------------------------------------------------------------------
(* The inboxes *)

\* What other sessions do to the database leaves an inbox as good as it was:
\* users only join, messages only leave.
LEMMA InboxesStay ==
  ASSUME InboxFaithful, InboxNoDuplicates,
         users \subseteq users', messages' \subseteq messages,
         UNCHANGED <<fsm, user, inbox>>
  PROVE  InboxFaithful' /\ InboxNoDuplicates'
BY DEF InboxFaithful, InboxNoDuplicates, LoggedIn, TrueCopy

\* A session that gets another inbox, whose entries are true copies, while
\* the database stays as it is.
LEMMA NewInbox ==
  ASSUME TypeOK, InboxInv, NEW s \in Sessions, LoggedIn(s),
         UNCHANGED <<users, messages, sqlite_sequence, fsm, user>>,
         NEW box, inbox' = [inbox EXCEPT ![s] = box],
         \A i \in DOMAIN box :
           /\ box[i].id <= sqlite_sequence["messages"]
           /\ \A m \in messages : m.id = box[i].id =>
                m.dest_user_id = user[s].id /\ TrueCopy(box[i], m),
         \A i, j \in DOMAIN box : box[i].id = box[j].id => i = j
  PROVE  /\ InboxFaithful' /\ InboxNoDuplicates'
         /\ \A t \in Sessions : \A i \in DOMAIN inbox'[t] :
              inbox'[t][i].id <= sqlite_sequence'["messages"]
<1>1. /\ inbox'[s] = box
      /\ \A t \in Sessions : t # s => inbox'[t] = inbox[t]
  BY DEF TypeOK, SessionTypeOK
<1>2. \A e, m : TrueCopy(e, m) => TrueCopy(e, m)'
  BY DEF TrueCopy
<1>3. InboxFaithful'
  BY <1>1 DEF InboxInv, InboxFaithful, LoggedIn, TrueCopy
<1>4. InboxNoDuplicates'
  BY <1>1 DEF InboxInv, InboxNoDuplicates
<1>5. \A t \in Sessions : \A i \in DOMAIN inbox'[t] :
         inbox'[t][i].id <= sqlite_sequence'["messages"]
  BY <1>1 DEF InboxInv, SessionsClean
<1> QED BY <1>3, <1>4, <1>5

\* What the entry made from a row has to do with the message of its id.
LEMMA RowIsCopy ==
  ASSUME TypeInv, StorageInv, NEW m \in messages, NEW u \in users, m.orig_user_id = u.id,
         NEW n \in messages, n.id = Row(m, u).id
  PROVE  n = m /\ TrueCopy(ReadEntry(Row(m, u)), n) /\ TrueCopy(TopicEntry(Row(m, u)), n)
<1>1. n = m
  BY DEF StorageInv, IdsGivenOut, Row
<1>2. /\ ReadEntry(Row(m, u)).topic = m.topic
      /\ ReadEntry(Row(m, u)).body = m.body
      /\ ReadEntry(Row(m, u)).cyphered = m.cyphered
      /\ ReadEntry(Row(m, u)).user_from = u.username
      /\ TopicEntry(Row(m, u)).topic = m.topic
      /\ TopicEntry(Row(m, u)).body = NoBody
      /\ TopicEntry(Row(m, u)).cyphered = m.cyphered
      /\ TopicEntry(Row(m, u)).user_from = u.username
  BY DEF ReadEntry, TopicEntry, Row
<1> QED BY <1>1, <1>2 DEF TrueCopy

\* A row of the query comes from one stored message and its sender.
LEMMA RowsToOwn ==
  ASSUME NEW uid, NEW row \in RowsTo(uid)
  PROVE  \E m \in messages, u \in users :
           row = Row(m, u) /\ m.orig_user_id = u.id /\ m.dest_user_id = uid
BY DEF RowsTo, Joined

\* Where the entries of a synchronised inbox come from: the first n of them
\* each from a row whose id was not in the inbox, one entry per row; the others
\* keep their ids and follow in their order, copied from a row or left alone.
LEMMA SyncOrigin ==
  ASSUME TypeInv, StorageInv, NEW s \in Sessions,
         NEW box \in Syncs(inbox[s], RowsTo(user[s].id))
  PROVE  \E n \in Nat :
           /\ DOMAIN box = 1..n + Len(inbox[s])
           /\ DOMAIN inbox[s] = 1..Len(inbox[s]) /\ Len(inbox[s]) \in Nat
           /\ \A i \in 1..n :
                \E row \in RowsTo(user[s].id) :
                  box[i] = TopicEntry(row) /\ row.id \notin Ids(inbox[s])
           /\ \A i, j \in 1..n : box[i] = box[j] => i = j
           /\ \A row \in RowsTo(user[s].id) : row.id \notin Ids(inbox[s]) =>
                \E i \in 1..n : box[i] = TopicEntry(row)
           /\ \A j \in DOMAIN inbox[s] :
                /\ box[n + j].id = inbox[s][j].id
                /\ \/ box[n + j] = inbox[s][j]
                   \/ \E row \in RowsTo(user[s].id) : box[n + j] = TopicEntry(row)
<1> DEFINE rows == RowsTo(user[s].id)
           old == inbox[s]
<1>1. old \in Seq(InboxMessage)
  BY DEF TypeInv, TypeOK, SessionTypeOK
<1>2. IsFiniteSet(rows) /\ \A row \in rows : TopicEntry(row) \in InboxMessage
  BY RowsTyped DEF TypeInv, TypeOK
<1>3. IsFiniteSet(Fresh(old, rows))
  BY <1>2, FreshFinite
<1> HIDE DEF rows, old
<1>4. box \in Syncs(old, rows)
  BY DEF rows, old
<1>5. box \in Seq(InboxMessage) /\ SyncResult(box, old, rows)
  BY <1>1, <1>2, <1>3, <1>4, SyncsProperties
<1>6. PICK n \in Nat :
        /\ Len(box) = n + Len(old)
        /\ \A i \in 1..n : box[i] \in Fresh(old, rows)
        /\ \A i, j \in 1..n : box[i] = box[j] => i = j
        /\ \A e \in Fresh(old, rows) : \E i \in 1..n : box[i] = e
        /\ \A i \in DOMAIN old : box[n + i] = Refreshed(old, rows)[i]
  BY <1>5 DEF SyncResult
<1>7. DOMAIN old = 1..Len(old) /\ Len(old) \in Nat /\ DOMAIN box = 1..n + Len(old)
  BY <1>1, <1>5, <1>6, LenProperties
<1>8. \A i \in 1..n : \E row \in rows : box[i] = TopicEntry(row) /\ row.id \notin Ids(old)
  BY <1>6 DEF Fresh
<1>9. \A row \in rows : row.id \notin Ids(old) => \E i \in 1..n : box[i] = TopicEntry(row)
  BY <1>6 DEF Fresh
<1>10. ASSUME NEW j \in DOMAIN old
       PROVE  /\ box[n + j].id = old[j].id
              /\ \/ box[n + j] = old[j]
                 \/ \E row \in rows : box[n + j] = TopicEntry(row)
  <2>1. box[n + j] = Refreshed(old, rows)[j]
    BY <1>6
  <2>2. CASE \E row \in rows : row.id = old[j].id
    <3> DEFINE row == CHOOSE r \in rows : r.id = old[j].id
    <3>1. row \in rows /\ row.id = old[j].id
      BY <2>2
    <3>2. Refreshed(old, rows)[j] = TopicEntry(row)
      BY <2>2 DEF Refreshed
    <3> HIDE DEF row
    <3>3. TopicEntry(row).id = row.id
      BY DEF TopicEntry, ReadEntry
    <3> QED BY <2>1, <3>1, <3>2, <3>3
  <2>3. CASE ~\E row \in rows : row.id = old[j].id
    BY <2>1, <2>3 DEF Refreshed
  <2> QED BY <2>2, <2>3
<1> QED BY <1>6, <1>7, <1>8, <1>9, <1>10 DEF rows, old

\* What inbox leaves in the inbox: true copies of the user's own messages,
\* one entry for each, and all of them.
LEMMA SyncedInbox ==
  ASSUME TypeInv, StorageInv, InboxInv, NEW s \in Sessions, LoggedIn(s),
         NEW box \in Syncs(inbox[s], RowsTo(user[s].id))
  PROVE  /\ \A i \in DOMAIN box :
              /\ box[i].id <= sqlite_sequence["messages"]
              /\ \A m \in messages : m.id = box[i].id =>
                   m.dest_user_id = user[s].id /\ TrueCopy(box[i], m)
         /\ \A i, j \in DOMAIN box : box[i].id = box[j].id => i = j
         /\ \A m \in messages : m.dest_user_id = user[s].id => m.id \in Ids(box)
<1> DEFINE rows == RowsTo(user[s].id)
           old == inbox[s]
<1>1. PICK n \in Nat :
           /\ DOMAIN box = 1..n + Len(old)
           /\ DOMAIN old = 1..Len(old) /\ Len(old) \in Nat
           /\ \A i \in 1..n :
                \E row \in rows : box[i] = TopicEntry(row) /\ row.id \notin Ids(old)
           /\ \A i, j \in 1..n : box[i] = box[j] => i = j
           /\ \A row \in rows : row.id \notin Ids(old) =>
                \E i \in 1..n : box[i] = TopicEntry(row)
           /\ \A j \in DOMAIN old :
                /\ box[n + j].id = old[j].id
                /\ \/ box[n + j] = old[j]
                   \/ \E row \in rows : box[n + j] = TopicEntry(row)
  BY SyncOrigin
<1>2. ASSUME NEW e, NEW row \in rows, e = TopicEntry(row)
      PROVE  /\ e.id = row.id
             /\ e.id <= sqlite_sequence["messages"]
             /\ \A m \in messages : m.id = e.id =>
                  m.dest_user_id = user[s].id /\ TrueCopy(e, m)
  <2>1. PICK m \in messages, u \in users :
          row = Row(m, u) /\ m.orig_user_id = u.id /\ m.dest_user_id = user[s].id
    BY RowsToOwn
  <2>2. e.id = row.id /\ row.id = m.id
    BY <1>2, <2>1 DEF TopicEntry, ReadEntry, Row
  <2>3. m.id <= sqlite_sequence["messages"]
    BY DEF StorageInv, IdsGivenOut
  <2>4. \A k \in messages : k.id = row.id => k = m /\ TrueCopy(TopicEntry(row), k)
    BY <2>1, RowIsCopy
  <2> QED BY <1>2, <2>1, <2>2, <2>3, <2>4
<1>3. ASSUME NEW r1 \in rows, NEW r2 \in rows, r1.id = r2.id
      PROVE  r1 = r2
  <2>1. PICK m1 \in messages, u1 \in users : r1 = Row(m1, u1) /\ m1.orig_user_id = u1.id
    BY RowsToOwn
  <2>2. PICK m2 \in messages, u2 \in users : r2 = Row(m2, u2) /\ m2.orig_user_id = u2.id
    BY RowsToOwn
  <2>3. m1.id = m2.id
    BY <1>3, <2>1, <2>2 DEF Row
  <2>4. m1 = m2
    BY <2>3 DEF StorageInv, IdsGivenOut
  <2>5. u1 = u2
    BY <2>1, <2>2, <2>4 DEF StorageInv, OneRowPerUser
  <2> QED BY <2>1, <2>2, <2>4, <2>5
<1>4. \A j \in DOMAIN old : old[j].id \in Ids(old)
  BY DEF Ids
<1> HIDE DEF rows, old
<1>5. ASSUME NEW i \in DOMAIN box
      PROVE  /\ box[i].id <= sqlite_sequence["messages"]
             /\ \A m \in messages : m.id = box[i].id =>
                  m.dest_user_id = user[s].id /\ TrueCopy(box[i], m)
  <2>1. CASE \E row \in rows : box[i] = TopicEntry(row)
    BY <1>2, <2>1
  <2>2. CASE ~\E row \in rows : box[i] = TopicEntry(row)
    <3>1. i \notin 1..n
      BY <1>1, <2>2
    <3>2. i - n \in DOMAIN old /\ n + (i - n) = i
      BY <1>1, <3>1
    <3>3. box[i] = old[i - n]
      BY <1>1, <2>2, <3>2
    <3> QED BY <3>2, <3>3 DEF InboxInv, SessionsClean, InboxFaithful, old
  <2> QED BY <2>1, <2>2
<1>6. ASSUME NEW i \in DOMAIN box, NEW j \in DOMAIN box, box[i].id = box[j].id
      PROVE  i = j
  <2>1. \A k \in 1..n : box[k].id \notin Ids(old)
    BY <1>1, <1>2
  <2>2. \A k \in DOMAIN box : k \notin 1..n =>
          k - n \in DOMAIN old /\ box[k].id = old[k - n].id /\ box[k].id \in Ids(old)
    <3>1. \A k \in DOMAIN box : k \notin 1..n => k - n \in DOMAIN old /\ n + (k - n) = k
      BY <1>1
    <3>2. \A k \in DOMAIN old : box[n + k].id = old[k].id
      BY <1>1
    <3> QED BY <1>4, <3>1, <3>2
  <2>3. CASE i \in 1..n /\ j \in 1..n
    <3>1. PICK r1 \in rows : box[i] = TopicEntry(r1)
      BY <1>1, <2>3
    <3>2. PICK r2 \in rows : box[j] = TopicEntry(r2)
      BY <1>1, <2>3
    <3>3. r1 = r2
      BY <1>2, <1>3, <1>6, <3>1, <3>2
    <3> QED BY <1>1, <2>3, <3>1, <3>2, <3>3
  <2>4. CASE i \notin 1..n /\ j \notin 1..n
    <3>1. i - n = j - n
      BY <1>6, <2>2, <2>4 DEF InboxInv, InboxNoDuplicates, old
    <3> QED BY <1>1, <3>1
  <2> QED BY <1>6, <2>1, <2>2, <2>3, <2>4
<1>7. ASSUME NEW m \in messages, m.dest_user_id = user[s].id
      PROVE  m.id \in Ids(box)
  <2>1. PICK u \in users : u.id = m.orig_user_id
    BY DEF StorageInv, SendersStored
  <2>2. Row(m, u) \in rows /\ Row(m, u).id = m.id
    <3>1. <<m, u>> \in Joined /\ <<m, u>>[1].dest_user_id = user[s].id
      BY <1>7, <2>1 DEF Joined
    <3> QED BY <3>1 DEF rows, RowsTo, Row
  <2>3. CASE m.id \in Ids(old)
    <3>1. PICK j \in DOMAIN old : old[j].id = m.id
      BY <2>3 DEF Ids
    <3>2. n + j \in DOMAIN box /\ box[n + j].id = m.id
      BY <1>1, <3>1
    <3> QED BY <3>2 DEF Ids
  <2>4. CASE m.id \notin Ids(old)
    <3>1. PICK i \in 1..n : box[i] = TopicEntry(Row(m, u))
      BY <1>1, <2>2, <2>4
    <3>2. i \in DOMAIN box
      BY <1>1
    <3>3. box[i].id = m.id
      BY <1>2, <2>2, <3>1
    <3> QED BY <3>2, <3>3 DEF Ids
  <2> QED BY <2>3, <2>4
<1> QED BY <1>5, <1>6, <1>7

\* A step keeps the inboxes faithful to the database.
LEMMA InboxStep == TypeInv /\ StorageInv /\ InboxInv /\ [Next]_vars => InboxInv'
<1> SUFFICES ASSUME TypeInv, StorageInv, InboxInv, [Next]_vars PROVE InboxInv'
  OBVIOUS
<1>0. /\ TypeOK
      /\ fsm \in [Sessions -> {"off", "main", "logged-in"}]
      /\ user \in [Sessions -> User \cup {NoUser}]
      /\ pc \in [Sessions -> Points]
      /\ victim \in [Sessions -> Nat]
      /\ inbox \in [Sessions -> Seq(InboxMessage)]
      /\ sqlite_sequence["messages"] \in Nat
      /\ \A m \in messages : m.id \in Nat
      /\ \A s \in Sessions : \A i \in DOMAIN inbox[s] : inbox[s][i].id \in RowId
  <2>1. \A s \in Sessions : \A i \in DOMAIN inbox[s] : inbox[s][i] \in InboxMessage
    BY ElementOfSeq, LenProperties DEF TypeInv, TypeOK, SessionTypeOK
  <2> QED BY <2>1 DEF TypeInv, TypeOK, SessionTypeOK, StorageTypeOK, InboxMessage, Message, RowId
<1>1. CASE UNCHANGED vars
  <2>1. InboxFaithful' /\ InboxNoDuplicates'
    BY <1>1, InboxesStay DEF vars, InboxInv
  <2> QED BY <1>1, <2>1 DEF vars, InboxInv, SessionsClean, LoggedIn
<1>2. CASE Next
  <2> PICK s \in Sessions :
        \/ Talking(s)
        \/ Start(s)
        \/ Exit(s)
        \/ \E name \in Usernames, password \in Passwords : Register(s, name, password)
        \/ \E name \in Usernames, password \in Passwords : Login(s, name, password)
        \/ Logout(s)
        \/ ListInbox(s)
        \/ \E idx \in DOMAIN inbox[s] : ReadMsg(s, idx)
        \/ \E idx \in DOMAIN inbox[s] : ReadRemovedMsg(s, idx)
        \/ \E idx \in DOMAIN inbox[s] : RmMsg(s, idx)
        \/ RmMsgStored(s)
        \/ RmMsgFails(s)
        \/ InsertMsg(s)
    BY <1>2, Steps
  <2> DEFINE IdsKnown == \A t \in Sessions : \A i \in DOMAIN inbox[t] :
                           inbox[t][i].id <= sqlite_sequence["messages"]
             MemoryClean == \A t \in Sessions :
                /\ ~LoggedIn(t) => user[t] = NoUser /\ inbox[t] = <<>> /\ pc[t] = "prompt"
                /\ victim[t] # 0 <=> pc[t] = "removing"
  <2>a. IdsKnown /\ MemoryClean /\ InboxFaithful /\ InboxNoDuplicates
    BY DEF InboxInv, SessionsClean
  <2>b. IdsKnown' /\ MemoryClean' /\ InboxFaithful' /\ InboxNoDuplicates' => InboxInv'
    BY DEF InboxInv, SessionsClean
  <2> HIDE DEF IdsKnown, MemoryClean
  <2>1. CASE Talking(s)
    <3>1. InboxFaithful' /\ InboxNoDuplicates' /\ IdsKnown'
      BY <2>1, <2>a, TalkingChangesNothing, InboxesStay DEF IdsKnown
    <3>2. /\ LoggedIn(s) /\ pc[s] # "removing"
          /\ \E point \in Points \ {"removing"} : pc' = [pc EXCEPT ![s] = point]
      BY <2>1, <2>a DEF Talking, GreetingFails, SendMsg, WriteMsg, LeavePlain, CypherMsg,
                        ConfirmMsg, AbandonMsg, At, MemoryClean, Points
    <3>3. MemoryClean'
      BY <1>0, <2>1, <2>a, <3>2, TalkingChangesNothing DEF MemoryClean, LoggedIn
    <3> QED BY <2>b, <3>1, <3>3
  <2>2. CASE Start(s)
    <3>1. InboxFaithful'
      BY <1>0, <2>2, <2>a DEF Start, storageVars, InboxFaithful, TrueCopy, LoggedIn
    <3> QED BY <1>0, <2>2, <2>a, <2>b, <3>1
            DEF Start, storageVars, InboxNoDuplicates, IdsKnown, MemoryClean, LoggedIn
  <2>3. CASE Exit(s)
    <3>1. InboxFaithful'
      BY <1>0, <2>3, <2>a DEF Exit, storageVars, InboxFaithful, TrueCopy, LoggedIn
    <3>2. InboxNoDuplicates' /\ IdsKnown'
      BY <1>0, <2>3, <2>a DEF Exit, storageVars, InboxNoDuplicates, IdsKnown
    <3>3. MemoryClean'
      BY <1>0, <2>3, <2>a DEF Exit, MemoryClean, LoggedIn
    <3> QED BY <2>b, <3>1, <3>2, <3>3
  <2>4. ASSUME NEW name \in Usernames, NEW password \in Passwords, Register(s, name, password)
        PROVE  InboxInv'
    <3>1. /\ users \subseteq users' /\ messages' = messages
          /\ sqlite_sequence'["messages"] = sqlite_sequence["messages"]
          /\ UNCHANGED sessionVars
      BY <2>4 DEF Register, InsertUser, TypeInv, TypeOK, StorageTypeOK
    <3>2. InboxFaithful' /\ InboxNoDuplicates'
      BY <2>a, <3>1, InboxesStay DEF sessionVars
    <3> QED BY <2>a, <2>b, <3>1, <3>2 DEF sessionVars, IdsKnown, MemoryClean, LoggedIn
  <2>5. ASSUME NEW name \in Usernames, NEW password \in Passwords, Login(s, name, password)
        PROVE  InboxInv'
    <3>1. PICK u \in users : user' = [user EXCEPT ![s] = u]
      BY <2>5 DEF Login, UsersNamed
    <3>2. inbox[s] = <<>> /\ pc[s] = "prompt"
      BY <2>5, <2>a DEF Login, MemoryClean, LoggedIn
    <3>3. InboxFaithful'
      BY <1>0, <2>5, <2>a, <3>1, <3>2 DEF Login, storageVars, InboxFaithful, TrueCopy, LoggedIn
    <3>4. MemoryClean'
      BY <1>0, <2>5, <2>a, <3>2 DEF Login, MemoryClean, LoggedIn
    <3> QED BY <2>5, <2>a, <2>b, <3>3, <3>4 DEF Login, storageVars, InboxNoDuplicates, IdsKnown
  <2>6. CASE Logout(s)
    <3>1. InboxFaithful'
      BY <1>0, <2>6, <2>a DEF Logout, storageVars, InboxFaithful, TrueCopy, LoggedIn
    <3>2. InboxNoDuplicates' /\ IdsKnown'
      BY <1>0, <2>6, <2>a DEF Logout, storageVars, InboxNoDuplicates, IdsKnown
    <3>3. MemoryClean'
      BY <1>0, <2>6, <2>a DEF Logout, MemoryClean, LoggedIn, At
    <3> QED BY <2>b, <3>1, <3>2, <3>3
  <2>7. CASE ListInbox(s)
    <3>1. PICK box \in Syncs(inbox[s], RowsTo(user[s].id)) :
            inbox' = [inbox EXCEPT ![s] = box]
      BY <2>7 DEF ListInbox
    <3>2. LoggedIn(s) /\ UNCHANGED <<users, messages, sqlite_sequence, fsm, user>>
      BY <2>7 DEF ListInbox, storageVars
    <3>3. /\ \A i \in DOMAIN box :
              /\ box[i].id <= sqlite_sequence["messages"]
              /\ \A m \in messages : m.id = box[i].id =>
                   m.dest_user_id = user[s].id /\ TrueCopy(box[i], m)
          /\ \A i, j \in DOMAIN box : box[i].id = box[j].id => i = j
      BY <3>2, SyncedInbox
    <3>4. InboxFaithful' /\ InboxNoDuplicates' /\ IdsKnown'
      BY <1>0, <3>1, <3>2, <3>3, NewInbox DEF IdsKnown
    <3>5. MemoryClean'
      BY <1>0, <2>7, <2>a, <3>1, <3>2 DEF ListInbox, MemoryClean, LoggedIn
    <3> QED BY <2>b, <3>4, <3>5
  <2>8. ASSUME NEW idx \in DOMAIN inbox[s], ReadMsg(s, idx)
        PROVE  InboxInv'
    <3>1. PICK row \in RowsWithId(inbox[s][idx].id) :
            inbox' = [inbox EXCEPT ![s] = SyncAt(inbox[s], idx, row)]
      BY <2>8 DEF ReadMsg
    <3>2. LoggedIn(s) /\ UNCHANGED <<users, messages, sqlite_sequence, fsm, user, pc, victim>>
      BY <2>8 DEF ReadMsg, storageVars
    <3>3. PICK m \in messages, u \in users :
            row = Row(m, u) /\ m.orig_user_id = u.id /\ m.id = inbox[s][idx].id
      BY DEF RowsWithId, Joined
    <3> DEFINE box == SyncAt(inbox[s], idx, row)
    <3>4. /\ DOMAIN box = DOMAIN inbox[s]
          /\ box[idx] = ReadEntry(row)
          /\ \A i \in DOMAIN box : i # idx => box[i] = inbox[s][i]
      BY DEF SyncAt
    <3>5. box[idx].id = inbox[s][idx].id
      BY <3>3, <3>4 DEF ReadEntry, Row
    <3>6. \A k \in messages : k.id = box[idx].id =>
            k.dest_user_id = user[s].id /\ TrueCopy(box[idx], k)
      <4>1. \A k \in messages : k.id = Row(m, u).id => TrueCopy(ReadEntry(Row(m, u)), k)
        BY <3>3, RowIsCopy
      <4>2. Row(m, u).id = m.id
        BY DEF Row
      <4>3. \A k \in messages : k.id = inbox[s][idx].id => k.dest_user_id = user[s].id
        BY <2>a, <3>2 DEF InboxFaithful
      <4> QED BY <3>3, <3>4, <3>5, <4>1, <4>2, <4>3
    <3> HIDE DEF box
    <3>7. /\ \A i \in DOMAIN box :
              /\ box[i].id <= sqlite_sequence["messages"]
              /\ \A k \in messages : k.id = box[i].id =>
                   k.dest_user_id = user[s].id /\ TrueCopy(box[i], k)
          /\ \A i, j \in DOMAIN box : box[i].id = box[j].id => i = j
      <4>1. \A i \in DOMAIN box : box[i].id = inbox[s][i].id
        BY <3>4, <3>5
      <4> QED BY <2>a, <3>2, <3>4, <3>6, <4>1 DEF InboxFaithful, InboxNoDuplicates, IdsKnown
    <3>8. inbox' = [inbox EXCEPT ![s] = box]
      BY <3>1 DEF box
    <3>9. InboxFaithful' /\ InboxNoDuplicates' /\ IdsKnown'
      BY <1>0, <3>2, <3>7, <3>8, NewInbox DEF IdsKnown
    <3> QED BY <1>0, <2>a, <2>b, <3>2, <3>8, <3>9 DEF MemoryClean, LoggedIn
  <2>9. ASSUME NEW idx \in DOMAIN inbox[s], inbox' = [inbox EXCEPT ![s] = Erase(inbox[s], idx)],
               LoggedIn(s), UNCHANGED <<users, messages, sqlite_sequence, fsm, user>>
        PROVE  InboxFaithful' /\ InboxNoDuplicates' /\ IdsKnown'
    <3> DEFINE box == Erase(inbox[s], idx)
    <3>1. inbox[s] \in Seq(InboxMessage)
      BY <1>0
    <3>2. \A i \in DOMAIN box : \E j \in DOMAIN inbox[s] : box[i] = inbox[s][j]
      BY <3>1, EraseKeeps
    <3>3. \A i, j \in DOMAIN inbox[s] : inbox[s][i].id = inbox[s][j].id => i = j
      BY <2>a DEF InboxNoDuplicates
    <3>4. \A i, j \in DOMAIN box : box[i].id = box[j].id => i = j
      BY <3>1, <3>3, EraseKeeps
    <3> HIDE DEF box
    <3>5. \A i \in DOMAIN box :
              /\ box[i].id <= sqlite_sequence["messages"]
              /\ \A k \in messages : k.id = box[i].id =>
                   k.dest_user_id = user[s].id /\ TrueCopy(box[i], k)
      BY <2>9, <2>a, <3>2 DEF InboxFaithful, IdsKnown
    <3>6. inbox' = [inbox EXCEPT ![s] = box]
      BY <2>9 DEF box
    <3> QED BY <1>0, <2>9, <3>4, <3>5, <3>6, NewInbox DEF IdsKnown
  <2>10. ASSUME NEW idx \in DOMAIN inbox[s], ReadRemovedMsg(s, idx)
         PROVE  InboxInv'
    <3>1. InboxFaithful' /\ InboxNoDuplicates' /\ IdsKnown'
      BY <2>9, <2>10 DEF ReadRemovedMsg, storageVars
    <3> QED BY <1>0, <2>10, <2>a, <2>b, <3>1 DEF ReadRemovedMsg, MemoryClean, LoggedIn
  <2>11. ASSUME NEW idx \in DOMAIN inbox[s], RmMsg(s, idx)
         PROVE  InboxInv'
    <3>1. InboxFaithful' /\ InboxNoDuplicates' /\ IdsKnown'
      BY <2>9, <2>11 DEF RmMsg, storageVars
    <3>2. inbox[s][idx].id # 0
      BY <1>0 DEF RowId
    <3> QED BY <1>0, <2>11, <2>a, <2>b, <3>1, <3>2 DEF RmMsg, MemoryClean, LoggedIn, At
  <2>12. CASE RmMsgStored(s)
    <3>1. InboxFaithful' /\ InboxNoDuplicates' /\ IdsKnown'
      BY <2>12, <2>a, InboxesStay DEF RmMsgStored, RemoveMessage, IdsKnown
    <3> QED BY <1>0, <2>12, <2>a, <2>b, <3>1 DEF RmMsgStored, MemoryClean, LoggedIn, At
  <2>13. CASE RmMsgFails(s)
    <3>1. InboxFaithful' /\ InboxNoDuplicates' /\ IdsKnown'
      BY <2>13, <2>a, InboxesStay DEF RmMsgFails, storageVars, IdsKnown
    <3> QED BY <1>0, <2>13, <2>a, <2>b, <3>1 DEF RmMsgFails, MemoryClean, LoggedIn, At
  <2>14. CASE InsertMsg(s)
    <3> DEFINE id == sqlite_sequence["messages"] + 1
    <3>1. /\ pc[s] = "sending" /\ pc' = [pc EXCEPT ![s] = "prompt"]
          /\ UNCHANGED <<users, fsm, user, inbox, victim>>
          /\ sqlite_sequence'["messages"] = id
          /\ \A m \in messages' : m \in messages \/ m.id = id
      BY <1>0, <2>14 DEF InsertMsg, InsertMessage, At, TypeInv, TypeOK, StorageTypeOK
    <3>2. id \in Nat /\ \A t \in Sessions : \A i \in DOMAIN inbox[t] :
            inbox[t][i].id # id /\ inbox[t][i].id <= id
      BY <1>0, <2>a DEF IdsKnown, RowId
    <3> HIDE DEF id
    <3>3. InboxFaithful'
      BY <2>a, <3>1, <3>2 DEF InboxFaithful, TrueCopy, LoggedIn
    <3>4. InboxNoDuplicates' /\ IdsKnown'
      BY <2>a, <3>1, <3>2 DEF InboxNoDuplicates, IdsKnown
    <3>5. MemoryClean'
      BY <1>0, <2>a, <3>1 DEF MemoryClean, LoggedIn
    <3> QED BY <2>b, <3>3, <3>4, <3>5
  <2> QED BY <2>1, <2>2, <2>3, <2>4, <2>5, <2>6, <2>7, <2>8, <2>10, <2>11, <2>12, <2>13, <2>14
<1> QED BY <1>1, <1>2

\* The inboxes are faithful at first.
LEMMA InboxStart == Init => InboxInv
BY DEF Init, InboxInv, SessionsClean, InboxFaithful, InboxNoDuplicates, LoggedIn

\* Whatever sessions do at the same time, also several of one user: every
\* entry of an inbox stays a true copy of a message to that user, or of one
\* that is gone, and no message gets a second index.
THEOREM InboxCorrect == Spec => []InboxInv
<1>1. Spec => [](TypeInv /\ StorageInv)
  BY TypeCorrect, StorageCorrect, PTL
<1>2. Init => InboxInv
  BY InboxStart
<1>3. TypeInv /\ StorageInv /\ InboxInv /\ [Next]_vars => InboxInv'
  BY InboxStep
<1> QED BY <1>1, <1>2, <1>3, PTL DEF Spec

-----------------------------------------------------------------------------
(* The addressees *)

\* A step keeps the addressee of every message, written or to be written.
LEMMA AddressStep == TypeInv /\ AddressInv /\ [Next]_vars => AddressInv'
<1> SUFFICES ASSUME TypeInv, AddressInv, [Next]_vars PROVE AddressInv'
  OBVIOUS
<1> DEFINE HasAddressee(t) == pc[t] \in {"writing"} \cup WithText =>
             \E u \in users : u.id = draft[t].dest /\ u.username # user[t].username
           Addressed == \A m \in messages : \E u \in users : u.id = m.dest_user_id
<1>0. /\ pc \in [Sessions -> Points]
      /\ draft \in [Sessions -> Draft]
      /\ user \in [Sessions -> User \cup {NoUser}]
  BY DEF TypeInv, TypeOK, SessionTypeOK
<1>1. Addressed /\ \A t \in Sessions : HasAddressee(t)
  BY DEF AddressInv
<1>2. Addressed' /\ (\A t \in Sessions : HasAddressee(t)') => AddressInv'
  BY DEF AddressInv
<1>3. CASE UNCHANGED vars
  BY <1>1, <1>2, <1>3 DEF vars
<1>4. CASE Next
  <2>1. PICK s \in Sessions :
        \/ Talking(s)
        \/ Start(s)
        \/ Exit(s)
        \/ \E name \in Usernames, password \in Passwords : Register(s, name, password)
        \/ \E name \in Usernames, password \in Passwords : Login(s, name, password)
        \/ Logout(s)
        \/ ListInbox(s)
        \/ \E idx \in DOMAIN inbox[s] : ReadMsg(s, idx)
        \/ \E idx \in DOMAIN inbox[s] : ReadRemovedMsg(s, idx)
        \/ \E idx \in DOMAIN inbox[s] : RmMsg(s, idx)
        \/ RmMsgStored(s)
        \/ RmMsgFails(s)
        \/ InsertMsg(s)
    BY <1>4, Steps
  <2>2. users \subseteq users'
    BY <2>1, TalkingChangesNothing
       DEF Start, Exit, Register, InsertUser, Login, Logout, ListInbox, ReadMsg, ReadRemovedMsg,
           RmMsg, RmMsgStored, RemoveMessage, RmMsgFails, InsertMsg, InsertMessage, storageVars
  <2>3. Addressed'
    <3>1. CASE InsertMsg(s)
      <4>1. /\ draft[s].dest \in {u.id : u \in users}
            /\ \A m \in messages' : m \in messages \/ m.dest_user_id = draft[s].dest
        BY <3>1 DEF InsertMsg, InsertMessage
      <4> QED BY <1>1, <2>2, <4>1
    <3>2. CASE ~InsertMsg(s)
      <4>1. messages' \subseteq messages
        BY <2>1, <3>2, TalkingChangesNothing
           DEF Start, Exit, Register, InsertUser, Login, Logout, ListInbox, ReadMsg,
               ReadRemovedMsg, RmMsg, RmMsgStored, RemoveMessage, RmMsgFails, storageVars
      <4> QED BY <1>1, <2>2, <4>1
    <3> QED BY <3>1, <3>2
  <2>4. \A t \in Sessions \ {s} :
           pc'[t] = pc[t] /\ draft'[t] = draft[t] /\ user'[t] = user[t]
    BY <1>0, <2>1
       DEF Talking, GreetingFails, SendMsg, WriteMsg, LeavePlain, CypherMsg, ConfirmMsg,
           AbandonMsg, Start, Exit, Register, Login, Logout, ListInbox, ReadMsg, ReadRemovedMsg,
           RmMsg, RmMsgStored, RmMsgFails, InsertMsg, sessionVars
  <2>5. HasAddressee(s)'
    <3>1. CASE Talking(s)
      <4>0. user' = user
        BY <3>1, TalkingChangesNothing
      <4>1. ASSUME NEW name \in Usernames, SendMsg(s, name)
            PROVE  HasAddressee(s)'
        <5>1. PICK u \in users : u.username # user[s].username
                 /\ draft' = [draft EXCEPT ![s] = [NoDraft EXCEPT !.dest = u.id]]
          BY <4>1 DEF SendMsg, UsersNamed
        <5>2. draft'[s].dest = u.id
          BY <1>0, <5>1 DEF NoDraft
        <5> QED BY <2>2, <4>0, <5>1, <5>2
      <4>2. CASE pc[s] \in {"writing"} \cup WithText /\ draft'[s].dest = draft[s].dest
        BY <1>1, <2>2, <4>0, <4>2
      <4>3. CASE pc'[s] = "prompt"
        BY <4>3 DEF WithText
      <4>4. ASSUME NEW topic \in Texts, NEW body \in Texts, WriteMsg(s, topic, body)
            PROVE  draft'[s].dest = draft[s].dest /\ pc[s] = "writing"
        BY <1>0, <4>4 DEF WriteMsg, At, Draft
      <4>5. ASSUME NEW key \in Keys, CypherMsg(s, key)
            PROVE  draft'[s].dest = draft[s].dest /\ pc[s] = "cyphering"
        BY <1>0, <4>5 DEF CypherMsg, EncryptDraft, At, Draft
      <4>6. ASSUME NEW answer \in {"y", "n", "eof"}, ConfirmMsg(s, answer)
            PROVE  draft'[s].dest = draft[s].dest /\ pc[s] = "confirming"
        BY <1>0, <4>6 DEF ConfirmMsg, At, Draft
      <4>7. CASE GreetingFails(s) \/ AbandonMsg(s)
        BY <1>0, <4>7, <4>3 DEF GreetingFails, AbandonMsg
      <4>8. CASE LeavePlain(s)
        BY <1>0, <4>8, <4>2 DEF LeavePlain, At, WithText
      <4> QED BY <3>1, <4>1, <4>2, <4>4, <4>5, <4>6, <4>7, <4>8 DEF Talking, WithText
    <3>2. CASE Start(s) \/ (\E name \in Usernames, password \in Passwords : Register(s, name, password))
               \/ (\E idx \in DOMAIN inbox[s] : ReadMsg(s, idx) \/ ReadRemovedMsg(s, idx))
      <4>1. pc' = pc /\ draft' = draft /\ user' = user
        BY <3>2 DEF Start, Register, ReadMsg, ReadRemovedMsg, sessionVars
      <4> QED BY <1>1, <2>2, <4>1
    <3>3. CASE Exit(s) \/ ListInbox(s) \/ RmMsgStored(s) \/ RmMsgFails(s) \/ InsertMsg(s)
      BY <1>0, <3>3 DEF Exit, ListInbox, RmMsgStored, RmMsgFails, InsertMsg, WithText
    <3>4. CASE Logout(s)
      BY <1>0, <3>4 DEF Logout, At, WithText
    <3>5. ASSUME NEW name \in Usernames, NEW password \in Passwords, Login(s, name, password)
          PROVE  HasAddressee(s)'
      BY <1>0, <3>5 DEF Login, WithText
    <3>6. ASSUME NEW idx \in DOMAIN inbox[s], RmMsg(s, idx)
          PROVE  HasAddressee(s)'
      BY <1>0, <3>6 DEF RmMsg, WithText
    <3> HIDE DEF HasAddressee
    <3> QED BY <2>1, <3>1, <3>2, <3>3, <3>4, <3>5, <3>6
  <2>6. \A t \in Sessions : HasAddressee(t)'
    BY <1>1, <2>2, <2>4, <2>5
  <2> QED BY <1>2, <2>3, <2>6
<1> QED BY <1>3, <1>4

\* Every message has an addressee who is registered, and no user writes to
\* themselves: what sendmsg found out before its questions is still true when
\* the message is stored.
THEOREM AddressCorrect == Spec => []AddressInv
<1>1. Init => AddressInv
  BY DEF Init, StorageInit, AddressInv, WithText
<1>2. TypeInv /\ AddressInv /\ [Next]_vars => AddressInv'
  BY AddressStep
<1> QED BY <1>1, <1>2, TypeCorrect, PTL DEF Spec

\* The four layers together: this is the invariant that TLC checks as MailInv.
THEOREM MailCorrect == Spec => []MailInv
<1>1. TypeInv /\ StorageInv /\ InboxInv /\ AddressInv => MailInv
  BY DEF MailInv
<1> QED BY <1>1, TypeCorrect, StorageCorrect, InboxCorrect, AddressCorrect, PTL

-----------------------------------------------------------------------------
(* The positions *)

\* A step keeps every inbox within what was listed, in the order in which it
\* was listed.
LEMMA WithinListingStep == TypeInv /\ InboxWithinListing /\ [Next]_vars => InboxWithinListing'
<1> SUFFICES ASSUME TypeInv, InboxWithinListing, [Next]_vars PROVE InboxWithinListing'
  OBVIOUS
<1> DEFINE Within(box, list) ==
             /\ \A i \in DOMAIN box :
                  \E a \in DOMAIN list : i <= a /\ list[a] = box[i].id
             /\ \A i, j \in DOMAIN box : i < j =>
                  \E a, b \in DOMAIN list :
                    a < b /\ list[a] = box[i].id /\ list[b] = box[j].id
<1>0. /\ inbox \in [Sessions -> Seq(InboxMessage)]
      /\ listed \in [Sessions -> Seq(RowId)]
  BY DEF TypeInv, TypeOK, SessionTypeOK
<1>1. \A t \in Sessions : Within(inbox[t], listed[t])
  BY DEF InboxWithinListing
<1>2. (\A t \in Sessions : Within(inbox'[t], listed'[t])) => InboxWithinListing'
  BY DEF InboxWithinListing
<1>3. ASSUME UNCHANGED <<inbox, listed>>
      PROVE  InboxWithinListing'
  BY <1>3 DEF InboxWithinListing
<1>4. ASSUME NEW s \in Sessions, NEW box, NEW list, Within(box, list),
             inbox' = [inbox EXCEPT ![s] = box], listed' = [listed EXCEPT ![s] = list]
      PROVE  InboxWithinListing'
  <2>1. inbox'[s] = box /\ listed'[s] = list
    BY <1>0, <1>4
  <2>2. \A t \in Sessions : t # s => inbox'[t] = inbox[t] /\ listed'[t] = listed[t]
    BY <1>0, <1>4
  <2> HIDE DEF Within
  <2> QED BY <1>1, <1>2, <1>4, <2>1, <2>2
<1>5. Within(<<>>, <<>>)
  OBVIOUS
<1> HIDE DEF Within
<1>6. ASSUME NEW s \in Sessions, NEW idx \in DOMAIN inbox[s],
             inbox' = [inbox EXCEPT ![s] = Erase(inbox[s], idx)], listed' = listed
      PROVE  InboxWithinListing'
  <2> DEFINE box  == inbox[s]
             rest == Erase(box, idx)
             from(i) == IF i < idx THEN i ELSE i + 1
  <2>1. /\ box \in Seq(InboxMessage) /\ Len(box) \in Nat
        /\ DOMAIN box = 1..Len(box) /\ idx \in 1..Len(box)
    BY <1>0, LenProperties
  <2>2. /\ DOMAIN rest = 1..Len(box) - 1
        /\ \A i \in 1..Len(box) - 1 : rest[i] = box[from(i)]
    <3>1. /\ rest \in Seq(InboxMessage)
          /\ Len(rest) = Len(box) - 1
          /\ \A i \in 1..Len(box) - 1 : rest[i] = IF i < idx THEN box[i] ELSE box[i + 1]
      BY <2>1, EraseProperties
    <3>2. DOMAIN rest = 1..Len(box) - 1
      BY <3>1, LenProperties
    <3>3. \A i \in 1..Len(box) - 1 : rest[i] = box[from(i)]
      BY <3>1
    <3> QED BY <3>2, <3>3
  <2>3. \A i \in 1..Len(box) - 1 : from(i) \in 1..Len(box) /\ i <= from(i)
    BY <2>1
  <2>4. \A i, j \in 1..Len(box) - 1 : i < j => from(i) < from(j)
    BY <2>1
  <2>5. DOMAIN listed[s] = 1..Len(listed[s]) /\ Len(listed[s]) \in Nat
    BY <1>0, LenProperties
  <2>6. Within(box, listed[s])
    BY <1>1
  <2> HIDE DEF box, rest, from
  <2>7. \A i \in DOMAIN rest : \E a \in DOMAIN listed[s] : i <= a /\ listed[s][a] = rest[i].id
    <3> SUFFICES ASSUME NEW i \in DOMAIN rest
                 PROVE  \E a \in DOMAIN listed[s] : i <= a /\ listed[s][a] = rest[i].id
      OBVIOUS
    <3>1. from(i) \in DOMAIN box /\ i <= from(i) /\ rest[i] = box[from(i)] /\ i \in Nat
             /\ from(i) \in Nat
      BY <2>1, <2>2, <2>3
    <3>2. PICK a \in DOMAIN listed[s] : from(i) <= a /\ listed[s][a] = box[from(i)].id
      BY <2>6, <3>1 DEF Within
    <3>3. i <= a
      BY <2>5, <3>1, <3>2
    <3> QED BY <3>1, <3>2, <3>3
  <2>8. \A i, j \in DOMAIN rest : i < j =>
          \E a, b \in DOMAIN listed[s] :
            a < b /\ listed[s][a] = rest[i].id /\ listed[s][b] = rest[j].id
    BY <2>1, <2>2, <2>3, <2>4, <2>6 DEF Within
  <2>9. Within(rest, listed[s])
    BY <2>7, <2>8 DEF Within
  <2>10. inbox' = [inbox EXCEPT ![s] = rest] /\ listed' = [listed EXCEPT ![s] = listed[s]]
    BY <1>0, <1>6 DEF rest, box
  <2> QED BY <1>4, <2>9, <2>10
<1>7. CASE UNCHANGED vars
  BY <1>3, <1>7 DEF vars
<1>8. CASE Next
  <2> PICK s \in Sessions :
        \/ Talking(s)
        \/ Start(s)
        \/ Exit(s)
        \/ \E name \in Usernames, password \in Passwords : Register(s, name, password)
        \/ \E name \in Usernames, password \in Passwords : Login(s, name, password)
        \/ Logout(s)
        \/ ListInbox(s)
        \/ \E idx \in DOMAIN inbox[s] : ReadMsg(s, idx)
        \/ \E idx \in DOMAIN inbox[s] : ReadRemovedMsg(s, idx)
        \/ \E idx \in DOMAIN inbox[s] : RmMsg(s, idx)
        \/ RmMsgStored(s)
        \/ RmMsgFails(s)
        \/ InsertMsg(s)
    BY <1>8, Steps
  <2>1. CASE \/ Talking(s) \/ Start(s) \/ RmMsgStored(s) \/ RmMsgFails(s) \/ InsertMsg(s)
             \/ \E name \in Usernames, password \in Passwords :
                  Register(s, name, password) \/ Login(s, name, password)
    <3>1. UNCHANGED <<inbox, listed>>
      BY <2>1 DEF Talking, GreetingFails, SendMsg, WriteMsg, LeavePlain, CypherMsg, ConfirmMsg,
                  AbandonMsg, Start, RmMsgStored, RmMsgFails, InsertMsg, Register, Login,
                  sessionVars
    <3> QED BY <1>3, <3>1
  <2>2. CASE Exit(s) \/ Logout(s)
    BY <1>4, <1>5, <2>2 DEF Exit, Logout
  <2>3. CASE ListInbox(s)
    <3>1. PICK box \in Syncs(inbox[s], RowsTo(user[s].id)) :
            inbox' = [inbox EXCEPT ![s] = box] /\ listed' = [listed EXCEPT ![s] = IdSeq(box)]
      BY <2>3 DEF ListInbox
    <3>2. box \in Seq(InboxMessage)
      BY BoxTyped DEF TypeInv
    <3>3. DOMAIN box = 1..Len(box) /\ Len(box) \in Nat
      BY <3>2, LenProperties
    <3>4. DOMAIN IdSeq(box) = DOMAIN box /\ \A i \in DOMAIN box : IdSeq(box)[i] = box[i].id
      BY DEF IdSeq
    <3>5. Within(box, IdSeq(box))
      BY <3>3, <3>4 DEF Within
    <3> QED BY <1>4, <3>1, <3>5
  <2>4. ASSUME NEW idx \in DOMAIN inbox[s], ReadMsg(s, idx)
        PROVE  InboxWithinListing'
    <3>1. PICK row \in RowsWithId(inbox[s][idx].id) :
            inbox' = [inbox EXCEPT ![s] = SyncAt(inbox[s], idx, row)] /\ listed' = listed
      BY <2>4 DEF ReadMsg
    <3>2. ReadEntry(row).id = inbox[s][idx].id
      BY DEF RowsWithId, Row, ReadEntry
    <3> DEFINE box == SyncAt(inbox[s], idx, row)
    <3>3. DOMAIN box = DOMAIN inbox[s] /\ \A i \in DOMAIN box : box[i].id = inbox[s][i].id
      BY <3>2 DEF SyncAt
    <3> HIDE DEF box
    <3>4. Within(box, listed[s])
      BY <1>1, <3>3 DEF Within
    <3>5. inbox' = [inbox EXCEPT ![s] = box] /\ listed' = [listed EXCEPT ![s] = listed[s]]
      BY <1>0, <3>1 DEF box
    <3> QED BY <1>4, <3>4, <3>5
  <2>5. ASSUME NEW idx \in DOMAIN inbox[s], ReadRemovedMsg(s, idx) \/ RmMsg(s, idx)
        PROVE  InboxWithinListing'
    BY <1>6, <2>5 DEF ReadRemovedMsg, RmMsg
  <2> QED BY <2>1, <2>2, <2>3, <2>4, <2>5
<1> QED BY <1>7, <1>8

-----------------------------------------------------------------------------
(* The properties of module Mail *)

\* Every variable has its type.
THEOREM Types == Spec => []TypeOK
<1>1. TypeInv => TypeOK
  BY DEF TypeInv
<1> QED BY <1>1, TypeCorrect, PTL

\* A name denotes one account, and an account has one name.
THEOREM Accounts == Spec => []OneRowPerUser
<1>1. StorageInv => OneRowPerUser
  BY DEF StorageInv
<1> QED BY <1>1, StorageCorrect, PTL

\* readmsg shows a user nothing but messages to that user.
THEOREM Faithfulness == Spec => []InboxFaithful
<1>1. InboxInv => InboxFaithful
  BY DEF InboxInv
<1> QED BY <1>1, InboxCorrect, PTL

\* A message has one index at most.
THEOREM NoDuplicates == Spec => []InboxNoDuplicates
<1>1. InboxInv => InboxNoDuplicates
  BY DEF InboxInv
<1> QED BY <1>1, InboxCorrect, PTL

\* However inbox, readmsg and rmmsg follow one another: an index denotes a
\* message that the last listing has under that number or further down.
THEOREM Positions == Spec => []InboxWithinListing
<1>1. Init => InboxWithinListing
  BY DEF Init, InboxWithinListing
<1>2. TypeInv /\ InboxWithinListing /\ [Next]_vars => InboxWithinListing'
  BY WithinListingStep
<1> QED BY <1>1, <1>2, TypeCorrect, PTL DEF Spec

\* What is not marked as cyphered is readable as it stands.
THEOREM Unmarked == Spec => []UnmarkedIsPlain
<1>1. StorageInv => UnmarkedIsPlain
  BY DEF StorageInv
<1> QED BY <1>1, StorageCorrect, PTL

\* inbox lists every message that is stored for the user.
THEOREM Listings == Spec => ListingComplete
<1> DEFINE Complete == \A s \in Sessions : ListInbox(s) =>
             \A m \in messages : m.dest_user_id = user[s].id => m.id \in Ids(inbox'[s])
<1>1. MailInv /\ [Next]_vars => [Complete]_vars
  <2> SUFFICES ASSUME MailInv, NEW s \in Sessions, ListInbox(s),
                      NEW m \in messages, m.dest_user_id = user[s].id
               PROVE  m.id \in Ids(inbox'[s])
    OBVIOUS
  <2>1. PICK box \in Syncs(inbox[s], RowsTo(user[s].id)) :
          inbox' = [inbox EXCEPT ![s] = box]
    BY DEF ListInbox
  <2>2. LoggedIn(s)
    BY DEF ListInbox
  <2>3. m.id \in Ids(box)
    BY <2>2, SyncedInbox DEF MailInv
  <2>4. inbox'[s] = box
    BY <2>1 DEF MailInv, TypeInv, TypeOK, SessionTypeOK
  <2> QED BY <2>3, <2>4
<1> HIDE DEF Complete
<1>2. Spec => [][Complete]_vars
  BY <1>1, MailCorrect, PTL DEF Spec
<1> QED BY <1>2 DEF Complete, ListingComplete
=============================================================================
