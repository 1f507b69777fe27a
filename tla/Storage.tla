------------------------------- MODULE Storage -------------------------------
(***************************************************************************)
(* The SQLite database that every lmail process opens: two tables and the  *)
(* AUTOINCREMENT counters SQLite keeps for them.  A table is the set of    *)
(* its rows.  Each operation below is one statement, and SQLite runs each  *)
(* statement as a transaction of its own.                                  *)
(***************************************************************************)
EXTENDS LmailTypes, FiniteSets

VARIABLES
  users,            \* the rows of table "users"
  messages,         \* the rows of table "messages"
  sqlite_sequence   \* per table, the largest id it has ever given out

storageVars == <<users, messages, sqlite_sequence>>

StorageTypeOK ==
  /\ users \subseteq User
  /\ messages \subseteq Message
  /\ sqlite_sequence \in [{"users", "messages"} -> Nat]
  /\ IsFiniteSet(users)
  /\ IsFiniteSet(messages)

\* The empty schema that is installed with the program.
StorageInit ==
  /\ users = {}
  /\ messages = {}
  /\ sqlite_sequence = [t \in {"users", "messages"} |-> 0]

-----------------------------------------------------------------------------
(* Queries *)

\* get_all<User>(where username == name)
UsersNamed(name) == {u \in users : u.username = name}

\* select(... join<User> on orig_user_id == User.id, where cond): one record
\* for every pair of a message and its sender.
Joined == {q \in messages \X users : q[1].orig_user_id = q[2].id}

\* The columns that readmsg selects; inbox selects all of them but the body.
Row(m, u) == [id |-> m.id, topic |-> m.topic, cyphered |-> m.cyphered,
              username |-> u.username, body |-> m.body]

\* where dest_user_id == uid
RowsTo(uid) == {Row(p[1], p[2]) : p \in {q \in Joined : q[1].dest_user_id = uid}}

\* where Message.id == id.  There is no condition on the addressee.
RowsWithId(id) == {Row(p[1], p[2]) : p \in {q \in Joined : q[1].id = id}}

-----------------------------------------------------------------------------
(* Statements that change the database *)

\* Mutated form: the column username has lost its UNIQUE constraint.
InsertUserNotUnique(name, digest) ==
  /\ users' = users \cup
       {[id |-> sqlite_sequence["users"] + 1, username |-> name, password |-> digest]}
  /\ sqlite_sequence' = [sqlite_sequence EXCEPT !["users"] = @ + 1]
  /\ UNCHANGED messages

\* INSERT INTO users.  The statement fails, and changes nothing, when the
\* name is taken.
InsertUser(name, digest) ==
  /\ UsersNamed(name) = {}
  /\ users' = users \cup
       {[id |-> sqlite_sequence["users"] + 1, username |-> name, password |-> digest]}
  /\ sqlite_sequence' = [sqlite_sequence EXCEPT !["users"] = @ + 1]
  /\ UNCHANGED messages

\* Mutated form: "id" is a plain primary key, so the largest id is given out
\* again once its row has been removed.
InsertMessageReusingIds(orig, dest, topic, body, cyphered) ==
  LET ids == {m.id : m \in messages}
      id  == IF ids = {} THEN 1 ELSE 1 + CHOOSE i \in ids : \A j \in ids : j <= i
  IN  /\ {orig, dest} \subseteq {u.id : u \in users}
      /\ messages' = messages \cup
           {[id |-> id, orig_user_id |-> orig, dest_user_id |-> dest,
             topic |-> topic, body |-> body, cyphered |-> cyphered]}
      /\ sqlite_sequence' = [sqlite_sequence EXCEPT !["messages"] = @ + 1]
      /\ UNCHANGED users

\* INSERT INTO messages.  Both user ids are foreign keys; AUTOINCREMENT never
\* gives an id out twice, not even after its row was removed.
InsertMessage(orig, dest, topic, body, cyphered) ==
  LET id == sqlite_sequence["messages"] + 1
  IN  /\ {orig, dest} \subseteq {u.id : u \in users}
      /\ messages' = messages \cup
           {[id |-> id, orig_user_id |-> orig, dest_user_id |-> dest,
             topic |-> topic, body |-> body, cyphered |-> cyphered]}
      /\ sqlite_sequence' = [sqlite_sequence EXCEPT !["messages"] = id]
      /\ UNCHANGED users

\* remove_all<Message>(where id == id and dest_user_id == uid)
RemoveMessage(id, uid) ==
  /\ messages' = {m \in messages : ~(m.id = id /\ m.dest_user_id = uid)}
  /\ UNCHANGED <<users, sqlite_sequence>>
=============================================================================
