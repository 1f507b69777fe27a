------------------------------- MODULE Postbox -------------------------------
(***************************************************************************)
(* What lmail promises about messages, without inboxes that have an order, *)
(* commands that take several steps, or accounts: messages are posted from *)
(* one user to another under ids that are never used twice; a reader looks *)
(* at copies; only a reader who first put a copy away can dispose of the   *)
(* message, and of one addressed to that reader only.                      *)
(***************************************************************************)
EXTENDS Naturals

CONSTANTS
  Sessions,
  Names,       \* the users
  Headings,    \* what a message shows in a list
  NoReader     \* the reader of a session that nobody has opened

VARIABLES
  given,       \* the largest id that any message was ever given
  live,        \* the messages that exist
  reader,      \* per session, the user who reads there
  view,        \* per session, the copies of messages that its reader has
  disposing    \* per session, the id of the message being disposed of, or 0

pvars == <<given, live, reader, view, disposing>>

IdsOf(set)   == {m.id : m \in set}
Addressed(u) == {m \in live : m.to = u}

Init ==
  /\ given = 0
  /\ live = {}
  /\ reader = [s \in Sessions |-> NoReader]
  /\ view = [s \in Sessions |-> {}]
  /\ disposing = [s \in Sessions |-> 0]

Open(s) ==
  /\ reader[s] = NoReader
  /\ \E u \in Names : reader' = [reader EXCEPT ![s] = u]
  /\ UNCHANGED <<given, live, view, disposing>>

\* Nothing of one reader is left for the next.
Close(s) ==
  /\ reader[s] # NoReader
  /\ reader' = [reader EXCEPT ![s] = NoReader]
  /\ view' = [view EXCEPT ![s] = {}]
  /\ disposing' = [disposing EXCEPT ![s] = 0]
  /\ UNCHANGED <<given, live>>

Post(s) ==
  /\ reader[s] # NoReader
  /\ \E to \in Names \ {reader[s]}, heading \in Headings :
       live' = live \cup
         {[id |-> given + 1, from |-> reader[s], to |-> to, heading |-> heading]}
  /\ given' = given + 1
  /\ UNCHANGED <<reader, view, disposing>>

\* The reader gets every message addressed to them; copies of messages that
\* are gone may be kept.
Look(s) ==
  /\ reader[s] # NoReader
  /\ view' = [view EXCEPT ![s] = Addressed(reader[s]) \cup
                {c \in @ : c.id \notin IdsOf(Addressed(reader[s]))}]
  /\ UNCHANGED <<given, live, reader, disposing>>

\* The copy of a message that is gone is given up.
Miss(s, c) ==
  /\ c \in view[s]
  /\ c.id \notin IdsOf(live)
  /\ view' = [view EXCEPT ![s] = @ \ {c}]
  /\ UNCHANGED <<given, live, reader, disposing>>

PutAway(s, c) ==
  /\ c \in view[s]
  /\ disposing[s] = 0
  /\ view' = [view EXCEPT ![s] = @ \ {c}]
  /\ disposing' = [disposing EXCEPT ![s] = c.id]
  /\ UNCHANGED <<given, live, reader>>

\* The message is gone, if it still was there, or it stays after all.
Dispose(s) ==
  /\ disposing[s] # 0
  /\ live' \in {live, live \ {m \in Addressed(reader[s]) : m.id = disposing[s]}}
  /\ disposing' = [disposing EXCEPT ![s] = 0]
  /\ UNCHANGED <<given, reader, view>>

Next ==
  \E s \in Sessions :
    \/ Open(s) \/ Close(s) \/ Post(s) \/ Look(s) \/ Dispose(s)
    \/ \E c \in view[s] : Miss(s, c) \/ PutAway(s, c)

Spec == Init /\ [][Next]_pvars
=============================================================================
