-------------------------------- MODULE Inbox --------------------------------
(***************************************************************************)
(* The inbox of a logged-in session: a sequence of copies of messages,     *)
(* addressed by position.  The operators are the operations of class       *)
(* Inbox; the sequences themselves belong to the module of the sessions.   *)
(***************************************************************************)
EXTENDS LmailTypes, SequencesExt

Ids(box) == {box[i].id : i \in DOMAIN box}

\* What sync() writes into an entry: everything the row has.
ReadEntry(row) == [id |-> row.id, topic |-> row.topic, body |-> row.body,
                   cyphered |-> row.cyphered, user_from |-> row.username]

\* The rows of command inbox have no body: sync() is given an empty one.
TopicEntry(row) == [ReadEntry(row) EXCEPT !.body = NoBody]

\* Mutated form: erase() takes the index for a position counted from zero.
EraseNext(box, idx) ==
  IF idx < Len(box) THEN RemoveAt(box, idx + 1) ELSE RemoveAt(box, idx)

\* erase(idx): the entries behind idx move up by one.
Erase(box, idx) == RemoveAt(box, idx)

\* sync(idx, row): the entry at idx becomes a copy of the row.
SyncAt(box, idx, row) == [box EXCEPT ![idx] = ReadEntry(row)]

\* sync(rows): the entries of known ids are refreshed in place, those of new
\* ids are put in front one after the other.  Nothing is taken out.  The rows
\* come in no particular order (the query has no ORDER BY), so that the new
\* entries may stand in any order; module InboxSync has the loop itself.
Refreshed(box, rows) ==
  [i \in DOMAIN box |->
     IF \E row \in rows : row.id = box[i].id
     THEN TopicEntry(CHOOSE row \in rows : row.id = box[i].id)
     ELSE box[i]]

\* Mutated form: only messages newer than all the known ones are taken for new.
FreshSinceNewest(box, rows) ==
  {TopicEntry(row) : row \in {r \in rows : \A id \in Ids(box) : r.id > id}}

\* Mutated form: a message that is already in the inbox is put in front again.
FreshAgain(box, rows) == {TopicEntry(row) : row \in rows}

Fresh(box, rows) == {TopicEntry(row) : row \in {r \in rows : r.id \notin Ids(box)}}

Syncs(box, rows) ==
  {new \o Refreshed(box, rows) : new \in SetToSeqs(Fresh(box, rows))}
=============================================================================
