----------------------------- MODULE InboxSync -----------------------------
(***************************************************************************)
(* Inbox::sync(records) record by record: the loop behind the operator     *)
(* Syncs of module Inbox, which the sessions use as one step, and the two  *)
(* counts from which command inbox words its summary.                      *)
(***************************************************************************)
EXTENDS Inbox, FiniteSets

CONSTANTS
  MaxId,   \* bound: ids of messages are 1..MaxId
  Old,     \* the text of an entry as the inbox had it
  New      \* the text of a row as the database has it

ASSUME InboxSyncAssumption == MaxId \in Nat \ {0}

VARIABLES
  before,         \* the inbox when sync(records) was called
  given,          \* the rows it was called with, as a set
  messages_,      \* the inbox
  records,        \* the rows that are still to come
  new_messages    \* how many entries were put in front

vars == <<before, given, messages_, records, new_messages>>

RowOf(id)   == [id |-> id, topic |-> New, cyphered |-> FALSE, username |-> id, body |-> New]
EntryOf(id) == [id |-> id, topic |-> Old, cyphered |-> FALSE, user_from |-> id, body |-> Old]

\* An inbox holds each id once, in any order, and stale ids with no row; the
\* rows come in any order.
Init ==
  /\ \E ids \in SUBSET (1..MaxId) : \E order \in SetToSeqs(ids) :
       before = [i \in DOMAIN order |-> EntryOf(order[i])]
  /\ \E ids \in SUBSET (1..MaxId) :
       /\ given = {RowOf(id) : id \in ids}
       /\ records \in SetToSeqs(given)
  /\ messages_ = before
  /\ new_messages = 0

\* Mutated form: the iterator is still that of the search, so that a new
\* message overwrites the entry that used to be the first.
PlacedOverFirst(box, row) ==
  LET found == {i \in DOMAIN box : box[i].id = row.id}
  IN  IF found # {}
      THEN [box EXCEPT ![CHOOSE i \in found : \A j \in found : i <= j] = TopicEntry(row)]
      ELSE IF box = <<>> THEN <<TopicEntry(row)>> ELSE [box EXCEPT ![1] = TopicEntry(row)]

\* sync(record): find_if takes the first entry of that id; when there is none,
\* a blank entry is put in front and takes its place.
Placed(box, row) ==
  LET found == {i \in DOMAIN box : box[i].id = row.id}
  IN  IF found # {}
      THEN [box EXCEPT ![CHOOSE i \in found : \A j \in found : i <= j] = TopicEntry(row)]
      ELSE <<TopicEntry(row)>> \o box

IsNew(box, row) == row.id \notin Ids(box)

\* Mutated form: every record counts as new.
SyncRecordCountingAll ==
  /\ records # <<>>
  /\ messages_' = Placed(messages_, Head(records))
  /\ new_messages' = new_messages + 1
  /\ records' = Tail(records)
  /\ UNCHANGED <<before, given>>

SyncRecord ==
  /\ records # <<>>
  /\ messages_' = Placed(messages_, Head(records))
  /\ new_messages' = new_messages + (IF IsNew(messages_, Head(records)) THEN 1 ELSE 0)
  /\ records' = Tail(records)
  /\ UNCHANGED <<before, given>>

Next == SyncRecord

Spec == Init /\ [][Next]_vars

-----------------------------------------------------------------------------
(* Properties *)

Done == records = <<>>

\* The loop computes what Syncs says.
SyncsIsTheLoop == Done => messages_ \in Syncs(before, given)

\* "There are N messages (M new)": the N that are announced are the entries
\* that get listed next, and the M new ones are those that were not in the
\* inbox before.
SummaryIsTrue ==
  Done => /\ Len(before) + new_messages = Len(messages_)
          /\ new_messages = Cardinality(Ids(messages_) \ Ids(before))
=============================================================================
