---------------------------- MODULE InboxSyncProofs ----------------------------
(***************************************************************************)
(* The loop of Inbox::sync(records) does what the operator Syncs says, for *)
(* inboxes and results of any size: after each record the inbox is what    *)
(* Syncs makes of the records so far.                                      *)
(***************************************************************************)
EXTENDS InboxSync, InboxTheorems

\* The pointwise description of an inbox after sync(rows) is the one by Syncs.
LEMMA ResultSyncs ==
  ASSUME NEW S, NEW box \in Seq(S), NEW rows, NEW b \in Seq(S),
         SyncResult(b, box, rows),
         \A row \in rows : TopicEntry(row) \in S
  PROVE  b \in Syncs(box, rows)
<1> DEFINE new == Fresh(box, rows)
           old == Refreshed(box, rows)
<1>1. PICK n \in Nat :
        /\ Len(b) = n + Len(box)
        /\ \A i \in 1..n : b[i] \in new
        /\ \A i, j \in 1..n : b[i] = b[j] => i = j
        /\ \A e \in new : \E i \in 1..n : b[i] = e
        /\ \A i \in DOMAIN box : b[n + i] = old[i]
  BY DEF SyncResult
<1> DEFINE f == [i \in 1..n |-> b[i]]
<1>2. new \subseteq S
  BY DEF Fresh
<1>3. Len(box) \in Nat /\ DOMAIN box = 1..Len(box) /\ DOMAIN b = 1..Len(b)
  BY LenProperties
<1>4. DOMAIN old = 1..Len(box)
  BY <1>3 DEF Refreshed
<1> HIDE DEF new, old
<1>5. f \in [1..n -> new] /\ \A i, j \in 1..n : f[i] = f[j] => i = j
  BY <1>1
<1>6. Cardinality(new) = n
  <2>1. f \in Bijection(1..n, new)
    BY <1>1, <1>5 DEF Bijection, Injection, Surjection, IsInjective
  <2>2. IsFiniteSet(1..n) /\ Cardinality(1..n) = n
    <3>1. n \in Int /\ 1 \in Int /\ n = IF 1 > n THEN 0 ELSE n - 1 + 1
      BY <1>1
    <3> QED BY <3>1, FS_Interval
  <2> HIDE DEF f
  <2>3. ExistsBijection(1..n, new)
    BY <2>1 DEF ExistsBijection
  <2> QED BY <2>2, <2>3, FS_Bijection
<1>7. f \in SetToSeqs(new)
  BY <1>5, <1>6 DEF SetToSeqs
<1>8. f \in Seq(S) /\ Len(f) = n
  <2>1. f \in [1..n -> S]
    BY <1>2, <1>5
  <2> HIDE DEF f
  <2> QED BY <1>1, <2>1, SeqDef, LenProperties
<1>9. old \in Seq(S) /\ Len(old) = Len(box)
  <2>1. ASSUME NEW i \in 1..Len(box) PROVE old[i] \in S
    <3>1. n + i \in 1..Len(b) /\ old[i] = b[n + i]
      BY <1>1, <1>3, <2>1
    <3> QED BY <3>1, ElementOfSeq
  <2>2. old = [i \in 1..Len(box) |-> old[i]]
    <3>1. old = [i \in DOMAIN old |-> old[i]]
      BY DEF old, Refreshed
    <3> QED BY <1>4, <3>1
  <2>3. old \in [1..Len(box) -> S]
    BY <2>1, <2>2
  <2> QED BY <1>3, <2>3, SeqDef, LenProperties
<1> HIDE DEF f
<1>10. b = f \o old
  <2>1. /\ f \o old \in Seq(S)
        /\ Len(f \o old) = n + Len(box)
        /\ \A i \in 1..n + Len(box) :
             (f \o old)[i] = IF i <= n THEN f[i] ELSE old[i - n]
    <3>1. /\ f \o old \in Seq(S)
          /\ Len(f \o old) = Len(f) + Len(old)
          /\ \A i \in 1 .. Len(f) + Len(old) :
               (f \o old)[i] = IF i <= Len(f) THEN f[i] ELSE old[i - Len(f)]
      BY <1>8, <1>9, ConcatProperties
    <3> QED BY <1>8, <1>9, <3>1
  <2>2. ASSUME NEW i \in 1..Len(b) PROVE b[i] = (f \o old)[i]
    <3>1. i \in 1..n + Len(box)
      BY <1>1
    <3>2. CASE i <= n
      BY <1>1, <1>3, <2>1, <3>1, <3>2 DEF f
    <3>3. CASE ~(i <= n)
      <4>1. i - n \in DOMAIN box /\ n + (i - n) = i
        BY <1>1, <1>3, <3>1, <3>3
      <4>2. b[n + (i - n)] = old[i - n]
        BY <1>1, <4>1
      <4> QED BY <2>1, <3>1, <3>3, <4>1, <4>2
    <3> QED BY <3>2, <3>3
  <2> QED BY <1>1, <2>1, <2>2, SeqEqual
<1> QED BY <1>7, <1>10 DEF Syncs, new, old

\* sync(rows) gives an entry the text of the row of its id and nothing else.
LEMMA RefreshedKeepsIds ==
  ASSUME NEW box, NEW set, NEW i \in DOMAIN box
  PROVE  Refreshed(box, set)[i].id = box[i].id
<1>1. \A r : TopicEntry(r).id = r.id
  BY DEF TopicEntry, ReadEntry
<1>2. CASE \E r \in set : r.id = box[i].id
  <2> DEFINE r == CHOOSE r \in set : r.id = box[i].id
  <2>1. r \in set /\ r.id = box[i].id
    BY <1>2
  <2>2. Refreshed(box, set)[i] = TopicEntry(r)
    BY <1>2 DEF Refreshed
  <2> QED BY <1>1, <2>1, <2>2
<1>3. CASE ~\E r \in set : r.id = box[i].id
  BY <1>3 DEF Refreshed
<1> QED BY <1>2, <1>3

\* b is what sync(rows) has made of box, and row is one that is not among them.
MayTake(S, b, box, rows, row) ==
  /\ box \in Seq(S) /\ b \in Seq(S) /\ TopicEntry(row) \in S
  /\ \A i, j \in DOMAIN box : box[i].id = box[j].id => i = j
  /\ row \notin rows
  /\ \A r, q \in rows \cup {row} : r.id = q.id => r = q
  /\ SyncResult(b, box, rows)

\* One record more: what sync(record) makes of an inbox that has taken in some
\* rows is an inbox that has taken in one more.
LEMMA PlacedStep ==
  ASSUME NEW S, NEW b, NEW box, NEW rows, NEW row, MayTake(S, b, box, rows, row)
  PROVE  /\ Placed(b, row) \in Seq(S)
         /\ SyncResult(Placed(b, row), box, rows \cup {row})
         /\ Len(Placed(b, row)) = Len(b) + (IF IsNew(b, row) THEN 1 ELSE 0)
<1> DEFINE entry == TopicEntry(row)
           more  == rows \cup {row}
           found == {i \in DOMAIN b : b[i].id = row.id}
<1>0. /\ box \in Seq(S) /\ b \in Seq(S) /\ TopicEntry(row) \in S
      /\ \A i, j \in DOMAIN box : box[i].id = box[j].id => i = j
      /\ row \notin rows
      /\ \A r, q \in more : r.id = q.id => r = q
      /\ SyncResult(b, box, rows)
  BY DEF MayTake
<1>1. PICK n \in Nat :
        /\ Len(b) = n + Len(box)
        /\ \A i \in 1..n : b[i] \in Fresh(box, rows)
        /\ \A i, j \in 1..n : b[i] = b[j] => i = j
        /\ \A e \in Fresh(box, rows) : \E i \in 1..n : b[i] = e
        /\ \A i \in DOMAIN box : b[n + i] = Refreshed(box, rows)[i]
  BY <1>0 DEF SyncResult
<1>2. Len(box) \in Nat /\ DOMAIN box = 1..Len(box) /\ DOMAIN b = 1..Len(b)
  BY LenProperties
<1>3. \A r : TopicEntry(r).id = r.id
  BY DEF TopicEntry, ReadEntry
\* The new entries are those of rows; the others have kept their ids.
<1>4. ASSUME NEW i \in 1..n
      PROVE  \E r \in rows : b[i] = TopicEntry(r) /\ b[i].id = r.id /\ r.id \notin Ids(box)
  BY <1>1, <1>3 DEF Fresh
<1>5. \A i \in DOMAIN box : Refreshed(box, rows)[i].id = box[i].id
  BY RefreshedKeepsIds
<1>6. \A i \in DOMAIN box : b[n + i].id = box[i].id
  BY <1>1, <1>5
<1>7. \A i \in 1..n : b[i].id # row.id
  <2> SUFFICES ASSUME NEW i \in 1..n PROVE b[i].id # row.id
    OBVIOUS
  <2>1. PICK r \in rows : b[i].id = r.id
    BY <1>4
  <2> QED BY <1>0, <2>1
\* What the one row more changes in the old entries.
<1>8. ASSUME NEW i \in DOMAIN box
      PROVE  Refreshed(box, more)[i] = IF box[i].id = row.id THEN entry
                                                          ELSE Refreshed(box, rows)[i]
  <2>1. CASE box[i].id = row.id
    <3>1. (CHOOSE r \in more : r.id = box[i].id) = row
      BY <2>1
    <3> QED BY <2>1, <3>1 DEF Refreshed
  <2>2. CASE box[i].id # row.id /\ \E r \in rows : r.id = box[i].id
    <3>1. PICK r \in rows : r.id = box[i].id
      BY <2>2
    <3>2. (CHOOSE q \in more : q.id = box[i].id) = r /\ (CHOOSE q \in rows : q.id = box[i].id) = r
      BY <3>1
    <3> QED BY <2>2, <3>1, <3>2 DEF Refreshed
  <2>3. CASE box[i].id # row.id /\ ~\E r \in rows : r.id = box[i].id
    BY <2>3 DEF Refreshed
  <2> QED BY <2>1, <2>2, <2>3
<1>9. CASE row.id \in Ids(box)
  <2>1. PICK k \in DOMAIN box : box[k].id = row.id
    BY <1>9 DEF Ids
  <2>2. n + k \in DOMAIN b /\ b[n + k].id = row.id
    BY <1>1, <1>2, <1>6, <2>1
  <2>3. found = {n + k}
    <3>1. ASSUME NEW i \in DOMAIN b, b[i].id = row.id PROVE i = n + k
      <4>1. i > n
        BY <1>1, <1>2, <1>7, <3>1
      <4>2. i - n \in DOMAIN box /\ n + (i - n) = i
        BY <1>1, <1>2, <4>1
      <4>3. box[i - n].id = box[k].id
        BY <1>6, <2>1, <3>1, <4>2
      <4> QED BY <1>0, <1>1, <1>2, <2>1, <4>2, <4>3
    <3> QED BY <2>2, <3>1
  <2>4. Placed(b, row) = [b EXCEPT ![n + k] = entry]
    <3>1. n + k \in Int
      BY <1>1, <1>2
    <3>2. (CHOOSE i \in found : \A j \in found : i <= j) = n + k
      BY <2>3, <3>1
    <3> QED BY <2>3, <3>2 DEF Placed
  <2>5. Fresh(box, more) = Fresh(box, rows)
    BY <1>9 DEF Fresh
  <2>6. /\ Placed(b, row) \in Seq(S) /\ Len(Placed(b, row)) = Len(b)
        /\ \A j \in 1..Len(b) : Placed(b, row)[j] = IF j = n + k THEN entry ELSE b[j]
    BY <1>0, <1>2, <2>2, <2>4, ExceptSeq
  <2>7. ~IsNew(b, row)
    BY <2>2 DEF IsNew, Ids
  <2>8. \A i \in 1..n : i \in 1..Len(b) /\ i # n + k
    BY <1>1, <1>2, <2>1
  <2>9. \A i \in DOMAIN box : Placed(b, row)[n + i] = Refreshed(box, more)[i]
    <3> SUFFICES ASSUME NEW i \in DOMAIN box
                 PROVE  Placed(b, row)[n + i] = Refreshed(box, more)[i]
      OBVIOUS
    <3>1. n + i \in 1..Len(b) /\ (n + i = n + k <=> i = k)
      BY <1>1, <1>2, <2>1
    <3>2. box[i].id = row.id <=> i = k
      BY <1>0, <2>1
    <3> QED BY <1>1, <1>8, <2>6, <3>1, <3>2
  <2>10. SyncResult(Placed(b, row), box, more)
    <3> DEFINE d == Placed(b, row)
    <3>1. \A i \in 1..n : d[i] = b[i]
      BY <2>6, <2>8
    <3>2. n \in Nat /\ Len(d) = n + Len(box)
      BY <1>1, <2>6
    <3>3. /\ \A i \in 1..n : d[i] \in Fresh(box, more)
          /\ \A i, j \in 1..n : d[i] = d[j] => i = j
          /\ \A e \in Fresh(box, more) : \E i \in 1..n : d[i] = e
      <4> HIDE DEF d
      <4> QED BY <1>1, <2>5, <3>1
    <3>4. \A i \in DOMAIN box : d[n + i] = Refreshed(box, more)[i]
      BY <2>9
    <3> HIDE DEF d, more
    <3>5. SyncResult(d, box, more)
      BY <3>2, <3>3, <3>4 DEF SyncResult
    <3> QED BY <3>5 DEF d
  <2> QED BY <1>2, <2>6, <2>7, <2>10
<1>10. CASE row.id \notin Ids(box)
  <2>1. found = {}
    <3> SUFFICES ASSUME NEW i \in DOMAIN b, b[i].id = row.id PROVE FALSE
      OBVIOUS
    <3>1. i > n
      BY <1>1, <1>2, <1>7
    <3>2. i - n \in DOMAIN box /\ n + (i - n) = i
      BY <1>1, <1>2, <3>1
    <3>3. box[i - n].id = row.id
      BY <1>6, <3>2
    <3> QED BY <1>10, <3>2, <3>3 DEF Ids
  <2>2. Placed(b, row) = <<entry>> \o b
    BY <2>1 DEF Placed
  <2>3. <<entry>> \in Seq(S) /\ Len(<<entry>>) = 1 /\ <<entry>>[1] = entry
    BY <1>0
  <2> DEFINE c == Placed(b, row)
  <2> HIDE DEF entry
  <2>4. c \in Seq(S) /\ Len(c) = 1 + Len(b)
    BY <1>0, <2>2, <2>3, ConcatProperties
  <2>5. \A i \in 1..1 + Len(b) : c[i] = IF i = 1 THEN entry ELSE b[i - 1]
    <3>1. \A i \in 1..Len(<<entry>>) + Len(b) :
            (<<entry>> \o b)[i] = IF i <= Len(<<entry>>) THEN <<entry>>[i] ELSE b[i - Len(<<entry>>)]
      BY <2>3, ConcatProperties
    <3>2. \A i \in 1..1 + Len(b) : i <= 1 <=> i = 1
      BY <1>1, <1>2
    <3> QED BY <2>2, <2>3, <3>1, <3>2
  <2> HIDE DEF c
  <2>6. Fresh(box, more) = Fresh(box, rows) \cup {entry}
    BY <1>10 DEF Fresh, entry
  <2>7. IsNew(b, row)
    BY <2>1 DEF IsNew, Ids
  <2>8. \A i \in 1..n + 1 : /\ i \in 1..1 + Len(b)
                            /\ i # 1 => i - 1 \in 1..n
    BY <1>1, <1>2
  <2>9. \A i \in 1..n : b[i] # entry
    BY <1>3, <1>7 DEF entry
  <2>10. \A i \in 1..n + 1 : c[i] \in Fresh(box, more)
    BY <1>1, <2>5, <2>6, <2>8
  <2>11. \A i, j \in 1..n + 1 : c[i] = c[j] => i = j
    <3> SUFFICES ASSUME NEW i \in 1..n + 1, NEW j \in 1..n + 1, c[i] = c[j] PROVE i = j
      OBVIOUS
    <3>1. CASE i = 1 \/ j = 1
      BY <2>5, <2>8, <2>9, <3>1
    <3>2. CASE i # 1 /\ j # 1
      <4>1. b[i - 1] = b[j - 1] /\ i - 1 \in 1..n /\ j - 1 \in 1..n
        BY <2>5, <2>8, <3>2
      <4>2. i - 1 = j - 1
        BY <1>1, <4>1
      <4> QED BY <1>1, <4>2
    <3> QED BY <3>1, <3>2
  <2>12. \A e \in Fresh(box, more) : \E i \in 1..n + 1 : c[i] = e
    <3> SUFFICES ASSUME NEW e \in Fresh(box, more) PROVE \E i \in 1..n + 1 : c[i] = e
      OBVIOUS
    <3>1. CASE e = entry
      <4>1. 1 \in 1..n + 1
        BY <1>1
      <4> QED BY <2>5, <2>8, <3>1, <4>1
    <3>2. CASE e \in Fresh(box, rows)
      <4>1. PICK i \in 1..n : b[i] = e
        BY <1>1, <3>2
      <4>2. i + 1 \in 1..n + 1 /\ i + 1 # 1 /\ (i + 1) - 1 = i
        BY <1>1
      <4> QED BY <2>5, <2>8, <4>1, <4>2
    <3> QED BY <2>6, <3>1, <3>2
  <2>13. \A i \in DOMAIN box : c[n + 1 + i] = Refreshed(box, more)[i]
    <3> SUFFICES ASSUME NEW i \in DOMAIN box PROVE c[n + 1 + i] = Refreshed(box, more)[i]
      OBVIOUS
    <3>1. n + 1 + i \in 1..1 + Len(b) /\ n + 1 + i # 1 /\ (n + 1 + i) - 1 = n + i
      BY <1>1, <1>2
    <3>2. box[i].id # row.id
      BY <1>10 DEF Ids
    <3>3. c[n + 1 + i] = b[n + i]
      BY <2>5, <3>1
    <3>4. Refreshed(box, more)[i] = Refreshed(box, rows)[i]
      BY <1>8, <3>2
    <3> QED BY <1>1, <3>3, <3>4
  <2>14. n + 1 \in Nat /\ Len(c) = n + 1 + Len(box)
    BY <1>1, <1>2, <2>4
  <2>15. SyncResult(c, box, more)
    BY <2>10, <2>11, <2>12, <2>13, <2>14 DEF SyncResult
  <2> QED BY <1>1, <1>2, <2>4, <2>7, <2>15 DEF c
<1> QED BY <1>9, <1>10

-----------------------------------------------------------------------------
(* The loop *)

Entries == {EntryOf(id) : id \in 1..MaxId} \cup {TopicEntry(RowOf(id)) : id \in 1..MaxId}

\* The rows that are still to come, ...
Coming == {records[i] : i \in DOMAIN records}

\* ... each of them once; and those that have been are in the inbox.
LoopInv ==
  /\ before \in Seq(Entries)
  /\ \A i, j \in DOMAIN before : before[i].id = before[j].id => i = j
  /\ given \subseteq {RowOf(id) : id \in 1..MaxId}
  /\ records \in Seq(given)
  /\ \A i, j \in DOMAIN records : records[i] = records[j] => i = j
  /\ messages_ \in Seq(Entries)
  /\ SyncResult(messages_, before, given \ Coming)
  /\ new_messages \in Nat
  /\ Len(before) + new_messages = Len(messages_)

LEMMA RowsAndEntries ==
  /\ \A id : RowOf(id).id = id /\ EntryOf(id).id = id
  /\ \A r, q \in {RowOf(id) : id \in 1..MaxId} : r.id = q.id => r = q
  /\ \A r \in {RowOf(id) : id \in 1..MaxId} : TopicEntry(r) \in Entries
  /\ \A r : TopicEntry(r).id = r.id
<1>1. \A id : RowOf(id).id = id /\ EntryOf(id).id = id
  BY DEF RowOf, EntryOf
<1>2. \A r : TopicEntry(r).id = r.id
  BY DEF TopicEntry, ReadEntry
<1> QED BY <1>1, <1>2 DEF Entries

\* A set in an order.
LEMMA Ordered ==
  ASSUME NEW S, IsFiniteSet(S), NEW s \in SetToSeqs(S)
  PROVE  /\ s \in Seq(S)
         /\ \A i, j \in DOMAIN s : s[i] = s[j] => i = j
         /\ S = {s[i] : i \in DOMAIN s}
<1> DEFINE n == Cardinality(S)
<1>1. n \in Nat
  BY FS_CardinalityType
<1>2. s \in [1..n -> S] /\ \A i, j \in 1..n : i # j => s[i] # s[j]
  BY DEF SetToSeqs
<1>3. s \in Injection(1..n, S)
  BY <1>2 DEF Injection, IsInjective
<1> HIDE DEF n
<1>4. Cardinality(1..n) = n
  <2>1. n \in Int /\ 1 \in Int /\ n = IF 1 > n THEN 0 ELSE n - 1 + 1
    BY <1>1
  <2> QED BY <2>1, FS_Interval
<1>5. s \in Surjection(1..n, S)
  BY <1>3, <1>4, FS_Injection DEF n
<1>6. s \in Seq(S)
  BY <1>1, <1>2, SeqDef
<1> QED BY <1>2, <1>5, <1>6 DEF Surjection

LEMMA LoopInit == Init => LoopInv
<1> SUFFICES ASSUME Init PROVE LoopInv
  OBVIOUS
<1>0. \A ids \in SUBSET (1..MaxId) : IsFiniteSet(ids)
  <2>1. IsFiniteSet(1..MaxId)
    BY InboxSyncAssumption, FS_Interval
  <2> QED BY <2>1, FS_Subset
<1>1. PICK ids \in SUBSET (1..MaxId) : \E order \in SetToSeqs(ids) :
        before = [i \in DOMAIN order |-> EntryOf(order[i])]
  BY DEF Init
<1>2. PICK order \in SetToSeqs(ids) : before = [i \in DOMAIN order |-> EntryOf(order[i])]
  BY <1>1
<1>3. order \in Seq(ids) /\ \A i, j \in DOMAIN order : order[i] = order[j] => i = j
  BY <1>0, Ordered
<1>4. before \in Seq(Entries) /\ \A i, j \in DOMAIN before : before[i].id = before[j].id => i = j
  <2>1. Len(order) \in Nat /\ DOMAIN order = 1..Len(order) /\ \A i \in DOMAIN order : order[i] \in ids
    BY <1>3, LenProperties, ElementOfSeq
  <2>2. before \in [1..Len(order) -> Entries]
    BY <1>2, <2>1 DEF Entries
  <2>3. \A i \in DOMAIN before : before[i].id = order[i]
    BY <1>2, RowsAndEntries
  <2> QED BY <1>2, <1>3, <2>1, <2>2, <2>3, SeqDef
<1>5. PICK some \in SUBSET (1..MaxId) :
        given = {RowOf(id) : id \in some} /\ records \in SetToSeqs(given)
  BY DEF Init
<1>6. IsFiniteSet(given)
  <2> DEFINE f == [id \in some |-> RowOf(id)]
  <2>1. f \in Surjection(some, given)
    BY <1>5 DEF Surjection
  <2>2. IsFiniteSet(some)
    BY <1>0
  <2> HIDE DEF f
  <2> QED BY <2>1, <2>2, FS_Surjection
<1>7. /\ records \in Seq(given)
      /\ \A i, j \in DOMAIN records : records[i] = records[j] => i = j
      /\ given = Coming
  BY <1>5, <1>6, Ordered DEF Coming
<1>8. given \subseteq {RowOf(id) : id \in 1..MaxId}
  BY <1>5
<1>9. messages_ = before /\ new_messages = 0 /\ Len(before) \in Nat
  BY <1>4, LenProperties DEF Init
<1>10. SyncResult(before, before, {})
  <2>1. Fresh(before, {}) = {}
    BY DEF Fresh
  <2>2. \A i \in DOMAIN before : Refreshed(before, {})[i] = before[i]
    BY DEF Refreshed
  <2>3. DOMAIN before = 1..Len(before)
    BY <1>4, LenProperties
  <2>4. /\ Len(before) = 0 + Len(before)
        /\ \A i \in 1..0 : FALSE
        /\ \A i \in DOMAIN before : 0 + i = i
    BY <1>9, <2>3
  <2> QED BY <2>1, <2>2, <2>4 DEF SyncResult
<1>11. given \ Coming = {}
  BY <1>7
<1>12. SyncResult(messages_, before, given \ Coming)
  BY <1>9, <1>10, <1>11
<1>13. new_messages \in Nat /\ Len(before) + new_messages = Len(messages_)
  BY <1>9
<1> QED BY <1>4, <1>7, <1>8, <1>9, <1>12, <1>13 DEF LoopInv

LEMMA LoopStep == LoopInv /\ [Next]_vars => LoopInv'
<1> SUFFICES ASSUME LoopInv, [Next]_vars PROVE LoopInv'
  OBVIOUS
<1>1. CASE UNCHANGED vars
  BY <1>1 DEF LoopInv, Coming, vars
<1>2. CASE SyncRecord
  <2> DEFINE row  == Head(records)
             rows == given \ Coming
  <2>1. /\ records # <<>> /\ messages_' = Placed(messages_, row) /\ records' = Tail(records)
        /\ new_messages' = new_messages + (IF IsNew(messages_, row) THEN 1 ELSE 0)
        /\ before' = before /\ given' = given
    BY <1>2 DEF SyncRecord
  <2>2. /\ row \in given /\ records' \in Seq(given)
        /\ Len(records') = Len(records) - 1
        /\ \A i \in 1..Len(records') : records'[i] = records[i + 1]
    BY <2>1, HeadTailProperties DEF LoopInv
  <2>3. /\ Len(records) \in Nat \ {0} /\ DOMAIN records = 1..Len(records)
        /\ DOMAIN records' = 1..Len(records')
        /\ row = records[1]
    <3>1. Len(records) \in Nat /\ DOMAIN records = 1..Len(records)
      BY LenProperties DEF LoopInv
    <3>2. DOMAIN records' = 1..Len(records')
      BY <2>2, LenProperties
    <3>3. Len(records) # 0 /\ row = records[1]
      BY <2>1 DEF LoopInv
    <3> QED BY <3>1, <3>2, <3>3
  <2>4. \A i \in DOMAIN records' : i + 1 \in DOMAIN records /\ i + 1 # 1
    BY <2>2, <2>3
  <2>5. \A i, j \in DOMAIN records' : records'[i] = records'[j] => i = j
    <3> SUFFICES ASSUME NEW i \in DOMAIN records', NEW j \in DOMAIN records',
                        records'[i] = records'[j]
                 PROVE  i = j
      OBVIOUS
    <3>1. records[i + 1] = records[j + 1]
      BY <2>2, <2>3
    <3>2. i + 1 = j + 1
      BY <2>4, <3>1 DEF LoopInv
    <3> QED BY <2>3, <3>2
  <2>6. row \notin rows /\ (given \ Coming)' = rows \cup {row}
    <3>1. row \in Coming
      BY <2>3 DEF Coming
    <3>2. Coming' = Coming \ {row}
      <4>1. Coming' = {records'[i] : i \in DOMAIN records'}
        BY DEF Coming
      <4>2. ASSUME NEW i \in DOMAIN records' PROVE records'[i] \in Coming \ {row}
        <5>1. records'[i] = records[i + 1] /\ i + 1 \in DOMAIN records /\ i + 1 # 1
          BY <2>2, <2>3, <2>4
        <5>2. 1 \in DOMAIN records
          BY <2>3
        <5> QED BY <2>3, <5>1, <5>2 DEF Coming, LoopInv
      <4>3. ASSUME NEW r \in Coming, r # row PROVE \E i \in DOMAIN records' : records'[i] = r
        <5>1. PICK k \in DOMAIN records : records[k] = r
          BY DEF Coming
        <5>2. k - 1 \in DOMAIN records' /\ (k - 1) + 1 = k
          BY <2>2, <2>3, <4>3, <5>1
        <5>3. records'[k - 1] = records[(k - 1) + 1]
          BY <2>2, <2>3, <5>2
        <5> QED BY <5>1, <5>2, <5>3
      <4> QED BY <4>1, <4>2, <4>3
    <3> QED BY <2>1, <2>2, <3>1, <3>2
  <2>7. \A r, q \in rows \cup {row} : r.id = q.id => r = q
    BY <2>2, RowsAndEntries DEF LoopInv
  <2>8. TopicEntry(row) \in Entries
    BY <2>2, RowsAndEntries DEF LoopInv
  <2>9. /\ before \in Seq(Entries) /\ messages_ \in Seq(Entries)
        /\ SyncResult(messages_, before, rows)
        /\ \A i, j \in DOMAIN before : before[i].id = before[j].id => i = j
    BY <2>2 DEF LoopInv
  <2> HIDE DEF row, rows
  <2>14. MayTake(Entries, messages_, before, rows, row)
    BY <2>6, <2>7, <2>8, <2>9 DEF MayTake
  <2>10. /\ Placed(messages_, row) \in Seq(Entries)
         /\ SyncResult(Placed(messages_, row), before, rows \cup {row})
         /\ Len(Placed(messages_, row)) = Len(messages_) + (IF IsNew(messages_, row) THEN 1 ELSE 0)
    BY <2>14, PlacedStep
  <2>11. SyncResult(messages_, before, given \ Coming)'
    <3>1. SyncResult(messages_', before', (given \ Coming)')
      BY <2>1, <2>6, <2>10
    <3> QED BY <3>1
  <2>12. new_messages' \in Nat /\ Len(before) + new_messages' = Len(messages_')
    <3>1. new_messages \in Nat /\ Len(before) \in Nat /\ Len(messages_) \in Nat /\ Len(before) + new_messages = Len(messages_)
      BY <2>9, LenProperties DEF LoopInv
    <3> QED BY <2>1, <2>10, <3>1
  <2> QED BY <2>1, <2>2, <2>5, <2>9, <2>10, <2>11, <2>12 DEF LoopInv
<1> QED BY <1>1, <1>2 DEF Next

LEMMA LoopInvariant == Spec => []LoopInv
BY LoopInit, LoopStep, PTL DEF Spec

-----------------------------------------------------------------------------
(* The theorems *)

LEMMA LoopEnds ==
  ASSUME LoopInv, Done
  PROVE  SyncResult(messages_, before, given)
<1>1. DOMAIN records = 1..Len(records) /\ Len(records) = 0
  BY DEF Done
<1>2. Coming = {}
  BY <1>1 DEF Coming
<1> QED BY <1>2 DEF LoopInv

\* After the last record the inbox is one that Syncs, the step the sessions
\* take as a whole, allows.
THEOREM LoopIsSyncs == Spec => []SyncsIsTheLoop
<1>1. LoopInv => SyncsIsTheLoop
  <2> SUFFICES ASSUME LoopInv, Done PROVE messages_ \in Syncs(before, given)
    BY DEF SyncsIsTheLoop
  <2>1. before \in Seq(Entries) /\ messages_ \in Seq(Entries)
    BY DEF LoopInv
  <2>2. \A row \in given : TopicEntry(row) \in Entries
    BY RowsAndEntries DEF LoopInv
  <2>3. SyncResult(messages_, before, given)
    BY LoopEnds
  <2> QED BY <2>1, <2>2, <2>3, ResultSyncs
<1> QED BY <1>1, LoopInvariant, PTL

\* The numbers in the summary are those of the entries that get listed.
THEOREM LoopCounts == Spec => []SummaryIsTrue
<1>1. LoopInv => SummaryIsTrue
  <2> SUFFICES ASSUME LoopInv, Done
               PROVE  new_messages = Cardinality(Ids(messages_) \ Ids(before))
    BY DEF SummaryIsTrue, LoopInv
  <2>1. PICK n \in Nat :
          /\ Len(messages_) = n + Len(before)
          /\ \A i \in 1..n : messages_[i] \in Fresh(before, given)
          /\ \A i, j \in 1..n : messages_[i] = messages_[j] => i = j
          /\ \A i \in DOMAIN before : messages_[n + i] = Refreshed(before, given)[i]
    BY LoopEnds DEF SyncResult
  <2>2. /\ Len(before) \in Nat /\ DOMAIN before = 1..Len(before)
        /\ DOMAIN messages_ = 1..Len(messages_)
    BY LenProperties DEF LoopInv
  <2>3. new_messages = n
    BY <2>1, <2>2 DEF LoopInv
  <2> DEFINE new == Ids(messages_) \ Ids(before)
             f   == [i \in 1..n |-> messages_[i].id]
  <2>4. \A i \in 1..n : \E r \in given : /\ messages_[i] = TopicEntry(r)
                                        /\ messages_[i].id = r.id
                                        /\ r.id \notin Ids(before)
    BY <2>1, RowsAndEntries DEF Fresh
  <2>5. \A i \in DOMAIN before : messages_[n + i].id = before[i].id
    BY <2>1, RefreshedKeepsIds
  <2>6. \A i \in 1..n : f[i] \in new
    BY <2>1, <2>2, <2>4 DEF Ids
  <2>7. \A i, j \in 1..n : f[i] = f[j] => i = j
    <3> SUFFICES ASSUME NEW i \in 1..n, NEW j \in 1..n, messages_[i].id = messages_[j].id
                 PROVE  i = j
      OBVIOUS
    <3>1. PICK r \in given : messages_[i] = TopicEntry(r) /\ messages_[i].id = r.id
      BY <2>4
    <3>2. PICK q \in given : messages_[j] = TopicEntry(q) /\ messages_[j].id = q.id
      BY <2>4
    <3>3. r = q
      BY <3>1, <3>2, RowsAndEntries DEF LoopInv
    <3> QED BY <2>1, <3>1, <3>2, <3>3
  <2>8. \A id \in new : \E i \in 1..n : f[i] = id
    <3> SUFFICES ASSUME NEW id \in new PROVE \E i \in 1..n : messages_[i].id = id
      OBVIOUS
    <3>1. PICK k \in DOMAIN messages_ : messages_[k].id = id
      BY DEF Ids
    <3>2. CASE k \in 1..n
      BY <3>1, <3>2
    <3>3. CASE k \notin 1..n
      <4>1. k - n \in DOMAIN before /\ n + (k - n) = k
        BY <2>1, <2>2, <3>1, <3>3
      <4>2. before[k - n].id = id
        BY <2>5, <3>1, <4>1
      <4> QED BY <4>1, <4>2 DEF Ids
    <3> QED BY <3>2, <3>3
  <2> HIDE DEF new
  <2>9. f \in Bijection(1..n, new)
    BY <2>6, <2>7, <2>8 DEF Bijection, Injection, Surjection, IsInjective
  <2> HIDE DEF f
  <2>10. IsFiniteSet(1..n) /\ Cardinality(1..n) = n
    <3>1. n \in Int /\ 1 \in Int /\ n = IF 1 > n THEN 0 ELSE n - 1 + 1
      BY <2>1
    <3> QED BY <3>1, FS_Interval
  <2>11. ExistsBijection(1..n, new)
    BY <2>9 DEF ExistsBijection
  <2>12. Cardinality(new) = n
    BY <2>10, <2>11, FS_Bijection
  <2> QED BY <2>3, <2>12 DEF new
<1> QED BY <1>1, LoopInvariant, PTL
=============================================================================
