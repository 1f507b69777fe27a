--------------------------- MODULE InboxTheorems ---------------------------
(***************************************************************************)
(* What the operations of an inbox do to its entries, for inboxes of any   *)
(* length.  These lemmas carry the proofs about the sessions.              *)
(***************************************************************************)
EXTENDS Inbox, FiniteSets, FiniteSetTheorems, SequenceTheorems, TLAPS

\* erase(idx) takes out the entry at idx, and the entries behind it move up.
LEMMA EraseProperties ==
  ASSUME NEW S, NEW box \in Seq(S), NEW idx \in DOMAIN box
  PROVE  /\ Erase(box, idx) \in Seq(S)
         /\ Len(Erase(box, idx)) = Len(box) - 1
         /\ \A i \in 1..Len(box) - 1 :
              Erase(box, idx)[i] = IF i < idx THEN box[i] ELSE box[i + 1]
<1> DEFINE front == SubSeq(box, 1, idx - 1)
           back  == SubSeq(box, idx + 1, Len(box))
<1>1. Len(box) \in Nat /\ idx \in 1..Len(box) /\ \A i \in 1..Len(box) : box[i] \in S
  BY LenProperties, ElementOfSeq
<1>2. /\ front \in Seq(S) /\ Len(front) = idx - 1
      /\ \A i \in 1..idx - 1 : front[i] = box[i]
  BY <1>1, SubSeqProperties
<1>3. /\ back \in Seq(S) /\ Len(back) = Len(box) - idx
      /\ \A i \in 1..Len(box) - idx : back[i] = box[idx + i]
  <2>1. \A i \in idx + 1 .. Len(box) : box[i] \in S
    BY <1>1
  <2>2. /\ back \in Seq(S)
        /\ Len(back) = IF idx + 1 <= Len(box) THEN Len(box) - (idx + 1) + 1 ELSE 0
        /\ \A i \in 1 .. Len(box) - (idx + 1) + 1 : back[i] = box[idx + 1 + i - 1]
    BY <1>1, <2>1, SubSeqProperties
  <2> QED BY <1>1, <2>2
<1> HIDE DEF front, back
<1>4. /\ front \o back \in Seq(S)
      /\ Len(front \o back) = Len(box) - 1
      /\ \A i \in 1..Len(box) - 1 :
           (front \o back)[i] = IF i <= idx - 1 THEN front[i] ELSE back[i - (idx - 1)]
  <2>1. /\ front \o back \in Seq(S)
        /\ Len(front \o back) = Len(front) + Len(back)
        /\ \A i \in 1 .. Len(front) + Len(back) :
             (front \o back)[i] = IF i <= Len(front) THEN front[i] ELSE back[i - Len(front)]
    BY <1>2, <1>3, ConcatProperties
  <2>2. Len(front) + Len(back) = Len(box) - 1
    BY <1>1, <1>2, <1>3
  <2> QED BY <1>2, <2>1, <2>2
<1>5. Erase(box, idx) = front \o back
  BY DEF Erase, RemoveAt, front, back
<1>6. ASSUME NEW i \in 1..Len(box) - 1
      PROVE  (front \o back)[i] = IF i < idx THEN box[i] ELSE box[i + 1]
  <2>1. CASE i < idx
    BY <1>1, <1>2, <1>4, <2>1
  <2>2. CASE ~(i < idx)
    <3>1. i - (idx - 1) \in 1..Len(box) - idx
      BY <1>1, <2>2
    <3>2. back[i - (idx - 1)] = box[i + 1]
      <4>1. idx + (i - (idx - 1)) = i + 1
        BY <1>1
      <4> QED BY <1>3, <3>1, <4>1
    <3> QED BY <1>1, <1>4, <2>2, <3>2
  <2> QED BY <2>1, <2>2
<1> QED BY <1>4, <1>5, <1>6

\* What is left after erase(idx) was in the inbox before, at one place each.
LEMMA EraseKeeps ==
  ASSUME NEW S, NEW box \in Seq(S), NEW idx \in DOMAIN box
  PROVE  /\ \A i \in DOMAIN Erase(box, idx) :
              \E j \in DOMAIN box : j # idx /\ Erase(box, idx)[i] = box[j]
         /\ (\A i, j \in DOMAIN box : box[i].id = box[j].id => i = j) =>
              \A i, j \in DOMAIN Erase(box, idx) :
                Erase(box, idx)[i].id = Erase(box, idx)[j].id => i = j
<1> DEFINE rest == Erase(box, idx)
           from(i) == IF i < idx THEN i ELSE i + 1
<1>1. Len(box) \in Nat /\ DOMAIN box = 1..Len(box) /\ idx \in 1..Len(box)
  BY LenProperties
<1>2. /\ DOMAIN rest = 1..Len(box) - 1
      /\ \A i \in 1..Len(box) - 1 : rest[i] = box[from(i)]
  BY <1>1, EraseProperties, LenProperties
<1>3. \A i \in 1..Len(box) - 1 : from(i) \in DOMAIN box /\ from(i) # idx
  BY <1>1
<1>4. \A i, j \in 1..Len(box) - 1 : from(i) = from(j) => i = j
  BY <1>1
<1> HIDE DEF rest, from
<1>5. \A i \in DOMAIN rest : \E j \in DOMAIN box : j # idx /\ rest[i] = box[j]
  BY <1>2, <1>3
<1>6. ASSUME \A i, j \in DOMAIN box : box[i].id = box[j].id => i = j
      PROVE  \A i, j \in DOMAIN rest : rest[i].id = rest[j].id => i = j
  BY <1>2, <1>3, <1>4, <1>6
<1> QED BY <1>5, <1>6 DEF rest

\* b is the inbox box after sync(rows).
SyncResult(b, box, rows) ==
  \E n \in Nat :
    /\ Len(b) = n + Len(box)
    /\ \A i \in 1..n : b[i] \in Fresh(box, rows)
    /\ \A i, j \in 1..n : b[i] = b[j] => i = j
    /\ \A e \in Fresh(box, rows) : \E i \in 1..n : b[i] = e
    /\ \A i \in DOMAIN box : b[n + i] = Refreshed(box, rows)[i]

\* sync(rows): new entries, each of a row with an id of its own and all such
\* rows among them, in front of the old ones, which keep their ids and their
\* order and are copied anew if they have a row.
LEMMA SyncsProperties ==
  ASSUME NEW S, NEW box \in Seq(S), NEW rows, NEW b \in Syncs(box, rows),
         IsFiniteSet(Fresh(box, rows)),
         \A row \in rows : TopicEntry(row) \in S
  PROVE  b \in Seq(S) /\ SyncResult(b, box, rows)
<1> DEFINE new == Fresh(box, rows)
           old == Refreshed(box, rows)
           n   == Cardinality(new)
<1>1. PICK f \in SetToSeqs(new) : b = f \o old
  BY DEF Syncs
<1>2. n \in Nat
  BY FS_CardinalityType
<1>3. f \in [1..n -> new] /\ \A i, j \in 1..n : i # j => f[i] # f[j]
  BY <1>1 DEF SetToSeqs
<1>4. new \subseteq S
  BY DEF Fresh
<1>5. f \in Seq(S) /\ Len(f) = n
  <2>1. f \in [1..n -> S]
    BY <1>3, <1>4
  <2> HIDE DEF n
  <2> QED BY <1>2, <2>1, SeqDef, LenProperties
<1>6. old \in Seq(S) /\ Len(old) = Len(box) /\ DOMAIN box = 1..Len(box) /\ Len(box) \in Nat
  <2>1. DOMAIN box = 1..Len(box) /\ Len(box) \in Nat /\ \A i \in 1..Len(box) : box[i] \in S
    BY LenProperties, ElementOfSeq
  <2>2. old = [i \in 1..Len(box) |-> old[i]] /\ \A i \in 1..Len(box) : old[i] \in S
    <3>1. old = [i \in 1..Len(box) |-> IF \E row \in rows : row.id = box[i].id
                                THEN TopicEntry(CHOOSE row \in rows : row.id = box[i].id)
                                ELSE box[i]]
      BY <2>1 DEF Refreshed
    <3> HIDE DEF old
    <3>2. ASSUME NEW i \in 1..Len(box)
          PROVE  old[i] \in S
      <4>1. CASE \E row \in rows : row.id = box[i].id
        <5>1. (CHOOSE row \in rows : row.id = box[i].id) \in rows
          BY <4>1
        <5> QED BY <3>1, <4>1, <5>1
      <4>2. CASE ~\E row \in rows : row.id = box[i].id
        BY <2>1, <3>1, <4>2
      <4> QED BY <4>1, <4>2
    <3> QED BY <3>1, <3>2
  <2> HIDE DEF old
  <2>3. old \in [1..Len(box) -> S]
    BY <2>2
  <2> QED BY <2>1, <2>3, SeqDef, LenProperties
<1>7. \A e \in new : \E i \in 1..n : f[i] = e
  <2>1. f \in Injection(1..n, new)
    BY <1>3 DEF Injection, IsInjective
  <2>2. Cardinality(1..n) = n
    BY <1>2, FS_Interval
  <2>3. f \in Surjection(1..n, new)
    BY <2>1, <2>2, FS_Injection
  <2> QED BY <2>3 DEF Surjection
<1> HIDE DEF new, old, n
<1>8. /\ b \in Seq(S)
      /\ Len(b) = n + Len(box)
      /\ \A i \in 1..n : b[i] = f[i]
      /\ \A i \in DOMAIN box : b[n + i] = old[i]
  <2>1. /\ f \o old \in Seq(S)
        /\ Len(f \o old) = n + Len(box)
        /\ \A i \in 1..n + Len(box) :
             (f \o old)[i] = IF i <= n THEN f[i] ELSE old[i - n]
    <3>1. /\ f \o old \in Seq(S)
          /\ Len(f \o old) = Len(f) + Len(old)
          /\ \A i \in 1 .. Len(f) + Len(old) :
               (f \o old)[i] = IF i <= Len(f) THEN f[i] ELSE old[i - Len(f)]
      BY <1>5, <1>6, ConcatProperties
    <3> QED BY <1>5, <1>6, <3>1
  <2>2. \A i \in 1..n : i \in 1..n + Len(box) /\ i <= n
    BY <1>2, <1>6
  <2>3. \A i \in DOMAIN box : n + i \in 1..n + Len(box) /\ ~(n + i <= n) /\ (n + i) - n = i
    BY <1>2, <1>6
  <2> QED BY <1>1, <2>1, <2>2, <2>3
<1>9. /\ \A i \in 1..n : b[i] \in new
      /\ \A i, j \in 1..n : b[i] = b[j] => i = j
      /\ \A e \in new : \E i \in 1..n : b[i] = e
  BY <1>3, <1>7, <1>8
<1> QED BY <1>2, <1>8, <1>9 DEF new, old, SyncResult
=============================================================================
