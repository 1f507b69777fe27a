------------------------ MODULE CorrespondenceTheorems ------------------------
(***************************************************************************)
(* What one session of a user, killed or failing at any point, guarantees  *)
(* about the letters of any number of peers.  What is proved of the key    *)
(* directory by itself holds of it in company of the letters, too.         *)
(***************************************************************************)
EXTENDS Correspondence, KeyringTheorems

USE DEF At, GoOn, Finish, FindKey, FindAssocKey, FindCypherKey, dirVars

\* The key directory does not know of the letters.
LEMMA DirectoryAsBefore == LetterSpec => Spec
<1>1. LetterInit => Init
  BY DEF LetterInit
<1>2. [LetterNext]_letterVars => [Next]_vars
  BY DEF LetterNext, letterVars, KeysStep, Send
<1> QED BY <1>1, <1>2, PTL DEF LetterSpec, Spec

-----------------------------------------------------------------------------
(* Letters are not orphaned *)

\* What a step of the directory may change of what is held and in use.
LEMMA UseStep ==
  ASSUME PairsInv, Next, NEW pair \in Pairs
  PROVE  /\ pair \in exported' => pair \in exported \/ \E k \in KeyNames : keys[k].pub = pair
         /\ \A k \in KeyNames : keys'[k].pub = pair =>
              keys[k].pub = pair \/ keys[k].priv = pair
<1>0. /\ TypeInv /\ GeneratingAlone /\ keys \in [KeyNames -> KeyDir]
      /\ arg \in [Sessions -> Arg]
  BY DEF PairsInv, TypeInv, TypeOK
<1>h. Absent \notin Pairs /\ Empty \notin Pairs
  BY KeyringAssumption DEF Pairs
<1>1. PICK s \in Sessions :
        \/ UNCHANGED <<keys, exported>>
        \/ MakeKeyDir(s) \/ SavePriv(s) \/ SavePub(s) \/ SaveTorn(s)
        \/ DeleteHalf(s) \/ DeleteDir(s) \/ CopyExported(s)
  BY DirChanges DEF Link, RemoveLink, RmKeyAssocYes, CreateImport, FillImport,
     RmKeyImpYes
<1>2. CASE UNCHANGED <<keys, exported>>
  BY <1>2
<1>3. CASE MakeKeyDir(s)
  BY <1>0, <1>3 DEF MakeKeyDir, KeyDir
<1>4. CASE SavePriv(s)
  BY <1>0, <1>4 DEF SavePriv, KeyDir
<1>5. CASE SavePub(s)
  <2>1. keys[arg[s].key].priv = arg[s].pair /\ arg[s].key \in KeyNames
    BY <1>0, <1>5 DEF SavePub, GeneratingAlone
  <2> QED BY <1>0, <1>5, <2>1 DEF SavePub, KeyDir
<1>6. CASE SaveTorn(s)
  BY <1>0, <1>6, <1>h DEF SaveTorn, KeyDir
<1>7. CASE DeleteHalf(s)
  BY <1>0, <1>7, <1>h DEF DeleteHalf, KeyDir
<1>8. CASE DeleteDir(s)
  BY <1>0, <1>8, <1>h DEF DeleteDir, NoDir
<1>9. CASE CopyExported(s)
  <2>1. arg[s].key \in KeyNames
    BY <1>0, <1>9 DEF CopyExported, TypeInv, KnownByThen
  <2> QED BY <1>9, <2>1 DEF CopyExported
<1> QED BY <1>1, <1>2, <1>3, <1>4, <1>5, <1>6, <1>7, <1>8, <1>9

\* A step of the directory keeps or loses the private halves that are in use.
LEMMA HeldStep ==
  ASSUME TypeInv', PairsInv, HeldOrLost, KeysStep
  PROVE  HeldOrLost'
<1> SUFFICES ASSUME NEW pair \in Pairs, InUse(pair)'
             PROVE  (Holders(pair) # {} \/ pair \in lost)'
  BY DEF HeldOrLost
<1>1. Next /\ post' = post /\ lost \subseteq lost'
  BY DEF KeysStep
<1>2. InUse(pair) \/ Holders(pair) # {}
  <2>1. CASE \E k \in KeyNames : keys'[k].pub = pair
    BY <1>1, <2>1, UseStep DEF InUse, Holders
  <2>2. CASE pair \in exported'
    BY <1>1, <2>2, UseStep DEF InUse
  <2>3. CASE \E m \in post' : m.key = pair
    BY <1>1, <2>3 DEF InUse
  <2> QED BY <2>1, <2>2, <2>3 DEF InUse
<1>3. CASE pair \in lost
  BY <1>1, <1>3
<1>4. CASE pair \notin lost
  <2>1. PICK k \in KeyNames : keys[k].priv = pair
    BY <1>2, <1>4 DEF HeldOrLost, Holders
  <2>2. keys'[k].priv \in {pair, Absent}
    BY <1>1, <2>1, KeptStep
  <2>3. CASE keys'[k].priv = pair
    BY <2>3 DEF Holders
  <2>4. CASE keys'[k].priv = Absent
    BY <2>1, <2>4 DEF KeysStep
  <2> QED BY <2>2, <2>3, <2>4
<1> QED BY <1>3, <1>4

\* A letter that is sent is cyphered for a pair that is in use already.
LEMMA SendKeepsInv ==
  ASSUME LetterInv, NEW p \in Peers, Send(p)
  PROVE  LetterInv'
<1>1. UNCHANGED vars /\ lost' = lost
  BY DEF Send
<1>2. PICK m : /\ post' = post \cup {m} /\ m \in Letter
               /\ m.key \in {0} \cup (exported \cap Pairs)
  <2>0. MaxPairs \in Nat
    BY KeyringAssumption
  <2>1. CASE SendPlain(p)
    <3> DEFINE letter == [from |-> p, cyphered |-> FALSE, key |-> 0]
    <3>1. letter \in Letter /\ letter.key = 0
      BY <2>0 DEF Letter
    <3>2. post' = post \cup {letter}
      BY <2>1 DEF SendPlain
    <3> HIDE DEF letter
    <3> QED BY <3>1, <3>2
  <2>2. CASE SendCyphered(p)
    <3>1. PICK pair \in {0} \cup (exported \cap Pairs) :
            post' = post \cup {[from |-> p, cyphered |-> TRUE, key |-> pair]}
      BY <2>2 DEF SendCyphered
    <3> DEFINE letter == [from |-> p, cyphered |-> TRUE, key |-> pair]
    <3>2. letter \in Letter /\ letter.key = pair
      BY <2>0 DEF Letter, Pairs
    <3>3. post' = post \cup {letter}
      BY <3>1
    <3> HIDE DEF letter
    <3> QED BY <3>2, <3>3
  <2> QED BY <2>1, <2>2 DEF Send
<1>3. LetterTypeOK'
  BY <1>1, <1>2 DEF LetterInv, LetterTypeOK, TypeInv, TypeOK, KnownByThen, vars
<1>4. PairsInv'
  BY <1>1, <1>3 DEF LetterInv, LetterTypeOK, PairsInv, GeneratingAlone, PairsMatch, vars
<1>5. HeldOrLost'
  <2>1. 0 \notin Pairs
    BY DEF Pairs
  <2>2. \A pair \in Pairs : InUse(pair)' => InUse(pair)
    BY <1>1, <1>2, <2>1 DEF InUse, vars
  <2> QED BY <1>1, <2>2 DEF LetterInv, HeldOrLost, Holders, vars
<1> QED BY <1>3, <1>4, <1>5 DEF LetterInv

\* In one session, killed or failing at any point: keys and links are well formed,
\* what keygen is about to make is not there yet and the halves of a pair match,
\* and for whatever a peer has got from keyexp or has cyphered with, the private
\* half is in the directory until rmkey deletes it.
THEOREM LetterInvariant ==
  ASSUME \A s, t \in Sessions : s = t
  PROVE  LetterSpec => []LetterInv
<1>1. LetterInit => LetterInv
  <2> SUFFICES ASSUME LetterInit PROVE LetterInv
    OBVIOUS
  <2>1. Init /\ post = {} /\ lost = {}
    BY DEF LetterInit
  <2>2. TypeInv
    BY <2>1, TypeInvInit
  <2>3. Absent \notin Pairs
    BY KeyringAssumption DEF Pairs
  <2>4. GeneratingAlone /\ PairsMatch
    BY <2>1, <2>3 DEF Init, GeneratingAlone, PairsMatch, NoDir
  <2>5. \A pair \in Pairs : ~InUse(pair)
    BY <2>1, <2>3 DEF Init, InUse, NoDir
  <2> QED BY <2>1, <2>2, <2>4, <2>5 DEF LetterInv, LetterTypeOK, PairsInv, HeldOrLost
<1>2. ASSUME LetterInv, [LetterNext]_letterVars
      PROVE  LetterInv'
  <2>1. CASE UNCHANGED letterVars
    <3>1. UNCHANGED vars /\ post' = post /\ lost' = lost
      BY <2>1 DEF letterVars
    <3>2. LetterTypeOK'
      BY <1>2, <3>1, TypeInvStep DEF LetterInv, LetterTypeOK
    <3>3. PairsInv'
      BY <1>2, <3>1, <3>2 DEF LetterInv, LetterTypeOK, PairsInv, GeneratingAlone, PairsMatch, vars
    <3>4. HeldOrLost'
      BY <1>2, <3>1 DEF LetterInv, HeldOrLost, InUse, Holders, vars
    <3> QED BY <3>2, <3>3, <3>4 DEF LetterInv
  <2>2. CASE \E p \in Peers : Send(p)
    BY <1>2, <2>2, SendKeepsInv
  <2>3. CASE KeysStep
    <3>1. Next /\ TypeInv /\ PairsInv /\ HeldOrLost
      BY <1>2, <2>3 DEF KeysStep, LetterInv, LetterTypeOK
    <3>2. TypeInv'
      BY <3>1, TypeInvStep
    <3>3. PairsInv'
      BY <3>1, <3>2, PairsStep DEF PairsInv
    <3>4. HeldOrLost'
      BY <2>3, <3>1, <3>2, HeldStep
    <3>5. post' \subseteq Letter /\ lost' \subseteq Pairs
      BY <1>2, <2>3 DEF KeysStep, LetterInv, LetterTypeOK
    <3> QED BY <3>2, <3>3, <3>4, <3>5 DEF LetterInv, LetterTypeOK
  <2> QED BY <1>2, <2>1, <2>2, <2>3 DEF LetterNext
<1> QED BY <1>1, <1>2, PTL DEF LetterSpec

\* In one session, killed or failing at any point: a letter that is cyphered
\* for a pair can be read with a key that lskeys shows, until the user has rmkey
\* delete that key.
THEOREM NoOrphans ==
  ASSUME \A s, t \in Sessions : s = t
  PROVE  LetterSpec => []LettersNotOrphaned
<1>1. ASSUME LetterInv, NEW m \in post, m.key # 0, m.key \notin lost
      PROVE  Holders(m.key) \cap DOMAIN LsKeys # {}
  <2>1. m.key \in Pairs
    BY <1>1, KeyringAssumption DEF LetterInv, LetterTypeOK, Letter, Pairs
  <2>2. PICK k \in KeyNames : keys[k].priv = m.key
    BY <1>1, <2>1 DEF LetterInv, HeldOrLost, InUse, Holders
  <2>3. Absent \notin Pairs
    BY KeyringAssumption DEF Pairs
  <2>4. keys[k].dir
    BY <1>1, <2>1, <2>2, <2>3 DEF LetterInv, LetterTypeOK, TypeInv, TypeOK, NoDir
  <2>5. k \in Holders(m.key) /\ k \in DOMAIN LsKeys
    BY <2>2, <2>4 DEF Holders, LsKeys
  <2> QED BY <2>5
<1>2. LetterInv => LettersNotOrphaned
  BY <1>1 DEF LettersNotOrphaned
<1> QED BY <1>2, LetterInvariant, PTL

-----------------------------------------------------------------------------
(* Letters stay readable *)

\* A step of the one session: a letter that is shown as it was written goes on
\* being shown so, unless the association with its sender is to go.
LEMMA ShownStep ==
  ASSUME PairsInv, LinksInv, Next, NEW m, m.from \in Peers, m.cyphered,
         Shown(m) = "text", Shown(m)' # "text"
  PROVE  Unlinking(m.from)
<1> DEFINE p == m.from
<1>0. 0 \notin Pairs /\ Absent \notin Pairs
  BY KeyringAssumption DEF Pairs
<1>1. Readable(p) /\ keys[assocs[p]].priv = m.key
  BY <1>0 DEF Shown, CypherParams, Decrypted, FetchPrivKey
<1>2. ~(Readable(p)' /\ keys'[assocs'[p]].priv = m.key)
  <2>1. CASE Readable(p)'
    <3>1. FetchPrivKey(p)' = keys'[assocs'[p]].priv
      BY <2>1 DEF FetchPrivKey
    <3>2. m.key # 0
      BY <1>0, <1>1 DEF Readable
    <3> QED BY <3>1, <3>2 DEF Shown, CypherParams, Decrypted
  <2> QED BY <2>1
<1>3. CASE ~Readable(p)'
  BY <1>1, <1>3, ReadsStep
<1>4. CASE assocs'[p] # assocs[p]
  BY <1>1, <1>4, UnlinkStep DEF LinksInv, Readable
<1>5. CASE Readable(p)' /\ assocs'[p] = assocs[p]
  <2>1. assocs[p] \in KeyNames /\ keys[assocs[p]].priv \in Pairs
    BY <1>1, KeyringAssumption DEF Readable, PairsInv, TypeInv, TypeOK
  <2>2. keys'[assocs[p]].priv \in {m.key, Absent}
    BY <1>1, <2>1, KeptStep
  <2>3. keys'[assocs[p]].priv \in Pairs
    BY <1>5 DEF Readable
  <2> QED BY <1>0, <1>2, <1>5, <2>2, <2>3
<1> QED BY <1>3, <1>4, <1>5

\* In one session, and as long as links can be removed: a letter that was shown
\* as it was written will be, until the user takes away the association with its
\* sender, or the key of it.
THEOREM ReadLettersStay ==
  ASSUME \A s, t \in Sessions : s = t, ~UnlinkMayFail
  PROVE  LetterSpec => LettersStayReadable
<1> DEFINE Stay == \A m \in post : m.cyphered /\ Shown(m) = "text" /\ Shown(m)' # "text"
                                     => Unlinking(m.from)
<1>1. ASSUME LetterInv, LinksInv, LetterNext PROVE Stay
  <2>1. CASE Next
    BY <1>1, <2>1, ShownStep DEF LetterInv, LetterTypeOK, Letter
  <2>2. CASE UNCHANGED vars
    <3>1. \A m : Shown(m)' = Shown(m)
      BY <2>2 DEF vars, Shown, CypherParams, Decrypted, FetchPrivKey, Readable
    <3> QED BY <3>1
  <2> QED BY <1>1, <2>1, <2>2 DEF LetterNext, KeysStep, Send
<1>2. LetterInv /\ LinksInv /\ [LetterNext]_letterVars => [Stay]_letterVars
  BY <1>1
<1>3. LetterSpec => []LetterInv
  BY LetterInvariant
<1>4. LetterSpec => []LinksInv
  BY DirectoryAsBefore, LinksInvariant, PTL
<1> HIDE DEF Stay
<1>5. LetterSpec => [][Stay]_letterVars
  BY <1>2, <1>3, <1>4, PTL DEF LetterSpec
<1> QED BY <1>5 DEF LettersStayReadable, Stay
=============================================================================
