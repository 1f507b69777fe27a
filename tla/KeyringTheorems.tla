--------------------------- MODULE KeyringTheorems ---------------------------
(***************************************************************************)
(* What holds in the key directory of a user for any number of sessions of *)
(* that user, however their commands interleave, fail or are killed; and   *)
(* what holds besides when there is one session.                           *)
(***************************************************************************)
EXTENDS KeyringKeychain, TLAPS

USE DEF At, GoOn, Finish, FindKey, FindAssocKey, FindCypherKey, dirVars

-----------------------------------------------------------------------------
(* Types *)

\* What the commands have found out.
SessionTypeOK ==
  /\ pc \in [Sessions -> Points]
  /\ arg \in [Sessions -> Arg]
  /\ KnownByThen

\* What is in the directory.
DirTypeOK ==
  /\ made \in 0..MaxPairs
  /\ keys \in [KeyNames -> KeyDir]
  /\ \A k \in KeyNames : ~keys[k].dir => keys[k] = NoDir
  /\ assocs \in [Peers -> KeyNames \cup {Nobody}]
  /\ cypher \in [Peers -> Files \cup Sessions \cup {Absent}]
  /\ exported \subseteq Pairs \cup {Empty}

\* The two halves of the type invariant.
LEMMA TypeHalves == TypeInv <=> DirTypeOK /\ SessionTypeOK
  BY DEF TypeInv, TypeOK, DirTypeOK, SessionTypeOK

\* A command that has found out nothing yet.
LEMMA NoArgTyped == NoArg \in Arg
  BY KeyringAssumption DEF NoArg, Arg

\* What a command is given, or finds in the directory, is of its type.
LEMMA ArgsTyped ==
  /\ \A k \in KeyNames : /\ [NoArg EXCEPT !.key = k] \in Arg
                         /\ [NoArg EXCEPT !.key = k].key = k
  /\ \A p \in Peers : [NoArg EXCEPT !.peer = p] \in Arg
  /\ \A p \in Peers, k \in KeyNames : [NoArg EXCEPT !.peer = p, !.key = k] \in Arg
  /\ \A f \in Files : [NoArg EXCEPT !.file = f] \in Arg
  /\ \A a \in Arg : /\ [a EXCEPT !.todo = Peers] \in Arg
                    /\ \A p \in Peers :
                         /\ [a EXCEPT !.todo = @ \ {p}] \in Arg
                         /\ [a EXCEPT !.peer = p, !.todo = @ \ {p}] \in Arg
                         /\ [a EXCEPT !.peer = p] \in Arg
                    /\ [a EXCEPT !.peer = Nobody] \in Arg
                    /\ \A n \in 0..MaxPairs : /\ [a EXCEPT !.pair = n] \in Arg
                                              /\ [a EXCEPT !.pair = n].pair = n
<1>1. \A k \in KeyNames : /\ [NoArg EXCEPT !.key = k] \in Arg
                          /\ [NoArg EXCEPT !.key = k].key = k
  BY NoArgTyped DEF Arg
<1>2. /\ \A p \in Peers : [NoArg EXCEPT !.peer = p] \in Arg
      /\ \A p \in Peers, k \in KeyNames : [NoArg EXCEPT !.peer = p, !.key = k] \in Arg
      /\ \A f \in Files : [NoArg EXCEPT !.file = f] \in Arg
  BY NoArgTyped DEF Arg
<1>3. ASSUME NEW a \in Arg
      PROVE  /\ [a EXCEPT !.todo = Peers] \in Arg
             /\ [a EXCEPT !.peer = Nobody] \in Arg
             /\ \A n \in 0..MaxPairs : /\ [a EXCEPT !.pair = n] \in Arg
                                       /\ [a EXCEPT !.pair = n].pair = n
  BY DEF Arg
<1>4. ASSUME NEW a \in Arg, NEW p \in Peers
      PROVE  /\ [a EXCEPT !.todo = @ \ {p}] \in Arg
             /\ [a EXCEPT !.peer = p, !.todo = @ \ {p}] \in Arg
             /\ [a EXCEPT !.peer = p] \in Arg
  BY DEF Arg
<1> QED BY <1>1, <1>2, <1>3, <1>4

\* The sessions stay typed when a command goes on ...
LEMMA GoOnTypes ==
  ASSUME SessionTypeOK, NEW s \in Sessions, NEW point \in Points, NEW found \in Arg,
         GoOn(s, point, found),
         point \in {"saving priv", "saving pub"} => found.pair \in Pairs,
         point = "exporting" => found.key \in KeyNames
  PROVE  SessionTypeOK'
  BY DEF SessionTypeOK, KnownByThen, Pairs

\* ... or comes to its end.
LEMMA FinishTypes ==
  ASSUME SessionTypeOK, NEW s \in Sessions, Finish(s)
  PROVE  SessionTypeOK'
<1>1. "prompt" \in Points /\ "prompt" \notin {"saving priv", "saving pub", "exporting"}
  BY DEF Points
<1> QED BY <1>1, NoArgTyped, GoOnTypes

\* A step keeps what the sessions have found out typed.
LEMMA SessionStep ==
  ASSUME TypeInv, Next
  PROVE  SessionTypeOK'
<1>i. SessionTypeOK /\ DirTypeOK
  BY TypeHalves
<1>n. PICK s \in Sessions :
    \/ \E k \in KeyNames : KeyGen(s, k) \/ KeyAssoc(s, k) \/ RmKey(s, k) \/ KeyExp(s, k)
    \/ \E p \in Peers : \/ Link(s, p) \/ Look(s, p) \/ RmKeyAssoc(s, p)
                        \/ LookForImport(s, p) \/ RmKeyImp(s, p)
    \/ \E file \in Files : KeyImp(s, file)
    \/ MakeKeyDir(s) \/ SavePriv(s) \/ SavePub(s) \/ SaveTorn(s)
    \/ RmKeyYes(s) \/ RemoveLink(s) \/ Unlinked(s) \/ DeleteHalf(s) \/ DeleteDir(s)
    \/ RmKeyAssocYes(s) \/ CreateImport(s) \/ FillImport(s) \/ RmKeyImpYes(s)
    \/ CopyExported(s) \/ GiveUp(s)
  BY DEF Next
<1>a. arg[s] \in Arg
  BY <1>i DEF SessionTypeOK
<1>p. {"sizing", "saving priv", "saving pub", "linking", "rmkey?", "unlinking",
       "removing link", "deleting", "rmkeyassoc?", "rmkeyimp?", "importing", "copying",
       "filling", "exporting"} \subseteq Points
  BY DEF Points
<1>1. ASSUME NEW k \in KeyNames, KeyGen(s, k) \/ KeyAssoc(s, k) \/ RmKey(s, k) \/ KeyExp(s, k)
      PROVE  SessionTypeOK'
  <2>1. PICK point \in {"sizing", "linking", "rmkey?", "exporting"} :
          GoOn(s, point, [NoArg EXCEPT !.key = k])
    BY <1>1 DEF KeyGen, KeyAssoc, RmKey, KeyExp
  <2> QED BY <2>1, <1>i, <1>p, ArgsTyped, GoOnTypes
<1>2. ASSUME NEW p \in Peers, Link(s, p)
      PROVE  SessionTypeOK'
  BY <1>2, <1>i, FinishTypes DEF Link
<1>3. ASSUME NEW p \in Peers, Look(s, p)
      PROVE  SessionTypeOK'
  <2>1. CASE GoOn(s, "removing link", [arg[s] EXCEPT !.peer = p, !.todo = @ \ {p}])
    BY <2>1, <1>a, <1>i, <1>p, ArgsTyped, GoOnTypes
  <2>2. CASE GoOn(s, "unlinking", [arg[s] EXCEPT !.todo = @ \ {p}])
    BY <2>2, <1>a, <1>i, <1>p, ArgsTyped, GoOnTypes
  <2> QED BY <1>3, <2>1, <2>2 DEF Look
<1>l. ASSUME NEW p \in Peers, LookForImport(s, p)
      PROVE  SessionTypeOK'
  <2>1. GoOn(s, "copying", [arg[s] EXCEPT !.peer = p])
    BY <1>l DEF LookForImport
  <2> QED BY <2>1, <1>a, <1>i, <1>p, ArgsTyped, GoOnTypes
<1>4. ASSUME NEW p \in Peers, RmKeyAssoc(s, p)
      PROVE  SessionTypeOK'
  <2>1. GoOn(s, "rmkeyassoc?", [NoArg EXCEPT !.peer = p, !.key = assocs[p]])
    BY <1>4 DEF RmKeyAssoc
  <2>2. assocs[p] \in KeyNames
    BY <1>4, <1>i DEF RmKeyAssoc, DirTypeOK
  <2> QED BY <2>1, <2>2, <1>i, <1>p, ArgsTyped, GoOnTypes
<1>5. ASSUME NEW p \in Peers, RmKeyImp(s, p)
      PROVE  SessionTypeOK'
  <2>1. GoOn(s, "rmkeyimp?", [NoArg EXCEPT !.peer = p])
    BY <1>5 DEF RmKeyImp
  <2> QED BY <2>1, <1>i, <1>p, ArgsTyped, GoOnTypes
<1>6. ASSUME NEW file \in Files, KeyImp(s, file)
      PROVE  SessionTypeOK'
  <2>1. GoOn(s, "importing", [NoArg EXCEPT !.file = file])
    BY <1>6 DEF KeyImp
  <2> QED BY <2>1, <1>i, <1>p, ArgsTyped, GoOnTypes
<1>7. CASE MakeKeyDir(s)
  <2>1. GoOn(s, "saving priv", [arg[s] EXCEPT !.pair = made + 1])
    BY <1>7 DEF MakeKeyDir
  <2>2. made < MaxPairs /\ made \in 0..MaxPairs
    BY <1>7, <1>i DEF MakeKeyDir, DirTypeOK
  <2>m. MaxPairs \in Nat
    BY KeyringAssumption
  <2>3. made + 1 \in 0..MaxPairs /\ made + 1 \in 1..MaxPairs
    BY <2>2, <2>m
  <2>4. made + 1 \in Pairs
    BY <2>3 DEF Pairs
  <2> QED BY <2>1, <2>3, <2>4, <1>a, <1>i, <1>p, ArgsTyped, GoOnTypes
<1>8. CASE SavePriv(s)
  <2>1. GoOn(s, "saving pub", arg[s])
    BY <1>8 DEF SavePriv
  <2>2. arg[s].pair \in Pairs
    BY <1>8, <1>i DEF SavePriv, SessionTypeOK, KnownByThen
  <2> QED BY <2>1, <2>2, <1>a, <1>i, <1>p, ArgsTyped, GoOnTypes
<1>9. CASE RmKeyYes(s) \/ RemoveLink(s) \/ Unlinked(s) \/ CreateImport(s)
  <2>1. \E point \in {"unlinking", "deleting", "filling"}, found \in Arg : GoOn(s, point, found)
    BY <1>9, <1>a, ArgsTyped DEF RmKeyYes, RemoveLink, Unlinked, CreateImport
  <2> QED BY <2>1, <1>i, <1>p, ArgsTyped, GoOnTypes
<1>10. CASE DeleteHalf(s)
  BY <1>10, <1>i DEF DeleteHalf, SessionTypeOK, KnownByThen, Pairs
<1>11. CASE \/ SavePub(s) \/ SaveTorn(s) \/ DeleteDir(s) \/ RmKeyAssocYes(s) \/ FillImport(s)
            \/ RmKeyImpYes(s) \/ CopyExported(s) \/ GiveUp(s)
  BY <1>11, <1>i, FinishTypes
     DEF SavePub, SaveTorn, DeleteDir, RmKeyAssocYes, FillImport, RmKeyImpYes, CopyExported,
         GiveUp
<1> QED BY <1>n, <1>1, <1>2, <1>3, <1>l, <1>4, <1>5, <1>6, <1>7, <1>8, <1>9, <1>10, <1>11

\* The actions that change the directory; the others are looks and answers.
LEMMA DirChanges ==
  ASSUME Next
  PROVE  \E s \in Sessions :
         \/ UNCHANGED dirVars
         \/ \E p \in Peers : Link(s, p)
         \/ MakeKeyDir(s) \/ SavePriv(s) \/ SavePub(s) \/ SaveTorn(s)
         \/ RemoveLink(s) \/ DeleteHalf(s) \/ DeleteDir(s)
         \/ RmKeyAssocYes(s) \/ CreateImport(s) \/ FillImport(s) \/ RmKeyImpYes(s)
         \/ CopyExported(s)
<1>n. PICK s \in Sessions :
    \/ \E k \in KeyNames : KeyGen(s, k) \/ KeyAssoc(s, k) \/ RmKey(s, k) \/ KeyExp(s, k)
    \/ \E p \in Peers : \/ Link(s, p) \/ Look(s, p) \/ RmKeyAssoc(s, p)
                        \/ LookForImport(s, p) \/ RmKeyImp(s, p)
    \/ \E file \in Files : KeyImp(s, file)
    \/ MakeKeyDir(s) \/ SavePriv(s) \/ SavePub(s) \/ SaveTorn(s)
    \/ RmKeyYes(s) \/ RemoveLink(s) \/ Unlinked(s) \/ DeleteHalf(s) \/ DeleteDir(s)
    \/ RmKeyAssocYes(s) \/ CreateImport(s) \/ FillImport(s) \/ RmKeyImpYes(s)
    \/ CopyExported(s) \/ GiveUp(s)
  BY DEF Next
<1>1. ASSUME NEW k \in KeyNames, KeyGen(s, k) \/ KeyAssoc(s, k) \/ RmKey(s, k) \/ KeyExp(s, k)
      PROVE  UNCHANGED dirVars
  BY <1>1 DEF KeyGen, KeyAssoc, RmKey, KeyExp
<1>2. ASSUME NEW p \in Peers, Look(s, p) \/ RmKeyAssoc(s, p) \/ LookForImport(s, p) \/ RmKeyImp(s, p)
      PROVE  UNCHANGED dirVars
  BY <1>2 DEF Look, RmKeyAssoc, LookForImport, RmKeyImp
<1>3. ASSUME NEW file \in Files, KeyImp(s, file)
      PROVE  UNCHANGED dirVars
  BY <1>3 DEF KeyImp
<1>4. CASE RmKeyYes(s) \/ Unlinked(s) \/ GiveUp(s)
  BY <1>4 DEF RmKeyYes, Unlinked, GiveUp
<1> HIDE DEF dirVars
<1> QED BY <1>n, <1>1, <1>2, <1>3, <1>4

\* A step keeps the directory typed.
LEMMA DirStep ==
  ASSUME TypeInv, Next
  PROVE  DirTypeOK'
<1>i. SessionTypeOK /\ DirTypeOK
  BY TypeHalves
<1>n. PICK s \in Sessions :
    \/ UNCHANGED dirVars
    \/ \E p \in Peers : Link(s, p)
    \/ MakeKeyDir(s) \/ SavePriv(s) \/ SavePub(s) \/ SaveTorn(s)
    \/ RemoveLink(s) \/ DeleteHalf(s) \/ DeleteDir(s)
    \/ RmKeyAssocYes(s) \/ CreateImport(s) \/ FillImport(s) \/ RmKeyImpYes(s)
    \/ CopyExported(s)
  BY DirChanges
<1>a. arg[s] \in Arg /\ arg[s].file \in Files \cup {Absent} /\ arg[s].key \in KeyNames \cup {Nobody}
  BY <1>i DEF SessionTypeOK, Arg
<1>1. CASE UNCHANGED dirVars
  BY <1>1, <1>i DEF DirTypeOK
<1>2. ASSUME NEW p \in Peers, Link(s, p)
      PROVE  DirTypeOK'
  BY <1>2, <1>i, <1>a DEF Link, DirTypeOK
<1>3. CASE CreateImport(s) \/ FillImport(s)
  BY <1>3, <1>i, <1>a DEF CreateImport, FillImport, DirTypeOK
<1>h. ASSUME NEW k \in KeyNames \cup {Nobody}, NEW half \in Half, FindKey(k) \/ half = Absent,
             \/ keys' = [keys EXCEPT ![k].priv = half]
             \/ keys' = [keys EXCEPT ![k].pub = half],
             UNCHANGED <<made, assocs, cypher, exported>>
      PROVE  DirTypeOK'
  <2>1. CASE k = Nobody
    <3>1. keys' = keys
      BY <1>h, <2>1, <1>i, KeyringAssumption DEF DirTypeOK
    <3> QED BY <1>h, <3>1, <1>i DEF DirTypeOK
  <2>2. CASE k \in KeyNames
    <3>1. keys[k] \in KeyDir /\ (~keys[k].dir => keys[k] = NoDir)
      BY <2>2, <1>i DEF DirTypeOK
    <3>2. PICK d : /\ keys' = [keys EXCEPT ![k] = d]
                   /\ d = [keys[k] EXCEPT !.priv = half] \/ d = [keys[k] EXCEPT !.pub = half]
      BY <1>h
    <3>3. d \in KeyDir /\ d.dir = keys[k].dir
      BY <3>1, <3>2 DEF KeyDir
    <3>4. ASSUME ~d.dir PROVE d = NoDir
      <4>1. keys[k] = NoDir /\ half = Absent
        BY <1>h, <3>1, <3>3, <3>4
      <4> QED BY <3>2, <4>1 DEF NoDir
    <3> QED BY <1>h, <1>i, <2>2, <3>2, <3>3, <3>4 DEF DirTypeOK
  <2> QED BY <2>1, <2>2
<1>4. CASE MakeKeyDir(s)
  <2>1. made < MaxPairs /\ made' = made + 1 /\ made \in 0..MaxPairs
    BY <1>4, <1>i DEF MakeKeyDir, DirTypeOK
  <2>m. MaxPairs \in Nat
    BY KeyringAssumption
  <2>2. made' \in 0..MaxPairs
    BY <2>1, <2>m
  <2> QED BY <1>4, <2>2, <1>i DEF MakeKeyDir, DirTypeOK, KeyDir
<1>5. CASE SavePriv(s) \/ SavePub(s)
  <2>1. arg[s].pair \in Half
    BY <1>5, <1>i DEF SavePriv, SavePub, SessionTypeOK, KnownByThen, Half
  <2> QED BY <1>5, <2>1, <1>a, <1>h DEF SavePriv, SavePub
<1>6. CASE SaveTorn(s)
  <2>1. Empty \in Half
    BY DEF Half
  <2> QED BY <1>6, <2>1, <1>a, <1>h DEF SaveTorn
<1>7. CASE DeleteHalf(s)
  <2>1. Absent \in Half
    BY DEF Half
  <2> QED BY <1>7, <2>1, <1>a, <1>h DEF DeleteHalf
<1>8. CASE DeleteDir(s)
  <2>1. NoDir \in KeyDir
    BY DEF NoDir, KeyDir, Half
  <2> QED BY <1>8, <2>1, <1>i DEF DeleteDir, DirTypeOK
<1>9. CASE RemoveLink(s) \/ RmKeyAssocYes(s) \/ RmKeyImpYes(s)
  BY <1>9, <1>i DEF RemoveLink, RmKeyAssocYes, RmKeyImpYes, DirTypeOK
<1>10. CASE CopyExported(s)
  <2>1. keys[arg[s].key].pub \in Pairs \cup {Empty}
    BY <1>10, <1>i DEF CopyExported, SessionTypeOK, KnownByThen, DirTypeOK, KeyDir, Half
  <2> QED BY <1>10, <2>1, <1>i DEF CopyExported, DirTypeOK
<1> QED BY <1>n, <1>1, <1>2, <1>3, <1>4, <1>5, <1>6, <1>7, <1>8, <1>9, <1>10

\* The type invariant holds at first ...
LEMMA TypeInvInit == Init => TypeInv
BY NoArgTyped, KeyringAssumption
   DEF Init, TypeInv, TypeOK, KnownByThen, KeyDir, NoDir, Half, Points

\* ... and after every step.
LEMMA TypeInvStep == TypeInv /\ [Next]_vars => TypeInv'
<1>1. ASSUME TypeInv, Next PROVE TypeInv'
  BY <1>1, DirStep, SessionStep, TypeHalves DEF TypeInv, TypeOK, DirTypeOK, SessionTypeOK
<1>2. ASSUME TypeInv, UNCHANGED vars PROVE TypeInv'
  BY <1>2 DEF TypeInv, TypeOK, KnownByThen, vars
<1> QED BY <1>1, <1>2

\* The invariant of any number of sessions.
LEMMA KeyringTyped == Spec => []TypeInv
BY TypeInvInit, TypeInvStep, PTL DEF Spec

\* Every variable has its type, and no file is ever in a directory that is not
\* there, whichever commands run at the same time.
THEOREM KeyringTypes == Spec => []TypeOK
<1>1. TypeInv => TypeOK
  BY DEF TypeInv
<1> QED BY <1>1, KeyringTyped, PTL

-----------------------------------------------------------------------------
(* Imports *)

\* One step: the file of an import is filled by its maker, or it goes.
LEMMA ImportsStep ==
  ASSUME TypeInv, Next, NEW p \in Peers, FindCypherKey(p), cypher'[p] # cypher[p]
  PROVE  \E s \in Sessions :
           /\ arg[s].peer = p
           /\ \/ At(s, "filling") /\ cypher[p] = s /\ cypher'[p] = arg[s].file
              \/ At(s, "rmkeyimp?") /\ cypher'[p] = Absent
<1>0. cypher \in [Peers -> Files \cup Sessions \cup {Absent}]
  BY DEF TypeInv, TypeOK
<1>1. PICK s \in Sessions :
        UNCHANGED cypher \/ CreateImport(s) \/ FillImport(s) \/ RmKeyImpYes(s)
  BY DirChanges DEF Link, MakeKeyDir, SavePriv, SavePub, SaveTorn, RemoveLink, DeleteHalf,
     DeleteDir, RmKeyAssocYes, CopyExported
<1>2. ASSUME NEW content, cypher' = [cypher EXCEPT ![arg[s].peer] = content]
      PROVE  arg[s].peer = p /\ cypher'[p] = content
  BY <1>0, <1>2
<1>3. ~CreateImport(s)
  BY <1>2 DEF CreateImport
<1>4. CASE FillImport(s)
  <2>1. cypher' = [cypher EXCEPT ![arg[s].peer] = IF @ = s THEN arg[s].file ELSE @]
    BY <1>4 DEF FillImport
  <2>2. arg[s].peer = p
    BY <1>0, <2>1
  <2>3. cypher'[p] = IF cypher[p] = s THEN arg[s].file ELSE cypher[p]
    BY <1>0, <2>1, <2>2
  <2>4. cypher[p] = s /\ cypher'[p] = arg[s].file
    BY <2>3
  <2> QED BY <1>4, <2>2, <2>4 DEF FillImport
<1>5. CASE RmKeyImpYes(s)
  BY <1>2, <1>5 DEF RmKeyImpYes
<1> QED BY <1>1, <1>3, <1>4, <1>5

\* Any number of sessions may import and remove a key of one peer at the same time,
\* and be killed half-way: a file that one of them has made is filled by that one
\* or removed by rmkeyimp, and is never overwritten or filled by another.
THEOREM ImportedKeysStay == Spec => ImportsStay
<1> DEFINE Stay ==
      \A p \in Peers : FindCypherKey(p) /\ cypher'[p] # cypher[p] =>
        \E s \in Sessions :
          /\ arg[s].peer = p
          /\ \/ At(s, "filling") /\ cypher[p] = s /\ cypher'[p] = arg[s].file
             \/ At(s, "rmkeyimp?") /\ cypher'[p] = Absent
<1>1. ASSUME TypeInv, Next PROVE Stay
  BY <1>1, ImportsStep
<1>2. TypeInv /\ [Next]_vars => [Stay]_vars
  BY <1>1
<1> QED BY <1>2, KeyringTyped, PTL DEF Spec, ImportsStay

-----------------------------------------------------------------------------
(* One session *)

\* What is known of the one session after a step of it.
LEMMA OneSessionGoesOn ==
  ASSUME SessionTypeOK, NEW s \in Sessions, \A t \in Sessions : t = s,
         NEW point, NEW found, GoOn(s, point, found)
  PROVE  \A t \in Sessions : pc'[t] = point /\ arg'[t] = found
  BY DEF SessionTypeOK

\* A step of the one session keeps the pairs whole.
LEMMA PairsStep ==
  ASSUME \A s, t \in Sessions : s = t, PairsInv, Next
  PROVE  GeneratingAlone' /\ PairsMatch'
<1>i. TypeInv /\ SessionTypeOK /\ DirTypeOK /\ GeneratingAlone /\ PairsMatch
  BY TypeHalves DEF PairsInv
<1>k. keys \in [KeyNames -> KeyDir]
  BY <1>i DEF DirTypeOK
<1>h. Absent \notin Pairs /\ Empty \notin Pairs
  BY KeyringAssumption DEF Pairs
<1>n. PICK s \in Sessions :
    \/ \E k \in KeyNames : KeyGen(s, k) \/ KeyAssoc(s, k) \/ RmKey(s, k) \/ KeyExp(s, k)
    \/ \E p \in Peers : \/ Link(s, p) \/ Look(s, p) \/ RmKeyAssoc(s, p)
                        \/ LookForImport(s, p) \/ RmKeyImp(s, p)
    \/ \E file \in Files : KeyImp(s, file)
    \/ MakeKeyDir(s) \/ SavePriv(s) \/ SavePub(s) \/ SaveTorn(s)
    \/ RmKeyYes(s) \/ RemoveLink(s) \/ Unlinked(s) \/ DeleteHalf(s) \/ DeleteDir(s)
    \/ RmKeyAssocYes(s) \/ CreateImport(s) \/ FillImport(s) \/ RmKeyImpYes(s)
    \/ CopyExported(s) \/ GiveUp(s)
  BY DEF Next
<1>s. ASSUME NEW point, NEW found, GoOn(s, point, found)
      PROVE  \A t \in Sessions : pc'[t] = point /\ arg'[t] = found
  BY <1>s, <1>i, OneSessionGoesOn
<1>q. ASSUME UNCHANGED keys, NEW point, point \notin {"sizing", "saving priv", "saving pub"},
             NEW found, GoOn(s, point, found)
      PROVE  GeneratingAlone' /\ PairsMatch'
  <2>1. \A t \in Sessions : pc'[t] = point
    BY <1>q, <1>s
  <2> QED BY <1>q, <2>1, <1>i DEF GeneratingAlone, PairsMatch
<1>1. ASSUME NEW k \in KeyNames, KeyGen(s, k)
      PROVE  GeneratingAlone' /\ PairsMatch'
  <2>0. GoOn(s, "sizing", [NoArg EXCEPT !.key = k])
    BY <1>1 DEF KeyGen
  <2>1. \A t \in Sessions : pc'[t] = "sizing" /\ arg'[t] = [NoArg EXCEPT !.key = k]
    BY <2>0, <1>s
  <2>k. [NoArg EXCEPT !.key = k].key = k
    BY ArgsTyped
  <2>2. keys' = keys /\ keys[k] = NoDir
    BY <1>1, <1>i DEF KeyGen, DirTypeOK
  <2>3. GeneratingAlone'
    BY <2>1, <2>k, <2>2 DEF GeneratingAlone
  <2> QED BY <2>2, <2>3, <1>i DEF PairsMatch
<1>2. CASE \/ \E k \in KeyNames : KeyAssoc(s, k) \/ RmKey(s, k) \/ KeyExp(s, k)
           \/ \E p \in Peers : \/ Link(s, p) \/ Look(s, p) \/ RmKeyAssoc(s, p)
                               \/ LookForImport(s, p) \/ RmKeyImp(s, p)
           \/ \E file \in Files : KeyImp(s, file)
           \/ RmKeyYes(s) \/ RemoveLink(s) \/ Unlinked(s) \/ RmKeyAssocYes(s)
           \/ CreateImport(s) \/ FillImport(s) \/ RmKeyImpYes(s)
           \/ CopyExported(s) \/ GiveUp(s)
  <2>1. UNCHANGED keys
    BY <1>2 DEF KeyAssoc, RmKey, KeyExp, Link, Look, RmKeyAssoc, LookForImport, RmKeyImp,
           KeyImp, RmKeyYes, RemoveLink, Unlinked, RmKeyAssocYes, CreateImport, FillImport,
           RmKeyImpYes, CopyExported, GiveUp
  <2>2. \E point, found : /\ point \notin {"sizing", "saving priv", "saving pub"}
                          /\ GoOn(s, point, found)
    <3>1. CASE \E k \in KeyNames : KeyAssoc(s, k) \/ RmKey(s, k) \/ KeyExp(s, k)
      BY <3>1 DEF KeyAssoc, RmKey, KeyExp
    <3>2. CASE \E p \in Peers : Link(s, p) \/ Look(s, p) \/ RmKeyAssoc(s, p)
      BY <3>2 DEF Link, Look, RmKeyAssoc
    <3>3. CASE \E p \in Peers : LookForImport(s, p) \/ RmKeyImp(s, p)
      BY <3>3 DEF LookForImport, RmKeyImp
    <3>4. CASE \E file \in Files : KeyImp(s, file)
      BY <3>4 DEF KeyImp
    <3>5. CASE RmKeyYes(s) \/ RemoveLink(s) \/ Unlinked(s) \/ RmKeyAssocYes(s) \/ RmKeyImpYes(s)
      BY <3>5 DEF RmKeyYes, RemoveLink, Unlinked, RmKeyAssocYes, RmKeyImpYes
    <3>6. CASE CreateImport(s) \/ FillImport(s) \/ CopyExported(s) \/ GiveUp(s)
      BY <3>6 DEF CreateImport, FillImport, CopyExported, GiveUp
    <3> QED BY <1>2, <3>1, <3>2, <3>3, <3>4, <3>5, <3>6
  <2> QED BY <2>1, <2>2, <1>q
<1>3. CASE MakeKeyDir(s)
  <2>0. GoOn(s, "saving priv", [arg[s] EXCEPT !.pair = made + 1])
    BY <1>3 DEF MakeKeyDir
  <2>1. \A t \in Sessions : /\ pc'[t] = "saving priv"
                            /\ arg'[t] = [arg[s] EXCEPT !.pair = made + 1]
    BY <2>0, <1>s
  <2>2. [arg[s] EXCEPT !.pair = made + 1].key = arg[s].key
    BY <1>i DEF SessionTypeOK, Arg
  <2>3. arg[s].key \in KeyNames /\ keys[arg[s].key] = NoDir
    BY <1>3, <1>i DEF MakeKeyDir, GeneratingAlone
  <2>4. \A k \in KeyNames : keys'[k].priv = keys[k].priv /\ keys'[k].pub = keys[k].pub
    BY <1>3, <1>k DEF MakeKeyDir, KeyDir
  <2>k. \A t \in Sessions : pc'[t] = "saving priv" /\ arg'[t].key = arg[s].key
    BY <2>1, <2>2
  <2>n. keys'[arg[s].key].priv = Absent /\ keys'[arg[s].key].pub = Absent
    BY <2>3, <2>4 DEF NoDir
  <2>5. GeneratingAlone'
    BY <2>k, <2>n, <2>3 DEF GeneratingAlone
  <2> QED BY <2>4, <2>5, <1>i DEF PairsMatch
<1>4. CASE SavePriv(s)
  <2>1. \A t \in Sessions : pc'[t] = "saving pub" /\ arg'[t] = arg[s]
    BY <1>4, <1>s DEF SavePriv
  <2>2. /\ arg[s].key \in KeyNames
        /\ keys[arg[s].key].pub = Absent
    BY <1>4, <1>i DEF SavePriv, GeneratingAlone
  <2>3. /\ keys'[arg[s].key].priv = arg[s].pair /\ keys'[arg[s].key].pub = Absent
        /\ \A k \in KeyNames \ {arg[s].key} : keys'[k] = keys[k]
    BY <1>4, <1>k, <2>2 DEF SavePriv, KeyDir
  <2> QED BY <2>1, <2>2, <2>3, <1>i, <1>h DEF GeneratingAlone, PairsMatch
<1>5. CASE SavePub(s)
  <2>1. \A t \in Sessions : pc'[t] = "prompt"
    BY <1>5, <1>s DEF SavePub
  <2>2. /\ arg[s].key \in KeyNames
        /\ keys[arg[s].key].priv = arg[s].pair
    BY <1>5, <1>i DEF SavePub, GeneratingAlone
  <2>3. /\ keys'[arg[s].key].priv = arg[s].pair /\ keys'[arg[s].key].pub = arg[s].pair
        /\ \A k \in KeyNames \ {arg[s].key} : keys'[k] = keys[k]
    BY <1>5, <1>k, <2>2 DEF SavePub, KeyDir
  <2> QED BY <2>1, <2>2, <2>3, <1>i DEF GeneratingAlone, PairsMatch
<1>6. CASE SaveTorn(s)
  <2>1. \A t \in Sessions : pc'[t] = "prompt"
    BY <1>6, <1>s DEF SaveTorn
  <2>2. arg[s].key \in KeyNames
    BY <1>6, <1>i DEF SaveTorn, GeneratingAlone
  <2>3. /\ keys'[arg[s].key].priv = Empty \/ keys'[arg[s].key].pub = Empty
        /\ \A k \in KeyNames \ {arg[s].key} : keys'[k] = keys[k]
    BY <1>6, <1>k, <2>2 DEF SaveTorn, KeyDir
  <2> QED BY <2>1, <2>2, <2>3, <1>i, <1>h DEF GeneratingAlone, PairsMatch
<1>7. CASE DeleteHalf(s)
  <2>1. \A t \in Sessions : pc'[t] = "deleting"
    BY <1>7, <1>i DEF DeleteHalf, SessionTypeOK
  <2>2. \A k \in KeyNames : \/ keys'[k] = keys[k]
                            \/ keys'[k].priv = Absent \/ keys'[k].pub = Absent
    BY <1>7, <1>k DEF DeleteHalf, KeyDir
  <2>3. GeneratingAlone'
    BY <2>1 DEF GeneratingAlone
  <2>4. PairsMatch'
    BY <2>2, <1>i, <1>h DEF PairsMatch
  <2> QED BY <2>3, <2>4
<1>8. CASE DeleteDir(s)
  <2>1. \A t \in Sessions : pc'[t] = "prompt"
    BY <1>8, <1>s DEF DeleteDir
  <2>2. \A k \in KeyNames : keys'[k] = keys[k] \/ keys'[k] = NoDir
    BY <1>8, <1>k DEF DeleteDir
  <2>3. GeneratingAlone'
    BY <2>1 DEF GeneratingAlone
  <2>4. PairsMatch'
    BY <2>2, <1>i, <1>h DEF PairsMatch, NoDir
  <2> QED BY <2>3, <2>4
<1> QED BY <1>n, <1>1, <1>2, <1>3, <1>4, <1>5, <1>6, <1>7, <1>8

\* The invariant of the pairs in one session.
LEMMA PairsInvariant ==
  ASSUME \A s, t \in Sessions : s = t
  PROVE  Spec => []PairsInv
<1>1. Init => PairsInv
  <2>1. ASSUME Init PROVE GeneratingAlone /\ PairsMatch
    <3>1. Absent \notin Pairs
      BY KeyringAssumption DEF Pairs
    <3> QED BY <2>1, <3>1 DEF Init, GeneratingAlone, PairsMatch, NoDir
  <2> QED BY <2>1, TypeInvInit DEF PairsInv
<1>2. ASSUME PairsInv, [Next]_vars PROVE PairsInv'
  <2>1. TypeInv'
    BY <1>2, TypeInvStep DEF PairsInv
  <2>2. CASE Next
    BY <1>2, <2>1, <2>2, PairsStep DEF PairsInv
  <2>3. CASE UNCHANGED vars
    BY <1>2, <2>1, <2>3 DEF PairsInv, GeneratingAlone, PairsMatch, vars
  <2> QED BY <1>2, <2>2, <2>3
<1> QED BY <1>1, <1>2, PTL DEF Spec

\* In one session, the two halves under one name belong together, at whatever
\* point keygen and rmkey end.
THEOREM HalvesBelongTogether ==
  ASSUME \A s, t \in Sessions : s = t
  PROVE  Spec => []PairsMatch
<1>1. PairsInv => PairsMatch
  BY DEF PairsInv
<1> QED BY <1>1, PairsInvariant, PTL

\* A step of the one session: a private half may go, but no other takes its place.
LEMMA KeptStep ==
  ASSUME PairsInv, Next
  PROVE  \A k \in KeyNames : keys[k].priv \in Pairs => keys'[k].priv \in {keys[k].priv, Absent}
<1> DEFINE Kept == \A k \in KeyNames : keys[k].priv \in Pairs =>
                                        keys'[k].priv \in {keys[k].priv, Absent}
<1>0. keys \in [KeyNames -> KeyDir] /\ GeneratingAlone
  BY DEF PairsInv, TypeInv, TypeOK
<1>h. Absent \notin Pairs
  BY KeyringAssumption DEF Pairs
<1>1. PICK s \in Sessions :
        \/ UNCHANGED keys
        \/ MakeKeyDir(s) \/ SavePriv(s) \/ SavePub(s) \/ SaveTorn(s)
        \/ DeleteHalf(s) \/ DeleteDir(s)
  BY DirChanges DEF Link, RemoveLink, RmKeyAssocYes, CreateImport, FillImport,
     RmKeyImpYes, CopyExported
<1>2. CASE UNCHANGED keys
  BY <1>2
<1>3. CASE MakeKeyDir(s)
  BY <1>0, <1>3 DEF MakeKeyDir, KeyDir
<1>p. ASSUME NEW half, keys' = [keys EXCEPT ![arg[s].key].pub = half] PROVE Kept
  <2>1. \A k \in KeyNames : keys'[k].priv = keys[k].priv
    BY <1>0, <1>p DEF KeyDir
  <2> QED BY <2>1
<1>q. ASSUME At(s, "saving priv"), NEW half, keys' = [keys EXCEPT ![arg[s].key].priv = half]
      PROVE  Kept
  <2>1. arg[s].key \in KeyNames /\ keys[arg[s].key].priv = Absent
    BY <1>0, <1>q DEF GeneratingAlone
  <2>2. \A k \in KeyNames \ {arg[s].key} : keys'[k] = keys[k]
    BY <1>0, <1>q
  <2> QED BY <1>h, <2>1, <2>2
<1>4. CASE SavePriv(s)
  BY <1>q, <1>4 DEF SavePriv
<1>5. CASE SavePub(s)
  BY <1>p, <1>5 DEF SavePub
<1>8. CASE SaveTorn(s)
  BY <1>p, <1>q, <1>8 DEF SaveTorn
<1>6. CASE DeleteHalf(s)
  <2>1. \A k \in KeyNames : keys'[k].priv \in {keys[k].priv, Absent}
    BY <1>0, <1>6 DEF DeleteHalf, KeyDir
  <2> QED BY <2>1
<1>7. CASE DeleteDir(s)
  <2>1. \A k \in KeyNames : keys'[k] = keys[k] \/ keys'[k].priv = Absent
    BY <1>0, <1>7 DEF DeleteDir, NoDir
  <2> QED BY <2>1
<1> QED BY <1>1, <1>2, <1>3, <1>4, <1>5, <1>6, <1>7, <1>8

\* In one session, a private key is never replaced by another.
THEOREM KeysNotReplaced ==
  ASSUME \A s, t \in Sessions : s = t
  PROVE  Spec => KeyNeverReplaced
<1> DEFINE Kept == \A k \in KeyNames : keys[k].priv \in Pairs =>
                                        keys'[k].priv \in {keys[k].priv, Absent}
<1>1. ASSUME PairsInv, Next PROVE Kept
  BY <1>1, KeptStep
<1>2. ASSUME PairsInv, UNCHANGED vars PROVE Kept
  BY <1>2 DEF vars
<1>3. PairsInv /\ [Next]_vars => [Kept]_vars
  BY <1>1, <1>2
<1> QED BY <1>3, PairsInvariant, PTL DEF Spec, KeyNeverReplaced

\* A step of the one session: the link that it is about to remove leads to the key
\* that it has named.
LEMMA NamedStep ==
  ASSUME \A s, t \in Sessions : s = t, NamedInv, Next
  PROVE  NamedAlone'
<1>i. SessionTypeOK /\ DirTypeOK /\ NamedAlone
  BY TypeHalves DEF NamedInv
<1>n. PICK s \in Sessions :
    \/ \E k \in KeyNames : KeyGen(s, k) \/ KeyAssoc(s, k) \/ RmKey(s, k) \/ KeyExp(s, k)
    \/ \E p \in Peers : \/ Link(s, p) \/ Look(s, p) \/ RmKeyAssoc(s, p)
                        \/ LookForImport(s, p) \/ RmKeyImp(s, p)
    \/ \E file \in Files : KeyImp(s, file)
    \/ MakeKeyDir(s) \/ SavePriv(s) \/ SavePub(s) \/ SaveTorn(s)
    \/ RmKeyYes(s) \/ RemoveLink(s) \/ Unlinked(s) \/ DeleteHalf(s) \/ DeleteDir(s)
    \/ RmKeyAssocYes(s) \/ CreateImport(s) \/ FillImport(s) \/ RmKeyImpYes(s)
    \/ CopyExported(s) \/ GiveUp(s)
  BY DEF Next
<1>s. ASSUME NEW point, NEW found, GoOn(s, point, found)
      PROVE  \A t \in Sessions : pc'[t] = point /\ arg'[t] = found
  BY <1>s, <1>i, OneSessionGoesOn
<1>q. ASSUME NEW point, point \notin {"removing link", "rmkeyassoc?"},
             NEW found, GoOn(s, point, found)
      PROVE  NamedAlone'
  <2>1. \A t \in Sessions : pc'[t] = point
    BY <1>q, <1>s
  <2> QED BY <1>q, <2>1 DEF NamedAlone
<1>w. ASSUME NEW p \in Peers, UNCHANGED assocs, NEW point, NEW found, GoOn(s, point, found),
             found.peer = p, found.key = assocs[p]
      PROVE  NamedAlone'
  <2>1. GoOn(s, point, found)
    BY <1>w
  <2>2. \A t \in Sessions : arg'[t] = found
    BY <2>1, <1>s
  <2>3. \A t \in Sessions : arg'[t].peer \in Peers /\ assocs'[arg'[t].peer] = arg'[t].key
    BY <1>w, <2>2
  <2> QED BY <2>3 DEF NamedAlone
<1>1. ASSUME NEW k \in KeyNames, KeyGen(s, k) \/ KeyAssoc(s, k) \/ RmKey(s, k) \/ KeyExp(s, k)
      PROVE  NamedAlone'
  <2>1. \E point \in {"sizing", "linking", "rmkey?", "exporting"} :
          GoOn(s, point, [NoArg EXCEPT !.key = k])
    BY <1>1 DEF KeyGen, KeyAssoc, RmKey, KeyExp
  <2> QED BY <2>1, <1>q
<1>2. ASSUME NEW p \in Peers, Look(s, p)
      PROVE  NamedAlone'
  <2>1. CASE /\ assocs[p] = arg[s].key
             /\ GoOn(s, "removing link", [arg[s] EXCEPT !.peer = p, !.todo = @ \ {p}])
    <3> DEFINE found == [arg[s] EXCEPT !.peer = p, !.todo = @ \ {p}]
    <3>1. found.peer = p /\ found.key = arg[s].key
      BY <1>i DEF SessionTypeOK, Arg
    <3>2. UNCHANGED assocs
      BY <1>2 DEF Look
    <3>3. GoOn(s, "removing link", found)
      BY <2>1
    <3> HIDE DEF found
    <3> QED BY <2>1, <3>1, <3>2, <3>3, <1>w
  <2>2. CASE GoOn(s, "unlinking", [arg[s] EXCEPT !.todo = @ \ {p}])
    BY <2>2, <1>q
  <2> QED BY <1>2, <2>1, <2>2 DEF Look
<1>3. ASSUME NEW p \in Peers, RmKeyAssoc(s, p)
      PROVE  NamedAlone'
  <2> DEFINE found == [NoArg EXCEPT !.peer = p, !.key = assocs[p]]
  <2>1. found.peer = p /\ found.key = assocs[p]
    BY DEF NoArg
  <2>2. GoOn(s, "rmkeyassoc?", found) /\ UNCHANGED assocs
    BY <1>3 DEF RmKeyAssoc
  <2> HIDE DEF found
  <2> QED BY <2>1, <2>2, <1>w
<1>4. CASE \/ \E p \in Peers : Link(s, p) \/ LookForImport(s, p) \/ RmKeyImp(s, p)
           \/ \E file \in Files : KeyImp(s, file)
           \/ MakeKeyDir(s) \/ SavePriv(s) \/ SavePub(s) \/ SaveTorn(s)
  <2>1. CASE \E p \in Peers : Link(s, p) \/ LookForImport(s, p) \/ RmKeyImp(s, p)
    <3>1. \E point \in {"prompt", "copying", "rmkeyimp?"} : \E found : GoOn(s, point, found)
      BY <2>1 DEF Link, LookForImport, RmKeyImp
    <3> QED BY <3>1, <1>q
  <2>2. CASE \E file \in Files : KeyImp(s, file)
    BY <2>2, <1>q DEF KeyImp
  <2>3. CASE MakeKeyDir(s) \/ SavePriv(s) \/ SavePub(s) \/ SaveTorn(s)
    <3>1. \E point \in {"prompt", "saving priv", "saving pub"} : \E found : GoOn(s, point, found)
      BY <2>3 DEF MakeKeyDir, SavePriv, SavePub, SaveTorn
    <3> QED BY <3>1, <1>q
  <2> QED BY <1>4, <2>1, <2>2, <2>3
<1>5. CASE \/ RmKeyYes(s) \/ RemoveLink(s) \/ Unlinked(s) \/ DeleteDir(s) \/ RmKeyAssocYes(s)
           \/ CreateImport(s) \/ FillImport(s) \/ RmKeyImpYes(s) \/ CopyExported(s) \/ GiveUp(s)
  <2>1. \E point \in {"prompt", "unlinking", "deleting", "filling"} :
          \E found : GoOn(s, point, found)
    BY <1>5 DEF RmKeyYes, RemoveLink, Unlinked, DeleteDir, RmKeyAssocYes, CreateImport,
           FillImport, RmKeyImpYes, CopyExported, GiveUp
  <2> QED BY <2>1, <1>q
<1>6. CASE DeleteHalf(s)
  <2>1. UNCHANGED pc /\ \A t \in Sessions : pc[t] = "deleting"
    BY <1>6 DEF DeleteHalf
  <2> QED BY <2>1 DEF NamedAlone
<1> QED BY <1>n, <1>1, <1>2, <1>3, <1>4, <1>5, <1>6

\* In one session, what a command has named is what it removes.
LEMMA NamedInvariant ==
  ASSUME \A s, t \in Sessions : s = t
  PROVE  Spec => []NamedInv
<1>1. Init => NamedInv
  BY TypeInvInit DEF Init, NamedInv, NamedAlone
<1>2. ASSUME NamedInv, [Next]_vars PROVE NamedInv'
  <2>1. TypeInv'
    BY <1>2, TypeInvStep DEF NamedInv
  <2>2. CASE Next
    BY <1>2, <2>1, <2>2, NamedStep DEF NamedInv
  <2>3. CASE UNCHANGED vars
    BY <1>2, <2>1, <2>3 DEF NamedInv, NamedAlone, vars
  <2> QED BY <1>2, <2>2, <2>3
<1> QED BY <1>1, <1>2, PTL DEF Spec

\* One step: an association that changes is gone, and was named.
LEMMA UnlinkStep ==
  ASSUME NamedInv, Next, NEW q \in Peers, FindAssocKey(q), assocs'[q] # assocs[q]
  PROVE  assocs'[q] = Nobody /\ Unlinking(q)
<1>0. assocs \in [Peers -> KeyNames \cup {Nobody}] /\ NamedAlone
  BY DEF NamedInv, TypeInv, TypeOK
<1>1. PICK s \in Sessions :
        \/ UNCHANGED assocs
        \/ \E p \in Peers : Link(s, p)
        \/ RemoveLink(s) \/ RmKeyAssocYes(s)
  BY DirChanges DEF MakeKeyDir, SavePriv, SavePub, SaveTorn, DeleteHalf, DeleteDir,
     CreateImport, FillImport, RmKeyImpYes, CopyExported
<1>2. ASSUME NEW p \in Peers, Link(s, p) PROVE FALSE
  BY <1>0, <1>2 DEF Link
<1>3. CASE RemoveLink(s) \/ RmKeyAssocYes(s)
  <2>1. /\ assocs' = [assocs EXCEPT ![arg[s].peer] = Nobody]
        /\ pc[s] \in {"removing link", "rmkeyassoc?"}
    BY <1>3 DEF RemoveLink, RmKeyAssocYes
  <2>2. arg[s].peer = q /\ assocs'[q] = Nobody
    BY <1>0, <2>1
  <2>3. arg[s].key = assocs[q]
    BY <1>0, <2>1, <2>2 DEF NamedAlone
  <2> QED BY <2>1, <2>2, <2>3 DEF Unlinking
<1> QED BY <1>1, <1>2, <1>3

\* In one session, also where links cannot be removed: an association never changes
\* from one key to another, and goes only in a command that has looked at it, found
\* the key that it still leads to, and named that key to the user.
THEOREM AssociationsGoAsNamed ==
  ASSUME \A s, t \in Sessions : s = t
  PROVE  Spec => UnlinkedAsNamed
<1> DEFINE Named == \A p \in Peers : FindAssocKey(p) /\ assocs'[p] # assocs[p] =>
                     assocs'[p] = Nobody /\ Unlinking(p)
<1>1. ASSUME NamedInv, Next PROVE Named
  BY <1>1, UnlinkStep
<1>2. NamedInv /\ [Next]_vars => [Named]_vars
  BY <1>1
<1> QED BY <1>2, NamedInvariant, PTL DEF Spec, UnlinkedAsNamed

\* A step of the one session leaves no association that leads nowhere.
LEMMA LinksStep ==
  ASSUME \A s, t \in Sessions : s = t, ~UnlinkMayFail, LinksInv, Next
  PROVE  LinkingAlone' /\ NoDanglingAssoc'
<1>i. TypeInv /\ SessionTypeOK /\ DirTypeOK /\ LinkingAlone /\ NoDanglingAssoc
  BY TypeHalves DEF LinksInv, NamedInv
<1>k. /\ keys \in [KeyNames -> KeyDir]
      /\ assocs \in [Peers -> KeyNames \cup {Nobody}]
  BY <1>i DEF DirTypeOK
<1>n. PICK s \in Sessions :
    \/ \E k \in KeyNames : KeyGen(s, k) \/ KeyAssoc(s, k) \/ RmKey(s, k) \/ KeyExp(s, k)
    \/ \E p \in Peers : \/ Link(s, p) \/ Look(s, p) \/ RmKeyAssoc(s, p)
                        \/ LookForImport(s, p) \/ RmKeyImp(s, p)
    \/ \E file \in Files : KeyImp(s, file)
    \/ MakeKeyDir(s) \/ SavePriv(s) \/ SavePub(s) \/ SaveTorn(s)
    \/ RmKeyYes(s) \/ RemoveLink(s) \/ Unlinked(s) \/ DeleteHalf(s) \/ DeleteDir(s)
    \/ RmKeyAssocYes(s) \/ CreateImport(s) \/ FillImport(s) \/ RmKeyImpYes(s)
    \/ CopyExported(s) \/ GiveUp(s)
  BY DEF Next
<1>s. ASSUME NEW point, NEW found, GoOn(s, point, found)
      PROVE  \A t \in Sessions : pc'[t] = point /\ arg'[t] = found
  BY <1>s, <1>i, OneSessionGoesOn
<1>q. ASSUME NEW point,
             point \notin {"linking", "rmkey?", "unlinking", "removing link", "deleting"},
             NEW found, GoOn(s, point, found)
      PROVE  LinkingAlone'
  <2>1. \A t \in Sessions : pc'[t] = point
    BY <1>q, <1>s
  <2> QED BY <1>q, <2>1 DEF LinkingAlone
<1>d. ASSUME UNCHANGED assocs, \A k \in KeyNames : FindKey(k) => FindKey(k)'
      PROVE  NoDanglingAssoc'
  BY <1>d, <1>i, <1>k DEF NoDanglingAssoc
<1>1. ASSUME NEW k \in KeyNames, KeyAssoc(s, k)
      PROVE  LinkingAlone' /\ NoDanglingAssoc'
  <2>0. GoOn(s, "linking", [NoArg EXCEPT !.key = k]) /\ FindKey(k) /\ UNCHANGED dirVars
    BY <1>1 DEF KeyAssoc
  <2>1. \A t \in Sessions : pc'[t] = "linking" /\ arg'[t] = [NoArg EXCEPT !.key = k]
    BY <2>0, <1>s
  <2>k. [NoArg EXCEPT !.key = k].key = k
    BY ArgsTyped
  <2>3. LinkingAlone'
    BY <2>0, <2>1, <2>k DEF LinkingAlone
  <2> QED BY <2>0, <2>3, <1>d
<1>2. ASSUME NEW k \in KeyNames, KeyGen(s, k) \/ KeyExp(s, k)
      PROVE  LinkingAlone' /\ NoDanglingAssoc'
  <2>1. PICK point \in {"sizing", "exporting"} : \E found : GoOn(s, point, found)
    BY <1>2 DEF KeyGen, KeyExp
  <2>2. UNCHANGED dirVars
    BY <1>2 DEF KeyGen, KeyExp
  <2> QED BY <2>1, <2>2, <1>q, <1>d
<1>r. ASSUME NEW k \in KeyNames, RmKey(s, k)
      PROVE  LinkingAlone' /\ NoDanglingAssoc'
  <2>0. GoOn(s, "rmkey?", [NoArg EXCEPT !.key = k]) /\ UNCHANGED dirVars
    BY <1>r DEF RmKey
  <2>1. \A t \in Sessions : pc'[t] = "rmkey?" /\ arg'[t] = [NoArg EXCEPT !.key = k]
    BY <2>0, <1>s
  <2>k. [NoArg EXCEPT !.key = k].key = k
    BY ArgsTyped
  <2>3. LinkingAlone'
    BY <2>1, <2>k DEF LinkingAlone
  <2> QED BY <2>0, <2>3, <1>d
<1>3. ASSUME NEW p \in Peers, Link(s, p)
      PROVE  LinkingAlone' /\ NoDanglingAssoc'
  <2>1. LinkingAlone'
    BY <1>3, <1>q DEF Link
  <2>2. arg[s].key \in KeyNames /\ FindKey(arg[s].key)
    BY <1>3, <1>i DEF Link, LinkingAlone
  <2>3. NoDanglingAssoc'
    BY <1>3, <1>i, <1>k, <2>2 DEF Link, NoDanglingAssoc
  <2> QED BY <2>1, <2>3
<1>4. ASSUME NEW p \in Peers, Look(s, p)
      PROVE  LinkingAlone' /\ NoDanglingAssoc'
  <2>0. UNCHANGED dirVars
    BY <1>4 DEF Look
  <2>1. arg[s].key \in KeyNames /\ \A q \in Peers : assocs[q] = arg[s].key => q \in arg[s].todo
    BY <1>4, <1>i DEF Look, LinkingAlone
  <2>2. CASE /\ assocs[p] = arg[s].key
             /\ GoOn(s, "removing link", [arg[s] EXCEPT !.peer = p, !.todo = @ \ {p}])
    <3> DEFINE found == [arg[s] EXCEPT !.peer = p, !.todo = @ \ {p}]
    <3>1. found.key = arg[s].key /\ found.peer = p /\ found.todo = arg[s].todo \ {p}
      BY <1>i DEF SessionTypeOK, Arg
    <3>2. \A t \in Sessions : pc'[t] = "removing link" /\ arg'[t] = found
      BY <2>2, <1>s
    <3> HIDE DEF found
    <3>3. LinkingAlone'
      BY <2>0, <2>1, <3>1, <3>2 DEF LinkingAlone
    <3> QED BY <2>0, <3>3, <1>d
  <2>3. CASE /\ assocs[p] # arg[s].key
             /\ GoOn(s, "unlinking", [arg[s] EXCEPT !.todo = @ \ {p}])
    <3> DEFINE found == [arg[s] EXCEPT !.todo = @ \ {p}]
    <3>1. found.key = arg[s].key /\ found.todo = arg[s].todo \ {p}
      BY <1>i DEF SessionTypeOK, Arg
    <3>2. \A t \in Sessions : pc'[t] = "unlinking" /\ arg'[t] = found
      BY <2>3, <1>s
    <3> HIDE DEF found
    <3>3. LinkingAlone'
      BY <2>0, <2>1, <2>3, <3>1, <3>2 DEF LinkingAlone
    <3> QED BY <2>0, <3>3, <1>d
  <2> QED BY <1>4, <2>2, <2>3 DEF Look
<1>u. CASE RemoveLink(s)
  <2> DEFINE found == [arg[s] EXCEPT !.peer = Nobody]
  <2>0. /\ assocs' = [assocs EXCEPT ![arg[s].peer] = Nobody]
        /\ GoOn(s, "unlinking", found) /\ UNCHANGED keys
    BY <1>u DEF RemoveLink
  <2>1. found.key = arg[s].key /\ found.todo = arg[s].todo
    BY <1>i DEF SessionTypeOK, Arg
  <2>2. \A t \in Sessions : pc'[t] = "unlinking" /\ arg'[t] = found
    BY <2>0, <1>s
  <2> HIDE DEF found
  <2>3. /\ arg[s].key \in KeyNames
        /\ \A q \in Peers : assocs[q] = arg[s].key => q \in arg[s].todo \cup {arg[s].peer}
    BY <1>u, <1>i DEF RemoveLink, LinkingAlone
  <2>4. \A q \in Peers : assocs'[q] = IF q = arg[s].peer THEN Nobody ELSE assocs[q]
    BY <2>0, <1>k
  <2>5. \A q \in Peers : assocs'[q] = arg[s].key => q \in arg[s].todo
    BY <2>3, <2>4, KeyringAssumption
  <2>6. LinkingAlone'
    BY <2>1, <2>2, <2>3, <2>5 DEF LinkingAlone
  <2>7. NoDanglingAssoc'
    BY <2>0, <2>4, <1>i, <1>k DEF NoDanglingAssoc
  <2> QED BY <2>6, <2>7
<1>5. CASE \/ \E p \in Peers : RmKeyAssoc(s, p) \/ LookForImport(s, p) \/ RmKeyImp(s, p)
           \/ \E file \in Files : KeyImp(s, file)
           \/ CreateImport(s) \/ FillImport(s) \/ RmKeyImpYes(s) \/ CopyExported(s) \/ GiveUp(s)
  <2>1. UNCHANGED <<keys, assocs>>
    BY <1>5 DEF RmKeyAssoc, LookForImport, RmKeyImp, KeyImp, CreateImport, FillImport,
           RmKeyImpYes, CopyExported, GiveUp
  <2>2. \E point, found :
          /\ point \notin {"linking", "rmkey?", "unlinking", "removing link", "deleting"}
          /\ GoOn(s, point, found)
    <3>1. CASE \E p \in Peers : RmKeyAssoc(s, p) \/ LookForImport(s, p) \/ RmKeyImp(s, p)
      BY <3>1 DEF RmKeyAssoc, LookForImport, RmKeyImp
    <3>2. CASE \E file \in Files : KeyImp(s, file)
      BY <3>2 DEF KeyImp
    <3>3. CASE CreateImport(s) \/ FillImport(s) \/ RmKeyImpYes(s)
      BY <3>3 DEF CreateImport, FillImport, RmKeyImpYes
    <3>4. CASE CopyExported(s) \/ GiveUp(s)
      BY <3>4 DEF CopyExported, GiveUp
    <3> QED BY <1>5, <3>1, <3>2, <3>3, <3>4
  <2> QED BY <2>1, <2>2, <1>q, <1>d
<1>6. CASE MakeKeyDir(s) \/ SavePriv(s) \/ SavePub(s) \/ SaveTorn(s)
  <2>1. PICK point \in {"saving priv", "saving pub", "prompt"} : \E found : GoOn(s, point, found)
    BY <1>6 DEF MakeKeyDir, SavePriv, SavePub, SaveTorn
  <2>2. UNCHANGED assocs
    BY <1>6 DEF MakeKeyDir, SavePriv, SavePub, SaveTorn
  <2>4. \A k \in KeyNames : FindKey(k) => FindKey(k)'
    <3>1. CASE keys' = [keys EXCEPT ![arg[s].key].dir = TRUE]
      BY <3>1, <1>k DEF KeyDir
    <3>2. ASSUME NEW half, keys' = [keys EXCEPT ![arg[s].key].priv = half]
          PROVE  \A k \in KeyNames : FindKey(k) => FindKey(k)'
      BY <3>2, <1>k DEF KeyDir
    <3>3. ASSUME NEW half, keys' = [keys EXCEPT ![arg[s].key].pub = half]
          PROVE  \A k \in KeyNames : FindKey(k) => FindKey(k)'
      BY <3>3, <1>k DEF KeyDir
    <3>4. CASE MakeKeyDir(s)
      BY <3>1, <3>4 DEF MakeKeyDir
    <3>5. CASE SavePriv(s) \/ SavePub(s)
      BY <3>2, <3>3, <3>5 DEF SavePriv, SavePub
    <3>6. CASE SaveTorn(s)
      BY <3>2, <3>3, <3>6 DEF SaveTorn
    <3> QED BY <1>6, <3>4, <3>5, <3>6
  <2> QED BY <2>1, <2>2, <2>4, <1>q, <1>d
<1>7. CASE RmKeyYes(s)
  <2>0. GoOn(s, "unlinking", [arg[s] EXCEPT !.todo = Peers]) /\ UNCHANGED dirVars
    BY <1>7 DEF RmKeyYes
  <2>1. \A t \in Sessions : pc'[t] = "unlinking" /\ arg'[t] = [arg[s] EXCEPT !.todo = Peers]
    BY <2>0, <1>s
  <2>2. /\ [arg[s] EXCEPT !.todo = Peers].key = arg[s].key
        /\ [arg[s] EXCEPT !.todo = Peers].todo = Peers
    BY <1>i DEF SessionTypeOK, Arg
  <2>3. arg[s].key \in KeyNames
    BY <1>7, <1>i DEF RmKeyYes, LinkingAlone
  <2>4. LinkingAlone'
    BY <2>1, <2>2, <2>3 DEF LinkingAlone
  <2> QED BY <2>0, <2>4, <1>d
<1>8. CASE Unlinked(s)
  <2>0. GoOn(s, "deleting", arg[s]) /\ UNCHANGED dirVars
    BY <1>8 DEF Unlinked
  <2>1. \A t \in Sessions : pc'[t] = "deleting" /\ arg'[t] = arg[s]
    BY <2>0, <1>s
  <2>2. \A p \in Peers : assocs[p] # arg[s].key
    BY <1>8, <1>i DEF Unlinked, LinkingAlone
  <2>4. LinkingAlone'
    BY <2>0, <2>1, <2>2 DEF LinkingAlone
  <2> QED BY <2>0, <2>4, <1>d
<1>9. CASE DeleteHalf(s)
  <2>1. UNCHANGED <<assocs, pc, arg>> /\ At(s, "deleting")
    BY <1>9 DEF DeleteHalf
  <2>2. LinkingAlone'
    BY <2>1, <1>i DEF LinkingAlone
  <2>3. \A k \in KeyNames : FindKey(k) => FindKey(k)'
    BY <1>9, <1>k DEF DeleteHalf, KeyDir
  <2> QED BY <2>1, <2>2, <2>3, <1>d
<1>10. CASE DeleteDir(s)
  <2>1. LinkingAlone'
    BY <1>10, <1>q DEF DeleteDir
  <2>2. \A p \in Peers : assocs[p] # arg[s].key
    BY <1>10, <1>i DEF DeleteDir, LinkingAlone
  <2>3. UNCHANGED assocs /\ \A k \in KeyNames \ {arg[s].key} : keys'[k] = keys[k]
    BY <1>10, <1>k DEF DeleteDir
  <2>4. NoDanglingAssoc'
    BY <2>2, <2>3, <1>i, <1>k DEF NoDanglingAssoc
  <2> QED BY <2>1, <2>4
<1>11. CASE RmKeyAssocYes(s)
  <2>1. LinkingAlone'
    BY <1>11, <1>q DEF RmKeyAssocYes
  <2>2. NoDanglingAssoc'
    BY <1>11, <1>i, <1>k DEF RmKeyAssocYes, NoDanglingAssoc
  <2> QED BY <2>1, <2>2
<1> QED BY <1>n, <1>1, <1>2, <1>r, <1>3, <1>4, <1>u, <1>5, <1>6, <1>7, <1>8, <1>9, <1>10, <1>11

\* The invariant of the associations in one session.
LEMMA LinksInvariant ==
  ASSUME \A s, t \in Sessions : s = t, ~UnlinkMayFail
  PROVE  Spec => []LinksInv
<1>1. Init => LinksInv
  <2>1. ASSUME Init PROVE LinkingAlone /\ NoDanglingAssoc
    BY <2>1 DEF Init, LinkingAlone, NoDanglingAssoc
  <2> QED BY <2>1, TypeInvInit DEF LinksInv, NamedInv, Init, NamedAlone
<1>2. ASSUME LinksInv, [Next]_vars PROVE LinksInv'
  <2>1. TypeInv'
    BY <1>2, TypeInvStep DEF LinksInv, NamedInv
  <2>2. CASE Next
    BY <1>2, <2>1, <2>2, LinksStep, NamedStep DEF LinksInv, NamedInv
  <2>3. CASE UNCHANGED vars
    BY <1>2, <2>1, <2>3 DEF LinksInv, NamedInv, NamedAlone, LinkingAlone, NoDanglingAssoc, vars
  <2> QED BY <1>2, <2>2, <2>3
<1> QED BY <1>1, <1>2, PTL DEF Spec

\* In one session, and as long as links can be removed, an association leads to
\* a key pair that is there, at whatever point keyassoc and rmkey end.
THEOREM AssociationsLead ==
  ASSUME \A s, t \in Sessions : s = t, ~UnlinkMayFail
  PROVE  Spec => []NoDanglingAssoc
<1>1. LinksInv => NoDanglingAssoc
  BY DEF LinksInv
<1> QED BY <1>1, LinksInvariant, PTL

\* A step of the one session: what can be read stays so, unless it was to go.
LEMMA ReadsStep ==
  ASSUME PairsInv, LinksInv, Next, NEW p \in Peers, Readable(p), ~Readable(p)'
  PROVE  Unlinking(p)
<1>0. /\ keys \in [KeyNames -> KeyDir] /\ assocs \in [Peers -> KeyNames \cup {Nobody}]
      /\ TypeInv /\ GeneratingAlone /\ LinkingAlone
  BY DEF PairsInv, LinksInv, TypeInv, TypeOK
<1>1. CASE assocs'[p] # assocs[p]
  BY <1>0, <1>1, UnlinkStep DEF LinksInv, Readable
<1>2. CASE assocs'[p] = assocs[p]
  <2>1. PICK k \in KeyNames : k = assocs[p] /\ keys[k].priv \in Pairs
                             /\ keys'[k].priv \notin Pairs
    BY <1>0, <1>2 DEF Readable
  <2>h. Absent \notin Pairs
    BY KeyringAssumption DEF Pairs
  <2>2. PICK s \in Sessions :
          \/ UNCHANGED keys
          \/ MakeKeyDir(s) \/ SavePriv(s) \/ SavePub(s) \/ SaveTorn(s)
          \/ DeleteHalf(s) \/ DeleteDir(s)
    BY DirChanges DEF Link, RemoveLink, RmKeyAssocYes, CreateImport, FillImport,
       RmKeyImpYes, CopyExported
  <2>3. ASSUME NEW half, keys' = [keys EXCEPT ![arg[s].key].pub = half] PROVE FALSE
    BY <1>0, <2>1, <2>3 DEF KeyDir
  <2>4. ASSUME At(s, "saving priv"), NEW half,
               keys' = [keys EXCEPT ![arg[s].key].priv = half]
        PROVE  FALSE
    <3>1. keys[arg[s].key].priv = Absent
      BY <1>0, <2>4 DEF GeneratingAlone
    <3>2. k # arg[s].key
      BY <3>1, <2>1, <2>h
    <3> QED BY <1>0, <2>1, <2>4, <3>2
  <2>5. ASSUME At(s, "deleting"), NEW d, keys' = [keys EXCEPT ![arg[s].key] = d] PROVE FALSE
    <3>1. k # arg[s].key
      BY <1>0, <2>1, <2>5 DEF LinkingAlone
    <3> QED BY <1>0, <2>1, <2>5, <3>1
  <2>6. ~UNCHANGED keys
    BY <2>1
  <2>7. ASSUME MakeKeyDir(s) PROVE FALSE
    <3>1. keys'[k].priv = keys[k].priv
      BY <1>0, <2>7 DEF MakeKeyDir, KeyDir
    <3> QED BY <2>1, <3>1
  <2>8. ~SavePriv(s) /\ ~SavePub(s) /\ ~SaveTorn(s)
    BY <2>3, <2>4 DEF SavePriv, SavePub, SaveTorn
  <2>9. ~DeleteHalf(s) /\ ~DeleteDir(s)
    BY <2>5 DEF DeleteHalf, DeleteDir
  <2> QED BY <2>2, <2>6, <2>7, <2>8, <2>9
<1> QED BY <1>1, <1>2

\* In one session, and as long as links can be removed, a user who can read the
\* messages of a peer can do so until that very association is taken away: the
\* key goes after its links.
THEOREM ReadableTillTheEnd ==
  ASSUME \A s, t \in Sessions : s = t, ~UnlinkMayFail
  PROVE  Spec => ReadableUntilUnlinked
<1> DEFINE Reads == \A p \in Peers : Readable(p) /\ ~Readable(p)' => Unlinking(p)
<1>1. ASSUME PairsInv, LinksInv, Next PROVE Reads
  BY <1>1, ReadsStep
<1>2. ASSUME UNCHANGED vars PROVE \A p \in Peers : Readable(p)' = Readable(p)
  BY <1>2 DEF vars, Readable
<1>3. PairsInv /\ LinksInv /\ [Next]_vars => [Reads]_vars
  BY <1>1, <1>2
<1> QED BY <1>3, PairsInvariant, LinksInvariant, PTL DEF Spec, ReadableUntilUnlinked

-----------------------------------------------------------------------------
(* The keychain *)

\* A step of the one session: the pair that it is about to save was generated.
LEMMA GeneratedStep ==
  ASSUME \A s, t \in Sessions : s = t, TypeInv, Next
  PROVE  Generated'
<1>i. SessionTypeOK /\ DirTypeOK
  BY TypeHalves
<1>t. pc \in [Sessions -> Points] /\ \A s, t \in Sessions : s = t
  BY <1>i DEF SessionTypeOK
<1>n. PICK s \in Sessions :
    \/ \E k \in KeyNames : KeyGen(s, k) \/ KeyAssoc(s, k) \/ RmKey(s, k) \/ KeyExp(s, k)
    \/ \E p \in Peers : \/ Link(s, p) \/ Look(s, p) \/ RmKeyAssoc(s, p)
                        \/ LookForImport(s, p) \/ RmKeyImp(s, p)
    \/ \E file \in Files : KeyImp(s, file)
    \/ MakeKeyDir(s) \/ SavePriv(s) \/ SavePub(s) \/ SaveTorn(s)
    \/ RmKeyYes(s) \/ RemoveLink(s) \/ Unlinked(s) \/ DeleteHalf(s) \/ DeleteDir(s)
    \/ RmKeyAssocYes(s) \/ CreateImport(s) \/ FillImport(s) \/ RmKeyImpYes(s)
    \/ CopyExported(s) \/ GiveUp(s)
  BY DEF Next
<1>s. ASSUME NEW point, NEW found, GoOn(s, point, found)
      PROVE  \A t \in Sessions : pc'[t] = point /\ arg'[t] = found
  BY <1>s, <1>i, OneSessionGoesOn
<1>1. CASE MakeKeyDir(s)
  <2>0. made' = made + 1 /\ made < MaxPairs /\ made \in 0..MaxPairs
    BY <1>1, <1>i DEF MakeKeyDir, DirTypeOK
  <2>1. made + 1 \in 0..MaxPairs
    BY <2>0, KeyringAssumption
  <2>2. \A t \in Sessions : arg'[t] = [arg[s] EXCEPT !.pair = made + 1]
    BY <1>1, <1>s DEF MakeKeyDir
  <2>3. [arg[s] EXCEPT !.pair = made + 1].pair = made + 1
    BY <2>1, <1>i, ArgsTyped DEF SessionTypeOK
  <2>4. \A t \in Sessions : arg'[t].pair = made'
    BY <2>0, <2>2, <2>3
  <2>5. made' <= made'
    BY <2>0, <2>1
  <2> QED BY <2>4, <2>5 DEF Generated
<1>2. CASE DeleteHalf(s)
  <2>1. UNCHANGED <<pc, arg>> /\ \A t \in Sessions : pc[t] = "deleting"
    BY <1>2 DEF DeleteHalf
  <2> QED BY <2>1 DEF Generated
<1>p. ASSUME pc'[s] # "saving priv" PROVE Generated'
  BY <1>p, <1>t DEF Generated
<1>3. ASSUME NEW k \in KeyNames, KeyGen(s, k) \/ KeyAssoc(s, k) \/ RmKey(s, k) \/ KeyExp(s, k)
      PROVE  pc'[s] # "saving priv"
  BY <1>3, <1>t DEF KeyGen, KeyAssoc, RmKey, KeyExp
<1>4. ASSUME NEW p \in Peers, \/ Link(s, p) \/ Look(s, p) \/ RmKeyAssoc(s, p)
                             \/ LookForImport(s, p) \/ RmKeyImp(s, p)
      PROVE  pc'[s] # "saving priv"
  BY <1>4, <1>t DEF Link, Look, RmKeyAssoc, LookForImport, RmKeyImp
<1>5. ASSUME NEW file \in Files, KeyImp(s, file)
      PROVE  pc'[s] # "saving priv"
  BY <1>5, <1>t DEF KeyImp
<1>6. CASE \/ SavePriv(s) \/ SavePub(s) \/ SaveTorn(s) \/ RmKeyYes(s) \/ RemoveLink(s)
           \/ Unlinked(s) \/ CreateImport(s) \/ FillImport(s)
  <2>1. pc'[s] # "saving priv"
    BY <1>6, <1>t DEF SavePriv, SavePub, SaveTorn, RmKeyYes, RemoveLink, Unlinked,
           CreateImport, FillImport
  <2> QED BY <2>1, <1>p
<1>7. CASE DeleteDir(s) \/ RmKeyAssocYes(s) \/ RmKeyImpYes(s) \/ CopyExported(s) \/ GiveUp(s)
  <2>1. pc'[s] # "saving priv"
    BY <1>7, <1>t DEF DeleteDir, RmKeyAssocYes, RmKeyImpYes, CopyExported, GiveUp
  <2> QED BY <2>1, <1>p
<1> QED BY <1>n, <1>p, <1>1, <1>2, <1>3, <1>4, <1>5, <1>6, <1>7

\* The invariant that the steps are mapped with.
LEMMA KeychainInvariant ==
  ASSUME \A s, t \in Sessions : s = t, ~UnlinkMayFail
  PROVE  Spec => []KeychainInv
<1>1. Init => Generated
  BY DEF Init, Generated
<1>2. ASSUME TypeInv, Generated, [Next]_vars PROVE Generated'
  <2>1. CASE Next
    BY <1>2, <2>1, GeneratedStep
  <2>2. CASE UNCHANGED vars
    BY <1>2, <2>2 DEF Generated, vars
  <2> QED BY <1>2, <2>1, <2>2
<1>3. Spec => []Generated
  BY <1>1, <1>2, KeyringTyped, PTL DEF Spec
<1>4. PairsInv /\ LinksInv /\ Generated => KeychainInv
  BY DEF KeychainInv
<1> QED BY <1>3, <1>4, PairsInvariant, LinksInvariant, PTL

\* What a change in one key directory shows: a new name, ...
LEMMA DirShown ==
  ASSUME keys \in [KeyNames -> KeyDir], NEW k \in KeyNames,
         keys' = [keys EXCEPT ![k].dir = TRUE]
  PROVE  Names' = Names \cup {k} /\ Secrets' = Secrets /\ Offers' = Offers
<1>1. \A n \in KeyNames : /\ keys'[n].dir = (n = k \/ keys[n].dir)
                          /\ keys'[n].priv = keys[n].priv /\ keys'[n].pub = keys[n].pub
  BY DEF KeyDir
<1>2. Names' = Names \cup {k}
  BY <1>1 DEF Names
<1>3. Secrets' = Secrets
  BY <1>1 DEF Secrets
<1>4. Offers' = Offers
  BY <1>1 DEF Offers
<1> QED BY <1>2, <1>3, <1>4

\* ... another secret, ...
LEMMA PrivShown ==
  ASSUME keys \in [KeyNames -> KeyDir], NEW k \in KeyNames, NEW half,
         keys' = [keys EXCEPT ![k].priv = half]
  PROVE  Names' = Names /\ Secrets' = [Secrets EXCEPT ![k] = Whole(half)] /\ Offers' = Offers
<1>1. \A n \in KeyNames : /\ keys'[n].priv = IF n = k THEN half ELSE keys[n].priv
                          /\ keys'[n].dir = keys[n].dir /\ keys'[n].pub = keys[n].pub
  BY DEF KeyDir
<1>2. Names' = Names
  BY <1>1 DEF Names
<1>3. Secrets' = [Secrets EXCEPT ![k] = Whole(half)]
  <2>1. \A n \in KeyNames : Whole(keys'[n].priv) = IF n = k THEN Whole(half)
                                                          ELSE Whole(keys[n].priv)
    BY <1>1
  <2>2. Secrets' = [n \in KeyNames |-> Whole(keys'[n].priv)]
    BY DEF Secrets
  <2> QED BY <2>1, <2>2 DEF Secrets
<1>4. Offers' = Offers
  BY <1>1 DEF Offers
<1> QED BY <1>2, <1>3, <1>4

\* ... or another public half.
LEMMA PubShown ==
  ASSUME keys \in [KeyNames -> KeyDir], NEW k \in KeyNames, NEW half,
         keys' = [keys EXCEPT ![k].pub = half]
  PROVE  Names' = Names /\ Secrets' = Secrets /\ Offers' = [Offers EXCEPT ![k] = Whole(half)]
<1>1. \A n \in KeyNames : /\ keys'[n].pub = IF n = k THEN half ELSE keys[n].pub
                          /\ keys'[n].dir = keys[n].dir /\ keys'[n].priv = keys[n].priv
  BY DEF KeyDir
<1>2. Names' = Names
  BY <1>1 DEF Names
<1>3. Secrets' = Secrets
  BY <1>1 DEF Secrets
<1>4. Offers' = [Offers EXCEPT ![k] = Whole(half)]
  <2>1. \A n \in KeyNames : Whole(keys'[n].pub) = IF n = k THEN Whole(half)
                                                          ELSE Whole(keys[n].pub)
    BY <1>1
  <2>2. Offers' = [n \in KeyNames |-> Whole(keys'[n].pub)]
    BY DEF Offers
  <2> QED BY <2>1, <2>2 DEF Offers
<1> QED BY <1>2, <1>3, <1>4

\* What the mapping shows of one name.
LEMMA NameShown ==
  ASSUME NEW k \in KeyNames
  PROVE  /\ k \in Names <=> keys[k].dir
         /\ Secrets[k] = Whole(keys[k].priv)
         /\ Offers[k] = Whole(keys[k].pub)
BY DEF Names, Secrets, Offers

\* A file without content is as good as none.
LEMMA OnlyPairsAreWhole ==
  /\ Absent \notin Pairs /\ Empty \notin Pairs
  /\ Whole(Absent) = Absent /\ Whole(Empty) = Absent
  /\ \A pair \in Pairs : Whole(pair) = pair
<1>1. Pairs \subseteq Nat
  BY KeyringAssumption DEF Pairs
<1>2. Absent \notin Pairs /\ Empty \notin Pairs
  BY <1>1, KeyringAssumption
<1> QED BY <1>2 DEF Whole

\* A pair is spent when the one session no longer has it to save.
LEMMA PairSpent ==
  ASSUME \A s, t \in Sessions : s = t, TypeInv, Generated,
         NEW s \in Sessions, At(s, "saving priv"), UNCHANGED made,
         NEW point, point # "saving priv", NEW found, GoOn(s, point, found)
  PROVE  arg[s].pair \in Pairs \ Spent /\ Spent' = Spent \cup {arg[s].pair}
<1>1. SessionTypeOK
  BY TypeHalves
<1>a. \A t \in Sessions : t = s
  OBVIOUS
<1>b. \A t \in Sessions : pc'[t] = point /\ arg'[t] = found
  BY <1>1, <1>a, OneSessionGoesOn
<1>2. \A t \in Sessions : t = s /\ pc'[t] # "saving priv"
  BY <1>a, <1>b
<1>3. arg[s].pair \in Pairs /\ arg[s].pair <= made
  BY <1>1 DEF SessionTypeOK, KnownByThen, Generated
<1>4. Spent' = {pair \in Pairs : pair <= made}
  BY <1>2 DEF Spent
<1>5. Spent = {pair \in Pairs : pair <= made /\ pair # arg[s].pair}
  BY <1>2 DEF Spent
<1> QED BY <1>3, <1>4, <1>5

\* Elsewhere nothing is spent: neither when a pair is generated, ...
LEMMA PairGenerated ==
  ASSUME \A s, t \in Sessions : s = t, TypeInv, NEW s \in Sessions, MakeKeyDir(s)
  PROVE  UNCHANGED Spent
<1>1. SessionTypeOK /\ DirTypeOK
  BY TypeHalves
<1>g. GoOn(s, "saving priv", [arg[s] EXCEPT !.pair = made + 1])
  BY DEF MakeKeyDir
<1>m. made' = made + 1 /\ made < MaxPairs /\ made \in 0..MaxPairs
  BY <1>1 DEF MakeKeyDir, DirTypeOK
<1>2. made' = made + 1 /\ made \in Nat /\ made + 1 \in 0..MaxPairs
  BY <1>m, KeyringAssumption
<1>3. [arg[s] EXCEPT !.pair = made + 1].pair = made + 1
  BY <1>1, <1>2, ArgsTyped DEF SessionTypeOK
<1>s. ASSUME NEW point, NEW found, GoOn(s, point, found)
      PROVE  \A t \in Sessions : pc'[t] = point /\ arg'[t] = found
  BY <1>s, <1>1, OneSessionGoesOn
<1>a. \A t \in Sessions : /\ pc'[t] = "saving priv"
                          /\ arg'[t] = [arg[s] EXCEPT !.pair = made + 1]
  BY <1>g, <1>s
<1>4. \A t \in Sessions : t = s /\ pc'[t] = "saving priv" /\ arg'[t].pair = made + 1
  BY <1>a, <1>3
<1>5. Spent = {pair \in Pairs : pair <= made}
  <2>1. \A t \in Sessions : pc[t] = "sizing"
    BY <1>4 DEF MakeKeyDir
  <2> QED BY <2>1 DEF Spent
<1>6. Spent' = {pair \in Pairs : pair <= made + 1 /\ pair # made + 1}
  BY <1>2, <1>4 DEF Spent
<1>7. \A pair \in Pairs : pair <= made <=> pair <= made + 1 /\ pair # made + 1
  BY <1>2 DEF Pairs
<1> QED BY <1>5, <1>6, <1>7

\* ... nor where there is none to save.
LEMMA NoneSpent ==
  ASSUME \A s, t \in Sessions : s = t, TypeInv, NEW s \in Sessions, ~At(s, "saving priv"),
         UNCHANGED made, NEW point, point # "saving priv", NEW found, GoOn(s, point, found)
  PROVE  UNCHANGED Spent
<1>1. \A t \in Sessions : t = s /\ pc'[t] # "saving priv"
  BY OneSessionGoesOn, TypeHalves
<1>2. Spent' = {pair \in Pairs : pair <= made}
  BY <1>1 DEF Spent
<1>3. Spent = {pair \in Pairs : pair <= made}
  BY <1>1 DEF Spent
<1> QED BY <1>2, <1>3

\* What is imported shows as long as it is all there.
LEMMA ImportsUnseen ==
  ASSUME UNCHANGED cypher
  PROVE  UNCHANGED Imports
BY DEF Imports

\* A step that leaves the directory alone is none of the keychain, unless a pair
\* is given up.
LEMMA UnseenOnDisk ==
  ASSUME \A s, t \in Sessions : s = t, TypeInv, NEW s \in Sessions, ~At(s, "saving priv"),
         UNCHANGED dirVars, NEW point, point # "saving priv", NEW found, GoOn(s, point, found)
  PROVE  UNCHANGED K!kvars
<1>1. UNCHANGED Spent
  BY NoneSpent
<1>2. UNCHANGED <<Names, Secrets, Offers>>
  BY DEF Names, Secrets, Offers
<1>3. UNCHANGED Imports
  BY ImportsUnseen
<1> QED BY <1>1, <1>2, <1>3 DEF K!kvars

\* keygen takes a name, keeps the private half under it, and offers the public
\* one; cut off in between, it wastes the pair or offers nothing.
LEMMA GeneratingKeeps ==
  ASSUME \A s, t \in Sessions : s = t, KeychainInv, NEW s \in Sessions,
         \/ MakeKeyDir(s) \/ SavePriv(s) \/ SavePub(s) \/ SaveTorn(s)
         \/ At(s, "saving priv") /\ GiveUp(s)
  PROVE  K!Next \/ UNCHANGED K!kvars
<1>i. TypeInv /\ GeneratingAlone /\ Generated
  BY DEF KeychainInv, PairsInv
<1>k. keys \in [KeyNames -> KeyDir]
  BY <1>i DEF TypeInv, TypeOK
<1>c. UNCHANGED Imports
  BY ImportsUnseen DEF MakeKeyDir, SavePriv, SavePub, SaveTorn, GiveUp
<1> DEFINE k == arg[s].key
<1>1. CASE MakeKeyDir(s)
  <2>g. k \in KeyNames /\ keys[k] = NoDir
    BY <1>1, <1>i DEF MakeKeyDir, GeneratingAlone
  <2>n. NoDir.dir = FALSE
    BY DEF NoDir
  <2>1. k \in KeyNames /\ ~keys[k].dir
    BY <2>g, <2>n
  <2>2. k \notin Names
    BY <2>1 DEF Names
  <2>3. keys' = [keys EXCEPT ![k].dir = TRUE] /\ UNCHANGED <<assocs, cypher, exported>>
    BY <1>1 DEF MakeKeyDir
  <2>4. UNCHANGED Spent
    BY <1>1, <1>i, PairGenerated
  <2> HIDE DEF k
  <2>5. Names' = Names \cup {k} /\ UNCHANGED <<Secrets, Offers>>
    BY <2>1, <2>3, <1>k, DirShown
  <2>6. K!Take(k)
    BY <1>c, <2>2, <2>3, <2>4, <2>5 DEF K!Take
  <2> QED BY <2>1, <2>6 DEF K!Next
<1>2. CASE SavePriv(s)
  <2> DEFINE pair == arg[s].pair
  <2>1. k \in KeyNames /\ keys[k].priv = Absent /\ keys[k].dir
    BY <1>2, <1>i DEF SavePriv, GeneratingAlone
  <2>2. k \in Names /\ Secrets[k] = Absent
    BY <2>1, NameShown, OnlyPairsAreWhole
  <2>3. /\ keys' = [keys EXCEPT ![k].priv = pair]
        /\ UNCHANGED <<made, assocs, cypher, exported>>
    BY <1>2 DEF SavePriv
  <2>4. pair \in Pairs \ Spent /\ Spent' = Spent \cup {pair}
    BY <1>2, <1>i, PairSpent DEF SavePriv
  <2> HIDE DEF k, pair
  <2>5. Secrets' = [Secrets EXCEPT ![k] = pair] /\ UNCHANGED <<Names, Offers>>
    BY <2>1, <2>3, <2>4, <1>k, PrivShown, OnlyPairsAreWhole
  <2>6. K!Keep(k, pair)
    BY <1>c, <2>2, <2>3, <2>4, <2>5 DEF K!Keep
  <2> QED BY <2>1, <2>4, <2>6 DEF K!Next
<1>3. CASE SavePub(s)
  <2>1. k \in KeyNames /\ keys[k].priv = arg[s].pair /\ keys[k].pub = Absent
    BY <1>3, <1>i DEF SavePub, GeneratingAlone
  <2>2. arg[s].pair \in Pairs
    BY <1>3, <1>i DEF SavePub, TypeInv, KnownByThen
  <2>s. Secrets[k] = Whole(keys[k].priv) /\ Offers[k] = Whole(keys[k].pub)
    BY <2>1, NameShown
  <2>3. Secrets[k] = arg[s].pair /\ Secrets[k] # Absent /\ Offers[k] = Absent
    BY <2>s, <2>1, <2>2, OnlyPairsAreWhole
  <2>4. /\ keys' = [keys EXCEPT ![k].pub = arg[s].pair]
        /\ UNCHANGED <<made, assocs, cypher, exported>>
    BY <1>3 DEF SavePub
  <2>5. UNCHANGED Spent
    BY <1>3, <1>i, NoneSpent DEF SavePub
  <2> HIDE DEF k
  <2>w. Whole(arg[s].pair) = Secrets[k]
    BY <2>2, <2>3, OnlyPairsAreWhole
  <2>p. /\ Offers' = [Offers EXCEPT ![k] = Whole(arg[s].pair)]
        /\ Names' = Names /\ Secrets' = Secrets
    BY <2>1, <2>4, <1>k, PubShown
  <2>6. Offers' = [Offers EXCEPT ![k] = Secrets[k]] /\ UNCHANGED <<Names, Secrets>>
    BY <2>w, <2>p
  <2>7. K!Offer(k)
    BY <1>c, <2>3, <2>4, <2>5, <2>6 DEF K!Offer
  <2> QED BY <2>1, <2>7 DEF K!Next
<1>4. ASSUME At(s, "saving priv"), Finish(s), UNCHANGED <<made, assocs, cypher, exported>>,
             UNCHANGED <<Names, Secrets, Offers>>
      PROVE  K!Next
  <2>1. arg[s].pair \in Pairs \ Spent /\ Spent' = Spent \cup {arg[s].pair}
    BY <1>4, <1>i, PairSpent
  <2>2. K!Waste(arg[s].pair)
    BY <1>c, <1>4, <2>1 DEF K!Waste
  <2> QED BY <2>1, <2>2 DEF K!Next
<1>5. CASE At(s, "saving priv") /\ GiveUp(s)
  <2>1. UNCHANGED <<Names, Secrets, Offers>>
    BY <1>5 DEF GiveUp, Names, Secrets, Offers
  <2> QED BY <1>4, <1>5, <2>1 DEF GiveUp
<1>6. CASE SaveTorn(s) /\ At(s, "saving priv")
  <2>1. k \in KeyNames /\ keys[k].priv = Absent
    BY <1>6, <1>i DEF GeneratingAlone
  <2>2. keys' = [keys EXCEPT ![k].priv = Empty]
    BY <1>6 DEF SaveTorn
  <2>3. Secrets \in [KeyNames -> Pairs \cup {Absent}] /\ Secrets[k] = Absent
    BY <2>1, NameShown, OnlyPairsAreWhole DEF Secrets, Whole
  <2>f. Finish(s) /\ UNCHANGED <<made, assocs, cypher, exported>>
    BY <1>6 DEF SaveTorn
  <2> HIDE DEF k
  <2>6. Secrets' = [Secrets EXCEPT ![k] = Whole(Empty)] /\ Names' = Names /\ Offers' = Offers
    BY <2>1, <2>2, <1>k, PrivShown
  <2>7. Whole(Empty) = Secrets[k]
    BY <2>3, OnlyPairsAreWhole
  <2>4. UNCHANGED <<Names, Secrets, Offers>>
    BY <2>3, <2>6, <2>7
  <2> QED BY <1>4, <1>6, <2>4, <2>f
<1>7. CASE SaveTorn(s) /\ At(s, "saving pub")
  <2>1. k \in KeyNames /\ keys[k].pub = Absent
    BY <1>7, <1>i DEF GeneratingAlone
  <2>2. keys' = [keys EXCEPT ![k].pub = Empty]
    BY <1>7 DEF SaveTorn
  <2>3. Offers \in [KeyNames -> Pairs \cup {Absent}] /\ Offers[k] = Absent
    BY <2>1, NameShown, OnlyPairsAreWhole DEF Offers, Whole
  <2>f. Finish(s) /\ UNCHANGED <<made, assocs, cypher, exported>>
    BY <1>7 DEF SaveTorn
  <2>5. UNCHANGED Spent
    BY <1>7, <1>i, <2>f, NoneSpent
  <2> HIDE DEF k
  <2>6. Offers' = [Offers EXCEPT ![k] = Whole(Empty)] /\ Names' = Names /\ Secrets' = Secrets
    BY <2>1, <2>2, <1>k, PubShown
  <2>7. Whole(Empty) = Offers[k]
    BY <2>3, OnlyPairsAreWhole
  <2>4. UNCHANGED <<Names, Secrets, Offers>>
    BY <2>3, <2>6, <2>7
  <2> QED BY <1>c, <2>4, <2>5, <2>f DEF K!kvars
<1> QED BY <1>1, <1>2, <1>3, <1>5, <1>6, <1>7 DEF SaveTorn

\* rmkey loses what is under a name, and in the end the name, when it is no peer's.
LEMMA DeletingLoses ==
  ASSUME \A s, t \in Sessions : s = t, KeychainInv, NEW s \in Sessions,
         DeleteHalf(s) \/ DeleteDir(s)
  PROVE  K!Next \/ UNCHANGED K!kvars
<1>i. TypeInv /\ LinkingAlone
  BY DEF KeychainInv, PairsInv, LinksInv
<1>k. keys \in [KeyNames -> KeyDir]
  BY <1>i DEF TypeInv, TypeOK
<1> DEFINE k == arg[s].key
<1>a. /\ UNCHANGED <<made, assocs, cypher, exported, Imports>>
      /\ \A p \in Peers : assocs[p] # k
  BY <1>i, ImportsUnseen DEF DeleteHalf, DeleteDir, LinkingAlone
<1>s. UNCHANGED Spent
  <2>1. CASE DeleteHalf(s)
    BY <2>1 DEF DeleteHalf, Spent
  <2>2. CASE DeleteDir(s)
    BY <2>2, <1>i, NoneSpent DEF DeleteDir
  <2> QED BY <2>1, <2>2
<1>0. CASE k \notin KeyNames
  <2>1. keys' = keys
    BY <1>0, <1>k DEF DeleteHalf, DeleteDir
  <2>2. UNCHANGED <<Names, Secrets, Offers>>
    BY <2>1 DEF Names, Secrets, Offers
  <2> QED BY <1>a, <1>s, <2>2 DEF K!kvars
<1>1. CASE k \in KeyNames /\ DeleteHalf(s)
  <2>1. \/ keys' = [keys EXCEPT ![k].priv = Absent]
        \/ keys' = [keys EXCEPT ![k].pub = Absent]
    BY <1>1 DEF DeleteHalf
  <2> HIDE DEF k
  <2>2. /\ UNCHANGED Names
        /\ \/ Secrets' = [Secrets EXCEPT ![k] = Absent] /\ UNCHANGED Offers
           \/ Offers' = [Offers EXCEPT ![k] = Absent] /\ UNCHANGED Secrets
    BY <2>1, <1>1, <1>k, PrivShown, PubShown, OnlyPairsAreWhole
  <2>3. K!Lose(k)
    BY <1>a, <1>s, <2>2 DEF K!Lose
  <2> QED BY <1>1, <2>3 DEF K!Next
<1>2. CASE k \in KeyNames /\ DeleteDir(s)
  <2>1. keys[k].priv = Absent /\ keys[k].pub = Absent /\ keys' = [keys EXCEPT ![k] = NoDir]
    BY <1>2 DEF DeleteDir
  <2>2. Secrets[k] = Absent /\ Offers[k] = Absent
    BY <1>2, <2>1, NameShown, OnlyPairsAreWhole
  <2>3. \A n \in KeyNames : /\ keys'[n].dir = (n # k /\ keys[n].dir)
                            /\ keys'[n].priv = keys[n].priv
                            /\ keys'[n].pub = keys[n].pub
    BY <2>1, <1>k DEF NoDir, KeyDir
  <2> HIDE DEF k
  <2>4. Names' = Names \ {k}
    BY <2>3 DEF Names
  <2>5. Secrets' = Secrets
    BY <2>3 DEF Secrets
  <2>6. Offers' = Offers
    BY <2>3 DEF Offers
  <2>7. K!Free(k)
    BY <1>a, <1>s, <2>2, <2>4, <2>5, <2>6 DEF K!Free
  <2> QED BY <1>2, <2>7 DEF K!Next
<1> QED BY <1>0, <1>1, <1>2

\* keyassoc gives a peer without a key one that is there; rmkey and rmkeyassoc
\* take a peer's key away.
LEMMA LinkingAssociates ==
  ASSUME \A s, t \in Sessions : s = t, KeychainInv, NEW s \in Sessions,
         \/ \E p \in Peers : Link(s, p)
         \/ RemoveLink(s) \/ RmKeyAssocYes(s)
  PROVE  K!Next \/ UNCHANGED K!kvars
<1>i. TypeInv /\ LinkingAlone /\ assocs \in [Peers -> KeyNames \cup {Nobody}]
  BY DEF KeychainInv, PairsInv, LinksInv, TypeInv, TypeOK
<1>a. UNCHANGED <<made, keys, cypher, exported, Imports>>
  BY ImportsUnseen DEF Link, RemoveLink, RmKeyAssocYes
<1>b. UNCHANGED <<Names, Secrets, Offers>>
  BY <1>a DEF Names, Secrets, Offers
<1>s. UNCHANGED Spent
  <2>1. /\ ~At(s, "saving priv")
        /\ \E point, found : point # "saving priv" /\ GoOn(s, point, found)
    <3>1. CASE RmKeyAssocYes(s)
      BY <3>1 DEF RmKeyAssocYes
    <3>3. CASE RemoveLink(s)
      BY <3>3 DEF RemoveLink
    <3>2. ASSUME NEW p \in Peers, Link(s, p)
          PROVE  /\ ~At(s, "saving priv")
                 /\ \E point, found : point # "saving priv" /\ GoOn(s, point, found)
      BY <3>2 DEF Link
    <3> QED BY <3>1, <3>2, <3>3
  <2> QED BY <2>1, <1>a, <1>i, NoneSpent
<1>u. ASSUME UNCHANGED assocs PROVE UNCHANGED K!kvars
  BY <1>a, <1>b, <1>s, <1>u DEF K!kvars
<1>d. ASSUME NEW p \in Peers, assocs' = [assocs EXCEPT ![p] = Nobody] PROVE K!Next
  <2>1. K!Dissociate(p)
    BY <1>a, <1>b, <1>s, <1>d DEF K!Dissociate
  <2> QED BY <2>1 DEF K!Next
<1>1. ASSUME NEW p \in Peers, Link(s, p) PROVE K!Next
  <2>1. arg[s].key \in KeyNames /\ keys[arg[s].key].dir
    BY <1>1, <1>i DEF Link, LinkingAlone
  <2>2. arg[s].key \in Names
    BY <2>1 DEF Names
  <2>3. assocs[p] = Nobody /\ assocs' = [assocs EXCEPT ![p] = arg[s].key]
    BY <1>1 DEF Link
  <2>4. K!Associate(p, arg[s].key)
    BY <1>a, <1>b, <1>s, <2>2, <2>3 DEF K!Associate
  <2> QED BY <2>1, <2>4 DEF K!Next
<1>2. CASE RemoveLink(s) \/ RmKeyAssocYes(s)
  <2>1. CASE UNCHANGED assocs
    BY <1>u, <2>1
  <2>2. CASE assocs' = [assocs EXCEPT ![arg[s].peer] = Nobody] /\ arg[s].peer \in Peers
    BY <1>d, <2>2
  <2>3. CASE assocs' = [assocs EXCEPT ![arg[s].peer] = Nobody] /\ arg[s].peer \notin Peers
    BY <1>u, <1>i, <2>3
  <2> QED BY <1>2, <2>1, <2>2, <2>3 DEF RemoveLink, RmKeyAssocYes
<1> QED BY <1>1, <1>2

\* What a change in one imported file shows.
LEMMA ImportShown ==
  ASSUME cypher \in [Peers -> Files \cup Sessions \cup {Absent}], NEW p \in Peers, NEW content,
         cypher' = [cypher EXCEPT ![p] = content]
  PROVE  Imports' = [Imports EXCEPT ![p] = IF content \in Files THEN content ELSE Absent]
<1>1. \A q \in Peers : cypher'[q] = IF q = p THEN content ELSE cypher[q]
  OBVIOUS
<1>2. Imports' = [q \in Peers |-> IF cypher'[q] \in Files THEN cypher'[q] ELSE Absent]
  BY DEF Imports
<1> QED BY <1>1, <1>2 DEF Imports

\* keyimp gives a peer without a public key one, when the file is filled; rmkeyimp
\* takes it away.
LEMMA ImportingImports ==
  ASSUME \A s, t \in Sessions : s = t, KeychainInv, NEW s \in Sessions,
         CreateImport(s) \/ FillImport(s) \/ RmKeyImpYes(s)
  PROVE  K!Next \/ UNCHANGED K!kvars
<1>i. TypeInv /\ cypher \in [Peers -> Files \cup Sessions \cup {Absent}] /\ arg \in [Sessions -> Arg]
  BY DEF KeychainInv, PairsInv, TypeInv, TypeOK
<1>a. /\ UNCHANGED <<made, keys, assocs, exported>>
      /\ ~At(s, "saving priv")
      /\ \E point, found : point # "saving priv" /\ GoOn(s, point, found)
  BY DEF CreateImport, FillImport, RmKeyImpYes
<1>b. UNCHANGED <<Names, Secrets, Offers>>
  BY <1>a DEF Names, Secrets, Offers
<1>s. UNCHANGED Spent
  BY <1>a, <1>i, NoneSpent
<1>u. ASSUME UNCHANGED Imports PROVE UNCHANGED K!kvars
  BY <1>a, <1>b, <1>s, <1>u DEF K!kvars
<1>f. s \notin Files /\ Absent \notin Files /\ s # Absent
  BY KeyringAssumption
<1> DEFINE p == arg[s].peer
<1>c. PICK content : /\ cypher' = [cypher EXCEPT ![p] = content]
                     /\ \/ content = s /\ cypher[p] = Absent
                        \/ content = arg[s].file /\ cypher[p] = s
                        \/ content = Absent
                        \/ content = cypher[p]
  BY DEF CreateImport, FillImport, RmKeyImpYes
<1>e. arg[s].file \in Files \cup {Absent}
  BY <1>i DEF Arg
<1> HIDE DEF p
<1>0. CASE p \notin Peers
  <2>1. UNCHANGED cypher
    BY <1>0, <1>c, <1>i
  <2> QED BY <2>1, <1>u, ImportsUnseen
<1>1. CASE p \in Peers
  <2>0. /\ Imports \in [Peers -> Files \cup {Absent}]
        /\ Imports[p] = IF cypher[p] \in Files THEN cypher[p] ELSE Absent
    BY <1>1 DEF Imports
  <2>1. Imports' = [Imports EXCEPT ![p] = IF content \in Files THEN content ELSE Absent]
    BY <1>1, <1>c, <1>i, ImportShown
  <2>2. CASE content = Absent
    <3>1. K!Discard(p)
      BY <1>a, <1>b, <1>s, <1>f, <2>1, <2>2 DEF K!Discard
    <3> QED BY <1>1, <3>1 DEF K!Next
  <2>3. CASE content = arg[s].file /\ cypher[p] = s /\ content # Absent
    <3>1. content \in Files /\ Imports[p] = Absent
      BY <1>e, <1>f, <2>0, <2>3
    <3>2. K!Import(p)
      BY <1>a, <1>b, <1>s, <2>1, <3>1 DEF K!Import
    <3> QED BY <1>1, <3>2 DEF K!Next
  <2>4. CASE \/ content = s /\ cypher[p] = Absent
             \/ content = cypher[p]
    <3>1. Imports[p] = IF content \in Files THEN content ELSE Absent
      BY <1>f, <2>0, <2>4
    <3>2. UNCHANGED Imports
      BY <2>0, <2>1, <3>1
    <3> QED BY <1>u, <3>2
  <2> QED BY <1>c, <2>2, <2>3, <2>4
<1> QED BY <1>0, <1>1

\* keyexp gives away what is offered, or a file that holds nothing.
LEMMA ExportingPublishes ==
  ASSUME \A s, t \in Sessions : s = t, KeychainInv, NEW s \in Sessions, CopyExported(s)
  PROVE  K!Next \/ UNCHANGED K!kvars
<1>i. TypeInv /\ keys \in [KeyNames -> KeyDir] /\ Absent \notin Pairs /\ Empty \notin Pairs
  BY KeyringAssumption DEF KeychainInv, PairsInv, TypeInv, TypeOK, Pairs
<1>a. /\ UNCHANGED <<made, keys, assocs, cypher, Imports>>
      /\ ~At(s, "saving priv") /\ Finish(s) /\ At(s, "exporting")
  BY ImportsUnseen DEF CopyExported
<1>b. UNCHANGED <<Names, Secrets, Offers>>
  BY <1>a DEF Names, Secrets, Offers
<1>s. UNCHANGED Spent
  BY <1>a, <1>i, NoneSpent
<1> DEFINE k == arg[s].key
           half == keys[k].pub
<1>1. k \in KeyNames /\ exported' = exported \cup {half}
  BY <1>a, <1>i DEF CopyExported, TypeInv, KnownByThen
<1>2. Offers[k] = Whole(half)
  BY <1>1 DEF Offers
<1> HIDE DEF k, half
<1>3. CASE half \in Pairs
  <2>1. Offers[k] = half /\ half # Absent
    BY <1>2, <1>3, <1>i DEF Whole
  <2>2. exported' \cap Pairs = (exported \cap Pairs) \cup {half}
    BY <1>1, <1>3
  <2>3. K!Publish(k)
    BY <1>a, <1>b, <1>s, <2>1, <2>2 DEF K!Publish
  <2> QED BY <1>1, <2>3 DEF K!Next
<1>4. CASE half \notin Pairs
  <2>1. exported' \cap Pairs = exported \cap Pairs
    BY <1>1, <1>4
  <2> QED BY <1>a, <1>b, <1>s, <2>1 DEF K!kvars
<1> QED BY <1>3, <1>4

\* An empty directory is an empty keychain.
LEMMA KeychainInit == Init => K!Init
<1> SUFFICES ASSUME Init PROVE K!Init
  OBVIOUS
<1>1. Absent \notin Pairs
  BY KeyringAssumption DEF Pairs
<1>2. Names = {} /\ exported \cap Pairs = {}
  BY DEF Init, Names, NoDir
<1>3. Secrets = [k \in KeyNames |-> Absent] /\ Offers = [k \in KeyNames |-> Absent]
  BY <1>1 DEF Init, Secrets, Offers, Whole, NoDir
<1>4. Spent = {}
  <2>1. \A pair \in Pairs : ~(pair <= made)
    BY DEF Init, Pairs
  <2> QED BY <2>1 DEF Spent
<1>5. Imports = [p \in Peers |-> Absent]
  BY DEF Init, Imports
<1> QED BY <1>2, <1>3, <1>4, <1>5 DEF Init, K!Init

\* Every step of the one session is a step of the keychain or changes nothing of it.
LEMMA KeychainStep ==
  ASSUME \A s, t \in Sessions : s = t, KeychainInv, Next
  PROVE  K!Next \/ UNCHANGED K!kvars
<1>i. TypeInv
  BY DEF KeychainInv, PairsInv
<1>n. PICK s \in Sessions :
    \/ \E k \in KeyNames : KeyGen(s, k) \/ KeyAssoc(s, k) \/ RmKey(s, k) \/ KeyExp(s, k)
    \/ \E p \in Peers : \/ Link(s, p) \/ Look(s, p) \/ RmKeyAssoc(s, p)
                        \/ LookForImport(s, p) \/ RmKeyImp(s, p)
    \/ \E file \in Files : KeyImp(s, file)
    \/ MakeKeyDir(s) \/ SavePriv(s) \/ SavePub(s) \/ SaveTorn(s)
    \/ RmKeyYes(s) \/ RemoveLink(s) \/ Unlinked(s) \/ DeleteHalf(s) \/ DeleteDir(s)
    \/ RmKeyAssocYes(s) \/ CreateImport(s) \/ FillImport(s) \/ RmKeyImpYes(s)
    \/ CopyExported(s) \/ GiveUp(s)
  BY DEF Next
<1>q. ASSUME UNCHANGED dirVars, ~At(s, "saving priv"),
             NEW point, point # "saving priv", NEW found, GoOn(s, point, found)
      PROVE  UNCHANGED K!kvars
  BY <1>q, <1>i, UnseenOnDisk
<1>1. ASSUME NEW k \in KeyNames, KeyGen(s, k) \/ KeyAssoc(s, k) \/ RmKey(s, k) \/ KeyExp(s, k)
      PROVE  UNCHANGED K!kvars
  <2>1. /\ UNCHANGED dirVars /\ ~At(s, "saving priv")
        /\ \E point \in {"sizing", "linking", "rmkey?", "exporting"} :
             GoOn(s, point, [NoArg EXCEPT !.key = k])
    BY <1>1 DEF KeyGen, KeyAssoc, RmKey, KeyExp
  <2> QED BY <2>1, <1>q
<1>2. ASSUME NEW p \in Peers, Look(s, p) \/ RmKeyAssoc(s, p) \/ LookForImport(s, p) \/ RmKeyImp(s, p)
      PROVE  UNCHANGED K!kvars
  <2>1. CASE RmKeyAssoc(s, p)
    BY <2>1, <1>q DEF RmKeyAssoc
  <2>2. CASE RmKeyImp(s, p)
    BY <2>2, <1>q DEF RmKeyImp
  <2>3. CASE Look(s, p)
    BY <2>3, <1>q DEF Look
  <2>4. CASE LookForImport(s, p)
    BY <2>4, <1>q DEF LookForImport
  <2> QED BY <1>2, <2>1, <2>2, <2>3, <2>4
<1>3. ASSUME NEW file \in Files, KeyImp(s, file)
      PROVE  UNCHANGED K!kvars
  BY <1>3, <1>q DEF KeyImp
<1>4. CASE RmKeyYes(s) \/ Unlinked(s)
  <2>1. CASE RmKeyYes(s)
    BY <2>1, <1>q DEF RmKeyYes
  <2>2. CASE Unlinked(s)
    BY <2>2, <1>q DEF Unlinked
  <2> QED BY <1>4, <2>1, <2>2
<1>5. CASE GiveUp(s) /\ ~At(s, "saving priv")
  BY <1>5, <1>q DEF GiveUp
<1>6. CASE \/ MakeKeyDir(s) \/ SavePriv(s) \/ SavePub(s) \/ SaveTorn(s)
           \/ GiveUp(s) /\ At(s, "saving priv")
  BY <1>6, GeneratingKeeps
<1>7. CASE DeleteHalf(s) \/ DeleteDir(s)
  BY <1>7, DeletingLoses
<1>8. CASE (\E p \in Peers : Link(s, p)) \/ RemoveLink(s) \/ RmKeyAssocYes(s)
  BY <1>8, LinkingAssociates
<1>9. CASE CreateImport(s) \/ FillImport(s) \/ RmKeyImpYes(s)
  BY <1>9, ImportingImports
<1>10. CASE CopyExported(s)
  BY <1>10, ExportingPublishes
<1> QED BY <1>n, <1>1, <1>2, <1>3, <1>4, <1>5, <1>6, <1>7, <1>8, <1>9, <1>10

\* In one session, and as long as links can be removed, the key directory is a
\* keychain: every behaviour of the commands, killed at any point or with any other
\* call failing, is through the mapping one of Keychain.
THEOREM KeychainImplemented ==
  ASSUME \A s, t \in Sessions : s = t, ~UnlinkMayFail
  PROVE  Spec => ImplementsKeychain
<1>1. Init => K!Init
  BY KeychainInit
<1>2. ASSUME KeychainInv, Next PROVE K!Next \/ UNCHANGED K!kvars
  BY <1>2, KeychainStep
<1>3. ASSUME UNCHANGED vars PROVE UNCHANGED K!kvars
  BY <1>3 DEF vars, K!kvars, Names, Secrets, Offers, Imports, Spent
<1>4. KeychainInv /\ [Next]_vars => [K!Next]_(K!kvars)
  BY <1>2, <1>3
<1> QED BY <1>1, <1>4, KeychainInvariant, PTL DEF Spec, ImplementsKeychain, K!Spec
=============================================================================
