------------------------------- MODULE Keyring -------------------------------
(***************************************************************************)
(* The directory $HOME/.lmail/<user> with the key pairs, the associations  *)
(* and the imported public keys of one user, and the commands of the       *)
(* sessions of that user that work on it.  No lock is taken: a command     *)
(* looks, asks its user, and then acts on what it saw.  One step here is   *)
(* one look or one change of the directory, and the steps of different     *)
(* sessions interleave.  Three things are coarser: a look at a name, with  *)
(* nothing asked before the change that fails if the name is taken, is     *)
(* part of that change in keyassoc; rmkeyassoc finds a link and reads it   *)
(* at once; and a file of a key pair is truncated and written at once,     *)
(* unless the process ends between the two.  A                             *)
(* session may stop after any step: because its user declines or the       *)
(* input ends, because a call fails, or because the process is killed.     *)
(***************************************************************************)
EXTENDS Naturals, FiniteSets

CONSTANTS
  Sessions,        \* the sessions in which the user is logged in
  KeyNames,        \* names of key pairs
  Peers,           \* names of other users
  Files,           \* what the files that may be imported hold
  Nobody,          \* no key name, no peer
  Absent,          \* there is no such file
  Empty,           \* the file is there, its content was never written
  MaxPairs,        \* bound: how many key pairs are generated
  UnlinkMayFail    \* whether fs::remove() of an association may fail

ASSUME KeyringAssumption ==
  /\ Nobody \notin KeyNames \cup Peers
  /\ Absent # Empty
  /\ {Absent, Empty} \cap (Nat \cup Files) = {}
  /\ Sessions \cap (Files \cup {Absent}) = {}
  /\ MaxPairs \in Nat
  /\ UnlinkMayFail \in BOOLEAN

VARIABLES
  made,       \* how many pairs were generated; a pair is its number
  keys,       \* .keys/<name>.key/: is it there, and what key and key.pub hold
  assocs,     \* .assocs/<peer>.key: the key pair the link leads to
  cypher,     \* cypher/<peer>.pub: what was imported, or the session that has made
              \* the file and not filled it
  exported,   \* the public keys copied out of the directory
  pc,         \* where the command of a session stands
  arg         \* what it has found out so far

dirVars == <<made, keys, assocs, cypher, exported>>
vars == <<made, keys, assocs, cypher, exported, pc, arg>>

Pairs  == 1..MaxPairs
Half   == Pairs \cup {Absent, Empty}
KeyDir == [dir : BOOLEAN, priv : Half, pub : Half]
NoDir  == [dir |-> FALSE, priv |-> Absent, pub |-> Absent]

Points == {"prompt",
           "sizing",       \* keygen: the name is free; "Enter a new RSA key's size"
           "saving priv", "saving pub",
           "linking",      \* keyassoc: the key is there, the peer to be entered
           "rmkey?",       \* rmkey: "Remove the key and the associations linked to it?"
           "unlinking",    \* rmkey: looking through .assocs
           "removing link",   \* rmkey: a link leads to the key
           "deleting",     \* rmkey: remove_all()
           "rmkeyassoc?", "rmkeyimp?",
           "importing",    \* keyimp: the file is there, the peer to be entered
           "copying",      \* keyimp: no key of the peer was there
           "filling",      \* keyimp: the copy was made and is empty
           "exporting"}    \* keyexp: the key is there, the path to be entered

Arg   == [key : KeyNames \cup {Nobody}, peer : Peers \cup {Nobody}, pair : 0..MaxPairs,
          file : Files \cup {Absent}, todo : SUBSET Peers]
NoArg == [key |-> Nobody, peer |-> Nobody, pair |-> 0, file |-> Absent, todo |-> {}]

Init ==
  /\ made = 0
  /\ keys = [k \in KeyNames |-> NoDir]
  /\ assocs = [p \in Peers |-> Nobody]
  /\ cypher = [p \in Peers |-> Absent]
  /\ exported = {}
  /\ pc = [s \in Sessions |-> "prompt"]
  /\ arg = [s \in Sessions |-> NoArg]

At(s, point) == pc[s] = point

\* A command goes on with what it has found out, or comes to its end.
GoOn(s, point, found) ==
  /\ pc' = [pc EXCEPT ![s] = point]
  /\ arg' = [arg EXCEPT ![s] = found]
Finish(s) == GoOn(s, "prompt", NoArg)

\* A command ends early and leaves everything as it stands then.
GiveUp(s) ==
  /\ ~At(s, "prompt")
  /\ Finish(s)
  /\ UNCHANGED dirVars

\* Profile::find_key(), find_assoc_key() and find_cypher_key() look for the
\* name in the directory; where a link leads to does not matter.
FindKey(k)       == keys[k].dir
FindAssocKey(p)  == assocs[p] # Nobody
FindCypherKey(p) == cypher[p] # Absent

\* Inbox::fetch_priv_key(): the key that messages of p are read with.
Readable(p) == FindAssocKey(p) /\ keys[assocs[p]].priv \in Pairs

-----------------------------------------------------------------------------
(* keygen *)

\* Mutated form: a name that is taken is not refused.
KeyGenAnyName(s, k) ==
  /\ At(s, "prompt")
  /\ GoOn(s, "sizing", [NoArg EXCEPT !.key = k])
  /\ UNCHANGED dirVars

KeyGen(s, k) ==
  /\ At(s, "prompt")
  /\ ~FindKey(k)
  /\ GoOn(s, "sizing", [NoArg EXCEPT !.key = k])
  /\ UNCHANGED dirVars

\* Mutated form: the public half is saved as soon as there is a directory.
MakeKeyDirWithPub(s) ==
  /\ At(s, "sizing")
  /\ made < MaxPairs
  /\ made' = made + 1
  /\ keys' = [keys EXCEPT ![arg[s].key].dir = TRUE, ![arg[s].key].pub = made + 1]
  /\ GoOn(s, "saving priv", [arg[s] EXCEPT !.pair = made + 1])
  /\ UNCHANGED <<assocs, cypher, exported>>

\* The pair is generated; Application::store() makes the directory unless it
\* is there,
MakeKeyDir(s) ==
  /\ At(s, "sizing")
  /\ made < MaxPairs
  /\ made' = made + 1
  /\ keys' = [keys EXCEPT ![arg[s].key].dir = TRUE]
  /\ GoOn(s, "saving priv", [arg[s] EXCEPT !.pair = made + 1])
  /\ UNCHANGED <<assocs, cypher, exported>>

\* and saves first the private half, then the public one.
SavePriv(s) ==
  /\ At(s, "saving priv")
  /\ FindKey(arg[s].key)
  /\ keys' = [keys EXCEPT ![arg[s].key].priv = arg[s].pair]
  /\ GoOn(s, "saving pub", arg[s])
  /\ UNCHANGED <<made, assocs, cypher, exported>>

SavePub(s) ==
  /\ At(s, "saving pub")
  /\ FindKey(arg[s].key)
  /\ keys' = [keys EXCEPT ![arg[s].key].pub = arg[s].pair]
  /\ Finish(s)
  /\ UNCHANGED <<made, assocs, cypher, exported>>

\* save_key() is cut off after creat(), which has truncated the file.
SaveTorn(s) ==
  /\ pc[s] \in {"saving priv", "saving pub"}
  /\ FindKey(arg[s].key)
  /\ keys' = IF At(s, "saving priv") THEN [keys EXCEPT ![arg[s].key].priv = Empty]
                                     ELSE [keys EXCEPT ![arg[s].key].pub = Empty]
  /\ Finish(s)
  /\ UNCHANGED <<made, assocs, cypher, exported>>

-----------------------------------------------------------------------------
(* keyassoc *)

KeyAssoc(s, k) ==
  /\ At(s, "prompt")
  /\ FindKey(k)
  /\ GoOn(s, "linking", [NoArg EXCEPT !.key = k])
  /\ UNCHANGED dirVars

\* Mutated form: a link that is there is replaced.
LinkOver(s, p) ==
  /\ At(s, "linking")
  /\ assocs' = [assocs EXCEPT ![p] = arg[s].key]
  /\ Finish(s)
  /\ UNCHANGED <<made, keys, cypher, exported>>

\* create_directory_symlink() fails on a name that is taken, also when the
\* link there leads nowhere.
Link(s, p) ==
  /\ At(s, "linking")
  /\ ~FindAssocKey(p)
  /\ assocs' = [assocs EXCEPT ![p] = arg[s].key]
  /\ Finish(s)
  /\ UNCHANGED <<made, keys, cypher, exported>>

-----------------------------------------------------------------------------
(* rmkey *)

RmKey(s, k) ==
  /\ At(s, "prompt")
  /\ FindKey(k)
  /\ GoOn(s, "rmkey?", [NoArg EXCEPT !.key = k])
  /\ UNCHANGED dirVars

\* Mutated form: the key goes first, then the associations.
RmKeyYesKeyFirst(s) ==
  /\ At(s, "rmkey?")
  /\ keys' = [keys EXCEPT ![arg[s].key] = NoDir]
  /\ GoOn(s, "unlinking", [arg[s] EXCEPT !.todo = Peers])
  /\ UNCHANGED <<made, assocs, cypher, exported>>

\* The answer is "y": the directory of associations is read.
RmKeyYes(s) ==
  /\ At(s, "rmkey?")
  /\ GoOn(s, "unlinking", [arg[s] EXCEPT !.todo = Peers])
  /\ UNCHANGED dirVars

\* Mutated form: the links are not compared with the key.
LookAtNone(s, p) ==
  /\ At(s, "unlinking")
  /\ p \in arg[s].todo
  /\ GoOn(s, "removing link", [arg[s] EXCEPT !.peer = p, !.todo = @ \ {p}])
  /\ UNCHANGED dirVars

\* One entry: read_symlink() tells whether it leads to the key.  An entry that
\* comes or goes meanwhile is found or not.
Look(s, p) ==
  /\ At(s, "unlinking")
  /\ p \in arg[s].todo
  /\ \/ /\ assocs[p] = arg[s].key
        /\ GoOn(s, "removing link", [arg[s] EXCEPT !.peer = p, !.todo = @ \ {p}])
     \/ /\ assocs[p] # arg[s].key
        /\ GoOn(s, "unlinking", [arg[s] EXCEPT !.todo = @ \ {p}])
  /\ UNCHANGED dirVars

\* The entry is removed, wherever it leads by now.  That fs::remove() fails goes
\* unnoticed.
RemoveLink(s) ==
  /\ At(s, "removing link")
  /\ \/ assocs' = [assocs EXCEPT ![arg[s].peer] = Nobody]
     \/ UnlinkMayFail /\ UNCHANGED assocs
  /\ GoOn(s, "unlinking", [arg[s] EXCEPT !.peer = Nobody])
  /\ UNCHANGED <<made, keys, cypher, exported>>

Unlinked(s) ==
  /\ At(s, "unlinking")
  /\ arg[s].todo = {}
  /\ GoOn(s, "deleting", arg[s])
  /\ UNCHANGED dirVars

\* remove_all(): the files, in the order in which they are found, and in the
\* end the directory, if it is empty by then.
DeleteHalf(s) ==
  /\ At(s, "deleting")
  /\ \/ keys' = [keys EXCEPT ![arg[s].key].priv = Absent]
     \/ keys' = [keys EXCEPT ![arg[s].key].pub = Absent]
  /\ UNCHANGED <<made, assocs, cypher, exported, pc, arg>>

DeleteDir(s) ==
  /\ At(s, "deleting")
  /\ keys[arg[s].key].priv = Absent /\ keys[arg[s].key].pub = Absent
  /\ keys' = [keys EXCEPT ![arg[s].key] = NoDir]
  /\ Finish(s)
  /\ UNCHANGED <<made, assocs, cypher, exported>>

-----------------------------------------------------------------------------
(* rmkeyassoc *)

\* The key the link leads to is shown with the question.
RmKeyAssoc(s, p) ==
  /\ At(s, "prompt")
  /\ FindAssocKey(p)
  /\ GoOn(s, "rmkeyassoc?", [NoArg EXCEPT !.peer = p, !.key = assocs[p]])
  /\ UNCHANGED dirVars

RmKeyAssocYes(s) ==
  /\ At(s, "rmkeyassoc?")
  /\ assocs' = [assocs EXCEPT ![arg[s].peer] = Nobody]
  /\ Finish(s)
  /\ UNCHANGED <<made, keys, cypher, exported>>

-----------------------------------------------------------------------------
(* keyimp, rmkeyimp and keyexp *)

\* Any regular file will do.
KeyImp(s, file) ==
  /\ At(s, "prompt")
  /\ GoOn(s, "importing", [NoArg EXCEPT !.file = file])
  /\ UNCHANGED dirVars

\* There is no key of the peer yet.
LookForImport(s, p) ==
  /\ At(s, "importing")
  /\ ~FindCypherKey(p)
  /\ GoOn(s, "copying", [arg[s] EXCEPT !.peer = p])
  /\ UNCHANGED dirVars

\* Mutated form: the copy may overwrite.
CreateImportOver(s) ==
  /\ At(s, "copying")
  /\ cypher' = [cypher EXCEPT ![arg[s].peer] = s]
  /\ GoOn(s, "filling", arg[s])
  /\ UNCHANGED <<made, keys, assocs, exported>>

\* copy_file() does not overwrite: it fails on a name that is taken by now, ...
CreateImport(s) ==
  /\ At(s, "copying")
  /\ ~FindCypherKey(arg[s].peer)
  /\ cypher' = [cypher EXCEPT ![arg[s].peer] = s]
  /\ GoOn(s, "filling", arg[s])
  /\ UNCHANGED <<made, keys, assocs, exported>>

\* ... and fills the file that it has made, under its name or without one.
FillImport(s) ==
  /\ At(s, "filling")
  /\ cypher' = [cypher EXCEPT ![arg[s].peer] = IF @ = s THEN arg[s].file ELSE @]
  /\ Finish(s)
  /\ UNCHANGED <<made, keys, assocs, exported>>

RmKeyImp(s, p) ==
  /\ At(s, "prompt")
  /\ FindCypherKey(p)
  /\ GoOn(s, "rmkeyimp?", [NoArg EXCEPT !.peer = p])
  /\ UNCHANGED dirVars

RmKeyImpYes(s) ==
  /\ At(s, "rmkeyimp?")
  /\ cypher' = [cypher EXCEPT ![arg[s].peer] = Absent]
  /\ Finish(s)
  /\ UNCHANGED <<made, keys, assocs, exported>>

KeyExp(s, k) ==
  /\ At(s, "prompt")
  /\ FindKey(k)
  /\ GoOn(s, "exporting", [NoArg EXCEPT !.key = k])
  /\ UNCHANGED dirVars

\* Mutated form: that there is nothing to copy goes unnoticed.
CopyExportedUnchecked(s) ==
  /\ At(s, "exporting")
  /\ exported' = exported \cup {keys[arg[s].key].pub}
  /\ Finish(s)
  /\ UNCHANGED <<made, keys, assocs, cypher>>

CopyExported(s) ==
  /\ At(s, "exporting")
  /\ keys[arg[s].key].pub # Absent
  /\ exported' = exported \cup {keys[arg[s].key].pub}
  /\ Finish(s)
  /\ UNCHANGED <<made, keys, assocs, cypher>>

-----------------------------------------------------------------------------

Next ==
  \E s \in Sessions :
    \/ \E k \in KeyNames : KeyGen(s, k) \/ KeyAssoc(s, k) \/ RmKey(s, k) \/ KeyExp(s, k)
    \/ \E p \in Peers : \/ Link(s, p) \/ Look(s, p) \/ RmKeyAssoc(s, p)
                        \/ LookForImport(s, p) \/ RmKeyImp(s, p)
    \/ \E file \in Files : KeyImp(s, file)
    \/ MakeKeyDir(s) \/ SavePriv(s) \/ SavePub(s) \/ SaveTorn(s)
    \/ RmKeyYes(s) \/ RemoveLink(s) \/ Unlinked(s) \/ DeleteHalf(s) \/ DeleteDir(s)
    \/ RmKeyAssocYes(s) \/ CreateImport(s) \/ FillImport(s) \/ RmKeyImpYes(s)
    \/ CopyExported(s) \/ GiveUp(s)

Spec == Init /\ [][Next]_vars

-----------------------------------------------------------------------------
(* Properties *)

\* Every variable has its type, and a directory that is not there is empty.
TypeOK ==
  /\ made \in 0..MaxPairs
  /\ keys \in [KeyNames -> KeyDir]
  /\ \A k \in KeyNames : ~keys[k].dir => keys[k] = NoDir
  /\ assocs \in [Peers -> KeyNames \cup {Nobody}]
  /\ cypher \in [Peers -> Files \cup Sessions \cup {Absent}]
  /\ exported \subseteq Pairs \cup {Empty}
  /\ pc \in [Sessions -> Points]
  /\ arg \in [Sessions -> Arg]

\* An association leads to a key pair that is there: rmkey takes the
\* associations away before the pair.  (Fails when two sessions are at work,
\* or when a link cannot be removed.)
NoDanglingAssoc == \A p \in Peers : FindAssocKey(p) => FindKey(assocs[p])

\* The two halves under one name belong together, so that what is cyphered
\* with an exported public key can be read with the private one.
PairsMatch ==
  \A k \in KeyNames :
    keys[k].priv \in Pairs /\ keys[k].pub \in Pairs => keys[k].priv = keys[k].pub

\* A private key is never replaced by another: keygen refuses a name that
\* exists.  (Fails when two sessions are at work.)
KeyNeverReplaced ==
  [][\A k \in KeyNames : keys[k].priv \in Pairs => keys'[k].priv \in {keys[k].priv, Absent}]_vars

\* A command is about to take away the association of a peer with the very key
\* that it has told its user of.
Unlinking(p) ==
  \E s \in Sessions : /\ pc[s] \in {"removing link", "rmkeyassoc?"}
                      /\ arg[s].peer = p
                      /\ arg[s].key = assocs[p]

\* While a user can read the messages of a peer, only taking away the very
\* association that makes it possible ends that; the key does not go first.
ReadableUntilUnlinked ==
  [][\A p \in Peers : Readable(p) /\ ~Readable(p)' => Unlinking(p)]_vars

\* An association never changes from one key to another, and goes only as its
\* user was told: in rmkey with the key it leads to, or in rmkeyassoc, which has
\* named that key with its question.  (Fails when two sessions are at work.)
UnlinkedAsNamed ==
  [][\A p \in Peers : FindAssocKey(p) /\ assocs'[p] # assocs[p] =>
       assocs'[p] = Nobody /\ Unlinking(p)]_vars

\* The file of an imported key, once it is made, is filled by the command that has
\* made it or removed by rmkeyimp, and nothing else becomes of it: of several
\* keyimp for one peer, between whose looks, creations and copies the others may
\* come in, and some of which are killed half-way, one makes the file.
ImportsStay ==
  [][\A p \in Peers : FindCypherKey(p) /\ cypher'[p] # cypher[p] =>
       \E s \in Sessions :
         /\ arg[s].peer = p
         /\ \/ At(s, "filling") /\ cypher[p] = s /\ cypher'[p] = arg[s].file
            \/ At(s, "rmkeyimp?") /\ cypher'[p] = Absent]_vars

-----------------------------------------------------------------------------

\* What commands know by the point where they stand: a pair that is about to be
\* saved was generated, a key that is about to be exported has a name.  It is
\* what TypeOK lacks to be inductive.
KnownByThen ==
  \A s \in Sessions :
    /\ pc[s] \in {"saving priv", "saving pub"} => arg[s].pair \in Pairs
    /\ pc[s] = "exporting" => arg[s].key \in KeyNames

TypeInv == TypeOK /\ KnownByThen

\* A session that is alone knows of the pair that it generates: there is nothing
\* under the name but what this command has put there.
GeneratingAlone ==
  \A s \in Sessions :
    LET k == arg[s].key IN
    /\ At(s, "sizing") => k \in KeyNames /\ keys[k] = NoDir
    /\ At(s, "saving priv") =>
         k \in KeyNames /\ keys[k].priv = Absent /\ keys[k].pub = Absent
    /\ At(s, "saving pub") =>
         k \in KeyNames /\ keys[k].priv = arg[s].pair /\ keys[k].pub = Absent

\* And of associations: the link that it is about to remove leads to the key that
\* it has named.
NamedAlone ==
  \A s \in Sessions :
    pc[s] \in {"removing link", "rmkeyassoc?"} =>
      arg[s].peer \in Peers /\ assocs[arg[s].peer] = arg[s].key

\* A key that is being associated is there; the links to a key that is being
\* removed are still to be looked at, but for one that was, and when the key goes
\* there is none.
LinkingAlone ==
  \A s \in Sessions :
    LET k == arg[s].key IN
    /\ At(s, "linking") => k \in KeyNames /\ FindKey(k)
    /\ pc[s] \in {"rmkey?", "unlinking", "removing link"} => k \in KeyNames
    /\ At(s, "unlinking") => \A p \in Peers : assocs[p] = k => p \in arg[s].todo
    /\ At(s, "removing link") =>
         \A p \in Peers : assocs[p] = k => p \in arg[s].todo \cup {arg[s].peer}
    /\ At(s, "deleting") => \A p \in Peers : assocs[p] # k

\* The inductive invariants of a session that is alone.
PairsInv == TypeInv /\ GeneratingAlone /\ PairsMatch
NamedInv == TypeInv /\ NamedAlone
LinksInv == NamedInv /\ LinkingAlone /\ NoDanglingAssoc
=============================================================================
