---------------------------- MODULE Correspondence ----------------------------
(***************************************************************************)
(* The letters that peers have sent to a user, and the key directory that  *)
(* the user reads them with.  A letter stays cyphered in the database and  *)
(* in the inbox: each time it is shown it is decrypted anew, with whatever *)
(* key the directory then associates with the name of its sender.  The     *)
(* peers cypher with public keys that were once exported from the          *)
(* directory, and never hear of what became of those keys.                 *)
(***************************************************************************)
EXTENDS Keyring

CONSTANT MaxPost   \* bound: how many different letters are sent

ASSUME CorrespondenceAssumption == MaxPost \in Nat

VARIABLES
  post,   \* the letters
  lost    \* the pairs whose private half was deleted, by rmkey (a history)

letterVars == <<vars, post, lost>>

\* `key' is the pair that the text is cyphered for, or 0 if it is in the clear.
Letter == [from : Peers, cyphered : BOOLEAN, key : 0..MaxPairs]

LetterInit ==
  /\ Init
  /\ post = {}
  /\ lost = {}

\* sendmsg of a peer who declines to cypher or has no key to do it with, ...
SendPlain(p) ==
  post' = post \cup {[from |-> p, cyphered |-> FALSE, key |-> 0]}

\* ... and of one who cyphers, with a key that was exported at some time; or
\* with a file that holds no key, or fails to: the letter is marked all the same.
SendCyphered(p) ==
  \E pair \in {0} \cup (exported \cap Pairs) :
    post' = post \cup {[from |-> p, cyphered |-> TRUE, key |-> pair]}

Send(p) ==
  /\ Cardinality(post) < MaxPost
  /\ SendPlain(p) \/ SendCyphered(p)
  /\ UNCHANGED <<vars, lost>>

\* The private halves that are deleted are lost for good.
KeysStep ==
  /\ Next
  /\ lost' = lost \cup {pair \in Pairs : \E k \in KeyNames :
                         keys[k].priv = pair /\ keys'[k].priv = Absent}
  /\ UNCHANGED post

LetterNext == KeysStep \/ \E p \in Peers : Send(p)

LetterSpec == LetterInit /\ [][LetterNext]_letterVars

-----------------------------------------------------------------------------
(* What the user sees *)

\* fetch_priv_key(): the pair of the key associated with a peer, or 0 if no key
\* is associated or its file cannot be loaded.
FetchPrivKey(p) == IF Readable(p) THEN keys[assocs[p]].priv ELSE 0

\* cypher_params(): the key to read a letter with, if it takes one, and whether
\* it can be read at all.
CypherParams(m) ==
  LET pair == IF m.cyphered THEN FetchPrivKey(m.from) ELSE 0
  IN  [pair |-> pair, readable |-> ~m.cyphered \/ pair # 0]

\* A text comes out right if it is decrypted with the key it was cyphered for;
\* else it is empty, or something else.  (That decrypt() may refuse such a text
\* all the same, for its leading zero bytes, is the matter of Crypt.)
Decrypted(m, pair) == IF m.key = pair THEN "text" ELSE "garbage"

\* show() and show_topic().
Shown(m) ==
  LET params == CypherParams(m) IN
  CASE ~params.readable                     -> "check keys"
    [] params.readable /\ params.pair = 0   -> "text"
    [] params.readable /\ params.pair # 0   -> Decrypted(m, params.pair)

\* print_own(): the keys that are there, each with the peers whose link leads
\* to it.
LsKeys == [k \in {k \in KeyNames : FindKey(k)} |-> {p \in Peers : assocs[p] = k}]

-----------------------------------------------------------------------------
(* Properties *)

LetterTypeOK ==
  /\ TypeInv
  /\ post \subseteq Letter
  /\ lost \subseteq Pairs

Holders(pair) == {k \in KeyNames : keys[k].priv = pair}

\* A letter that is cyphered for a pair can be read: the private half is under
\* some name, which lskeys shows, until the user has rmkey delete it.  (Fails
\* when two sessions generate keys.)
LettersNotOrphaned ==
  \A m \in post : m.key # 0 /\ m.key \notin lost => Holders(m.key) \cap DOMAIN LsKeys # {}

\* A letter that was shown to the user as it was written will be shown so until
\* the user takes the association with its sender away, or the key of it.
LettersStayReadable ==
  [][\A m \in post :
       m.cyphered /\ Shown(m) = "text" /\ Shown(m)' # "text" => Unlinking(m.from)]_letterVars

-----------------------------------------------------------------------------

\* The pairs that a letter may be cyphered for, now or later.
InUse(pair) ==
  \/ pair \in exported
  \/ \E k \in KeyNames : keys[k].pub = pair
  \/ \E m \in post : m.key = pair

\* A session that is alone saves the private half first: no public half is in
\* use without it, unless rmkey has deleted it.  With the invariant of the pairs
\* this is inductive.
HeldOrLost == \A pair \in Pairs : InUse(pair) => Holders(pair) # {} \/ pair \in lost

LetterInv == LetterTypeOK /\ PairsInv /\ HeldOrLost
=============================================================================
