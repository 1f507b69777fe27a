--------------------------- MODULE KeyringKeychain ---------------------------
(***************************************************************************)
(* The key directory implements the keychain, as long as one session works *)
(* on it and links can be removed: forget the files without content, and   *)
(* where the commands stand.                                               *)
(***************************************************************************)
EXTENDS Keyring

Whole(half) == IF half \in Pairs THEN half ELSE Absent

Names   == {k \in KeyNames : FindKey(k)}
Secrets == [k \in KeyNames |-> Whole(keys[k].priv)]
Offers  == [k \in KeyNames |-> Whole(keys[k].pub)]
Imports == [p \in Peers |-> IF cypher[p] \in Files THEN cypher[p] ELSE Absent]

\* A pair that is about to be saved may still become a secret.
Spent == {pair \in Pairs : pair <= made /\ \A s \in Sessions :
                             At(s, "saving priv") => arg[s].pair # pair}

K == INSTANCE Keychain WITH
       Contents  <- Files,
       NoName    <- Nobody,
       Nothing   <- Absent,
       names     <- Names,
       secret    <- Secrets,
       offer     <- Offers,
       spent     <- Spent,
       published <- exported \cap Pairs,
       key       <- assocs,
       imported  <- Imports

\* Every behaviour of one session, killed anywhere or with any call failing but the
\* removal of a link, is one of the keychain: a secret is new and is never replaced, what is given away under a
\* name is the public half of a secret that was kept there, and a key for a peer's
\* letters stays whole until the peer has another or none.
ImplementsKeychain == K!Spec

-----------------------------------------------------------------------------

\* A pair that is about to be saved was generated.  With PairsInv and LinksInv it
\* is what the steps are mapped with.
Generated == \A s \in Sessions : At(s, "saving priv") => arg[s].pair <= made

KeychainInv == PairsInv /\ LinksInv /\ Generated
=============================================================================
