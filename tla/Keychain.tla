------------------------------ MODULE Keychain ------------------------------
(***************************************************************************)
(* What a user with one session may rely on in the key directory, without  *)
(* files, questions, and commands that take several steps or are killed: a *)
(* secret is new, is put under a name that holds none, and is never        *)
(* replaced; nothing is offered under a name but the public half of the    *)
(* secret that was kept there before; the key of a peer has a name that is *)
(* in use; and nothing is lost under a name while it is a peer's.          *)
(***************************************************************************)
CONSTANTS
  KeyNames,
  Peers,
  Pairs,       \* key pairs, each of a secret and a public half
  Contents,    \* what files with the keys of peers hold
  NoName,      \* the key of a peer who has none
  Nothing      \* no secret, no file

VARIABLES
  names,       \* the names in use
  secret,      \* the secret under each name, if there is one
  offer,       \* the public half under each name, if there is one
  spent,       \* the pairs that will never be generated again
  published,   \* the pairs whose public half was given away
  key,         \* the name of the key that is for each peer
  imported     \* what each peer's public key file holds

kvars == <<names, secret, offer, spent, published, key, imported>>

Init ==
  /\ names = {}
  /\ secret = [k \in KeyNames |-> Nothing]
  /\ offer = [k \in KeyNames |-> Nothing]
  /\ spent = {}
  /\ published = {}
  /\ key = [p \in Peers |-> NoName]
  /\ imported = [p \in Peers |-> Nothing]

Take(k) ==
  /\ k \notin names
  /\ names' = names \cup {k}
  /\ UNCHANGED <<secret, offer, spent, published, key, imported>>

Keep(k, pair) ==
  /\ k \in names
  /\ secret[k] = Nothing
  /\ pair \notin spent
  /\ secret' = [secret EXCEPT ![k] = pair]
  /\ spent' = spent \cup {pair}
  /\ UNCHANGED <<names, offer, published, key, imported>>

\* A pair that was generated and never kept.
Waste(pair) ==
  /\ pair \notin spent
  /\ spent' = spent \cup {pair}
  /\ UNCHANGED <<names, secret, offer, published, key, imported>>

\* What is offered under a name belongs to the secret under that name, which it
\* may outlive.
Offer(k) ==
  /\ secret[k] # Nothing
  /\ offer[k] = Nothing
  /\ offer' = [offer EXCEPT ![k] = secret[k]]
  /\ UNCHANGED <<names, secret, spent, published, key, imported>>

Publish(k) ==
  /\ offer[k] # Nothing
  /\ published' = published \cup {offer[k]}
  /\ UNCHANGED <<names, secret, offer, spent, key, imported>>

Associate(p, k) ==
  /\ key[p] = NoName
  /\ k \in names
  /\ key' = [key EXCEPT ![p] = k]
  /\ UNCHANGED <<names, secret, offer, spent, published, imported>>

Dissociate(p) ==
  /\ key' = [key EXCEPT ![p] = NoName]
  /\ UNCHANGED <<names, secret, offer, spent, published, imported>>

Lose(k) ==
  /\ \A p \in Peers : key[p] # k
  /\ \/ secret' = [secret EXCEPT ![k] = Nothing] /\ UNCHANGED offer
     \/ offer' = [offer EXCEPT ![k] = Nothing] /\ UNCHANGED secret
  /\ UNCHANGED <<names, spent, published, key, imported>>

Free(k) ==
  /\ \A p \in Peers : key[p] # k
  /\ secret[k] = Nothing /\ offer[k] = Nothing
  /\ names' = names \ {k}
  /\ UNCHANGED <<secret, offer, spent, published, key, imported>>

Import(p) ==
  /\ imported[p] = Nothing
  /\ \E content \in Contents : imported' = [imported EXCEPT ![p] = content]
  /\ UNCHANGED <<names, secret, offer, spent, published, key>>

Discard(p) ==
  /\ imported' = [imported EXCEPT ![p] = Nothing]
  /\ UNCHANGED <<names, secret, offer, spent, published, key>>

Next ==
  \/ \E k \in KeyNames : \/ Take(k) \/ Offer(k) \/ Publish(k) \/ Lose(k) \/ Free(k)
                         \/ \E pair \in Pairs : Keep(k, pair)
                         \/ \E p \in Peers : Associate(p, k)
  \/ \E p \in Peers : Dissociate(p) \/ Import(p) \/ Discard(p)
  \/ \E pair \in Pairs : Waste(pair)

Spec == Init /\ [][Next]_kvars
=============================================================================
