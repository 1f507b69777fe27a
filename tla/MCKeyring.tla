------------------------------ MODULE MCKeyring ------------------------------
(***************************************************************************)
(* Small instances of Keyring for TLC.  Sessions, names of keys, peers and *)
(* files to import are interchangeable.                                    *)
(***************************************************************************)
EXTENDS Keyring, TLC

Interchangeable ==
  Permutations(Sessions) \cup Permutations(KeyNames) \cup Permutations(Peers)
    \cup Permutations(Files)
=============================================================================
