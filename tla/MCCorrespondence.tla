--------------------------- MODULE MCCorrespondence ---------------------------
(***************************************************************************)
(* Small instances of Correspondence for TLC.  Names of keys and peers are *)
(* interchangeable.                                                        *)
(***************************************************************************)
EXTENDS Correspondence, KeyringKeychain, TLC

Interchangeable ==
  Permutations(Sessions) \cup Permutations(KeyNames) \cup Permutations(Peers)
=============================================================================
