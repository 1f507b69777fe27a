------------------------------- MODULE MCMail -------------------------------
(***************************************************************************)
(* Small instances of Mail for TLC.  The configurations choose how many    *)
(* sessions, names, texts, keys and messages there are.  Sessions and names *)
(* are interchangeable.                                                    *)
(***************************************************************************)
EXTENDS MailPostbox

Interchangeable == Permutations(Sessions) \cup Permutations(Usernames)
=============================================================================
