-------------------------------- MODULE Session --------------------------------
(***************************************************************************)
(* What the command line of a process promises its user: commands come one *)
(* at a time, each only while it is on offer; login and logout are the     *)
(* only ones that change what is on offer; and after quit there is none.   *)
(* How it keeps track of that, and which questions it asks meanwhile, is   *)
(* not said here.                                                          *)
(***************************************************************************)

CONSTANTS
  Outside,   \* the commands on offer while nobody is logged in
  Inside,    \* ... and while somebody is
  Idle       \* no command

VARIABLES
  where,     \* "off", "main" or "logged-in"
  doing      \* the command in progress

OnOffer == CASE where = "main"      -> Outside
             [] where = "logged-in" -> Inside
             [] OTHER               -> {}

Init == where = "off" /\ doing = Idle

Open == where = "off" /\ where' = "main" /\ UNCHANGED doing

Begin(c) == doing = Idle /\ c \in OnOffer /\ doing' = c /\ UNCHANGED where

\* Nothing has come of it, or something that does not show here.
Finish == doing # Idle /\ doing' = Idle /\ UNCHANGED where

Enter == doing = "login"  /\ where' = "logged-in" /\ doing' = Idle
Leave == doing = "logout" /\ where' = "main"      /\ doing' = Idle

\* On quit, on the end of the input, or killed in the middle of anything.
Close == where # "off" /\ where' = "off" /\ doing' = Idle

Next ==
  \/ Open \/ Finish \/ Enter \/ Leave \/ Close
  \/ \E c \in Outside \cup Inside : Begin(c)

Spec == Init /\ [][Next]_<<where, doing>>
=============================================================================
