--------------------------------- MODULE Cli ---------------------------------
(***************************************************************************)
(* The command line of one lmail process: the state machine that says      *)
(* whether a user is logged in, the state object that offers the commands, *)
(* the completion that lists them, and the questions that a command asks   *)
(* before it does something.  What the commands do to messages and keys is *)
(* left to the modules Mail and Keyring.                                   *)
(*                                                                         *)
(* The process is a single thread.  Apart from it there is the terminal,   *)
(* where somebody types, or does not, and which may be closed at any time. *)
(* The terminal shows what is typed unless the process has told it not to; *)
(* and the process may be killed at any time.                              *)
(***************************************************************************)
EXTENDS Naturals, Sequences

VARIABLES
  fsm,      \* the current state of the machine; "X" ends the process
  state_,   \* CliCtx::state_
  lister_,  \* Readline::lister_
  cmd,      \* the command in progress
  asked,    \* how many of its questions are settled
  input,    \* "open", or "ended": every read from now on finds the end
  echo      \* "on", or "off": the terminal does not show what is typed

vars == <<fsm, state_, lister_, cmd, asked, input, echo>>

States   == {"InitState", "MainState", "LoggedInState"}
NoLister == "none"
NoCmd    == "none"
Over     == "over"    \* in place of a command: run() has returned

-----------------------------------------------------------------------------
(* The commands *)

\* What a state object offers.  LoggedInState inherits "quit" from MainState,
\* not its other two commands; every state has "help".
MainCmds     == {"login", "register"}
LoggedInCmds == {"logout", "lsusers", "lskeys", "inbox", "sendmsg", "readmsg", "rmmsg",
                 "keygen", "keyexp", "keyimp", "keyassoc", "rmkey", "rmkeyassoc", "rmkeyimp"}
Offers == [InitState     |-> {},
           MainState     |-> MainCmds \cup {"quit", "help"},
           LoggedInState |-> LoggedInCmds \cup {"quit", "help"}]
Cmds == UNION {Offers[st] : st \in States}

\* The questions of a command, in their order: the reads in its exec().
\*   "line"     a line is read; the command may not like it
\*   "hidden"   the same, for a password
\*   "cypher?"  y/n, asked only if there is a key: the command goes on anyway
\*   "send?"    y/n: the command ends on "n"
\*   "sure?"    y/n: the command ends unless "y"
Lines(n) == [i \in 1..n |-> "line"]
Questions(c) ==
  CASE c \in {"readmsg", "rmmsg"}                                -> Lines(1)
    [] c \in {"keygen", "keyexp", "keyimp", "keyassoc"}          -> Lines(2)
    [] c = "login"                                               -> <<"line", "hidden">>
    [] c = "register"                                            -> <<"line", "hidden", "hidden">>
    [] c \in {"rmkey", "rmkeyassoc", "rmkeyimp"}                 -> <<"line", "sure?">>
    [] c = "sendmsg" -> <<"line", "line", "line", "cypher?", "send?">>
    [] OTHER         -> <<>>

\* How many of them may be settled by arguments.
Args(c) ==
  CASE c \in {"keyimp", "keyassoc"} -> 2
    [] Questions(c) = <<>>          -> 0
    [] OTHER                        -> 1

Running   == cmd \in Cmds
Asking(k) == Running /\ asked < Len(Questions(cmd)) /\ Questions(cmd)[asked + 1] = k

\* A password is read between two changes of the terminal: uread_hidden()
\* switches the echo off, reads, and restores the flags that it had found,
\* whatever came of the reading.
Reading  == Asking("hidden") => echo = "off"
Restores == echo' = IF Asking("hidden") THEN "on" ELSE echo

-----------------------------------------------------------------------------
(* The state machine *)

\* Mutated form: a user who is logged in cannot quit.
TransitionsNoQuit == {<<"idle",      "run",    "main">>,
                      <<"main",      "login",  "logged-in">>,
                      <<"main",      "quit",   "X">>,
                      <<"logged-in", "logout", "main">>}

Transitions == {<<"idle",      "run",    "main">>,
                <<"main",      "login",  "logged-in">>,
                <<"main",      "quit",   "X">>,
                <<"logged-in", "logout", "main">>,
                <<"logged-in", "quit",   "X">>}

\* Mutated form: nothing is done on the way back to "main".
SetsStateButOnLogout == {<<"main", "run">>, <<"logged-in", "login">>}

\* Mutated form: the state is not set when a user has logged in.
SetsStateButOnLogin == {<<"main", "run">>, <<"main", "logout">>}

\* The entry actions that set the state: by the state that is entered and the
\* event that leads there.
SetsState == {<<"main", "run">>, <<"main", "logout">>, <<"logged-in", "login">>}

Handled(from, event) == \E to \in {"main", "logged-in", "X"} : <<from, event, to>> \in Transitions
Target(from, event)  == CHOOSE to \in {"main", "logged-in", "X"} : <<from, event, to>> \in Transitions

\* process_event(): an event without a transition is dropped.
Process(event, state) ==
  LET to == Target(fsm, event)
  IN  IF ~Handled(fsm, event)
      THEN UNCHANGED <<fsm, state_, lister_>>
      ELSE /\ fsm' = to
           /\ IF <<to, event>> \in SetsState
              THEN state_' = state /\ lister_' = state
              ELSE UNCHANGED <<state_, lister_>>

\* The event that a command ends with, and the state object made for it.
EventOf(c) == IF c \in {"login", "logout", "quit"} THEN c ELSE "none"
StateFor(event) == IF event = "login" THEN "LoggedInState" ELSE "MainState"

-----------------------------------------------------------------------------

Init ==
  /\ fsm = "idle"
  /\ state_ = "InitState"
  /\ lister_ = NoLister
  /\ cmd = NoCmd
  /\ asked = 0
  /\ input = "open"
  /\ echo = "on"

\* Cli::run() up to its loop.
Run ==
  /\ fsm = "idle" /\ cmd = NoCmd
  /\ Process("run", "MainState")
  /\ UNCHANGED <<cmd, asked, input, echo>>

AtPrompt == fsm \notin {"idle", "X"} /\ cmd = NoCmd

\* A line with a command and n of its arguments is typed.  An empty line, and a
\* command that the state does not know, lead back to the prompt.
Type(c, n) ==
  /\ AtPrompt
  /\ input = "open"
  /\ c \in Offers[state_]
  /\ n <= Args(c)
  /\ cmd' = c
  /\ asked' = n
  /\ UNCHANGED <<fsm, state_, lister_, input, echo>>

Hide ==
  /\ Asking("hidden")
  /\ echo = "on"
  /\ echo' = "off"
  /\ UNCHANGED <<fsm, state_, lister_, cmd, asked, input>>

\* Mutated form: the questions have no end.
AnswerForever ==
  /\ Running /\ input = "open" /\ Reading /\ Restores
  /\ asked' = asked + 1
  /\ UNCHANGED <<fsm, state_, lister_, cmd, input>>

\* A question is answered; or is not asked, if it may be left out.
Answer ==
  /\ \/ Running /\ input = "open" /\ asked < Len(Questions(cmd))
     \/ Asking("cypher?")
  /\ Reading /\ Restores
  /\ asked' = asked + 1
  /\ UNCHANGED <<fsm, state_, lister_, cmd, input>>

\* The answer "n", or one that the command has no use for.
Decline ==
  /\ input = "open"
  /\ Asking("line") \/ Asking("hidden") \/ Asking("send?") \/ Asking("sure?")
  /\ Reading /\ Restores
  /\ cmd' = NoCmd
  /\ asked' = 0
  /\ UNCHANGED <<fsm, state_, lister_, input>>

\* What was settled so far turns out wrong: there is no such user, key or
\* message, or something throws.
Fail ==
  /\ Running
  /\ asked > 0
  /\ echo = "on"
  /\ cmd' = NoCmd
  /\ asked' = 0
  /\ UNCHANGED <<fsm, state_, lister_, input, echo>>

\* Mutated form: a y/n question is asked again until it gets an answer.
EndOfAnswersOnlyLines ==
  /\ Asking("line") \/ Asking("hidden")
  /\ Reading /\ Restores
  /\ cmd' = NoCmd /\ asked' = 0
  /\ UNCHANGED <<fsm, state_, lister_, input>>

\* Mutated form: uread_hidden() returns at once when the reading fails.
EndOfAnswersUnrestored ==
  /\ \/ Asking("line") \/ Asking("hidden") \/ Asking("sure?")
     \/ Asking("cypher?") \/ Asking("send?")
  /\ Reading
  /\ IF Asking("cypher?") \/ Asking("send?") THEN asked' = asked + 1 /\ UNCHANGED cmd
                                            ELSE cmd' = NoCmd /\ asked' = 0
  /\ UNCHANGED <<fsm, state_, lister_, input, echo>>

\* uread() finds the end of the input: ^D, which holds for this read only, or a
\* closed terminal.  A command that reads a line ends.  A loop for "y" or "n"
\* ends too, and the command goes on as with neither.
EndOfAnswers ==
  /\ \/ /\ Asking("line") \/ Asking("hidden") \/ Asking("sure?")
        /\ cmd' = NoCmd /\ asked' = 0
     \/ (Asking("cypher?") \/ Asking("send?")) /\ asked' = asked + 1 /\ UNCHANGED cmd
  /\ Reading /\ Restores
  /\ UNCHANGED <<fsm, state_, lister_, input>>

\* All questions are settled: the command does what it is for.  That login may
\* find the password wrong is a case of Fail.
Exec ==
  /\ Running
  /\ asked = Len(Questions(cmd))
  /\ IF EventOf(cmd) = "none" THEN UNCHANGED <<fsm, state_, lister_>>
                              ELSE Process(EventOf(cmd), StateFor(EventOf(cmd)))
  /\ cmd' = NoCmd
  /\ asked' = 0
  /\ UNCHANGED <<input, echo>>

\* The loop of Cli::run() ends, and with it the process.
Return ==
  /\ fsm = "X" \/ AtPrompt
  /\ cmd = NoCmd
  /\ cmd' = Over
  /\ UNCHANGED <<fsm, state_, lister_, asked, input, echo>>

\* The process is killed, and what it has done to the terminal stays.
Kill ==
  /\ cmd # Over
  /\ cmd' = Over
  /\ UNCHANGED <<fsm, state_, lister_, asked, input, echo>>

\* The terminal is closed.
Hangup ==
  /\ input = "open"
  /\ input' = "ended"
  /\ UNCHANGED <<fsm, state_, lister_, cmd, asked, echo>>

Next ==
  \/ Run
  \/ \E c \in Cmds, n \in 0..2 : Type(c, n)
  \/ Hide \/ Answer \/ Decline \/ Fail \/ EndOfAnswers \/ Exec \/ Return
  \/ Kill \/ Hangup

\* Nobody needs to type, to close the terminal, or to kill the process.  The
\* thread runs on where it does not wait for the terminal: to the first prompt,
\* up to the reading of a password, through a command with nothing left to ask,
\* out of a read that finds the input closed, and out of run().
Unattended == input = "ended" \/ fsm = "X"
Fairness ==
  /\ WF_vars(Run)
  /\ WF_vars(Hide)
  /\ WF_vars(Exec)
  /\ WF_vars(Unattended /\ (EndOfAnswers \/ Return))

Spec == Init /\ [][Next]_vars /\ Fairness

-----------------------------------------------------------------------------
(* Properties *)

\* Every variable has its type.
TypeOK ==
  /\ fsm \in {"idle", "main", "logged-in", "X"}
  /\ state_ \in States
  /\ lister_ \in States \cup {NoLister}
  /\ cmd \in Cmds \cup {NoCmd, Over}
  /\ asked \in 0..5
  /\ input \in {"open", "ended"}
  /\ echo \in {"on", "off"}

\* At every prompt the state machine, the state object that parses the line
\* and the completion agree on whether a user is logged in.  They are three
\* variables of three objects, which only the entry actions keep together.
AgreeAtPrompt ==
  AtPrompt =>
    /\ state_ = IF fsm = "main" THEN "MainState" ELSE "LoggedInState"
    /\ lister_ = state_

\* No event is dropped: whatever a state object lets its user start, the state
\* machine has a transition for the event at the end of it, which no reply of
\* process_event() would tell the command.
NoEventDropped ==
  Running /\ EventOf(cmd) # "none" => Handled(fsm, EventOf(cmd))

\* What is typed is shown, at every prompt and for every question but one for a
\* password, in whatever way the questions for passwords before have ended.
EchoUnlessHidden ==
  AtPrompt \/ (Running /\ ~Asking("hidden")) => echo = "on"

\* When the terminal has been closed the process comes to its end, from the
\* middle of every command and every question.
EndsWithInput == input = "ended" ~> cmd = Over

\* "quit" ends the process.
QuitEnds == cmd = "quit" ~> cmd = Over

\* The three views, the questions and the terminal implement the session: a
\* command is on offer whenever it is begun and still when it takes effect, and
\* only the two that are to do so change what is on offer.
S == INSTANCE Session WITH
       Outside <- Offers["MainState"],
       Inside  <- Offers["LoggedInState"],
       Idle    <- NoCmd,
       where   <- IF cmd = Over \/ fsm \in {"idle", "X"} THEN "off" ELSE fsm,
       doing   <- IF cmd = Over THEN NoCmd ELSE cmd

ImplementsSession == S!Spec
=============================================================================
