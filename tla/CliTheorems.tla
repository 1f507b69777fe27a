----------------------------- MODULE CliTheorems -----------------------------
(***************************************************************************)
(* The command line: the state machine, the state object and the           *)
(* completion are changed by nothing but the entry actions, and are        *)
(* together at every prompt.  Commands are started from a state that       *)
(* offers them, and the machine stays where it is until they end.  The     *)
(* terminal shows what is typed unless a password is being asked for.      *)
(***************************************************************************)
EXTENDS Cli, SequenceTheorems, TLAPS

\* The state object and the completion that go with a state of the machine.
Together ==
  fsm \in {"main", "logged-in"} =>
    /\ state_ = IF fsm = "main" THEN "MainState" ELSE "LoggedInState"
    /\ lister_ = state_

\* A command in progress was offered by the state that is still the current one.
CmdOffered ==
  /\ fsm \in {"idle", "X"} => cmd \in {NoCmd, Over}
  /\ Running => cmd \in Offers[state_]

\* Without an echo, either a password is being read or the process was killed
\* while one was.
EchoInv == echo = "off" => Asking("hidden") \/ cmd = Over

CliInv == TypeOK /\ Together /\ CmdOffered

-----------------------------------------------------------------------------

\* No command asks more than five questions.
LEMMA QuestionsBounded ==
  ASSUME NEW c
  PROVE  Len(Questions(c)) \in 0..5
<1>1. \A n \in 0..3 : Len(Lines(n)) = n
  <2> SUFFICES ASSUME NEW n \in 0..3 PROVE Len(Lines(n)) = n
    OBVIOUS
  <2>1. Lines(n) \in Seq({"line"}) /\ DOMAIN Lines(n) = 1..n
    BY SeqDef DEF Lines
  <2> QED BY <2>1, LenProperties
<1>2. /\ Len(<<"line", "sure?">>) = 2
      /\ Len(<<"line", "hidden">>) = 2
      /\ Len(<<"line", "hidden", "hidden">>) = 3
      /\ Len(<<"line", "line", "line", "cypher?", "send?">>) = 5
      /\ Len(<<>>) = 0
  OBVIOUS
<1> QED BY <1>1, <1>2 DEF Questions

\* Nor does any take more than two arguments.
LEMMA ArgsBounded ==
  ASSUME NEW c
  PROVE  Args(c) \in 0..2
BY DEF Args

\* The names of commands are no names of anything else.
LEMMA CmdsNamed == NoCmd \notin Cmds /\ Over \notin Cmds
BY DEF NoCmd, Over, Cmds, Offers, States, MainCmds, LoggedInCmds

\* Where the machine goes on an event that it handles.
LEMMA Targets ==
  /\ Handled("idle", "run") /\ Target("idle", "run") = "main"
  /\ Handled("main", "login") /\ Target("main", "login") = "logged-in"
  /\ Handled("main", "quit") /\ Target("main", "quit") = "X"
  /\ Handled("logged-in", "logout") /\ Target("logged-in", "logout") = "main"
  /\ Handled("logged-in", "quit") /\ Target("logged-in", "quit") = "X"
BY DEF Handled, Target, Transitions

\* What a state offers leads to no event that the machine would drop.
LEMMA OffersHandled ==
  /\ \A c \in Offers["MainState"] : EventOf(c) \in {"none", "login", "quit"}
  /\ \A c \in Offers["LoggedInState"] : EventOf(c) \in {"none", "logout", "quit"}
BY DEF Offers, MainCmds, LoggedInCmds, EventOf

\* A step that leaves the machine alone and starts no command.
LEMMA TalkingStep ==
  ASSUME CliInv, UNCHANGED <<fsm, state_, lister_>>,
         cmd' = cmd \/ cmd' = NoCmd, asked' \in 0..5, input' \in {"open", "ended"},
         echo' \in {"on", "off"}
  PROVE  CliInv'
BY CmdsNamed DEF CliInv, TypeOK, Together, CmdOffered, Running

\* Every step keeps the three together.
LEMMA CliStep == CliInv /\ [Next]_vars => CliInv'
<1> SUFFICES ASSUME CliInv, [Next]_vars PROVE CliInv'
  OBVIOUS
<1>0. TypeOK /\ asked \in 0..5 /\ input \in {"open", "ended"} /\ echo \in {"on", "off"}
  BY DEF CliInv, TypeOK
<1>e. Restores => echo' \in {"on", "off"}
  BY <1>0 DEF Restores
<1>q. asked < Len(Questions(cmd)) => asked + 1 \in 0..5
  <2>1. \A a, n \in 0..5 : a < n => a + 1 \in 0..5
    OBVIOUS
  <2>2. Len(Questions(cmd)) \in 0..5
    BY QuestionsBounded
  <2> QED BY <1>0, <2>1, <2>2
<1>1. CASE Run
  <2>1. /\ fsm' = "main" /\ state_' = "MainState" /\ lister_' = "MainState"
        /\ UNCHANGED <<cmd, asked, input, echo>>
    BY <1>1, Targets DEF Run, Process, SetsState
  <2>2. cmd \in {NoCmd, Over}
    BY <1>1 DEF Run, CliInv, CmdOffered
  <2> QED BY <2>1, <2>2, CmdsNamed
          DEF CliInv, TypeOK, Together, CmdOffered, Running, States
<1>2. ASSUME NEW c \in Cmds, NEW n \in 0..2, Type(c, n)
      PROVE  CliInv'
  BY <1>2 DEF Type, AtPrompt, CliInv, TypeOK, Together, CmdOffered, Running
<1>h. CASE Hide
  BY <1>0, <1>h, TalkingStep DEF Hide
<1>k. CASE Kill
  BY <1>k, CmdsNamed DEF Kill, CliInv, TypeOK, Together, CmdOffered, Running
<1>3. CASE Answer
  <2>1. asked < Len(Questions(cmd))
    BY <1>3 DEF Answer, Asking
  <2>2. asked + 1 \in 0..5
    BY <1>q, <2>1
  <2> QED BY <1>0, <1>e, <1>3, <2>2, TalkingStep DEF Answer
<1>4. CASE Decline \/ Fail
  BY <1>0, <1>e, <1>4, TalkingStep DEF Decline, Fail
<1>5. CASE EndOfAnswers
  <2>1. CASE asked' = 0
    BY <1>0, <1>e, <1>5, <2>1, TalkingStep DEF EndOfAnswers
  <2>2. CASE asked' # 0
    <3>1. asked < Len(Questions(cmd)) /\ asked' = asked + 1 /\ cmd' = cmd
      BY <1>5, <2>2 DEF EndOfAnswers, Asking
    <3>2. asked + 1 \in 0..5
      BY <1>q, <3>1
    <3> QED BY <1>0, <1>e, <1>5, <3>1, <3>2, TalkingStep DEF EndOfAnswers
  <2> QED BY <2>1, <2>2
<1>6. CASE Exec
  <2>0. /\ Running /\ cmd' = NoCmd /\ asked' = 0 /\ input' = input /\ echo' = echo
        /\ fsm \in {"main", "logged-in"} /\ cmd \in Offers[state_]
        /\ state_ = IF fsm = "main" THEN "MainState" ELSE "LoggedInState"
    BY <1>6, CmdsNamed DEF Exec, CliInv, TypeOK, CmdOffered, Together, Running
  <2>1. CASE EventOf(cmd) = "none"
    BY <1>0, <1>6, <2>0, <2>1, TalkingStep DEF Exec
  <2>2. CASE EventOf(cmd) # "none"
    <3>1. Process(EventOf(cmd), StateFor(EventOf(cmd)))
      BY <1>6, <2>2 DEF Exec
    <3>2. \/ fsm = "main" /\ EventOf(cmd) \in {"login", "quit"}
          \/ fsm = "logged-in" /\ EventOf(cmd) \in {"logout", "quit"}
      BY <2>0, <2>2, OffersHandled
    <3>3. \/ fsm' = "logged-in" /\ state_' = "LoggedInState" /\ lister_' = state_'
          \/ fsm' = "main" /\ state_' = "MainState" /\ lister_' = state_'
          \/ fsm' = "X" /\ UNCHANGED <<state_, lister_>>
      BY <3>1, <3>2, Targets DEF Process, SetsState, StateFor
    <3> QED BY <1>0, <2>0, <3>3, CmdsNamed
            DEF TypeOK, CliInv, Together, CmdOffered, Running, States
  <2> QED BY <2>1, <2>2
<1>7. CASE Return
  BY <1>7, CmdsNamed DEF Return, CliInv, TypeOK, Together, CmdOffered, Running
<1>8. CASE Hangup
  BY <1>0, <1>8, TalkingStep DEF Hangup
<1>9. CASE UNCHANGED vars
  BY <1>0, <1>9, TalkingStep DEF vars
<1> QED BY <1>1, <1>2, <1>3, <1>4, <1>5, <1>6, <1>7, <1>8, <1>9, <1>h, <1>k DEF Next

\* However a question for a password ends, it leaves the echo switched on.
LEMMA EchoStep == TypeOK /\ EchoInv /\ [Next]_vars => EchoInv'
<1> SUFFICES ASSUME TypeOK, EchoInv, [Next]_vars PROVE EchoInv'
  OBVIOUS
<1>0. echo \in {"on", "off"} /\ (cmd \in Cmds \/ cmd = NoCmd => cmd # Over)
  BY CmdsNamed DEF TypeOK, NoCmd, Over
<1>1. ASSUME cmd \in Cmds, Restores PROVE EchoInv'
  BY <1>0, <1>1 DEF EchoInv, Restores
<1>2. ASSUME UNCHANGED <<cmd, asked, echo>> PROVE EchoInv'
  BY <1>2 DEF EchoInv, Asking, Running
<1>3. ASSUME cmd = NoCmd, echo' = echo PROVE EchoInv'
  BY <1>0, <1>3, CmdsNamed DEF EchoInv, Asking, Running
<1>4. CASE Run \/ Hangup \/ UNCHANGED vars
  BY <1>4, <1>2 DEF Run, Hangup, vars
<1>5. ASSUME NEW c \in Cmds, NEW n \in 0..2, Type(c, n) PROVE EchoInv'
  BY <1>5, <1>3 DEF Type, AtPrompt
<1>6. CASE Hide
  BY <1>6 DEF Hide, EchoInv, Asking, Running
<1>7. CASE Answer \/ Decline \/ EndOfAnswers
  BY <1>7, <1>1 DEF Answer, Decline, EndOfAnswers, Asking, Running
<1>8. CASE Fail
  BY <1>8 DEF Fail, EchoInv
<1>9. CASE Exec
  <2>1. cmd \in Cmds /\ ~Asking("hidden") /\ echo' = echo
    BY <1>9, TypeOK, QuestionsBounded DEF Exec, Asking, Running
  <2> QED BY <1>0, <2>1 DEF EchoInv
<1>10. CASE Return
  BY <1>10, <1>3 DEF Return
<1>11. CASE Kill
  BY <1>11 DEF Kill, EchoInv
<1> QED BY <1>4, <1>5, <1>6, <1>7, <1>8, <1>9, <1>10, <1>11 DEF Next

\* The invariant of the command line.
LEMMA CliInvariant == Spec => []CliInv
<1>1. Init => CliInv
  BY CmdsNamed DEF Init, CliInv, TypeOK, Together, CmdOffered, Running, States, NoLister
<1> QED BY <1>1, CliStep, PTL DEF Spec

\* Every variable has its type, and no command settles more questions than it has.
THEOREM CliTypes == Spec => []TypeOK
BY CliInvariant, PTL DEF CliInv

\* At every prompt the state machine, the state object and the completion agree
\* on whether a user is logged in, however commands end before.
THEOREM PromptsAgree == Spec => []AgreeAtPrompt
<1>1. CliInv => AgreeAtPrompt
  BY DEF CliInv, TypeOK, Together, AgreeAtPrompt, AtPrompt
<1> QED BY <1>1, CliInvariant, PTL

\* The machine handles the event of every command that is in progress.
THEOREM EventsHandled == Spec => []NoEventDropped
<1>1. CliInv => NoEventDropped
  <2> SUFFICES ASSUME CliInv, Running, EventOf(cmd) # "none"
               PROVE  Handled(fsm, EventOf(cmd))
    BY DEF NoEventDropped
  <2>1. /\ fsm \in {"main", "logged-in"} /\ cmd \in Offers[state_]
        /\ state_ = IF fsm = "main" THEN "MainState" ELSE "LoggedInState"
    BY CmdsNamed DEF CliInv, TypeOK, CmdOffered, Together, Running
  <2> QED BY <2>1, OffersHandled, Targets
<1> QED BY <1>1, CliInvariant, PTL

\* The terminal shows what is typed, at every prompt and for every question but
\* one for a password, in whatever way those have ended.
THEOREM TerminalRestored == Spec => []EchoUnlessHidden
<1>1. Init => EchoInv
  BY DEF Init, EchoInv
<1>2. TypeOK /\ EchoInv => EchoUnlessHidden
  BY CmdsNamed DEF TypeOK, EchoInv, EchoUnlessHidden, AtPrompt, Running, Asking, NoCmd, Over
<1> QED BY <1>1, <1>2, EchoStep, CliTypes, PTL DEF Spec

-----------------------------------------------------------------------------
(* The refinement *)

Where == IF cmd = Over \/ fsm \in {"idle", "X"} THEN "off" ELSE fsm
Doing == IF cmd = Over THEN NoCmd ELSE cmd

\* What the session sees of a question that is settled, or of none: nothing.
LEMMA Unseen ==
  ASSUME UNCHANGED <<fsm, cmd>>
  PROVE  UNCHANGED <<Where, Doing>>
BY DEF Where, Doing

\* ... and of a command that is given up: that it is over.
LEMMA SeenAsFinish ==
  ASSUME cmd \in Cmds, cmd' = NoCmd, fsm' = fsm
  PROVE  S!Next
BY CmdsNamed, Zenon DEF S!Next, S!Finish, NoCmd, Over

\* A command that takes effect.
LEMMA SeenAsEffect ==
  ASSUME CliInv, Exec
  PROVE  S!Next
<1>0. /\ cmd \in Cmds /\ cmd' = NoCmd /\ cmd # Over /\ NoCmd # Over
      /\ fsm \in {"main", "logged-in"} /\ cmd \in Offers[state_]
      /\ state_ = IF fsm = "main" THEN "MainState" ELSE "LoggedInState"
  BY CmdsNamed DEF Exec, CliInv, TypeOK, CmdOffered, Together, Running, NoCmd, Over
<1>1. CASE EventOf(cmd) = "none"
  BY <1>0, <1>1, SeenAsFinish DEF Exec
<1>2. CASE EventOf(cmd) # "none"
  <2>1. \/ cmd = "login"  /\ fsm = "main"      /\ fsm' = "logged-in"
        \/ cmd = "logout" /\ fsm = "logged-in" /\ fsm' = "main"
        \/ cmd = "quit"   /\ fsm' = "X"
    <3>1. Process(EventOf(cmd), StateFor(EventOf(cmd)))
      BY <1>2 DEF Exec
    <3>2. \/ fsm = "main" /\ EventOf(cmd) \in {"login", "quit"}
          \/ fsm = "logged-in" /\ EventOf(cmd) \in {"logout", "quit"}
      BY <1>0, <1>2, OffersHandled
    <3>3. cmd = EventOf(cmd)
      BY <1>2 DEF EventOf
    <3> QED BY <3>1, <3>2, <3>3, Targets DEF Process
  <2>2. CASE cmd = "login"
    BY <1>0, <2>1, <2>2 DEF S!Next, S!Enter
  <2>3. CASE cmd = "logout"
    BY <1>0, <2>1, <2>3 DEF S!Next, S!Leave
  <2>4. CASE cmd = "quit"
    BY <1>0, <2>1, <2>4 DEF S!Next, S!Close
  <2> QED BY <2>1, <2>2, <2>3, <2>4
<1> QED BY <1>1, <1>2

\* Every step of the command line is one of the session, or none.
LEMMA SessionStep == CliInv /\ [Next]_vars => S!Next \/ UNCHANGED <<Where, Doing>>
<1> SUFFICES ASSUME CliInv, [Next]_vars
             PROVE  S!Next \/ UNCHANGED <<Where, Doing>>
  OBVIOUS
<1>0. /\ NoCmd \notin Cmds /\ Over \notin Cmds /\ NoCmd # Over
      /\ fsm \in {"idle", "main", "logged-in", "X"} /\ cmd \in Cmds \cup {NoCmd, Over}
  BY CmdsNamed DEF CliInv, TypeOK, NoCmd, Over
<1>1. CASE Run
  <2>1. fsm = "idle" /\ cmd = NoCmd /\ fsm' = "main" /\ cmd' = cmd
    BY <1>1, Targets DEF Run, Process
  <2> QED BY <1>0, <2>1 DEF S!Next, S!Open
<1>2. ASSUME NEW c \in Cmds, NEW n \in 0..2, Type(c, n)
      PROVE  S!Next
  <2>1. /\ fsm \in {"main", "logged-in"} /\ cmd = NoCmd /\ cmd' = c /\ fsm' = fsm
        /\ c \in Offers[IF fsm = "main" THEN "MainState" ELSE "LoggedInState"]
    BY <1>0, <1>2 DEF Type, AtPrompt, CliInv, Together
  <2>2. S!Begin(c)
    BY <1>0, <2>1 DEF S!Begin, S!OnOffer
  <2>3. c \in Offers["MainState"] \cup Offers["LoggedInState"]
    BY <2>1
  <2> QED BY <2>2, <2>3 DEF S!Next
<1>3. CASE Hide \/ Answer \/ Hangup \/ UNCHANGED vars
  BY <1>3, Unseen DEF Hide, Answer, Hangup, vars
<1>4. CASE Decline \/ Fail \/ EndOfAnswers
  <2>1. cmd \in Cmds /\ fsm' = fsm /\ (cmd' = NoCmd \/ cmd' = cmd)
    BY <1>4 DEF Decline, Fail, EndOfAnswers, Asking, Running
  <2> QED BY <2>1, SeenAsFinish, Unseen
<1>5. CASE Exec
  BY <1>5, SeenAsEffect
<1>6. CASE Return \/ Kill
  <2>1. cmd # Over /\ cmd' = Over /\ fsm' = fsm
    BY <1>0, <1>6 DEF Return, Kill
  <2>2. CASE fsm \in {"idle", "X"}
    <3>1. cmd = NoCmd
      BY <2>1, <2>2 DEF CliInv, CmdOffered
    <3> QED BY <1>0, <2>1, <2>2, <3>1 DEF Where, Doing
  <2>3. CASE fsm \in {"main", "logged-in"}
    BY <1>0, <2>1, <2>3 DEF S!Next, S!Close
  <2> QED BY <1>0, <2>2, <2>3
<1> QED BY <1>1, <1>2, <1>3, <1>4, <1>5, <1>6 DEF Next

\* Every behaviour of the command line is one of the session that it promises:
\* what a user may begin is what is on offer then.
THEOREM SessionImplemented == Spec => ImplementsSession
<1>1. Init => S!Init
  BY CmdsNamed DEF Init, S!Init, NoCmd, Over
<1>2. CliInv /\ [Next]_vars => [S!Next]_<<Where, Doing>>
  BY SessionStep
<1> QED BY <1>1, <1>2, CliInvariant, PTL DEF Spec, ImplementsSession, S!Spec, Where, Doing
=============================================================================
