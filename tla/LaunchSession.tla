----------------------------- MODULE LaunchSession -----------------------------
(***************************************************************************)
(* What a player is promised about launching games, without the slots,     *)
(* signals and processes that keep the promise: one game is chosen while   *)
(* the frontend is shown, it may run, the frontend comes back when it is   *)
(* over and never before, and the session is always over some time later.  *)
(***************************************************************************)
CONSTANTS Games, NoGame

VARIABLES
  session,   \* the game chosen, or NoGame
  running,   \* the games whose process runs
  ui         \* is the frontend there

svars == <<session, running, ui>>

Init == session = NoGame /\ running = {} /\ ui = TRUE

\* A program is started while it is chosen, a python command later.
Choose(g) ==
  /\ session = NoGame
  /\ ui
  /\ session' = g
  /\ running' \in {running, running \cup {g}}
  /\ UNCHANGED ui

Hide ==
  /\ session # NoGame
  /\ ui' = FALSE
  /\ UNCHANGED <<session, running>>

Run ==
  /\ session # NoGame
  /\ running' = {session}
  /\ UNCHANGED <<session, ui>>

Quit ==
  /\ running # {}
  /\ running' = {}
  /\ UNCHANGED <<session, ui>>

Finish ==
  /\ session # NoGame
  /\ running = {}
  /\ session' = NoGame
  /\ ui' = TRUE
  /\ UNCHANGED running

Next == (\E g \in Games : Choose(g)) \/ Hide \/ Run \/ Quit \/ Finish

Spec == Init /\ [][Next]_svars /\ WF_svars(Quit) /\ WF_svars(Finish)
=============================================================================
