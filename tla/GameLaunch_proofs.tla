--------------------------- MODULE GameLaunch_proofs ---------------------------
(***************************************************************************)
(* Proofs about GameLaunch: the types, the assertions of the slots, that   *)
(* no session strands the player, and, when the pid listing can be         *)
(* trusted, that the session the frontend knows of is the one that runs.   *)
(***************************************************************************)
EXTENDS GameLaunch, TLAPS

\* A slot runs for a launched game only.  The engine's deferred delete and
\* the pid timer wait in the event loop of a session, never both at once.
PendingInSession ==
  /\ gui # "idle" => m_launch_game_file # NoGame
  /\ engineDeletePosted => gui = "idle" /\ m_launch_game_file # NoGame
  /\ timer => gui = "idle" /\ m_launch_game_file # NoGame /\ ~ engineDeletePosted

\* Until the session is over, either the python command or the QProcess is set.
CommandKnown == kbd /\ globalCommand = NoGame => m_process # NoGame

LaunchInv ==
  /\ TypeOK
  /\ AssertionsHold
  /\ NeverStranded
  /\ KeyboardHandedBack
  /\ PendingInSession
  /\ CommandKnown

LEMMA InitType == Init => TypeOK
BY DEF Init, TypeOK, GuiStates

LEMMA TypeStep == TypeOK /\ [Next]_vars => TypeOK'
<1> SUFFICES ASSUME TypeOK, [Next]_vars PROVE TypeOK'
  OBVIOUS
<1> USE DEF TypeOK, GuiStates, launchVars, uiVars, envVars, confVars, scanVars, playVars,
            ioVars
<1>1. ASSUME NEW g \in Games, LaunchRequested(g) PROVE TypeOK'
  <2>1. CommandOf[g] = "python" => g \in Python
    BY DEF Python
  <2>2. CommandOf[g] = "program" => g \in Programs
    BY DEF Programs
  <2> QED
    BY <1>1, <2>1, <2>2 DEF LaunchRequested, RunProcess
<1>2. ASSUME NEW g \in Games, LaunchFailed(g) PROVE TypeOK'
  <2>1. kbd' \in BOOLEAN
    BY <1>2, Zenon DEF LaunchFailed, AfterRun
  <2> QED
    BY <1>2, <2>1 DEF LaunchFailed, AfterRun
<1>3. CASE LaunchOk
  <2>1. m_engine' \in BOOLEAN /\ engineDeletePosted' \in BOOLEAN
    BY <1>3, Zenon DEF LaunchOk, TeardownLater, TeardownNow
  <2>2. m_last_launch_time' \in {"invalid", "stale", "fresh"}
    BY <1>3, SMT DEF LaunchOk, NoteLaunchTime
  <2>3. gui' \in GuiStates
    BY <1>3, Zenon DEF LaunchOk, TeardownLater, TeardownNow
  <2> QED
    BY <1>3, <2>1, <2>2, <2>3, SMT DEF LaunchOk
<1>4. CASE EngineDestroyed
  <2>1. engineDeletePosted' \in BOOLEAN
    BY <1>4, Zenon DEF EngineDestroyed
  <2> QED
    BY <1>4, <2>1 DEF EngineDestroyed
<1>5. CASE RunPythonInBackground
  <2>1. alive' \in SUBSET Games
    BY <1>5 DEF RunPythonInBackground, SystemStarts, Python
  <2>2. m_pid' \in SUBSET (Python \cup Scripts)
    BY <1>5, <2>1 DEF RunPythonInBackground, ListPids, PythonPids, Python
  <2>3. kbd' \in BOOLEAN /\ timer' \in BOOLEAN
    BY <1>5, Zenon DEF RunPythonInBackground, OnProcessFinished, AfterRun
  <2> QED
    BY <1>5, <2>1, <2>2, <2>3 DEF RunPythonInBackground, OnProcessFinished, AfterRun
<1>6. CASE RunPythonAndWait
  BY <1>6 DEF RunPythonAndWait, SystemStarts, Python
<1>7. CASE WaitForProgram
  BY <1>7 DEF WaitForProgram
<1>8. CASE BlockingCallReturns
  <2>1. kbd' \in BOOLEAN
    BY <1>8, Zenon DEF BlockingCallReturns, OnProcessFinished, AfterRun
  <2> QED
    BY <1>8, <2>1 DEF BlockingCallReturns, OnProcessFinished, AfterRun
<1>9. CASE CheckPidStatus
  <2>1. kbd' \in BOOLEAN /\ timer' \in BOOLEAN
    BY <1>9, Zenon DEF CheckPidStatus, OnProcessFinished, AfterRun
  <2> QED
    BY <1>9, <2>1 DEF CheckPidStatus, OnProcessFinished, AfterRun
<1>10. CASE ProcessFinished
  <2>1. m_engine' \in BOOLEAN
    BY <1>10, Zenon DEF ProcessFinished, Rebuild
  <2> QED
    BY <1>10, <2>1 DEF ProcessFinished, NotePlay, Rebuild
<1>11. CASE OnSearchFinished
  <2>1. searchFinished' \in BOOLEAN /\ m_loading' \in BOOLEAN
    BY <1>11, Zenon DEF OnSearchFinished
  <2> QED
    BY <1>11, <2>1 DEF OnSearchFinished
<1>12. CASE StartScanning
  <2>1. m_future' \in BOOLEAN /\ m_loading' \in BOOLEAN
    BY <1>12, Zenon DEF StartScanning
  <2> QED
    BY <1>12, <2>1 DEF StartScanning
<1>13. CASE EmitSearchFinished
  <2>1. searchFinished' \in BOOLEAN
    BY <1>13, Zenon DEF EmitSearchFinished
  <2> QED
    BY <1>13, <2>1 DEF EmitSearchFinished
<1>14. CASE FutureFinished
  <2>1. m_future' \in BOOLEAN
    BY <1>14, Zenon DEF FutureFinished
  <2> QED
    BY <1>14, <2>1 DEF FutureFinished
<1>15. CASE GameExits
  BY <1>15 DEF GameExits
<1>16. CASE ScriptStartsOrExits
  BY <1>16 DEF ScriptStartsOrExits
<1>17. CASE ReloadConf
  BY <1>17 DEF ReloadConf
<1>18. CASE UNCHANGED vars
  BY <1>18 DEF vars
<1> QED
  BY <1>1, <1>2, <1>3, <1>4, <1>5, <1>6, <1>7, <1>8, <1>9, <1>10, <1>11, <1>12, <1>13,
     <1>14, <1>15, <1>16, <1>17, <1>18 DEF Next, GuiStep

\* Every reachable state is well typed; a python command never sits where a
\* QProcess is expected, nor the other way round.
THEOREM TypeCorrect == Spec => []TypeOK
<1>1. Init => TypeOK
  BY InitType
<1>2. TypeOK /\ [Next]_vars => TypeOK'
  BY TypeStep
<1> QED
  BY <1>1, <1>2, PTL DEF Spec

-----------------------------------------------------------------------------
LEMMA InitInv == Init => LaunchInv
<1> SUFFICES ASSUME Init PROVE LaunchInv
  OBVIOUS
<1>1. TypeOK
  BY InitType
<1>2. AssertionsHold
  BY DEF Init, AssertionsHold
<1>3. NeverStranded
  BY Zenon DEF Init, NeverStranded
<1>4. KeyboardHandedBack /\ PendingInSession /\ CommandKnown
  BY Zenon DEF Init, KeyboardHandedBack, PendingInSession, CommandKnown
<1> QED
  BY <1>1, <1>2, <1>3, <1>4 DEF LaunchInv

LEMMA InvStep == LaunchInv /\ [Next]_vars => LaunchInv'
<1> SUFFICES ASSUME LaunchInv, [Next]_vars PROVE LaunchInv'
  OBVIOUS
<1>0. TypeOK /\ TypeOK'
  BY TypeStep DEF LaunchInv
<1> DEFINE Parts == AssertionsHold /\ NeverStranded /\ KeyboardHandedBack
                      /\ PendingInSession /\ CommandKnown
<1> SUFFICES Parts'
  BY <1>0 DEF LaunchInv
<1> USE DEF LaunchInv, AssertionsHold, NeverStranded, KeyboardHandedBack, PendingInSession,
            CommandKnown, launchVars, uiVars, envVars, confVars, scanVars, playVars, ioVars
<1>1. ASSUME NEW g \in Games, LaunchRequested(g) PROVE Parts'
  <2>0. g # NoGame /\ (CommandOf[g] = "python" \/ CommandOf[g] = "program")
    BY <1>1, NoGameAssumption, CommandsAssumption DEF LaunchRequested, CanLaunch, Commands
  <2>1. /\ ~ engineDeletePosted /\ ~ timer /\ m_engine
        /\ UNCHANGED <<engineDeletePosted, timer, m_engine>>
    BY <1>1, Zenon DEF LaunchRequested, CanLaunch, CanUseUi
  <2>2. /\ m_launch_game_file' # NoGame /\ gui' = "launchOk" /\ kbd' /\ esEvent' = "rungame"
        /\ globalCommand' # NoGame \/ m_process' # NoGame
    <3>1. m_launch_game_file' # NoGame /\ gui' = "launchOk" /\ kbd' /\ esEvent' = "rungame"
      BY <1>1, <2>0, Zenon DEF LaunchRequested
    <3>2. CASE CommandOf[g] = "python"
      BY <1>1, <2>0, <3>1, <3>2, Zenon DEF LaunchRequested, RunProcess
    <3>3. CASE CommandOf[g] = "program"
      BY <1>1, <2>0, <3>1, <3>3, Zenon DEF LaunchRequested, RunProcess
    <3> QED
      BY <2>0, <3>2, <3>3
  <2> QED
    BY <2>1, <2>2, Zenon
<1>2. ASSUME NEW g \in Games, LaunchFailed(g) PROVE Parts'
  <2>1. AssertionsHold'
    BY <1>2, Zenon DEF LaunchFailed, CanUseUi, AfterRun
  <2>2. NeverStranded'
    BY <1>2, Zenon DEF LaunchFailed, CanUseUi, AfterRun
  <2>3. KeyboardHandedBack'
    BY <1>2, Zenon DEF LaunchFailed, CanUseUi, AfterRun
  <2>4. PendingInSession'
    BY <1>2, Zenon DEF LaunchFailed, CanUseUi, AfterRun
  <2>5. CommandKnown'
    BY <1>2, Zenon DEF LaunchFailed, CanUseUi, AfterRun
  <2> QED
    BY <2>1, <2>2, <2>3, <2>4, <2>5
<1>3. CASE LaunchOk
  <2>1. AssertionsHold'
    BY <1>3, Zenon DEF LaunchOk, TeardownLater, TeardownNow
  <2>2. NeverStranded'
    BY <1>3, Zenon DEF LaunchOk, TeardownLater, TeardownNow
  <2>3. KeyboardHandedBack'
    BY <1>3, Zenon DEF LaunchOk, TeardownLater, TeardownNow
  <2>4. PendingInSession'
    <3>1. m_launch_game_file # NoGame /\ ~ timer
      BY <1>3, Zenon DEF LaunchOk
    <3>2. UNCHANGED <<m_launch_game_file, timer>>
      BY <1>3 DEF LaunchOk
    <3>3. engineDeletePosted' => gui' = "idle"
      BY <1>3, Zenon DEF LaunchOk, TeardownLater, TeardownNow
    <3> QED
      BY <3>1, <3>2, <3>3, Zenon
  <2>5. CommandKnown'
    BY <1>3, Zenon DEF LaunchOk, TeardownLater, TeardownNow
  <2> QED
    BY <2>1, <2>2, <2>3, <2>4, <2>5
<1>4. CASE EngineDestroyed
  <2>1. AssertionsHold'
    BY <1>4, Zenon DEF EngineDestroyed
  <2>2. NeverStranded'
    BY <1>4, Zenon DEF EngineDestroyed
  <2>3. KeyboardHandedBack'
    BY <1>4, Zenon DEF EngineDestroyed
  <2>4. PendingInSession'
    BY <1>4, Zenon DEF EngineDestroyed
  <2>5. CommandKnown'
    BY <1>4, Zenon DEF EngineDestroyed
  <2> QED
    BY <2>1, <2>2, <2>3, <2>4, <2>5
<1>5. CASE RunPythonInBackground
  <2>1. AssertionsHold'
    BY <1>5, Zenon DEF RunPythonInBackground, OnProcessFinished, AfterRun
  <2>2. NeverStranded'
    BY <1>5, Zenon DEF RunPythonInBackground, OnProcessFinished, AfterRun
  <2>0. /\ kbd /\ m_launch_game_file # NoGame /\ ~ timer /\ ~ engineDeletePosted
        /\ UNCHANGED <<m_launch_game_file, engineDeletePosted>>
    BY <1>5, Zenon DEF RunPythonInBackground
  <2>3. KeyboardHandedBack'
    <3>1. \/ kbd' = FALSE /\ gui' = "processFinished"
          \/ kbd' = kbd /\ esEvent' = esEvent /\ gui' = "idle"
      BY <1>5, Zenon DEF RunPythonInBackground, OnProcessFinished, AfterRun
    <3> QED
      BY <2>0, <3>1, Zenon
  <2>4. PendingInSession'
    <3>1. timer' => gui' = "idle"
      BY <1>5, <2>0, Zenon DEF RunPythonInBackground
    <3> QED
      BY <2>0, <3>1, Zenon
  <2>5. CommandKnown'
    BY <1>5, Zenon DEF RunPythonInBackground, OnProcessFinished, AfterRun
  <2> QED
    BY <2>1, <2>2, <2>3, <2>4, <2>5
<1>6. CASE RunPythonAndWait
  <2>1. AssertionsHold'
    BY <1>6, Zenon DEF RunPythonAndWait
  <2>2. NeverStranded'
    BY <1>6, Zenon DEF RunPythonAndWait
  <2>3. KeyboardHandedBack'
    BY <1>6, Zenon DEF RunPythonAndWait
  <2>4. PendingInSession'
    BY <1>6, Zenon DEF RunPythonAndWait
  <2>5. CommandKnown'
    BY <1>6, Zenon DEF RunPythonAndWait
  <2> QED
    BY <2>1, <2>2, <2>3, <2>4, <2>5
<1>7. CASE WaitForProgram
  <2>1. AssertionsHold'
    BY <1>7, Zenon DEF WaitForProgram
  <2>2. NeverStranded'
    BY <1>7, Zenon DEF WaitForProgram
  <2>3. KeyboardHandedBack'
    BY <1>7, Zenon DEF WaitForProgram
  <2>4. PendingInSession'
    BY <1>7, Zenon DEF WaitForProgram
  <2>5. CommandKnown'
    BY <1>7, Zenon DEF WaitForProgram
  <2> QED
    BY <2>1, <2>2, <2>3, <2>4, <2>5
<1>8. CASE BlockingCallReturns
  <2>1. AssertionsHold'
    BY <1>8, Zenon DEF BlockingCallReturns, OnProcessFinished, AfterRun
  <2>2. NeverStranded'
    BY <1>8, Zenon DEF BlockingCallReturns, OnProcessFinished, AfterRun
  <2>3. KeyboardHandedBack'
    BY <1>8, Zenon DEF BlockingCallReturns, OnProcessFinished, AfterRun
  <2>4. PendingInSession'
    BY <1>8, Zenon DEF BlockingCallReturns, OnProcessFinished, AfterRun
  <2>5. CommandKnown'
    BY <1>8, Zenon DEF BlockingCallReturns, OnProcessFinished, AfterRun
  <2> QED
    BY <2>1, <2>2, <2>3, <2>4, <2>5
<1>9. CASE CheckPidStatus
  <2>1. AssertionsHold'
    BY <1>9, Zenon DEF CheckPidStatus, OnProcessFinished, AfterRun
  <2>2. NeverStranded'
    BY <1>9, Zenon DEF CheckPidStatus, OnProcessFinished, AfterRun
  <2>3. KeyboardHandedBack'
    BY <1>9, Zenon DEF CheckPidStatus, OnProcessFinished, AfterRun
  <2>4. PendingInSession'
    BY <1>9, Zenon DEF CheckPidStatus, OnProcessFinished, AfterRun
  <2>5. CommandKnown'
    BY <1>9, Zenon DEF CheckPidStatus, OnProcessFinished, AfterRun
  <2> QED
    BY <2>1, <2>2, <2>3, <2>4, <2>5
<1>10. CASE ProcessFinished
  <2>1. AssertionsHold'
    BY <1>10, Zenon DEF ProcessFinished, Rebuild
  <2>2. NeverStranded'
    BY <1>10, Zenon DEF ProcessFinished, Rebuild
  <2>3. KeyboardHandedBack'
    BY <1>10, Zenon DEF ProcessFinished, Rebuild
  <2>4. PendingInSession'
    BY <1>10, Zenon DEF ProcessFinished, Rebuild
  <2>5. CommandKnown'
    BY <1>10, Zenon DEF ProcessFinished, Rebuild
  <2> QED
    BY <2>1, <2>2, <2>3, <2>4, <2>5
<1>11. CASE OnSearchFinished
  BY <1>11, Zenon DEF OnSearchFinished
<1>12. CASE StartScanning
  BY <1>12, Zenon DEF StartScanning
<1>13. CASE EmitSearchFinished
  BY <1>13, Zenon DEF EmitSearchFinished
<1>14. CASE FutureFinished
  BY <1>14, Zenon DEF FutureFinished
<1>15. CASE GameExits
  BY <1>15, Zenon DEF GameExits
<1>16. CASE ScriptStartsOrExits
  BY <1>16, Zenon DEF ScriptStartsOrExits
<1>17. CASE ReloadConf
  BY <1>17, Zenon DEF ReloadConf
<1>18. CASE UNCHANGED vars
  BY <1>18, Zenon DEF vars
<1> QED
  BY <1>1, <1>2, <1>3, <1>4, <1>5, <1>6, <1>7, <1>8, <1>9, <1>10, <1>11, <1>12, <1>13, <1>14, <1>15, <1>16, <1>17, <1>18 DEF Next, GuiStep

\* The inductive invariant behind the next three theorems.
LEMMA InvHolds == Spec => []LaunchInv
BY InitInv, InvStep, PTL DEF Spec

\* The Q_ASSERTs of onGameLaunchOk, onGameFinished, teardown and
\* onTeardownComplete hold for every set of games and every listing of pids.
THEOREM SlotsAssertions == Spec => []AssertionsHold
BY InvHolds, PTL DEF LaunchInv

\* No order of the signals, timers and events leaves the player without a
\* frontend and without a pending event that brings it back.
THEOREM PlayerNeverStranded == Spec => []NeverStranded
BY InvHolds, PTL DEF LaunchInv

\* beforeRun and afterRun are paired on every path, the failed start included.
THEOREM KeyboardIsReturned == Spec => []KeyboardHandedBack
BY InvHolds, PTL DEF LaunchInv

-----------------------------------------------------------------------------
(***************************************************************************)
(* The frontend's session and the game that runs.  This needs what the     *)
(* code takes for granted: no other python process is listed, and the      *)
(* game's process is there when the pids are listed.                       *)
(***************************************************************************)
PidsTrusted == PsSeesChild /\ Scripts = {}

\* What is about to be run, waited for or watched is the launched game, and
\* the session is closed only after its process is gone.
GameInv ==
  /\ alive \subseteq {m_launch_game_file}
  /\ kbd => globalCommand \in {NoGame, m_launch_game_file}
  /\ m_process \in {NoGame, m_launch_game_file}
  /\ ~ kbd => m_process = NoGame
  /\ gui = "processFinished" => alive = {}
  /\ gui = "system" => globalCommand # NoGame
  /\ gui = "waitForFinished" => globalCommand = NoGame
  /\ timer => m_pid = {m_launch_game_file}

SessionInv == LaunchInv /\ GameInv

LEMMA InitGame == Init => GameInv
BY Zenon DEF Init, GameInv

LEMMA GameStep == ASSUME PidsTrusted PROVE SessionInv /\ [Next]_vars => GameInv'
<1> SUFFICES ASSUME SessionInv, [Next]_vars PROVE GameInv'
  OBVIOUS
<1>0. TypeOK /\ LaunchInv /\ LaunchInv' /\ GameInv
  BY InvStep DEF SessionInv, LaunchInv
<1>k. kbd <=> (m_launch_game_file # NoGame /\ gui # "processFinished")
  BY <1>0 DEF LaunchInv, KeyboardHandedBack
<1> USE DEF GameInv, launchVars, uiVars, envVars, confVars, scanVars, playVars, ioVars
<1>1. ASSUME NEW g \in Games, LaunchRequested(g) PROVE GameInv'
  <2>1. alive = {} /\ m_process = NoGame /\ ~ timer
    <3>1. m_launch_game_file = NoGame
      BY <1>1 DEF LaunchRequested, CanLaunch
    <3>2. alive \subseteq {NoGame} /\ alive \subseteq Games
      BY <1>0, <3>1 DEF TypeOK
    <3>3. alive = {}
      BY <3>2, NoGameAssumption
    <3> QED
      BY <1>0, <1>k, <3>1, <3>3, Zenon DEF LaunchInv, PendingInSession
  <2>2. /\ m_launch_game_file' = g /\ kbd' = TRUE /\ gui' = "launchOk" /\ timer' = timer
        /\ globalCommand' \in {NoGame, g} /\ m_process' \in {NoGame, g}
        /\ alive' \subseteq {g}
    BY <1>1, <2>1 DEF LaunchRequested, RunProcess
  <2> QED
    BY <2>1, <2>2, Zenon
<1>2. ASSUME NEW g \in Games, LaunchFailed(g) PROVE GameInv'
  <2>1. /\ m_process' = NoGame /\ kbd' = FALSE /\ gui = "idle"
        /\ UNCHANGED <<gui, alive, m_launch_game_file, timer, m_pid>>
    BY <1>2, Zenon DEF LaunchFailed, CanUseUi, AfterRun
  <2> QED
    BY <1>0, <2>1, Zenon
<1>3. CASE LaunchOk
  <2>1. /\ gui' = "idle" \/ gui' = "teardownComplete"
        /\ UNCHANGED <<launchVars, alive, kbd>>
    BY <1>3 DEF LaunchOk, TeardownLater, TeardownNow
  <2> QED
    BY <1>0, <2>1, Zenon
<1>4. CASE EngineDestroyed
  BY <1>0, <1>4, Zenon DEF EngineDestroyed
<1>5. CASE RunPythonInBackground
  <2>1. globalCommand = m_launch_game_file /\ m_launch_game_file # NoGame
    BY <1>0, <1>5, <1>k, Zenon DEF RunPythonInBackground, LaunchInv, PendingInSession
  <2>2. alive' \subseteq {m_launch_game_file}
    BY <1>0, <1>5, <2>1 DEF RunPythonInBackground, SystemStarts
  <2>3. m_pid' = {g \in alive' : CommandOf[g] = "python"}
    <3>1. scripts = {}
      BY <1>0 DEF TypeOK, PidsTrusted
    <3>2. m_pid' = PythonPids(alive', scripts)
      BY <1>5 DEF RunPythonInBackground, ListPids, PidsTrusted
    <3> QED
      BY <3>1, <3>2 DEF PythonPids
  <2>4. CommandOf[m_launch_game_file] = "python"
    BY <1>0, <2>1 DEF TypeOK, Python
  <2>5. m_pid' = alive'
    BY <2>2, <2>3, <2>4
  <2>6. CASE m_pid' = {}
    <3>1. /\ alive' = {} /\ m_process' = NoGame /\ gui' = "processFinished" /\ kbd' = FALSE
          /\ UNCHANGED <<m_launch_game_file, timer>> /\ ~ timer
      BY <1>0, <1>5, <2>5, <2>6, Zenon DEF RunPythonInBackground, OnProcessFinished, AfterRun,
         LaunchInv, PendingInSession
    <3> QED
      BY <2>2, <3>1, Zenon
  <2>7. CASE m_pid' # {}
    <3>1. /\ m_pid' = {m_launch_game_file} /\ gui' = "idle" /\ timer' = TRUE
          /\ UNCHANGED <<m_launch_game_file, globalCommand, m_process, kbd>>
      BY <1>5, <2>2, <2>5, <2>7 DEF RunPythonInBackground
    <3> QED
      BY <1>0, <2>2, <3>1, Zenon
  <2> QED
    BY <2>6, <2>7
<1>6. CASE RunPythonAndWait
  <2>1. globalCommand = m_launch_game_file /\ m_launch_game_file # NoGame
    BY <1>0, <1>6, <1>k, Zenon DEF RunPythonAndWait, LaunchInv, PendingInSession
  <2>2. alive' \subseteq {m_launch_game_file}
    BY <1>0, <1>6, <2>1 DEF RunPythonAndWait, SystemStarts
  <2>3. /\ gui' = "system" /\ globalCommand # NoGame
        /\ UNCHANGED <<launchVars, kbd>>
    BY <1>6 DEF RunPythonAndWait
  <2> QED
    BY <1>0, <2>2, <2>3, Zenon
<1>7. CASE WaitForProgram
  BY <1>0, <1>7, Zenon DEF WaitForProgram
<1>8. CASE BlockingCallReturns
  <2>1. m_launch_game_file \notin alive
    <3>1. CASE gui = "system" /\ globalCommand \notin alive
      BY <1>0, <1>k, <3>1, Zenon DEF LaunchInv, PendingInSession
    <3>2. CASE gui = "waitForFinished" /\ m_process \notin alive
      BY <1>0, <1>k, <3>2, Zenon DEF LaunchInv, PendingInSession, CommandKnown
    <3> QED
      BY <1>8, <3>1, <3>2 DEF BlockingCallReturns
  <2>2. alive = {}
    BY <1>0, <2>1
  <2>3. /\ m_process' = NoGame /\ kbd' = FALSE /\ gui' = "processFinished"
        /\ UNCHANGED <<alive, m_launch_game_file, timer, m_pid>>
    BY <1>8, Zenon DEF BlockingCallReturns, OnProcessFinished, AfterRun
  <2> QED
    BY <1>0, <2>2, <2>3, Zenon
<1>9. CASE CheckPidStatus
  <2>1. m_pid = {m_launch_game_file} /\ m_pid \subseteq Python
    BY <1>0, <1>9 DEF CheckPidStatus, TypeOK, PidsTrusted
  <2>2. m_launch_game_file \notin alive
    BY <1>9, <2>1 DEF CheckPidStatus, PidDisappeared, PythonPids, Python
  <2>3. alive = {}
    BY <1>0, <2>2
  <2>4. /\ m_process' = NoGame /\ kbd' = FALSE /\ gui' = "processFinished" /\ timer' = FALSE
        /\ UNCHANGED <<alive, m_launch_game_file>>
    BY <1>9, Zenon DEF CheckPidStatus, OnProcessFinished, AfterRun
  <2> QED
    BY <2>3, <2>4, Zenon
<1>10. CASE ProcessFinished
  <2>1. alive = {} /\ ~ kbd /\ ~ timer /\ m_process = NoGame
    BY <1>0, <1>10, <1>k, Zenon DEF ProcessFinished, LaunchInv, PendingInSession
  <2>2. gui' = "idle" /\ UNCHANGED <<alive, kbd, timer, m_process>>
    BY <1>10, Zenon DEF ProcessFinished
  <2> QED
    BY <2>1, <2>2
<1>11. CASE GameExits
  <2>1. alive' \subseteq alive /\ UNCHANGED <<gui, launchVars, kbd>>
    BY <1>11 DEF GameExits
  <2> QED
    BY <1>0, <2>1
<1>12. CASE OnSearchFinished \/ StartScanning \/ EmitSearchFinished \/ FutureFinished
              \/ ScriptStartsOrExits \/ ReloadConf \/ UNCHANGED vars
  <2>1. UNCHANGED <<gui, launchVars, alive, kbd>>
    BY <1>12 DEF OnSearchFinished, StartScanning, EmitSearchFinished, FutureFinished,
       ScriptStartsOrExits, ReloadConf, vars
  <2> QED
    BY <1>0, <2>1, Zenon
<1> QED
  BY <1>1, <1>2, <1>3, <1>4, <1>5, <1>6, <1>7, <1>8, <1>9, <1>10, <1>11, <1>12
  DEF Next, GuiStep

LEMMA SessionInvHolds == ASSUME PidsTrusted PROVE Spec => []SessionInv
<1>1. Init => SessionInv
  BY InitInv, InitGame DEF SessionInv
<1>2. SessionInv /\ [Next]_vars => SessionInv'
  BY InvStep, GameStep DEF SessionInv
<1> QED
  BY <1>1, <1>2, PTL DEF Spec

\* Two games never run at once, and the one that runs is the one ApiObject
\* holds, for every set of games, as far as the listed pids can be trusted.
THEOREM LaunchedGameOnly == ASSUME PidsTrusted PROVE Spec => []OnlyTheLaunchedGame
<1>1. SessionInv => OnlyTheLaunchedGame
  BY DEF SessionInv, GameInv, OnlyTheLaunchedGame
<1> QED
  BY <1>1, SessionInvHolds, PTL

-----------------------------------------------------------------------------
\* Every step of the slots is a step of the abstract session, or leaves it.
LEMMA StepRefines ==
  ASSUME PidsTrusted
  PROVE  SessionInv /\ [Next]_vars => [Session!Next]_(Session!svars)
<1> SUFFICES ASSUME SessionInv, [Next]_vars
             PROVE  Session!Next \/ UNCHANGED Session!svars
  OBVIOUS
<1>0. TypeOK /\ LaunchInv /\ GameInv /\ GameInv'
  BY GameStep DEF SessionInv, LaunchInv
<1>k. kbd <=> (m_launch_game_file # NoGame /\ gui # "processFinished")
  BY <1>0 DEF LaunchInv, KeyboardHandedBack
<1> USE DEF GameInv, launchVars, uiVars, envVars, confVars, scanVars, playVars, ioVars, Session!svars
<1>1. ASSUME NEW g \in Games, LaunchRequested(g) PROVE Session!Choose(g)
  <2>1. m_launch_game_file = NoGame /\ m_engine /\ m_launch_game_file' = g
        /\ UNCHANGED m_engine
    BY <1>1, Zenon DEF LaunchRequested, CanLaunch, CanUseUi
  <2>2. alive' \in {alive, alive \cup {g}}
    BY <1>1 DEF LaunchRequested, RunProcess
  <2> QED
    BY <2>1, <2>2, Zenon DEF Session!Choose
<1>2. ASSUME NEW g \in Games, LaunchFailed(g) PROVE UNCHANGED Session!svars
  BY <1>2 DEF LaunchFailed
<1>3. CASE LaunchOk
  <2>1. m_launch_game_file # NoGame /\ UNCHANGED <<m_launch_game_file, alive>>
    BY <1>0, <1>3, Zenon DEF LaunchOk, LaunchInv, PendingInSession
  <2>2. m_engine' = FALSE \/ UNCHANGED m_engine
    BY <1>3, Zenon DEF LaunchOk, TeardownLater, TeardownNow
  <2> QED
    BY <2>1, <2>2, Zenon DEF Session!Next, Session!Hide
<1>4. CASE RunPythonInBackground \/ RunPythonAndWait
  <2>1. globalCommand = m_launch_game_file /\ m_launch_game_file # NoGame
    BY <1>0, <1>4, <1>k, Zenon DEF RunPythonInBackground, RunPythonAndWait, LaunchInv,
       PendingInSession
  <2>2. SystemStarts /\ UNCHANGED <<m_launch_game_file, m_engine>>
    BY <1>4 DEF RunPythonInBackground, RunPythonAndWait
  <2>3. alive' = alive \/ alive' = {m_launch_game_file}
    BY <1>0, <2>1, <2>2 DEF SystemStarts
  <2> QED
    BY <2>1, <2>2, <2>3 DEF Session!Next, Session!Run
<1>5. CASE ProcessFinished
  <2>1. m_launch_game_file # NoGame /\ alive = {}
    BY <1>0, <1>5, Zenon DEF ProcessFinished, LaunchInv, PendingInSession
  <2>2. m_launch_game_file' = NoGame /\ m_engine' = TRUE /\ UNCHANGED alive
    BY <1>5, Zenon DEF ProcessFinished, Rebuild
  <2> QED
    BY <2>1, <2>2 DEF Session!Next, Session!Finish
<1>6. CASE GameExits
  <2>1. PICK g \in alive : alive' = alive \ {g}
    BY <1>6 DEF GameExits
  <2>2. alive # {} /\ alive' = {}
    BY <1>0, <2>1
  <2>3. UNCHANGED <<m_launch_game_file, m_engine>>
    BY <1>6 DEF GameExits
  <2> QED
    BY <2>2, <2>3, Zenon DEF Session!Next, Session!Quit
<1>7. CASE \/ EngineDestroyed \/ WaitForProgram \/ BlockingCallReturns \/ CheckPidStatus
           \/ OnSearchFinished \/ StartScanning \/ EmitSearchFinished \/ FutureFinished
           \/ ScriptStartsOrExits \/ ReloadConf \/ UNCHANGED vars
  BY <1>7 DEF EngineDestroyed, WaitForProgram, BlockingCallReturns, CheckPidStatus,
     OnSearchFinished, StartScanning, EmitSearchFinished, FutureFinished,
     ScriptStartsOrExits, ReloadConf, vars
<1> QED
  BY <1>1, <1>2, <1>3, <1>4, <1>5, <1>6, <1>7 DEF Next, GuiStep, Session!Next

\* The slots keep the safety half of what LaunchSession promises: the game
\* that runs is the chosen one, and the frontend is back when it is over.
THEOREM ImplementsSession ==
  ASSUME PidsTrusted
  PROVE  Spec => Session!Init /\ [][Session!Next]_(Session!svars)
<1>1. Init => Session!Init
  BY Zenon DEF Init, Session!Init
<1>2. SessionInv /\ [Next]_vars => [Session!Next]_(Session!svars)
  BY StepRefines
<1> QED
  BY <1>1, <1>2, SessionInvHolds, PTL DEF Spec
=============================================================================
