------------------------------ MODULE GameLaunch ------------------------------
(***************************************************************************)
(* The launch session of pegasus-frontend: how ApiObject, ProcessLauncher  *)
(* and FrontendLayer, wired together by Backend's constructor, take one    *)
(* game from the click to the rebuilt frontend.                            *)
(*                                                                         *)
(* Every slot runs on the GUI thread.  `gui` is the program counter of     *)
(* that thread: "idle" is the event loop, every other value a slot that    *)
(* is about to run, or a call that blocks.  Nothing else of the GUI        *)
(* thread runs until it is "idle" again; the scan worker, the games and    *)
(* unrelated python processes run at any time.                             *)
(*                                                                         *)
(* Qt delivers posted events, the deferred delete of the engine among      *)
(* them, before it looks at timers and sockets again.                      *)
(***************************************************************************)
EXTENDS FiniteSets

CONSTANTS
  Games,       \* the game files that can be launched
  NoGame,      \* a null GameFile* or QProcess*, an empty globalCommand
  Scripts,     \* python processes that are not games (user scripts)
  CommandOf,   \* what the launch command of a game is
  PsSeesChild  \* has `python ... &` become python before `ps` looks

Commands == {"python",    \* contains "python": run by system() after teardown
             "program",   \* any other program: run by QProcess
             "missing"}   \* a program QProcess cannot start

ASSUME CommandsAssumption == CommandOf \in [Games -> Commands]
ASSUME NoGameAssumption   == NoGame \notin Games
ASSUME ScriptsAssumption  == Scripts \cap Games = {}
ASSUME PsAssumption       == PsSeesChild \in BOOLEAN

VARIABLES
  gui,                 \* what the GUI thread is doing
  m_launch_game_file,  \* ApiObject: the file being launched or played
  m_engine,            \* FrontendLayer: is there a QML engine
  engineDeletePosted,  \* its deferred delete waits in the event queue
  globalCommand,       \* ProcessLauncher: the python command to run
  m_process,           \* ProcessLauncher: the QProcess
  timer,               \* ProcessLauncher: the 250 ms pid timer is active
  m_pid                \* ProcessLauncher: what `ps | grep` listed

VARIABLES
  alive,               \* games whose process runs
  scripts,             \* unrelated python processes that run
  multiwindows,        \* pegasus.multiwindows of recalbox.conf
  keeploaded           \* pegasus.theme.keeploaded of recalbox.conf

VARIABLES
  m_future,            \* ProviderManager: the scan worker runs
  searchFinished,      \* its finished() waits in the event queue
  m_loading,           \* Meta: the splash screen hides the games
  m_last_launch_time,  \* PlaytimeStats: "invalid", "stale" or "fresh"
  lastPlay,            \* the last play handed to PlaytimeStats
  kbd,                 \* TerminalKbd: the terminal's keyboard is the game's
  esEvent              \* ScriptManager: the last event notified

launchVars == <<m_launch_game_file, globalCommand, m_process, timer, m_pid>>
uiVars     == <<m_engine, engineDeletePosted>>
envVars    == <<alive, scripts>>
confVars   == <<multiwindows, keeploaded>>
scanVars   == <<m_future, searchFinished, m_loading>>
playVars   == <<m_last_launch_time, lastPlay>>
ioVars     == <<kbd, esEvent>>
vars == <<gui, launchVars, uiVars, envVars, confVars, scanVars, playVars, ioVars>>

-----------------------------------------------------------------------------
\* Backend::start: the UI is built, then the first scan starts.
Init ==
  /\ gui = "idle"
  /\ m_launch_game_file = NoGame
  /\ m_engine = TRUE
  /\ engineDeletePosted = FALSE
  /\ globalCommand = NoGame
  /\ m_process = NoGame
  /\ timer = FALSE
  /\ m_pid = {}
  /\ alive = {}
  /\ scripts = {}
  /\ multiwindows \in BOOLEAN
  /\ keeploaded \in BOOLEAN
  /\ m_future = TRUE
  /\ searchFinished = FALSE
  /\ m_loading = TRUE
  /\ m_last_launch_time = "invalid"
  /\ lastPlay = "none"
  /\ kbd = FALSE
  /\ esEvent = "none"

\* The games are in the frontend: it is up, and no splash screen hides it.
CanUseUi == gui = "idle" /\ m_engine /\ ~ engineDeletePosted /\ ~ m_loading

\* `ps -e | grep <globalCommand>`: games and scripts run by the same python.
\* Pids grow, so a listing contains an older one while all of its pids live.
PythonPids(games, others) == {g \in games : CommandOf[g] = "python"} \cup others

-----------------------------------------------------------------------------
(***************************************************************************)
(* The slots' shared pieces.  A definition named Mutant... is not part of  *)
(* the model: it is the bug a run's property is shown to catch.            *)
(***************************************************************************)

MutantNoAfterRun == UNCHANGED <<kbd, m_process>>

\* ProcessLauncher::afterRun: the QProcess goes, TerminalKbd::disable.
AfterRun == kbd' = FALSE /\ m_process' = NoGame

\* ProcessLauncher::onProcessFinished: Notify(EndGame), then afterRun.
OnProcessFinished == esEvent' = "endgame" /\ AfterRun

MutantNoRebuild == UNCHANGED m_engine

\* FrontendLayer::rebuild creates the engine if there is none.
Rebuild == m_engine' = TRUE

\* FrontendLayer::teardown with one window and no kept theme: the engine is
\* deleted later, and its destroyed() becomes teardownComplete.
TeardownLater ==
  /\ ~ multiwindows /\ ~ keeploaded
  /\ engineDeletePosted' = TRUE
  /\ m_engine' = FALSE
  /\ gui' = "idle"

\* FrontendLayer::teardown otherwise: teardownComplete is emitted at once.
TeardownNow ==
  /\ multiwindows \/ keeploaded
  /\ gui' = "teardownComplete"
  /\ UNCHANGED uiVars

\* PlaytimeStats::onGameLaunched, which ProviderManager drops during a scan.
NoteLaunchTime ==
  m_last_launch_time' = CASE ~ m_future -> "fresh"
                          [] m_future /\ m_last_launch_time = "fresh" -> "stale"
                          [] OTHER -> m_last_launch_time

\* PlaytimeStats::onGameFinished, which ProviderManager drops during a scan.
NotePlay == lastPlay' = IF m_future THEN lastPlay ELSE m_last_launch_time

-----------------------------------------------------------------------------
(***************************************************************************)
(* GameFile::launch, ApiObject::onGameFileLaunchRequested and              *)
(* ProcessLauncher::onLaunchRequested, runProcess.                         *)
(***************************************************************************)

MutantRelaunchAllowed(g) == CanUseUi /\ CommandOf[g] # "missing"

\* onGameFileLaunchRequested returns early while a file is set.
CanLaunch(g) == CanUseUi /\ CommandOf[g] # "missing" /\ m_launch_game_file = NoGame

MutantCommandNotReset(g) ==
  /\ globalCommand' = IF CommandOf[g] = "python" THEN g ELSE globalCommand
  /\ m_process' = IF CommandOf[g] = "program" THEN g ELSE m_process
  /\ alive' = IF CommandOf[g] = "program" THEN alive \cup {g} ELSE alive

MutantCommandAlwaysSet(g) ==
  /\ globalCommand' = g
  /\ m_process' = IF CommandOf[g] = "program" THEN g ELSE m_process
  /\ alive' = IF CommandOf[g] = "program" THEN alive \cup {g} ELSE alive

\* runProcess: a python command is only remembered, another one is started.
RunProcess(g) ==
  /\ globalCommand' = IF CommandOf[g] = "python" THEN g ELSE NoGame
  /\ m_process' = IF CommandOf[g] = "program" THEN g ELSE m_process
  /\ alive' = IF CommandOf[g] = "program" THEN alive \cup {g} ELSE alive

\* A command that can be run: processLaunchOk is emitted in both cases, for
\* python before anything ran.
LaunchRequested(g) ==
  /\ CanLaunch(g)
  /\ m_launch_game_file' = g
  /\ kbd' = TRUE
  /\ esEvent' = "rungame"
  /\ RunProcess(g)
  /\ gui' = "launchOk"
  /\ UNCHANGED <<timer, m_pid, scripts, uiVars, confVars, scanVars, playVars>>

\* A program that cannot be started: beforeRun and Notify(RunGame) ran, then
\* onProcessError: processLaunchError clears the file again, and afterRun.
LaunchFailed(g) ==
  /\ CanUseUi
  /\ CommandOf[g] = "missing"
  /\ m_launch_game_file = NoGame
  /\ globalCommand' = NoGame
  /\ esEvent' = "rungame"
  /\ AfterRun
  /\ UNCHANGED <<gui, m_launch_game_file, timer, m_pid, uiVars, envVars, confVars,
                 scanVars, playVars>>

-----------------------------------------------------------------------------
\* processLaunchOk: ApiObject::onGameLaunchOk, then FrontendLayer::teardown.
LaunchOk ==
  /\ gui = "launchOk"
  /\ NoteLaunchTime
  /\ TeardownLater \/ TeardownNow
  /\ UNCHANGED <<launchVars, envVars, confVars, scanVars, lastPlay, ioVars>>

\* The deferred delete runs, and destroyed() is forwarded as teardownComplete.
EngineDestroyed ==
  /\ gui = "idle"
  /\ engineDeletePosted
  /\ engineDeletePosted' = FALSE
  /\ gui' = "teardownComplete"
  /\ UNCHANGED <<m_engine, launchVars, envVars, confVars, scanVars, playVars, ioVars>>

-----------------------------------------------------------------------------
(***************************************************************************)
(* ProcessLauncher::onTeardownComplete and checkPidStatus.                 *)
(***************************************************************************)

\* The shell starts the command; it may fail, or be gone before it is seen.
SystemStarts == alive' \in {alive, alive \cup {globalCommand}}

\* What `ps` lists right after `python ... &`: the shell may still be forking.
ListPids ==
  \/ m_pid' = PythonPids(alive', scripts)
  \/ ~ PsSeesChild /\ m_pid' = PythonPids(alive, scripts)

\* Multiple windows: `python ... &`, then the pids are listed and, if there
\* is none, the session is over; otherwise the timer watches them.
RunPythonInBackground ==
  /\ gui = "teardownComplete"
  /\ globalCommand # NoGame
  /\ multiwindows
  /\ SystemStarts
  /\ ListPids
  /\ \/ /\ m_pid' = {}
        /\ OnProcessFinished
        /\ gui' = "processFinished"
        /\ UNCHANGED timer
     \/ /\ m_pid' # {}
        /\ timer' = TRUE
        /\ gui' = "idle"
        /\ UNCHANGED <<m_process, ioVars>>
  /\ UNCHANGED <<m_launch_game_file, globalCommand, uiVars, scripts, confVars,
                 scanVars, playVars>>

\* One window: system() blocks until the command returns.
RunPythonAndWait ==
  /\ gui = "teardownComplete"
  /\ globalCommand # NoGame
  /\ ~ multiwindows
  /\ SystemStarts
  /\ gui' = "system"
  /\ UNCHANGED <<launchVars, uiVars, scripts, confVars, scanVars, playVars, ioVars>>

\* Q_ASSERT(m_process), then waitForFinished(-1) blocks.
WaitForProgram ==
  /\ gui = "teardownComplete"
  /\ globalCommand = NoGame
  /\ gui' = "waitForFinished"
  /\ UNCHANGED <<launchVars, uiVars, envVars, confVars, scanVars, playVars, ioVars>>

\* The blocking call returns when the command is over; onProcessFinished runs
\* (after system(), or from QProcess::finished), then processFinished.
BlockingCallReturns ==
  /\ \/ gui = "system" /\ globalCommand \notin alive
     \/ gui = "waitForFinished" /\ m_process \notin alive
  /\ OnProcessFinished
  /\ gui' = "processFinished"
  /\ UNCHANGED <<m_launch_game_file, globalCommand, timer, m_pid, uiVars, envVars,
                 confVars, scanVars, playVars>>

MutantNoPidCheck == TRUE

\* The listing no longer contains the pids listed when the game started.
PidDisappeared == ~ (m_pid \subseteq PythonPids(alive, scripts))

CheckPidStatus ==
  /\ gui = "idle" /\ ~ engineDeletePosted
  /\ timer
  /\ PidDisappeared
  /\ OnProcessFinished
  /\ timer' = FALSE
  /\ gui' = "processFinished"
  /\ UNCHANGED <<m_launch_game_file, globalCommand, m_pid, uiVars, envVars,
                 confVars, scanVars, playVars>>

\* processFinished: ApiObject::onGameFinished, then FrontendLayer::rebuild.
ProcessFinished ==
  /\ gui = "processFinished"
  /\ NotePlay
  /\ m_launch_game_file' = NoGame
  /\ Rebuild
  /\ gui' = "idle"
  /\ UNCHANGED <<engineDeletePosted, globalCommand, m_process, timer, m_pid, envVars,
                 confVars, scanVars, m_last_launch_time, ioVars>>

-----------------------------------------------------------------------------
(***************************************************************************)
(* The scan, as far as a launch session meets it.                          *)
(***************************************************************************)

\* Settings::reloadProviders -> ApiObject::startScanning, from the settings
\* menu; its user is slower than the end of the worker.
StartScanning ==
  /\ CanUseUi
  /\ ~ m_future
  /\ m_loading' = TRUE
  /\ m_future' = TRUE
  /\ UNCHANGED <<gui, launchVars, uiVars, envVars, confVars, searchFinished, playVars, ioVars>>

\* The worker emits finished(), queued to the GUI thread.
EmitSearchFinished ==
  /\ m_future /\ m_loading /\ ~ searchFinished
  /\ searchFinished' = TRUE
  /\ UNCHANGED <<gui, launchVars, uiVars, envVars, confVars, m_future, m_loading,
                 playVars, ioVars>>

\* The worker returns after the emit.
FutureFinished ==
  /\ m_future
  /\ searchFinished \/ ~ m_loading
  /\ m_future' = FALSE
  /\ UNCHANGED <<gui, launchVars, uiVars, envVars, confVars, searchFinished, m_loading,
                 playVars, ioVars>>

\* ApiObject::onSearchFinished: the games are handed to the UI.
OnSearchFinished ==
  /\ gui = "idle" /\ ~ engineDeletePosted
  /\ searchFinished
  /\ searchFinished' = FALSE
  /\ m_loading' = FALSE
  /\ UNCHANGED <<gui, launchVars, uiVars, envVars, confVars, m_future, playVars, ioVars>>

-----------------------------------------------------------------------------
(***************************************************************************)
(* The environment: the player, user scripts, the configuration.           *)
(***************************************************************************)
GameExits ==
  /\ \E g \in alive : alive' = alive \ {g}
  /\ UNCHANGED <<gui, launchVars, uiVars, scripts, confVars, scanVars, playVars, ioVars>>

ScriptStartsOrExits ==
  /\ \E s \in Scripts : scripts' = IF s \in scripts THEN scripts \ {s} ELSE scripts \cup {s}
  /\ UNCHANGED <<gui, launchVars, uiVars, alive, confVars, scanVars, playVars, ioVars>>

\* RecalboxConf is changed from the menus or reloaded by the HTTP server.
ReloadConf ==
  /\ gui = "idle" /\ ~ engineDeletePosted
  /\ multiwindows' \in BOOLEAN
  /\ keeploaded' \in BOOLEAN
  /\ UNCHANGED <<gui, launchVars, uiVars, envVars, scanVars, playVars, ioVars>>

GuiStep ==
  \/ LaunchOk
  \/ EngineDestroyed
  \/ RunPythonInBackground
  \/ RunPythonAndWait
  \/ WaitForProgram
  \/ BlockingCallReturns
  \/ CheckPidStatus
  \/ ProcessFinished
  \/ OnSearchFinished

Next ==
  \/ \E g \in Games : LaunchRequested(g) \/ LaunchFailed(g)
  \/ GuiStep
  \/ StartScanning
  \/ EmitSearchFinished
  \/ FutureFinished
  \/ GameExits
  \/ ScriptStartsOrExits
  \/ ReloadConf

(***************************************************************************)
(* The GUI thread keeps running its event loop and its slots, the scan     *)
(* worker keeps running, and the player leaves the game at some point.     *)
(* Nothing makes the player start one, reload, or change a setting.        *)
(***************************************************************************)
Fairness ==
  /\ WF_vars(LaunchOk) /\ WF_vars(EngineDestroyed)
  /\ WF_vars(RunPythonInBackground) /\ WF_vars(RunPythonAndWait)
  /\ WF_vars(WaitForProgram) /\ WF_vars(BlockingCallReturns)
  /\ WF_vars(CheckPidStatus) /\ WF_vars(ProcessFinished)
  /\ WF_vars(OnSearchFinished) /\ WF_vars(EmitSearchFinished)
  /\ WF_vars(FutureFinished) /\ WF_vars(GameExits)

Spec == Init /\ [][Next]_vars
FairSpec == Spec /\ Fairness

-----------------------------------------------------------------------------
GuiStates == {"idle", "launchOk", "teardownComplete", "system", "waitForFinished",
              "processFinished"}

Python   == {g \in Games : CommandOf[g] = "python"}
Programs == {g \in Games : CommandOf[g] = "program"}

\* Types, with which launch path may fill which member: globalCommand holds
\* python commands only, m_process other programs only.
TypeOK ==
  /\ gui \in GuiStates
  /\ m_launch_game_file \in Games \cup {NoGame}
  /\ m_engine \in BOOLEAN
  /\ engineDeletePosted \in BOOLEAN
  /\ globalCommand \in Python \cup {NoGame}
  /\ m_process \in Programs \cup {NoGame}
  /\ timer \in BOOLEAN
  /\ m_pid \in SUBSET (Python \cup Scripts)
  /\ alive \in SUBSET Games
  /\ scripts \in SUBSET Scripts
  /\ multiwindows \in BOOLEAN
  /\ keeploaded \in BOOLEAN
  /\ m_future \in BOOLEAN
  /\ searchFinished \in BOOLEAN
  /\ m_loading \in BOOLEAN
  /\ m_last_launch_time \in {"invalid", "stale", "fresh"}
  /\ lastPlay \in {"none", "invalid", "stale", "fresh"}
  /\ kbd \in BOOLEAN
  /\ esEvent \in {"none", "rungame", "endgame"}

\* The Q_ASSERTs of the slots hold in whatever order the signals arrive:
\* onGameLaunchOk and onGameFinished find a launched file, teardown an engine,
\* and onTeardownComplete a QProcess when there is no python command.
AssertionsHold ==
  /\ gui \in {"launchOk", "processFinished"} => m_launch_game_file # NoGame
  /\ gui = "launchOk" => m_engine
  /\ gui = "teardownComplete" /\ globalCommand = NoGame => m_process # NoGame

\* The frontend is missing only during a session, and a session whose GUI
\* thread is back in the event loop is waiting for something that will come:
\* the engine's deferred delete or the pid timer.
NeverStranded ==
  /\ ~ m_engine => m_launch_game_file # NoGame
  /\ gui = "idle" /\ m_launch_game_file # NoGame => engineDeletePosted \/ timer

\* The terminal's keyboard is handed to the game by beforeRun and taken back
\* by afterRun exactly once per session, on the error path too; and es_state
\* announces a game as long as one has the keyboard.
KeyboardHandedBack ==
  /\ kbd <=> (m_launch_game_file # NoGame /\ gui # "processFinished")
  /\ kbd => esEvent = "rungame"

\* At most one game runs, and it is the one the frontend knows of.
OnlyTheLaunchedGame == alive \subseteq {m_launch_game_file}

\* Every launch ends, and leaves the player in front of the frontend.
SessionEnds == m_launch_game_file # NoGame ~> m_launch_game_file = NoGame /\ m_engine

\* The slots implement the abstract session, its liveness included.
Session == INSTANCE LaunchSession
             WITH session <- m_launch_game_file, running <- alive, ui <- m_engine
SessionSpec == Session!Spec

\* What Q_ASSERT(m_last_launch_time.isValid()) of PlaytimeStats::onGameFinished
\* says.  It is not an invariant: a game that is launched before the future of the
\* scan is finished, and ends after it, has no launch time.
PlayHasLaunchTime == lastPlay # "invalid"
=============================================================================
