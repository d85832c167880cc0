------------------------------- MODULE Favorites -------------------------------
(***************************************************************************)
(* The favorites provider: the GUI thread hands over the whole list at     *)
(* every change, a worker of the thread pool writes it to the text file,   *)
(* and a change that arrives meanwhile waits in m_pending_task.  A scan    *)
(* reads the file back into the games.                                     *)
(*                                                                         *)
(* A list is the set of its lines: a comment, which is always there, and   *)
(* the favorite games.  So a list to write is never empty, and an empty    *)
(* QStringList means that there is none.                                   *)
(***************************************************************************)
EXTENDS FiniteSets

CONSTANTS
  Games,        \* the games that can be marked
  Comment,      \* the line "# List of favorites, one path per line"
  Writers,      \* the threads of the pool
  OpenMayFail   \* can the file turn out not to be writable

ASSUME CommentAssumption == Comment \notin Games
ASSUME OpenAssumption    == OpenMayFail \in BOOLEAN

Lines == Games \cup {Comment}

VARIABLES
  favorite,        \* model::Game::is_favorite, as the set of the marked games
  scan,            \* the scan: "off", "running", "read" or "shown"
  m_pending_task,  \* the latest list that waits for the worker
  m_active_task,   \* the list the worker writes, empty if there is none
  writer,          \* what each thread of the pool does for the provider
  m_db             \* the lines of the file

VARIABLES          \* history, read by the properties only
  requested,       \* the list of the last onGameFavoriteChanged
  openFailed       \* a worker could not open the file

favoritesVars == <<favorite, scan, m_pending_task, m_active_task, writer, m_db, requested, openFailed>>

WriterSteps == {"off", "open", "write", "pickUp"}
ScanSteps   == {"off", "running", "read", "shown"}

-----------------------------------------------------------------------------
\* The program starts with a scan, over a file of an earlier run.
FavoritesInit ==
  /\ favorite = {}
  /\ scan = "running"
  /\ m_pending_task = {}
  /\ m_active_task = {}
  /\ writer = [w \in Writers |-> "off"]
  /\ m_db \in {{}} \cup {{Comment} \cup marked : marked \in SUBSET Games}
  /\ requested = m_db
  /\ openFailed = FALSE

MutantStartsAlways(list) ==
  /\ m_active_task' = list
  /\ m_pending_task' = {}
  /\ \E w \in Writers : writer[w] = "off" /\ writer' = [writer EXCEPT ![w] = "open"]

MutantLaterChangeDropped(list) ==
  IF m_active_task = {}
  THEN /\ m_active_task' = list
       /\ m_pending_task' = {}
       /\ \E w \in Writers : writer[w] = "off" /\ writer' = [writer EXCEPT ![w] = "open"]
  ELSE UNCHANGED <<m_active_task, m_pending_task, writer>>

\* Favorites::onGameFavoriteChanged, under m_task_guard, and the first half of
\* start_processing: an empty m_active_task means that no worker runs.
OnGameFavoriteChanged(list) ==
  IF m_active_task = {}
  THEN /\ m_active_task' = list
       /\ m_pending_task' = {}
       /\ \E w \in Writers : writer[w] = "off" /\ writer' = [writer EXCEPT ![w] = "open"]
  ELSE /\ m_pending_task' = list
       /\ UNCHANGED <<m_active_task, writer>>

\* Game::setFavorite and Api's favoriteChanged: ProviderManager passes the list
\* on, but not while a scan runs, which it still does right after "shown".
SetFavorite(g) ==
  /\ scan \in {"off", "shown"}
  /\ favorite' = IF g \in favorite THEN favorite \ {g} ELSE favorite \cup {g}
  /\ \/ /\ scan = "off"
        /\ OnGameFavoriteChanged({Comment} \cup favorite')
        /\ requested' = {Comment} \cup favorite'
     \/ /\ scan = "shown"
        /\ UNCHANGED <<m_pending_task, m_active_task, writer, requested>>
  /\ UNCHANGED <<scan, m_db, openFailed>>

-----------------------------------------------------------------------------
(***************************************************************************)
(* The worker of start_processing.                                         *)
(***************************************************************************)
OpenFails(w) ==
  /\ OpenMayFail
  /\ writer[w] = "open"
  /\ writer' = [writer EXCEPT ![w] = "off"]
  /\ openFailed' = TRUE
  /\ UNCHANGED <<favorite, scan, m_pending_task, m_active_task, m_db, requested>>

\* QIODevice::WriteOnly truncates.
Open(w) ==
  /\ writer[w] = "open"
  /\ writer' = [writer EXCEPT ![w] = "write"]
  /\ m_db' = {}
  /\ UNCHANGED <<favorite, scan, m_pending_task, m_active_task, requested, openFailed>>

\* One line after the other, each flushed by Qt::endl.
WriteLine(w) ==
  /\ writer[w] = "write"
  /\ \E line \in m_active_task \ m_db : m_db' = m_db \cup {line}
  /\ UNCHANGED <<favorite, scan, m_pending_task, m_active_task, writer, requested, openFailed>>

WriteEnds(w) ==
  /\ writer[w] = "write"
  /\ m_active_task \subseteq m_db
  /\ writer' = [writer EXCEPT ![w] = "pickUp"]
  /\ UNCHANGED <<favorite, scan, m_pending_task, m_active_task, m_db, requested, openFailed>>

MutantKeepsActive(w) ==
  /\ writer[w] = "pickUp"
  /\ IF m_pending_task = {}
     THEN /\ writer' = [writer EXCEPT ![w] = "off"]
          /\ UNCHANGED m_active_task
     ELSE /\ writer' = [writer EXCEPT ![w] = "open"]
          /\ m_active_task' = m_pending_task
  /\ m_pending_task' = {}
  /\ UNCHANGED <<favorite, scan, m_db, requested, openFailed>>

MutantLeavesPending(w) ==
  /\ writer[w] = "pickUp"
  /\ writer' = [writer EXCEPT ![w] = "off"]
  /\ m_active_task' = {}
  /\ UNCHANGED <<m_pending_task, favorite, scan, m_db, requested, openFailed>>

\* Under m_task_guard: the worker ends, or goes on with the pending list.
PickUpList(w) ==
  /\ writer[w] = "pickUp"
  /\ writer' = [writer EXCEPT ![w] = IF m_pending_task = {} THEN "off" ELSE "open"]
  /\ m_active_task' = m_pending_task
  /\ m_pending_task' = {}
  /\ UNCHANGED <<favorite, scan, m_db, requested, openFailed>>

-----------------------------------------------------------------------------
(***************************************************************************)
(* The scan, and the power switch.                                         *)
(***************************************************************************)

\* ApiObject::startScanning clears the games of the UI.
StartScanning ==
  /\ scan = "off"
  /\ scan' = "running"
  /\ favorite' = {}
  /\ UNCHANGED <<m_pending_task, m_active_task, writer, m_db, requested, openFailed>>

MutantCommentIsAGame ==
  /\ scan = "running"
  /\ scan' = "read"
  /\ favorite' = m_db
  /\ UNCHANGED <<m_pending_task, m_active_task, writer, m_db, requested, openFailed>>

\* Favorites::run, in the scan's thread and without m_task_guard.
Run ==
  /\ scan = "running"
  /\ scan' = "read"
  /\ favorite' = m_db \cap Games
  /\ UNCHANGED <<m_pending_task, m_active_task, writer, m_db, requested, openFailed>>

\* ApiObject::onSearchFinished hands the games over, while the worker's future
\* may still be running.
OnSearchFinished ==
  /\ scan = "read"
  /\ scan' = "shown"
  /\ UNCHANGED <<favorite, m_pending_task, m_active_task, writer, m_db, requested, openFailed>>

FutureFinished ==
  /\ scan = "shown"
  /\ scan' = "off"
  /\ UNCHANGED <<favorite, m_pending_task, m_active_task, writer, m_db, requested, openFailed>>

\* Power off and on: what is in the file is what there is.
Restart ==
  /\ favorite' = {}
  /\ scan' = "running"
  /\ m_pending_task' = {}
  /\ m_active_task' = {}
  /\ writer' = [w \in Writers |-> "off"]
  /\ requested' = m_db
  /\ openFailed' = FALSE
  /\ UNCHANGED m_db

WriterStep(w) == Open(w) \/ WriteLine(w) \/ WriteEnds(w) \/ PickUpList(w)
ScanStep      == Run \/ OnSearchFinished \/ FutureFinished

FavoritesNext ==
  \/ \E g \in Games : SetFavorite(g)
  \/ \E w \in Writers : WriterStep(w) \/ OpenFails(w)
  \/ StartScanning
  \/ ScanStep
  \/ Restart

FavoritesSpec == FavoritesInit /\ [][FavoritesNext]_favoritesVars

\* The pool runs its workers, and the scan comes to its end.
FavoritesFairSpec ==
  /\ FavoritesSpec
  /\ \A w \in Writers : WF_favoritesVars(WriterStep(w))
  /\ WF_favoritesVars(ScanStep)

-----------------------------------------------------------------------------
FavoritesTypeOK ==
  /\ favorite \in SUBSET Games
  /\ scan \in ScanSteps
  /\ m_pending_task \in SUBSET Lines
  /\ m_active_task \in SUBSET Lines
  /\ writer \in [Writers -> WriterSteps]
  /\ m_db \in SUBSET Lines
  /\ requested \in SUBSET Lines
  /\ openFailed \in BOOLEAN

Writing == {w \in Writers : writer[w] # "off"}

\* Two threads never write the file at the same time, although nothing but the
\* emptiness of m_active_task tells onGameFavoriteChanged that one does.
OneWriter == \A v, w \in Writing : v = w

\* m_active_task is a faithful busy flag, unless the file could not be opened:
\* then it stays set without a worker, and no later change is ever written.
ActiveMeansBusy == ~ openFailed => (m_active_task # {} <=> Writing # {})

\* When the worker is gone, the file holds the last list it was handed, however
\* many changes came while it was writing, and none that was overtaken.
SavedWhenIdle == Writing = {} /\ ~ openFailed => m_db = requested

\* A change is written, or overtaken by a later one.
ChangeIsSaved ==
  \A list \in SUBSET Lines :
    requested = list ~> (m_db = list \/ requested # list \/ openFailed)
=============================================================================
