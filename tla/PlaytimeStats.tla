----------------------------- MODULE PlaytimeStats -----------------------------
(***************************************************************************)
(* The play time provider: the GUI thread queues one entry per finished    *)
(* game, a worker of the thread pool adds it to the model and to the       *)
(* database.  The queue is handed over under m_queue_guard, but the worker *)
(* tests whether it has more to do without it.                             *)
(*                                                                         *)
(* A play is the number of the onGameFinished that reported it.  A worker  *)
(* reads m_active_tasks at once: what it would read while another worker   *)
(* clears the vector under it is undefined and not modelled.               *)
(***************************************************************************)
EXTENDS Naturals, Sequences, FiniteSets, SequencesExt

CONSTANTS
  MaxPlays,     \* bound on the finished games
  Workers,      \* the lambdas that may be in the pool at a time
  DbMayFail     \* can the database fail to open, or to create its tables

ASSUME BoundAssumption == MaxPlays \in Nat
ASSUME DbAssumption    == DbMayFail \in BOOLEAN
ASSUME PoolAssumption  == IsFiniteSet(Workers)

VARIABLES
  plays,            \* how many games were finished
  m_pending_tasks,
  m_active_tasks,
  worker,           \* where each thread is in the provider's lambda
  playCount,        \* GameFile: how often each play was added to the model
  rows,             \* how many committed rows of the table plays each play has
  refused,          \* history: the plays the database did not take
  dbFailed,         \* history: a worker gave up for a failing database
  gaps              \* history: the games that finished in a worker's gap

queue == <<plays, m_pending_tasks, m_active_tasks, gaps>>
saved == <<rows, refused>>
vars  == <<queue, worker, playCount, saved, dbFailed>>

Plays       == 1 .. MaxPlays
WorkerSteps == {"off", "test", "update", "save", "pickUp"}

Init ==
  /\ plays = 0
  /\ m_pending_tasks = <<>>
  /\ m_active_tasks = <<>>
  /\ worker = [w \in Workers |-> "off"]
  /\ playCount = [p \in Plays |-> 0]
  /\ rows = [p \in Plays |-> 0]
  /\ refused = {}
  /\ dbFailed = FALSE
  /\ gaps = 0

-----------------------------------------------------------------------------
MutantQueueReplaced(p) ==
  /\ m_pending_tasks' = <<p>>
  /\ UNCHANGED <<m_active_tasks, worker>>

\* A worker is at work: the play only waits.
Queue(p) ==
  /\ m_pending_tasks' = Append(m_pending_tasks, p)
  /\ UNCHANGED <<m_active_tasks, worker>>

\* start_processing: the lists are swapped, the active one being empty.
StartProcessing(p) ==
  /\ m_active_tasks' = Append(m_pending_tasks, p)
  /\ m_pending_tasks' = <<>>
  /\ \E w \in Workers : worker[w] = "off" /\ worker' = [worker EXCEPT ![w] = "test"]

MutantAlwaysStarts(p) ==
  StartProcessing(p)

\* onGameFinished, under m_queue_guard.
Enqueue(p) ==
  \/ m_active_tasks = <<>> /\ StartProcessing(p)
  \/ m_active_tasks # <<>> /\ Queue(p)

\* A worker that has picked up nothing, and has not noticed yet.
InGap(w) == worker[w] = "test" /\ m_active_tasks = <<>>

OnGameFinished ==
  /\ plays < MaxPlays
  /\ plays' = plays + 1
  /\ Enqueue(plays + 1)
  /\ gaps' = IF \E w \in Workers : InGap(w) THEN gaps + 1 ELSE gaps
  /\ UNCHANGED <<playCount, saved, dbFailed>>

-----------------------------------------------------------------------------
(***************************************************************************)
(* The lambda of start_processing.                                         *)
(***************************************************************************)

\* while (!m_active_tasks.empty()), without the lock.
Test(w) ==
  /\ worker[w] = "test"
  /\ worker' = [worker EXCEPT ![w] = IF m_active_tasks = <<>> THEN "off" ELSE "update"]
  /\ UNCHANGED <<queue, playCount, saved, dbFailed>>

Added(count, list) == [p \in Plays |-> count[p] + IF Contains(list, p) THEN 1 ELSE 0]

\* update_modelgame for every entry.
UpdateModel(w) ==
  /\ worker[w] = "update"
  /\ worker' = [worker EXCEPT ![w] = "save"]
  /\ playCount' = Added(playCount, m_active_tasks)
  /\ UNCHANGED <<queue, saved, dbFailed>>

\* save_play_entry for every entry, then commit.  An entry is passed over when
\* its path gets no id or its row is not inserted, all of them are when the
\* commit fails; nobody looks at either result.
Save(w) ==
  /\ worker[w] = "save"
  /\ worker' = [worker EXCEPT ![w] = "pickUp"]
  /\ \E lost \in SUBSET ToSet(m_active_tasks) :
       /\ refused' = refused \cup lost
       /\ rows' = [p \in Plays |-> IF p \in lost THEN rows[p] ELSE Added(rows, m_active_tasks)[p]]
  /\ UNCHANGED <<queue, playCount, dbFailed>>

\* open or create_missing_tables fails: the loop is left with the entries still
\* in m_active_tasks.
DbFails(w) ==
  /\ DbMayFail
  /\ worker[w] = "save"
  /\ worker' = [worker EXCEPT ![w] = "off"]
  /\ dbFailed' = TRUE
  /\ UNCHANGED <<queue, playCount, saved>>

MutantNoClear(w) ==
  /\ worker[w] = "pickUp"
  /\ worker' = [worker EXCEPT ![w] = "test"]
  /\ m_active_tasks' = m_active_tasks \o m_pending_tasks
  /\ m_pending_tasks' = <<>>
  /\ UNCHANGED <<plays, gaps, playCount, saved, dbFailed>>

MutantNoSwap(w) ==
  /\ worker[w] = "pickUp"
  /\ worker' = [worker EXCEPT ![w] = "test"]
  /\ m_active_tasks' = <<>>
  /\ UNCHANGED <<m_pending_tasks, plays, gaps, playCount, saved, dbFailed>>

\* Under m_queue_guard: clear, then swap.
PickUp(w) ==
  /\ worker[w] = "pickUp"
  /\ worker' = [worker EXCEPT ![w] = "test"]
  /\ m_active_tasks' = m_pending_tasks
  /\ m_pending_tasks' = <<>>
  /\ UNCHANGED <<plays, gaps, playCount, saved, dbFailed>>

WorkerStep(w) == Test(w) \/ UpdateModel(w) \/ Save(w) \/ PickUp(w)

Next ==
  \/ OnGameFinished
  \/ \E w \in Workers : WorkerStep(w) \/ DbFails(w)

Spec == Init /\ [][Next]_vars

\* The pool runs its workers.
FairSpec == Spec /\ \A w \in Workers : WF_vars(WorkerStep(w))

-----------------------------------------------------------------------------
Busy == {w \in Workers : worker[w] # "off"}
Waiting == ToSet(m_active_tasks) \cup ToSet(m_pending_tasks)

TypeOK ==
  /\ plays \in 0 .. MaxPlays
  /\ m_pending_tasks \in Seq(Plays)
  /\ m_active_tasks \in Seq(Plays)
  /\ worker \in [Workers -> WorkerSteps]
  /\ playCount \in [Plays -> 0 .. Cardinality(Workers)]
  /\ rows \in [Plays -> Nat]
  /\ refused \in SUBSET Plays
  /\ dbFailed \in BOOLEAN
  /\ gaps \in 0 .. plays

\* A worker runs beside another only if a game finished in a worker's gap, the
\* moment between its unlock and its test: one more for each such game.
OneWorker == Cardinality(Busy) <= 1 + gaps

\* As long as no game finishes in a gap, a finished game has one row, or it
\* waits for a worker, or the database has refused it.
SavedOnce ==
  LET done    == \E w \in Workers : worker[w] = "pickUp"
      unsaved == ToSet(m_pending_tasks) \cup IF done THEN {} ELSE ToSet(m_active_tasks)
  IN  gaps = 0 =>
        /\ refused \subseteq 1 .. plays \ unsaved
        /\ \A p \in 1 .. plays : rows[p] = IF p \in unsaved \cup refused THEN 0 ELSE 1

\* As long as no game finishes in a gap, a finished game is in the model once,
\* whether or not the database takes it, or it waits for a worker that will
\* count it; unless the database failed, when the queue stays as it is.
CountedOrWaiting ==
  gaps = 0 =>
    \A p \in 1 .. plays :
      \/ playCount[p] = 1
      \/ playCount[p] = 0 /\ p \in Waiting /\ (Busy # {} \/ dbFailed)

\* Every finished game gets to the database, unless that refuses it or fails,
\* or a game finished in a gap.
EveryPlayIsSaved ==
  \A p \in Plays : plays >= p ~> (rows[p] > 0 \/ p \in refused \/ dbFailed \/ gaps > 0)

(***************************************************************************)
(* What the tests say and the code does not keep.                          *)
(***************************************************************************)

\* test_Playtime::write_queue: three finished games are a playCount of three.
PlayCountIsPlays ==
  Busy = {} => \A p \in 1 .. plays : playCount[p] = 1
=============================================================================
