---------------------------- MODULE Providers_proofs ---------------------------
(***************************************************************************)
(* Proofs about the two providers that save what the player does.  Each    *)
(* has a queue that the GUI thread fills and a worker of the pool empties. *)
(*                                                                         *)
(* PlaytimeStats: for any number of plays and of workers, each worker that *)
(* runs beside another one is due to a game that finished between a        *)
(* worker's last look at the queue and its end; before the first such game *)
(* every play is saved once, or refused by the database, and counted once. *)
(*                                                                         *)
(* Favorites: for every set of games and every thread pool, m_active_task  *)
(* alone keeps the workers from writing at the same time, and the last     *)
(* list that was handed over is the one that is in the file.               *)
(***************************************************************************)
EXTENDS PlaytimeStats, Favorites, SequenceTheorems, FiniteSetTheorems, TLAPS

-----------------------------------------------------------------------------
(***************************************************************************)
(* Types, whether or not a game ends in the gap.  What bounds the count of *)
(* a play is that no worker adds it twice: one that has added the active   *)
(* plays is past them until it takes them away.                            *)
(***************************************************************************)
Shapes ==
  /\ plays \in 0 .. MaxPlays
  /\ m_pending_tasks \in Seq(Plays)
  /\ m_active_tasks \in Seq(Plays)
  /\ worker \in [Workers -> WorkerSteps]
  /\ playCount \in [Plays -> Nat]
  /\ rows \in [Plays -> Nat]
  /\ refused \in SUBSET Plays
  /\ dbFailed \in BOOLEAN
  /\ gaps \in 0 .. plays

\* The workers that may have added the active plays.
Past == {w \in Workers : worker[w] \notin {"test", "update"}}

Tallied ==
  /\ \A p \in Plays : playCount[p] <= Cardinality(Workers) /\ (p > plays => playCount[p] = 0)
  /\ \A p \in ToSet(m_active_tasks) : p <= plays /\ playCount[p] <= Cardinality(Past)
  /\ \A p \in ToSet(m_pending_tasks) :
       p <= plays /\ playCount[p] = 0 /\ p \notin ToSet(m_active_tasks)

LEMMA InSet ==
  /\ ToSet(<<>>) = {}
  /\ \A s \in Seq(Plays) : s = <<>> <=> ToSet(s) = {}
  /\ \A s \in Seq(Plays) : ToSet(s) \subseteq Plays /\ \A p \in Plays : Contains(s, p) <=> p \in ToSet(s)
  /\ \A s \in Seq(Plays), p \in Plays :
       Append(s, p) \in Seq(Plays) /\ ToSet(Append(s, p)) = ToSet(s) \cup {p}
<1>1. ToSet(<<>>) = {}
  BY DEF ToSet
<1>2. \A s \in Seq(Plays) : ToSet(s) \subseteq Plays /\ \A p \in Plays : Contains(s, p) <=> p \in ToSet(s)
  BY DEF ToSet, Contains
<1>3. ASSUME NEW s \in Seq(Plays), NEW p \in Plays
      PROVE  Append(s, p) \in Seq(Plays) /\ ToSet(Append(s, p)) = ToSet(s) \cup {p}
  <2>1. /\ Append(s, p) \in Seq(Plays) /\ DOMAIN Append(s, p) = 1 .. Len(s) + 1 /\ DOMAIN s = 1 .. Len(s)
        /\ Len(s) \in Nat
        /\ \A i \in 1 .. Len(s) : Append(s, p)[i] = s[i]
        /\ Append(s, p)[Len(s) + 1] = p
    BY AppendProperties, LenProperties
  <2>2. \A i \in 1 .. Len(s) + 1 : i \in 1 .. Len(s) \/ i = Len(s) + 1
    BY <2>1
  <2> QED
    BY <2>1, <2>2 DEF ToSet
<1>4. ASSUME NEW s \in Seq(Plays), ToSet(s) = {} PROVE s = <<>>
  <2>1. Len(s) \in Nat /\ DOMAIN s = 1 .. Len(s)
    BY LenProperties
  <2>2. 1 \in DOMAIN s => s[1] \in ToSet(s)
    BY DEF ToSet
  <2>3. Len(s) = 0
    BY <1>4, <2>1, <2>2
  <2> QED
    BY <2>3, EmptySeq
<1> QED
  BY <1>1, <1>2, <1>3, <1>4

\* The pool is finite, and so is what is counted of it.
LEMMA PastCount ==
  /\ Cardinality(Past) \in Nat /\ Cardinality(Past) <= Cardinality(Workers)
  /\ \A w \in Workers \ Past :
       Cardinality(Past \cup {w}) = Cardinality(Past) + 1
       /\ Cardinality(Past) + 1 <= Cardinality(Workers)
<1>1. Past \subseteq Workers
  BY DEF Past
<1>2. \A S \in SUBSET Workers : IsFiniteSet(S) /\ Cardinality(S) <= Cardinality(Workers)
  BY PoolAssumption, FS_Subset
<1>3. IsFiniteSet(Past) /\ Cardinality(Past) \in Nat
  BY <1>1, <1>2, FS_CardinalityType
<1>4. ASSUME NEW w \in Workers \ Past PROVE Cardinality(Past \cup {w}) = Cardinality(Past) + 1
  BY <1>3, FS_AddElement
<1>5. ASSUME NEW w \in Workers \ Past PROVE Cardinality(Past \cup {w}) <= Cardinality(Workers)
  BY <1>1, <1>2
<1> QED
  BY <1>1, <1>2, <1>3, <1>4, <1>5

LEMMA InitTallied == Init => Shapes /\ Tallied
<1> SUFFICES ASSUME Init PROVE Shapes /\ Tallied
  OBVIOUS
<1>1. Shapes
  <2>1. 0 \in 0 .. MaxPlays /\ 0 \in 0 .. 0 /\ {} \in SUBSET Plays
    BY BoundAssumption
  <2>2. <<>> \in Seq(Plays)
    BY EmptySeq
  <2>3. worker \in [Workers -> WorkerSteps] /\ playCount \in [Plays -> Nat] /\ rows \in [Plays -> Nat]
    BY DEF Init, WorkerSteps
  <2> QED
    BY <2>1, <2>2, <2>3 DEF Init, Shapes
<1>2. Cardinality(Workers) \in Nat
  BY PoolAssumption, FS_CardinalityType
<1>3. Tallied
  BY <1>2, InSet DEF Init, Tallied
<1> QED
  BY <1>1, <1>3

LEMMA StepTallied == Shapes /\ Tallied /\ [Next]_vars => Shapes' /\ Tallied'
<1> SUFFICES ASSUME Shapes, Tallied, [Next]_vars PROVE Shapes' /\ Tallied'
  OBVIOUS
<1>a. /\ m_pending_tasks \in Seq(Plays) /\ m_active_tasks \in Seq(Plays)
      /\ rows \in [Plays -> Nat] /\ refused \in SUBSET Plays /\ gaps \in 0 .. plays
      /\ worker \in [Workers -> WorkerSteps] /\ plays \in 0 .. MaxPlays /\ playCount \in [Plays -> Nat]
      /\ <<>> \in Seq(Plays)
  BY EmptySeq DEF Shapes
<1>1. CASE OnGameFinished
  <2> DEFINE p == plays + 1
  <2>1. /\ plays < MaxPlays /\ plays' = p /\ Enqueue(p) /\ UNCHANGED <<playCount, rows, refused, dbFailed>>
        /\ gaps' \in {gaps, gaps + 1}
    BY <1>1 DEF OnGameFinished, saved
  <2>2. p \in Plays /\ p \in 0 .. MaxPlays /\ p > plays /\ gaps' \in 0 .. p
    BY <1>a, <2>1, BoundAssumption DEF Plays
  <2> HIDE DEF p
  <2>3. playCount[p] = 0 /\ p \notin ToSet(m_active_tasks) /\ p \notin ToSet(m_pending_tasks)
    BY <1>a, <2>2, InSet DEF Tallied, Plays
  <2>4. \A q \in Plays : (q <= plays => q <= p) /\ (q > p => q > plays)
    BY <1>a, <2>2 DEF Plays
  <2>5. CASE m_active_tasks = <<>> /\ StartProcessing(p)
    <3>1. m_active_tasks' = Append(m_pending_tasks, p) /\ m_pending_tasks' = <<>>
      BY <2>5 DEF StartProcessing
    <3>2. worker' \in [Workers -> WorkerSteps]
      BY <1>a, <2>5 DEF StartProcessing, WorkerSteps
    <3>3. Cardinality(Past') \in Nat
      <4>1. Past' \subseteq Workers
        BY DEF Past
      <4> QED
        BY <4>1, PoolAssumption, FS_Subset, FS_CardinalityType
    <3>4. ToSet(m_active_tasks') = ToSet(m_pending_tasks) \cup {p} /\ ToSet(m_pending_tasks') = {}
      BY <1>a, <2>2, <3>1, InSet
    <3>5. \A q \in ToSet(m_active_tasks') : q <= p /\ playCount[q] = 0
      <4>1. \A q \in ToSet(m_pending_tasks) : q \in Plays /\ q <= p /\ playCount[q] = 0
        BY <1>a, <2>4, InSet DEF Tallied
      <4>2. p <= p
        BY <2>2
      <4> QED
        BY <2>3, <3>4, <4>1, <4>2
    <3>6. Tallied'
      BY <2>1, <2>4, <3>3, <3>4, <3>5 DEF Tallied
    <3> QED
      BY <1>a, <2>1, <2>2, <3>1, <3>2, <3>6, InSet DEF Shapes
  <2>6. CASE m_active_tasks # <<>> /\ Queue(p)
    <3>1. m_pending_tasks' = Append(m_pending_tasks, p) /\ UNCHANGED <<m_active_tasks, worker>>
      BY <2>6 DEF Queue
    <3>2. ToSet(m_pending_tasks') = ToSet(m_pending_tasks) \cup {p} /\ Past' = Past
      BY <1>a, <2>2, <3>1, InSet DEF Past
    <3>3. \A q \in ToSet(m_pending_tasks) \cup ToSet(m_active_tasks) : q \in Plays
      BY <1>a, InSet
    <3>4. \A q \in ToSet(m_active_tasks) : q <= p /\ playCount[q] <= Cardinality(Past)
      BY <2>4, <3>3 DEF Tallied
    <3>5. \A q \in ToSet(m_pending_tasks') : q <= p /\ playCount[q] = 0 /\ q \notin ToSet(m_active_tasks)
      <4>1. \A q \in ToSet(m_pending_tasks) : q <= p /\ playCount[q] = 0 /\ q \notin ToSet(m_active_tasks)
        BY <2>4, <3>3 DEF Tallied
      <4>2. p <= p
        BY <2>2
      <4> QED
        BY <2>3, <3>2, <4>1, <4>2
    <3>6. Tallied'
      BY <2>1, <2>4, <3>1, <3>2, <3>4, <3>5 DEF Tallied
    <3> QED
      BY <1>a, <2>1, <2>2, <3>1, <3>6, InSet DEF Shapes
  <2> QED
    BY <2>1, <2>5, <2>6 DEF Enqueue
<1>2. ASSUME NEW w \in Workers, Test(w) PROVE Shapes' /\ Tallied'
  <2>1. /\ worker[w] = "test"
        /\ worker' = [worker EXCEPT ![w] = IF m_active_tasks = <<>> THEN "off" ELSE "update"]
        /\ UNCHANGED <<plays, m_pending_tasks, m_active_tasks, playCount, rows, refused, dbFailed, gaps>>
    BY <1>2 DEF Test, queue, saved
  <2>2. worker' \in [Workers -> WorkerSteps]
    BY <1>a, <2>1 DEF WorkerSteps
  <2>3. m_active_tasks # <<>> => Past' = Past
    BY <1>a, <2>1 DEF Past
  <2> QED
    BY <2>1, <2>2, <2>3, InSet DEF Shapes, Tallied
<1>3. ASSUME NEW w \in Workers, UpdateModel(w) PROVE Shapes' /\ Tallied'
  <2>1. /\ worker[w] = "update" /\ worker' = [worker EXCEPT ![w] = "save"]
        /\ playCount' = [p \in Plays |-> playCount[p] + IF Contains(m_active_tasks, p) THEN 1 ELSE 0]
        /\ UNCHANGED <<plays, m_pending_tasks, m_active_tasks, rows, refused, dbFailed, gaps>>
    BY <1>3 DEF UpdateModel, queue, saved, Added
  <2>2. worker' \in [Workers -> WorkerSteps] /\ playCount' \in [Plays -> Nat]
    BY <1>a, <2>1 DEF WorkerSteps
  <2>3. w \in Workers \ Past /\ Past' = Past \cup {w}
    BY <1>a, <2>1 DEF Past
  <2>4. /\ Cardinality(Past') = Cardinality(Past) + 1 /\ Cardinality(Past) \in Nat
        /\ Cardinality(Past) + 1 <= Cardinality(Workers)
    BY <2>3, PastCount
  <2>5. \A p \in Plays :
          playCount'[p] = IF p \in ToSet(m_active_tasks) THEN playCount[p] + 1 ELSE playCount[p]
    BY <1>a, <2>1, InSet
  <2>6. \A p \in ToSet(m_active_tasks) : p \in Plays /\ p <= plays /\ playCount'[p] <= Cardinality(Past')
    BY <1>a, <2>4, <2>5, InSet DEF Tallied
  <2>7. \A p \in ToSet(m_pending_tasks) : p \in Plays /\ playCount'[p] = playCount[p]
    BY <1>a, <2>5, InSet DEF Tallied
  <2>8. Cardinality(Workers) \in Nat
    BY PoolAssumption, FS_CardinalityType
  <2>9. \A p \in Plays : playCount'[p] <= Cardinality(Workers) /\ (p > plays => playCount'[p] = 0)
    <3> SUFFICES ASSUME NEW p \in Plays
                 PROVE  playCount'[p] <= Cardinality(Workers) /\ (p > plays => playCount'[p] = 0)
      OBVIOUS
    <3>1. CASE p \in ToSet(m_active_tasks)
      <4>1. p <= plays /\ playCount'[p] <= Cardinality(Past')
        BY <2>6, <3>1
      <4>2. Cardinality(Past') <= Cardinality(Workers) /\ Cardinality(Past') \in Nat
        BY <2>4
      <4>3. plays \in Nat /\ p \in Nat /\ playCount'[p] \in Nat
        BY <1>a, <2>2, BoundAssumption DEF Plays
      <4> QED
        BY <2>8, <4>1, <4>2, <4>3
    <3>2. CASE p \notin ToSet(m_active_tasks)
      BY <2>5, <3>2 DEF Tallied
    <3> QED
      BY <3>1, <3>2
  <2>10. Tallied'
    BY <2>1, <2>6, <2>7, <2>9 DEF Tallied
  <2> QED
    BY <2>1, <2>2, <2>10 DEF Shapes
<1>4. ASSUME NEW w \in Workers, Save(w) \/ DbFails(w) PROVE Shapes' /\ Tallied'
  <2>1. /\ worker[w] = "save"
        /\ worker' = [worker EXCEPT ![w] = "pickUp"] \/ worker' = [worker EXCEPT ![w] = "off"]
        /\ UNCHANGED <<plays, m_pending_tasks, m_active_tasks, playCount, gaps>>
    BY <1>4 DEF Save, DbFails, queue
  <2>2. worker' \in [Workers -> WorkerSteps] /\ Past' = Past
    BY <1>a, <2>1 DEF WorkerSteps, Past
  <2>3. rows' \in [Plays -> Nat] /\ refused' \in SUBSET Plays
    <3>1. CASE Save(w)
      <4>1. PICK lost \in SUBSET ToSet(m_active_tasks) :
              /\ refused' = refused \cup lost
              /\ rows' = [p \in Plays |-> IF p \in lost THEN rows[p] ELSE Added(rows, m_active_tasks)[p]]
        BY <3>1 DEF Save
      <4> QED
        BY <1>a, <4>1, InSet DEF Added
    <3>2. CASE DbFails(w)
      BY <1>a, <3>2 DEF DbFails, saved
    <3> QED
      BY <1>4, <3>1, <3>2
  <2>4. dbFailed' \in BOOLEAN
    BY <1>4, Zenon DEF Save, DbFails, Shapes
  <2> QED
    BY <2>1, <2>2, <2>3, <2>4 DEF Shapes, Tallied
<1>5. ASSUME NEW w \in Workers, PickUp(w) PROVE Shapes' /\ Tallied'
  <2>1. /\ worker' = [worker EXCEPT ![w] = "test"]
        /\ m_active_tasks' = m_pending_tasks /\ m_pending_tasks' = <<>>
        /\ UNCHANGED <<plays, playCount, rows, refused, dbFailed, gaps>>
    BY <1>5 DEF PickUp, saved
  <2>2. worker' \in [Workers -> WorkerSteps]
    BY <1>a, <2>1 DEF WorkerSteps
  <2>3. Cardinality(Past') \in Nat
    <3>1. Past' \subseteq Workers
      BY DEF Past
    <3> QED
      BY <3>1, PoolAssumption, FS_Subset, FS_CardinalityType
  <2>4. ToSet(m_pending_tasks') = {}
    BY <2>1, InSet
  <2>5. Tallied'
    BY <2>1, <2>3, <2>4 DEF Tallied
  <2> QED
    BY <1>a, <2>1, <2>2, <2>5 DEF Shapes
<1>6. CASE UNCHANGED vars
  BY <1>6 DEF vars, queue, saved, Shapes, Tallied, Past
<1> QED
  BY <1>1, <1>2, <1>3, <1>4, <1>5, <1>6 DEF Next, WorkerStep

-----------------------------------------------------------------------------
(***************************************************************************)
(* How many workers there are.  One that is past its test of an empty list *)
(* has taken it away from another, so a new worker beside it is paid for.  *)
(***************************************************************************)
Ahead == {w \in Workers : worker[w] \notin {"off", "test"}}

Paid ==
  /\ Cardinality(Busy) <= 1 + gaps
  /\ m_active_tasks = <<>> => Cardinality(Ahead) <= gaps

LEMMA SmallSets ==
  ASSUME NEW S \in SUBSET Workers
  PROVE  /\ IsFiniteSet(S) /\ Cardinality(S) \in Nat
         /\ \A T \in SUBSET S : Cardinality(T) <= Cardinality(S)
         /\ \A w \in Workers \ S : Cardinality(S \cup {w}) = Cardinality(S) + 1
         /\ \A w \in S : Cardinality(S \ {w}) = Cardinality(S) - 1
<1>1. IsFiniteSet(S)
  BY PoolAssumption, FS_Subset
<1>2. \A T \in SUBSET S : Cardinality(T) <= Cardinality(S)
  BY <1>1, FS_Subset
<1> QED
  BY <1>1, <1>2, FS_CardinalityType, FS_AddElement, FS_RemoveElement

LEMMA InitPaid == Init => Paid
<1> SUFFICES ASSUME Init PROVE Paid
  OBVIOUS
<1>1. Busy = {} /\ Ahead = {} /\ gaps = 0
  BY DEF Init, Busy, Ahead
<1> QED
  BY <1>1, FS_EmptySet DEF Paid

LEMMA StepPaid == Shapes /\ Paid /\ [Next]_vars => Paid'
<1> SUFFICES ASSUME Shapes, Paid, [Next]_vars PROVE Paid'
  OBVIOUS
<1>a. /\ worker \in [Workers -> WorkerSteps] /\ gaps \in Nat
      /\ m_pending_tasks \in Seq(Plays) /\ plays \in Nat
  BY BoundAssumption DEF Shapes
<1>b. Busy \in SUBSET Workers /\ Ahead \in SUBSET Workers /\ Busy' \in SUBSET Workers
  BY DEF Busy, Ahead
<1>c. Cardinality(Busy) \in Nat /\ Cardinality(Ahead) \in Nat /\ Cardinality(Busy') \in Nat
  BY <1>b, SmallSets
<1>1. CASE OnGameFinished
  <2>1. /\ Enqueue(plays + 1) /\ plays < MaxPlays
        /\ gaps' = IF \E w \in Workers : InGap(w) THEN gaps + 1 ELSE gaps
    BY <1>1 DEF OnGameFinished
  <2>2. CASE m_active_tasks = <<>> /\ StartProcessing(plays + 1)
    <3>1. PICK w \in Workers : worker[w] = "off" /\ worker' = [worker EXCEPT ![w] = "test"]
      BY <2>2 DEF StartProcessing
    <3>2. w \in Workers \ Busy /\ Busy' = Busy \cup {w}
      BY <1>a, <3>1 DEF Busy
    <3>3. Cardinality(Busy') = Cardinality(Busy) + 1
      BY <1>b, <3>2, SmallSets
    <3>4. m_active_tasks' # <<>>
      <4>1. plays + 1 \in Plays
        BY <1>a, <2>1, BoundAssumption DEF Plays
      <4>2. ToSet(m_active_tasks') # {} /\ m_active_tasks' \in Seq(Plays)
        BY <1>a, <2>2, <4>1, InSet DEF StartProcessing
      <4> QED
        BY <4>2, InSet
    <3>5. CASE \E v \in Workers : InGap(v)
      BY <1>a, <1>c, <2>1, <3>3, <3>4, <3>5 DEF Paid
    <3>6. CASE ~ \E v \in Workers : InGap(v)
      <4>1. Ahead = Busy
        BY <2>2, <3>6 DEF Ahead, Busy, InGap
      <4> QED
        BY <1>a, <1>c, <2>1, <2>2, <3>3, <3>4, <3>6, <4>1 DEF Paid
    <3> QED
      BY <3>5, <3>6
  <2>3. CASE m_active_tasks # <<>> /\ Queue(plays + 1)
    <3>1. Busy' = Busy /\ m_active_tasks' # <<>>
      BY <2>3 DEF Queue, Busy
    <3>2. gaps' \in {gaps, gaps + 1}
      BY <2>1
    <3> QED
      BY <1>a, <1>c, <3>1, <3>2 DEF Paid
  <2> QED
    BY <2>1, <2>2, <2>3 DEF Enqueue
<1>2. ASSUME NEW w \in Workers, Test(w) \/ UpdateModel(w) \/ Save(w) \/ DbFails(w) PROVE Paid'
  <2>1. UNCHANGED <<m_active_tasks, gaps>>
    BY <1>2 DEF Test, UpdateModel, Save, DbFails, queue
  <2>2. Busy' \subseteq Busy
    BY <1>2, <1>a DEF Test, UpdateModel, Save, DbFails, Busy
  <2>3. m_active_tasks = <<>> => Ahead' \subseteq Ahead
    BY <1>2, <1>a DEF Test, UpdateModel, Save, DbFails, Ahead
  <2>4. Cardinality(Busy') <= Cardinality(Busy)
    BY <1>b, <2>2, SmallSets
  <2>5. m_active_tasks = <<>> => Cardinality(Ahead') <= Cardinality(Ahead) /\ Cardinality(Ahead') \in Nat
    <3>1. Ahead' \in SUBSET Workers
      BY DEF Ahead
    <3> QED
      BY <1>b, <2>3, <3>1, SmallSets
  <2> QED
    BY <1>a, <1>c, <2>1, <2>4, <2>5 DEF Paid
<1>3. ASSUME NEW w \in Workers, PickUp(w) PROVE Paid'
  <2>1. worker[w] = "pickUp" /\ worker' = [worker EXCEPT ![w] = "test"] /\ gaps' = gaps
    BY <1>3 DEF PickUp
  <2>2. Busy' = Busy /\ w \in Busy /\ Ahead' \in SUBSET (Busy \ {w})
    BY <1>a, <2>1 DEF Busy, Ahead
  <2>3. Cardinality(Busy \ {w}) = Cardinality(Busy) - 1
    BY <1>b, <2>2, SmallSets
  <2>4. Cardinality(Ahead') <= Cardinality(Busy \ {w}) /\ Cardinality(Ahead') \in Nat
    <3>1. Ahead' \in SUBSET Workers /\ Busy \ {w} \in SUBSET Workers
      BY <1>b, <2>2
    <3> QED
      BY <2>2, <3>1, SmallSets
  <2> QED
    BY <1>a, <1>c, <2>1, <2>2, <2>3, <2>4 DEF Paid
<1>4. CASE UNCHANGED vars
  BY <1>4 DEF vars, queue, Paid, Busy, Ahead
<1> QED
  BY <1>1, <1>2, <1>3, <1>4 DEF Next, WorkerStep

\* Each worker beside another one is due to a game that finished in a worker's
\* gap: a game that does not never starts a second one.
THEOREM OneWorkerAtATime == Spec => []OneWorker
<1>1. Shapes /\ Tallied /\ Paid /\ [Next]_vars => (Shapes /\ Tallied /\ Paid)'
  BY StepTallied, StepPaid
<1>2. Shapes /\ Tallied /\ Paid => OneWorker
  BY DEF Paid, OneWorker
<1> QED
  BY <1>1, <1>2, InitTallied, InitPaid, PTL DEF Spec

-----------------------------------------------------------------------------
(***************************************************************************)
(* Each play once.  While no game has finished in a gap, one worker is at  *)
(* work at most, and where it is tells what became of the active plays.    *)
(***************************************************************************)
Alone == \A v, w \in Busy : v = w

\* A worker past its test has something to do, and nothing waits behind nothing.
BusyOverWork ==
  m_active_tasks = <<>> =>
    /\ m_pending_tasks = <<>>
    /\ \A w \in Workers : worker[w] \in {"off", "test"}

\* Work without a worker is what a failing database left.
LeftByFailure ==
  /\ dbFailed => Busy = {} /\ m_active_tasks # <<>>
  /\ m_active_tasks # <<>> /\ ~ dbFailed => Busy # {}

At(step) == \E w \in Workers : worker[w] = step

Counted == At("save") \/ At("pickUp") \/ dbFailed

Untouched(p) == playCount[p] = 0 /\ rows[p] = 0 /\ p \notin refused

\* What each play has come to, by the list it is in.
Ledger ==
  \A p \in Plays :
    /\ p > plays => Untouched(p) /\ p \notin Waiting
    /\ p \in ToSet(m_pending_tasks) => Untouched(p) /\ p \notin ToSet(m_active_tasks)
    /\ p \in ToSet(m_active_tasks) =>
         /\ playCount[p] = IF Counted THEN 1 ELSE 0
         /\ rows[p] = IF At("pickUp") /\ p \notin refused THEN 1 ELSE 0
         /\ p \in refused => At("pickUp")
    /\ p <= plays /\ p \notin Waiting =>
         /\ playCount[p] = 1
         /\ rows[p] = IF p \in refused THEN 0 ELSE 1

Quiet == Alone /\ BusyOverWork /\ LeftByFailure /\ Ledger

\* One worker is at work, and makes a step.
LEMMA LoneStep ==
  ASSUME worker \in [Workers -> WorkerSteps], Alone, NEW w \in Workers, w \in Busy,
         NEW x \in WorkerSteps, worker' = [worker EXCEPT ![w] = x]
  PROVE  /\ \A s \in WorkerSteps \ {"off"} : (At(s) <=> worker[w] = s) /\ (At(s)' <=> x = s)
         /\ Busy' = IF x = "off" THEN {} ELSE {w}
         /\ Alone'
<1>1. \A v \in Workers : v # w => worker[v] = "off"
  BY DEF Alone, Busy
<1>2. worker'[w] = x /\ \A v \in Workers : v # w => worker'[v] = "off"
  BY <1>1
<1>3. Busy' = IF x = "off" THEN {} ELSE {w}
  BY <1>2 DEF Busy
<1>4. Alone'
  BY <1>3 DEF Alone
<1>5. \A s \in WorkerSteps \ {"off"} : (At(s) <=> worker[w] = s) /\ (At(s)' <=> x = s)
  BY <1>1, <1>2 DEF At
<1> QED
  BY <1>3, <1>4, <1>5

LEMMA InitQuiet == Init => Quiet
<1> SUFFICES ASSUME Init PROVE Quiet
  OBVIOUS
<1>1. Busy = {} /\ Waiting = {}
  BY InSet DEF Init, Busy, Waiting
<1>2. Ledger
  BY <1>1, InSet DEF Init, Ledger, Plays, Untouched
<1> QED
  BY <1>1, <1>2 DEF Init, Quiet, Alone, BusyOverWork, LeftByFailure

LEMMA StepQuiet ==
  Shapes /\ Shapes' /\ (gaps = 0 => Quiet) /\ [Next]_vars => (gaps = 0 => Quiet)'
<1> SUFFICES ASSUME Shapes, Shapes', gaps = 0 => Quiet, [Next]_vars, gaps' = 0 PROVE Quiet'
  OBVIOUS
<1>a. /\ m_pending_tasks \in Seq(Plays) /\ m_active_tasks \in Seq(Plays)
      /\ worker \in [Workers -> WorkerSteps] /\ plays \in Nat /\ gaps \in Nat /\ dbFailed \in BOOLEAN
      /\ playCount \in [Plays -> Nat] /\ rows \in [Plays -> Nat]
  BY BoundAssumption DEF Shapes
<1>b. /\ ToSet(m_active_tasks) \subseteq Plays /\ ToSet(m_pending_tasks) \subseteq Plays
      /\ m_active_tasks = <<>> <=> ToSet(m_active_tasks) = {}
  BY <1>a, InSet
<1>c. gaps = 0
  <2>1. gaps' = gaps \/ gaps' = gaps + 1
    BY DEF Next, OnGameFinished, WorkerStep, Test, UpdateModel, Save, PickUp, DbFails, queue, vars
  <2> QED
    BY <1>a, <2>1
<1>d. Alone /\ BusyOverWork /\ LeftByFailure /\ Ledger
  BY <1>c DEF Quiet
<1>1. CASE OnGameFinished
  <2> DEFINE p == plays + 1
  <2>1. /\ plays' = p /\ Enqueue(p) /\ p \in Plays
        /\ UNCHANGED <<playCount, rows, refused, dbFailed>>
        /\ \A w \in Workers : ~ InGap(w)
    BY <1>1, <1>a, <1>c, BoundAssumption DEF OnGameFinished, saved, Plays
  <2>2. p > plays /\ \A q \in Plays : (q > p => q > plays) /\ (q <= p => q <= plays \/ q = p)
    BY <1>a DEF Plays
  <2> HIDE DEF p
  <2>3. Untouched(p) /\ p \notin Waiting
    BY <1>d, <2>1, <2>2 DEF Ledger
  <2>4. \A q \in Plays : Untouched(q)' <=> Untouched(q)
    BY <2>1 DEF Untouched
  <2>5. CASE m_active_tasks = <<>> /\ StartProcessing(p)
    <3>1. m_pending_tasks = <<>> /\ Busy = {} /\ dbFailed = FALSE
      BY <1>a, <1>d, <2>1, <2>5 DEF BusyOverWork, LeftByFailure, Busy, InGap
    <3>2. PICK w \in Workers : worker' = [worker EXCEPT ![w] = "test"]
      BY <2>5 DEF StartProcessing
    <3>3. /\ Busy' = {w} /\ \A v \in Workers : worker'[v] \in {"off", "test"}
          /\ Counted' = FALSE /\ At("pickUp")' = FALSE
      BY <1>a, <2>1, <3>1, <3>2 DEF Busy, At, Counted
    <3>4. ToSet(m_active_tasks') = {p} /\ ToSet(m_pending_tasks') = {}
      <4>1. /\ ToSet(m_active_tasks') = ToSet(m_pending_tasks) \cup {p}
            /\ m_pending_tasks' = <<>>
        BY <1>a, <2>1, <2>5, InSet DEF StartProcessing
      <4>2. ToSet(m_pending_tasks) = {}
        BY <3>1, InSet
      <4> QED
        BY <4>1, <4>2, InSet
    <3>5. m_active_tasks' # <<>>
      BY <3>4, InSet
    <3>6. Waiting = {} /\ Waiting' = {p}
      BY <2>5, <3>1, <3>4, InSet DEF Waiting
    <3>7. Ledger'
      <4> SUFFICES ASSUME NEW q \in Plays
                   PROVE  /\ q > p => Untouched(q) /\ q # p
                          /\ q = p => playCount[q] = 0 /\ rows[q] = 0 /\ q \notin refused
                          /\ q <= p /\ q # p => playCount[q] = 1 /\ rows[q] = IF q \in refused THEN 0 ELSE 1
        BY <2>1, <2>4, <3>3, <3>4, <3>6 DEF Ledger
      <4>1. p \in Nat /\ q \in Nat
        BY <2>1 DEF Plays
      <4>2. q > p => Untouched(q)
        BY <1>d, <2>2 DEF Ledger
      <4>3. q <= p /\ q # p => playCount[q] = 1 /\ rows[q] = IF q \in refused THEN 0 ELSE 1
        BY <1>d, <2>2, <3>6 DEF Ledger
      <4> QED
        BY <2>3, <4>1, <4>2, <4>3 DEF Untouched
    <3> QED
      BY <2>1, <3>1, <3>3, <3>5, <3>7 DEF Quiet, Alone, BusyOverWork, LeftByFailure
  <2>6. CASE m_active_tasks # <<>> /\ Queue(p)
    <3>1. /\ UNCHANGED <<m_active_tasks, worker>>
          /\ ToSet(m_pending_tasks') = ToSet(m_pending_tasks) \cup {p}
      BY <1>a, <2>1, <2>6, InSet DEF Queue
    <3>2. Busy' = Busy /\ Counted' = Counted /\ At("pickUp")' = At("pickUp")
      BY <2>1, <3>1 DEF Busy, Counted, At
    <3>3. Waiting' = Waiting \cup {p}
      BY <3>1 DEF Waiting
    <3>4. p \notin ToSet(m_active_tasks)
      BY <2>3 DEF Waiting
    <3>5. Ledger'
      <4> SUFFICES ASSUME NEW q \in Plays
                   PROVE  /\ q > p => Untouched(q) /\ q \notin Waiting /\ q # p
                          /\ q \in ToSet(m_pending_tasks) \/ q = p =>
                               Untouched(q) /\ q \notin ToSet(m_active_tasks)
                          /\ q \in ToSet(m_active_tasks) =>
                               /\ playCount[q] = IF Counted THEN 1 ELSE 0
                               /\ rows[q] = IF At("pickUp") /\ q \notin refused THEN 1 ELSE 0
                               /\ q \in refused => At("pickUp")
                          /\ q <= p /\ q \notin Waiting /\ q # p =>
                               playCount[q] = 1 /\ rows[q] = IF q \in refused THEN 0 ELSE 1
        BY <2>1, <2>4, <3>1, <3>2, <3>3 DEF Ledger
      <4>1. p \in Nat /\ q \in Nat
        BY <2>1 DEF Plays
      <4>2. q > p => Untouched(q) /\ q \notin Waiting /\ q # p
        BY <1>d, <2>2, <4>1 DEF Ledger
      <4>3. q <= p /\ q \notin Waiting /\ q # p =>
              playCount[q] = 1 /\ rows[q] = IF q \in refused THEN 0 ELSE 1
        BY <1>d, <2>2 DEF Ledger
      <4> QED
        BY <1>d, <2>3, <3>4, <4>2, <4>3 DEF Ledger
    <3> QED
      BY <1>d, <2>1, <2>6, <3>1, <3>2, <3>5 DEF Quiet, Alone, BusyOverWork, LeftByFailure
  <2> QED
    BY <2>1, <2>5, <2>6 DEF Enqueue
<1>2. ASSUME NEW w \in Workers, Test(w) PROVE Quiet'
  <2> DEFINE x == IF m_active_tasks = <<>> THEN "off" ELSE "update"
  <2>1. /\ worker[w] = "test" /\ worker' = [worker EXCEPT ![w] = x]
        /\ UNCHANGED <<plays, m_pending_tasks, m_active_tasks, playCount, rows, refused, dbFailed>>
    BY <1>2 DEF Test, queue, saved
  <2>2. x \in WorkerSteps /\ w \in Busy /\ {"save", "pickUp"} \subseteq WorkerSteps \ {"off"}
    BY <2>1 DEF WorkerSteps, Busy
  <2>3. /\ \A s \in WorkerSteps \ {"off"} : (At(s) <=> worker[w] = s) /\ (At(s)' <=> x = s)
        /\ Busy' = (IF x = "off" THEN {} ELSE {w}) /\ Alone'
    BY <1>a, <1>d, <2>1, <2>2, LoneStep
  <2>4. dbFailed = FALSE
    BY <1>a, <1>d, <2>2 DEF LeftByFailure
  <2>5. ~ At("pickUp") /\ ~ Counted /\ ~ At("pickUp")' /\ ~ Counted'
    BY <2>1, <2>2, <2>3, <2>4 DEF Counted
  <2>6. Ledger'
    BY <1>d, <2>1, <2>5 DEF Ledger, Untouched, Waiting
  <2>7. BusyOverWork' /\ LeftByFailure'
    <3>1. m_active_tasks = <<>> => \A v \in Workers : worker'[v] \in {"off", "test"}
      BY <1>a, <1>d, <2>1 DEF BusyOverWork
    <3> QED
      BY <1>d, <2>1, <2>3, <2>4, <3>1 DEF BusyOverWork, LeftByFailure
  <2> QED
    BY <2>3, <2>6, <2>7 DEF Quiet
<1>3. ASSUME NEW w \in Workers, UpdateModel(w) PROVE Quiet'
  <2>1. /\ worker[w] = "update" /\ worker' = [worker EXCEPT ![w] = "save"]
        /\ playCount' = [p \in Plays |-> playCount[p] + IF Contains(m_active_tasks, p) THEN 1 ELSE 0]
        /\ UNCHANGED <<plays, m_pending_tasks, m_active_tasks, rows, refused, dbFailed>>
    BY <1>3 DEF UpdateModel, queue, saved, Added
  <2>2. w \in Busy /\ {"save", "pickUp"} \subseteq WorkerSteps \ {"off"}
    BY <2>1 DEF WorkerSteps, Busy
  <2>3. /\ \A s \in WorkerSteps \ {"off"} : (At(s) <=> worker[w] = s) /\ (At(s)' <=> "save" = s)
        /\ Busy' = {w} /\ Alone'
    BY <1>a, <1>d, <2>1, <2>2, LoneStep
  <2>4. dbFailed = FALSE /\ m_active_tasks # <<>>
    BY <1>a, <1>d, <2>1, <2>2 DEF LeftByFailure, BusyOverWork
  <2>5. ~ At("pickUp") /\ ~ Counted /\ ~ At("pickUp")' /\ Counted'
    BY <2>1, <2>2, <2>3, <2>4 DEF Counted
  <2>6. \A p \in Plays : playCount'[p] = IF p \in ToSet(m_active_tasks) THEN playCount[p] + 1 ELSE playCount[p]
    BY <1>a, <2>1, InSet
  <2>7. Waiting' = Waiting
    BY <2>1 DEF Waiting
  <2>8. Ledger'
    <3> SUFFICES ASSUME NEW p \in Plays
                 PROVE  /\ p > plays => Untouched(p)' /\ p \notin Waiting
                        /\ p \in ToSet(m_pending_tasks) => Untouched(p)' /\ p \notin ToSet(m_active_tasks)
                        /\ p \in ToSet(m_active_tasks) => /\ playCount'[p] = 1 /\ rows[p] = 0
                                                          /\ p \notin refused
                        /\ p <= plays /\ p \notin Waiting =>
                             playCount'[p] = 1 /\ rows[p] = IF p \in refused THEN 0 ELSE 1
      BY <2>1, <2>5, <2>7 DEF Ledger
    <3>1. CASE p \in ToSet(m_active_tasks)
      BY <1>d, <2>1, <2>5, <2>6, <3>1 DEF Ledger, Waiting, Untouched
    <3>2. CASE p \notin ToSet(m_active_tasks)
      BY <1>d, <2>1, <2>6, <3>2 DEF Ledger, Untouched
    <3> QED
      BY <3>1, <3>2
  <2> QED
    BY <2>1, <2>3, <2>4, <2>8 DEF Quiet, BusyOverWork, LeftByFailure
<1>4. ASSUME NEW w \in Workers, Save(w) PROVE Quiet'
  <2>1. PICK lost \in SUBSET ToSet(m_active_tasks) :
          /\ refused' = refused \cup lost
          /\ rows' = [p \in Plays |-> IF p \in lost THEN rows[p] ELSE Added(rows, m_active_tasks)[p]]
    BY <1>4 DEF Save
  <2>2. /\ worker[w] = "save" /\ worker' = [worker EXCEPT ![w] = "pickUp"]
        /\ UNCHANGED <<plays, m_pending_tasks, m_active_tasks, playCount, dbFailed>>
    BY <1>4 DEF Save, queue
  <2>3. w \in Busy /\ {"save", "pickUp"} \subseteq WorkerSteps \ {"off"}
    BY <2>2 DEF WorkerSteps, Busy
  <2>4. /\ \A s \in WorkerSteps \ {"off"} : (At(s) <=> worker[w] = s) /\ (At(s)' <=> "pickUp" = s)
        /\ Busy' = {w} /\ Alone'
    BY <1>a, <1>d, <2>2, <2>3, LoneStep
  <2>5. dbFailed = FALSE /\ m_active_tasks # <<>>
    BY <1>a, <1>d, <2>2, <2>3 DEF LeftByFailure, BusyOverWork
  <2>6. ~ At("pickUp") /\ Counted /\ At("pickUp")' /\ Counted'
    BY <2>2, <2>3, <2>4 DEF Counted
  <2>7. \A p \in Plays :
          /\ rows'[p] = IF p \in ToSet(m_active_tasks) \ lost THEN rows[p] + 1 ELSE rows[p]
          /\ p \in refused' <=> p \in refused \/ p \in lost
    BY <1>a, <2>1, InSet DEF Added
  <2>8. Waiting' = Waiting
    BY <2>2 DEF Waiting
  <2>9. Ledger'
    <3> SUFFICES ASSUME NEW p \in Plays
                 PROVE  /\ p > plays => Untouched(p)' /\ p \notin Waiting
                        /\ p \in ToSet(m_pending_tasks) => Untouched(p)' /\ p \notin ToSet(m_active_tasks)
                        /\ p \in ToSet(m_active_tasks) => /\ playCount[p] = 1
                                                          /\ rows'[p] = IF p \notin refused' THEN 1 ELSE 0
                        /\ p <= plays /\ p \notin Waiting =>
                             playCount[p] = 1 /\ rows'[p] = IF p \in refused' THEN 0 ELSE 1
      BY <2>2, <2>6, <2>8 DEF Ledger
    <3>1. CASE p \in ToSet(m_active_tasks)
      BY <1>d, <2>1, <2>2, <2>6, <2>7, <3>1 DEF Ledger, Waiting, Untouched
    <3>2. CASE p \notin ToSet(m_active_tasks)
      <4>1. p \notin lost /\ rows'[p] = rows[p] /\ (p \in refused' <=> p \in refused)
        BY <2>1, <2>7, <3>2
      <4> QED
        BY <1>d, <2>2, <3>2, <4>1 DEF Ledger, Untouched
    <3> QED
      BY <3>1, <3>2
  <2> QED
    BY <2>2, <2>4, <2>5, <2>9 DEF Quiet, BusyOverWork, LeftByFailure
<1>5. ASSUME NEW w \in Workers, PickUp(w) PROVE Quiet'
  <2>1. /\ worker[w] = "pickUp" /\ worker' = [worker EXCEPT ![w] = "test"]
        /\ m_active_tasks' = m_pending_tasks /\ m_pending_tasks' = <<>>
        /\ UNCHANGED <<plays, playCount, rows, refused, dbFailed>>
    BY <1>5 DEF PickUp, saved
  <2>2. w \in Busy /\ {"save", "pickUp", "test"} \subseteq WorkerSteps \ {"off"}
    BY <2>1 DEF WorkerSteps, Busy
  <2>3. /\ \A s \in WorkerSteps \ {"off"} : (At(s) <=> worker[w] = s) /\ (At(s)' <=> "test" = s)
        /\ Busy' = {w} /\ Alone'
    BY <1>a, <1>d, <2>1, <2>2, LoneStep
  <2>4. dbFailed = FALSE
    BY <1>a, <1>d, <2>2 DEF LeftByFailure
  <2>5. At("pickUp") /\ Counted /\ ~ At("pickUp")' /\ ~ Counted'
    BY <2>1, <2>2, <2>3, <2>4 DEF Counted
  <2>6. ToSet(m_pending_tasks') = {} /\ ToSet(m_active_tasks') = ToSet(m_pending_tasks)
    BY <2>1, InSet
  <2>7. Ledger'
    <3> SUFFICES ASSUME NEW p \in Plays
                 PROVE  /\ p > plays => Untouched(p) /\ p \notin ToSet(m_pending_tasks)
                        /\ p \in ToSet(m_pending_tasks) =>
                             playCount[p] = 0 /\ rows[p] = 0 /\ p \notin refused
                        /\ p <= plays /\ p \notin ToSet(m_pending_tasks) =>
                             playCount[p] = 1 /\ rows[p] = IF p \in refused THEN 0 ELSE 1
      BY <2>1, <2>5, <2>6 DEF Ledger, Waiting, Untouched
    <3>1. CASE p \in ToSet(m_active_tasks)
      BY <1>d, <2>5, <3>1 DEF Ledger, Waiting, Untouched
    <3>2. CASE p \notin ToSet(m_active_tasks)
      BY <1>d, <3>2 DEF Ledger, Waiting, Untouched
    <3> QED
      BY <3>1, <3>2
  <2>8. \A v \in Workers : worker'[v] \in {"off", "test"}
    BY <1>a, <1>d, <2>1, <2>2 DEF Alone, Busy
  <2> QED
    BY <2>1, <2>3, <2>4, <2>7, <2>8 DEF Quiet, BusyOverWork, LeftByFailure
<1>6. ASSUME NEW w \in Workers, DbFails(w) PROVE Quiet'
  <2>1. /\ worker[w] = "save" /\ worker' = [worker EXCEPT ![w] = "off"] /\ dbFailed' = TRUE
        /\ UNCHANGED <<plays, m_pending_tasks, m_active_tasks, playCount, rows, refused>>
    BY <1>6 DEF DbFails, queue, saved
  <2>2. w \in Busy /\ "off" \in WorkerSteps /\ {"save", "pickUp"} \subseteq WorkerSteps \ {"off"}
    BY <2>1 DEF WorkerSteps, Busy
  <2>3. /\ \A s \in WorkerSteps \ {"off"} : (At(s) <=> worker[w] = s) /\ (At(s)' <=> "off" = s)
        /\ Busy' = {} /\ Alone'
    BY <1>a, <1>d, <2>1, <2>2, LoneStep
  <2>4. ~ At("pickUp") /\ Counted /\ ~ At("pickUp")' /\ Counted'
    BY <2>1, <2>2, <2>3 DEF Counted
  <2>5. m_active_tasks # <<>>
    BY <1>d, <2>1 DEF BusyOverWork
  <2>6. Ledger'
    BY <1>d, <2>1, <2>4 DEF Ledger, Untouched, Waiting
  <2> QED
    BY <2>1, <2>3, <2>5, <2>6 DEF Quiet, BusyOverWork, LeftByFailure
<1>7. CASE UNCHANGED vars
  <2>1. UNCHANGED <<plays, m_pending_tasks, m_active_tasks, worker, playCount, rows, refused, dbFailed>>
    BY <1>7 DEF vars, queue, saved
  <2>2. Busy' = Busy /\ At("pickUp")' = At("pickUp") /\ Counted' = Counted /\ Waiting' = Waiting
    BY <2>1 DEF Busy, At, Counted, Waiting
  <2> QED
    BY <1>d, <2>1, <2>2 DEF Quiet, Alone, BusyOverWork, LeftByFailure, Ledger, Untouched
<1> QED
  BY <1>1, <1>2, <1>3, <1>4, <1>5, <1>6, <1>7 DEF Next, WorkerStep

LEMMA QuietWithoutGap == Spec => [](Shapes /\ (gaps = 0 => Quiet))
<1>1. Shapes /\ Tallied /\ (gaps = 0 => Quiet) /\ [Next]_vars =>
        Shapes' /\ Tallied' /\ (gaps = 0 => Quiet)'
  BY StepTallied, StepQuiet
<1> QED
  BY <1>1, InitTallied, InitQuiet, PTL DEF Spec

\* Until a game finishes in a gap, each finished game has one row, or none if
\* the database refused it, or it waits to be saved.
THEOREM EachPlaySavedOnce == Spec => []SavedOnce
<1>1. Shapes /\ (gaps = 0 => Quiet) => SavedOnce
  <2> SUFFICES ASSUME Shapes, gaps = 0, Ledger,
                      NEW unsaved, unsaved = ToSet(m_pending_tasks) \cup
                                             IF At("pickUp") THEN {} ELSE ToSet(m_active_tasks)
               PROVE  /\ refused \subseteq 1 .. plays \ unsaved
                      /\ \A p \in 1 .. plays : rows[p] = IF p \in unsaved \cup refused THEN 0 ELSE 1
    BY DEF SavedOnce, At, Quiet
  <2>1. plays \in 0 .. MaxPlays /\ refused \in SUBSET Plays
    BY DEF Shapes
  <2>2. \A p \in refused : p \in Plays /\ p <= plays /\ p \notin unsaved
    BY <2>1 DEF Ledger, Untouched, Plays
  <2>3. \A p \in 1 .. plays : p \in Plays /\ p <= plays
    BY <2>1, BoundAssumption DEF Plays
  <2>4. \A p \in Plays : p \in refused => p \in 1 .. plays
    BY <2>1, <2>2, BoundAssumption DEF Plays
  <2>5. \A p \in 1 .. plays : rows[p] = IF p \in unsaved \cup refused THEN 0 ELSE 1
    BY <2>2, <2>3 DEF Ledger, Untouched, Waiting
  <2> QED
    BY <2>2, <2>4, <2>5
<1> QED
  BY <1>1, QuietWithoutGap, PTL

\* Until a game finishes in a gap, each finished game raises its play count by
\* one, or a worker that is there will do it.
THEOREM EachPlayCountedOnce == Spec => []CountedOrWaiting
<1>1. Shapes /\ (gaps = 0 => Quiet) => CountedOrWaiting
  <2> SUFFICES ASSUME Shapes, Quiet, NEW p \in 1 .. plays
               PROVE  \/ playCount[p] = 1
                      \/ playCount[p] = 0 /\ p \in Waiting /\ (Busy # {} \/ dbFailed)
    BY DEF CountedOrWaiting
  <2>1. p \in Plays /\ p <= plays
    BY BoundAssumption DEF Shapes, Plays
  <2>2. playCount[p] = 1 \/ (playCount[p] = 0 /\ p \in Waiting)
    BY <2>1 DEF Quiet, Ledger, Untouched, Waiting
  <2>3. p \in Waiting => m_active_tasks # <<>>
    BY InSet DEF Waiting, Quiet, BusyOverWork
  <2>4. m_active_tasks # <<>> => Busy # {} \/ dbFailed
    BY DEF Quiet, LeftByFailure
  <2> QED
    BY <2>2, <2>3, <2>4
<1> QED
  BY <1>1, QuietWithoutGap, PTL

\* Whatever the threads do, also when a game ends in the gap and several of
\* them handle the same plays: the queues hold plays only, and none is added to
\* the model more often than there are workers.
THEOREM TypeCorrect == Spec => []TypeOK
<1>1. Shapes /\ Tallied => TypeOK
  <2> SUFFICES ASSUME Shapes, Tallied PROVE TypeOK
    OBVIOUS
  <2>1. Cardinality(Workers) \in Nat
    BY PoolAssumption, FS_CardinalityType
  <2>2. playCount \in [Plays -> 0 .. Cardinality(Workers)]
    <3>1. \A p \in Plays : playCount[p] \in 0 .. Cardinality(Workers)
      BY <2>1 DEF Shapes, Tallied
    <3> QED
      BY <3>1 DEF Shapes
  <2> QED
    BY <2>2 DEF Shapes, TypeOK
<1>2. Spec => [](Shapes /\ Tallied)
  BY InitTallied, StepTallied, PTL DEF Spec
<1> QED
  BY <1>1, <1>2, PTL

-----------------------------------------------------------------------------
(***************************************************************************)
(* The favorites: a state of their own, and the same pool.                 *)
(***************************************************************************)
\* What the worker in charge has done so far.  `requested` is the pending list
\* or, if there is none, the active one.
QueueInv ==
  /\ Writing # {} => m_active_task # {}
  /\ m_pending_task # {} => m_active_task # {}
  /\ m_active_task # {} => requested = IF m_pending_task # {} THEN m_pending_task
                                                              ELSE m_active_task
  /\ \A w \in Writers : writer[w] = "write" => m_db \subseteq m_active_task
  /\ \A w \in Writers : writer[w] = "pickUp" => m_db = m_active_task

FavoritesInv == FavoritesTypeOK /\ OneWriter /\ ActiveMeansBusy /\ SavedWhenIdle /\ QueueInv

-----------------------------------------------------------------------------
LEMMA FavoritesInitType == FavoritesInit => FavoritesTypeOK
BY DEF FavoritesInit, FavoritesTypeOK, ScanSteps, WriterSteps, Lines

LEMMA FavoritesTypeStep == FavoritesTypeOK /\ [FavoritesNext]_favoritesVars => FavoritesTypeOK'
<1> SUFFICES ASSUME FavoritesTypeOK, [FavoritesNext]_favoritesVars PROVE FavoritesTypeOK'
  OBVIOUS
<1> USE DEF FavoritesTypeOK, ScanSteps, WriterSteps, Lines
<1>1. ASSUME NEW g \in Games, SetFavorite(g) PROVE FavoritesTypeOK'
  <2>1. favorite' \in SUBSET Games
    BY <1>1 DEF SetFavorite
  <2>2. /\ m_pending_task' \in SUBSET Lines /\ m_active_task' \in SUBSET Lines
        /\ writer' \in [Writers -> WriterSteps] /\ requested' \in SUBSET Lines
    BY <1>1, <2>1 DEF SetFavorite, OnGameFavoriteChanged
  <2> QED
    BY <1>1, <2>1, <2>2 DEF SetFavorite
<1>2. ASSUME NEW w \in Writers, WriterStep(w) \/ OpenFails(w) PROVE FavoritesTypeOK'
  <2>1. openFailed' \in BOOLEAN
    BY <1>2 DEF WriterStep, OpenFails, Open, WriteLine, WriteEnds, PickUpList
  <2>2. CASE Open(w)
    BY <2>2 DEF Open
  <2>3. CASE WriteLine(w)
    BY <2>3 DEF WriteLine
  <2>4. CASE WriteEnds(w)
    BY <2>4 DEF WriteEnds
  <2>5. CASE PickUpList(w)
    BY <2>5 DEF PickUpList
  <2>6. CASE OpenFails(w)
    BY <2>1, <2>6 DEF OpenFails
  <2> QED
    BY <1>2, <2>2, <2>3, <2>4, <2>5, <2>6 DEF WriterStep
<1>3. CASE StartScanning \/ ScanStep
  BY <1>3 DEF StartScanning, ScanStep, Run, OnSearchFinished, FutureFinished
<1>4. CASE Restart
  <2>1. openFailed' \in BOOLEAN
    BY <1>4, Zenon DEF Restart
  <2> QED
    BY <1>4, <2>1 DEF Restart
<1>5. CASE UNCHANGED favoritesVars
  BY <1>5 DEF favoritesVars
<1> QED
  BY <1>1, <1>2, <1>3, <1>4, <1>5 DEF FavoritesNext

\* The members keep their types.
THEOREM FavoritesTypeCorrect == FavoritesSpec => []FavoritesTypeOK
BY FavoritesInitType, FavoritesTypeStep, PTL DEF FavoritesSpec

-----------------------------------------------------------------------------
LEMMA FavoritesInitInv == FavoritesInit => FavoritesInv
<1> SUFFICES ASSUME FavoritesInit PROVE FavoritesInv
  OBVIOUS
<1>1. Writing = {} /\ m_active_task = {} /\ m_pending_task = {} /\ m_db = requested
  BY DEF FavoritesInit, Writing
<1> QED
  BY <1>1, FavoritesInitType DEF FavoritesInv, OneWriter, ActiveMeansBusy,
     SavedWhenIdle, QueueInv, Writing

\* A step that starts no worker, ends none and leaves the lists alone.
LEMMA FavoritesFrameStep ==
  ASSUME FavoritesInv, FavoritesTypeOK',
         UNCHANGED <<m_pending_task, m_active_task, writer, m_db, requested, openFailed>>
  PROVE  FavoritesInv'
BY DEF FavoritesInv, OneWriter, ActiveMeansBusy, SavedWhenIdle, QueueInv, Writing

LEMMA SetFavoriteStep ==
  ASSUME NEW g \in Games, FavoritesInv, FavoritesTypeOK', SetFavorite(g)
  PROVE  FavoritesInv'
<1> DEFINE list == {Comment} \cup favorite'
<1>0. FavoritesTypeOK /\ OneWriter /\ ActiveMeansBusy /\ SavedWhenIdle /\ QueueInv
  BY DEF FavoritesInv
<1>1. CASE scan = "shown"
  <2>1. UNCHANGED <<m_pending_task, m_active_task, writer, m_db, requested, openFailed>>
    BY <1>1 DEF SetFavorite
  <2> QED
    BY <2>1, FavoritesFrameStep
<1>2. CASE scan = "off" /\ m_active_task = {}
  <2>1. /\ m_active_task' = list /\ m_pending_task' = {} /\ requested' = list
        /\ UNCHANGED <<m_db, openFailed>>
    BY <1>2 DEF SetFavorite, OnGameFavoriteChanged
  <2>2. Writing = {}
    BY <1>0, <1>2 DEF QueueInv
  <2>3. PICK w \in Writers : writer' = [writer EXCEPT ![w] = "open"]
    BY <1>2 DEF SetFavorite, OnGameFavoriteChanged
  <2>4. \A v \in Writers : writer'[v] = IF v = w THEN "open" ELSE "off"
    BY <1>0, <2>2, <2>3 DEF Writing, FavoritesTypeOK
  <2>5. Writing' = {w}
    BY <2>4 DEF Writing
  <2>6. list # {}
    OBVIOUS
  <2>7. OneWriter' /\ ActiveMeansBusy' /\ SavedWhenIdle'
    BY <2>1, <2>5, <2>6 DEF OneWriter, ActiveMeansBusy, SavedWhenIdle
  <2>8. QueueInv'
    BY <2>1, <2>4, <2>6 DEF QueueInv
  <2> QED
    BY <2>7, <2>8 DEF FavoritesInv
<1>3. CASE scan = "off" /\ m_active_task # {}
  <2>1. /\ m_pending_task' = list /\ requested' = list /\ list # {}
        /\ UNCHANGED <<m_active_task, writer, m_db, openFailed>>
    BY <1>3 DEF SetFavorite, OnGameFavoriteChanged
  <2>2. Writing' = Writing
    BY <2>1 DEF Writing
  <2>3. OneWriter' /\ ActiveMeansBusy'
    BY <1>0, <2>1, <2>2 DEF OneWriter, ActiveMeansBusy
  <2>4. SavedWhenIdle'
    BY <1>0, <1>3, <2>1, <2>2 DEF ActiveMeansBusy, SavedWhenIdle
  <2>5. QueueInv'
    BY <1>0, <1>3, <2>1, <2>2 DEF QueueInv
  <2> QED
    BY <2>3, <2>4, <2>5 DEF FavoritesInv
<1> QED
  BY <1>1, <1>2, <1>3 DEF SetFavorite

LEMMA WorkerInvStep ==
  ASSUME NEW w \in Writers, FavoritesInv, FavoritesTypeOK', WriterStep(w) \/ OpenFails(w)
  PROVE  FavoritesInv'
<1>0. FavoritesTypeOK /\ OneWriter /\ ActiveMeansBusy /\ SavedWhenIdle /\ QueueInv
  BY DEF FavoritesInv
<1>1. Writing = {w} /\ \A v \in Writers : v # w => writer[v] = "off"
  BY <1>0 DEF OneWriter, Writing, WriterStep, Open, WriteLine, WriteEnds, PickUpList, OpenFails
<1>2. m_active_task # {}
  BY <1>0, <1>1 DEF QueueInv
<1>3. CASE Open(w) \/ WriteLine(w) \/ WriteEnds(w)
  <2>1. /\ writer' \in [Writers -> WriterSteps] /\ writer'[w] # "off"
        /\ \A v \in Writers : v # w => writer'[v] = "off"
    BY <1>0, <1>1, <1>3 DEF FavoritesTypeOK, Open, WriteLine, WriteEnds
  <2>2. Writing' = {w}
    BY <2>1 DEF Writing
  <2>3. UNCHANGED <<m_pending_task, m_active_task, requested, openFailed>>
    BY <1>3 DEF Open, WriteLine, WriteEnds
  <2>4. /\ writer'[w] = "write" => m_db' \subseteq m_active_task
        /\ writer'[w] = "pickUp" => m_db' = m_active_task
    BY <1>0, <1>3 DEF FavoritesTypeOK, QueueInv, Open, WriteLine, WriteEnds
  <2>5. QueueInv'
    BY <1>0, <1>2, <2>1, <2>3, <2>4 DEF QueueInv
  <2>6. OneWriter' /\ ActiveMeansBusy' /\ SavedWhenIdle'
    BY <1>2, <2>2, <2>3 DEF OneWriter, ActiveMeansBusy, SavedWhenIdle
  <2> QED
    BY <2>5, <2>6 DEF FavoritesInv
<1>4. CASE PickUpList(w) /\ m_pending_task = {}
  <2>1. /\ m_active_task' = {} /\ m_pending_task' = {} /\ UNCHANGED <<m_db, requested>>
        /\ \A v \in Writers : writer'[v] = "off"
    BY <1>0, <1>1, <1>4 DEF FavoritesTypeOK, PickUpList
  <2>2. Writing' = {}
    BY <2>1 DEF Writing
  <2>3. m_db' = requested'
    BY <1>0, <1>2, <1>4, <2>1 DEF QueueInv, PickUpList
  <2> QED
    BY <2>1, <2>2, <2>3 DEF FavoritesInv, QueueInv, OneWriter, ActiveMeansBusy, SavedWhenIdle
<1>5. CASE PickUpList(w) /\ m_pending_task # {}
  <2>1. /\ m_active_task' = m_pending_task /\ m_pending_task' = {}
        /\ UNCHANGED <<m_db, requested, openFailed>>
        /\ \A v \in Writers : writer'[v] = IF v = w THEN "open" ELSE "off"
    BY <1>0, <1>1, <1>5 DEF FavoritesTypeOK, PickUpList
  <2>2. Writing' = {w}
    BY <2>1 DEF Writing
  <2>3. QueueInv'
    BY <1>0, <1>2, <1>5, <2>1 DEF QueueInv
  <2> QED
    BY <1>5, <2>1, <2>2, <2>3 DEF FavoritesInv, OneWriter, ActiveMeansBusy, SavedWhenIdle
<1>6. CASE OpenFails(w)
  <2>1. /\ UNCHANGED <<m_pending_task, m_active_task, requested, m_db>>
        /\ \A v \in Writers : writer'[v] = "off"
    BY <1>0, <1>1, <1>6 DEF FavoritesTypeOK, OpenFails
  <2>2. openFailed'
    BY <1>6, Zenon DEF OpenFails
  <2>3. QueueInv'
    BY <1>0, <1>2, <2>1 DEF QueueInv
  <2>4. OneWriter' /\ ActiveMeansBusy' /\ SavedWhenIdle'
    BY <2>1, <2>2 DEF OneWriter, Writing, ActiveMeansBusy, SavedWhenIdle
  <2> QED
    BY <2>3, <2>4 DEF FavoritesInv
<1> QED
  BY <1>3, <1>4, <1>5, <1>6 DEF WriterStep

LEMMA FavoritesInvStep == FavoritesInv /\ [FavoritesNext]_favoritesVars => FavoritesInv'
<1> SUFFICES ASSUME FavoritesInv, [FavoritesNext]_favoritesVars PROVE FavoritesInv'
  OBVIOUS
<1>0. FavoritesTypeOK'
  BY FavoritesTypeStep DEF FavoritesInv
<1>1. CASE \E g \in Games : SetFavorite(g)
  BY <1>0, <1>1, SetFavoriteStep
<1>2. CASE \E w \in Writers : WriterStep(w) \/ OpenFails(w)
  BY <1>0, <1>2, WorkerInvStep
<1>3. CASE StartScanning \/ ScanStep \/ UNCHANGED favoritesVars
  <2>1. UNCHANGED <<m_pending_task, m_active_task, writer, m_db, requested, openFailed>>
    BY <1>3 DEF StartScanning, ScanStep, Run, OnSearchFinished, FutureFinished, favoritesVars
  <2> QED
    BY <1>0, <2>1, FavoritesFrameStep
<1>4. CASE Restart
  <2>1. /\ m_active_task' = {} /\ m_pending_task' = {} /\ m_db' = requested'
        /\ \A v \in Writers : writer'[v] = "off"
    BY <1>4 DEF Restart
  <2> QED
    BY <1>0, <2>1 DEF FavoritesInv, OneWriter, ActiveMeansBusy, SavedWhenIdle, QueueInv, Writing
<1> QED
  BY <1>1, <1>2, <1>3, <1>4 DEF FavoritesNext

LEMMA FavoritesInvHolds == FavoritesSpec => []FavoritesInv
BY FavoritesInitInv, FavoritesInvStep, PTL DEF FavoritesSpec

\* Whatever changes arrive while a worker writes, no second one writes.
THEOREM SingleWriter == FavoritesSpec => []OneWriter
BY FavoritesInvHolds, PTL DEF FavoritesInv

\* The busy flag of onGameFavoriteChanged is never wrong about a live worker.
THEOREM BusyFlag == FavoritesSpec => []ActiveMeansBusy
BY FavoritesInvHolds, PTL DEF FavoritesInv

\* Once the worker is gone, the last change is in the file.
THEOREM LastChangeIsSaved == FavoritesSpec => []SavedWhenIdle
BY FavoritesInvHolds, PTL DEF FavoritesInv
=============================================================================
