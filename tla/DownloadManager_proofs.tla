------------------------- MODULE DownloadManager_proofs -------------------------
(***************************************************************************)
(* One file at a time, one end of a batch, and a release that is whole     *)
(* when finished() says so, for any files, sizes, batches, redirections    *)
(* and retries.                                                            *)
(***************************************************************************)
EXTENDS DownloadManager, TLAPS

(***************************************************************************)
(* Types.                                                                  *)
(***************************************************************************)

\* What is in the queue: only a package that was appended so has a size.
Entries == {e \in [file : Files, size : {0, FullSize}] : e.size # 0 => e.file \in Sized}

\* Once a file was started the members are those of a file.
FileKnown ==
  \/ m_file \in Files
  \/ m_file = NoFile /\ reply = "none" /\ writer = "none" /\ strays = 0 /\ strayWriters = 0

Typed ==
  /\ starting \in BOOLEAN
  /\ downloadQueue \in Seq(Entries)
  /\ timers \in Nat
  /\ statusError \in {0, 1, 4}
  /\ outputTargetedSize \in {0, FullSize}
  /\ outputTargetedSize # 0 => m_file \in Sized
  /\ reply \in {"none", "running", "ok", "failed"}
  /\ redirected \in BOOLEAN
  /\ toCome \in 0 .. FullSize
  /\ writer \in {"none", "opening", "running", "stuck", "finished"}
  /\ stopped \in BOOLEAN
  /\ m_buffer \in Nat
  /\ disk \in [Files -> Nat]
  /\ strays \in Nat /\ strayUnits \in Nat /\ strayWriters \in Nat
  /\ told \in {"no", "ok", "error"}
  /\ wanted \subseteq Files
  /\ late \in BOOLEAN /\ overlap \in BOOLEAN /\ strayed \in BOOLEAN /\ forgiven \in BOOLEAN
  /\ batches \in 0 .. MaxBatches /\ hops \in Nat

LEMMA EntryIsOne == ASSUME NEW f \in Files PROVE Entry(f) \in Entries
  BY DEF Entry, Entries

LEMMA TargetIsOne == ASSUME NEW f \in Files PROVE [file |-> f, size |-> 0] \in Entries
  BY DEF Entries

\* A batch becomes entries of the queue, in which each of its files is found.
LEMMA BatchEntries ==
  ASSUME NEW batch \in Batches
  PROVE  /\ [i \in DOMAIN batch |-> Entry(batch[i])] \in Seq(Entries) \ {<<>>}
         /\ ToSet(batch) \subseteq Files
         /\ \A f \in ToSet(batch) : \E i \in DOMAIN batch : Entry(batch[i]).file = f
<1>1. batch \in Seq(Files)
  BY BatchAssumption
<1>2. \A i \in 1 .. Len(batch) : Entry(batch[i]) \in Entries
  BY <1>1, EntryIsOne
<1>3. [i \in DOMAIN batch |-> Entry(batch[i])] \in Seq(Entries) \ {<<>>}
  <2>1. batch # <<>>
    BY BatchAssumption
  <2> QED
    BY <1>1, <1>2, <2>1
<1>4. ToSet(batch) \subseteq Files
  BY <1>1 DEF ToSet
<1>5. ASSUME NEW f \in ToSet(batch) PROVE \E i \in DOMAIN batch : Entry(batch[i]).file = f
  <2>1. PICK i \in DOMAIN batch : batch[i] = f
    BY DEF ToSet
  <2> QED
    BY <2>1 DEF Entry
<1> QED
  BY <1>3, <1>4, <1>5

LEMMA SizeLeft ==
  ASSUME Typed, NEW e \in Entries, ~ AlreadyThere(e)
  PROVE  /\ e.file \in Files /\ e.size \in {0, FullSize} /\ (e.size # 0 => e.file \in Sized)
         /\ Erased(e) \in [Files -> Nat]
         /\ \A f \in Files : f # e.file => Erased(e)[f] = disk[f]
         /\ e.size = 0 => Erased(e)[e.file] = 0
         /\ Erased(e)[e.file] < FullSize
         /\ FullSize - Erased(e)[e.file] \in 0 .. FullSize
  BY SizeAssumption DEF Typed, Entries, AlreadyThere, Erased

LEMMA InitTyped == Init => Typed /\ FileKnown
<1> SUFFICES ASSUME Init PROVE Typed /\ FileKnown
  OBVIOUS
<1>1. disk \in [Files -> Nat]
  <2>1. disk \in [Files -> 0 .. FullSize + 1] /\ 0 .. FullSize + 1 \subseteq Nat
    BY SizeAssumption DEF Init
  <2> QED
    BY <2>1
<1>2. downloadQueue \in Seq(Entries) /\ batches \in 0 .. MaxBatches /\ toCome \in 0 .. FullSize
  BY SizeAssumption, BoundAssumption DEF Init
<1> QED
  BY <1>1, <1>2 DEF Init, Typed, FileKnown

LEMMA StepTyped == Typed /\ FileKnown /\ [Next]_vars => (Typed /\ FileKnown)'
<1> SUFFICES ASSUME Typed, FileKnown, [Next]_vars PROVE (Typed /\ FileKnown)'
  OBVIOUS
<1> USE DEF fileVars, writeVars, strayVars, batchVars, histVars
<1> USE SizeAssumption, BoundAssumption
<1>1. CASE AppendBatch
  <2>1. PICK batch \in Batches :
          /\ AppendEntries([i \in DOMAIN batch |-> Entry(batch[i])])
          /\ wanted' = ToSet(batch)
    <3>1. \E batch \in Batches :
            /\ AppendEntries([i \in DOMAIN batch |-> Entry(batch[i])])
            /\ wanted' = ToSet(batch)
      BY <1>1 DEF AppendBatch
    <3> QED
      BY <3>1
  <2> DEFINE es == [i \in DOMAIN batch |-> Entry(batch[i])]
  <2>2. es \in Seq(Entries) /\ wanted' \subseteq Files
    BY <2>1, BatchEntries
  <2>3. /\ downloadQueue' = downloadQueue \o es
        /\ timers' = timers + (IF downloadQueue = <<>> THEN 1 ELSE 0)
    BY <2>1 DEF AppendEntries
  <2> HIDE DEF es
  <2>4. downloadQueue' \in Seq(Entries) /\ timers' \in Nat
    BY <2>2, <2>3 DEF Typed
  <2>5. late' \in BOOLEAN /\ batches' \in 0 .. MaxBatches
    BY <1>1 DEF AppendBatch, Typed
  <2>6. /\ statusError' = 0 /\ told' = "no" /\ forgiven' = FALSE
        /\ UNCHANGED <<starting, fileVars, reply, toCome, writeVars, strayVars, overlap, strayed, hops>>
    BY <1>1 DEF AppendBatch, Clear
  <2>7. starting' \in BOOLEAN /\ overlap' \in BOOLEAN /\ strayed' \in BOOLEAN /\ forgiven' \in BOOLEAN
    BY <2>6 DEF Typed
  <2>8. /\ redirected' \in BOOLEAN /\ stopped' \in BOOLEAN
        /\ outputTargetedSize' \in {0, FullSize}
        /\ outputTargetedSize' # 0 => m_file' \in Sized
        /\ writer' \in {"none", "opening", "running", "stuck", "finished"}
        /\ m_buffer' \in Nat
        /\ disk' \in [Files -> Nat]
    BY <2>6 DEF Typed
  <2>9. /\ statusError' \in {0, 1, 4} /\ told' \in {"no", "ok", "error"}
        /\ reply' \in {"none", "running", "ok", "failed"} /\ toCome' \in 0 .. FullSize
        /\ strays' \in Nat /\ strayUnits' \in Nat /\ strayWriters' \in Nat /\ hops' \in Nat
    BY <2>6 DEF Typed
  <2>10. FileKnown'
    BY <2>6 DEF FileKnown
  <2>11. Typed'
    BY <2>2, <2>4, <2>5, <2>7, <2>8, <2>9 DEF Typed
  <2> QED
    BY <2>10, <2>11
<1>2. CASE TimerFires
  <2>1. timers' \in Nat /\ overlap' \in BOOLEAN
    BY <1>2 DEF TimerFires, Typed
  <2> QED
    BY <1>2, <2>1 DEF TimerFires, Typed, FileKnown
<1>3. CASE AllDownloaded
  <2>1. told' \in {"ok", "error"} /\ starting' \in BOOLEAN
    BY <1>3 DEF AllDownloaded
  <2> QED
    BY <1>3, <2>1 DEF AllDownloaded, Typed, FileKnown
<1>4. CASE SkipFile
  <2>1. Head(downloadQueue) \in Entries /\ Tail(downloadQueue) \in Seq(Entries)
    BY <1>4 DEF SkipFile, Typed
  <2>2. m_file' = Head(downloadQueue).file /\ outputTargetedSize' = Head(downloadQueue).size
    BY <1>4 DEF SkipFile
  <2>3. m_file' \in Files /\ outputTargetedSize' \in {0, FullSize} /\ (outputTargetedSize' # 0 => m_file' \in Sized)
    BY <2>1, <2>2 DEF Entries
  <2> QED
    BY <1>4, <2>1, <2>3 DEF SkipFile, Typed, FileKnown
<1>5. CASE StartDownload
  <2> DEFINE e == Head(downloadQueue)
  <2>1. e \in Entries /\ Tail(downloadQueue) \in Seq(Entries)
    BY <1>5 DEF StartDownload, Typed
  <2>2. ~ AlreadyThere(e) /\ m_file' = e.file /\ outputTargetedSize' = e.size /\ disk' = Erased(e)
        /\ redirected' \in BOOLEAN
        /\ toCome' \in {0, FullSize, FullSize - Erased(e)[e.file]}
    BY <1>5 DEF StartDownload
  <2> HIDE DEF e
  <2>3. /\ m_file' \in Files /\ outputTargetedSize' \in {0, FullSize}
        /\ (outputTargetedSize' # 0 => m_file' \in Sized)
        /\ disk' \in [Files -> Nat] /\ toCome' \in 0 .. FullSize
    BY <2>1, <2>2, SizeLeft
  <2>4. m_buffer' \in Nat
    BY <1>5 DEF StartDownload, Typed
  <2>5. strays' \in Nat /\ strayUnits' \in Nat /\ strayWriters' \in Nat
    BY <1>5 DEF StartDownload, Typed, Running
  <2>6. /\ downloadQueue' = Tail(downloadQueue) /\ reply' = "running" /\ writer' = "opening"
        /\ stopped' = FALSE /\ starting' = FALSE
        /\ UNCHANGED <<timers, statusError, told, batchVars, histVars>>
    BY <1>5 DEF StartDownload
  <2> QED
    BY <2>1, <2>2, <2>3, <2>4, <2>5, <2>6 DEF Typed, FileKnown
<1>6. CASE DownloadReadyRead
  BY <1>6 DEF DownloadReadyRead, GiveWriter, Typed, FileKnown
<1>7. ASSUME EndWithError \/ EndWithRedirect \/ EndWithSuccess, m_file \in Files
      PROVE  /\ downloadQueue' \in Seq(Entries) /\ timers' \in Nat /\ statusError' \in {0, 1, 4}
             /\ disk' \in [Files -> Nat] /\ writer' \in {"none", "opening", "running", "stuck", "finished"}
             /\ stopped' \in BOOLEAN /\ late' \in BOOLEAN /\ forgiven' \in BOOLEAN /\ hops' \in Nat
  <2>1. writer' \in {"none", "opening", "running", "stuck", "finished"} /\ stopped' \in BOOLEAN
    BY <1>7 DEF EndWithError, EndWithRedirect, EndWithSuccess, StopWriter, Typed
  <2>2. CASE EndWithError \/ EndWithSuccess
    BY <2>1, <2>2 DEF EndWithError, EndWithSuccess, Typed
  <2>3. CASE EndWithRedirect
    <3>1. <<[file |-> m_file, size |-> 0]>> \in Seq(Entries)
      BY <1>7, TargetIsOne
    <3>2. /\ downloadQueue' = downloadQueue \o <<[file |-> m_file, size |-> 0]>>
          /\ timers' = timers + (IF downloadQueue = <<>> THEN 1 ELSE 0)
      BY <2>3 DEF EndWithRedirect, AppendEntries
    <3>3. downloadQueue' \in Seq(Entries) /\ timers' \in Nat
      BY <3>1, <3>2 DEF Typed
    <3>4. late' \in BOOLEAN /\ forgiven' \in BOOLEAN
      BY <2>3 DEF EndWithRedirect
    <3> QED
      BY <1>7, <2>1, <2>3, <3>3, <3>4 DEF EndWithRedirect, Typed
  <2> QED
    BY <1>7, <2>2, <2>3
<1>8. CASE DownloadFinished
  <2>1. m_file \in Files
    BY <1>8 DEF DownloadFinished, FileKnown
  <2>2. EndWithError \/ EndWithRedirect \/ EndWithSuccess
    BY <1>8 DEF DownloadFinished
  <2> QED
    BY <1>7, <1>8, <2>1, <2>2 DEF DownloadFinished, Typed, FileKnown
<1>9. CASE StrayReadyRead
  BY <1>9 DEF StrayReadyRead, GiveWriter, Typed, FileKnown
<1>10. CASE StrayFinished
  <2>1. m_file \in Files
    BY <1>10 DEF StrayFinished, FileKnown, Typed
  <2>2. EndWithError \/ EndWithRedirect \/ EndWithSuccess
    BY <1>10 DEF StrayFinished
  <2>3. strays' \in Nat /\ strayUnits' \in Nat
    BY <1>10 DEF StrayFinished, Typed
  <2> QED
    BY <1>7, <1>10, <2>1, <2>2, <2>3 DEF StrayFinished, Typed, FileKnown
<1>11. CASE StrayDeleted
  BY <1>11 DEF StrayDeleted, Typed, FileKnown
<1>12. CASE WriterOpens \/ WriterCannotOpen \/ WriterEnds
  <2>1. writer # "none" /\ writer' \in {"running", "finished"}
    BY <1>12 DEF WriterOpens, WriterCannotOpen, WriterEnds
  <2>2. UNCHANGED <<starting, downloadQueue, timers, statusError, fileVars, reply, toCome, stopped, m_buffer,
                    disk, strayVars, told, batchVars, histVars>>
    BY <1>12 DEF WriterOpens, WriterCannotOpen, WriterEnds
  <2> QED
    BY <2>1, <2>2 DEF Typed, FileKnown
<1>13. CASE WriterWrites
  <2>1. m_file \in Files
    BY <1>13 DEF WriterWrites, FileKnown
  <2>2. disk' \in [Files -> Nat]
    BY <1>13, <2>1 DEF WriterWrites, Typed
  <2> QED
    BY <1>13, <2>1, <2>2 DEF WriterWrites, Typed, FileKnown
<1>14. ASSUME CheckFile, m_file \in Files
       PROVE  /\ statusError' \in {0, 1, 4} /\ forgiven' \in BOOLEAN /\ disk' \in [Files -> Nat]
              /\ reply' = "none" /\ redirected' = FALSE /\ toCome' \in 0 .. FullSize /\ strays' \in Nat
              /\ strayUnits' \in Nat /\ starting' = TRUE
  BY <1>14 DEF CheckFile, Typed, Running
<1>15. CASE WriteFinished
  <2>1. m_file \in Files /\ CheckFile
    BY <1>15 DEF WriteFinished, FileKnown
  <2> QED
    BY <1>14, <1>15, <2>1 DEF WriteFinished, CheckFile, Typed, FileKnown
<1>16. CASE StrayWriteFinished
  <2>1. m_file \in Files /\ CheckFile
    BY <1>16 DEF StrayWriteFinished, FileKnown, Typed
  <2>2. strayWriters' \in Nat
    BY <1>16 DEF StrayWriteFinished, Typed
  <2>3. UNCHANGED <<writer, stopped, m_buffer, downloadQueue, timers, m_file, outputTargetedSize, told,
                    batchVars, late, overlap, strayed, hops>>
    BY <1>16 DEF StrayWriteFinished, CheckFile
  <2> QED
    BY <1>14, <2>1, <2>2, <2>3 DEF Typed, FileKnown
<1>17. CASE UNCHANGED vars
  BY <1>17 DEF vars, Typed, FileKnown
<1> QED
  BY <1>1, <1>2, <1>3, <1>4, <1>5, <1>6, <1>8, <1>9, <1>10, <1>11, <1>12, <1>13, <1>15, <1>16, <1>17
     DEF Next, Progress, StraySteps

LEMMA TypedInvariant == Spec => [](Typed /\ FileKnown)
<1> QED
  BY InitTyped, StepTyped, PTL DEF Spec

(***************************************************************************)
(* The queue.  As long as no append() took an empty queue for an idle      *)
(* manager and no signal came from a stray reply, a timer is only armed    *)
(* for a manager that is idle, and starts the batch.                       *)
(***************************************************************************)
InOrder ==
  /\ strayWriters = 0
  /\ timers <= 1
  /\ timers = 1 => ~ starting /\ ~ InProgress /\ downloadQueue # <<>> /\ told = "no"
  /\ starting => ~ InProgress
  /\ told # "no" => downloadQueue = <<>> /\ ~ starting /\ ~ InProgress
  /\ reply = "running" => writer # "stuck"

QueueInv == late \/ strayed \/ InOrder

LEMMA InitQueue == Init => QueueInv
  BY DEF Init, QueueInv, InOrder, InProgress, WriterLives

LEMMA StepQueue == Typed /\ FileKnown /\ QueueInv /\ [Next]_vars => QueueInv'
<1> SUFFICES ASSUME Typed, FileKnown, QueueInv, [Next]_vars, ~ late', ~ strayed' PROVE InOrder'
  BY DEF QueueInv
<1> USE DEF fileVars, writeVars, strayVars, batchVars, histVars
<1>a. ~ StrayReadyRead /\ ~ StrayFinished
  BY DEF StrayReadyRead, StrayFinished
<1>c. ~ late /\ ~ strayed
  <2>1. CASE AppendBatch
    BY <2>1 DEF AppendBatch
  <2>2. CASE DownloadFinished
    <3>1. strayed' = strayed /\ (EndWithError \/ EndWithRedirect \/ EndWithSuccess)
      BY <2>2 DEF DownloadFinished
    <3>2. late => late'
      BY <3>1 DEF EndWithError, EndWithRedirect, EndWithSuccess
    <3>3. ~ late
      BY <3>2
    <3> QED
      BY <3>1, <3>3
  <2>3. CASE TimerFires \/ AllDownloaded \/ SkipFile \/ StartDownload \/ DownloadReadyRead
    <3>1. late' = late /\ strayed' = strayed
      BY <2>3 DEF TimerFires, AllDownloaded, SkipFile, StartDownload, DownloadReadyRead
    <3> QED
      BY <3>1
  <2>4. CASE WriterOpens \/ WriterWrites \/ WriterEnds \/ WriterCannotOpen \/ StrayDeleted
    BY <2>4 DEF WriterOpens, WriterWrites, WriterEnds, WriterCannotOpen, StrayDeleted
  <2>5. CASE WriteFinished \/ StrayWriteFinished
    BY <2>5 DEF WriteFinished, StrayWriteFinished, CheckFile
  <2>6. CASE UNCHANGED vars
    BY <2>6 DEF vars
  <2> QED
    BY <1>a, <2>1, <2>2, <2>3, <2>4, <2>5, <2>6 DEF Next, Progress, StraySteps
<1>d. InOrder /\ downloadQueue \in Seq(Entries) /\ timers \in Nat
  BY <1>c DEF QueueInv, Typed
<1> USE DEF InOrder, InProgress, WriterLives
<1>1. CASE AppendBatch
  <2>0. \E batch \in Batches : AppendEntries([i \in DOMAIN batch |-> Entry(batch[i])])
    BY <1>1 DEF AppendBatch
  <2>1. PICK batch \in Batches : AppendEntries([i \in DOMAIN batch |-> Entry(batch[i])])
    BY <2>0
  <2> DEFINE es == [i \in DOMAIN batch |-> Entry(batch[i])]
  <2>2. es \in Seq(Entries) /\ es # <<>>
    BY BatchEntries
  <2>3. /\ downloadQueue' = downloadQueue \o es
        /\ timers' = timers + (IF downloadQueue = <<>> THEN 1 ELSE 0)
    BY <2>1 DEF AppendEntries
  <2> HIDE DEF es
  <2>4. downloadQueue' # <<>>
    BY <1>d, <2>2, <2>3
  <2>5. /\ ~ starting /\ starting' = starting /\ told' = "no" /\ reply' = reply /\ writer' = writer
        /\ strayWriters' = strayWriters /\ late' = (late \/ (downloadQueue = <<>> /\ InProgress))
    BY <1>1 DEF AppendBatch
  <2>6. downloadQueue = <<>> => ~ InProgress
    <3>1. ~ (downloadQueue = <<>> /\ InProgress)
      BY <2>5
    <3> QED
      BY <3>1
  <2>7. downloadQueue = <<>> => timers = 0
    BY <1>d
  <2> QED
    BY <1>d, <2>3, <2>4, <2>5, <2>6, <2>7
<1>2. CASE TimerFires
  BY <1>2, <1>d DEF TimerFires
<1>3. CASE AllDownloaded
  BY <1>3, <1>d DEF AllDownloaded
<1>4. CASE SkipFile
  BY <1>4, <1>d DEF SkipFile
<1>5. CASE StartDownload
  BY <1>5, <1>d DEF StartDownload
<1>6. CASE DownloadReadyRead
  BY <1>6, <1>d DEF DownloadReadyRead, GiveWriter
<1>7. CASE DownloadFinished
  <2>1. /\ ~ starting /\ starting' = starting /\ reply = "running" /\ reply' # "running"
        /\ told' = told /\ strayWriters' = strayWriters
        /\ writer' \in {writer, "stuck", "running"}
    BY <1>7 DEF DownloadFinished, EndWithError, EndWithRedirect, EndWithSuccess, StopWriter
  <2>2. timers = 0 /\ told = "no"
    BY <1>d, <2>1
  <2>3. CASE EndWithRedirect
    <3>1. downloadQueue # <<>>
      <4>1. late' = (late \/ downloadQueue = <<>>)
        BY <2>3 DEF EndWithRedirect
      <4> QED
        BY <4>1
    <3>2. timers' = timers
      BY <1>d, <2>3, <3>1 DEF EndWithRedirect, AppendEntries
    <3> QED
      BY <1>d, <2>1, <2>2, <3>2
  <2>4. CASE EndWithError \/ EndWithSuccess
    <3>1. timers' = timers
      BY <2>4 DEF EndWithError, EndWithSuccess
    <3> QED
      BY <1>d, <2>1, <2>2, <3>1
  <2> QED
    BY <1>7, <2>3, <2>4 DEF DownloadFinished
<1>8. CASE WriterOpens \/ WriterWrites \/ WriterEnds \/ WriterCannotOpen
  <2>1. /\ UNCHANGED <<starting, downloadQueue, timers, told, reply, strayWriters>>
        /\ WriterLives /\ writer' # "stuck"
    BY <1>8 DEF WriterOpens, WriterWrites, WriterEnds, WriterCannotOpen
  <2> QED
    BY <1>d, <2>1
<1>9. CASE WriteFinished
  BY <1>9, <1>d DEF WriteFinished, CheckFile
<1>10. CASE StrayWriteFinished
  BY <1>10, <1>d DEF StrayWriteFinished
<1>11. CASE StrayDeleted
  BY <1>11, <1>d DEF StrayDeleted
<1>12. CASE UNCHANGED vars
  BY <1>12, <1>d DEF vars
<1> QED
  BY <1>a, <1>1, <1>2, <1>3, <1>4, <1>5, <1>6, <1>7, <1>8, <1>9, <1>10, <1>11, <1>12
     DEF Next, Progress, StraySteps

LEMMA QueueInvariant == Spec => [](Typed /\ FileKnown /\ QueueInv)
<1> QED
  BY InitTyped, StepTyped, InitQueue, StepQueue, PTL DEF Spec

\* The members keep their types, and two timers are armed beside each other only
\* after an append() that took the empty queue for an idle manager, or signals
\* of a stray reply.
THEOREM TypeCorrect == Spec => []TypeOK
<1>1. Typed /\ FileKnown /\ QueueInv => TypeOK
  <2> SUFFICES ASSUME Typed, FileKnown, QueueInv PROVE TypeOK
    OBVIOUS
  <2>1. downloadQueue \in Seq([file : Files, size : {0, FullSize}])
    <3>1. Entries \subseteq [file : Files, size : {0, FullSize}]
      BY DEF Entries
    <3>2. downloadQueue \in Seq(Entries)
      BY DEF Typed
    <3>3. /\ Len(downloadQueue) \in Nat /\ downloadQueue = [i \in 1 .. Len(downloadQueue) |-> downloadQueue[i]]
          /\ \A i \in 1 .. Len(downloadQueue) : downloadQueue[i] \in [file : Files, size : {0, FullSize}]
      BY <3>1, <3>2
    <3> DEFINE T == [file : Files, size : {0, FullSize}]
    <3>4. downloadQueue \in [1 .. Len(downloadQueue) -> T]
      BY <3>3
    <3> HIDE DEF T
    <3>5. downloadQueue \in Seq(T)
      BY <3>3, <3>4
    <3> QED
      BY <3>5 DEF T
  <2>2. timers > 1 => late \/ strayed
    BY DEF Typed, QueueInv, InOrder
  <2> QED
    BY <2>1, <2>2 DEF Typed, FileKnown, TypeOK
<1> QED
  BY <1>1, QueueInvariant, PTL

\* The members pass to the next file only when the writer and the reply of the
\* last one are over, whatever fails, redirects or sleeps and whenever the player
\* retries, but for the one cause named.
THEOREM FilesOneByOne == Spec => []OneAtATime
<1>1. Typed /\ QueueInv => OneAtATime
  BY DEF Typed, QueueInv, InOrder, InProgress, OneAtATime
<1> QED
  BY <1>1, QueueInvariant, PTL

\* So is one finished() per batch.
THEOREM EndsOnce == Spec => []OneEnd
<1>1. Typed /\ QueueInv => OneEnd
  BY DEF Typed, QueueInv, InOrder, OneEnd
<1> QED
  BY <1>1, QueueInvariant, PTL

(***************************************************************************)
(* A release that is whole.  As long as no two files were mixed up, the    *)
(* members are those of one file; a file of the batch is in the queue, in  *)
(* work or on the disk, unless an error says that it failed.               *)
(***************************************************************************)
Good(f)   == disk[f] = FullSize \/ (f \in Sized /\ disk[f] > FullSize)
Queued(f) == \E i \in DOMAIN downloadQueue : downloadQueue[i].file = f
InWork(f) == WriterLives /\ f = m_file
NoError   == statusError = 0 /\ ~ forgiven
Untouched == disk[m_file] < FullSize /\ (outputTargetedSize = 0 => disk[m_file] = 0)

OneFile ==
  /\ strayWriters = 0
  /\ starting => ~ InProgress
  /\ reply = "running" => WriterLives /\ ~ stopped
  /\ WriterLives => reply # "none" /\ (reply # "running" => stopped)
  /\ told # "no" => downloadQueue = <<>> /\ ~ InProgress

\* What the file holds, what the writer has and what is to come make up its size,
\* and more only if the server sent again what was there of a package.
Delivered ==
  WriterLives =>
    /\ redirected => m_buffer = 0 /\ toCome = 0 /\ Untouched
    /\ ~ redirected => disk[m_file] + m_buffer + toCome >= FullSize
    /\ ~ redirected /\ outputTargetedSize = 0 => disk[m_file] + m_buffer + toCome = FullSize
    /\ writer = "opening" => Untouched
    /\ writer = "finished" => (stopped /\ m_buffer = 0) \/ Untouched

Ended ==
  WriterLives =>
    /\ reply = "ok" /\ ~ redirected => toCome = 0
    /\ reply = "ok" /\ redirected => Queued(m_file) /\ disk[m_file] = 0
    /\ reply = "failed" /\ NoError /\ m_file \in wanted => Queued(m_file)

Accounted ==
  told = "no" /\ NoError => \A f \in wanted : Queued(f) \/ InWork(f) \/ Good(f)

WholeAtEnd ==
  /\ told = "ok" /\ ~ forgiven => \A f \in wanted : Good(f)
  /\ told = "error" => statusError # 0

Whole    == OneFile /\ Delivered /\ Ended /\ Accounted /\ WholeAtEnd
WholeInv == overlap \/ strayed \/ Whole

\* What is in a queue is its head or in its tail.
LEMMA HeadOrTail ==
  ASSUME NEW s \in Seq(Entries), s # <<>>, NEW i \in DOMAIN s
  PROVE  s[i] = Head(s) \/ \E j \in DOMAIN Tail(s) : Tail(s)[j] = s[i]
<1>1. CASE i = 1
  BY <1>1
<1>2. CASE i # 1
  <2>1. i - 1 \in DOMAIN Tail(s) /\ Tail(s)[i - 1] = s[i]
    BY <1>2
  <2> QED
    BY <2>1
<1> QED
  BY <1>1, <1>2

\* What was in a queue stays in it when others are appended, which are in it then.
LEMMA QueuedGrows ==
  ASSUME NEW es \in Seq(Entries), downloadQueue \in Seq(Entries), downloadQueue' = downloadQueue \o es
  PROVE  /\ \A f : Queued(f) => Queued(f)'
         /\ \A i \in DOMAIN es : Queued(es[i].file)'
<1>1. \A i \in DOMAIN downloadQueue : i \in DOMAIN downloadQueue' /\ downloadQueue'[i] = downloadQueue[i]
  OBVIOUS
<1>2. \A i \in DOMAIN es : /\ Len(downloadQueue) + i \in DOMAIN downloadQueue'
                          /\ downloadQueue'[Len(downloadQueue) + i] = es[i]
  OBVIOUS
<1> QED
  BY <1>1, <1>2 DEF Queued

LEMMA InitWhole == Init => WholeInv
  BY DEF Init, WholeInv, Whole, OneFile, Delivered, Ended, Accounted, WholeAtEnd, InProgress, WriterLives

LEMMA AppendKeepsWhole ==
  ASSUME Typed, FileKnown, Whole, AppendBatch
  PROVE  Whole'
<1> USE DEF fileVars, writeVars, strayVars, batchVars, histVars
<1>1. PICK batch \in Batches :
        /\ AppendEntries([i \in DOMAIN batch |-> Entry(batch[i])])
        /\ wanted' = ToSet(batch)
  <2>1. \E batch \in Batches :
          /\ AppendEntries([i \in DOMAIN batch |-> Entry(batch[i])])
          /\ wanted' = ToSet(batch)
    BY DEF AppendBatch
  <2> QED
    BY <2>1
<1> DEFINE es == [i \in DOMAIN batch |-> Entry(batch[i])]
<1>2. /\ es \in Seq(Entries) /\ DOMAIN es = DOMAIN batch
      /\ \A f \in ToSet(batch) : \E i \in DOMAIN es : es[i].file = f
  BY BatchEntries
<1>3. downloadQueue \in Seq(Entries) /\ downloadQueue' = downloadQueue \o es
  BY <1>1 DEF AppendEntries, Typed
<1> HIDE DEF es
<1>4. /\ \A f : Queued(f) => Queued(f)'
      /\ \A i \in DOMAIN es : Queued(es[i].file)'
  BY <1>2, <1>3, QueuedGrows
<1>5. \A f \in wanted' : Queued(f)'
  <2> SUFFICES ASSUME NEW f \in wanted' PROVE Queued(f)'
    OBVIOUS
  <2>1. PICK i \in DOMAIN es : es[i].file = f
    BY <1>1, <1>2
  <2> QED
    BY <1>4, <2>1
<1>6. /\ told' = "no"
      /\ UNCHANGED <<starting, m_file, outputTargetedSize, redirected, reply, toCome, writer, stopped,
                     m_buffer, disk, strayWriters>>
  BY DEF AppendBatch
<1>7. OneFile' /\ Delivered'
  BY <1>6 DEF Whole, OneFile, Delivered, InProgress, WriterLives, Untouched
<1>8. Ended'
  BY <1>4, <1>5, <1>6 DEF Whole, Ended, WriterLives
<1>9. Accounted' /\ WholeAtEnd'
  BY <1>5, <1>6 DEF Accounted, WholeAtEnd
<1> QED
  BY <1>7, <1>8, <1>9 DEF Whole

LEMMA QueueMovesKeepWhole ==
  ASSUME Typed, FileKnown, Whole, ~ overlap', ~ strayed', TimerFires \/ AllDownloaded
  PROVE  Whole'
<1> USE DEF fileVars, writeVars, strayVars, batchVars, histVars
<1>1. /\ UNCHANGED <<downloadQueue, statusError, m_file, outputTargetedSize, redirected, reply, toCome,
                     writer, stopped, m_buffer, disk, strayWriters, wanted, forgiven>>
      /\ \/ TimerFires /\ starting' = TRUE /\ told' = told
         \/ AllDownloaded /\ starting' = FALSE /\ starting /\ downloadQueue = <<>>
            /\ told' = IF statusError = 0 THEN "ok" ELSE "error"
  BY DEF TimerFires, AllDownloaded
<1>2. starting' => ~ InProgress
  <2>1. TimerFires => overlap' = (overlap \/ InProgress)
    BY DEF TimerFires
  <2> QED
    BY <1>1, <2>1
<1>3. AllDownloaded => ~ WriterLives /\ reply # "running" /\ \A f : ~ Queued(f)
  BY <1>1 DEF Whole, OneFile, InProgress, Queued, AllDownloaded
<1>4. OneFile'
  BY <1>1, <1>2, <1>3 DEF Whole, OneFile, InProgress, WriterLives
<1>5. Delivered' /\ Ended' /\ Accounted'
  BY <1>1 DEF Whole, Delivered, Ended, Accounted, WriterLives, Untouched, Queued, NoError, InWork, Good,
     AllDownloaded
<1>6. WholeAtEnd'
  <2>1. CASE TimerFires
    <3>1. UNCHANGED <<told, forgiven, wanted, disk, statusError>>
      BY <2>1 DEF TimerFires
    <3> QED
      BY <3>1 DEF Whole, WholeAtEnd, Good
  <2>2. CASE AllDownloaded
    <3> SUFFICES ASSUME told' = "ok", ~ forgiven', NEW f \in wanted' PROVE Good(f)'
      BY <1>1, <2>2 DEF WholeAtEnd, AllDownloaded
    <3>1. NoError /\ f \in wanted /\ ~ Queued(f) /\ ~ InWork(f) /\ disk' = disk
      BY <1>1, <1>3, <2>2 DEF NoError, InWork, AllDownloaded
    <3>2. CASE told = "no"
      BY <3>1, <3>2 DEF Whole, Accounted, Good
    <3>3. CASE told = "ok"
      BY <3>1, <3>3 DEF Whole, WholeAtEnd, Good, NoError
    <3>4. CASE told = "error"
      BY <3>1, <3>4 DEF Whole, WholeAtEnd, NoError
    <3> QED
      BY <3>2, <3>3, <3>4 DEF Typed
  <2> QED
    BY <2>1, <2>2
<1> QED
  BY <1>4, <1>5, <1>6 DEF Whole

\* The queue loses its head, whose file is taken into work or is there.
LEMMA HeadTaken ==
  ASSUME Typed, downloadQueue # <<>>, downloadQueue' = Tail(downloadQueue)
  PROVE  /\ Head(downloadQueue) \in Entries
         /\ \A f : Queued(f) => f = Head(downloadQueue).file \/ Queued(f)'
<1>1. downloadQueue \in Seq(Entries)
  BY DEF Typed
<1>2. Head(downloadQueue) \in Entries
  BY <1>1
<1>3. ASSUME NEW f, Queued(f) PROVE f = Head(downloadQueue).file \/ Queued(f)'
  <2>1. PICK i \in DOMAIN downloadQueue : downloadQueue[i].file = f
    BY <1>3 DEF Queued
  <2>2. downloadQueue[i] = Head(downloadQueue)
        \/ \E j \in DOMAIN Tail(downloadQueue) : Tail(downloadQueue)[j] = downloadQueue[i]
    BY <1>1, HeadOrTail
  <2> QED
    BY <2>1, <2>2 DEF Queued
<1> QED
  BY <1>2, <1>3

LEMMA SkipKeepsWhole ==
  ASSUME Typed, FileKnown, Whole, SkipFile
  PROVE  Whole'
<1> USE DEF fileVars, writeVars, strayVars, batchVars, histVars
<1> DEFINE e == Head(downloadQueue)
<1>1. /\ starting /\ downloadQueue # <<>> /\ downloadQueue' = Tail(downloadQueue) /\ AlreadyThere(e)
      /\ UNCHANGED <<starting, statusError, redirected, reply, toCome, writer, stopped, m_buffer, disk,
                     strayWriters, told, wanted, forgiven>>
  BY DEF SkipFile
<1>2. e \in Entries /\ \A f : Queued(f) => f = e.file \/ Queued(f)'
  BY <1>1, HeadTaken
<1> HIDE DEF e
<1>3. Good(e.file)
  BY <1>1, <1>2, SizeAssumption DEF AlreadyThere, Entries, Typed, Good
<1>4. told = "no" /\ ~ WriterLives /\ reply # "running"
  BY <1>1 DEF Whole, OneFile, Typed, InProgress
<1>5. OneFile' /\ Delivered' /\ Ended' /\ WholeAtEnd'
  BY <1>1, <1>4 DEF Whole, OneFile, Delivered, Ended, WholeAtEnd, InProgress, WriterLives
<1>6. Accounted'
  <2> SUFFICES ASSUME NoError, NEW f \in wanted PROVE Queued(f)' \/ Good(f)
    BY <1>1 DEF Accounted, NoError, Good
  <2>1. Queued(f) \/ Good(f)
    BY <1>4 DEF Whole, Accounted, InWork
  <2> QED
    BY <1>2, <1>3, <2>1
<1> QED
  BY <1>5, <1>6 DEF Whole

LEMMA StartKeepsWhole ==
  ASSUME Typed, FileKnown, Whole, StartDownload
  PROVE  Whole'
<1> USE DEF fileVars, writeVars, strayVars, batchVars, histVars
<1> DEFINE e == Head(downloadQueue)
<1>1. /\ starting /\ downloadQueue # <<>> /\ downloadQueue' = Tail(downloadQueue) /\ ~ AlreadyThere(e)
      /\ m_file' = e.file /\ outputTargetedSize' = e.size /\ disk' = Erased(e)
      /\ reply' = "running" /\ writer' = "opening" /\ stopped' = FALSE /\ starting' = FALSE
      /\ UNCHANGED <<statusError, told, wanted, forgiven>>
  BY DEF StartDownload
<1>2. toCome' = 0 \/ (~ redirected' /\ toCome' \in {FullSize, FullSize - Erased(e)[e.file]})
  BY DEF StartDownload
<1>3. redirected' => toCome' = 0
  BY DEF StartDownload
<1>4. ~ redirected' => toCome' \in {FullSize, FullSize - Erased(e)[e.file]}
  BY DEF StartDownload
<1>5. told = "no" /\ ~ WriterLives /\ reply # "running" /\ strayWriters = 0
  BY <1>1 DEF Whole, OneFile, Typed, InProgress
<1>6. m_buffer' = 0 /\ strayWriters' = 0
  BY <1>5 DEF StartDownload
<1>7. e \in Entries /\ \A f : Queued(f) => f = e.file \/ Queued(f)'
  BY <1>1, HeadTaken
<1> HIDE DEF e
<1>8. /\ e.file \in Files /\ \A f \in Files : f # e.file => disk'[f] = disk[f]
      /\ e.size = 0 => disk'[e.file] = 0
      /\ disk'[e.file] < FullSize /\ disk'[e.file] \in Nat
  BY <1>1, <1>7, SizeLeft
<1>9. OneFile'
  BY <1>1, <1>5, <1>6 DEF OneFile, InProgress, WriterLives
<1>10. Delivered'
  <2>1. Untouched'
    BY <1>1, <1>8 DEF Untouched
  <2>2. ~ redirected' => toCome' \in {FullSize, FullSize - disk'[m_file']}
    BY <1>1, <1>4
  <2> QED
    BY <1>1, <1>3, <1>6, <1>8, <2>1, <2>2, SizeAssumption DEF Delivered, Untouched
<1>11. Ended' /\ WholeAtEnd'
  BY <1>1, <1>5 DEF Ended, WholeAtEnd
<1>12. Accounted'
  <2> SUFFICES ASSUME NoError, NEW f \in wanted, f # e.file PROVE Queued(f)' \/ Good(f)'
    BY <1>1 DEF Accounted, NoError, InWork, WriterLives
  <2>1. Queued(f) \/ Good(f)
    BY <1>5 DEF Whole, Accounted, InWork
  <2> QED
    BY <1>7, <1>8, <2>1 DEF Good, Typed
<1> QED
  BY <1>9, <1>10, <1>11, <1>12 DEF Whole

LEMMA ReadyReadKeepsWhole ==
  ASSUME Typed, FileKnown, Whole, DownloadReadyRead
  PROVE  Whole'
<1> USE DEF fileVars, writeVars, strayVars, batchVars, histVars
<1>1. /\ reply = "running" /\ toCome > 0 /\ toCome' = toCome - 1 /\ m_buffer' = m_buffer + 1
      /\ writer' = IF writer = "stuck" THEN "running" ELSE writer
      /\ UNCHANGED <<starting, downloadQueue, statusError, m_file, outputTargetedSize, redirected, reply,
                     stopped, disk, strayWriters, told, wanted, forgiven>>
  BY DEF DownloadReadyRead, GiveWriter
<1>2. WriterLives /\ ~ stopped /\ ~ redirected /\ writer' = writer /\ m_file \in Files
  BY <1>1 DEF Whole, OneFile, Delivered, WriterLives, FileKnown
<1>3. OneFile' /\ Ended' /\ Accounted' /\ WholeAtEnd'
  BY <1>1, <1>2 DEF Whole, OneFile, Ended, Accounted, WholeAtEnd, InProgress, WriterLives, Queued, InWork,
     NoError, Good
<1>4. disk[m_file] \in Nat /\ m_buffer \in Nat /\ toCome \in Nat
  BY <1>2 DEF Typed
<1>5. Delivered'
  BY <1>1, <1>2, <1>4 DEF Whole, Delivered, WriterLives, Untouched
<1> QED
  BY <1>3, <1>5 DEF Whole

\* The end of a reply: without an error its file is whole once it is written, or
\* appended again.
LEMMA EndKeepsWhole ==
  ASSUME Typed, FileKnown, Whole, DownloadFinished
  PROVE  Whole'
<1> USE DEF fileVars, writeVars, strayVars, batchVars, histVars
<1>1. /\ ~ starting /\ reply = "running" /\ reply' \in {"ok", "failed"} /\ StopWriter
      /\ UNCHANGED <<starting, m_file, outputTargetedSize, redirected, toCome, m_buffer, strayWriters, told,
                     wanted>>
  BY DEF DownloadFinished, EndWithError, EndWithRedirect, EndWithSuccess
<1>2. WriterLives /\ m_file \in Files /\ told = "no"
  BY <1>1 DEF Whole, OneFile, InProgress, FileKnown, Typed
<1>3. /\ stopped' = TRUE /\ writer \in {"opening", "running", "finished"}
      /\ writer' = writer \/ (writer' = "stuck" /\ m_buffer = 0)
  BY <1>1, <1>2 DEF StopWriter, WriterLives
<1>4. disk[m_file] \in Nat /\ m_buffer \in Nat /\ toCome \in Nat
  BY <1>2 DEF Typed
<1>5. OneFile'
  BY <1>1, <1>2, <1>3 DEF Whole, OneFile, InProgress, WriterLives
<1>6. WholeAtEnd'
  BY <1>1, <1>2 DEF WholeAtEnd
<1>7. CASE EndWithError /\ reply' = "failed"
  <2>1. statusError' = 1 /\ disk' = disk
    BY <1>7 DEF EndWithError
  <2>2. Delivered'
    BY <1>1, <1>2, <1>3, <2>1 DEF Whole, Delivered, WriterLives, Untouched
  <2>3. Ended' /\ Accounted'
    BY <1>7, <2>1 DEF Ended, Accounted, NoError
  <2> QED
    BY <1>5, <1>6, <2>2, <2>3 DEF Whole
<1>8. CASE redirected /\ EndWithRedirect /\ reply' = "ok"
  <2>0. PICK c \in Files : c = m_file
    BY <1>2
  <2> DEFINE target == <<[file |-> c, size |-> 0]>>
  <2>1. /\ downloadQueue' = downloadQueue \o target /\ disk' = [disk EXCEPT ![m_file] = 0]
        /\ (~ forgiven' => ~ forgiven /\ statusError = 0)
    BY <1>8, <2>0 DEF EndWithRedirect, AppendEntries
  <2>2. target \in Seq(Entries) /\ 1 \in DOMAIN target /\ target[1].file = c
    BY TargetIsOne
  <2> HIDE DEF target
  <2>3. (\A f : Queued(f) => Queued(f)') /\ Queued(m_file)'
    <3>1. downloadQueue \in Seq(Entries) /\ downloadQueue' = downloadQueue \o target
      BY <2>1 DEF Typed
    <3>2. (\A f : Queued(f) => Queued(f)') /\ \A i \in DOMAIN target : Queued(target[i].file)'
      BY <2>2, <3>1, QueuedGrows
    <3>3. Queued(target[1].file)'
      BY <2>2, <3>2
    <3> QED
      BY <1>1, <2>0, <2>2, <3>2, <3>3
  <2>4. disk'[m_file] = 0 /\ \A f \in Files : f # m_file => disk'[f] = disk[f]
    BY <1>2, <2>1 DEF Typed
  <2>5. Delivered' /\ Ended'
    BY <1>1, <1>2, <1>3, <1>8, <2>3, <2>4, SizeAssumption
       DEF Whole, Delivered, Ended, WriterLives, Untouched
  <2>6. Accounted'
    <3> SUFFICES ASSUME NoError', NEW f \in wanted, f # m_file PROVE Queued(f)' \/ Good(f)'
      BY <1>1, <2>3 DEF Accounted
    <3>1. Queued(f) \/ Good(f)
      BY <1>2, <2>1 DEF Whole, Accounted, NoError, InWork
    <3> QED
      BY <2>3, <2>4, <3>1 DEF Good, Typed
  <2> QED
    BY <1>5, <1>6, <2>5, <2>6 DEF Whole
<1>9. CASE ~ redirected /\ toCome = 0 /\ EndWithSuccess /\ reply' = "ok"
  <2>1. UNCHANGED <<downloadQueue, statusError, disk, forgiven>>
    BY <1>9 DEF EndWithSuccess
  <2>2. Delivered' /\ Ended'
    BY <1>1, <1>2, <1>3, <1>9, <2>1 DEF Whole, Delivered, Ended, WriterLives, Untouched
  <2>3. Accounted'
    <3> SUFFICES ASSUME NoError, NEW f \in wanted PROVE Queued(f) \/ InWork(f)' \/ Good(f)
      BY <1>1, <2>1 DEF Accounted, NoError, Queued, Good
    <3>1. CASE f # m_file
      BY <1>2, <3>1 DEF Whole, Accounted, InWork
    <3>2. CASE f = m_file /\ writer' = writer
      BY <1>1, <1>2, <3>2 DEF InWork, WriterLives
    <3>3. CASE f = m_file /\ m_buffer = 0
      BY <1>2, <1>4, <1>9, <3>3, SizeAssumption DEF Whole, Delivered, Good, Typed
    <3> QED
      BY <1>3, <3>1, <3>2, <3>3
  <2> QED
    BY <1>5, <1>6, <2>2, <2>3 DEF Whole
<1> QED
  BY <1>7, <1>8, <1>9 DEF DownloadFinished

LEMMA WriterKeepsWhole ==
  ASSUME Typed, FileKnown, Whole, ~ overlap, WriterOpens \/ WriterCannotOpen \/ WriterEnds \/ WriterWrites
  PROVE  Whole'
<1> USE DEF fileVars, writeVars, strayVars, batchVars, histVars
<1>1. /\ WriterLives /\ WriterLives' /\ m_file \in Files
      /\ UNCHANGED <<starting, downloadQueue, statusError, m_file, outputTargetedSize, redirected, reply,
                     toCome, stopped, strayWriters, told, wanted, forgiven>>
  BY DEF WriterOpens, WriterCannotOpen, WriterEnds, WriterWrites, WriterLives, FileKnown
<1>2. disk[m_file] \in Nat /\ m_buffer \in Nat /\ toCome \in Nat
  BY <1>1 DEF Typed
<1>3. OneFile' /\ WholeAtEnd'
  BY <1>1 DEF Whole, OneFile, WholeAtEnd, InProgress, Typed
<1>4. CASE WriterOpens \/ WriterCannotOpen \/ WriterEnds
  <2>1. /\ UNCHANGED <<disk, m_buffer>>
        /\ \/ writer = "opening" /\ writer' \in {"running", "finished"}
           \/ stopped /\ m_buffer = 0 /\ writer' = "finished"
    BY <1>4 DEF WriterOpens, WriterCannotOpen, WriterEnds
  <2>2. Delivered'
    BY <1>1, <2>1 DEF Whole, Delivered, WriterLives, Untouched
  <2>3. Ended' /\ Accounted'
    BY <1>1, <2>1 DEF Whole, Ended, Accounted, Queued, InWork, NoError, Good
  <2> QED
    BY <1>3, <2>2, <2>3 DEF Whole
<1>5. CASE WriterWrites
  <2>1. /\ writer = "running" /\ writer' = writer /\ m_buffer > 0 /\ m_buffer' = 0
        /\ disk' = [disk EXCEPT ![m_file] = disk[m_file] + m_buffer]
    BY <1>5 DEF WriterWrites
  <2>2. disk'[m_file] = disk[m_file] + m_buffer /\ \A f \in Files : f # m_file => disk'[f] = disk[f]
    BY <1>1, <2>1 DEF Typed
  <2>3. ~ redirected
    BY <1>1, <2>1 DEF Whole, Delivered
  <2>4. Delivered'
    BY <1>1, <1>2, <2>1, <2>2, <2>3 DEF Whole, Delivered, WriterLives
  <2>5. Ended'
    BY <1>1, <2>3 DEF Whole, Ended, Queued, NoError
  <2>6. Accounted'
    <3> SUFFICES ASSUME told = "no", NoError, NEW f \in wanted, f # m_file PROVE Queued(f) \/ Good(f)'
      BY <1>1 DEF Accounted, NoError, InWork, Queued
    <3>1. Queued(f) \/ Good(f)
      BY DEF Whole, Accounted, InWork
    <3> QED
      BY <2>2, <3>1 DEF Good, Typed
  <2> QED
    BY <1>3, <2>4, <2>5, <2>6 DEF Whole
<1> QED
  BY <1>4, <1>5

\* A file that is neither whole nor appended again leaves an error.
LEMMA WriteFinishedKeepsWhole ==
  ASSUME Typed, FileKnown, Whole, WriteFinished
  PROVE  Whole'
<1> USE DEF fileVars, writeVars, strayVars, batchVars, histVars
<1>1. /\ ~ starting /\ writer = "finished" /\ writer' = "none" /\ reply' = "none" /\ starting' = TRUE
      /\ disk' = IF WrongSize THEN [disk EXCEPT ![m_file] = 0] ELSE disk
      /\ UNCHANGED <<downloadQueue, m_file, outputTargetedSize, strayWriters, told, wanted>>
  BY DEF WriteFinished, CheckFile
<1>2. PICK redirect \in IsHttpRedirect :
        /\ statusError' = IF WrongSize /\ ~ redirect THEN 4 ELSE statusError
        /\ forgiven' = (forgiven \/ (WrongSize /\ redirect /\ reply = "running"))
  <2>1. \E redirect \in IsHttpRedirect :
          /\ statusError' = IF WrongSize /\ ~ redirect THEN 4 ELSE statusError
          /\ forgiven' = (forgiven \/ (WrongSize /\ redirect /\ reply = "running"))
    BY DEF WriteFinished, CheckFile
  <2> QED
    BY <2>1
<1>3. WriterLives /\ m_file \in Files /\ told = "no" /\ reply \in {"running", "ok", "failed"}
  BY <1>1 DEF Whole, OneFile, InProgress, WriterLives, FileKnown, Typed
<1>4. disk[m_file] \in Nat /\ m_buffer \in Nat /\ toCome \in Nat
  BY <1>3 DEF Typed
<1>5. OneFile' /\ Delivered' /\ Ended' /\ WholeAtEnd'
  BY <1>1, <1>3 DEF Whole, OneFile, Delivered, Ended, WholeAtEnd, InProgress, WriterLives
<1>6. ASSUME NoError' PROVE NoError /\ (WrongSize => redirect /\ reply # "running")
  <2>1. statusError' = 0 /\ ~ forgiven'
    BY <1>6 DEF NoError
  <2>2. ~ forgiven /\ ~ (WrongSize /\ redirect /\ reply = "running")
    BY <1>2, <2>1
  <2>3. statusError = 0 /\ ~ (WrongSize /\ ~ redirect)
    BY <1>2, <2>1
  <2> QED
    BY <2>2, <2>3 DEF NoError
<1>7. redirect => redirected
  BY DEF IsHttpRedirect
<1>8. ASSUME WrongSize, redirect, reply # "running", NoError, m_file \in wanted PROVE Queued(m_file)
  BY <1>3, <1>7, <1>8 DEF Whole, Ended
<1>9. ASSUME ~ WrongSize, NoError, m_file \in wanted PROVE Queued(m_file) \/ Good(m_file)
  <2>1. disk[m_file] # 0 /\ (outputTargetedSize # 0 => disk[m_file] = outputTargetedSize)
    BY <1>9 DEF WrongSize
  <2>2. CASE outputTargetedSize # 0
    BY <2>1, <2>2 DEF Good, Typed
  <2>3. CASE outputTargetedSize = 0
    <3>1. ~ Untouched
      BY <2>1, <2>3 DEF Untouched
    <3>2. ~ redirected /\ stopped /\ m_buffer = 0 /\ disk[m_file] + m_buffer + toCome = FullSize
      BY <1>1, <1>3, <2>3, <3>1 DEF Whole, Delivered
    <3>3. reply # "running"
      BY <3>2 DEF Whole, OneFile
    <3>4. CASE reply = "ok"
      <4>1. toCome = 0
        BY <1>3, <3>2, <3>4 DEF Whole, Ended
      <4> QED
        BY <1>4, <3>2, <4>1, SizeAssumption DEF Good
    <3>5. CASE reply = "failed"
      BY <1>3, <1>9, <3>5 DEF Whole, Ended
    <3> QED
      BY <1>3, <3>3, <3>4, <3>5
  <2> QED
    BY <2>2, <2>3
<1>10. Accounted'
  <2> SUFFICES ASSUME NoError', NEW f \in wanted PROVE Queued(f) \/ Good(f)'
    BY <1>1 DEF Accounted, Queued
  <2>1. NoError /\ (WrongSize => redirect /\ reply # "running")
    BY <1>6
  <2>2. CASE f = m_file
    <3>1. CASE WrongSize
      BY <1>8, <2>1, <2>2, <3>1
    <3>2. CASE ~ WrongSize
      BY <1>1, <1>9, <2>1, <2>2, <3>2 DEF Good
    <3> QED
      BY <3>1, <3>2
  <2>3. CASE f # m_file
    <3>1. Queued(f) \/ Good(f)
      BY <1>3, <2>1, <2>3 DEF Whole, Accounted, InWork
    <3>2. disk'[f] = disk[f]
      BY <1>1, <1>3, <2>3 DEF Typed
    <3> QED
      BY <3>1, <3>2 DEF Good
  <2> QED
    BY <2>2, <2>3
<1> QED
  BY <1>5, <1>10 DEF Whole

LEMMA StepWhole == Typed /\ FileKnown /\ WholeInv /\ [Next]_vars => WholeInv'
<1> SUFFICES ASSUME Typed, FileKnown, WholeInv, [Next]_vars, ~ overlap', ~ strayed' PROVE Whole'
  BY DEF WholeInv
<1> USE DEF fileVars, writeVars, strayVars, batchVars, histVars
<1>1. ~ StrayReadyRead /\ ~ StrayFinished
  BY DEF StrayReadyRead, StrayFinished
<1>2. ~ overlap /\ ~ strayed
  <2>1. CASE TimerFires
    <3>1. strayed' = strayed /\ (overlap => overlap')
      BY <2>1 DEF TimerFires
    <3> QED
      BY <3>1
  <2>2. CASE AppendBatch \/ AllDownloaded \/ SkipFile \/ StartDownload \/ DownloadReadyRead \/ DownloadFinished
    <3>1. strayed' = strayed /\ overlap' = overlap
      BY <2>2 DEF AppendBatch, AllDownloaded, SkipFile, StartDownload, DownloadReadyRead, DownloadFinished
    <3> QED
      BY <3>1
  <2>3. CASE WriterOpens \/ WriterWrites \/ WriterEnds \/ WriterCannotOpen \/ StrayDeleted
    <3>1. strayed' = strayed /\ overlap' = overlap
      BY <2>3 DEF WriterOpens, WriterWrites, WriterEnds, WriterCannotOpen, StrayDeleted
    <3> QED
      BY <3>1
  <2>4. CASE WriteFinished \/ StrayWriteFinished \/ UNCHANGED vars
    <3>1. strayed' = strayed /\ overlap' = overlap
      BY <2>4 DEF WriteFinished, StrayWriteFinished, CheckFile, vars
    <3> QED
      BY <3>1
  <2> QED
    BY <1>1, <2>1, <2>2, <2>3, <2>4 DEF Next, Progress, StraySteps
<1>3. Whole
  BY <1>2 DEF WholeInv
<1>4. ~ StrayWriteFinished
  BY <1>3 DEF Whole, OneFile, StrayWriteFinished
<1>5. ASSUME StrayDeleted \/ UNCHANGED vars PROVE Whole'
  <2>1. UNCHANGED <<starting, downloadQueue, statusError, fileVars, reply, toCome, writeVars, strayWriters,
                    told, wanted, forgiven>>
    BY <1>5 DEF StrayDeleted, vars
  <2>2. OneFile' /\ Delivered'
    BY <1>3, <2>1 DEF Whole, OneFile, Delivered, InProgress, WriterLives, Untouched
  <2>3. Ended' /\ Accounted' /\ WholeAtEnd'
    BY <1>3, <2>1 DEF Whole, Ended, Accounted, WholeAtEnd, WriterLives, Queued, InWork, NoError, Good
  <2> QED
    BY <2>2, <2>3 DEF Whole
<1> QED
  BY <1>1, <1>2, <1>3, <1>4, <1>5, AppendKeepsWhole, QueueMovesKeepWhole, SkipKeepsWhole, StartKeepsWhole,
     ReadyReadKeepsWhole, EndKeepsWhole, WriterKeepsWhole, WriteFinishedKeepsWhole
     DEF Next, Progress, StraySteps

\* When finished() comes without an error, all files of the batch are there, none
\* cut off or left over, whatever redirections, failures and retries came before:
\* unless two files were mixed up, or a redirection made an error forgotten.
THEOREM ReleaseIsWhole == Spec => []CompleteWhenOk
<1>1. Typed /\ FileKnown /\ WholeInv /\ [Next]_vars => WholeInv'
  BY StepWhole
<1>2. WholeInv => CompleteWhenOk
  BY DEF WholeInv, Whole, WholeAtEnd, Good, CompleteWhenOk
<1> QED
  BY <1>1, <1>2, InitTyped, StepTyped, InitWhole, PTL DEF Spec
=============================================================================
