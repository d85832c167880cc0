---------------------------- MODULE DownloadManager ----------------------------
(***************************************************************************)
(* DownloadManager: a queue of files, downloaded one after the other; each *)
(* goes through a FileIOWriter, whose end starts the next one.  Updates    *)
(* hands over the files of a component and installs it at finished().      *)
(*                                                                         *)
(* All slots run on the GUI thread, one at a time; `starting` is set while *)
(* one of them is in startNextDownload.  FileIOWriter is here what         *)
(* FileIOWriter.tla says of it: it writes what it is given, and ends after *)
(* stop(), unless it slept through it.  A size is a number of units.  The  *)
(* two counts that only the message shows are left out.                    *)
(*                                                                         *)
(* currentDownload, m_fileWriter and m_file are those of the last file     *)
(* that was started.  A reply or a writer that lost its place to the next  *)
(* file while it was alive is a stray one: its signals reach the slots,    *)
(* which act on the members of the new file.                               *)
(***************************************************************************)
EXTENDS Naturals, Sequences, FiniteSets, SequencesExt

CONSTANTS
  Files,        \* the files of a component's release
  NoFile,       \* no file yet
  FullSize,     \* how large each one is on the server
  Sized,        \* those appended with their size
  Batches,      \* the lists of files a client appends
  MaxBatches,   \* bound on the batches
  MaxHops       \* bound on the redirections, of which the code knows none

ASSUME SizeAssumption   == FullSize \in Nat \ {0}
ASSUME FilesAssumption  == NoFile \notin Files /\ Sized \subseteq Files
ASSUME BatchAssumption  == Batches \subseteq Seq(Files) \ {<<>>}
ASSUME BoundAssumption  == MaxBatches \in Nat /\ MaxHops \in Nat

VARIABLES
  starting,            \* startNextDownload was called, and has not returned
  downloadQueue,       \* with filenameQueue and filesizeQueue
  timers,              \* singleShot(1000) calls of startNextDownload to come
  statusError

VARIABLES
  m_file,              \* the file of the current download
  outputTargetedSize,
  reply,               \* currentDownload: "none", "running", "ok" or "failed"
  redirected,          \* does its status code say that it is a redirect
  toCome,              \* units it will still deliver
  writer,              \* m_fileWriter: "none", "opening", "running", "stuck", "finished"
  stopped,             \* its stop() was called
  m_buffer,            \* units it has not written yet
  disk                 \* the size of each file, 0 if there is none

VARIABLES
  strays,              \* stray replies
  strayUnits,          \* units they will still deliver
  strayWriters         \* stray writers that may yet emit finished()

VARIABLES              \* what Updates learns, and history
  told,                \* finished(): "no", or "ok" or "error" by statusError
  wanted,              \* the files of the batch
  late,                \* append() took the empty queue for an idle manager
  overlap,             \* a timer started the queue beside a file in progress
  strayed,             \* a signal of a stray reply reached its slot
  forgiven,            \* a redirection made it forget the error of a file
  batches,             \* how many there were
  hops                 \* how many redirections were followed

fileVars  == <<m_file, outputTargetedSize, redirected>>
writeVars == <<writer, stopped, m_buffer, disk>>
strayVars == <<strays, strayUnits, strayWriters>>
batchVars == <<wanted, batches>>
histVars  == <<late, overlap, strayed, forgiven, hops>>
vars == <<starting, downloadQueue, timers, statusError, fileVars, reply, toCome,
          writeVars, strayVars, told, batchVars, histVars>>

Entry(f) == [file |-> f, size |-> IF f \in Sized THEN FullSize ELSE 0]

\* Files of an earlier attempt may be there in part.
Init ==
  /\ starting = FALSE
  /\ downloadQueue = <<>>
  /\ timers = 0
  /\ statusError = 0
  /\ m_file = NoFile
  /\ outputTargetedSize = 0
  /\ reply = "none"
  /\ redirected = FALSE
  /\ toCome = 0
  /\ writer = "none"
  /\ stopped = FALSE
  /\ m_buffer = 0
  /\ disk \in [Files -> 0 .. FullSize + 1]
  /\ strays = 0 /\ strayUnits = 0 /\ strayWriters = 0
  /\ told = "ok"
  /\ wanted = {}
  /\ late = FALSE /\ overlap = FALSE /\ strayed = FALSE /\ forgiven = FALSE
  /\ batches = 0 /\ hops = 0

Running(r)  == IF r = "running" THEN 1 ELSE 0
WriterLives == writer \in {"opening", "running", "finished"}
InProgress  == reply = "running" \/ WriterLives

-----------------------------------------------------------------------------
MutantAlwaysArms(entries) ==
  /\ downloadQueue' = downloadQueue \o entries
  /\ timers' = timers + 1

\* append() arms the timer when it finds the queue empty.
AppendEntries(entries) ==
  /\ downloadQueue' = downloadQueue \o entries
  /\ timers' = timers + (IF downloadQueue = <<>> THEN 1 ELSE 0)

\* clear(), the queue excepted: what a batch before left in it stays.
Clear == statusError' = 0

\* Updates clears its slot and appends the files of a release, at any time: the
\* menu offers the retry as soon as one file failed.
AppendBatch ==
  /\ ~ starting
  /\ batches < MaxBatches /\ batches' = batches + 1
  /\ \E batch \in Batches :
       /\ AppendEntries([i \in DOMAIN batch |-> Entry(batch[i])])
       /\ wanted' = ToSet(batch)
  /\ Clear
  /\ told' = "no"
  /\ late' = (late \/ (downloadQueue = <<>> /\ InProgress))
  /\ forgiven' = FALSE
  /\ UNCHANGED <<starting, fileVars, reply, toCome, writeVars, strayVars, overlap, strayed,
                 hops>>

-----------------------------------------------------------------------------
(***************************************************************************)
(* startNextDownload.                                                      *)
(***************************************************************************)

\* A timer, whatever has happened since it was armed.
TimerFires ==
  /\ ~ starting
  /\ timers > 0
  /\ timers' = timers - 1
  /\ starting' = TRUE
  /\ overlap' = (overlap \/ InProgress)
  /\ UNCHANGED <<downloadQueue, statusError, fileVars, reply, toCome, writeVars, strayVars,
                 told, batchVars, late, strayed, forgiven, hops>>

\* The queue is empty: finished().
AllDownloaded ==
  /\ starting
  /\ downloadQueue = <<>>
  /\ starting' = FALSE
  /\ told' = IF statusError = 0 THEN "ok" ELSE "error"
  /\ UNCHANGED <<downloadQueue, timers, statusError, fileVars, reply, toCome, writeVars,
                 strayVars, batchVars, histVars>>

AlreadyThere(e) == e.size # 0 /\ disk[e.file] >= e.size

\* The next file is already there: startNextDownload calls itself.
SkipFile ==
  /\ starting
  /\ downloadQueue # <<>>
  /\ LET e == Head(downloadQueue) IN
       /\ AlreadyThere(e)
       /\ m_file' = e.file
       /\ outputTargetedSize' = e.size
  /\ downloadQueue' = Tail(downloadQueue)
  /\ UNCHANGED <<starting, timers, statusError, redirected, reply, toCome, writeVars,
                 strayVars, told, batchVars, histVars>>

\* A file without a known size is removed first, another one is continued.
Erased(e) == IF e.size = 0 THEN [disk EXCEPT ![e.file] = 0] ELSE disk

\* The members pass to the next file.  The server may redirect, or ignore the
\* Range header and send all of it.  What a writer still had to write when it
\* lost m_file gets into the new file, or nowhere.
StartDownload ==
  /\ starting
  /\ downloadQueue # <<>>
  /\ LET e == Head(downloadQueue) IN
       /\ ~ AlreadyThere(e)
       /\ m_file' = e.file
       /\ outputTargetedSize' = e.size
       /\ disk' = Erased(e)
       /\ redirected' \in IF hops < MaxHops THEN BOOLEAN ELSE {FALSE}
       /\ toCome' \in IF redirected' THEN {0} ELSE {FullSize, FullSize - Erased(e)[e.file]}
  /\ downloadQueue' = Tail(downloadQueue)
  /\ reply' = "running"
  /\ strays' = strays + Running(reply)
  /\ strayUnits' = strayUnits + Running(reply) * toCome
  /\ writer' = "opening"
  /\ stopped' = FALSE
  /\ m_buffer' \in IF WriterLives THEN 0 .. m_buffer ELSE {0}
  /\ strayWriters' = strayWriters + (IF WriterLives THEN 1 ELSE 0)
  /\ starting' = FALSE
  /\ UNCHANGED <<timers, statusError, told, batchVars, histVars>>

-----------------------------------------------------------------------------
(***************************************************************************)
(* The reply.                                                              *)
(***************************************************************************)
\* m_fileWriter->writeData(): wakes it too.
GiveWriter ==
  /\ m_buffer' = m_buffer + 1
  /\ writer' = IF writer = "stuck" THEN "running" ELSE writer

DownloadReadyRead ==
  /\ ~ starting
  /\ reply = "running"
  /\ toCome > 0
  /\ toCome' = toCome - 1
  /\ GiveWriter
  /\ UNCHANGED <<starting, downloadQueue, timers, statusError, fileVars, reply, stopped, disk,
                 strayVars, told, batchVars, histVars>>

\* m_fileWriter->stop(): wakes it, unless it has no data and is about to wait.
StopWriter ==
  /\ stopped' = TRUE
  /\ \/ writer' = IF writer = "stuck" THEN "running" ELSE writer
     \/ writer = "running" /\ m_buffer = 0 /\ writer' = "stuck"

MutantErrorIgnored ==
  /\ StopWriter
  /\ UNCHANGED <<downloadQueue, timers, statusError, disk, late, forgiven, hops>>

MutantRetriesForever ==
  /\ statusError' = 1
  /\ StopWriter
  /\ downloadQueue' = Append(downloadQueue, Entry(m_file))
  /\ UNCHANGED <<timers, disk, late, forgiven, hops>>

\* downloadFinished with an error, the 15 s transfer timeout for one.
EndWithError ==
  /\ statusError' = 1
  /\ StopWriter
  /\ UNCHANGED <<downloadQueue, timers, disk, late, forgiven, hops>>

\* downloadFinished with a redirection: its target is appended, without the
\* size, and the file removed under the writer.
EndWithRedirect ==
  /\ AppendEntries(<<[file |-> m_file, size |-> 0]>>)
  /\ disk' = [disk EXCEPT ![m_file] = 0]
  /\ statusError' = 0
  /\ StopWriter
  /\ hops' = hops + 1
  /\ late' = (late \/ downloadQueue = <<>>)
  /\ forgiven' = (forgiven \/ statusError # 0)

EndWithSuccess ==
  /\ StopWriter
  /\ UNCHANGED <<downloadQueue, timers, statusError, disk, late, forgiven, hops>>

\* downloadFinished of the current download.
DownloadFinished ==
  /\ ~ starting
  /\ reply = "running"
  /\ \/ EndWithError /\ reply' = "failed"
     \/ redirected /\ EndWithRedirect /\ reply' = "ok"
     \/ ~ redirected /\ toCome = 0 /\ EndWithSuccess /\ reply' = "ok"
  /\ UNCHANGED <<starting, fileVars, toCome, m_buffer, strayVars, told, batchVars, overlap,
                 strayed>>

\* A stray reply: what it delivers goes to the new writer.
StrayReadyRead ==
  /\ ~ starting
  /\ strays > 0 /\ strayUnits > 0
  /\ strayUnits' = strayUnits - 1
  /\ GiveWriter
  /\ strayed' = TRUE
  /\ UNCHANGED <<starting, downloadQueue, timers, statusError, fileVars, reply, toCome,
                 stopped, disk, strays, strayWriters, told, batchVars, late, overlap,
                 forgiven, hops>>

\* Its end, in any of the ways, stops the new writer.
StrayFinished ==
  /\ ~ starting
  /\ strays > 0
  /\ strays' = strays - 1
  /\ strayUnits' = IF strays = 1 THEN 0 ELSE strayUnits
  /\ EndWithError \/ EndWithSuccess \/ (hops < MaxHops /\ EndWithRedirect)
  /\ strayed' = TRUE
  /\ UNCHANGED <<starting, fileVars, reply, toCome, m_buffer, strayWriters, told, batchVars,
                 overlap>>

\* Its deleteLater() takes effect first.
StrayDeleted ==
  /\ ~ starting
  /\ strays > 0
  /\ strays' = strays - 1
  /\ strayUnits' = IF strays = 1 THEN 0 ELSE strayUnits
  /\ UNCHANGED <<starting, downloadQueue, timers, statusError, fileVars, reply, toCome,
                 writeVars, strayWriters, told, batchVars, histVars>>

-----------------------------------------------------------------------------
(***************************************************************************)
(* The writer, and its finished().                                         *)
(***************************************************************************)
WriterOpens ==
  /\ writer = "opening"
  /\ writer' = "running"
  /\ UNCHANGED <<starting, downloadQueue, timers, statusError, fileVars, reply, toCome,
                 stopped, m_buffer, disk, strayVars, told, batchVars, histVars>>

\* The file cannot be opened: finished() at once, the reply still running.
WriterCannotOpen ==
  /\ writer = "opening"
  /\ writer' = "finished"
  /\ UNCHANGED <<starting, downloadQueue, timers, statusError, fileVars, reply, toCome,
                 stopped, m_buffer, disk, strayVars, told, batchVars, histVars>>

\* Once m_file was shared it may be closed, and what is written is lost.
WriterWrites ==
  /\ writer = "running"
  /\ m_buffer > 0
  /\ \/ disk' = [disk EXCEPT ![m_file] = disk[m_file] + m_buffer]
     \/ overlap /\ UNCHANGED disk
  /\ m_buffer' = 0
  /\ UNCHANGED <<starting, downloadQueue, timers, statusError, fileVars, reply, toCome,
                 writer, stopped, strayVars, told, batchVars, histVars>>

WriterEnds ==
  /\ writer = "running"
  /\ stopped
  /\ m_buffer = 0
  /\ writer' = "finished"
  /\ UNCHANGED <<starting, downloadQueue, timers, statusError, fileVars, reply, toCome,
                 stopped, m_buffer, disk, strayVars, told, batchVars, histVars>>

WrongSize ==
  \/ outputTargetedSize # 0 /\ outputTargetedSize # disk[m_file]
  \/ disk[m_file] = 0

\* The status code of the current download, which is there once it is over and
\* may be there before.
IsHttpRedirect ==
  IF ~ redirected \/ reply = "none" THEN {FALSE} ELSE IF reply = "ok" THEN {TRUE} ELSE BOOLEAN

\* writeFinished: a file of the wrong size is removed, which is an error of its
\* own but not of a redirection; the reply is deleted once the slots are back
\* in the event loop; the next file is started.
CheckFile ==
  /\ ~ starting
  /\ \E redirect \in IsHttpRedirect :
       /\ statusError' = IF WrongSize /\ ~ redirect THEN 4 ELSE statusError
       /\ forgiven' = (forgiven \/ (WrongSize /\ redirect /\ reply = "running"))
  /\ disk' = IF WrongSize THEN [disk EXCEPT ![m_file] = 0] ELSE disk
  /\ reply' = "none"
  /\ redirected' = FALSE
  /\ toCome' = 0
  /\ strays' = strays + Running(reply)
  /\ strayUnits' = strayUnits + Running(reply) * toCome
  /\ starting' = TRUE
  /\ UNCHANGED <<downloadQueue, timers, m_file, outputTargetedSize, told, batchVars, late,
                 overlap, strayed, hops>>

WriteFinished ==
  /\ writer = "finished"
  /\ writer' = "none"
  /\ stopped' = FALSE
  /\ m_buffer' = 0
  /\ CheckFile
  /\ UNCHANGED strayWriters

\* A stray writer's finished() is taken for the current one's.
StrayWriteFinished ==
  /\ strayWriters > 0 /\ reply # "none"
  /\ strayWriters' = strayWriters - 1
  /\ CheckFile
  /\ UNCHANGED <<writer, stopped, m_buffer>>

Progress ==
  \/ TimerFires
  \/ AllDownloaded
  \/ SkipFile
  \/ StartDownload
  \/ DownloadReadyRead
  \/ DownloadFinished
  \/ WriterOpens
  \/ WriterWrites
  \/ WriterEnds
  \/ WriterCannotOpen
  \/ WriteFinished

StraySteps ==
  \/ StrayReadyRead
  \/ StrayFinished
  \/ StrayDeleted
  \/ StrayWriteFinished

Next == AppendBatch \/ Progress \/ StraySteps

Spec == Init /\ [][Next]_vars

\* The event loop and the writer run, and a reply comes to its end: there is a
\* transfer timeout.
FairSpec == Spec /\ WF_vars(Progress)

-----------------------------------------------------------------------------
\* The members keep their types; no timer is armed beside another unless an
\* append() took the empty queue for an idle manager.
TypeOK ==
  /\ starting \in BOOLEAN
  /\ downloadQueue \in Seq([file : Files, size : {0, FullSize}])
  /\ timers \in Nat /\ (timers > 1 => late \/ strayed)
  /\ statusError \in {0, 1, 4}
  /\ m_file \in Files \cup {NoFile}
  /\ outputTargetedSize \in {0, FullSize}
  /\ reply \in {"none", "running", "ok", "failed"}
  /\ redirected \in BOOLEAN
  /\ toCome \in 0 .. FullSize
  /\ writer \in {"none", "opening", "running", "stuck", "finished"}
  /\ stopped \in BOOLEAN
  /\ m_buffer \in Nat
  /\ disk \in [Files -> Nat]
  /\ strays \in Nat /\ strayUnits \in Nat /\ strayWriters \in Nat
  /\ told \in {"no", "ok", "error"}
  /\ wanted \subseteq Files
  /\ late \in BOOLEAN /\ overlap \in BOOLEAN /\ strayed \in BOOLEAN /\ forgiven \in BOOLEAN
  /\ batches \in 0 .. MaxBatches /\ hops \in Nat

\* Updates goes on to install the release: whatever the server redirects and
\* whenever the player retries, all of its files are there, none cut off,
\* continued wrongly or left over from an earlier attempt; unless two files were
\* mixed up in the members, or a redirection made an error forgotten.
CompleteWhenOk ==
  told = "ok" /\ ~ overlap /\ ~ strayed /\ ~ forgiven =>
    \A f \in wanted : disk[f] = FullSize \/ (f \in Sized /\ disk[f] > FullSize)

\* The next file is taken from the queue while a writer works on the last one
\* only if an append() took the empty queue for an idle manager, that of a
\* redirected last file or of a retry during the last file.
OneAtATime == starting /\ downloadQueue # <<>> /\ WriterLives => late \/ strayed

\* So is it with a second finished() for one batch.
OneEnd == starting /\ downloadQueue = <<>> /\ told # "no" => late \/ strayed

\* Every batch is told to be finished, unless a writer sleeps through its stop()
\* or the server redirects for ever.
BatchEnds == told = "no" ~> told # "no" \/ writer = "stuck"
=============================================================================
