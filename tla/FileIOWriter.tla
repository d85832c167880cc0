----------------------------- MODULE FileIOWriter -----------------------------
(***************************************************************************)
(* FileIOWriter: a thread that writes to a file what the GUI thread hands  *)
(* it with writeData, until stop.  m_mutex protects m_buffer; m_running is *)
(* written under it, but tested by the loop without it.                    *)
(*                                                                         *)
(* A section under the mutex is one step, and so is a wait that releases   *)
(* it.  QWaitCondition::wait returns only for a wakeAll.                   *)
(***************************************************************************)
EXTENDS Naturals, Sequences

CONSTANTS
  Chunks,       \* the pieces of data a reply delivers
  MaxChunks     \* bound on the pieces delivered

ASSUME BoundAssumption == MaxChunks \in Nat

VARIABLES
  m_running,    \* no stop() so far
  m_buffer,     \* the data nobody wrote yet
  writer,       \* where FileIOWriter::run is
  dataToWrite,  \* its local of that name, or remainingData
  woken,        \* a wakeAll reached the waiting thread
  openable,     \* can the file be opened
  file,         \* what is in the file
  sent          \* history: all the data given to writeData

vars == <<m_running, m_buffer, writer, dataToWrite, woken, openable, file, sent>>
guiVars == <<m_running, m_buffer, woken, sent>>

\* "test" is the condition of the while, "waiting" m_condition.wait,
\* "write" and "tail" the two m_file->write with what was picked up.
WriterSteps == {"open", "test", "lock", "waiting", "write", "remaining", "tail", "close",
                "finished"}

Init ==
  /\ m_running = TRUE
  /\ m_buffer = <<>>
  /\ writer = "open"
  /\ dataToWrite = <<>>
  /\ woken = FALSE
  /\ openable \in BOOLEAN
  /\ file = <<>>
  /\ sent = <<>>

-----------------------------------------------------------------------------
(***************************************************************************)
(* The GUI thread.                                                         *)
(***************************************************************************)
WakeAll == woken' = (woken \/ writer = "waiting")

\* DownloadManager sends no data after stop().
WriteData(c) ==
  /\ m_running
  /\ Len(sent) < MaxChunks
  /\ m_buffer' = Append(m_buffer, c)
  /\ WakeAll
  /\ sent' = Append(sent, c)
  /\ UNCHANGED <<m_running, writer, dataToWrite, openable, file>>

Stop ==
  /\ m_running
  /\ m_running' = FALSE
  /\ WakeAll
  /\ UNCHANGED <<m_buffer, writer, dataToWrite, openable, file, sent>>

-----------------------------------------------------------------------------
(***************************************************************************)
(* FileIOWriter::run.                                                      *)
(***************************************************************************)

\* A file that cannot be opened ends the thread at once, with finished().
Open ==
  /\ writer = "open"
  /\ writer' = IF openable THEN "test" ELSE "finished"
  /\ UNCHANGED <<guiVars, dataToWrite, openable, file>>

TestRunning ==
  /\ writer = "test"
  /\ writer' = IF m_running THEN "lock" ELSE "remaining"
  /\ UNCHANGED <<guiVars, dataToWrite, openable, file>>

MutantBufferKept ==
  /\ dataToWrite' = m_buffer
  /\ writer' = "write"
  /\ UNCHANGED m_buffer

\* The end of the locked section: the buffer is picked up, or the loop left.
PickUp ==
  IF ~ m_running /\ m_buffer = <<>>
  THEN writer' = "remaining" /\ UNCHANGED <<dataToWrite, m_buffer>>
  ELSE dataToWrite' = m_buffer /\ m_buffer' = <<>> /\ writer' = "write"

\* An empty buffer is waited for, whether or not stop() came already.
Lock ==
  /\ writer = "lock"
  /\ \/ m_buffer = <<>> /\ writer' = "waiting" /\ UNCHANGED <<dataToWrite, m_buffer>>
     \/ m_buffer # <<>> /\ PickUp
  /\ UNCHANGED <<m_running, woken, openable, file, sent>>

Wake ==
  /\ writer = "waiting"
  /\ woken
  /\ woken' = FALSE
  /\ PickUp
  /\ UNCHANGED <<m_running, openable, file, sent>>

Write ==
  /\ writer = "write"
  /\ file' = file \o dataToWrite
  /\ dataToWrite' = <<>>
  /\ writer' = "test"
  /\ UNCHANGED <<guiVars, openable>>

MutantNoRemaining ==
  /\ writer = "remaining"
  /\ dataToWrite' = <<>>
  /\ writer' = "tail"
  /\ UNCHANGED <<guiVars, openable, file>>

\* What stop() overtook is still in the buffer, and stays there.
TakeRemaining ==
  /\ writer = "remaining"
  /\ dataToWrite' = m_buffer
  /\ writer' = "tail"
  /\ UNCHANGED <<guiVars, openable, file>>

WriteRemaining ==
  /\ writer = "tail"
  /\ file' = file \o dataToWrite
  /\ dataToWrite' = <<>>
  /\ writer' = "close"
  /\ UNCHANGED <<guiVars, openable>>

\* flush, close, finished().
Close ==
  /\ writer = "close"
  /\ writer' = "finished"
  /\ UNCHANGED <<guiVars, dataToWrite, openable, file>>

WriterStep ==
  \/ Open
  \/ TestRunning
  \/ Lock
  \/ Wake
  \/ Write
  \/ TakeRemaining
  \/ WriteRemaining
  \/ Close

Next == (\E c \in Chunks : WriteData(c)) \/ Stop \/ WriterStep

Spec == Init /\ [][Next]_vars

\* The thread is scheduled, and a reply ends: QNetworkRequest has a timeout.
FairSpec == Spec /\ WF_vars(WriterStep) /\ WF_vars(Stop)

-----------------------------------------------------------------------------
Data == {d \in Seq(Chunks) : Len(d) <= MaxChunks}

\* Types; there is never more in one place than a reply can deliver.
TypeOK ==
  /\ m_running \in BOOLEAN
  /\ m_buffer \in Data
  /\ writer \in WriterSteps
  /\ dataToWrite \in Data
  /\ woken \in BOOLEAN
  /\ openable \in BOOLEAN
  /\ file \in Data
  /\ sent \in Data

\* Nothing is lost, doubled or reordered between the reply and the file,
\* wherever the two threads are.
NothingLost ==
  sent = file \o dataToWrite
           \o IF writer \in {"tail", "close", "finished"} /\ openable THEN <<>> ELSE m_buffer

\* Every piece of data is in the file at some time, also when stop() comes
\* between the last two tests of the loop.
DataGetsWritten ==
  \A n \in 1 .. MaxChunks : (Len(sent) >= n /\ openable) ~> Len(file) >= n

\* The thread implements the pipe; the end of a thread that could not open
\* its file is not the end of the pipe.
Pipe == INSTANCE BytePipe
          WITH given <- sent, stored <- file, closed <- ~ m_running,
               ended <- openable /\ writer = "finished"
PipeSpec == Pipe!Spec

(***************************************************************************)
(* What the comments say and the code does not keep.                       *)
(***************************************************************************)

\* "Check if running is false AND buffer is empty": a stopped thread ends.
StopEndsThread == ~ m_running ~> writer = "finished"
=============================================================================
