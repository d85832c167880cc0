-------------------------- MODULE FileIOWriter_proofs --------------------------
(***************************************************************************)
(* Nothing gets lost between the reply and the file, and the two threads   *)
(* implement the pipe, for any data.                                       *)
(***************************************************************************)
EXTENDS FileIOWriter, SequenceTheorems, TLAPS

Places ==
  /\ m_running \in BOOLEAN
  /\ woken \in BOOLEAN
  /\ openable \in BOOLEAN
  /\ writer \in WriterSteps

Buffers ==
  /\ m_buffer \in Seq(Chunks)
  /\ dataToWrite \in Seq(Chunks)
  /\ file \in Seq(Chunks)
  /\ sent \in Seq(Chunks)
  /\ Len(m_buffer) <= MaxChunks
  /\ Len(sent) <= MaxChunks

\* The local of the thread holds data only on the way to a write.
InHand == writer \notin {"write", "tail"} => dataToWrite = <<>>

\* The loop is left after a stop() only.
LeftStopped ==
  writer \in {"remaining", "tail", "close"} \/ (writer = "finished" /\ openable) => ~ m_running

\* A file that cannot be opened ends the thread before the loop.
Opened == writer \notin {"open", "finished"} => openable

WriterInv ==
  /\ Places
  /\ Buffers
  /\ InHand
  /\ LeftStopped
  /\ Opened
  /\ NothingLost

\* What the file lacks, but for what the thread has in hand.
Rest == IF writer \in {"tail", "close", "finished"} /\ openable THEN <<>> ELSE m_buffer

LEMMA AppendLast ==
  ASSUME NEW s \in Seq(Chunks), NEW t \in Seq(Chunks), NEW u \in Seq(Chunks), NEW c \in Chunks
  PROVE  Append(s \o t \o u, c) = s \o t \o Append(u, c)
<1>1. /\ s \o t \in Seq(Chunks) /\ s \o t \o u \in Seq(Chunks) /\ <<c>> \in Seq(Chunks)
  BY ConcatProperties
<1>2. /\ Append(s \o t \o u, c) = (s \o t \o u) \o <<c>>
      /\ Append(u, c) = u \o <<c>>
  BY <1>1, AppendIsConcat
<1>3. (s \o t \o u) \o <<c>> = (s \o t) \o (u \o <<c>>)
  BY <1>1, ConcatAssociative, SMTT(60)
<1> QED
  BY <1>2, <1>3, Zenon

LEMMA PrefixIsSubSeq ==
  ASSUME NEW s \in Seq(Chunks), NEW t \in Seq(Chunks)
  PROVE  Len(s) <= Len(s \o t) /\ s = SubSeq(s \o t, 1, Len(s))
<1>1. Len(s \o t) = Len(s) + Len(t) /\ Len(s) \in Nat /\ Len(t) \in Nat
  BY ConcatProperties, LenProperties
<1>2. CASE s = <<>>
  BY <1>2, SubSeqEmpty
<1>3. CASE s # <<>>
  <2>1. Len(s) \in Nat \ {0}
    BY <1>3, EmptySeq
  <2>2. SubSeq(s \o t, 1, Len(s)) = SubSeq(s, 1, Len(s))
    BY <2>1, SubSeqOfConcat1
  <2> QED
    BY <1>1, <2>2, SubSeqFull
<1> QED
  BY <1>1, <1>2, <1>3

LEMMA InitWriter == Init => WriterInv
<1> SUFFICES ASSUME Init PROVE WriterInv
  OBVIOUS
<1>1. <<>> \in Seq(Chunks) /\ Len(<<>>) = 0 /\ <<>> \o <<>> \o <<>> = <<>>
  BY EmptySeq, ConcatEmptySeq
<1>2. NothingLost
  BY <1>1 DEF Init, NothingLost
<1>3. Buffers
  BY <1>1, BoundAssumption DEF Init, Buffers
<1> QED
  BY <1>2, <1>3 DEF Init, WriterInv, Places, WriterSteps, InHand, LeftStopped, Opened

LEMMA StepWriter == WriterInv /\ [Next]_vars => WriterInv'
<1> SUFFICES ASSUME WriterInv, [Next]_vars PROVE WriterInv'
  OBVIOUS
<1> USE DEF guiVars
<1>a. Places /\ Buffers /\ InHand /\ LeftStopped /\ Opened
  BY DEF WriterInv
<1>b. sent = file \o dataToWrite \o Rest
  BY DEF WriterInv, NothingLost, Rest
<1>c. \A s \in Seq(Chunks) : s \o <<>> = s /\ <<>> \o s = s
  BY ConcatEmptySeq
<1>d. <<>> \in Seq(Chunks) /\ Len(<<>>) = 0
  BY EmptySeq
<1>e. NothingLost' <=> sent' = file' \o dataToWrite' \o Rest'
  BY DEF NothingLost, Rest
<1>1. ASSUME NEW c \in Chunks, WriteData(c) PROVE WriterInv'
  <2>1. /\ m_running /\ Len(sent) < MaxChunks
        /\ m_buffer' = Append(m_buffer, c) /\ sent' = Append(sent, c)
        /\ woken' = (woken \/ writer = "waiting")
        /\ UNCHANGED <<m_running, writer, dataToWrite, openable, file>>
    BY <1>1 DEF WriteData, WakeAll
  <2>2. Rest = m_buffer /\ Rest' = m_buffer'
    BY <1>a, <2>1 DEF LeftStopped, Rest
  <2>3. NothingLost'
    <3>1. file \in Seq(Chunks) /\ dataToWrite \in Seq(Chunks) /\ m_buffer \in Seq(Chunks)
      BY <1>a DEF Buffers
    <3>2. Append(file \o dataToWrite \o m_buffer, c) = file \o dataToWrite \o Append(m_buffer, c)
      BY <1>1, <3>1, AppendLast, ZenonT(60)
    <3>3. sent' = file' \o dataToWrite' \o Rest'
      BY <1>b, <2>1, <2>2, <3>2, Zenon
    <3> QED
      BY <1>e, <3>3
  <2>4. Len(m_buffer) <= Len(sent)
    <3>1. /\ file \o dataToWrite \in Seq(Chunks)
          /\ Len(file \o dataToWrite \o m_buffer) = Len(file \o dataToWrite) + Len(m_buffer)
      BY <1>a, ConcatProperties DEF Buffers
    <3>2. Len(file \o dataToWrite) \in Nat /\ Len(m_buffer) \in Nat
      BY <1>a, <3>1, LenProperties DEF Buffers
    <3> QED
      BY <1>b, <2>2, <3>1, <3>2
  <2>5. /\ Append(m_buffer, c) \in Seq(Chunks) /\ Append(sent, c) \in Seq(Chunks)
        /\ Len(Append(m_buffer, c)) = Len(m_buffer) + 1 /\ Len(Append(sent, c)) = Len(sent) + 1
        /\ Len(m_buffer) \in Nat /\ Len(sent) \in Nat
    BY <1>a, AppendProperties, LenProperties DEF Buffers
  <2>6. Buffers'
    BY <1>a, <2>1, <2>4, <2>5, BoundAssumption DEF Buffers
  <2>7. Places'
    BY <1>a, <2>1 DEF Places
  <2> QED
    BY <1>a, <2>1, <2>3, <2>6, <2>7 DEF WriterInv, InHand, LeftStopped, Opened
<1>2. CASE Stop
  <2>1. /\ m_running' = FALSE /\ woken' = (woken \/ writer = "waiting")
        /\ UNCHANGED <<m_buffer, writer, dataToWrite, openable, file, sent>>
    BY <1>2 DEF Stop, WakeAll
  <2> QED
    BY <1>a, <1>b, <1>e, <2>1 DEF WriterInv, Places, Buffers, InHand, LeftStopped, Opened, Rest
<1>3. CASE Open
  <2>1. /\ writer = "open" /\ writer' = IF openable THEN "test" ELSE "finished"
        /\ UNCHANGED <<m_running, m_buffer, woken, sent, dataToWrite, openable, file>>
    BY <1>3 DEF Open
  <2> QED
    BY <1>a, <1>b, <1>e, <2>1 DEF WriterInv, Places, WriterSteps, Buffers, InHand, LeftStopped, Opened, Rest
<1>4. CASE TestRunning
  <2>1. /\ writer = "test" /\ writer' = IF m_running THEN "lock" ELSE "remaining"
        /\ UNCHANGED <<m_running, m_buffer, woken, sent, dataToWrite, openable, file>>
    BY <1>4 DEF TestRunning
  <2> QED
    BY <1>a, <1>b, <1>e, <2>1 DEF WriterInv, Places, WriterSteps, Buffers, InHand, LeftStopped, Opened, Rest
<1>5. ASSUME PickUp, writer \in {"lock", "waiting"}, woken' \in BOOLEAN,
             UNCHANGED <<m_running, openable, file, sent>>
      PROVE  WriterInv'
  <2>1. dataToWrite = <<>> /\ Rest = m_buffer
    BY <1>a, <1>5 DEF InHand, Rest
  <2>2. sent = file \o m_buffer
    BY <1>a, <1>b, <1>c, <2>1 DEF Buffers
  <2>3. CASE writer' = "remaining" /\ ~ m_running /\ UNCHANGED <<dataToWrite, m_buffer>>
    BY <1>a, <1>b, <1>e, <1>5, <2>1, <2>3
       DEF WriterInv, Places, WriterSteps, Buffers, InHand, LeftStopped, Opened, Rest
  <2>4. CASE dataToWrite' = m_buffer /\ m_buffer' = <<>> /\ writer' = "write"
    <3>1. file' \o dataToWrite' \o Rest' = sent'
      <4>1. file \o m_buffer \in Seq(Chunks)
        BY <1>a, ConcatProperties DEF Buffers
      <4> QED
        BY <1>5, <1>c, <2>2, <2>4, <4>1 DEF Rest
    <3> QED
      BY <1>a, <1>d, <1>e, <1>5, <2>4, <3>1, BoundAssumption
         DEF WriterInv, Places, WriterSteps, Buffers, InHand, LeftStopped, Opened
  <2> QED
    BY <1>5, <2>3, <2>4 DEF PickUp
<1>6. CASE Lock
  <2>1. CASE m_buffer = <<>> /\ writer' = "waiting" /\ UNCHANGED <<dataToWrite, m_buffer>>
    <3>1. writer = "lock" /\ UNCHANGED <<m_running, woken, openable, file, sent>>
      BY <1>6 DEF Lock
    <3> QED
      BY <1>a, <1>b, <1>e, <2>1, <3>1 DEF WriterInv, Places, WriterSteps, Buffers, InHand, LeftStopped, Opened, Rest
  <2>2. CASE PickUp
    BY <1>5, <1>6, <1>a, <2>2 DEF Lock, Places
  <2> QED
    BY <1>6, <2>1, <2>2 DEF Lock
<1>7. CASE Wake
  BY <1>5, <1>7 DEF Wake
<1>8. ASSUME writer \in {"write", "tail"}, file' = file \o dataToWrite, dataToWrite' = <<>>,
             writer' = IF writer = "write" THEN "test" ELSE "close",
             UNCHANGED <<m_running, m_buffer, woken, sent, openable>>
      PROVE  WriterInv'
  <2>1. file \o dataToWrite \in Seq(Chunks)
    BY <1>a, ConcatProperties DEF Buffers
  <2>2. Rest' = Rest
    BY <1>8 DEF Rest
  <2>3. NothingLost'
    BY <1>8, <1>b, <1>c, <1>e, <2>1, <2>2
  <2> QED
    BY <1>8, <1>a, <1>d, <2>1, <2>3 DEF WriterInv, Places, WriterSteps, Buffers, InHand, LeftStopped, Opened
<1>9. CASE Write
  BY <1>8, <1>9 DEF Write
<1>10. CASE TakeRemaining
  <2>1. /\ writer = "remaining" /\ dataToWrite = <<>> /\ dataToWrite' = m_buffer /\ writer' = "tail"
        /\ openable /\ UNCHANGED <<m_running, m_buffer, woken, sent, openable, file>>
    BY <1>10, <1>a DEF TakeRemaining, InHand, Opened
  <2>2. Rest = m_buffer /\ Rest' = <<>> /\ file \o m_buffer \in Seq(Chunks)
    BY <1>a, <2>1, ConcatProperties DEF Rest, Buffers
  <2>3. NothingLost'
    BY <1>a, <1>b, <1>c, <1>e, <2>1, <2>2 DEF Buffers
  <2> QED
    BY <1>a, <2>1, <2>3 DEF WriterInv, Places, WriterSteps, Buffers, InHand, LeftStopped, Opened
<1>11. CASE WriteRemaining
  BY <1>8, <1>11 DEF WriteRemaining
<1>12. CASE Close
  <2>1. /\ writer = "close" /\ writer' = "finished"
        /\ UNCHANGED <<m_running, m_buffer, woken, sent, dataToWrite, openable, file>>
    BY <1>12 DEF Close
  <2> QED
    BY <1>a, <1>b, <1>e, <2>1 DEF WriterInv, Places, WriterSteps, Buffers, InHand, LeftStopped, Opened, Rest
<1>13. CASE UNCHANGED vars
  BY <1>a, <1>b, <1>e, <1>13 DEF vars, WriterInv, Places, Buffers, InHand, LeftStopped, Opened, Rest
<1> QED
  BY <1>1, <1>2, <1>3, <1>4, <1>6, <1>7, <1>9, <1>10, <1>11, <1>12, <1>13 DEF Next, WriterStep

LEMMA WriterInvariant == Spec => []WriterInv
  BY InitWriter, StepWriter, PTL DEF Spec

\* The data given to writeData is in the file, in the hand of the thread or in
\* the buffer, in this order, wherever the two threads are.
THEOREM NoDataLost == Spec => []NothingLost
<1>1. WriterInv => NothingLost
  BY DEF WriterInv
<1> QED
  BY <1>1, WriterInvariant, PTL

\* None of the buffers gets longer than what a reply delivers.
THEOREM TypeCorrect == Spec => []TypeOK
<1>1. WriterInv => TypeOK
  <2> SUFFICES ASSUME WriterInv PROVE TypeOK
    OBVIOUS
  <2> USE DEF WriterInv, Buffers
  <2>1. Rest \in Seq(Chunks) /\ sent = file \o dataToWrite \o Rest
    BY EmptySeq DEF NothingLost, Rest
  <2>2. /\ file \o dataToWrite \in Seq(Chunks)
        /\ Len(file \o dataToWrite) = Len(file) + Len(dataToWrite)
        /\ Len(file) \in Nat /\ Len(dataToWrite) \in Nat /\ Len(Rest) \in Nat
    BY <2>1, ConcatProperties, LenProperties
  <2>3. Len(sent) = Len(file) + Len(dataToWrite) + Len(Rest)
    BY <2>1, <2>2, ConcatProperties
  <2>4. Len(file) <= MaxChunks /\ Len(dataToWrite) <= MaxChunks
    BY <2>2, <2>3, BoundAssumption
  <2> QED
    BY <2>4 DEF TypeOK, Places, Data
<1> QED
  BY <1>1, WriterInvariant, PTL

LEMMA InitIsPipe == Init => Pipe!Init
  BY DEF Init, Pipe!Init

LEMMA StepIsPipe == WriterInv /\ [Next]_vars => [Pipe!Next]_(Pipe!pvars)
<1> SUFFICES ASSUME WriterInv, [Next]_vars PROVE [Pipe!Next]_(Pipe!pvars)
  OBVIOUS
<1> USE DEF guiVars
<1>a. Buffers /\ InHand /\ LeftStopped /\ Opened /\ Places
  BY DEF WriterInv
<1>b. sent = file \o dataToWrite \o Rest /\ Rest \in Seq(Chunks)
  BY <1>a, EmptySeq DEF WriterInv, NothingLost, Rest, Buffers
<1>1. ASSUME NEW c \in Chunks, WriteData(c) PROVE Pipe!Give(c)
  BY <1>1 DEF WriteData, Pipe!Give
<1>2. CASE Stop
  <2>1. (~ m_running)' = TRUE /\ UNCHANGED <<sent, file, openable, writer>>
    BY <1>2 DEF Stop
  <2> QED
    BY <2>1 DEF Pipe!Close, Pipe!Next
<1>3. CASE Open \/ TestRunning \/ Lock \/ Wake \/ TakeRemaining
  <2>1. UNCHANGED <<sent, file, m_running, openable>> /\ (openable => writer # "finished" /\ writer' # "finished")
    BY <1>3 DEF Open, TestRunning, Lock, Wake, TakeRemaining, PickUp
  <2> QED
    BY <2>1 DEF Pipe!pvars
<1>4. CASE Write \/ WriteRemaining
  <2>1. /\ file' = file \o dataToWrite /\ writer \in {"write", "tail"} /\ writer' \in {"test", "close"}
        /\ UNCHANGED <<sent, m_running, openable>>
    BY <1>4 DEF Write, WriteRemaining
  <2>2. /\ file \o dataToWrite \in Seq(Chunks)
        /\ Len(file \o dataToWrite) = Len(file) + Len(dataToWrite)
        /\ Len(file) \in Nat /\ Len(dataToWrite) \in Nat
    BY <1>a, ConcatProperties, LenProperties DEF Buffers
  <2>3. Len(file') <= Len(sent) /\ file' = SubSeq(sent, 1, Len(file'))
    BY <1>b, <2>1, <2>2, PrefixIsSubSeq
  <2>4. Len(file') \in Len(file) .. Len(sent)
    BY <1>a, <2>1, <2>2, <2>3, LenProperties DEF Buffers
  <2> QED
    BY <2>1, <2>3, <2>4 DEF Pipe!Next, Pipe!Store
<1>5. CASE Close
  <2>1. /\ writer = "close" /\ writer' = "finished" /\ openable /\ ~ m_running /\ dataToWrite = <<>>
        /\ Rest = <<>> /\ UNCHANGED <<sent, file, m_running, openable>>
    BY <1>5, <1>a DEF Close, InHand, LeftStopped, Opened, Rest
  <2>2. sent = file
    BY <1>a, <1>b, <2>1, ConcatEmptySeq DEF Buffers
  <2> QED
    BY <2>1, <2>2 DEF Pipe!Next, Pipe!End
<1>6. CASE UNCHANGED vars
  BY <1>6 DEF vars, Pipe!pvars
<1> QED
  BY <1>1, <1>2, <1>3, <1>4, <1>5, <1>6 DEF Next, WriterStep, Pipe!Next

\* What the thread does with the data is what DownloadManager may expect of a
\* pipe: its end is told once, after all of the data is in the file.
THEOREM WriterIsAPipe == Spec => PipeSpec
  BY InitIsPipe, StepIsPipe, WriterInvariant, PTL DEF Spec, PipeSpec, Pipe!Spec
=============================================================================
