------------------------------- MODULE BytePipe -------------------------------
(***************************************************************************)
(* What DownloadManager wants from a FileIOWriter: the data handed over    *)
(* ends up in the file, in the order it was handed over, and the end is    *)
(* told once, after the last of it is there.                               *)
(***************************************************************************)
EXTENDS Sequences, SequencesExt

CONSTANT Chunks    \* pieces of data

VARIABLES
  given,    \* the data handed over
  stored,   \* the data in the file
  closed,   \* no more data will come
  ended     \* the end was told

pvars == <<given, stored, closed, ended>>

Init == given = <<>> /\ stored = <<>> /\ closed = FALSE /\ ended = FALSE

Give(c) ==
  /\ ~ closed
  /\ given' = Append(given, c)
  /\ UNCHANGED <<stored, closed, ended>>

Store ==
  /\ ~ ended
  /\ \E n \in Len(stored) .. Len(given) : stored' = SubSeq(given, 1, n)
  /\ UNCHANGED <<given, closed, ended>>

Close == closed' = TRUE /\ UNCHANGED <<given, stored, ended>>

End ==
  /\ closed
  /\ ~ ended
  /\ stored = given
  /\ ended' = TRUE
  /\ UNCHANGED <<given, stored, closed>>

Next == (\E c \in Chunks : Give(c)) \/ Store \/ Close \/ End

Spec == Init /\ [][Next]_pvars
=============================================================================
