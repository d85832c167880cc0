---------------------------- MODULE Gamepads_proofs ----------------------------
(***************************************************************************)
(* Proofs about Gamepads, for any number of pads, of events that wait and  *)
(* of pads that come and go.                                               *)
(*                                                                         *)
(* Typed always holds.  As long as no pad left while another waited to be  *)
(* added, or while two that had left waited, Calm holds too: the queue is  *)
(* removals and then additions, the indices of the pads that were opened   *)
(* are in the order of SDL's list, and the maps, the model and the lines   *)
(* agree.  remove_pad_by_iid keeps it because each turn of its loop finds  *)
(* the one pad of the model that has the old index: LoopAgrees.            *)
(***************************************************************************)
EXTENDS Gamepads, SequenceTheorems, WellFoundedInduction, TLAPS

Device == [id : Indices, iid : Iids, idx : Indices]
Line   == [iid : Iids \cup {NoIid}, sdlidx : Indices \cup {NoIdx}]
Event  == [kind : {"added"}, which : Indices] \cup [kind : {"removed"}, which : Iids]

\* What remove_pad_by_iid works on.
State == [idxToIid : [Indices -> Iids \cup {NoIid}],
          iidToIdx : [Iids -> Indices \cup {NoIdx}],
          devices  : Seq(Device),
          pads     : [Lines -> Line]]

-----------------------------------------------------------------------------
\* A set of naturals has a least element.
LEMMA LeastNat ==
  ASSUME NEW T \in SUBSET Nat, T # {}
  PROVE  \E x \in T : \A y \in T : x <= y
<1> DEFINE R == OpToRel(<, Nat)
<1>1. IsWellFoundedOn(R, Nat)
  BY NatLessThanWellFounded
<1>2. \A x, y \in Nat : x < y => <<x, y>> \in R
  <2>1. R = {ss \in Nat \X Nat : ss[1] < ss[2]}
    BY DEF OpToRel
  <2> HIDE DEF R
  <2> QED BY <2>1
<1> HIDE DEF R
<1>3. PICK x \in T : \A y \in T : ~ (<<y, x>> \in R)
  BY <1>1, WFMin
<1>4. x \in Nat /\ \A y \in T : y \in Nat
  OBVIOUS
<1>5. \A y \in T : ~ (y < x)
  BY <1>2, <1>3, <1>4
<1> QED BY <1>4, <1>5

\* find_if stops at the first position.
LEMMA FirstIsFound ==
  ASSUME NEW ps \in SUBSET Nat, ps # {}
  PROVE  First(ps) \in ps /\ \A q \in ps : First(ps) <= q
BY LeastNat DEF First

\* The first of one position is that one.
LEMMA FirstOfOne ==
  ASSUME NEW p \in Nat
  PROVE  First({p}) = p
<1>1. {p} \in SUBSET Nat /\ {p} # {}
  OBVIOUS
<1>2. First({p}) \in {p}
  BY <1>1, FirstIsFound
<1> QED BY <1>2

\* What RemoveAt leaves of a sequence.
LEMMA RemoveAtFacts ==
  ASSUME NEW S, NEW s \in Seq(S), NEW i \in 1 .. Len(s)
  PROVE  /\ RemoveAt(s, i) \in Seq(S)
         /\ Len(RemoveAt(s, i)) = Len(s) - 1
         /\ \A j \in 1 .. Len(s) - 1 :
              RemoveAt(s, i)[j] = IF j < i THEN s[j] ELSE s[j + 1]
<1> DEFINE a == SubSeq(s, 1, i - 1)
           b == SubSeq(s, i + 1, Len(s))
<1>1. a \in Seq(S) /\ Len(a) = i - 1 /\ \A j \in 1 .. i - 1 : a[j] = s[j]
  BY SubSeqProperties
<1>2. b \in Seq(S) /\ Len(b) = Len(s) - i /\ \A j \in 1 .. Len(s) - i : b[j] = s[i + j]
  BY SubSeqProperties
<1>3. RemoveAt(s, i) = a \o b
  BY DEF RemoveAt
<1> HIDE DEF a, b
<1>4. /\ a \o b \in Seq(S) /\ Len(a \o b) = Len(s) - 1
      /\ \A j \in 1 .. Len(s) - 1 : (a \o b)[j] = IF j < i THEN a[j] ELSE b[j - (i - 1)]
  <2>1. /\ a \o b \in Seq(S) /\ Len(a \o b) = Len(a) + Len(b)
        /\ \A j \in 1 .. Len(a) + Len(b) : (a \o b)[j] = IF j <= Len(a) THEN a[j] ELSE b[j - Len(a)]
    BY <1>1, <1>2, ConcatProperties
  <2>2. Len(a) + Len(b) = Len(s) - 1 /\ \A j \in 1 .. Len(s) - 1 : j <= i - 1 <=> j < i
    BY <1>1, <1>2
  <2> QED BY <1>1, <2>1, <2>2
<1>5. \A j \in 1 .. Len(s) - 1 : ~ j < i => j - (i - 1) \in 1 .. Len(s) - i
                                            /\ i + (j - (i - 1)) = j + 1
  OBVIOUS
<1>6. \A j \in 1 .. Len(s) - 1 : j < i => j \in 1 .. i - 1
  OBVIOUS
<1> QED BY <1>1, <1>2, <1>3, <1>4, <1>5, <1>6

\* The bounds, and which sets lie in which.
LEMMA BoundFacts ==
  /\ MaxPlugs \in Nat /\ MaxPads \in Nat /\ MaxPads >= 1
  /\ NoIid \notin Iids /\ NoIdx \notin Indices
  /\ Indices \subseteq Lines /\ Indices \subseteq Nat /\ Lines \subseteq Nat
  /\ \A i \in Indices : i < MaxPads
BY GamepadsAssumption DEF Iids, Indices, Lines, NoIid, NoIdx

\* The devices of a model have the fields of a device.
LEMMA DevicesFacts ==
  ASSUME NEW devices \in Seq(Device)
  PROVE  /\ Len(devices) \in Nat /\ DOMAIN devices = 1 .. Len(devices)
         /\ \A p \in DOMAIN devices : /\ devices[p].id \in Indices
                                      /\ devices[p].iid \in Iids
                                      /\ devices[p].idx \in Indices
<1>1. \A p \in 1 .. Len(devices) : devices[p] \in Device
  <2> HIDE DEF Device
  <2> QED BY ElementOfSeq
<1> QED BY <1>1 DEF Device

\* Another device at a position.
LEMMA WithFacts ==
  ASSUME NEW devices \in Seq(Device), NEW p, NEW d \in Device
  PROVE  /\ With(devices, p, d) \in Seq(Device)
         /\ Len(With(devices, p, d)) = Len(devices)
         /\ \A q \in 1 .. Len(devices) :
              With(devices, p, d)[q] = IF q = p THEN d ELSE devices[q]
<1> HIDE DEF Device
<1>1. /\ DOMAIN devices = 1 .. Len(devices) /\ Len(devices) \in Nat
      /\ \A q \in 1 .. Len(devices) : devices[q] \in Device
  BY ElementOfSeq
<1>2. With(devices, p, d) = [q \in 1 .. Len(devices) |-> IF q = p THEN d ELSE devices[q]]
  BY <1>1 DEF With
<1>3. With(devices, p, d) \in [1 .. Len(devices) -> Device]
  BY <1>1, <1>2
<1>4. With(devices, p, d) \in Seq(Device)
  BY <1>1, <1>3
<1> QED BY <1>1, <1>2, <1>4

\* emplace sets what was not there, and keeps what was.
LEMMA EmplaceFacts ==
  ASSUME NEW S, NEW T, NEW f \in [S -> T], NEW k \in S, NEW v \in T, NEW none
  PROVE  /\ Emplace(f, k, v, none) \in [S -> T]
         /\ \A x \in S : Emplace(f, k, v, none)[x] = IF x = k /\ f[k] = none THEN v ELSE f[x]
BY DEF Emplace

-----------------------------------------------------------------------------
(***************************************************************************)
(* The record of remove_pad_by_iid keeps its type, whatever the queue and  *)
(* the model hold.                                                         *)
(***************************************************************************)
\* The fields of the record, with their types.
LEMMA StateFields ==
  ASSUME NEW st \in State
  PROVE  /\ st.idxToIid \in [Indices -> Iids \cup {NoIid}]
         /\ st.iidToIdx \in [Iids -> Indices \cup {NoIdx}]
         /\ st.devices \in Seq(Device)
         /\ st.pads \in [Lines -> Line]
         /\ DOMAIN st = {"idxToIid", "iidToIdx", "devices", "pads"}
BY DEF State

\* The lines bkOnRemoved goes through, and the devices that stay.
Shifted(st, id) == {i \in Lines : i >= id /\ \A j \in id .. i : st.pads[j] # NoLine}
Rest(st, id) == RemoveAt(st.devices, First(WithId(st.devices, id)))

MovedUp(st, id, p) ==
  Rest(st, id)[p].id - 1 \in Shifted(st, id)
    /\ p = First(WithId(Rest(st, id), Rest(st, id)[p].id))

\* What bkOnRemoved leaves of the model and the lines, field by field.
LEMMA RemovedFacts ==
  ASSUME NEW st \in State, NEW id, WithId(st.devices, id) # {}
  PROVE  /\ First(WithId(st.devices, id)) \in 1 .. Len(st.devices)
         /\ Rest(st, id) \in Seq(Device) /\ Len(Rest(st, id)) = Len(st.devices) - 1
         /\ Removed(st, id) \in State
         /\ Removed(st, id).idxToIid = st.idxToIid
         /\ Removed(st, id).iidToIdx = st.iidToIdx
         /\ Len(Removed(st, id).devices) = Len(st.devices) - 1
         /\ \A p \in 1 .. Len(st.devices) - 1 :
              /\ Removed(st, id).devices[p].iid = Rest(st, id)[p].iid
              /\ Removed(st, id).devices[p].idx = Rest(st, id)[p].idx
              /\ Removed(st, id).devices[p].id = IF MovedUp(st, id, p) THEN Rest(st, id)[p].id - 1
                                                 ELSE Rest(st, id)[p].id
         /\ \A i \in Lines :
              Removed(st, id).pads[i] =
                CASE i \notin Shifted(st, id) -> st.pads[i]
                  [] i \in Shifted(st, id) /\ WithId(Rest(st, id), i + 1) # {} -> st.pads[i + 1]
                  [] OTHER -> NoLine
<1> DEFINE rest == Rest(st, id)
           shifted == Shifted(st, id)
           n == Len(st.devices) - 1
           devices == [p \in DOMAIN rest |->
             IF rest[p].id - 1 \in shifted /\ p = First(WithId(rest, rest[p].id))
             THEN [rest[p] EXCEPT !.id = @ - 1] ELSE rest[p]]
           lines == [i \in Lines |->
             CASE i \notin shifted -> st.pads[i]
               [] i \in shifted /\ WithId(rest, i + 1) # {} -> st.pads[i + 1]
               [] OTHER -> NoLine]
<1>1. /\ First(WithId(st.devices, id)) \in 1 .. Len(st.devices)
      /\ rest \in Seq(Device) /\ Len(rest) = n /\ n \in Nat
  <2>1. st.devices \in Seq(Device) /\ DOMAIN st.devices = 1 .. Len(st.devices) /\ Len(st.devices) \in Nat
    BY StateFields, DevicesFacts
  <2>2. WithId(st.devices, id) \in SUBSET (1 .. Len(st.devices))
    BY <2>1 DEF WithId
  <2>3. First(WithId(st.devices, id)) \in 1 .. Len(st.devices)
    BY <2>2, FirstIsFound
  <2> QED BY <2>1, <2>3, RemoveAtFacts DEF Rest
<1>2. Removed(st, id) = [st EXCEPT !.devices = devices, !.pads = lines]
  BY DEF Removed, Rest, Shifted
<1>3. /\ Removed(st, id).idxToIid = st.idxToIid
      /\ Removed(st, id).iidToIdx = st.iidToIdx
      /\ Removed(st, id).devices = devices
      /\ Removed(st, id).pads = lines
      /\ devices \in Seq(Device) /\ lines \in [Lines -> Line] => Removed(st, id) \in State
  <2> HIDE DEF devices, lines
  <2>1. /\ st.idxToIid \in [Indices -> Iids \cup {NoIid}]
        /\ st.iidToIdx \in [Iids -> Indices \cup {NoIdx}]
        /\ DOMAIN st = {"idxToIid", "iidToIdx", "devices", "pads"}
    BY StateFields
  <2> QED BY <1>2, <2>1 DEF State
<1> HIDE DEF rest, shifted
<1>4. DOMAIN rest = 1 .. n /\ \A p \in 1 .. n : /\ rest[p] \in Device /\ rest[p].id \in Indices
  BY <1>1, DevicesFacts, ElementOfSeq
<1>5. \A p \in 1 .. n :
        /\ devices[p] \in Device
        /\ devices[p].iid = rest[p].iid
        /\ devices[p].idx = rest[p].idx
        /\ devices[p].id = IF rest[p].id - 1 \in shifted /\ p = First(WithId(rest, rest[p].id))
                           THEN rest[p].id - 1 ELSE rest[p].id
  <2>1. SUFFICES ASSUME NEW p \in 1 .. n
                 PROVE  /\ devices[p] \in Device
                        /\ devices[p].iid = rest[p].iid
                        /\ devices[p].idx = rest[p].idx
                        /\ devices[p].id = IF rest[p].id - 1 \in shifted
                                           /\ p = First(WithId(rest, rest[p].id))
                                           THEN rest[p].id - 1 ELSE rest[p].id
    OBVIOUS
  <2>2. /\ rest[p] \in Device /\ rest[p].id \in 0 .. MaxPads - 1 /\ p \in DOMAIN rest
    BY <1>4 DEF Indices
  <2>3. CASE rest[p].id - 1 \in shifted /\ p = First(WithId(rest, rest[p].id))
    <3>1. rest[p].id - 1 >= 0
      BY <2>3 DEF shifted, Shifted, Lines
    <3>2. rest[p].id - 1 \in Indices
      BY <2>2, <3>1, BoundFacts DEF Indices
    <3>3. devices[p] = [rest[p] EXCEPT !.id = rest[p].id - 1]
      BY <2>2, <2>3
    <3> HIDE DEF devices
    <3> QED BY <2>2, <2>3, <3>2, <3>3 DEF Device
  <2>4. CASE ~ (rest[p].id - 1 \in shifted /\ p = First(WithId(rest, rest[p].id)))
    <3>1. devices[p] = rest[p]
      BY <2>2, <2>4
    <3> HIDE DEF devices
    <3> QED BY <2>2, <2>4, <3>1
  <2> QED BY <2>3, <2>4
<1>6. DOMAIN devices = 1 .. n
  BY <1>4
<1>7. devices \in Seq(Device) /\ Len(devices) = n
  <2>1. devices \in [1 .. n -> Device]
    BY <1>4, <1>5
  <2> HIDE DEF devices, Device
  <2> QED BY <1>1, <2>1
<1>8. lines \in [Lines -> Line]
  <2>1. st.pads \in [Lines -> Line]
    BY StateFields
  <2>2. NoLine \in Line
    BY DEF NoLine, Line
  <2>3. \A i \in shifted : WithId(rest, i + 1) # {} => i + 1 \in Lines
    <3>1. SUFFICES ASSUME NEW i \in shifted, NEW p \in WithId(rest, i + 1) PROVE i + 1 \in Lines
      OBVIOUS
    <3>2. p \in 1 .. n /\ rest[p].id = i + 1
      BY <1>4 DEF WithId
    <3> QED BY <1>4, <3>2, BoundFacts
  <2> HIDE DEF Line
  <2> QED BY <2>1, <2>2, <2>3
<1>9. \A i \in Lines :
        lines[i] = CASE i \notin shifted -> st.pads[i]
                     [] i \in shifted /\ WithId(rest, i + 1) # {} -> st.pads[i + 1]
                     [] OTHER -> NoLine
  OBVIOUS
<1> HIDE DEF devices, lines
<1>10. Removed(st, id) \in State
  BY <1>3, <1>7, <1>8
<1> QED
  BY <1>1, <1>3, <1>5, <1>7, <1>9, <1>10 DEF MovedUp, rest, shifted

\* The disconnection of any instance keeps the type.
LEMMA DisconnectedType ==
  ASSUME NEW st \in State, NEW iid
  PROVE  Disconnected(st, iid) \in State
<1>1. CASE WithIid(st.devices, iid) = {}
  BY <1>1 DEF Disconnected
<1>2. CASE WithIid(st.devices, iid) # {}
  <2> DEFINE p == First(WithIid(st.devices, iid))
             id == st.devices[p].id
  <2>1. st.devices \in Seq(Device)
    BY StateFields
  <2>2. WithIid(st.devices, iid) \in SUBSET Nat
    BY <2>1, DevicesFacts DEF WithIid
  <2>3. p \in WithIid(st.devices, iid)
    BY <1>2, <2>2, FirstIsFound
  <2>4. p \in WithId(st.devices, id)
    BY <2>3 DEF WithIid, WithId
  <2>5. Disconnected(st, iid) = Removed(st, id)
    BY <1>2 DEF Disconnected
  <2> HIDE DEF p, id
  <2> QED BY <2>4, <2>5, RemovedFacts
<1> QED BY <1>1, <1>2

\* What the two erases leave.
LEMMA ErasedFacts ==
  ASSUME NEW st \in State, NEW iid \in Iids
  PROVE  /\ Erased(st, iid) \in State
         /\ Erased(st, iid).idxToIid =
              [i \in Indices |-> IF i = st.iidToIdx[iid] THEN NoIid ELSE st.idxToIid[i]]
         /\ Erased(st, iid).iidToIdx =
              [d \in Iids |-> IF d = iid THEN NoIdx ELSE st.iidToIdx[d]]
         /\ Erased(st, iid).devices = st.devices
         /\ Erased(st, iid).pads = st.pads
<1> DEFINE a == [i \in Indices |-> IF i = st.iidToIdx[iid] THEN NoIid ELSE st.idxToIid[i]]
           b == [d \in Iids |-> IF d = iid THEN NoIdx ELSE st.iidToIdx[d]]
<1>1. /\ st.idxToIid \in [Indices -> Iids \cup {NoIid}]
      /\ st.iidToIdx \in [Iids -> Indices \cup {NoIdx}]
      /\ DOMAIN st = {"idxToIid", "iidToIdx", "devices", "pads"}
  BY StateFields
<1>2. Erased(st, iid) = [st EXCEPT !.idxToIid = a, !.iidToIdx = b]
  <2>1. [st.idxToIid EXCEPT ![st.iidToIdx[iid]] = NoIid] = a
    BY <1>1
  <2>2. [st.iidToIdx EXCEPT ![iid] = NoIdx] = b
    BY <1>1
  <2>3. Erased(st, iid) = [[st EXCEPT !.idxToIid = [st.idxToIid EXCEPT ![st.iidToIdx[iid]] = NoIid]]
                             EXCEPT !.iidToIdx = [st.iidToIdx EXCEPT ![iid] = NoIdx]]
    BY <1>1 DEF Erased
  <2> HIDE DEF a, b
  <2> QED BY <2>1, <2>2, <2>3
<1>3. a \in [Indices -> Iids \cup {NoIid}] /\ b \in [Iids -> Indices \cup {NoIdx}]
  BY <1>1
<1> HIDE DEF a, b
<1>4. /\ Erased(st, iid).idxToIid = a /\ Erased(st, iid).iidToIdx = b
      /\ Erased(st, iid).devices = st.devices /\ Erased(st, iid).pads = st.pads
  BY <1>1, <1>2
<1>5. Erased(st, iid) \in State
  BY <1>1, <1>2, <1>3 DEF State
<1> QED BY <1>4, <1>5 DEF a, b

Moved(d, to) == [d EXCEPT !.idx = to]
Stored(lines, i, to) == [lines EXCEPT ![i].sdlidx = to]

\* What bkOnIndexChanged writes: a line, and the pad it found, if any.
LEMMA StoredType ==
  ASSUME NEW lines \in [Lines -> Line], NEW i \in Lines, NEW to \in Indices
  PROVE  Stored(lines, i, to) \in [Lines -> Line]
<1>1. [lines[i] EXCEPT !.sdlidx = to] \in Line
  BY DEF Line
<1>2. Stored(lines, i, to) = [lines EXCEPT ![i] = [lines[i] EXCEPT !.sdlidx = to]]
  BY DEF Stored
<1> HIDE DEF Line
<1> QED BY <1>1, <1>2

\* indexChanged changes the first device that has the index, and the line of
\* its player.
LEMMA IndexChangedFound ==
  ASSUME NEW st \in State, NEW from, NEW to \in Indices, NEW any \in Lines,
         WithIdx(st.devices, from) # {}, NEW p \in DOMAIN st.devices,
         p = First(WithIdx(st.devices, from))
  PROVE  /\ IndexChanged(st, from, to, any) \in State
         /\ IndexChanged(st, from, to, any).idxToIid = st.idxToIid
         /\ IndexChanged(st, from, to, any).iidToIdx = st.iidToIdx
         /\ IndexChanged(st, from, to, any).devices =
              With(st.devices, p, Moved(st.devices[p], to))
         /\ IndexChanged(st, from, to, any).pads = Stored(st.pads, st.devices[p].id, to)
<1> DEFINE devices == With(st.devices, p, Moved(st.devices[p], to))
           lines == Stored(st.pads, st.devices[p].id, to)
<1>1. /\ st.idxToIid \in [Indices -> Iids \cup {NoIid}]
      /\ st.iidToIdx \in [Iids -> Indices \cup {NoIdx}]
      /\ st.devices \in Seq(Device) /\ st.pads \in [Lines -> Line]
      /\ DOMAIN st = {"idxToIid", "iidToIdx", "devices", "pads"}
  BY StateFields
<1>2. st.devices[p] \in Device /\ st.devices[p].id \in Lines
  <2>1. st.devices[p] \in Device
    <3> HIDE DEF Device
    <3> QED BY <1>1, ElementOfSeq
  <2> QED BY <2>1, BoundFacts DEF Device
<1>3. devices \in Seq(Device)
  <2>1. Moved(st.devices[p], to) \in Device
    BY <1>2 DEF Device, Moved
  <2> QED BY <1>1, <2>1, WithFacts
<1>4. lines \in [Lines -> Line]
  BY <1>1, <1>2, StoredType
<1>5. IndexChanged(st, from, to, any) = [st EXCEPT !.devices = devices, !.pads = lines]
  BY <1>1 DEF IndexChanged, Moved, Stored
<1> HIDE DEF devices, lines
<1>6. IndexChanged(st, from, to, any) \in State
  BY <1>1, <1>3, <1>4, <1>5 DEF State
<1>7. /\ IndexChanged(st, from, to, any).idxToIid = st.idxToIid
      /\ IndexChanged(st, from, to, any).iidToIdx = st.iidToIdx
      /\ IndexChanged(st, from, to, any).devices = devices
      /\ IndexChanged(st, from, to, any).pads = lines
  BY <1>1, <1>5
<1> QED BY <1>6, <1>7 DEF devices, lines

\* indexChanged keeps the type, also when no device has the index.
LEMMA IndexChangedType ==
  ASSUME NEW st \in State, NEW from, NEW to \in Indices, NEW any \in Lines
  PROVE  IndexChanged(st, from, to, any) \in State
<1>1. CASE WithIdx(st.devices, from) = {}
  <2>1. Stored(st.pads, any, to) \in [Lines -> Line]
    BY StateFields, StoredType
  <2>2. IndexChanged(st, from, to, any) = [st EXCEPT !.pads = Stored(st.pads, any, to)]
    BY <1>1, StateFields DEF IndexChanged, Stored
  <2> QED BY <2>1, <2>2 DEF State
<1>2. CASE WithIdx(st.devices, from) # {}
  <2>1. WithIdx(st.devices, from) \in SUBSET Nat
    BY StateFields, DevicesFacts DEF WithIdx
  <2>2. First(WithIdx(st.devices, from)) \in DOMAIN st.devices
    <3>1. First(WithIdx(st.devices, from)) \in WithIdx(st.devices, from)
      BY <1>2, <2>1, FirstIsFound
    <3> QED BY <3>1 DEF WithIdx
  <2> QED BY <1>2, <2>2, IndexChangedFound
<1> QED BY <1>1, <1>2

\* The two maps of a turn that changes something.
Remapped(st, j) ==
  LET iid == joysticks[j]
  IN  [st EXCEPT !.iidToIdx[iid] = j - 1,
                 !.idxToIid = Emplace([@ EXCEPT ![st.iidToIdx[iid]] = NoIid], j - 1, iid, NoIid)]

\* The maps after one turn of the loop.
LEMMA RemappedFacts ==
  ASSUME NEW st \in State, NEW j, joysticks[j] \in Iids, j - 1 \in Indices
  PROVE  /\ Remapped(st, j) \in State
         /\ Remapped(st, j).devices = st.devices
         /\ Remapped(st, j).pads = st.pads
         /\ \A d \in Iids : Remapped(st, j).iidToIdx[d] =
                              IF d = joysticks[j] THEN j - 1 ELSE st.iidToIdx[d]
         /\ \A i \in Indices :
              Remapped(st, j).idxToIid[i] # NoIid =>
                \/ i = j - 1 /\ Remapped(st, j).idxToIid[i] = joysticks[j]
                \/ /\ i # st.iidToIdx[joysticks[j]]
                   /\ Remapped(st, j).idxToIid[i] = st.idxToIid[i]
<1> DEFINE iid == joysticks[j]
           old == st.iidToIdx[iid]
           freed == [st.idxToIid EXCEPT ![old] = NoIid]
           a == Emplace(freed, j - 1, iid, NoIid)
           b == [st.iidToIdx EXCEPT ![iid] = j - 1]
<1>1. /\ st.idxToIid \in [Indices -> Iids \cup {NoIid}]
      /\ st.iidToIdx \in [Iids -> Indices \cup {NoIdx}]
      /\ DOMAIN st = {"idxToIid", "iidToIdx", "devices", "pads"}
  BY StateFields
<1>2. Remapped(st, j) = [st EXCEPT !.iidToIdx = b, !.idxToIid = a]
  BY <1>1 DEF Remapped
<1>3. freed \in [Indices -> Iids \cup {NoIid}]
      /\ \A i \in Indices : freed[i] = IF i = old THEN NoIid ELSE st.idxToIid[i]
  BY <1>1
<1>4. b \in [Iids -> Indices \cup {NoIdx}]
      /\ \A d \in Iids : b[d] = IF d = iid THEN j - 1 ELSE st.iidToIdx[d]
  BY <1>1
<1> HIDE DEF b, freed
<1>5. a \in [Indices -> Iids \cup {NoIid}]
      /\ \A i \in Indices : a[i] = IF i = j - 1 /\ freed[j - 1] = NoIid THEN iid ELSE freed[i]
  BY <1>3 DEF Emplace
<1> HIDE DEF a
<1>6. /\ Remapped(st, j).idxToIid = a /\ Remapped(st, j).iidToIdx = b
      /\ Remapped(st, j).devices = st.devices /\ Remapped(st, j).pads = st.pads
  BY <1>1, <1>2
<1>7. Remapped(st, j) \in State
  BY <1>1, <1>2, <1>4, <1>5 DEF State
<1>8. \A i \in Indices : a[i] # NoIid => \/ i = j - 1 /\ a[i] = iid
                                         \/ i # old /\ a[i] = st.idxToIid[i]
  BY <1>3, <1>5
<1> QED BY <1>4, <1>6, <1>7, <1>8

\* One turn is the change of the maps, and then indexChanged.
LEMMA ReindexedIs ==
  ASSUME NEW st \in State, NEW j, joysticks[j] \in Iids, NEW any
  PROVE  Reindexed(st, j, any) =
           IF st.iidToIdx[joysticks[j]] = j - 1 THEN st
           ELSE IndexChanged(Remapped(st, j), st.iidToIdx[joysticks[j]], j - 1, any)
BY DEF Reindexed, Remapped

\* One turn keeps the type.
LEMMA ReindexedType ==
  ASSUME NEW st \in State, NEW j, joysticks[j] \in Iids, j - 1 \in Indices, NEW any \in Lines
  PROVE  Reindexed(st, j, any) \in State
<1>1. Remapped(st, j) \in State
  BY RemappedFacts
<1>2. \A from : IndexChanged(Remapped(st, j), from, j - 1, any) \in State
  BY <1>1, IndexChangedType
<1> QED BY <1>2, ReindexedIs

-----------------------------------------------------------------------------
(***************************************************************************)
(* The loop of remove_pad_by_iid.                                          *)
(***************************************************************************)

Turn(s, j, any) == IF j \in Known THEN Reindexed(s, j, any) ELSE s

\* The function Turns is defined by recursion exists: each turn of the loop
\* follows from the one before.
LEMMA TurnsFollow ==
  ASSUME Len(joysticks) \in Nat, NEW st, NEW any
  PROVE  LET turns == Turns(st, any)
         IN  /\ turns[0] = st
             /\ \A j \in 1 .. Len(joysticks) : turns[j] = Turn(turns[j - 1], j, any)
<1> DEFINE IsLoop(h, n) ==
             h = [j \in 0 .. n |-> IF j = 0 THEN st ELSE Turn(h[j - 1], j, any)]
           n == Len(joysticks)
           N == {m \in 0 .. n : ~ \E h : IsLoop(h, m)}
<1>1. N = {}
  <2>1. SUFFICES ASSUME N # {} PROVE FALSE
    OBVIOUS
  <2>2. PICK m \in N : \A k \in N : m <= k
    <3> N \in SUBSET Nat
      OBVIOUS
    <3> HIDE DEF N
    <3> QED BY <2>1, LeastNat
  <2>3. m # 0
    <3>1. IsLoop([j \in 0 .. 0 |-> st], 0)
      OBVIOUS
    <3> QED BY <3>1
  <2>4. m \in Nat /\ m - 1 \in 0 .. n /\ m - 1 \notin N
    BY <2>2, <2>3
  <2>5. PICK g : IsLoop(g, m - 1)
    BY <2>4
  <2> DEFINE h == [j \in 0 .. m |-> IF j = m THEN Turn(g[m - 1], m, any) ELSE g[j]]
  <2>6. \A j \in 0 .. m - 1 : h[j] = g[j]
    BY <2>4
  <2>7. \A j \in 0 .. m : h[j] = IF j = 0 THEN st ELSE Turn(h[j - 1], j, any)
    <3>1. SUFFICES ASSUME NEW j \in 0 .. m
                   PROVE  h[j] = IF j = 0 THEN st ELSE Turn(h[j - 1], j, any)
      OBVIOUS
    <3>2. CASE j = m
      <4>1. j - 1 \in 0 .. m - 1 /\ j # 0
        BY <2>3, <2>4, <3>2
      <4>2. h[j - 1] = g[j - 1]
        BY <4>1, <2>6
      <4>3. h[j] = Turn(g[m - 1], m, any)
        BY <3>2
      <4> HIDE DEF h
      <4> QED BY <3>2, <4>1, <4>2, <4>3
    <3>3. CASE j # m
      <4>1. j \in 0 .. m - 1 /\ h[j] = g[j]
        BY <3>3, <2>4, <2>6
      <4>2. g[j] = IF j = 0 THEN st ELSE Turn(g[j - 1], j, any)
        BY <2>5, <4>1
      <4>3. j # 0 => j - 1 \in 0 .. m - 1 /\ h[j - 1] = g[j - 1]
        BY <4>1, <2>4, <2>6
      <4> HIDE DEF h
      <4> QED BY <4>1, <4>2, <4>3
    <3> QED BY <3>2, <3>3
  <2>8. IsLoop(h, m)
    <3>1. h = [j \in 0 .. m |-> h[j]]
      OBVIOUS
    <3> HIDE DEF h
    <3> QED BY <3>1, <2>7
  <2> QED BY <2>2, <2>8
<1>2. \E h : IsLoop(h, n)
  <2>1. n \notin N /\ n \in 0 .. n
    BY <1>1
  <2> QED BY <2>1
<1>3. Turns(st, any) = CHOOSE h : IsLoop(h, n)
  BY DEF Turns, Turn
<1>4. IsLoop(Turns(st, any), n)
  <2> HIDE DEF IsLoop
  <2> QED BY <1>2, <1>3
<1> HIDE DEF N
<1> DEFINE turns == Turns(st, any)
<1>5. turns = [j \in 0 .. n |-> IF j = 0 THEN st ELSE Turn(turns[j - 1], j, any)]
  BY <1>4
<1> HIDE DEF turns
<1>6. turns[0] = st
  BY <1>5
<1>7. \A j \in 1 .. n : turns[j] = Turn(turns[j - 1], j, any)
  BY <1>5
<1> QED BY <1>6, <1>7 DEF turns

\* What every turn keeps, the whole loop keeps.
LEMMA LoopKeepsType ==
  ASSUME joysticks \in Seq(Iids), Len(joysticks) <= MaxPads,
         NEW st \in State, NEW any \in Lines
  PROVE  \A j \in 0 .. Len(joysticks) : Turns(st, any)[j] \in State
<1> DEFINE turns == Turns(st, any)
           N == {j \in 0 .. Len(joysticks) : turns[j] \notin State}
<1>1. /\ turns[0] = st
      /\ \A j \in 1 .. Len(joysticks) : turns[j] = Turn(turns[j - 1], j, any)
  BY TurnsFollow
<1> HIDE DEF turns
<1>2. SUFFICES ASSUME N # {} PROVE FALSE
  BY DEF turns
<1>3. PICK m \in N : \A k \in N : m <= k
  <2> N \in SUBSET Nat
    OBVIOUS
  <2> HIDE DEF N
  <2> QED BY <1>2, LeastNat
<1>4. m # 0
  BY <1>1
<1>5. m \in 1 .. Len(joysticks) /\ turns[m - 1] \in State
  BY <1>3, <1>4
<1>6. joysticks[m] \in Iids /\ m - 1 \in Indices
  <2>1. joysticks[m] \in Iids
    BY <1>5, ElementOfSeq
  <2>2. m - 1 \in 0 .. MaxPads - 1
    BY <1>5, BoundFacts
  <2> QED BY <2>1, <2>2 DEF Indices
<1>7. Turn(turns[m - 1], m, any) \in State
  BY <1>5, <1>6, ReindexedType DEF Turn
<1> QED BY <1>1, <1>3, <1>5, <1>7

-----------------------------------------------------------------------------
(***************************************************************************)
(* Types.                                                                  *)
(***************************************************************************)

IsAdded(n)   == events[n].kind = "added"
IsRemoved(n) == events[n].kind = "removed"

\* The queue names pads that SDL has, and a recording one that it had.
SdlType ==
  /\ plugs \in 0 .. MaxPlugs
  /\ Len(joysticks) <= MaxPads
  /\ events \in Seq(Event)
  /\ \A n \in DOMAIN events : IsAdded(n) => events[n].which < Len(joysticks)
  /\ \A n, k \in DOMAIN events : n # k /\ IsAdded(n) /\ IsAdded(k) => events[n].which # events[k].which
  /\ target \in Iids \cup {NoIid}
  /\ m_recording # NoIdx => target \in Iids
  /\ disturbed \in BOOLEAN

Typed == TypeOK /\ SdlType

\* What remove_pad_by_iid starts from.
Now == [idxToIid |-> m_idx_to_iid, iidToIdx |-> m_iid_to_idx,
        devices |-> m_devices, pads |-> pads]

\* The variables are a record of this type.
LEMMA NowType == TypeOK => Now \in State
BY DEF TypeOK, Now, State, Device, Line

\* What the types say of the variables, to be cited.
LEMMA TypeOfNow ==
  ASSUME Typed
  PROVE  /\ joysticks \in Seq(Iids) /\ Len(joysticks) \in Nat /\ Len(joysticks) <= MaxPads
         /\ DOMAIN joysticks = 1 .. Len(joysticks)
         /\ \A j \in DOMAIN joysticks : joysticks[j] \in Iids /\ j - 1 \in Indices
         /\ events \in Seq(Event) /\ Len(events) \in Nat /\ DOMAIN events = 1 .. Len(events)
         /\ \A n \in DOMAIN events :
              \/ IsAdded(n) /\ ~ IsRemoved(n) /\ events[n].which \in Indices
                   /\ events[n].which < Len(joysticks)
              \/ IsRemoved(n) /\ ~ IsAdded(n) /\ events[n].which \in Iids
         /\ m_idx_to_iid \in [Indices -> Iids \cup {NoIid}]
         /\ m_iid_to_idx \in [Iids -> Indices \cup {NoIdx}]
         /\ m_devices \in Seq(Device) /\ pads \in [Lines -> Line]
<1>1. joysticks \in Seq(Iids) /\ Len(joysticks) <= MaxPads /\ events \in Seq(Event)
  BY DEF Typed, TypeOK, SdlType
<1>2. \A j \in DOMAIN joysticks : joysticks[j] \in Iids /\ j - 1 \in Indices
  <2>1. SUFFICES ASSUME NEW j \in DOMAIN joysticks PROVE joysticks[j] \in Iids /\ j - 1 \in Indices
    OBVIOUS
  <2>2. joysticks[j] \in Iids
    BY <1>1, ElementOfSeq
  <2>3. j - 1 \in 0 .. MaxPads - 1
    BY <1>1, BoundFacts
  <2> QED BY <2>2, <2>3 DEF Indices
<1>3. \A n \in DOMAIN events : events[n] \in Event
  <2> HIDE DEF Event
  <2> QED BY <1>1, ElementOfSeq
<1>4. \A n \in DOMAIN events :
              \/ IsAdded(n) /\ ~ IsRemoved(n) /\ events[n].which \in Indices
                   /\ events[n].which < Len(joysticks)
              \/ IsRemoved(n) /\ ~ IsAdded(n) /\ events[n].which \in Iids
  BY <1>3 DEF Event, IsAdded, IsRemoved, Typed, SdlType
<1>5. /\ m_idx_to_iid \in [Indices -> Iids \cup {NoIid}]
      /\ m_iid_to_idx \in [Iids -> Indices \cup {NoIdx}]
      /\ m_devices \in Seq(Device) /\ pads \in [Lines -> Line]
  BY DEF Typed, TypeOK, Device, Line
<1> QED BY <1>1, <1>2, <1>4, <1>5

\* The first state has the types.
LEMMA InitTyped == Init => Typed
<1> SUFFICES ASSUME Init PROVE Typed
  OBVIOUS
<1>1. pads \in [Lines -> Line]
  <2>1. NoLine \in Line
    BY DEF NoLine, Line
  <2>2. OldLine \in Line
    BY BoundFacts DEF OldLine, Line, Indices
  <2> HIDE DEF Line
  <2> QED BY <2>1, <2>2 DEF Init
<1>2. TypeOK
  BY <1>1 DEF Init, TypeOK, Line
<1>3. disturbed \in BOOLEAN
  BY Zenon DEF Init
<1>4. SdlType
  BY <1>3, BoundFacts DEF Init, SdlType
<1> QED BY <1>2, <1>4 DEF Typed

\* A pad that comes names itself in the queue by an index below its bound.
LEMMA PlugKeepsTypes == Typed /\ Plug => Typed'
<1> SUFFICES ASSUME Typed, Plug PROVE Typed'
  OBVIOUS
<1>1. joysticks' = Append(joysticks, plugs + 1) /\ plugs' = plugs + 1 /\ plugs' \in Iids
  BY BoundFacts DEF Plug, Typed, SdlType, Iids
<1>2. joysticks' \in Seq(Iids) /\ Len(joysticks') = Len(joysticks) + 1
  BY <1>1, TypeOfNow
<1> DEFINE e == [kind |-> "added", which |-> Len(joysticks)]
<1>3. Len(joysticks) < MaxPads /\ events' = Append(events, e)
  BY DEF Plug
<1>4. e \in Event
  BY <1>3, TypeOfNow, BoundFacts DEF Event, Indices
<1>5. /\ events' \in Seq(Event) /\ DOMAIN events' = 1 .. Len(events) + 1
      /\ \A n \in DOMAIN events' : events'[n] = IF n = Len(events) + 1 THEN e ELSE events[n]
  <2> HIDE DEF e, Event
  <2> QED BY <1>3, <1>4, TypeOfNow
<1>6. \A n \in DOMAIN events' : IsAdded(n)' => events'[n].which < Len(joysticks')
  <2>1. SUFFICES ASSUME NEW n \in DOMAIN events', IsAdded(n)'
                 PROVE  events'[n].which < Len(joysticks')
    OBVIOUS
  <2>2. CASE n = Len(events) + 1
    BY <1>2, <1>5, <2>2, TypeOfNow
  <2>3. CASE n # Len(events) + 1
    <3>1. n \in DOMAIN events /\ events'[n] = events[n]
      BY <1>5, <2>3, TypeOfNow
    <3>2. IsAdded(n)
      BY <2>1, <3>1 DEF IsAdded
    <3>3. events[n].which \in Nat /\ events[n].which < Len(joysticks)
      BY <3>1, <3>2, TypeOfNow, BoundFacts
    <3> QED BY <1>2, <3>1, <3>3, TypeOfNow
  <2> QED BY <2>2, <2>3
<1>a. \A n \in DOMAIN events' : n # Len(events) + 1 => /\ n \in DOMAIN events
                                                        /\ IsAdded(n)' = IsAdded(n)
                                                        /\ events'[n] = events[n]
  BY <1>5, TypeOfNow DEF IsAdded
<1>b. \A n, k \in DOMAIN events' : n # k /\ IsAdded(n)' /\ IsAdded(k)' =>
        events'[n].which # events'[k].which
  <2>1. \A n \in DOMAIN events' : n # Len(events) + 1 /\ IsAdded(n)' => events'[n].which # Len(joysticks)
    BY <1>a, TypeOfNow, BoundFacts
  <2>2. \A n \in DOMAIN events' : n = Len(events) + 1 => events'[n].which = Len(joysticks)
    BY <1>5
  <2>3. SUFFICES ASSUME NEW n \in DOMAIN events', NEW k \in DOMAIN events',
                        n # k, IsAdded(n)', IsAdded(k)'
                 PROVE  events'[n].which # events'[k].which
    OBVIOUS
  <2>4. CASE n = Len(events) + 1 \/ k = Len(events) + 1
    BY <2>1, <2>2, <2>3, <2>4
  <2>5. CASE n # Len(events) + 1 /\ k # Len(events) + 1
    BY <1>a, <2>3, <2>5 DEF Typed, SdlType
  <2> QED BY <2>4, <2>5
<1>7. TypeOK'
  BY <1>2 DEF Plug, Typed, TypeOK, mapVars, recordVars
<1>8. SdlType'
  BY <1>1, <1>2, <1>3, <1>5, <1>6, <1>b, TypeOfNow, BoundFacts DEF Plug, Typed, SdlType, recordVars, Iids
<1> QED BY <1>7, <1>8 DEF Typed

\* The indices in the queue stay in the list that has become shorter, and apart.
LEMMA UnplugKeepsTypes == Typed /\ (\E i \in 1 .. MaxPads : Unplug(i)) => Typed'
<1> SUFFICES ASSUME Typed, NEW i, Unplug(i) PROVE Typed'
  OBVIOUS
<1>1. i \in DOMAIN joysticks /\ joysticks' = RemoveAt(joysticks, i)
  BY DEF Unplug
<1>2. joysticks' \in Seq(Iids) /\ Len(joysticks') = Len(joysticks) - 1
  BY <1>1, TypeOfNow, RemoveAtFacts
<1> DEFINE lost == {n \in DOMAIN events : events[n] = [kind |-> "added", which |-> i - 1]}
           others == IF lost = {} THEN events ELSE RemoveAt(events, First(lost))
           moved == [n \in DOMAIN others |->
                      IF others[n].kind = "added" /\ others[n].which > i - 1
                      THEN [others[n] EXCEPT !.which = @ - 1] ELSE others[n]]
           e == [kind |-> "removed", which |-> joysticks[i]]
           From(n) == IF lost = {} \/ n < First(lost) THEN n ELSE n + 1
<1>3. events' = IF m_iid_to_idx[joysticks[i]] = NoIdx THEN moved ELSE Append(moved, e)
  BY DEF Unplug
<1>4. /\ others \in Seq(Event) /\ Len(others) \in Nat /\ DOMAIN others = 1 .. Len(others)
      /\ \A n \in DOMAIN others : /\ From(n) \in DOMAIN events /\ others[n] = events[From(n)]
                                  /\ From(n) \notin lost
      /\ \A n, k \in DOMAIN others : n # k => From(n) # From(k)
  <2>1. CASE lost = {}
    BY <2>1, TypeOfNow
  <2>2. CASE lost # {}
    <3>1. lost \in SUBSET Nat
      BY TypeOfNow
    <3>2. First(lost) \in 1 .. Len(events) /\ First(lost) \in lost
      <4> HIDE DEF lost
      <4>1. First(lost) \in lost
        BY <2>2, <3>1, FirstIsFound
      <4>2. lost \subseteq 1 .. Len(events)
        BY TypeOfNow DEF lost
      <4> QED BY <4>1, <4>2
    <3>3. \A n \in lost : n = First(lost)
      <4>1. \A n \in lost : n \in DOMAIN events /\ IsAdded(n) /\ events[n].which = i - 1
        BY DEF IsAdded
      <4> HIDE DEF lost
      <4> QED BY <3>2, <4>1 DEF Typed, SdlType
    <3> HIDE DEF lost, Event
    <3>4. /\ others \in Seq(Event) /\ Len(others) = Len(events) - 1
          /\ \A n \in 1 .. Len(events) - 1 :
               others[n] = IF n < First(lost) THEN events[n] ELSE events[n + 1]
      BY <2>2, <3>2, TypeOfNow, RemoveAtFacts
    <3> HIDE DEF others
    <3>5. Len(others) \in Nat /\ DOMAIN others = 1 .. Len(events) - 1
      BY <3>4, TypeOfNow
    <3>6. \A n \in DOMAIN others : /\ From(n) \in DOMAIN events /\ others[n] = events[From(n)]
                                   /\ From(n) # First(lost)
      BY <2>2, <3>2, <3>4, <3>5, TypeOfNow
    <3>7. \A n, k \in DOMAIN others : n # k => From(n) # From(k)
      BY <3>2, <3>5, TypeOfNow
    <3> QED BY <3>3, <3>4, <3>5, <3>6, <3>7
  <2> QED BY <2>1, <2>2
<1>5. \A k \in DOMAIN events : k \notin lost /\ IsAdded(k) => events[k].which # i - 1
  <2>1. \A k \in DOMAIN events : IsAdded(k) => events[k] \in [kind : {"added"}, which : Indices]
    <3>1. \A k \in DOMAIN events : events[k] \in Event
      <4> HIDE DEF Event
      <4> QED BY TypeOfNow, ElementOfSeq
    <3> QED BY <3>1 DEF Event, IsAdded
  <2> QED BY <2>1
<1> HIDE DEF others, lost, From
<1>6. \A n \in DOMAIN others :
        /\ moved[n] \in Event
        /\ moved[n].kind = others[n].kind
        /\ others[n].kind = "added" =>
             /\ IsAdded(From(n))
             /\ events[From(n)].which \in Nat /\ events[From(n)].which # i - 1
             /\ moved[n].which < Len(joysticks) - 1
             /\ moved[n].which = IF events[From(n)].which > i - 1
                                 THEN events[From(n)].which - 1 ELSE events[From(n)].which
  <2>1. SUFFICES ASSUME NEW n \in DOMAIN others
                 PROVE  /\ moved[n] \in Event
                        /\ moved[n].kind = others[n].kind
                        /\ others[n].kind = "added" =>
                             /\ IsAdded(From(n))
                             /\ events[From(n)].which \in Nat /\ events[From(n)].which # i - 1
                             /\ moved[n].which < Len(joysticks) - 1
                             /\ moved[n].which = IF events[From(n)].which > i - 1
                                                 THEN events[From(n)].which - 1 ELSE events[From(n)].which
    OBVIOUS
  <2>2. From(n) \in DOMAIN events /\ others[n] = events[From(n)] /\ From(n) \notin lost
    BY <1>4
  <2>3. i \in Nat /\ i >= 1 /\ i <= Len(joysticks) /\ Len(joysticks) \in Nat
    BY <1>1, TypeOfNow
  <2>4. others[n] \in Event
    <3> HIDE DEF Event
    <3> QED BY <1>4, ElementOfSeq
  <2>5. CASE others[n].kind = "added"
    <3>1. IsAdded(From(n)) /\ events[From(n)].which # i - 1
      BY <1>5, <2>2, <2>5 DEF IsAdded
    <3>2. others[n] \in [kind : {"added"}, which : Indices]
      BY <2>4, <2>5 DEF Event
    <3>3. others[n].which < Len(joysticks) /\ others[n].which # i - 1
      BY <2>2, <3>1, TypeOfNow
    <3>4. others[n].which \in 0 .. MaxPads - 1
      BY <3>2 DEF Indices
    <3>5. CASE others[n].which > i - 1
      <4>1. moved[n] = [others[n] EXCEPT !.which = others[n].which - 1]
        BY <2>1, <2>5, <3>5
      <4>2. others[n].which - 1 \in Indices
        BY <2>3, <3>4, <3>5, BoundFacts DEF Indices
      <4> HIDE DEF moved
      <4>3. /\ moved[n] \in [kind : {"added"}, which : Indices]
            /\ moved[n].which = others[n].which - 1
        BY <3>2, <4>1, <4>2
      <4> QED BY <2>2, <2>3, <2>5, <3>1, <3>3, <3>4, <3>5, <4>3 DEF Event
    <3>6. CASE ~ (others[n].which > i - 1)
      <4>1. moved[n] = others[n]
        BY <2>1, <3>6
      <4> HIDE DEF moved
      <4> QED BY <2>2, <2>3, <2>4, <2>5, <3>1, <3>3, <3>4, <3>6, <4>1
    <3> QED BY <3>5, <3>6
  <2>6. CASE others[n].kind # "added"
    <3>1. moved[n] = others[n]
      BY <2>1, <2>6
    <3> HIDE DEF moved
    <3> QED BY <2>4, <2>6, <3>1
  <2> QED BY <2>5, <2>6
<1>7. moved \in Seq(Event) /\ Len(moved) = Len(others) /\ DOMAIN moved = DOMAIN others
  <2>1. DOMAIN moved = 1 .. Len(others) /\ Len(others) \in Nat
    BY <1>4
  <2>2. moved \in [1 .. Len(others) -> Event]
    BY <1>4, <1>6
  <2> HIDE DEF moved, Event
  <2> QED BY <1>4, <2>1, <2>2
<1>8. \A n, k \in DOMAIN moved : n # k /\ moved[n].kind = "added" /\ moved[k].kind = "added" =>
        moved[n].which # moved[k].which
  <2>1. SUFFICES ASSUME NEW n \in DOMAIN moved, NEW k \in DOMAIN moved, n # k,
                        moved[n].kind = "added", moved[k].kind = "added"
                 PROVE  moved[n].which # moved[k].which
    OBVIOUS
  <2> HIDE DEF moved
  <2>2. n \in DOMAIN others /\ k \in DOMAIN others
          /\ others[n].kind = "added" /\ others[k].kind = "added"
    BY <1>6, <1>7, <2>1
  <2>3. /\ From(n) \in DOMAIN events /\ From(k) \in DOMAIN events /\ From(n) # From(k)
        /\ IsAdded(From(n)) /\ IsAdded(From(k))
    BY <1>4, <1>6, <2>1, <2>2
  <2>4. events[From(n)].which # events[From(k)].which
    BY <2>3 DEF Typed, SdlType
  <2>5. i \in Nat
    BY <1>1, TypeOfNow
  <2>6. /\ events[From(n)].which \in Nat /\ events[From(n)].which # i - 1
        /\ moved[n].which = IF events[From(n)].which > i - 1
                            THEN events[From(n)].which - 1 ELSE events[From(n)].which
    BY <1>6, <2>2
  <2>7. /\ events[From(k)].which \in Nat /\ events[From(k)].which # i - 1
        /\ moved[k].which = IF events[From(k)].which > i - 1
                            THEN events[From(k)].which - 1 ELSE events[From(k)].which
    BY <1>6, <2>2
  <2> QED BY <2>4, <2>5, <2>6, <2>7
<1> HIDE DEF moved
<1>9. e \in Event
  BY <1>1, TypeOfNow DEF Event
<1>10. /\ events' \in Seq(Event)
       /\ \A n \in DOMAIN events' : IsAdded(n)' => n \in DOMAIN moved /\ moved[n].kind = "added"
                                                     /\ events'[n] = moved[n]
  <2>1. CASE m_iid_to_idx[joysticks[i]] = NoIdx
    BY <1>3, <1>7, <2>1 DEF IsAdded
  <2>2. CASE m_iid_to_idx[joysticks[i]] # NoIdx
    <3>1. events' = Append(moved, e)
      BY <1>3, <2>2
    <3>2. e.kind # "added"
      OBVIOUS
    <3> HIDE DEF e, Event
    <3>3. /\ events' \in Seq(Event) /\ DOMAIN events' = 1 .. Len(moved) + 1
          /\ \A n \in DOMAIN events' : events'[n] = IF n = Len(moved) + 1 THEN e ELSE moved[n]
      BY <1>4, <1>7, <1>9, <3>1
    <3>4. \A n \in DOMAIN events' : n # Len(moved) + 1 => n \in DOMAIN moved
      BY <1>4, <1>7, <3>3
    <3> QED BY <3>2, <3>3, <3>4 DEF IsAdded
  <2> QED BY <2>1, <2>2
<1>11. TypeOK'
  BY <1>2 DEF Unplug, Typed, TypeOK, mapVars, recordVars
<1>12. SdlType'
  <2>1. \A n \in DOMAIN events' : IsAdded(n)' => events'[n].which < Len(joysticks')
    BY <1>2, <1>6, <1>7, <1>10
  <2>2. \A n, k \in DOMAIN events' : n # k /\ IsAdded(n)' /\ IsAdded(k)' =>
          events'[n].which # events'[k].which
    BY <1>8, <1>10
  <2>3. Len(joysticks') <= MaxPads
    BY <1>2, TypeOfNow, BoundFacts
  <2> HIDE DEF e
  <2> QED BY <1>10, <2>1, <2>2, <2>3 DEF Unplug, Typed, SdlType, recordVars
<1> QED BY <1>11, <1>12 DEF Typed

\* What is left of the queue after its first event.
LEMMA HandledFacts ==
  ASSUME Typed, events # <<>>, events' = Tail(events)
  PROVE  /\ events' \in Seq(Event) /\ Len(events) >= 1 /\ 1 \in DOMAIN events
         /\ Len(events') = Len(events) - 1 /\ DOMAIN events' = 1 .. Len(events) - 1
         /\ \A n \in DOMAIN events' : /\ n + 1 \in DOMAIN events
                                      /\ events'[n] = events[n + 1]
                                      /\ IsAdded(n)' = IsAdded(n + 1)
                                      /\ IsRemoved(n)' = IsRemoved(n + 1)
         /\ Head(events) = events[1]
<1> HIDE DEF Event
<1>1. /\ events \in Seq(Event) /\ Len(events) \in Nat /\ DOMAIN events = 1 .. Len(events)
  BY TypeOfNow
<1>2. /\ events' \in Seq(Event) /\ Len(events) >= 1
      /\ Len(events') = Len(events) - 1 /\ DOMAIN events' = 1 .. Len(events) - 1
      /\ \A n \in 1 .. Len(events) - 1 : events'[n] = events[n + 1]
      /\ Head(events) = events[1]
  BY <1>1
<1>3. \A n \in 1 .. Len(events) - 1 : n + 1 \in 1 .. Len(events)
  BY <1>1
<1> QED BY <1>1, <1>2, <1>3 DEF IsAdded, IsRemoved

\* The rest of the queue names pads that SDL has.
LEMMA HandledQueue ==
  ASSUME Typed, events # <<>>, events' = Tail(events), joysticks' = joysticks
  PROVE  /\ events' \in Seq(Event)
         /\ \A n \in DOMAIN events' : IsAdded(n)' => events'[n].which < Len(joysticks')
         /\ \A n, k \in DOMAIN events' : n # k /\ IsAdded(n)' /\ IsAdded(k)' =>
              events'[n].which # events'[k].which
<1>1. \A n \in DOMAIN events' : n \in Nat
  BY HandledFacts, TypeOfNow
<1>2. \A n, k \in DOMAIN events' : n # k => n + 1 # k + 1
  BY <1>1
<1> QED BY HandledFacts, TypeOfNow, <1>2 DEF Typed, SdlType

\* The pad that is added has an index and an instance of SDL.
LEMMA DeviceAddedKeepsTypes == Typed /\ DeviceAdded => Typed'
<1> SUFFICES ASSUME Typed, DeviceAdded PROVE Typed'
  OBVIOUS
<1> DEFINE idx == Head(events).which
           iid == joysticks[idx + 1]
<1>1. events # <<>> /\ events' = Tail(events) /\ joysticks' = joysticks /\ Head(events).kind = "added"
  BY DEF DeviceAdded
<1>2. idx \in Indices /\ idx + 1 \in DOMAIN joysticks /\ iid \in Iids
  <2>1. IsAdded(1) /\ 1 \in DOMAIN events /\ Head(events) = events[1]
    BY <1>1, HandledFacts DEF IsAdded
  <2>2. idx \in Indices /\ idx < Len(joysticks)
    BY <2>1, TypeOfNow
  <2>3. idx + 1 \in DOMAIN joysticks
    <3> HIDE DEF idx
    <3>1. idx \in Nat
      BY <2>2, BoundFacts
    <3> QED BY <2>2, <3>1, TypeOfNow
  <2> QED BY <2>2, <2>3, TypeOfNow
<1>3. /\ m_idx_to_iid' = Emplace(m_idx_to_iid, idx, iid, NoIid)
      /\ m_iid_to_idx' = Emplace(m_iid_to_idx, iid, idx, NoIdx)
      /\ Connected(idx, iid)
  BY DEF DeviceAdded
<1> HIDE DEF idx, iid
<1>4. /\ m_idx_to_iid' \in [Indices -> Iids \cup {NoIid}]
      /\ m_iid_to_idx' \in [Iids -> Indices \cup {NoIdx}]
  BY <1>2, <1>3, TypeOfNow DEF Emplace
<1>5. pads' \in [Lines -> Line]
  <2>1. [iid |-> iid, sdlidx |-> idx] \in Line /\ NoLine \in Line
    BY <1>2 DEF Line, NoLine
  <2> HIDE DEF Line
  <2> QED BY <1>3, <2>1, TypeOfNow DEF Connected
<1>6. m_devices' \in Seq(Device)
  <2>1. NewGamepad(idx, iid) \in Device
    BY <1>2 DEF NewGamepad, Device
  <2> HIDE DEF Device
  <2> QED BY <1>3, <2>1, TypeOfNow DEF Connected
<1>7. TypeOK'
  BY <1>4, <1>5, <1>6 DEF DeviceAdded, Typed, TypeOK, recordVars, Device, Line
<1>8. SdlType'
  BY <1>1, HandledQueue DEF DeviceAdded, Typed, SdlType, recordVars
<1> QED BY <1>7, <1>8 DEF Typed

\* A removal keeps the types, whatever the queue and the model hold.
LEMMA DeviceRemovedKeepsTypes == Typed /\ DeviceRemoved => Typed'
<1> SUFFICES ASSUME Typed, DeviceRemoved PROVE Typed'
  OBVIOUS
<1> DEFINE iid == Head(events).which
<1>1. /\ events # <<>> /\ events' = Tail(events) /\ joysticks' = joysticks
      /\ Head(events).kind = "removed"
  BY DEF DeviceRemoved
<1>2. PICK any \in Lines : LET st == AfterRemoval(iid, any)
                           IN  /\ m_idx_to_iid' = st.idxToIid
                               /\ m_iid_to_idx' = st.iidToIdx
                               /\ m_devices' = st.devices
                               /\ pads' = st.pads
                               /\ m_recording' = IF m_recording = m_iid_to_idx[iid] THEN NoIdx
                                                 ELSE m_recording
  BY DEF DeviceRemoved
<1>3. iid \in Iids
  <2>1. IsRemoved(1) /\ 1 \in DOMAIN events /\ Head(events) = events[1]
    BY <1>1, HandledFacts DEF IsRemoved
  <2> QED BY <2>1, TypeOfNow
<1> HIDE DEF iid
<1>4. AfterRemoval(iid, any) \in State
  <2>1. Now \in State
    BY NowType DEF Typed
  <2>2. Erased(Disconnected(Now, iid), iid) \in State
    BY <1>3, <2>1, DisconnectedType, ErasedFacts
  <2>3. AfterRemoval(iid, any) = Turns(Erased(Disconnected(Now, iid), iid), any)[Len(joysticks)]
    BY DEF AfterRemoval, Now
  <2> QED BY <2>2, <2>3, LoopKeepsType, TypeOfNow
<1>5. TypeOK'
  BY <1>1, <1>2, <1>4, StateFields DEF DeviceRemoved, Typed, TypeOK, Device, Line
<1>6. SdlType'
  BY <1>1, <1>2, HandledQueue DEF DeviceRemoved, Typed, SdlType
<1> QED BY <1>5, <1>6 DEF Typed

\* A swap keeps the types.
LEMMA SwapKeepsTypes ==
  ASSUME Typed, NEW i \in Indices, NEW j \in Indices, Swap(i, j)
  PROVE  Typed'
<1> DEFINE p == First(WithId(m_devices, i))
           q == First(WithId(m_devices, j))
           Changed(a, b) == [m_devices[a] EXCEPT !.iid = m_devices[b].iid, !.idx = m_devices[b].idx]
<1>1. p \in DOMAIN m_devices /\ q \in DOMAIN m_devices
  <2>1. /\ WithId(m_devices, i) # {} /\ WithId(m_devices, j) # {}
        /\ WithId(m_devices, i) \in SUBSET Nat /\ WithId(m_devices, j) \in SUBSET Nat
    BY TypeOfNow, DevicesFacts DEF Swap, WithId
  <2>2. p \in WithId(m_devices, i) /\ q \in WithId(m_devices, j)
    BY <2>1, FirstIsFound
  <2> QED BY <2>2 DEF WithId
<1>2. m_devices' = With(With(m_devices, p, Changed(p, q)), q, Changed(q, p))
  BY DEF Swap
<1>3. \A a, b \in DOMAIN m_devices : Changed(a, b) \in Device
  <2>1. \A a \in DOMAIN m_devices : m_devices[a] \in Device
    <3> HIDE DEF Device
    <3> QED BY TypeOfNow, ElementOfSeq
  <2> QED BY <2>1 DEF Device
<1> HIDE DEF p, q, Changed
<1>4. m_devices' \in Seq(Device)
  <2>1. With(m_devices, p, Changed(p, q)) \in Seq(Device)
    BY <1>1, <1>3, TypeOfNow, WithFacts
  <2> QED BY <1>1, <1>2, <1>3, <2>1, WithFacts
<1>5. pads' \in [Lines -> Line]
  <2> HIDE DEF Line
  <2> QED BY TypeOfNow, BoundFacts DEF Swap
<1>6. TypeOK'
  BY <1>4, <1>5 DEF Swap, Typed, TypeOK, sdlVars, mapVars, recordVars, Device, Line
<1>7. SdlType'
  BY DEF Swap, Typed, SdlType, sdlVars, recordVars, IsAdded
<1> QED BY <1>6, <1>7 DEF Typed

\* The menus set a device of the model, and its instance as the target.
LEMMA MenuKeepsTypes ==
  ASSUME Typed,
         \/ \E p \in DOMAIN m_devices : StartRecording(p) \/ Reset(p)
         \/ \E iid \in Iids : Record(iid)
  PROVE  Typed'
<1>1. m_recording' \in Indices \cup {NoIdx} /\ target' \in Iids \cup {NoIid}
        /\ (m_recording' # NoIdx => target' \in Iids)
  <2>1. \A p \in DOMAIN m_devices : m_devices[p].iid \in Iids /\ m_devices[p].idx \in Indices
    BY TypeOfNow, DevicesFacts
  <2>2. m_recording \in Indices \cup {NoIdx} /\ target \in Iids \cup {NoIid}
          /\ (m_recording # NoIdx => target \in Iids)
    BY DEF Typed, TypeOK, SdlType
  <2>3. ASSUME NEW p \in DOMAIN m_devices, StartRecording(p) PROVE <1>1!:
    BY <2>1, <2>3 DEF StartRecording
  <2>4. ASSUME NEW p \in DOMAIN m_devices, Reset(p) PROVE <1>1!:
    BY <2>1, <2>4 DEF Reset, Finish
  <2>5. ASSUME NEW iid \in Iids, Record(iid) PROVE <1>1!:
    BY <2>2, <2>5 DEF Record, Finish
  <2> QED BY <2>3, <2>4, <2>5
<1>2. UNCHANGED <<crossed, sdlVars, mapVars, m_devices, pads>>
  BY DEF StartRecording, Reset, Record
<1>3. disturbed' = FALSE \/ disturbed' = disturbed
  BY Zenon DEF StartRecording, Reset, Record
<1>4. disturbed' \in BOOLEAN
  BY <1>3, Zenon DEF Typed, SdlType
<1> QED BY <1>1, <1>2, <1>4 DEF Typed, TypeOK, SdlType, sdlVars, mapVars, IsAdded

\* A step of nothing keeps the types.
LEMMA FrameKeepsTypes == Typed /\ UNCHANGED vars => Typed'
BY DEF vars, sdlVars, mapVars, recordVars, Typed, TypeOK, SdlType, IsAdded

\* The types are an invariant by themselves.
LEMMA TypesInvariant == Spec => []Typed
<1>1. Typed /\ [Next]_vars => Typed'
  BY PlugKeepsTypes, UnplugKeepsTypes, DeviceAddedKeepsTypes, DeviceRemovedKeepsTypes,
     SwapKeepsTypes, MenuKeepsTypes, FrameKeepsTypes DEF Next
<1> QED
  BY <1>1, InitTyped, PTL DEF Spec

\* Whatever comes and goes, and however adds and removals cross: the maps, the
\* model and the lines keep their shape, and no index leaves SDL's range.
THEOREM TypeCorrect == Spec => []TypeOK
<1>1. Typed => TypeOK
  BY DEF Typed
<1> QED
  BY <1>1, TypesInvariant, PTL

-----------------------------------------------------------------------------
(***************************************************************************)
(* What remove_pad_by_iid keeps: every pad of the model has its own        *)
(* instance, the index that the maps have for it, and its line.            *)
(***************************************************************************)

LineOf(d) == [iid |-> d.iid, sdlidx |-> d.idx]

Agree(st) ==
  /\ \A p \in DOMAIN st.devices : /\ st.devices[p].id = p - 1
                                  /\ st.iidToIdx[st.devices[p].iid] = st.devices[p].idx
  /\ \A p, q \in DOMAIN st.devices : p # q => st.devices[p].iid # st.devices[q].iid
  /\ \A i \in Indices : st.idxToIid[i] # NoIid => st.iidToIdx[st.idxToIid[i]] = i

LinesAgree(st) ==
  \A i \in Lines : st.pads[i] = IF i < Len(st.devices) THEN LineOf(st.devices[i + 1]) ELSE NoLine

\* The pad at p0 is taken out of the model, its line and the maps.
LEMMA ErasedAgrees ==
  ASSUME NEW st \in State, Agree(st), LinesAgree(st),
         NEW p0 \in DOMAIN st.devices, NEW iid, iid = st.devices[p0].iid
  PROVE  LET new == Erased(Disconnected(st, iid), iid)
         IN  /\ new \in State /\ Agree(new) /\ LinesAgree(new)
             /\ Len(new.devices) = Len(st.devices) - 1
             /\ \A d \in Iids : new.iidToIdx[d] = IF d = iid THEN NoIdx ELSE st.iidToIdx[d]
             /\ \A p \in DOMAIN new.devices : new.devices[p].iid # iid
             /\ \A p \in DOMAIN st.devices : p # p0 =>
                  \E q \in DOMAIN new.devices : new.devices[q].iid = st.devices[p].iid
<1> DEFINE n == Len(st.devices)
           id == p0 - 1
           rest == Rest(st, id)
           gone == Removed(st, id)
           new == Erased(Disconnected(st, iid), iid)
<1>1. /\ st.devices \in Seq(Device) /\ DOMAIN st.devices = 1 .. n /\ n \in Nat
      /\ \A p \in 1 .. n : /\ st.devices[p].id \in Indices
                           /\ st.devices[p].iid \in Iids
                           /\ st.devices[p].idx \in Indices
  BY StateFields, DevicesFacts
<1>2. p0 \in 1 .. n /\ p0 \in Nat /\ iid \in Iids /\ id \in Nat
  BY <1>1
<1>3. \A p \in 1 .. n : st.devices[p].id = p - 1
  BY <1>1 DEF Agree
<1>4. WithId(st.devices, id) = {p0}
  BY <1>1, <1>2, <1>3 DEF WithId
<1>5. Disconnected(st, iid) = gone
  <2>1. WithIid(st.devices, iid) = {p0}
    BY DEF Agree, WithIid
  <2>2. First({p0}) = p0
    BY <1>2, FirstOfOne
  <2>3. st.devices[p0].id = id
    BY <1>2, <1>3
  <2> QED BY <2>1, <2>2, <2>3 DEF Disconnected
<1>6. /\ rest \in Seq(Device) /\ Len(rest) = n - 1 /\ DOMAIN rest = 1 .. n - 1
      /\ \A p \in 1 .. n - 1 : rest[p] = IF p < p0 THEN st.devices[p] ELSE st.devices[p + 1]
  <2>1. First(WithId(st.devices, id)) = p0
    BY <1>2, <1>4, FirstOfOne
  <2>2. rest = RemoveAt(st.devices, p0)
    BY <2>1 DEF Rest
  <2> HIDE DEF rest, Device, n
  <2>3. /\ rest \in Seq(Device) /\ Len(rest) = Len(st.devices) - 1
        /\ \A p \in 1 .. Len(st.devices) - 1 :
             rest[p] = IF p < p0 THEN st.devices[p] ELSE st.devices[p + 1]
    BY <1>1, <1>2, <2>2, RemoveAtFacts DEF n
  <2>4. DOMAIN rest = 1 .. Len(st.devices) - 1
    BY <2>3
  <2> QED BY <2>3, <2>4 DEF n
<1> HIDE DEF rest, id
<1>7. /\ gone \in State
      /\ gone.idxToIid = st.idxToIid /\ gone.iidToIdx = st.iidToIdx
      /\ Len(gone.devices) = n - 1
      /\ \A p \in 1 .. n - 1 :
           /\ gone.devices[p].iid = rest[p].iid
           /\ gone.devices[p].idx = rest[p].idx
           /\ gone.devices[p].id = IF MovedUp(st, id, p) THEN rest[p].id - 1 ELSE rest[p].id
      /\ \A i \in Lines :
           gone.pads[i] = CASE i \notin Shifted(st, id) -> st.pads[i]
                            [] i \in Shifted(st, id) /\ WithId(rest, i + 1) # {} -> st.pads[i + 1]
                            [] OTHER -> NoLine
  <2>1. WithId(st.devices, id) # {}
    BY <1>4
  <2> QED BY <2>1, RemovedFacts, ZenonT(30) DEF rest
<1> HIDE DEF gone
<1>8. /\ new \in State
      /\ new.idxToIid = [i \in Indices |-> IF i = st.iidToIdx[iid] THEN NoIid ELSE st.idxToIid[i]]
      /\ new.iidToIdx = [d \in Iids |-> IF d = iid THEN NoIdx ELSE st.iidToIdx[d]]
      /\ new.devices = gone.devices /\ new.pads = gone.pads
  BY <1>2, <1>5, <1>7, ErasedFacts
<1> HIDE DEF new
<1>9. DOMAIN new.devices = 1 .. n - 1
  BY <1>7, <1>8, StateFields, DevicesFacts
<1>10. \A i \in Lines : i \in Shifted(st, id) <=> i >= p0 - 1 /\ i < n
  <2>1. \A i \in Lines : st.pads[i] # NoLine <=> i < n
    <3>1. SUFFICES ASSUME NEW i \in Lines PROVE st.pads[i] # NoLine <=> i < n
      OBVIOUS
    <3>2. i \in Nat
      BY BoundFacts
    <3>3. CASE i < n
      <4>1. i + 1 \in 1 .. n
        BY <1>1, <3>2, <3>3
      <4>2. st.devices[i + 1].iid # NoIid
        BY <1>1, <4>1, BoundFacts
      <4>3. st.pads[i] = LineOf(st.devices[i + 1])
        BY <3>3 DEF LinesAgree
      <4> QED BY <3>3, <4>2, <4>3 DEF LineOf, NoLine
    <3>4. CASE ~ (i < n)
      BY <3>4 DEF LinesAgree
    <3> QED BY <3>3, <3>4
  <2>2. SUFFICES ASSUME NEW i \in Lines PROVE i \in Shifted(st, id) <=> i >= p0 - 1 /\ i < n
    OBVIOUS
  <2>3. i \in Nat
    BY BoundFacts
  <2>4. \A j \in id .. i : j \in Lines
    BY <1>2, <2>3, BoundFacts DEF Lines
  <2>5. CASE i < n
    <3>1. \A j \in id .. i : j < n
      BY <1>1, <1>2, <2>3, <2>5
    <3> QED BY <2>1, <2>4, <2>5, <3>1 DEF Shifted, id
  <2>6. CASE ~ (i < n)
    <3>1. i >= id => i \in id .. i
      BY <1>2, <2>3
    <3> QED BY <2>1, <2>6, <3>1 DEF Shifted
  <2> QED BY <2>5, <2>6
<1>11. \A p \in 1 .. n - 1 : rest[p].id = IF p < p0 THEN p - 1 ELSE p
  <2>1. SUFFICES ASSUME NEW p \in 1 .. n - 1
                 PROVE  rest[p].id = IF p < p0 THEN p - 1 ELSE p
    OBVIOUS
  <2>2. p \in 1 .. n /\ p + 1 \in 1 .. n /\ (p + 1) - 1 = p
    BY <1>1
  <2>3. st.devices[p].id = p - 1 /\ st.devices[p + 1].id = p
    BY <1>3, <2>2
  <2> QED BY <1>6, <2>3
<1>12. \A p, q \in 1 .. n - 1 : rest[p].id = rest[q].id => p = q
  BY <1>1, <1>2, <1>11
<1>13. \A p \in 1 .. n - 1 : /\ new.devices[p].id = p - 1
                             /\ new.devices[p].iid = rest[p].iid
                             /\ new.devices[p].idx = rest[p].idx
  <2>1. SUFFICES ASSUME NEW p \in 1 .. n - 1 PROVE new.devices[p].id = p - 1
    BY <1>7, <1>8
  <2>2. WithId(rest, rest[p].id) = {p}
    BY <1>6, <1>12 DEF WithId
  <2>3. First({p}) = p
    BY <1>1, FirstOfOne
  <2>4. MovedUp(st, id, p) <=> rest[p].id - 1 \in Shifted(st, id)
    BY <2>2, <2>3 DEF MovedUp, rest
  <2>5. Shifted(st, id) \subseteq Lines
    BY DEF Shifted
  <2>6. CASE p < p0
    <3>1. rest[p].id = p - 1
      BY <1>11, <2>6
    <3>2. rest[p].id - 1 \notin Shifted(st, id)
      BY <1>1, <1>2, <1>10, <2>5, <2>6, <3>1
    <3> QED BY <1>7, <1>8, <2>4, <3>1, <3>2
  <2>7. CASE ~ (p < p0)
    <3>1. rest[p].id = p
      BY <1>11, <2>7
    <3>2. p - 1 \in Lines
      <4>1. st.devices[p].id = p - 1 /\ st.devices[p].id \in Lines
        BY <1>1, <1>3, BoundFacts
      <4> QED BY <4>1
    <3>3. rest[p].id - 1 \in Shifted(st, id)
      BY <1>1, <1>2, <1>10, <2>7, <3>1, <3>2
    <3> QED BY <1>7, <1>8, <2>4, <3>1, <3>3
  <2> QED BY <2>6, <2>7
<1>14. \A p \in 1 .. n - 1 : rest[p].iid # iid
  <2>1. \A p \in 1 .. n : p # p0 => st.devices[p].iid # iid
    BY <1>1, <1>2 DEF Agree
  <2>2. SUFFICES ASSUME NEW p \in 1 .. n - 1 PROVE rest[p].iid # iid
    OBVIOUS
  <2>3. p \in 1 .. n /\ p + 1 \in 1 .. n /\ (p < p0 => p # p0) /\ (~ (p < p0) => p + 1 # p0)
    BY <1>1, <1>2
  <2> QED BY <1>6, <2>1, <2>3
<1>15. Agree(new)
  <2>1. \A p \in DOMAIN new.devices : /\ new.devices[p].id = p - 1
                                      /\ new.iidToIdx[new.devices[p].iid] = new.devices[p].idx
    <3>1. SUFFICES ASSUME NEW p \in 1 .. n - 1
                   PROVE  new.iidToIdx[rest[p].iid] = rest[p].idx
      BY <1>9, <1>13
    <3>2. p \in 1 .. n /\ p + 1 \in 1 .. n
      BY <1>1
    <3>3. \A x \in 1 .. n : /\ st.devices[x].iid \in Iids
                            /\ st.iidToIdx[st.devices[x].iid] = st.devices[x].idx
      BY <1>1 DEF Agree
    <3>4. rest[p] = st.devices[p] \/ rest[p] = st.devices[p + 1]
      BY <1>6
    <3>5. rest[p].iid \in Iids /\ st.iidToIdx[rest[p].iid] = rest[p].idx
      BY <3>2, <3>3, <3>4
    <3> QED BY <1>8, <1>14, <3>5
  <2>2. \A p, q \in DOMAIN new.devices : p # q => new.devices[p].iid # new.devices[q].iid
    <3>1. SUFFICES ASSUME NEW p \in 1 .. n - 1, NEW q \in 1 .. n - 1, p # q
                   PROVE  rest[p].iid # rest[q].iid
      BY <1>9, <1>13
    <3> DEFINE Old(x) == IF x < p0 THEN x ELSE x + 1
    <3>2. Old(p) \in 1 .. n /\ Old(q) \in 1 .. n /\ Old(p) # Old(q)
      BY <1>1, <1>2, <3>1
    <3>3. rest[p] = st.devices[Old(p)] /\ rest[q] = st.devices[Old(q)]
      BY <1>6
    <3> HIDE DEF Old
    <3> QED BY <1>1, <3>2, <3>3, SMTT(30) DEF Agree
  <2>3. \A i \in Indices : new.idxToIid[i] # NoIid => new.iidToIdx[new.idxToIid[i]] = i
    <3>1. SUFFICES ASSUME NEW i \in Indices, new.idxToIid[i] # NoIid
                   PROVE  new.iidToIdx[new.idxToIid[i]] = i
      OBVIOUS
    <3>2. i # st.iidToIdx[iid] /\ new.idxToIid[i] = st.idxToIid[i]
      BY <1>8, <3>1
    <3>3. st.iidToIdx[st.idxToIid[i]] = i /\ st.idxToIid[i] \in Iids
      BY <3>1, <3>2, StateFields DEF Agree
    <3> QED BY <1>8, <3>2, <3>3
  <2> QED BY <2>1, <2>2, <2>3 DEF Agree
<1>16. LinesAgree(new)
  <2>1. SUFFICES ASSUME NEW i \in Lines
                 PROVE  new.pads[i] = IF i < n - 1 THEN LineOf(new.devices[i + 1]) ELSE NoLine
    BY <1>7, <1>8 DEF LinesAgree
  <2>2. i \in Nat
    BY BoundFacts
  <2>3. \A k \in 1 .. n - 1 : LineOf(new.devices[k]) = LineOf(rest[k])
    BY <1>13 DEF LineOf
  <2>4. CASE i < p0 - 1
    <3>1. i \notin Shifted(st, id)
      BY <1>2, <1>10, <2>2, <2>4
    <3>2. new.pads[i] = st.pads[i]
      BY <1>7, <1>8, <3>1
    <3>3. i < n /\ i < n - 1 /\ i + 1 \in 1 .. n - 1 /\ i + 1 < p0
      BY <1>1, <1>2, <2>2, <2>4
    <3>4. st.pads[i] = LineOf(st.devices[i + 1])
      BY <3>3 DEF LinesAgree
    <3> QED BY <1>6, <2>3, <3>2, <3>3, <3>4
  <2>5. CASE i >= p0 - 1 /\ i < n - 1
    <3>1. i \in Shifted(st, id)
      BY <1>1, <1>2, <1>10, <2>2, <2>5
    <3>2. i + 1 \in 1 .. n - 1 /\ ~ (i + 1 < p0)
      BY <1>1, <1>2, <2>2, <2>5
    <3>3. i + 1 \in WithId(rest, i + 1)
      BY <1>6, <1>11, <3>2 DEF WithId
    <3>4. new.pads[i] = st.pads[i + 1]
      BY <1>7, <1>8, <3>1, <3>3
    <3>5. i + 1 \in Lines
      <4>1. st.devices[i + 2].id = i + 1 /\ st.devices[i + 2].id \in Lines
        <5>1. i + 2 \in 1 .. n /\ (i + 2) - 1 = i + 1
          BY <1>1, <2>2, <3>2
        <5> QED BY <1>1, <1>3, <5>1, BoundFacts
      <4> QED BY <4>1
    <3>6. st.pads[i + 1] = LineOf(st.devices[i + 2])
      <4>1. i + 1 < n /\ (i + 1) + 1 = i + 2
        BY <1>1, <2>2, <3>2
      <4> QED BY <3>5, <4>1 DEF LinesAgree
    <3>7. rest[i + 1] = st.devices[i + 2]
      <4>1. (i + 1) + 1 = i + 2
        BY <2>2
      <4> QED BY <1>6, <3>2, <4>1
    <3> QED BY <2>3, <2>5, <3>2, <3>4, <3>6, <3>7
  <2>6. CASE i >= p0 - 1 /\ ~ (i < n - 1)
    <3>1. CASE i \in Shifted(st, id)
      <4>1. WithId(rest, i + 1) = {}
        BY <1>1, <1>2, <1>6, <1>11, <2>2, <2>6, SMTT(30) DEF WithId
      <4> QED BY <1>7, <1>8, <2>6, <3>1, <4>1
    <3>2. CASE i \notin Shifted(st, id)
      <4>1. ~ (i < n)
        BY <1>10, <2>6, <3>2
      <4>2. st.pads[i] = NoLine
        BY <4>1 DEF LinesAgree
      <4> QED BY <1>7, <1>8, <2>6, <3>2, <4>2
    <3> QED BY <3>1, <3>2
  <2>7. (i < p0 - 1) \/ (i >= p0 - 1 /\ i < n - 1) \/ (i >= p0 - 1 /\ ~ (i < n - 1))
    BY <1>1, <1>2, <2>2
  <2> QED BY <2>4, <2>5, <2>6, <2>7
<1>17. \A p \in DOMAIN st.devices : p # p0 =>
         \E q \in DOMAIN new.devices : new.devices[q].iid = st.devices[p].iid
  <2>1. SUFFICES ASSUME NEW p \in 1 .. n, p # p0
                 PROVE  \E q \in 1 .. n - 1 : rest[q].iid = st.devices[p].iid
    BY <1>1, <1>9, <1>13, ZenonT(30)
  <2>2. CASE p < p0
    <3>1. p \in 1 .. n - 1 /\ rest[p] = st.devices[p]
      BY <1>1, <1>2, <1>6, <2>2
    <3> QED BY <3>1
  <2>3. CASE p > p0
    <3>1. p - 1 \in 1 .. n - 1 /\ ~ (p - 1 < p0) /\ (p - 1) + 1 = p
      BY <1>1, <1>2, <2>3
    <3>2. rest[p - 1] = st.devices[p]
      BY <1>6, <3>1
    <3> QED BY <3>1, <3>2
  <2> QED BY <1>2, <2>1, <2>2, <2>3
<1> QED BY <1>2, <1>7, <1>8, <1>9, <1>13, <1>14, <1>15, <1>16, <1>17 DEF new

\* One turn: if no other pad of the model has its index, the pad gets the index
\* of its place in the list, in the maps, the model and its line.
LEMMA ReindexedAgrees ==
  ASSUME NEW st \in State, Agree(st), LinesAgree(st),
         NEW j, joysticks[j] \in Iids, j - 1 \in Indices, NEW any \in Lines,
         NEW p0 \in DOMAIN st.devices, st.devices[p0].iid = joysticks[j],
         \A p \in DOMAIN st.devices : p # p0 => st.devices[p].idx # st.devices[p0].idx
  PROVE  LET new == Reindexed(st, j, any)
         IN  /\ new \in State /\ Agree(new) /\ LinesAgree(new)
             /\ DOMAIN new.devices = DOMAIN st.devices
             /\ \A p \in DOMAIN st.devices : new.devices[p].iid = st.devices[p].iid
             /\ \A d \in Iids : new.iidToIdx[d] = IF d = joysticks[j] THEN j - 1 ELSE st.iidToIdx[d]
<1> DEFINE iid == joysticks[j]
           old == st.iidToIdx[iid]
           new == Reindexed(st, j, any)
           map == Remapped(st, j)
           dev == st.devices[p0]
           n == Len(st.devices)
<1>1. CASE old = j - 1
  <2>1. new = st
    BY <1>1, ReindexedIs
  <2> HIDE DEF new
  <2> QED BY <1>1, <2>1 DEF new
<1>2. CASE old # j - 1
  <2>1. /\ st.devices \in Seq(Device) /\ DOMAIN st.devices = 1 .. n /\ n \in Nat
        /\ st.pads \in [Lines -> Line]
    BY StateFields, DevicesFacts
  <2>2. /\ p0 \in 1 .. n /\ p0 \in Nat
        /\ dev \in Device /\ dev.id = p0 - 1 /\ dev.id \in Lines
        /\ dev.iid = iid /\ dev.idx = old
    <3>1. p0 \in 1 .. n /\ p0 \in Nat
      BY <2>1
    <3>2. dev \in Device
      <4> HIDE DEF Device
      <4> QED BY <2>1, <3>1, ElementOfSeq
    <3>3. dev.id = p0 - 1 /\ dev.iid = iid /\ dev.idx = old
      BY DEF Agree
    <3>4. dev.id \in Lines
      BY <3>2, BoundFacts DEF Device
    <3> QED BY <3>1, <3>2, <3>3, <3>4
  <2>3. new = IndexChanged(map, old, j - 1, any)
    BY <1>2, ReindexedIs
  <2>4. /\ map \in State /\ map.devices = st.devices /\ map.pads = st.pads
        /\ \A d \in Iids : map.iidToIdx[d] = IF d = iid THEN j - 1 ELSE st.iidToIdx[d]
        /\ \A i \in Indices : map.idxToIid[i] # NoIid =>
             \/ i = j - 1 /\ map.idxToIid[i] = iid
             \/ i # old /\ map.idxToIid[i] = st.idxToIid[i]
    BY RemappedFacts
  <2> HIDE DEF map
  <2>5. WithIdx(st.devices, old) = {p0}
    BY <2>1, <2>2 DEF WithIdx
  <2> DEFINE d0 == Moved(dev, j - 1)
  <2>7. /\ new \in State /\ new.idxToIid = map.idxToIid /\ new.iidToIdx = map.iidToIdx
        /\ new.devices = With(st.devices, p0, d0)
        /\ new.pads = Stored(st.pads, dev.id, j - 1)
    <3>1. PICK to \in Indices : to = j - 1
      OBVIOUS
    <3>2. /\ WithIdx(map.devices, old) # {} /\ p0 \in DOMAIN map.devices
          /\ p0 = First(WithIdx(map.devices, old))
      BY <2>2, <2>4, <2>5, FirstOfOne
    <3> HIDE DEF old
    <3>3. /\ IndexChanged(map, old, to, any) \in State
          /\ IndexChanged(map, old, to, any).idxToIid = map.idxToIid
          /\ IndexChanged(map, old, to, any).iidToIdx = map.iidToIdx
          /\ IndexChanged(map, old, to, any).devices =
               With(map.devices, p0, Moved(map.devices[p0], to))
          /\ IndexChanged(map, old, to, any).pads = Stored(map.pads, map.devices[p0].id, to)
      BY <2>4, <3>2, IndexChangedFound
    <3> HIDE DEF new
    <3> QED BY <2>3, <2>4, <3>1, <3>3
  <2> HIDE DEF new
  <2>8. d0 \in Device /\ d0.id = p0 - 1 /\ d0.iid = iid /\ d0.idx = j - 1
    BY <2>2 DEF Device, Moved
  <2> HIDE DEF d0
  <2>9. /\ DOMAIN new.devices = 1 .. n /\ Len(new.devices) = n
        /\ \A q \in 1 .. n : new.devices[q] = IF q = p0 THEN d0 ELSE st.devices[q]
    <3>1. /\ new.devices \in Seq(Device) /\ Len(new.devices) = n
          /\ \A q \in 1 .. n : new.devices[q] = IF q = p0 THEN d0 ELSE st.devices[q]
      BY <2>1, <2>7, <2>8, WithFacts
    <3> QED BY <3>1, DevicesFacts
  <2>10. \A p \in 1 .. n : /\ new.devices[p].id = p - 1
                           /\ new.devices[p].iid = st.devices[p].iid
    BY <2>1, <2>2, <2>8, <2>9 DEF Agree
  <2>11. \A d \in Iids : new.iidToIdx[d] = IF d = iid THEN j - 1 ELSE st.iidToIdx[d]
    BY <2>4, <2>7
  <2>12. Agree(new)
    <3>1. \A p \in 1 .. n : new.iidToIdx[new.devices[p].iid] = new.devices[p].idx
      <4>1. SUFFICES ASSUME NEW p \in 1 .. n
                     PROVE  new.iidToIdx[new.devices[p].iid] = new.devices[p].idx
        OBVIOUS
      <4>2. CASE p = p0
        BY <2>2, <2>8, <2>9, <2>11, <4>2
      <4>3. CASE p # p0
        <5>1. new.devices[p] = st.devices[p] /\ st.devices[p].iid # iid
          BY <2>1, <2>2, <2>9, <4>3 DEF Agree
        <5>2. st.devices[p].iid \in Iids
          BY <2>1, DevicesFacts
        <5> QED BY <2>1, <2>11, <5>1, <5>2, SMTT(30) DEF Agree
      <4> QED BY <4>2, <4>3
    <3>2. \A p, q \in 1 .. n : p # q => new.devices[p].iid # new.devices[q].iid
      <4>1. \A p, q \in 1 .. n : p # q => st.devices[p].iid # st.devices[q].iid
        BY <2>1 DEF Agree
      <4> QED BY <2>10, <4>1
    <3>3. \A i \in Indices : new.idxToIid[i] # NoIid => new.iidToIdx[new.idxToIid[i]] = i
      <4>1. SUFFICES ASSUME NEW i \in Indices, new.idxToIid[i] # NoIid
                     PROVE  new.iidToIdx[new.idxToIid[i]] = i
        OBVIOUS
      <4>2. CASE i = j - 1 /\ new.idxToIid[i] = iid
        BY <2>11, <4>2
      <4>3. CASE i # old /\ new.idxToIid[i] = st.idxToIid[i]
        <5>1. st.idxToIid[i] \in Iids /\ st.iidToIdx[st.idxToIid[i]] = i
          BY <4>1, <4>3, StateFields DEF Agree
        <5> QED BY <2>11, <4>3, <5>1
      <4> QED BY <2>4, <2>7, <4>1, <4>2, <4>3
    <3> QED BY <2>9, <2>10, <3>1, <3>2, <3>3 DEF Agree
  <2>13. LinesAgree(new)
    <3>1. SUFFICES ASSUME NEW i \in Lines
                   PROVE  new.pads[i] = IF i < n THEN LineOf(new.devices[i + 1]) ELSE NoLine
      BY <2>9 DEF LinesAgree
    <3>2. i \in Nat
      BY BoundFacts
    <3>3. CASE i = p0 - 1
      <4>1. i < n /\ i + 1 = p0
        BY <2>1, <2>2, <3>2, <3>3
      <4>2. st.pads[i] = LineOf(dev)
        BY <4>1 DEF LinesAgree
      <4>3. new.pads[i] = [st.pads[i] EXCEPT !.sdlidx = j - 1]
        BY <2>1, <2>2, <2>7, <3>3 DEF Stored
      <4>4. new.pads[i] = LineOf(d0)
        BY <2>2, <2>8, <4>2, <4>3 DEF LineOf
      <4> QED BY <2>2, <2>9, <4>1, <4>4
    <3>4. CASE i # p0 - 1
      <4>1. new.pads[i] = st.pads[i]
        BY <2>1, <2>2, <2>7, <3>4 DEF Stored
      <4>2. i < n => i + 1 \in 1 .. n /\ i + 1 # p0
        BY <2>1, <2>2, <3>2, <3>4
      <4> QED BY <2>9, <4>1, <4>2 DEF LinesAgree
    <3> QED BY <3>3, <3>4
  <2> QED BY <2>1, <2>7, <2>9, <2>10, <2>11, <2>12, <2>13 DEF new
<1> QED BY <1>1, <1>2

\* The whole loop, over the n pads that were added: if their indices are in the
\* order of the list and apart from that of any other pad of the model, each gets
\* the index of its place.
LEMMA LoopAgrees ==
  ASSUME Typed, NEW st \in State, Agree(st), LinesAgree(st), NEW any \in Lines,
         NEW n \in 0 .. Len(joysticks), Known = 1 .. n,
         \A j, k \in 1 .. n : j # k => joysticks[j] # joysticks[k],
         \A j \in 1 .. n : \E p \in DOMAIN st.devices : st.devices[p].iid = joysticks[j],
         \A j \in 1 .. n : st.iidToIdx[joysticks[j]] >= j - 1,
         \A j, k \in 1 .. n : j < k => st.iidToIdx[joysticks[j]] < st.iidToIdx[joysticks[k]],
         \A p \in DOMAIN st.devices, j \in 1 .. n :
           (\A k \in 1 .. n : st.devices[p].iid # joysticks[k])
             => st.devices[p].idx # st.iidToIdx[joysticks[j]]
  PROVE  LET new == Turns(st, any)[Len(joysticks)]
         IN  /\ new \in State /\ Agree(new) /\ LinesAgree(new)
             /\ DOMAIN new.devices = DOMAIN st.devices
             /\ \A p \in DOMAIN st.devices : new.devices[p].iid = st.devices[p].iid
             /\ \A k \in 1 .. n : new.iidToIdx[joysticks[k]] = k - 1
             /\ \A d \in Iids : (\A k \in 1 .. n : d # joysticks[k])
                                  => new.iidToIdx[d] = st.iidToIdx[d]
<1> DEFINE turns == Turns(st, any)
           Others(s) == \A d \in Iids : (\A k \in 1 .. n : d # joysticks[k])
                                          => s.iidToIdx[d] = st.iidToIdx[d]
           Shape(s) == /\ s \in State /\ Agree(s) /\ LinesAgree(s)
                       /\ DOMAIN s.devices = DOMAIN st.devices
                       /\ \A p \in DOMAIN st.devices : s.devices[p].iid = st.devices[p].iid
                       /\ Others(s)
           Places(s, j) == \A k \in 1 .. n :
             s.iidToIdx[joysticks[k]] = IF k <= j THEN k - 1 ELSE st.iidToIdx[joysticks[k]]
           N == {j \in 0 .. Len(joysticks) : ~ (Shape(turns[j]) /\ Places(turns[j], j))}
<1>1. /\ turns[0] = st
      /\ \A j \in 1 .. Len(joysticks) : turns[j] = Turn(turns[j - 1], j, any)
  BY TurnsFollow, TypeOfNow
<1>2. /\ Len(joysticks) \in Nat /\ n \in Nat /\ n <= Len(joysticks)
      /\ \A j \in 1 .. n : joysticks[j] \in Iids /\ j - 1 \in Indices
                             /\ st.iidToIdx[joysticks[j]] \in Int
  <2>1. Len(joysticks) \in Nat /\ n \in Nat /\ n <= Len(joysticks)
    BY TypeOfNow
  <2>2. \A j \in 1 .. n : joysticks[j] \in Iids /\ j - 1 \in Indices
    BY <2>1, TypeOfNow, SMTT(30)
  <2>3. \A d \in Iids : st.iidToIdx[d] \in Int
    <3>1. \A d \in Iids : st.iidToIdx[d] \in Indices \cup {NoIdx}
      BY StateFields
    <3> QED BY <3>1, BoundFacts DEF NoIdx
  <2> QED BY <2>1, <2>2, <2>3
<1> HIDE DEF turns
<1>3. N = {}
  <2>1. SUFFICES ASSUME N # {} PROVE FALSE
    OBVIOUS
  <2>2. PICK m \in N : \A k \in N : m <= k
    <3> N \in SUBSET Nat
      OBVIOUS
    <3> HIDE DEF N
    <3> QED BY <2>1, LeastNat
  <2>3. m # 0
    <3>1. Shape(turns[0])
      BY <1>1
    <3>2. Places(turns[0], 0)
      BY <1>1, <1>2
    <3> QED BY <3>1, <3>2
  <2> DEFINE s == turns[m - 1]
  <2>4. m \in 1 .. Len(joysticks) /\ Shape(s) /\ Places(s, m - 1) /\ turns[m] = Turn(s, m, any)
    <3>1. m \in 0 .. Len(joysticks)
      OBVIOUS
    <3>2. m \in 1 .. Len(joysticks) /\ m - 1 \in 0 .. Len(joysticks) /\ ~ (m <= m - 1)
      BY <1>2, <2>3, <3>1
    <3>3. m - 1 \notin N
      <4> HIDE DEF N
      <4> QED BY <2>2, <3>2
    <3> QED BY <1>1, <3>2, <3>3
  <2> HIDE DEF s, N
  <2>5. Shape(turns[m]) /\ Places(turns[m], m)
    <3>1. CASE m \notin Known
      <4>1. turns[m] = s
        BY <2>4, <3>1 DEF Turn
      <4>2. \A k \in 1 .. n : k <= m <=> k <= m - 1
        BY <1>2, <2>4, <3>1
      <4> HIDE DEF Shape
      <4> QED BY <2>4, <4>1, <4>2
    <3>2. CASE m \in Known
      <4> DEFINE iid == joysticks[m]
                 new == Reindexed(s, m, any)
      <4>1. m \in 1 .. n /\ iid \in Iids /\ m - 1 \in Indices /\ turns[m] = new
        BY <1>2, <2>4, <3>2 DEF Turn
      <4>2. PICK p0 \in DOMAIN s.devices : s.devices[p0].iid = iid
        BY <2>4, <4>1
      <4>3. s.devices[p0].idx = st.iidToIdx[iid]
        <5>1. s.iidToIdx[iid] = st.iidToIdx[iid]
          BY <2>4, <4>1
        <5>2. s.iidToIdx[s.devices[p0].iid] = s.devices[p0].idx
          BY <2>4, <4>2 DEF Agree
        <5> QED BY <4>2, <5>1, <5>2
      <4>4. \A p \in DOMAIN s.devices : p # p0 => s.devices[p].idx # s.devices[p0].idx
        <5>1. SUFFICES ASSUME NEW p \in DOMAIN s.devices, p # p0
                       PROVE  s.devices[p].idx # st.iidToIdx[iid]
          BY <4>3
        <5>2. s.devices[p].idx = s.iidToIdx[s.devices[p].iid] /\ s.devices[p].iid # iid
          BY <2>4, <4>2, <5>1 DEF Agree
        <5>3. ASSUME NEW k \in 1 .. n, s.devices[p].iid = joysticks[k]
              PROVE  s.devices[p].idx # st.iidToIdx[iid]
          <6>1. k # m
            BY <5>2, <5>3
          <6>2. s.devices[p].idx = IF k <= m - 1 THEN k - 1 ELSE st.iidToIdx[joysticks[k]]
            BY <2>4, <5>2, <5>3
          <6>3. CASE k < m
            BY <1>2, <4>1, <6>2, <6>3
          <6>4. CASE k > m
            BY <1>2, <4>1, <6>2, <6>4
          <6> QED BY <4>1, <6>1, <6>3, <6>4
        <5>4. ASSUME \A k \in 1 .. n : s.devices[p].iid # joysticks[k]
              PROVE  s.devices[p].idx # st.iidToIdx[iid]
          <6>1. p \in DOMAIN st.devices /\ s.devices[p].iid = st.devices[p].iid
            BY <2>4
          <6>2. st.devices[p].iid \in Iids
            BY <6>1, StateFields, DevicesFacts
          <6>3. s.devices[p].idx = st.devices[p].idx
            BY <2>4, <5>2, <5>4, <6>1, <6>2 DEF Agree
          <6> QED BY <4>1, <5>4, <6>1, <6>3
        <5> QED BY <5>3, <5>4
      <4>5. /\ new \in State /\ Agree(new) /\ LinesAgree(new)
            /\ DOMAIN new.devices = DOMAIN s.devices
            /\ \A p \in DOMAIN s.devices : new.devices[p].iid = s.devices[p].iid
            /\ \A d \in Iids : new.iidToIdx[d] = IF d = iid THEN m - 1 ELSE s.iidToIdx[d]
        BY <2>4, <4>1, <4>2, <4>4, ReindexedAgrees
      <4> HIDE DEF new
      <4>6. Shape(new)
        BY <2>4, <4>1, <4>5
      <4>7. Places(new, m)
        <5>1. SUFFICES ASSUME NEW k \in 1 .. n
                       PROVE  new.iidToIdx[joysticks[k]] =
                                IF k <= m THEN k - 1 ELSE st.iidToIdx[joysticks[k]]
          OBVIOUS
        <5>2. CASE k = m
          BY <1>2, <4>1, <4>5, <5>2
        <5>3. CASE k # m
          <6>1. joysticks[k] # iid /\ joysticks[k] \in Iids /\ (k <= m <=> k <= m - 1)
            BY <1>2, <4>1, <5>3
          <6>2. new.iidToIdx[joysticks[k]] = s.iidToIdx[joysticks[k]]
            BY <4>5, <6>1
          <6> QED BY <2>4, <6>1, <6>2
        <5> QED BY <5>2, <5>3
      <4> HIDE DEF Shape, Places
      <4> QED BY <4>1, <4>6, <4>7
    <3> QED BY <3>1, <3>2
  <2> QED BY <2>2, <2>5 DEF N
<1>4. Shape(turns[Len(joysticks)]) /\ Places(turns[Len(joysticks)], Len(joysticks))
  <2>1. Len(joysticks) \in 0 .. Len(joysticks) /\ Len(joysticks) \notin N
    BY <1>2, <1>3
  <2> QED BY <2>1
<1>5. \A k \in 1 .. n : k <= Len(joysticks)
  BY <1>2
<1> QED BY <1>4, <1>5 DEF turns

-----------------------------------------------------------------------------
(***************************************************************************)
(* The inductive invariant, as long as adds and removals did not cross.    *)
(***************************************************************************)

\* The pads that left and wait to be removed: two at most.
Leaving ==
  IF Len(events) >= 1 /\ IsRemoved(1)
  THEN IF Len(events) >= 2 /\ IsRemoved(2) THEN 2 ELSE 1
  ELSE 0

\* The pads of the list that were added: those behind them wait in the queue.
Opened == Len(joysticks) - (Len(events) - Leaving)

QueueInOrder ==
  /\ \A n \in DOMAIN events : IsRemoved(n) <=> n <= Leaving
  /\ \A n \in DOMAIN events : IsAdded(n) =>
       events[n].which = Len(joysticks) - 1 - (Len(events) - n)

\* SDL uses no instance again.
InstancesApart ==
  /\ \A j \in DOMAIN joysticks : joysticks[j] <= plugs
  /\ \A j, k \in DOMAIN joysticks : j # k => joysticks[j] # joysticks[k]
  /\ \A n \in DOMAIN events : IsRemoved(n) =>
       /\ events[n].which <= plugs
       /\ \A j \in DOMAIN joysticks : joysticks[j] # events[n].which
  /\ \A n, k \in DOMAIN events : n # k /\ IsRemoved(n) /\ IsRemoved(k) =>
       events[n].which # events[k].which
  /\ \A d \in Iids : d > plugs => m_iid_to_idx[d] = NoIdx

\* The maps have the pads that were added and those that wait to be removed.
KnownOnes ==
  /\ \A j \in DOMAIN joysticks : m_iid_to_idx[joysticks[j]] # NoIdx <=> j <= Opened
  /\ \A n \in DOMAIN events : IsRemoved(n) => m_iid_to_idx[events[n].which] # NoIdx
  /\ \A d \in Iids : m_iid_to_idx[d] # NoIdx =>
       \/ \E j \in DOMAIN joysticks : joysticks[j] = d
       \/ \E n \in DOMAIN events : IsRemoved(n) /\ events[n].which = d

\* The index of a pad may be behind its place, but never out of order, and only
\* while others wait to be removed.
IndicesInOrder ==
  /\ \A j, k \in 1 .. Opened : j < k => m_iid_to_idx[joysticks[j]] < m_iid_to_idx[joysticks[k]]
  /\ \A j \in 1 .. Opened : m_iid_to_idx[joysticks[j]] >= j - 1
  /\ Leaving = 0 => \A j \in 1 .. Opened : m_iid_to_idx[joysticks[j]] = j - 1
  /\ Leaving = 2 => \A j \in 1 .. Opened :
       m_iid_to_idx[joysticks[j]] # m_iid_to_idx[events[2].which]

\* The model has the pads that the maps have.
Held ==
  /\ \A d \in Iids : m_iid_to_idx[d] # NoIdx => \E p \in DOMAIN m_devices : m_devices[p].iid = d
  /\ Len(m_devices) = Opened + Leaving

\* Lines of an earlier run stay until the first pad is added.
Linked ==
  /\ Agree(Now)
  /\ m_devices # <<>> => LinesAgree(Now)
  /\ m_devices = <<>> => \A i, k \in Lines : i < k /\ pads[k] # NoLine => pads[i] # NoLine

Calm == QueueInOrder /\ InstancesApart /\ KnownOnes /\ IndicesInOrder /\ Held /\ Linked

\* A recording that was not disturbed is still for the pad at its index, behind
\* which are all that wait to be removed.
Aimed ==
  m_recording # NoIdx /\ ~ disturbed =>
    /\ m_recording + 1 \in 1 .. Opened
    /\ joysticks[m_recording + 1] = target
    /\ m_iid_to_idx[target] = m_recording
    /\ \A n \in DOMAIN events : IsRemoved(n) => m_iid_to_idx[events[n].which] > m_recording

RecordedRight ==
  /\ ~ mapped.waiting => mapped.from = mapped.to /\ mapped.base = mapped.to
  /\ ~ mapped.disturbed =>
       mapped.from = mapped.target /\ mapped.base = mapped.target /\ mapped.to = mapped.target

PadsInv == Typed /\ (~ crossed => Calm /\ Aimed /\ RecordedRight)

\* The record and the variables.
LEMMA NowFacts ==
  /\ Now.idxToIid = m_idx_to_iid /\ Now.iidToIdx = m_iid_to_idx
  /\ Now.devices = m_devices /\ Now.pads = pads
BY DEF Now

\* How many pads left and were opened, and which is the next to open.
LEMMA OpenedFacts ==
  ASSUME Typed, QueueInOrder
  PROVE  /\ Leaving \in 0 .. 2 /\ Leaving <= Len(events)
         /\ Opened \in 0 .. Len(joysticks)
         /\ Leaving < Len(events) => events[Leaving + 1].which = Opened
<1>1. Leaving \in 0 .. 2 /\ Leaving <= Len(events) /\ Len(events) \in Nat /\ Len(joysticks) \in Nat
  BY TypeOfNow DEF Leaving
<1>2. CASE Leaving = Len(events)
  BY <1>1, <1>2 DEF Opened
<1>3. CASE Leaving < Len(events)
  <2>1. Leaving + 1 \in DOMAIN events /\ ~ (Leaving + 1 <= Leaving)
    BY <1>1, <1>3, TypeOfNow
  <2>2. IsAdded(Leaving + 1) /\ events[Leaving + 1].which \in Nat
    BY <2>1, TypeOfNow, BoundFacts DEF QueueInOrder
  <2>3. events[Leaving + 1].which = Len(joysticks) - 1 - (Len(events) - (Leaving + 1))
    BY <2>1, <2>2 DEF QueueInOrder
  <2> QED BY <1>1, <1>3, <2>2, <2>3 DEF Opened
<1> QED BY <1>1, <1>2, <1>3

\* The indices of the maps are numbers.
LEMMA IndexFacts ==
  ASSUME Typed
  PROVE  \A d \in Iids : /\ m_iid_to_idx[d] \in Int
                         /\ m_iid_to_idx[d] # NoIdx => m_iid_to_idx[d] \in Indices
                         /\ m_iid_to_idx[d] \in Nat => m_iid_to_idx[d] # NoIdx
<1>1. \A d \in Iids : m_iid_to_idx[d] \in Indices \cup {NoIdx}
  BY TypeOfNow
<1>2. \A i \in Indices : i \in Nat
  BY BoundFacts
<1>3. NoIdx \in Int /\ NoIdx \notin Nat
  BY DEF NoIdx
<1> QED BY <1>1, <1>2, <1>3

\* The pad that is being configured, until the recording is disturbed.
LEMMA AimedPlace ==
  ASSUME Typed, Calm, Aimed, m_recording # NoIdx, ~ disturbed
  PROVE  /\ m_recording \in Nat /\ m_recording \in Indices /\ target \in Iids
         /\ m_recording + 1 \in 1 .. Opened /\ m_recording + 1 \in DOMAIN joysticks
         /\ joysticks[m_recording + 1] = target /\ m_iid_to_idx[target] = m_recording
<1>1. m_recording \in Indices /\ target \in Iids
  BY DEF Typed, TypeOK, SdlType
<1>2. m_recording \in Nat
  BY <1>1, BoundFacts
<1>3. m_recording + 1 \in 1 .. Opened /\ Opened \in 0 .. Len(joysticks)
  BY OpenedFacts DEF Aimed, Calm
<1>4. m_recording + 1 \in DOMAIN joysticks
  BY <1>2, <1>3, TypeOfNow
<1> QED BY <1>1, <1>2, <1>3, <1>4 DEF Aimed

\* At first there is no pad, and the lines of an earlier run are in front.
LEMMA InitPads == Init => PadsInv
<1> SUFFICES ASSUME Init PROVE PadsInv
  OBVIOUS
<1>1. Typed
  BY InitTyped
<1>2. events = <<>> /\ joysticks = <<>> /\ m_devices = <<>> /\ Leaving = 0
  BY DEF Init, Leaving
<1>3. Opened = 0
  BY <1>2 DEF Opened
<1>4. QueueInOrder /\ InstancesApart
  BY <1>2 DEF Init, QueueInOrder, InstancesApart
<1>5. KnownOnes /\ IndicesInOrder /\ Held
  BY <1>2, <1>3 DEF Init, KnownOnes, IndicesInOrder, Held
<1>6. Linked
  <2>1. Agree(Now)
    <3>1. \A i \in Indices : m_idx_to_iid[i] = NoIid
      BY DEF Init
    <3> QED BY <1>2, <3>1, NowFacts DEF Agree
  <2>2. \A i, k \in Lines : i < k /\ pads[k] # NoLine => pads[i] # NoLine
    <3>1. PICK n \in 0 .. MaxPads : pads = [i \in Lines |-> IF i < n THEN OldLine ELSE NoLine]
      BY DEF Init
    <3>2. OldLine # NoLine
      BY BoundFacts DEF OldLine, NoLine, NoIdx
    <3>3. \A i \in Lines : (pads[i] # NoLine <=> i < n) /\ i \in Nat
      BY <3>1, <3>2, BoundFacts
    <3>4. n \in Nat
      BY <3>1, BoundFacts
    <3> QED BY <3>3, <3>4
  <2> QED BY <1>2, <2>1, <2>2 DEF Linked
<1>7. RecordedRight
  BY DEF Init, RecordedRight, Nobody
<1>8. Aimed
  BY DEF Init, Aimed
<1> QED BY <1>1, <1>4, <1>5, <1>6, <1>7, <1>8 DEF PadsInv, Calm

\* A pad that comes waits behind all others.
LEMMA PlugKeepsCalm ==
  ASSUME Typed, Calm, Plug
  PROVE  Calm' /\ (Aimed => Aimed')
<1> DEFINE e == [kind |-> "added", which |-> Len(joysticks)]
<1>0. PICK n \in Nat : n = Len(events)
  BY TypeOfNow
<1>1. /\ joysticks \in Seq(Iids) /\ Len(joysticks) \in Nat /\ DOMAIN joysticks = 1 .. Len(joysticks)
      /\ \A j \in DOMAIN joysticks : joysticks[j] \in Iids
      /\ n \in Nat /\ DOMAIN events = 1 .. n /\ plugs \in Nat
  BY <1>0, TypeOfNow, BoundFacts DEF Typed, SdlType
<1>2. /\ joysticks' = Append(joysticks, plugs + 1) /\ plugs' = plugs + 1 /\ plugs + 1 \in Iids
      /\ events' = Append(events, e)
  BY BoundFacts DEF Plug, Typed, SdlType, Iids
<1>3. /\ Len(joysticks') = Len(joysticks) + 1 /\ DOMAIN joysticks' = 1 .. Len(joysticks) + 1
      /\ \A j \in 1 .. Len(joysticks) + 1 :
           joysticks'[j] = IF j <= Len(joysticks) THEN joysticks[j] ELSE plugs + 1
  BY <1>1, <1>2
<1>4. /\ Len(events') = n + 1 /\ DOMAIN events' = 1 .. n + 1
      /\ \A k \in 1 .. n : events'[k] = events[k]
      /\ events'[n + 1] = e
  <2> HIDE DEF e
  <2> QED BY <1>0, <1>1, <1>2, TypeOfNow
<1>5. UNCHANGED <<m_idx_to_iid, m_iid_to_idx, m_devices, pads>>
  BY DEF Plug, mapVars
<1>6. /\ \A k \in 1 .. n : IsAdded(k)' = IsAdded(k) /\ IsRemoved(k)' = IsRemoved(k)
      /\ IsAdded(n + 1)' /\ ~ IsRemoved(n + 1)'
  BY <1>4 DEF IsAdded, IsRemoved
<1>7. Leaving' = Leaving
  BY <1>0, <1>1, <1>4, <1>6 DEF Leaving
<1>8. /\ Leaving \in 0 .. 2 /\ Leaving <= n /\ Opened \in 0 .. Len(joysticks)
      /\ Leaving + Len(joysticks) = n + Opened
  <2>1. /\ Leaving \in 0 .. 2 /\ Leaving <= n /\ Opened \in 0 .. Len(joysticks)
    BY <1>0, OpenedFacts DEF Calm
  <2> QED BY <1>0, <1>1, <2>1 DEF Opened
<1>9. Opened' = Opened
  BY <1>0, <1>1, <1>3, <1>4, <1>7, <1>8 DEF Opened
<1>10. QueueInOrder'
  <2>1. SUFFICES ASSUME NEW k \in 1 .. n + 1
                 PROVE  /\ IsRemoved(k)' <=> k <= Leaving
                        /\ IsAdded(k)' => events'[k].which = Len(joysticks) + 1 - 1 - (n + 1 - k)
    BY <1>1, <1>3, <1>4, <1>7 DEF QueueInOrder
  <2>2. CASE k = n + 1
    BY <1>1, <1>4, <1>6, <1>8, <2>2
  <2>3. CASE k # n + 1
    <3>1. k \in 1 .. n
      BY <1>1, <2>3
    <3>2. IsAdded(k) => events[k].which = Len(joysticks) - 1 - (n - k)
      BY <1>0, <1>1, <3>1 DEF Calm, QueueInOrder
    <3>3. IsRemoved(k) <=> k <= Leaving
      BY <1>1, <3>1 DEF Calm, QueueInOrder
    <3> QED BY <1>1, <1>4, <1>6, <3>1, <3>2, <3>3
  <2> QED BY <2>2, <2>3
<1>11. InstancesApart'
  <2>1. \A d \in Iids : d \in Nat
    BY DEF Iids
  <2>2. \A j \in 1 .. Len(joysticks) : joysticks[j] <= plugs /\ joysticks[j] \in Nat
    BY <1>1, <2>1 DEF Calm, InstancesApart
  <2>3. \A j \in 1 .. Len(joysticks) + 1 : joysticks'[j] <= plugs + 1
    BY <1>1, <1>3, <2>2
  <2>4. \A j, k \in 1 .. Len(joysticks) + 1 : j # k => joysticks'[j] # joysticks'[k]
    BY <1>1, <1>3, <2>2, SMTT(30) DEF Calm, InstancesApart
  <2>5. \A k \in 1 .. n : IsRemoved(k) => events[k].which \in Nat /\ events[k].which <= plugs
    BY <1>1, <2>1, TypeOfNow DEF Calm, InstancesApart
  <2>6. \A k \in 1 .. n + 1 : IsRemoved(k)' => k \in 1 .. n /\ IsRemoved(k) /\ events'[k] = events[k]
    BY <1>1, <1>4, <1>6
  <2>7. \A k \in 1 .. n + 1 : IsRemoved(k)' =>
          /\ events'[k].which <= plugs + 1
          /\ \A j \in 1 .. Len(joysticks) + 1 : joysticks'[j] # events'[k].which
    BY <1>1, <1>3, <2>5, <2>6, SMTT(30) DEF Calm, InstancesApart
  <2>8. \A k, l \in 1 .. n + 1 : k # l /\ IsRemoved(k)' /\ IsRemoved(l)' =>
          events'[k].which # events'[l].which
    BY <1>1, <2>6 DEF Calm, InstancesApart
  <2>9. \A d \in Iids : d > plugs + 1 => m_iid_to_idx'[d] = NoIdx
    BY <1>1, <1>5, <2>1 DEF Calm, InstancesApart
  <2> QED BY <1>2, <1>3, <1>4, <2>3, <2>4, <2>7, <2>8, <2>9 DEF InstancesApart
<1>12. KnownOnes'
  <2>1. m_iid_to_idx[plugs + 1] = NoIdx
    BY <1>1, <1>2 DEF Calm, InstancesApart
  <2>2. \A j \in 1 .. Len(joysticks) + 1 : m_iid_to_idx[joysticks'[j]] # NoIdx <=> j <= Opened
    BY <1>1, <1>3, <1>8, <2>1 DEF Calm, KnownOnes
  <2>3. \A k \in 1 .. n + 1 : IsRemoved(k)' => m_iid_to_idx[events'[k].which] # NoIdx
    BY <1>1, <1>4, <1>6 DEF Calm, KnownOnes
  <2>4. \A d \in Iids : m_iid_to_idx[d] # NoIdx =>
          \/ \E j \in 1 .. Len(joysticks) + 1 : joysticks'[j] = d
          \/ \E k \in 1 .. n + 1 : IsRemoved(k)' /\ events'[k].which = d
    <3>1. SUFFICES ASSUME NEW d \in Iids, m_iid_to_idx[d] # NoIdx
                   PROVE  \/ \E j \in 1 .. Len(joysticks) + 1 : joysticks'[j] = d
                          \/ \E k \in 1 .. n + 1 : IsRemoved(k)' /\ events'[k].which = d
      OBVIOUS
    <3>2. CASE \E j \in DOMAIN joysticks : joysticks[j] = d
      <4>1. PICK j \in 1 .. Len(joysticks) : joysticks[j] = d
        BY <1>1, <3>2
      <4>2. j \in 1 .. Len(joysticks) + 1 /\ joysticks'[j] = d
        BY <1>1, <1>3, <4>1
      <4> QED BY <4>2
    <3>3. CASE \E k \in DOMAIN events : IsRemoved(k) /\ events[k].which = d
      <4>1. PICK k \in 1 .. n : IsRemoved(k) /\ events[k].which = d
        BY <1>1, <3>3
      <4>2. k \in 1 .. n + 1 /\ IsRemoved(k)' /\ events'[k].which = d
        BY <1>1, <1>4, <1>6, <4>1
      <4> QED BY <4>2
    <3> QED BY <3>1, <3>2, <3>3 DEF Calm, KnownOnes
  <2> QED BY <1>3, <1>4, <1>5, <1>9, <2>2, <2>3, <2>4 DEF KnownOnes
<1>13. IndicesInOrder'
  <2>1. \A j \in 1 .. Opened : joysticks'[j] = joysticks[j]
    BY <1>1, <1>3, <1>8
  <2>2. Leaving = 2 => events'[2] = events[2]
    BY <1>1, <1>4, <1>8
  <2> QED BY <1>5, <1>7, <1>9, <2>1, <2>2 DEF Calm, IndicesInOrder
<1>14. Held'
  BY <1>5, <1>7, <1>9 DEF Calm, Held
<1>15. Linked'
  BY <1>5 DEF Calm, Linked, Now, Agree, LinesAgree, LineOf
<1>16. Aimed => Aimed'
  <2>1. m_recording' = m_recording /\ target' = target /\ disturbed' = disturbed
    BY DEF Plug, recordVars
  <2>2. SUFFICES ASSUME Aimed, m_recording # NoIdx, ~ disturbed PROVE Aimed'
    BY <2>1 DEF Aimed
  <2>3. PICK r \in Nat : /\ r = m_recording /\ r + 1 \in 1 .. Opened /\ r + 1 \in DOMAIN joysticks
                         /\ joysticks[r + 1] = target /\ m_iid_to_idx[target] = r
    BY <2>2, AimedPlace
  <2>4. joysticks'[r + 1] = target
    BY <1>1, <1>3, <2>3
  <2>5. \A k \in 1 .. n + 1 : IsRemoved(k)' =>
          k \in 1 .. n /\ IsRemoved(k) /\ events'[k] = events[k]
    BY <1>1, <1>4, <1>6
  <2>6. \A k \in 1 .. n + 1 : IsRemoved(k)' => m_iid_to_idx[events'[k].which] > r
    BY <1>1, <2>2, <2>3, <2>5 DEF Aimed
  <2> QED BY <1>4, <1>5, <1>9, <2>1, <2>3, <2>4, <2>6 DEF Aimed
<1>17. Calm'
  BY <1>10, <1>11, <1>12, <1>13, <1>14, <1>15 DEF Calm
<1> QED BY <1>16, <1>17

\* A pad leaves, and others may have left, but none was added meanwhile.
LEMMA UnplugKeepsCalm ==
  ASSUME Typed, Calm, NEW i, Unplug(i), ~ crossed'
  PROVE  Calm' /\ (Aimed => Aimed')
<1> DEFINE e == [kind |-> "removed", which |-> joysticks[i]]
           From(j) == IF j < i THEN j ELSE j + 1
<1>0. PICK n \in Nat : n = Len(events)
  BY TypeOfNow
<1>a. PICK m \in Nat : m = Len(joysticks)
  BY TypeOfNow
<1>1. /\ joysticks \in Seq(Iids) /\ DOMAIN joysticks = 1 .. m
      /\ \A j \in 1 .. m : joysticks[j] \in Iids
      /\ DOMAIN events = 1 .. n /\ i \in 1 .. m
  BY <1>0, <1>a, TypeOfNow DEF Unplug
<1>2. n <= 1 /\ \A k \in 1 .. n : ~ IsAdded(k) /\ IsRemoved(k)
  <2>1. ~ Crosses
    <3>1. crossed' = (crossed \/ Crosses)
      BY DEF Unplug
    <3> QED BY <3>1, Zenon
  <2>2. ~ (n >= 2) /\ \A k \in DOMAIN events : ~ IsAdded(k)
    BY <1>0, <2>1 DEF Crosses, IsAdded
  <2> QED BY <1>0, <1>1, <2>1, <2>2, TypeOfNow
<1>3. Leaving = n /\ Opened = m
  <2>1. Leaving = n
    BY <1>0, <1>1, <1>2 DEF Leaving
  <2> QED BY <1>0, <1>a, <2>1 DEF Opened
<1>4. events' = Append(events, e)
  <2> DEFINE lost == {k \in DOMAIN events : events[k] = [kind |-> "added", which |-> i - 1]}
             others == IF lost = {} THEN events ELSE RemoveAt(events, First(lost))
             moved == [k \in DOMAIN others |->
                        IF others[k].kind = "added" /\ others[k].which > i - 1
                        THEN [others[k] EXCEPT !.which = @ - 1] ELSE others[k]]
  <2>1. events' = IF m_iid_to_idx[joysticks[i]] = NoIdx THEN moved ELSE Append(moved, e)
    BY DEF Unplug
  <2>2. lost = {}
    BY <1>1, <1>2 DEF IsAdded
  <2>3. others = events
    BY <2>2
  <2> HIDE DEF others, lost
  <2>4. moved = [k \in 1 .. n |-> events[k]]
    BY <1>1, <1>2, <2>3 DEF IsAdded
  <2>5. events = [k \in 1 .. n |-> events[k]]
    <3> HIDE DEF Event
    <3> QED BY <1>0, <1>1, TypeOfNow
  <2>6. m_iid_to_idx[joysticks[i]] # NoIdx
    BY <1>1, <1>3 DEF Calm, KnownOnes
  <2> HIDE DEF moved, e
  <2> QED BY <2>1, <2>4, <2>5, <2>6
<1>5. /\ Len(events') = n + 1 /\ DOMAIN events' = 1 .. n + 1
      /\ \A k \in 1 .. n : events'[k] = events[k]
      /\ events'[n + 1] = e
  <2> HIDE DEF e, Event
  <2> QED BY <1>0, <1>1, <1>4, TypeOfNow
<1>6. /\ Len(joysticks') = m - 1 /\ DOMAIN joysticks' = 1 .. m - 1
      /\ \A j \in 1 .. m - 1 : joysticks'[j] = joysticks[From(j)]
  <2>1. joysticks' = RemoveAt(joysticks, i)
    BY DEF Unplug
  <2>2. /\ joysticks' \in Seq(Iids) /\ Len(joysticks') = Len(joysticks) - 1
        /\ \A j \in 1 .. Len(joysticks) - 1 :
             joysticks'[j] = IF j < i THEN joysticks[j] ELSE joysticks[j + 1]
    BY <1>a, <1>1, <2>1, RemoveAtFacts
  <2>3. DOMAIN joysticks' = 1 .. Len(joysticks')
    BY <2>2
  <2> QED BY <1>a, <2>2, <2>3
<1>7. \A j \in 1 .. m - 1 : /\ From(j) \in 1 .. m /\ From(j) # i /\ From(j) >= j
                            /\ \A k \in 1 .. m - 1 : j < k <=> From(j) < From(k)
  BY <1>1
<1>8. \A j \in 1 .. m : j # i => \E k \in 1 .. m - 1 : From(k) = j
  <2>1. SUFFICES ASSUME NEW j \in 1 .. m, j # i PROVE \E k \in 1 .. m - 1 : From(k) = j
    OBVIOUS
  <2>2. CASE j < i
    BY <1>1, <2>2
  <2>3. CASE j > i
    <3>1. j - 1 \in 1 .. m - 1 /\ From(j - 1) = j
      BY <1>1, <2>3
    <3> QED BY <3>1
  <2> QED BY <1>1, <2>1, <2>2, <2>3
<1> HIDE DEF From
<1>9. UNCHANGED <<plugs, m_idx_to_iid, m_iid_to_idx, m_devices, pads>>
  BY DEF Unplug, mapVars
<1>10. \A k \in 1 .. n + 1 : ~ IsAdded(k)' /\ IsRemoved(k)'
  <2>1. e.kind = "removed"
    OBVIOUS
  <2> HIDE DEF e
  <2>2. \A k \in 1 .. n + 1 : k \in 1 .. n \/ k = n + 1
    OBVIOUS
  <2>3. \A k \in 1 .. n : events'[k].kind = "removed"
    BY <1>2, <1>5 DEF IsRemoved
  <2> QED BY <1>5, <2>1, <2>2, <2>3 DEF IsAdded, IsRemoved
<1>11. Leaving' = n + 1
  BY <1>2, <1>5, <1>10 DEF Leaving
<1>12. Opened' = m - 1
  BY <1>5, <1>6, <1>11 DEF Opened
<1>13. QueueInOrder'
  BY <1>5, <1>10, <1>11 DEF QueueInOrder
<1>14. e.which = joysticks[i]
  OBVIOUS
<1> HIDE DEF e
<1>15. \A k \in 1 .. n + 1 : /\ k = n + 1 => events'[k].which = joysticks[i]
                             /\ k # n + 1 => k \in 1 .. n /\ events'[k] = events[k] /\ IsRemoved(k)
  BY <1>2, <1>5, <1>14
<1>16. InstancesApart'
  <2>1. \A j \in 1 .. m - 1 : joysticks'[j] <= plugs
    BY <1>1, <1>6, <1>7 DEF Calm, InstancesApart
  <2>2. \A j, k \in 1 .. m - 1 : j # k => joysticks'[j] # joysticks'[k]
    <3>1. \A j, k \in 1 .. m - 1 : j # k => From(j) # From(k)
      BY <1>7
    <3> QED BY <1>1, <1>6, <1>7, <3>1 DEF Calm, InstancesApart
  <2>3. \A k \in 1 .. n + 1 : /\ events'[k].which <= plugs
                              /\ \A j \in 1 .. m - 1 : joysticks'[j] # events'[k].which
    <3>1. SUFFICES ASSUME NEW k \in 1 .. n + 1
                   PROVE  /\ events'[k].which <= plugs
                          /\ \A j \in 1 .. m - 1 : joysticks'[j] # events'[k].which
      OBVIOUS
    <3>2. CASE k = n + 1
      BY <1>1, <1>6, <1>7, <1>15, <3>2 DEF Calm, InstancesApart
    <3>3. CASE k # n + 1
      <4>1. k \in 1 .. n /\ events'[k] = events[k] /\ IsRemoved(k)
        BY <1>15, <3>3
      <4> QED BY <1>1, <1>6, <1>7, <4>1 DEF Calm, InstancesApart
    <3> QED BY <3>2, <3>3
  <2>4. \A k, l \in 1 .. n + 1 : k # l => events'[k].which # events'[l].which
    BY <1>1, <1>15 DEF Calm, InstancesApart
  <2> QED BY <1>5, <1>6, <1>9, <2>1, <2>2, <2>3, <2>4 DEF Calm, InstancesApart
<1>17. KnownOnes'
  <2>1. \A j \in 1 .. m : m_iid_to_idx[joysticks[j]] # NoIdx
    BY <1>1, <1>3 DEF Calm, KnownOnes
  <2>2. \A j \in 1 .. m - 1 : m_iid_to_idx[joysticks'[j]] # NoIdx /\ j <= m - 1
    BY <1>6, <1>7, <2>1
  <2>3. \A k \in 1 .. n + 1 : m_iid_to_idx[events'[k].which] # NoIdx
    BY <1>1, <1>15, <2>1 DEF Calm, KnownOnes
  <2> DEFINE Found(d) == \/ \E j \in 1 .. m - 1 : joysticks'[j] = d
                         \/ \E k \in 1 .. n + 1 : events'[k].which = d
  <2>4. \A d \in Iids : m_iid_to_idx[d] # NoIdx => Found(d)
    <3>1. SUFFICES ASSUME NEW d \in Iids, m_iid_to_idx[d] # NoIdx PROVE Found(d)
      OBVIOUS
    <3>2. ASSUME NEW j \in 1 .. m, joysticks[j] = d PROVE Found(d)
      <4>1. CASE j = i
        <5>1. n + 1 \in 1 .. n + 1 /\ events'[n + 1].which = d
          BY <1>5, <1>14, <3>2, <4>1
        <5> QED BY <5>1
      <4>2. CASE j # i
        BY <1>6, <1>8, <3>2, <4>2
      <4> QED BY <4>1, <4>2
    <3>3. ASSUME NEW k \in 1 .. n, events[k].which = d PROVE Found(d)
      <4>1. k \in 1 .. n + 1 /\ events'[k].which = d
        BY <1>5, <3>3
      <4> QED BY <4>1
    <3> QED BY <1>1, <3>1, <3>2, <3>3 DEF Calm, KnownOnes
  <2> QED BY <1>5, <1>6, <1>9, <1>10, <1>12, <2>2, <2>3, <2>4 DEF KnownOnes
<1>18. IndicesInOrder'
  <2>1. \A j \in 1 .. m : m_iid_to_idx[joysticks[j]] \in Int
    BY <1>1, IndexFacts
  <2>2. \A j, k \in 1 .. m - 1 : j < k => m_iid_to_idx[joysticks'[j]] < m_iid_to_idx[joysticks'[k]]
    <3>1. SUFFICES ASSUME NEW j \in 1 .. m - 1, NEW k \in 1 .. m - 1, j < k
                   PROVE  m_iid_to_idx[joysticks'[j]] < m_iid_to_idx[joysticks'[k]]
      OBVIOUS
    <3>2. From(j) \in 1 .. m /\ From(k) \in 1 .. m /\ From(j) < From(k)
      BY <1>7, <3>1
    <3>3. m_iid_to_idx[joysticks[From(j)]] < m_iid_to_idx[joysticks[From(k)]]
      BY <1>3, <3>2 DEF Calm, IndicesInOrder
    <3> QED BY <1>6, <3>3
  <2>3. \A j \in 1 .. m - 1 : m_iid_to_idx[joysticks'[j]] >= j - 1
    <3>1. SUFFICES ASSUME NEW j \in 1 .. m - 1 PROVE m_iid_to_idx[joysticks'[j]] >= j - 1
      OBVIOUS
    <3>2. From(j) \in 1 .. m /\ From(j) >= j /\ joysticks'[j] = joysticks[From(j)]
      BY <1>6, <1>7
    <3>3. m_iid_to_idx[joysticks[From(j)]] >= From(j) - 1
      BY <1>3, <3>2 DEF Calm, IndicesInOrder
    <3> QED BY <2>1, <3>2, <3>3
  <2>4. n + 1 = 2 => \A j \in 1 .. m - 1 :
          m_iid_to_idx[joysticks'[j]] # m_iid_to_idx[events'[2].which]
    <3>1. SUFFICES ASSUME n + 1 = 2, NEW j \in 1 .. m - 1
                   PROVE  m_iid_to_idx[joysticks'[j]] # m_iid_to_idx[joysticks[i]]
      BY <1>5, <1>14
    <3>2. From(j) \in 1 .. m /\ From(j) # i /\ joysticks'[j] = joysticks[From(j)]
      BY <1>6, <1>7
    <3>3. \A x, y \in 1 .. m : x < y => m_iid_to_idx[joysticks[x]] < m_iid_to_idx[joysticks[y]]
      BY <1>3 DEF Calm, IndicesInOrder
    <3>4. From(j) < i \/ i < From(j)
      BY <1>1, <3>2
    <3> QED BY <1>1, <2>1, <3>2, <3>3, <3>4
  <2> QED BY <1>9, <1>11, <1>12, <2>2, <2>3, <2>4 DEF IndicesInOrder
<1>19. Held'
  <2>1. Len(m_devices) = (m - 1) + (n + 1)
    BY <1>3 DEF Calm, Held
  <2> QED BY <1>9, <1>11, <1>12, <2>1 DEF Calm, Held
<1>20. Linked'
  BY <1>9 DEF Calm, Linked, Now, Agree, LinesAgree, LineOf
<1>21. Aimed => Aimed'
  <2>1. m_recording' = m_recording /\ target' = target
        /\ disturbed' = (disturbed \/ m_recording >= i - 1)
    BY DEF Unplug, recordVars
  <2>2. SUFFICES ASSUME Aimed, m_recording # NoIdx, ~ disturbed, ~ (m_recording >= i - 1)
                 PROVE  Aimed'
    BY <2>1 DEF Aimed
  <2>3. PICK r \in Nat : /\ r = m_recording /\ r + 1 \in 1 .. Opened /\ r + 1 \in DOMAIN joysticks
                         /\ joysticks[r + 1] = target /\ m_iid_to_idx[target] = r
    BY <2>2, AimedPlace
  <2>4. r + 1 < i /\ r + 1 \in 1 .. m - 1 /\ From(r + 1) = r + 1
    BY <1>1, <2>2, <2>3 DEF From
  <2>5. joysticks'[r + 1] = target
    BY <1>6, <2>3, <2>4
  <2>6. m_iid_to_idx[joysticks[i]] > r
    <3>1. m_iid_to_idx[joysticks[r + 1]] < m_iid_to_idx[joysticks[i]]
      BY <1>1, <1>3, <2>3, <2>4 DEF Calm, IndicesInOrder
    <3>2. m_iid_to_idx[joysticks[i]] \in Int
      BY <1>1, IndexFacts
    <3> QED BY <2>3, <3>1, <3>2
  <2>7. \A k \in 1 .. n : m_iid_to_idx[events[k].which] > r
    BY <1>1, <1>2, <2>2, <2>3 DEF Aimed
  <2>8. \A k \in 1 .. n + 1 : m_iid_to_idx[events'[k].which] > r
    BY <1>15, <2>6, <2>7
  <2> QED BY <1>5, <1>9, <1>12, <2>1, <2>3, <2>4, <2>5, <2>8 DEF Aimed
<1>22. Calm'
  BY <1>13, <1>16, <1>17, <1>18, <1>19, <1>20 DEF Calm
<1> QED BY <1>21, <1>22

\* A pad is added behind the last player: the maps, the model and the lines take
\* it, and the lines of an earlier run behind it go.
LEMMA ConnectedAgrees ==
  ASSUME Typed, Linked,
         NEW idx \in Indices, idx = Len(m_devices), NEW iid \in Iids, m_iid_to_idx[iid] = NoIdx,
         m_idx_to_iid' = Emplace(m_idx_to_iid, idx, iid, NoIid),
         m_iid_to_idx' = Emplace(m_iid_to_idx, iid, idx, NoIdx),
         Connected(idx, iid)
  PROVE  /\ Linked'
         /\ Len(m_devices') = Len(m_devices) + 1
         /\ \A d \in Iids : m_iid_to_idx'[d] = IF d = iid THEN idx ELSE m_iid_to_idx[d]
         /\ \E p \in DOMAIN m_devices' : m_devices'[p].iid = iid
         /\ \A p \in DOMAIN m_devices : p \in DOMAIN m_devices' /\ m_devices'[p] = m_devices[p]
<1> DEFINE g == NewGamepad(idx, iid)
<1>0. PICK n \in Nat : n = Len(m_devices)
  BY TypeOfNow
<1>1. /\ m_devices \in Seq(Device) /\ DOMAIN m_devices = 1 .. n /\ idx = n
      /\ \A p \in 1 .. n : m_devices[p].iid \in Iids /\ m_devices[p].idx \in Indices
  BY <1>0, TypeOfNow, DevicesFacts
<1>2. /\ m_idx_to_iid \in [Indices -> Iids \cup {NoIid}]
      /\ m_iid_to_idx \in [Iids -> Indices \cup {NoIdx}]
      /\ pads \in [Lines -> Line]
  BY TypeOfNow
<1>3. /\ \A p \in 1 .. n : m_devices[p].id = p - 1 /\ m_iid_to_idx[m_devices[p].iid] = m_devices[p].idx
      /\ \A p, q \in 1 .. n : p # q => m_devices[p].iid # m_devices[q].iid
      /\ \A i \in Indices : m_idx_to_iid[i] # NoIid => m_iid_to_idx[m_idx_to_iid[i]] = i
  BY <1>1, NowFacts DEF Linked, Agree
<1>4. \A p \in 1 .. n : m_devices[p].iid # iid
  BY <1>1, <1>3, BoundFacts
<1>5. m_devices' = Append(m_devices, g)
  <2>1. WithIid(m_devices, iid) = {}
    BY <1>1, <1>4 DEF WithIid
  <2> QED BY <2>1 DEF Connected
<1>6. g.id = n /\ g.iid = iid /\ g.idx = n
  BY <1>1 DEF NewGamepad
<1> HIDE DEF g
<1>7. /\ Len(m_devices') = n + 1 /\ DOMAIN m_devices' = 1 .. n + 1
      /\ \A p \in 1 .. n : m_devices'[p] = m_devices[p]
      /\ m_devices'[n + 1] = g
  <2> HIDE DEF Device
  <2> QED BY <1>0, <1>1, <1>5
<1>8. /\ \A d \in Iids : m_iid_to_idx'[d] = IF d = iid THEN idx ELSE m_iid_to_idx[d]
      /\ \A i \in Indices : m_idx_to_iid'[i] =
           IF i = idx /\ m_idx_to_iid[idx] = NoIid THEN iid ELSE m_idx_to_iid[i]
  <2>1. idx \in Indices \cup {NoIdx} /\ iid \in Iids \cup {NoIid}
    OBVIOUS
  <2>2. \A d \in Iids : m_iid_to_idx'[d] =
          IF d = iid /\ m_iid_to_idx[iid] = NoIdx THEN idx ELSE m_iid_to_idx[d]
    BY <1>2 DEF Emplace
  <2>3. \A i \in Indices : m_idx_to_iid'[i] =
          IF i = idx /\ m_idx_to_iid[idx] = NoIid THEN iid ELSE m_idx_to_iid[i]
    BY <1>2 DEF Emplace
  <2> QED BY <2>2, <2>3
<1>9. /\ \A p \in 1 .. n + 1 : /\ m_devices'[p].id = p - 1
                               /\ m_iid_to_idx'[m_devices'[p].iid] = m_devices'[p].idx
      /\ \A p, q \in 1 .. n + 1 : p # q => m_devices'[p].iid # m_devices'[q].iid
  <2>1. \A p \in 1 .. n + 1 : p \in 1 .. n \/ p = n + 1
    OBVIOUS
  <2> QED BY <1>1, <1>3, <1>4, <1>6, <1>7, <1>8, <2>1, SMTT(30)
<1>10. \A i \in Indices : m_idx_to_iid'[i] # NoIid => m_iid_to_idx'[m_idx_to_iid'[i]] = i
  <2>1. SUFFICES ASSUME NEW i \in Indices, m_idx_to_iid'[i] # NoIid
                 PROVE  m_iid_to_idx'[m_idx_to_iid'[i]] = i
    OBVIOUS
  <2>2. CASE i = idx /\ m_idx_to_iid[idx] = NoIid
    BY <1>8, <2>2
  <2>3. CASE ~ (i = idx /\ m_idx_to_iid[idx] = NoIid)
    <3>1. m_idx_to_iid'[i] = m_idx_to_iid[i] /\ m_idx_to_iid[i] \in Iids
      BY <1>2, <1>8, <2>1, <2>3
    <3>2. m_iid_to_idx[m_idx_to_iid[i]] = i /\ i # NoIdx
      BY <1>3, <2>1, <3>1, BoundFacts
    <3> QED BY <1>8, <3>1, <3>2
  <2> QED BY <2>2, <2>3
<1>11. Agree(Now)'
  <2>1. Now'.idxToIid = m_idx_to_iid' /\ Now'.iidToIdx = m_iid_to_idx' /\ Now'.devices = m_devices'
    BY DEF Now
  <2> QED BY <1>7, <1>9, <1>10, <2>1 DEF Agree
<1>12. \A i \in Lines : pads'[i] = IF i < n + 1 THEN LineOf(m_devices'[i + 1]) ELSE NoLine
  <2>1. SUFFICES ASSUME NEW i \in Lines
                 PROVE  pads'[i] = IF i < n + 1 THEN LineOf(m_devices'[i + 1]) ELSE NoLine
    OBVIOUS
  <2> DEFINE stale == {k \in Lines : k > idx /\ \A j \in idx + 1 .. k : pads[j] # NoLine}
  <2>2. i \in Nat
    BY BoundFacts
  <2>3. pads'[i] = CASE i = idx -> [iid |-> iid, sdlidx |-> idx]
                     [] i \in stale -> NoLine
                     [] OTHER -> pads[i]
    BY DEF Connected
  <2>4. m_devices # <<>> => \A k \in Lines : pads[k] = IF k < n THEN LineOf(m_devices[k + 1]) ELSE NoLine
    BY <1>0, NowFacts DEF Linked, LinesAgree
  <2>5. CASE i = n
    <3>1. pads'[i] = [iid |-> iid, sdlidx |-> n]
      BY <1>1, <2>3, <2>5
    <3> QED BY <1>6, <1>7, <2>5, <3>1 DEF LineOf
  <2>6. CASE i < n
    <3>1. i # idx /\ i \notin stale
      BY <1>1, <2>2, <2>6
    <3>2. m_devices # <<>>
      BY <1>0, <2>2, <2>6
    <3>3. i + 1 \in 1 .. n
      BY <2>2, <2>6
    <3> HIDE DEF stale
    <3>4. pads'[i] = pads[i]
      BY <2>3, <3>1
    <3> QED BY <1>7, <2>2, <2>4, <2>6, <3>2, <3>3, <3>4
  <2>7. CASE i > n
    <3>1. pads[i] # NoLine => i \in stale
      <4>1. SUFFICES ASSUME pads[i] # NoLine PROVE i \in stale
        OBVIOUS
      <4>2. m_devices = <<>>
        BY <2>2, <2>4, <2>7, <4>1
      <4>3. \A j \in idx + 1 .. i : j \in Lines
        BY <1>1, <2>2, BoundFacts DEF Lines
      <4>4. \A j \in idx + 1 .. i : j = i \/ j < i
        BY <1>1, <2>2
      <4>5. \A j \in idx + 1 .. i : pads[j] # NoLine
        BY <4>1, <4>2, <4>3, <4>4 DEF Linked
      <4> QED BY <1>1, <2>7, <4>5
    <3> HIDE DEF stale
    <3>2. i # idx
      BY <1>1, <2>2, <2>7
    <3>3. pads'[i] = NoLine
      BY <2>3, <3>1, <3>2
    <3> QED BY <2>2, <2>7, <3>3
  <2> QED BY <2>2, <2>5, <2>6, <2>7
<1>13. LinesAgree(Now)' /\ m_devices' # <<>>
  <2>1. Now'.devices = m_devices' /\ Now'.pads = pads'
    BY DEF Now
  <2>2. m_devices' # <<>>
    BY <1>7
  <2> QED BY <1>7, <1>12, <2>1, <2>2 DEF LinesAgree
<1>14. \E p \in 1 .. n + 1 : m_devices'[p].iid = iid
  BY <1>6, <1>7
<1> QED BY <1>0, <1>1, <1>7, <1>8, <1>11, <1>13, <1>14 DEF Linked

\* A pad is added: all before it in the list were, and none waits to be removed.
LEMMA DeviceAddedKeepsCalm ==
  ASSUME Typed, Calm, DeviceAdded
  PROVE  Calm' /\ (Aimed => Aimed')
<1> DEFINE idx == Head(events).which
           iid == joysticks[idx + 1]
<1>0. PICK n \in Nat : n = Len(events)
  BY TypeOfNow
<1>a. PICK o \in Nat : o = Opened
  BY OpenedFacts DEF Calm
<1>1. events # <<>> /\ events' = Tail(events) /\ Head(events).kind = "added"
  BY DEF DeviceAdded
<1>2. /\ n >= 1 /\ 1 \in DOMAIN events /\ DOMAIN events = 1 .. n
      /\ Len(events') = n - 1 /\ DOMAIN events' = 1 .. n - 1
      /\ \A k \in 1 .. n - 1 : /\ k + 1 \in 1 .. n
                               /\ events'[k] = events[k + 1]
                               /\ IsAdded(k)' = IsAdded(k + 1)
                               /\ IsRemoved(k)' = IsRemoved(k + 1)
      /\ Head(events) = events[1]
  BY <1>0, <1>1, HandledFacts, TypeOfNow
<1>3. Leaving = 0
  <2>1. ~ IsRemoved(1)
    BY <1>1, <1>2 DEF IsRemoved
  <2> QED BY <2>1 DEF Leaving
<1>4. \A k \in 1 .. n : ~ IsRemoved(k) /\ IsAdded(k)
  <2>1. \A k \in 1 .. n : ~ IsRemoved(k)
    BY <1>2, <1>3 DEF Calm, QueueInOrder
  <2> QED BY <1>2, <2>1, TypeOfNow
<1>5. Leaving' = 0
  <2>1. \A k \in 1 .. n - 1 : ~ IsRemoved(k)'
    BY <1>2, <1>4
  <2> QED BY <1>2, <2>1 DEF Leaving
<1>6. UNCHANGED <<plugs, joysticks>>
  BY DEF DeviceAdded
<1>7. Opened' = o + 1 /\ o = Len(joysticks) - n /\ o + 1 \in 1 .. Len(joysticks)
  <2>1. o = Len(joysticks) - n /\ Len(joysticks) \in Nat
    BY <1>0, <1>a, <1>3, TypeOfNow DEF Opened
  <2> QED BY <1>2, <1>5, <1>6, <2>1 DEF Opened
<1>8. idx = o
  <2>1. events[Leaving + 1].which = Opened
    BY <1>0, <1>2, <1>3, OpenedFacts DEF Calm
  <2> QED BY <1>a, <1>2, <1>3, <2>1
<1> HIDE DEF idx
<1>9. /\ iid = joysticks[o + 1] /\ iid \in Iids /\ o \in Indices
      /\ DOMAIN joysticks = 1 .. Len(joysticks)
  <2>1. o + 1 \in DOMAIN joysticks /\ (o + 1) - 1 = o
    BY <1>7, TypeOfNow
  <2>2. joysticks[o + 1] \in Iids /\ (o + 1) - 1 \in Indices
    BY <2>1, TypeOfNow
  <2> QED BY <1>8, <2>1, <2>2, TypeOfNow
<1>10. m_iid_to_idx[iid] = NoIdx /\ Len(m_devices) = o
  <2>1. m_iid_to_idx[iid] = NoIdx
    BY <1>a, <1>7, <1>9 DEF Calm, KnownOnes
  <2>2. Len(m_devices) = Opened + Leaving
    BY DEF Calm, Held
  <2> QED BY <1>a, <1>3, <2>1, <2>2
<1>11. /\ m_idx_to_iid' = Emplace(m_idx_to_iid, idx, iid, NoIid)
       /\ m_iid_to_idx' = Emplace(m_iid_to_idx, iid, idx, NoIdx)
       /\ Connected(idx, iid)
  BY DEF DeviceAdded, idx
<1> HIDE DEF iid
<1>12. /\ Linked'
       /\ Len(m_devices') = Len(m_devices) + 1
       /\ \A d \in Iids : m_iid_to_idx'[d] = IF d = iid THEN idx ELSE m_iid_to_idx[d]
       /\ \E p \in DOMAIN m_devices' : m_devices'[p].iid = iid
       /\ \A p \in DOMAIN m_devices : p \in DOMAIN m_devices' /\ m_devices'[p] = m_devices[p]
  <2>1. Linked /\ idx \in Indices /\ idx = Len(m_devices)
    BY <1>8, <1>9, <1>10 DEF Calm
  <2> QED BY <1>9, <1>10, <1>11, <2>1, ConnectedAgrees
<1>13. idx # NoIdx /\ idx \in Nat
  BY <1>8, <1>9, BoundFacts
<1>14. \A j \in 1 .. Len(joysticks) : joysticks[j] \in Iids /\ (joysticks[j] = iid <=> j = o + 1)
  BY <1>7, <1>9, TypeOfNow DEF Calm, InstancesApart
<1>15. QueueInOrder'
  <2>1. \A k \in 1 .. n - 1 : events'[k].which = Len(joysticks) - 1 - (n - 1 - k)
    <3>1. SUFFICES ASSUME NEW k \in 1 .. n - 1
                   PROVE  events'[k].which = Len(joysticks) - 1 - (n - 1 - k)
      OBVIOUS
    <3>2. k + 1 \in 1 .. n /\ events'[k] = events[k + 1] /\ n - (k + 1) = n - 1 - k
      BY <1>2
    <3>3. events[k + 1].which = Len(joysticks) - 1 - (n - (k + 1))
      BY <1>0, <1>2, <1>4, <3>2 DEF Calm, QueueInOrder
    <3> QED BY <3>2, <3>3
  <2>2. \A k \in 1 .. n - 1 : ~ IsRemoved(k)' /\ ~ (k <= 0)
    BY <1>2, <1>4
  <2> QED BY <1>2, <1>5, <1>6, <2>1, <2>2 DEF QueueInOrder
<1>16. InstancesApart'
  <2>1. \A k \in 1 .. n - 1 : ~ IsRemoved(k)'
    BY <1>2, <1>4
  <2>2. \A d \in Iids : d > plugs => m_iid_to_idx'[d] = NoIdx
    <3>1. joysticks[o + 1] <= plugs /\ plugs \in Int /\ iid \in Int
      BY <1>7, <1>9 DEF Calm, InstancesApart, Typed, SdlType, Iids
    <3>2. \A d \in Iids : d > plugs => d # iid
      BY <1>9, <3>1
    <3> QED BY <1>12, <3>2 DEF Calm, InstancesApart
  <2> QED BY <1>2, <1>6, <2>1, <2>2 DEF Calm, InstancesApart
<1>17. KnownOnes'
  <2>1. \A j \in 1 .. Len(joysticks) : m_iid_to_idx'[joysticks[j]] # NoIdx <=> j <= o + 1
    <3>1. SUFFICES ASSUME NEW j \in 1 .. Len(joysticks)
                   PROVE  m_iid_to_idx'[joysticks[j]] # NoIdx <=> j <= o + 1
      OBVIOUS
    <3>2. m_iid_to_idx[joysticks[j]] # NoIdx <=> j <= o
      BY <1>a, <1>9 DEF Calm, KnownOnes
    <3> QED BY <1>a, <1>12, <1>13, <1>14, <3>2
  <2>2. \A d \in Iids : m_iid_to_idx'[d] # NoIdx => \E j \in 1 .. Len(joysticks) : joysticks[j] = d
    BY <1>2, <1>4, <1>7, <1>9, <1>12 DEF Calm, KnownOnes
  <2>3. \A k \in 1 .. n - 1 : ~ IsRemoved(k)'
    BY <1>2, <1>4
  <2> QED BY <1>2, <1>6, <1>7, <1>9, <2>1, <2>2, <2>3 DEF KnownOnes
<1>18. IndicesInOrder'
  <2>1. \A j \in 1 .. o + 1 : m_iid_to_idx'[joysticks[j]] = j - 1
    <3>1. SUFFICES ASSUME NEW j \in 1 .. o + 1 PROVE m_iid_to_idx'[joysticks[j]] = j - 1
      OBVIOUS
    <3>2. j \in 1 .. Len(joysticks) /\ (j # o + 1 => j \in 1 .. o)
      <4>1. Len(joysticks) \in Nat
        BY TypeOfNow
      <4> QED BY <1>7, <4>1
    <3>3. CASE j = o + 1
      BY <1>8, <1>9, <1>12, <3>3
    <3>4. CASE j # o + 1
      <4>1. m_iid_to_idx[joysticks[j]] = j - 1
        BY <1>a, <1>3, <3>2, <3>4 DEF Calm, IndicesInOrder
      <4> QED BY <1>12, <1>14, <3>2, <3>4, <4>1
    <3> QED BY <3>3, <3>4
  <2>2. \A j \in 1 .. o + 1 : j - 1 >= j - 1 /\ \A k \in 1 .. o + 1 : j < k => j - 1 < k - 1
    OBVIOUS
  <2>3. \A j, k \in 1 .. o + 1 : j < k => m_iid_to_idx'[joysticks[j]] < m_iid_to_idx'[joysticks[k]]
    BY <2>1, <2>2
  <2>4. \A j \in 1 .. o + 1 : m_iid_to_idx'[joysticks[j]] >= j - 1
    BY <2>1, <2>2
  <2>5. Leaving' # 2 /\ \A j \in 1 .. o + 1 : m_iid_to_idx'[joysticks'[j]] = j - 1
    BY <1>5, <1>6, <2>1
  <2> QED BY <1>6, <1>7, <2>3, <2>4, <2>5 DEF IndicesInOrder
<1>19. Held'
  <2>1. \A d \in Iids : m_iid_to_idx'[d] # NoIdx => \E p \in DOMAIN m_devices' : m_devices'[p].iid = d
    BY <1>12 DEF Calm, Held
  <2> QED BY <1>5, <1>7, <1>10, <1>12, <2>1 DEF Held
<1>20. Aimed => Aimed'
  <2>1. m_recording' = m_recording /\ target' = target /\ disturbed' = disturbed
    BY DEF DeviceAdded, recordVars
  <2>2. SUFFICES ASSUME Aimed, m_recording # NoIdx, ~ disturbed PROVE Aimed'
    BY <2>1 DEF Aimed
  <2>3. PICK r \in Nat : /\ r = m_recording /\ r + 1 \in 1 .. Opened /\ target \in Iids
                         /\ joysticks[r + 1] = target /\ m_iid_to_idx[target] = r
    BY <2>2, AimedPlace
  <2>4. m_iid_to_idx'[target] = r
    <3>1. r # NoIdx
      BY <2>2, <2>3
    <3> QED BY <1>10, <1>12, <2>3, <3>1
  <2>5. r + 1 \in 1 .. o + 1
    BY <1>a, <2>3
  <2>6. \A k \in 1 .. n - 1 : ~ IsRemoved(k)'
    BY <1>2, <1>4
  <2> QED BY <1>2, <1>6, <1>7, <2>1, <2>3, <2>4, <2>5, <2>6 DEF Aimed
<1>21. Calm'
  BY <1>12, <1>15, <1>16, <1>17, <1>18, <1>19 DEF Calm
<1> QED BY <1>20, <1>21

\* What remove_pad_by_iid leaves: the pad is out of the maps, the model and the
\* lines, and every pad of the list that was added has the index of its place.
LEMMA RemovalAgrees ==
  ASSUME Typed, Calm, NEW any \in Lines,
         1 \in DOMAIN events, IsRemoved(1), NEW iid, iid = events[1].which
  PROVE  LET new == AfterRemoval(iid, any)
         IN  /\ new \in State /\ Agree(new) /\ LinesAgree(new)
             /\ Len(new.devices) = Len(m_devices) - 1
             /\ \A k \in 1 .. Opened : new.iidToIdx[joysticks[k]] = k - 1
             /\ \A d \in Iids : (\A k \in 1 .. Opened : d # joysticks[k])
                  => new.iidToIdx[d] = IF d = iid THEN NoIdx ELSE m_iid_to_idx[d]
             /\ \A p \in DOMAIN m_devices : m_devices[p].iid # iid =>
                  \E q \in DOMAIN new.devices : new.devices[q].iid = m_devices[p].iid
<1> DEFINE mid == Erased(Disconnected(Now, iid), iid)
           new == AfterRemoval(iid, any)
           o == Opened
<1>1. /\ iid \in Iids /\ m_iid_to_idx[iid] # NoIdx
      /\ Leaving \in 1 .. 2 /\ o \in 0 .. Len(joysticks) /\ Len(joysticks) \in Nat
      /\ DOMAIN joysticks = 1 .. Len(joysticks)
  <2>1. Leaving \in 0 .. 2 /\ o \in 0 .. Len(joysticks) /\ 1 <= Leaving
    BY OpenedFacts DEF Calm, QueueInOrder
  <2>2. m_iid_to_idx[iid] # NoIdx
    BY DEF Calm, KnownOnes
  <2> QED BY <2>1, <2>2, TypeOfNow
<1> HIDE DEF o
<1>2. \A j \in 1 .. o : /\ j \in DOMAIN joysticks /\ joysticks[j] \in Iids
                        /\ joysticks[j] # iid
  <2>1. \A j \in 1 .. o : j \in DOMAIN joysticks
    BY <1>1
  <2> QED BY <2>1, TypeOfNow DEF Calm, InstancesApart
<1>3. PICK p0 \in DOMAIN m_devices : m_devices[p0].iid = iid
  BY <1>1 DEF Calm, Held
<1>4. /\ Now \in State /\ Agree(Now) /\ LinesAgree(Now) /\ p0 \in DOMAIN Now.devices
      /\ iid = Now.devices[p0].iid
  <2>1. m_devices # <<>>
    BY <1>3
  <2> QED BY <1>3, <2>1, NowType, NowFacts DEF Calm, Linked, Typed
<1>5. /\ mid \in State /\ Agree(mid) /\ LinesAgree(mid)
      /\ Len(mid.devices) = Len(m_devices) - 1
      /\ \A d \in Iids : mid.iidToIdx[d] = IF d = iid THEN NoIdx ELSE m_iid_to_idx[d]
      /\ \A p \in DOMAIN mid.devices : mid.devices[p].iid # iid
      /\ \A p \in DOMAIN m_devices : p # p0 =>
           \E q \in DOMAIN mid.devices : mid.devices[q].iid = m_devices[p].iid
  <2>1. PICK st \in State : st = Now
    BY <1>4
  <2>2. Agree(st) /\ LinesAgree(st) /\ p0 \in DOMAIN st.devices /\ iid = st.devices[p0].iid
    BY <1>4, <2>1
  <2> DEFINE new1 == Erased(Disconnected(st, iid), iid)
  <2>3. mid = new1
    BY <2>1
  <2>4. /\ new1 \in State /\ Agree(new1) /\ LinesAgree(new1)
        /\ Len(new1.devices) = Len(st.devices) - 1
        /\ \A d \in Iids : new1.iidToIdx[d] = IF d = iid THEN NoIdx ELSE st.iidToIdx[d]
        /\ \A p \in DOMAIN new1.devices : new1.devices[p].iid # iid
        /\ \A p \in DOMAIN st.devices : p # p0 =>
             \E q \in DOMAIN new1.devices : new1.devices[q].iid = st.devices[p].iid
    <3>1. new1 \in State
      BY <2>2, ErasedAgrees
    <3>2. Agree(new1)
      BY <2>2, ErasedAgrees
    <3>3. LinesAgree(new1)
      BY <2>2, ErasedAgrees
    <3>4. Len(new1.devices) = Len(st.devices) - 1
      BY <2>2, ErasedAgrees
    <3>5. \A d \in Iids : new1.iidToIdx[d] = IF d = iid THEN NoIdx ELSE st.iidToIdx[d]
      BY <2>2, ErasedAgrees
    <3>6. \A p \in DOMAIN new1.devices : new1.devices[p].iid # iid
      <4> HIDE DEF new1
      <4>1. new1.iidToIdx[iid] = NoIdx
        BY <1>1, <3>5
      <4>2. \A p \in DOMAIN new1.devices : new1.devices[p].idx \in Indices
        BY <3>1, StateFields, DevicesFacts
      <4> QED BY <3>2, <4>1, <4>2, BoundFacts DEF Agree
    <3>7. \A p \in DOMAIN st.devices : p # p0 =>
             \E q \in DOMAIN new1.devices : new1.devices[q].iid = st.devices[p].iid
      BY <2>2, ErasedAgrees
    <3> HIDE DEF new1
    <3> QED BY <3>1, <3>2, <3>3, <3>4, <3>5, <3>6, <3>7
  <2>5. st.devices = m_devices /\ st.iidToIdx = m_iid_to_idx
    BY <2>1, NowFacts
  <2> QED BY <2>3, <2>4, <2>5
<1>6. new = Turns(mid, any)[Len(joysticks)]
  BY DEF AfterRemoval, Now
<1> HIDE DEF mid, new
<1>7. Known = 1 .. o
  <2>1. \A j \in 1 .. Len(joysticks) : m_iid_to_idx[joysticks[j]] # NoIdx <=> j <= o
    BY <1>1 DEF Calm, KnownOnes, o
  <2>2. \A j \in 1 .. Len(joysticks) : \A k \in 1 .. j : k \in 1 .. Len(joysticks)
    BY <1>1
  <2>3. \A j \in 1 .. Len(joysticks) : j \in 1 .. j
    BY <1>1
  <2>4. \A j \in 1 .. o : j \in 1 .. Len(joysticks) /\ \A k \in 1 .. j : k <= o
    BY <1>1
  <2>5. \A j \in 1 .. Len(joysticks) : j <= o => j \in 1 .. o
    BY <1>1
  <2>6. \A j \in 1 .. Len(joysticks) :
          (\A k \in 1 .. j : m_iid_to_idx[joysticks[k]] # NoIdx) <=> j \in 1 .. o
    BY <2>1, <2>2, <2>3, <2>4, <2>5
  <2> QED BY <1>1, <2>4, <2>6 DEF Known
<1>8. \A j, k \in 1 .. o : j # k => joysticks[j] # joysticks[k]
  BY <1>2 DEF Calm, InstancesApart
<1>9. \A j \in 1 .. o : mid.iidToIdx[joysticks[j]] = m_iid_to_idx[joysticks[j]]
  BY <1>2, <1>5
<1>10. \A j \in 1 .. o : \E p \in DOMAIN mid.devices : mid.devices[p].iid = joysticks[j]
  <2>1. SUFFICES ASSUME NEW j \in 1 .. o
                 PROVE  \E p \in DOMAIN mid.devices : mid.devices[p].iid = joysticks[j]
    OBVIOUS
  <2>2. m_iid_to_idx[joysticks[j]] # NoIdx
    <3>1. j <= o
      OBVIOUS
    <3> QED BY <1>2, <3>1 DEF Calm, KnownOnes, o
  <2>3. PICK p \in DOMAIN m_devices : m_devices[p].iid = joysticks[j]
    BY <1>2, <2>2 DEF Calm, Held
  <2>4. p # p0
    BY <1>2, <1>3, <2>3
  <2> QED BY <1>5, <2>3, <2>4
<1>11. /\ \A j \in 1 .. o : mid.iidToIdx[joysticks[j]] >= j - 1
       /\ \A j, k \in 1 .. o : j < k => mid.iidToIdx[joysticks[j]] < mid.iidToIdx[joysticks[k]]
  <2>1. /\ \A j \in 1 .. o : m_iid_to_idx[joysticks[j]] >= j - 1
        /\ \A j, k \in 1 .. o : j < k => m_iid_to_idx[joysticks[j]] < m_iid_to_idx[joysticks[k]]
    BY DEF Calm, IndicesInOrder, o
  <2> QED BY <1>9, <2>1
<1>12. \A p \in DOMAIN mid.devices, j \in 1 .. o :
         (\A k \in 1 .. o : mid.devices[p].iid # joysticks[k])
           => mid.devices[p].idx # mid.iidToIdx[joysticks[j]]
  <2>1. SUFFICES ASSUME NEW p \in DOMAIN mid.devices, NEW j \in 1 .. o,
                        \A k \in 1 .. o : mid.devices[p].iid # joysticks[k]
                 PROVE  mid.devices[p].idx # mid.iidToIdx[joysticks[j]]
    OBVIOUS
  <2>2. PICK d \in Iids : d = mid.devices[p].iid
    BY <1>5, StateFields, DevicesFacts
  <2>3. /\ d # iid /\ mid.iidToIdx[d] = mid.devices[p].idx /\ mid.devices[p].idx \in Indices
    BY <1>5, <2>2, StateFields, DevicesFacts DEF Agree
  <2>4. m_iid_to_idx[d] = mid.devices[p].idx /\ m_iid_to_idx[d] # NoIdx
    BY <1>5, <2>3, BoundFacts
  <2>5. ~ (\E k \in DOMAIN joysticks : joysticks[k] = d)
    <3>1. \A k \in DOMAIN joysticks : joysticks[k] = d => k <= o
      BY <2>4 DEF Calm, KnownOnes, o
    <3>2. \A k \in DOMAIN joysticks : k <= o => k \in 1 .. o
      BY <1>1
    <3> QED BY <2>1, <2>2, <3>1, <3>2
  <2>6. PICK k \in DOMAIN events : IsRemoved(k) /\ events[k].which = d
    BY <2>4, <2>5 DEF Calm, KnownOnes
  <2>7. k # 1 /\ k <= Leaving /\ k \in Nat
    BY <2>3, <2>6, TypeOfNow DEF Calm, QueueInOrder
  <2>8. k = 2 /\ Leaving = 2
    <3>1. k \in 1 .. Len(events) /\ Len(events) \in Nat
      BY TypeOfNow
    <3> QED BY <1>1, <2>7, <3>1
  <2>9. m_iid_to_idx[joysticks[j]] # m_iid_to_idx[events[2].which]
    BY <2>8 DEF Calm, IndicesInOrder, o
  <2> QED BY <1>9, <2>4, <2>6, <2>8, <2>9
<1>13. /\ new \in State /\ Agree(new) /\ LinesAgree(new)
       /\ DOMAIN new.devices = DOMAIN mid.devices
       /\ \A p \in DOMAIN mid.devices : new.devices[p].iid = mid.devices[p].iid
       /\ \A k \in 1 .. o : new.iidToIdx[joysticks[k]] = k - 1
       /\ \A d \in Iids : (\A k \in 1 .. o : d # joysticks[k]) => new.iidToIdx[d] = mid.iidToIdx[d]
  <2>1. mid \in State /\ Agree(mid) /\ LinesAgree(mid) /\ o \in 0 .. Len(joysticks)
    BY <1>1, <1>5
  <2> QED BY <1>6, <1>7, <1>8, <1>10, <1>11, <1>12, <2>1, LoopAgrees, ZenonT(30)
<1>14. Len(new.devices) = Len(m_devices) - 1
  <2>1. /\ Len(new.devices) \in Nat /\ DOMAIN new.devices = 1 .. Len(new.devices)
        /\ Len(mid.devices) \in Nat /\ DOMAIN mid.devices = 1 .. Len(mid.devices)
    BY <1>5, <1>13, StateFields, DevicesFacts
  <2>2. \A a, b \in Nat : 1 .. a = 1 .. b => a = b
    <3>1. SUFFICES ASSUME NEW a \in Nat, NEW b \in Nat, 1 .. a = 1 .. b PROVE a = b
      OBVIOUS
    <3>2. \A k \in Nat : 1 <= k => (k <= a <=> k <= b)
      <4>1. \A k \in Nat : 1 <= k => (k \in 1 .. a <=> k <= a) /\ (k \in 1 .. b <=> k <= b)
        OBVIOUS
      <4> QED BY <3>1, <4>1
    <3>3. (1 <= a => a <= b) /\ (1 <= b => b <= a)
      BY <3>2
    <3> QED BY <3>3
  <2>3. Len(new.devices) = Len(mid.devices)
    BY <1>13, <2>1, <2>2
  <2> QED BY <1>5, <2>3
<1>15. \A p \in DOMAIN m_devices : m_devices[p].iid # iid =>
         \E q \in DOMAIN new.devices : new.devices[q].iid = m_devices[p].iid
  BY <1>3, <1>5, <1>13
<1>16. \A d \in Iids : (\A k \in 1 .. o : d # joysticks[k])
         => new.iidToIdx[d] = IF d = iid THEN NoIdx ELSE m_iid_to_idx[d]
  BY <1>5, <1>13
<1> QED BY <1>13, <1>14, <1>15, <1>16 DEF new, o

\* A pad that left is taken out; another may still wait.
LEMMA DeviceRemovedKeepsCalm ==
  ASSUME Typed, Calm, DeviceRemoved
  PROVE  Calm' /\ (Aimed => Aimed')
<1> DEFINE iid == Head(events).which
<1>0. PICK n \in Nat : n = Len(events)
  BY TypeOfNow
<1>a. PICK o \in Nat : o = Opened
  BY OpenedFacts DEF Calm
<1>1. events # <<>> /\ events' = Tail(events) /\ Head(events).kind = "removed"
  BY DEF DeviceRemoved
<1>2. /\ n >= 1 /\ 1 \in DOMAIN events /\ DOMAIN events = 1 .. n
      /\ Len(events') = n - 1 /\ DOMAIN events' = 1 .. n - 1
      /\ \A k \in 1 .. n - 1 : /\ k + 1 \in 1 .. n
                               /\ events'[k] = events[k + 1]
                               /\ IsAdded(k)' = IsAdded(k + 1)
                               /\ IsRemoved(k)' = IsRemoved(k + 1)
      /\ Head(events) = events[1]
  BY <1>0, <1>1, HandledFacts, TypeOfNow
<1>3. IsRemoved(1) /\ iid = events[1].which
  BY <1>1, <1>2 DEF IsRemoved
<1>b. PICK l \in Nat : l = Leaving
  BY OpenedFacts DEF Calm
<1>4. /\ l \in 1 .. 2 /\ l <= n
      /\ \A k \in 1 .. n : IsRemoved(k) <=> k <= l
  <2>1. Leaving \in 0 .. 2 /\ Leaving <= Len(events)
    BY OpenedFacts DEF Calm
  <2>2. \A k \in 1 .. n : IsRemoved(k) <=> k <= l
    BY <1>2, <1>b DEF Calm, QueueInOrder
  <2>3. 1 \in 1 .. n /\ 1 <= l
    BY <1>2, <1>3, <2>2
  <2> QED BY <1>0, <1>b, <2>1, <2>2, <2>3
<1>5. Leaving' = l - 1
  <2>1. \A k \in 1 .. n - 1 : IsRemoved(k)' <=> k <= l - 1
    <3>1. SUFFICES ASSUME NEW k \in 1 .. n - 1 PROVE IsRemoved(k)' <=> k <= l - 1
      OBVIOUS
    <3>2. k + 1 \in 1 .. n /\ IsRemoved(k)' = IsRemoved(k + 1) /\ (k + 1 <= l <=> k <= l - 1)
      BY <1>2
    <3> QED BY <1>4, <3>2
  <2>2. CASE n - 1 = 0
    BY <1>2, <1>4, <2>2 DEF Leaving
  <2>3. CASE n - 1 >= 1
    <3>1. 1 \in 1 .. n - 1 /\ (IsRemoved(1)' <=> 1 <= l - 1)
      BY <2>1, <2>3
    <3>2. n - 1 >= 2 => (IsRemoved(2)' <=> 2 <= l - 1)
      BY <2>1
    <3>3. l = 1 \/ l = 2
      BY <1>4
    <3> QED BY <1>2, <2>3, <3>1, <3>2, <3>3 DEF Leaving
  <2> QED BY <1>2, <2>2, <2>3
<1>6. UNCHANGED <<plugs, joysticks>>
  BY DEF DeviceRemoved
<1>c. PICK m \in Nat : m = Len(joysticks)
  BY TypeOfNow
<1>7. /\ Opened' = o /\ o \in 0 .. m /\ DOMAIN joysticks = 1 .. m
      /\ \A j \in 1 .. m : joysticks[j] \in Iids /\ joysticks[j] # iid
  <2>1. o = m - (n - l) /\ o \in 0 .. m
    BY <1>0, <1>a, <1>b, <1>c, OpenedFacts DEF Calm, Opened
  <2>2. Opened' = o
    BY <1>2, <1>4, <1>5, <1>6, <1>c, <2>1 DEF Opened
  <2> QED BY <1>2, <1>3, <1>c, <2>1, <2>2, TypeOfNow DEF Calm, InstancesApart
<1>8. PICK any \in Lines :
        LET st == AfterRemoval(iid, any)
        IN  /\ m_idx_to_iid' = st.idxToIid /\ m_iid_to_idx' = st.iidToIdx
            /\ m_devices' = st.devices /\ pads' = st.pads
  BY DEF DeviceRemoved
<1> DEFINE st == AfterRemoval(iid, any)
<1>9. /\ st \in State /\ Agree(st) /\ LinesAgree(st)
      /\ Len(st.devices) = Len(m_devices) - 1
      /\ \A k \in 1 .. o : st.iidToIdx[joysticks[k]] = k - 1
      /\ \A d \in Iids : (\A k \in 1 .. o : d # joysticks[k])
           => st.iidToIdx[d] = IF d = iid THEN NoIdx ELSE m_iid_to_idx[d]
      /\ \A p \in DOMAIN m_devices : m_devices[p].iid # iid =>
           \E q \in DOMAIN st.devices : st.devices[q].iid = m_devices[p].iid
  BY <1>a, <1>2, <1>3, RemovalAgrees
<1>10. /\ m_idx_to_iid' = st.idxToIid /\ m_iid_to_idx' = st.iidToIdx
       /\ m_devices' = st.devices /\ pads' = st.pads
  BY <1>8
<1>11. iid \in Iids
  BY <1>2, <1>3, TypeOfNow
<1> HIDE DEF st, iid
<1>12. \A j \in 1 .. o : j \in 1 .. m /\ j - 1 # NoIdx
  BY <1>7 DEF NoIdx
<1>13. \A j \in 1 .. m : ~ (j <= o) => m_iid_to_idx[joysticks[j]] = NoIdx
  BY <1>a, <1>7 DEF Calm, KnownOnes
<1>14. \A d \in Iids : m_iid_to_idx'[d] # NoIdx =>
         \/ \E k \in 1 .. o : joysticks[k] = d
         \/ d # iid /\ m_iid_to_idx[d] # NoIdx
  BY <1>9, <1>10
<1>15. \A d \in Iids : m_iid_to_idx'[d] # NoIdx => d # iid /\ m_iid_to_idx[d] # NoIdx
  <2>1. \A k \in 1 .. o : joysticks[k] # iid /\ m_iid_to_idx[joysticks[k]] # NoIdx
    BY <1>a, <1>7, <1>12 DEF Calm, KnownOnes
  <2> QED BY <1>14, <2>1
<1>16. \A k \in 1 .. n - 1 : IsRemoved(k)' =>
         /\ IsRemoved(k + 1) /\ events'[k].which = events[k + 1].which
         /\ events'[k].which \in Iids /\ events'[k].which # iid
         /\ \A j \in 1 .. m : joysticks[j] # events'[k].which
  <2>1. SUFFICES ASSUME NEW k \in 1 .. n - 1, IsRemoved(k)'
                 PROVE  /\ IsRemoved(k + 1) /\ events'[k].which = events[k + 1].which
                        /\ events'[k].which \in Iids /\ events'[k].which # iid
                        /\ \A j \in 1 .. m : joysticks[j] # events'[k].which
    OBVIOUS
  <2>2. k + 1 \in 1 .. n /\ IsRemoved(k + 1) /\ events'[k] = events[k + 1] /\ k + 1 # 1 /\ 1 \in 1 .. n
    BY <1>2, <2>1
  <2>3. events[k + 1].which \in Iids
    BY <1>2, <2>2, TypeOfNow
  <2>4. events[k + 1].which # events[1].which
    BY <1>2, <1>3, <2>2 DEF Calm, InstancesApart
  <2>5. \A j \in 1 .. m : joysticks[j] # events[k + 1].which
    BY <1>2, <1>7, <2>2 DEF Calm, InstancesApart
  <2> QED BY <1>3, <2>2, <2>3, <2>4, <2>5
<1>17. QueueInOrder'
  <2>1. SUFFICES ASSUME NEW k \in 1 .. n - 1
                 PROVE  /\ IsRemoved(k)' <=> k <= l - 1
                        /\ IsAdded(k)' => events'[k].which = m - 1 - (n - 1 - k)
    BY <1>2, <1>5, <1>6, <1>c DEF QueueInOrder
  <2>2. /\ k + 1 \in 1 .. n /\ events'[k] = events[k + 1] /\ n - (k + 1) = n - 1 - k
        /\ IsAdded(k)' = IsAdded(k + 1) /\ IsRemoved(k)' = IsRemoved(k + 1)
        /\ (k + 1 <= l <=> k <= l - 1)
    BY <1>2
  <2>3. IsAdded(k + 1) => events[k + 1].which = m - 1 - (n - (k + 1))
    BY <1>0, <1>2, <1>c, <2>2 DEF Calm, QueueInOrder
  <2> QED BY <1>4, <2>2, <2>3
<1>18. InstancesApart'
  <2>1. \A k \in 1 .. n - 1 : IsRemoved(k)' => events'[k].which <= plugs
    <3>1. \A k \in 1 .. n - 1 : k + 1 \in DOMAIN events
      BY <1>2
    <3> QED BY <1>16, <3>1 DEF Calm, InstancesApart
  <2>2. \A k, h \in 1 .. n - 1 : k # h /\ IsRemoved(k)' /\ IsRemoved(h)' =>
          events'[k].which # events'[h].which
    <3>1. \A k, h \in 1 .. n - 1 : k # h =>
           k + 1 # h + 1 /\ k + 1 \in DOMAIN events /\ h + 1 \in DOMAIN events
      BY <1>2
    <3> QED BY <1>16, <3>1 DEF Calm, InstancesApart
  <2>3. \A d \in Iids : d > plugs => m_iid_to_idx'[d] = NoIdx
    BY <1>15 DEF Calm, InstancesApart
  <2> QED BY <1>2, <1>6, <1>7, <1>16, <2>1, <2>2, <2>3 DEF Calm, InstancesApart
<1>19. KnownOnes'
  <2>1. \A j \in 1 .. m : m_iid_to_idx'[joysticks[j]] # NoIdx <=> j <= o
    <3>1. SUFFICES ASSUME NEW j \in 1 .. m
                   PROVE  m_iid_to_idx'[joysticks[j]] # NoIdx <=> j <= o
      OBVIOUS
    <3>2. j <= o => j \in 1 .. o
      BY <1>7
    <3>3. j <= o => m_iid_to_idx'[joysticks[j]] = j - 1
      BY <1>9, <1>10, <3>2
    <3> QED BY <1>7, <1>12, <1>13, <1>15, <3>2, <3>3
  <2>2. \A k \in 1 .. n - 1 : IsRemoved(k)' => m_iid_to_idx'[events'[k].which] # NoIdx
    <3>1. SUFFICES ASSUME NEW k \in 1 .. n - 1, IsRemoved(k)'
                   PROVE  m_iid_to_idx'[events'[k].which] # NoIdx
      OBVIOUS
    <3> DEFINE d == events'[k].which
    <3>2. d \in Iids /\ d # iid /\ \A j \in 1 .. o : d # joysticks[j]
      BY <1>12, <1>16, <3>1
    <3>3. m_iid_to_idx'[d] = m_iid_to_idx[d]
      BY <1>9, <1>10, <3>2
    <3>4. m_iid_to_idx[d] # NoIdx
      <4>1. k + 1 \in DOMAIN events
        BY <1>2
      <4> QED BY <1>16, <3>1, <4>1 DEF Calm, KnownOnes
    <3> QED BY <3>3, <3>4
  <2>3. \A d \in Iids : m_iid_to_idx'[d] # NoIdx =>
          \/ \E j \in 1 .. m : joysticks[j] = d
          \/ \E k \in 1 .. n - 1 : IsRemoved(k)' /\ events'[k].which = d
    <3>1. SUFFICES ASSUME NEW d \in Iids, m_iid_to_idx'[d] # NoIdx, ~ \E j \in 1 .. m : joysticks[j] = d
                   PROVE  \E k \in 1 .. n - 1 : IsRemoved(k)' /\ events'[k].which = d
      OBVIOUS
    <3>2. PICK k \in 1 .. n : IsRemoved(k) /\ events[k].which = d
      BY <1>2, <1>7, <1>15, <3>1 DEF Calm, KnownOnes
    <3>3. k # 1
      BY <1>3, <1>15, <3>1, <3>2
    <3>4. k - 1 \in 1 .. n - 1 /\ (k - 1) + 1 = k
      BY <3>3
    <3>5. IsRemoved(k - 1)' /\ events'[k - 1].which = d
      BY <1>2, <3>2, <3>4
    <3> QED BY <3>4, <3>5
  <2> QED BY <1>2, <1>6, <1>7, <2>1, <2>2, <2>3 DEF KnownOnes
<1>20. IndicesInOrder'
  <2>1. \A j \in 1 .. o : m_iid_to_idx'[joysticks[j]] = j - 1
    BY <1>9, <1>10
  <2>2. \A j \in 1 .. o : j - 1 >= j - 1 /\ \A k \in 1 .. o : j < k => j - 1 < k - 1
    OBVIOUS
  <2>3. \A j, k \in 1 .. o : j < k => m_iid_to_idx'[joysticks[j]] < m_iid_to_idx'[joysticks[k]]
    BY <2>1, <2>2
  <2>4. \A j \in 1 .. o : m_iid_to_idx'[joysticks[j]] >= j - 1
    BY <2>1, <2>2
  <2>5. Leaving' # 2
    BY <1>4, <1>5
  <2> QED BY <1>6, <1>7, <2>1, <2>3, <2>4, <2>5 DEF IndicesInOrder
<1>21. Held'
  <2>1. \A d \in Iids : m_iid_to_idx'[d] # NoIdx => \E q \in DOMAIN st.devices : st.devices[q].iid = d
    BY <1>9, <1>15, SMTT(30) DEF Calm, Held
  <2>2. Len(st.devices) = o + (l - 1)
    BY <1>a, <1>b, <1>9 DEF Calm, Held
  <2> QED BY <1>5, <1>7, <1>10, <2>1, <2>2 DEF Held
<1>22. Linked'
  <2>1. Now' = [idxToIid |-> st.idxToIid, iidToIdx |-> st.iidToIdx,
                devices |-> st.devices, pads |-> st.pads]
    BY <1>10 DEF Now
  <2>2. Agree(Now)' /\ LinesAgree(Now)'
    BY <1>9, <2>1 DEF Agree, LinesAgree
  <2>3. m_devices' = <<>> => \A i \in Lines : pads'[i] = NoLine
    <3>1. ASSUME m_devices' = <<>>, NEW i \in Lines PROVE pads'[i] = NoLine
      <4>1. Len(st.devices) = 0 /\ ~ (i < 0)
        BY <1>10, <3>1, BoundFacts
      <4> QED BY <1>9, <1>10, <4>1 DEF LinesAgree
    <3> QED BY <3>1
  <2> QED BY <2>2, <2>3 DEF Linked
<1>23. Aimed => Aimed'
  <2>1. /\ m_recording' = NoIdx \/ m_recording' = m_recording
        /\ target' = target /\ disturbed' = disturbed
    BY DEF DeviceRemoved
  <2>2. SUFFICES ASSUME Aimed, m_recording # NoIdx, ~ disturbed, m_recording' = m_recording
                 PROVE  Aimed'
    BY <2>1 DEF Aimed
  <2>3. PICK r \in Nat : /\ r = m_recording /\ r + 1 \in 1 .. o
                         /\ joysticks[r + 1] = target /\ m_iid_to_idx[target] = r
    BY <1>a, <2>2, AimedPlace
  <2>4. m_iid_to_idx'[target] = r
    <3>1. st.iidToIdx[joysticks[r + 1]] = (r + 1) - 1
      BY <1>9, <2>3
    <3> QED BY <1>10, <2>3, <3>1
  <2>5. \A k \in 1 .. n - 1 : IsRemoved(k)' => m_iid_to_idx'[events'[k].which] > r
    <3>1. SUFFICES ASSUME NEW k \in 1 .. n - 1, IsRemoved(k)'
                   PROVE  m_iid_to_idx'[events'[k].which] > r
      OBVIOUS
    <3> DEFINE d == events'[k].which
    <3>2. d \in Iids /\ d # iid /\ \A j \in 1 .. o : d # joysticks[j]
      BY <1>12, <1>16, <3>1
    <3>3. m_iid_to_idx'[d] = m_iid_to_idx[d]
      BY <1>9, <1>10, <3>2
    <3>4. m_iid_to_idx[d] > r
      <4>1. k + 1 \in DOMAIN events
        BY <1>2
      <4> QED BY <1>16, <2>2, <2>3, <3>1, <4>1 DEF Aimed
    <3> QED BY <3>3, <3>4
  <2> QED BY <1>2, <1>6, <1>7, <2>1, <2>2, <2>3, <2>4, <2>5 DEF Aimed
<1>24. Calm'
  BY <1>17, <1>18, <1>19, <1>20, <1>21, <1>22 DEF Calm
<1> QED BY <1>23, <1>24

\* Two players change pads, and their lines with them.
LEMMA SwapKeepsCalm ==
  ASSUME Typed, Calm, NEW i \in Indices, NEW j \in Indices, i # j, Swap(i, j)
  PROVE  Calm'
<1> DEFINE p == i + 1
           q == j + 1
           Changed(a, b) == [m_devices[a] EXCEPT !.iid = m_devices[b].iid, !.idx = m_devices[b].idx]
           Place(r) == IF r = p THEN q ELSE IF r = q THEN p ELSE r
<1>0. PICK n \in Nat : n = Len(m_devices)
  BY TypeOfNow
<1>1. /\ m_devices \in Seq(Device) /\ DOMAIN m_devices = 1 .. n
      /\ \A r \in 1 .. n : m_devices[r] \in Device
  <2> HIDE DEF Device
  <2> QED BY <1>0, TypeOfNow, ElementOfSeq
<1>2. /\ \A r \in 1 .. n : m_devices[r].id = r - 1 /\ m_iid_to_idx[m_devices[r].iid] = m_devices[r].idx
      /\ \A r, s \in 1 .. n : r # s => m_devices[r].iid # m_devices[s].iid
      /\ \A k \in Indices : m_idx_to_iid[k] # NoIid => m_iid_to_idx[m_idx_to_iid[k]] = k
  BY <1>1, NowFacts DEF Calm, Linked, Agree
<1>3. /\ p \in 1 .. n /\ q \in 1 .. n /\ p # q /\ i \in Nat /\ j \in Nat
      /\ First(WithId(m_devices, i)) = p /\ First(WithId(m_devices, j)) = q
  <2>1. i \in Nat /\ j \in Nat
    BY BoundFacts
  <2>2. WithId(m_devices, i) # {} /\ WithId(m_devices, j) # {}
    BY DEF Swap
  <2>3. WithId(m_devices, i) = {p} /\ WithId(m_devices, j) = {q} /\ p \in 1 .. n /\ q \in 1 .. n
    BY <1>1, <1>2, <2>1, <2>2 DEF WithId
  <2>4. First({p}) = p /\ First({q}) = q
    BY <2>1, FirstOfOne
  <2> QED BY <2>1, <2>3, <2>4
<1>4. m_devices' = With(With(m_devices, p, Changed(p, q)), q, Changed(q, p))
  BY <1>3 DEF Swap
<1>5. /\ Changed(p, q) \in Device /\ Changed(q, p) \in Device
      /\ Changed(p, q).id = i /\ Changed(q, p).id = j
      /\ Changed(p, q).iid = m_devices[q].iid /\ Changed(q, p).iid = m_devices[p].iid
      /\ Changed(p, q).idx = m_devices[q].idx /\ Changed(q, p).idx = m_devices[p].idx
  <2>1. m_devices[p].id = i /\ m_devices[q].id = j /\ m_devices[p] \in Device /\ m_devices[q] \in Device
    BY <1>1, <1>2, <1>3
  <2> HIDE DEF p, q
  <2> QED BY <2>1 DEF Device
<1> HIDE DEF Changed, p, q
<1>6. /\ Len(m_devices') = n /\ DOMAIN m_devices' = 1 .. n
      /\ \A r \in 1 .. n : m_devices'[r] =
           IF r = q THEN Changed(q, p) ELSE IF r = p THEN Changed(p, q) ELSE m_devices[r]
  <2> DEFINE mid == With(m_devices, p, Changed(p, q))
  <2>1. /\ mid \in Seq(Device) /\ Len(mid) = n
        /\ \A r \in 1 .. n : mid[r] = IF r = p THEN Changed(p, q) ELSE m_devices[r]
    BY <1>0, <1>1, <1>5, WithFacts
  <2> HIDE DEF mid
  <2>2. /\ m_devices' \in Seq(Device) /\ Len(m_devices') = n
        /\ \A r \in 1 .. n : m_devices'[r] = IF r = q THEN Changed(q, p) ELSE mid[r]
    BY <1>4, <1>5, <2>1, WithFacts DEF mid
  <2>3. DOMAIN m_devices' = 1 .. n
    <3> HIDE DEF Device
    <3> QED BY <1>0, <2>2
  <2> QED BY <1>3, <2>1, <2>2, <2>3
<1>7. \A r \in 1 .. n : /\ Place(r) \in 1 .. n
                        /\ m_devices'[r].id = r - 1
                        /\ m_devices'[r].iid = m_devices[Place(r)].iid
                        /\ m_devices'[r].idx = m_devices[Place(r)].idx
  <2>1. p - 1 = i /\ q - 1 = j
    BY <1>3 DEF p, q
  <2>2. SUFFICES ASSUME NEW r \in 1 .. n
                 PROVE  /\ Place(r) \in 1 .. n
                        /\ m_devices'[r].id = r - 1
                        /\ m_devices'[r].iid = m_devices[Place(r)].iid
                        /\ m_devices'[r].idx = m_devices[Place(r)].idx
    OBVIOUS
  <2>3. CASE r = p
    BY <1>3, <1>5, <1>6, <2>1, <2>3
  <2>4. CASE r = q
    BY <1>3, <1>5, <1>6, <2>1, <2>4
  <2>5. CASE r # p /\ r # q
    BY <1>2, <1>6, <2>5
  <2> QED BY <2>3, <2>4, <2>5
<1>8. \A r \in 1 .. n : Place(Place(r)) = r
  BY <1>3
<1>9. \A r, s \in 1 .. n : r # s => Place(r) # Place(s)
  BY <1>8
<1>10. \A k \in Lines : pads'[k] = IF k = j THEN pads[i] ELSE IF k = i THEN pads[j] ELSE pads[k]
  <2>1. pads \in [Lines -> Line] /\ i \in Lines /\ j \in Lines
    BY TypeOfNow, BoundFacts
  <2> QED BY <2>1 DEF Swap
<1>11. /\ UNCHANGED <<plugs, joysticks, events, m_idx_to_iid, m_iid_to_idx>>
  BY DEF Swap, sdlVars, mapVars
<1>12. Leaving' = Leaving /\ Opened' = Opened
  BY <1>11 DEF Leaving, Opened, IsRemoved
<1>13. (QueueInOrder /\ InstancesApart /\ KnownOnes /\ IndicesInOrder)'
  BY <1>11, <1>12 DEF Calm, QueueInOrder, InstancesApart, KnownOnes, IndicesInOrder, IsAdded, IsRemoved
<1>14. Held'
  <2>1. \A d \in Iids : m_iid_to_idx[d] # NoIdx => \E r \in 1 .. n : m_devices'[r].iid = d
    <3>1. SUFFICES ASSUME NEW d \in Iids, m_iid_to_idx[d] # NoIdx
                   PROVE  \E r \in 1 .. n : m_devices'[r].iid = d
      OBVIOUS
    <3>2. PICK r \in 1 .. n : m_devices[r].iid = d
      BY <1>1, <3>1 DEF Calm, Held
    <3>3. Place(r) \in 1 .. n /\ m_devices'[Place(r)].iid = d
      BY <1>7, <1>8, <3>2
    <3> QED BY <3>3
  <2> QED BY <1>0, <1>6, <1>11, <1>12, <2>1 DEF Calm, Held
<1>15. Agree(Now)'
  <2>1. Now'.idxToIid = m_idx_to_iid /\ Now'.iidToIdx = m_iid_to_idx /\ Now'.devices = m_devices'
    BY <1>11 DEF Now
  <2>2. \A r \in 1 .. n : m_devices'[r].id = r - 1 /\ m_iid_to_idx[m_devices'[r].iid] = m_devices'[r].idx
    BY <1>2, <1>7
  <2>3. \A r, s \in 1 .. n : r # s => m_devices'[r].iid # m_devices'[s].iid
    BY <1>2, <1>7, <1>9
  <2> QED BY <1>2, <1>6, <2>1, <2>2, <2>3 DEF Agree
<1>16. \A k \in Lines : pads'[k] = IF k < n THEN LineOf(m_devices'[k + 1]) ELSE NoLine
  <2>1. \A k \in Lines : pads[k] = IF k < n THEN LineOf(m_devices[k + 1]) ELSE NoLine
    <3>1. m_devices # <<>>
      BY <1>1, <1>3
    <3> QED BY <1>0, <3>1, NowFacts DEF Calm, Linked, LinesAgree
  <2>2. SUFFICES ASSUME NEW k \in Lines
                 PROVE  pads'[k] = IF k < n THEN LineOf(m_devices'[k + 1]) ELSE NoLine
    OBVIOUS
  <2>3. /\ k \in Nat /\ i < n /\ j < n /\ p = i + 1 /\ q = j + 1
        /\ i \in Lines /\ j \in Lines
    BY <1>3, BoundFacts DEF p, q
  <2>4. \A r \in 1 .. n : LineOf(m_devices'[r]) = LineOf(m_devices[Place(r)])
    BY <1>7 DEF LineOf
  <2>5. CASE k = j
    <3>1. pads'[k] = LineOf(m_devices[p])
      BY <1>10, <2>1, <2>3, <2>5
    <3>2. k + 1 = q /\ Place(q) = p
      BY <1>3, <2>3, <2>5
    <3> QED BY <1>3, <2>3, <2>4, <2>5, <3>1, <3>2
  <2>6. CASE k = i
    <3>1. pads'[k] = LineOf(m_devices[q])
      BY <1>10, <2>1, <2>3, <2>6
    <3>2. k + 1 = p /\ Place(p) = q
      BY <1>3, <2>3, <2>6
    <3> QED BY <1>3, <2>3, <2>4, <2>6, <3>1, <3>2
  <2>7. CASE k # i /\ k # j
    <3>1. pads'[k] = pads[k]
      BY <1>10, <2>7
    <3>2. k < n => k + 1 \in 1 .. n /\ Place(k + 1) = k + 1
      BY <2>3, <2>7
    <3> HIDE DEF Place
    <3> QED BY <2>1, <2>4, <3>1, <3>2
  <2> QED BY <2>5, <2>6, <2>7
<1>17. Linked'
  <2>1. Now'.devices = m_devices' /\ Now'.pads = pads'
    BY DEF Now
  <2>2. LinesAgree(Now)'
    BY <1>6, <1>16, <2>1 DEF LinesAgree
  <2>3. m_devices' # <<>>
    BY <1>3, <1>6
  <2> QED BY <1>15, <2>2, <2>3 DEF Linked
<1> QED BY <1>13, <1>14, <1>17 DEF Calm

CalmVars == <<sdlVars, mapVars, m_devices, pads>>

\* What touches no pad keeps them.
LEMMA FrameKeepsCalm ==
  ASSUME Calm, UNCHANGED CalmVars
  PROVE  Calm'
<1>1. UNCHANGED <<plugs, joysticks, events, m_idx_to_iid, m_iid_to_idx, m_devices, pads>>
  BY DEF CalmVars, sdlVars, mapVars
<1>2. Leaving' = Leaving /\ Opened' = Opened
  BY <1>1 DEF Leaving, Opened, IsRemoved
<1>3. (QueueInOrder /\ InstancesApart /\ KnownOnes /\ IndicesInOrder)'
  BY <1>1, <1>2 DEF Calm, QueueInOrder, InstancesApart, KnownOnes, IndicesInOrder, IsAdded, IsRemoved
<1>4. Held' /\ Linked'
  BY <1>1, <1>2 DEF Calm, Held, Linked, Now, Agree, LinesAgree, LineOf
<1> QED BY <1>3, <1>4 DEF Calm

\* Once the queue is handled, every pad of the list was added, has the index of
\* its place, and shares it with no other.
LEMMA HandledPads ==
  ASSUME Typed, Calm, Handled
  PROVE  /\ Opened = Len(joysticks) /\ Len(m_devices) = Len(joysticks)
         /\ \A j \in DOMAIN joysticks : joysticks[j] \in Iids /\ m_iid_to_idx[joysticks[j]] = j - 1
         /\ \A d \in Iids : m_iid_to_idx[d] # NoIdx => \E j \in DOMAIN joysticks : joysticks[j] = d
         /\ \A d, e \in Iids : m_iid_to_idx[d] # NoIdx /\ m_iid_to_idx[d] = m_iid_to_idx[e] => d = e
<1>1. Leaving = 0 /\ Len(events) = 0 /\ Len(joysticks) \in Nat /\ DOMAIN joysticks = 1 .. Len(joysticks)
  BY TypeOfNow DEF Handled, Leaving
<1>2. Opened = Len(joysticks) /\ Len(m_devices) = Len(joysticks)
  <2>1. Opened = Len(joysticks)
    BY <1>1 DEF Opened
  <2> QED BY <1>1, <2>1 DEF Calm, Held
<1>3. \A j \in DOMAIN joysticks : joysticks[j] \in Iids /\ m_iid_to_idx[joysticks[j]] = j - 1
  BY <1>1, <1>2, TypeOfNow DEF Calm, IndicesInOrder
<1>4. \A d \in Iids : m_iid_to_idx[d] # NoIdx => \E j \in DOMAIN joysticks : joysticks[j] = d
  BY DEF Handled, Calm, KnownOnes
<1>5. ASSUME NEW d \in Iids, NEW e \in Iids, m_iid_to_idx[d] # NoIdx, m_iid_to_idx[d] = m_iid_to_idx[e]
      PROVE  d = e
  <2>1. PICK j \in DOMAIN joysticks : joysticks[j] = d
    BY <1>4, <1>5
  <2>2. PICK k \in DOMAIN joysticks : joysticks[k] = e
    BY <1>4, <1>5
  <2>3. j - 1 = k - 1
    BY <1>3, <1>5, <2>1, <2>2
  <2> QED BY <1>1, <2>1, <2>2, <2>3
<1> QED BY <1>2, <1>3, <1>4, <1>5

\* The aim depends on the queue, the maps and the recording only.
LEMMA FrameKeepsAimed ==
  ASSUME Aimed, UNCHANGED <<sdlVars, mapVars, target, disturbed>>,
         m_recording' \in {m_recording, NoIdx}
  PROVE  Aimed'
<1>1. UNCHANGED <<joysticks, events, m_iid_to_idx, target, disturbed>>
  BY DEF sdlVars, mapVars
<1>2. Opened' = Opened
  BY <1>1 DEF Leaving, Opened, IsRemoved
<1>3. CASE m_recording' = NoIdx
  BY <1>3 DEF Aimed
<1>4. CASE m_recording' = m_recording
  BY <1>1, <1>2, <1>4 DEF Aimed, IsRemoved
<1> QED BY <1>3, <1>4

\* A pad of the model, when the queue is empty: SDL has it at its index.
LEMMA DeviceIsInList ==
  ASSUME Typed, Calm, Handled, NEW p \in DOMAIN m_devices
  PROVE  /\ m_devices[p].idx \in Indices /\ m_devices[p].iid \in Iids
         /\ m_devices[p].idx + 1 \in DOMAIN joysticks
         /\ joysticks[m_devices[p].idx + 1] = m_devices[p].iid
         /\ m_iid_to_idx[m_devices[p].iid] = m_devices[p].idx
<1>1. m_devices[p].idx \in Indices /\ m_devices[p].iid \in Iids
  BY TypeOfNow, DevicesFacts
<1>2. m_iid_to_idx[m_devices[p].iid] = m_devices[p].idx
  BY NowFacts DEF Calm, Linked, Agree
<1>3. PICK j \in DOMAIN joysticks : joysticks[j] = m_devices[p].iid
  BY <1>1, <1>2, HandledPads, BoundFacts
<1>4. m_iid_to_idx[joysticks[j]] = j - 1 /\ j \in Int
  BY <1>3, HandledPads, TypeOfNow
<1>5. m_devices[p].idx + 1 = j
  BY <1>2, <1>3, <1>4
<1> QED BY <1>1, <1>2, <1>3, <1>5

\* A recording starts aimed.
LEMMA StartIsAimed ==
  ASSUME Typed, Calm, Handled, NEW p \in DOMAIN m_devices,
         UNCHANGED <<sdlVars, mapVars>>,
         m_recording' = m_devices[p].idx, target' = m_devices[p].iid
  PROVE  Aimed'
<1>1. UNCHANGED <<joysticks, events, m_iid_to_idx>>
  BY DEF sdlVars, mapVars
<1>2. Opened' = Len(joysticks)
  <2>1. Opened' = Opened
    BY <1>1 DEF Leaving, Opened, IsRemoved
  <2> QED BY <2>1, HandledPads
<1>3. DOMAIN events' = {}
  BY <1>1 DEF Handled
<1>4. /\ m_recording' + 1 \in 1 .. Len(joysticks)
      /\ joysticks[m_recording' + 1] = target' /\ m_iid_to_idx[target'] = m_recording'
  BY DeviceIsInList, TypeOfNow
<1> QED BY <1>1, <1>2, <1>3, <1>4 DEF Aimed

\* The pad whose index it is, when no removal waits.
LEMMA CalmPads ==
  ASSUME Typed, Calm, ~ RemovalWaits, NEW d \in Iids, m_iid_to_idx[d] \in Indices
  PROVE  m_iid_to_idx[d] + 1 \in DOMAIN joysticks /\ joysticks[m_iid_to_idx[d] + 1] = d
<1>1. \A n \in DOMAIN events : ~ IsRemoved(n)
  BY DEF RemovalWaits, IsRemoved
<1>2. Leaving = 0
  BY <1>1, TypeOfNow DEF Leaving
<1>3. m_iid_to_idx[d] # NoIdx
  BY IndexFacts, BoundFacts
<1>4. PICK j \in DOMAIN joysticks : joysticks[j] = d
  BY <1>1, <1>3 DEF Calm, KnownOnes
<1>5. j \in Nat /\ j \in 1 .. Opened
  <2>1. j <= Opened /\ j \in 1 .. Len(joysticks) /\ Opened \in Nat
    BY <1>3, <1>4, OpenedFacts, TypeOfNow DEF Calm, KnownOnes
  <2> QED BY <2>1, TypeOfNow
<1>6. m_iid_to_idx[d] + 1 = j
  BY <1>2, <1>4, <1>5 DEF Calm, IndicesInOrder
<1> QED BY <1>4, <1>6

\* The index of a recording that was not disturbed is that of no other pad.
LEMMA AimedPad ==
  ASSUME Typed, Calm, Aimed, m_recording # NoIdx, ~ disturbed,
         NEW d \in Iids, m_iid_to_idx[d] = m_recording
  PROVE  d = target
<1>1. /\ m_recording \in Nat /\ m_recording + 1 \in 1 .. Opened
      /\ joysticks[m_recording + 1] = target /\ m_iid_to_idx[target] = m_recording
  BY AimedPlace
<1>2. ASSUME NEW j \in DOMAIN joysticks, joysticks[j] = d PROVE d = target
  <2>1. j \in 1 .. Opened /\ j \in Nat
    <3>1. j <= Opened /\ j \in 1 .. Len(joysticks) /\ Opened \in Nat
      BY <1>2, OpenedFacts, TypeOfNow DEF Calm, KnownOnes
    <3> QED BY <3>1, TypeOfNow
  <2>2. ~ (j < m_recording + 1) /\ ~ (m_recording + 1 < j)
    BY <1>1, <1>2, <2>1 DEF Calm, IndicesInOrder
  <2>3. j = m_recording + 1
    BY <1>1, <2>1, <2>2
  <2> QED BY <1>1, <1>2, <2>3
<1>3. ASSUME NEW n \in DOMAIN events, IsRemoved(n), events[n].which = d PROVE FALSE
  BY <1>1, <1>3 DEF Aimed
<1> QED BY <1>2, <1>3 DEF Calm, KnownOnes

\* What a recording that ends takes from the maps and from SDL's list.
LEMMA FinishIsRight ==
  ASSUME Typed, Calm, RecordedRight,
         NEW device \in Indices, NEW wanted \in Iids, NEW from \in Iids, NEW lost \in BOOLEAN,
         m_iid_to_idx[from] = device, Finish(device, wanted, from, lost),
         ~ lost => /\ device + 1 \in DOMAIN joysticks /\ joysticks[device + 1] = wanted
                   /\ \A d \in Iids : m_iid_to_idx[d] = device => d = wanted
  PROVE  RecordedRight'
<1> DEFINE base == m_idx_to_iid[device]
           to   == IF device < Len(joysticks) THEN joysticks[device + 1] ELSE NoIid
           new  == [target |-> wanted, from |-> from, base |-> base, to |-> to,
                    disturbed |-> lost, waiting |-> RemovalWaits]
<1>1. CASE mapped' = mapped
  BY <1>1 DEF RecordedRight
<1>2. CASE /\ base # NoIid /\ m_iid_to_idx[base] # NoIdx
           /\ mapped' = new
  <2>1. base \in Iids /\ m_iid_to_idx[base] = device
    BY <1>2, TypeOfNow, NowFacts DEF Calm, Linked, Agree
  <2>2. \A k \in DOMAIN joysticks : k = device + 1 => to = joysticks[k]
    BY TypeOfNow, BoundFacts
  <2> HIDE DEF base, to
  <2>3. ASSUME ~ RemovalWaits PROVE from = to /\ base = to
    <3>1. device + 1 \in DOMAIN joysticks /\ joysticks[device + 1] = from
      BY <2>3, CalmPads
    <3>2. joysticks[device + 1] = base
      BY <2>1, <2>3, CalmPads
    <3> QED BY <2>2, <3>1, <3>2
  <2>4. ASSUME ~ lost PROVE from = wanted /\ base = wanted /\ to = wanted
    BY <2>1, <2>2, <2>4
  <2>5. /\ mapped'.target = wanted /\ mapped'.from = from /\ mapped'.base = base
        /\ mapped'.to = to /\ mapped'.disturbed = lost /\ mapped'.waiting = RemovalWaits
    BY <1>2
  <2> HIDE DEF new
  <2> QED BY <2>3, <2>4, <2>5 DEF RecordedRight
<1> QED BY <1>1, <1>2 DEF Finish

\* The menus and the inputs touch no pad, and what is recorded is right.
LEMMA MenuIsRight ==
  ASSUME Typed, Calm, Aimed, RecordedRight, disturbed \in BOOLEAN,
         \/ \E p \in DOMAIN m_devices : StartRecording(p) \/ Reset(p)
         \/ \E iid \in Iids : Record(iid)
  PROVE  Calm' /\ Aimed' /\ RecordedRight'
<1>1. UNCHANGED CalmVars
  BY DEF StartRecording, Reset, Record, CalmVars
<1>2. Aimed' /\ RecordedRight'
  <2>1. ASSUME NEW p \in DOMAIN m_devices, StartRecording(p) PROVE Aimed' /\ RecordedRight'
    <3>1. Aimed'
      BY <2>1, StartIsAimed DEF StartRecording
    <3> QED BY <2>1, <3>1 DEF StartRecording, RecordedRight
  <2>2. ASSUME NEW p \in DOMAIN m_devices, Reset(p) PROVE Aimed' /\ RecordedRight'
    <3> DEFINE device == m_devices[p].idx
               wanted == m_devices[p].iid
    <3>1. /\ Handled /\ target' = wanted /\ UNCHANGED <<sdlVars, mapVars>>
          /\ Finish(device, wanted, wanted, FALSE)
      BY <2>2 DEF Reset
    <3>2. /\ device \in Indices /\ wanted \in Iids
          /\ device + 1 \in DOMAIN joysticks /\ joysticks[device + 1] = wanted
          /\ m_iid_to_idx[wanted] = device
      BY <3>1, DeviceIsInList
    <3>3. m_recording' = NoIdx \/ m_recording' = device
      BY <3>1 DEF Finish
    <3>4. Aimed'
      <4>1. CASE m_recording' = NoIdx
        BY <4>1 DEF Aimed
      <4>2. CASE m_recording' = device
        BY <3>1, <4>2, StartIsAimed
      <4> QED BY <3>3, <4>1, <4>2
    <3> HIDE DEF device, wanted
    <3>5. \A d \in Iids : m_iid_to_idx[d] = device => d = wanted
      BY <3>1, <3>2, HandledPads, BoundFacts
    <3>6. RecordedRight'
      BY <3>1, <3>2, <3>5, FinishIsRight
    <3> QED BY <3>4, <3>6
  <2>3. ASSUME NEW iid \in Iids, Record(iid) PROVE Aimed' /\ RecordedRight'
    <3>1. /\ m_recording # NoIdx /\ m_recording \in Indices /\ target \in Iids
          /\ m_iid_to_idx[iid] = m_recording /\ Finish(m_recording, target, iid, disturbed)
          /\ UNCHANGED <<sdlVars, mapVars, target, disturbed>>
      BY <2>3 DEF Record, IsRecorded, Typed, TypeOK, SdlType
    <3>2. m_recording' \in {m_recording, NoIdx}
      BY <3>1 DEF Finish
    <3>3. Aimed'
      BY <3>1, <3>2, FrameKeepsAimed
    <3>4. ~ disturbed =>
            /\ m_recording + 1 \in DOMAIN joysticks /\ joysticks[m_recording + 1] = target
            /\ \A d \in Iids : m_iid_to_idx[d] = m_recording => d = target
      BY <3>1, AimedPlace, AimedPad
    <3>5. RecordedRight'
      BY <3>1, <3>4, FinishIsRight
    <3> QED BY <3>3, <3>5
  <2> QED BY <2>1, <2>2, <2>3
<1> QED BY <1>1, <1>2, FrameKeepsCalm

-----------------------------------------------------------------------------
(***************************************************************************)
(* The invariant holds, and with it what it was made for.                  *)
(***************************************************************************)
\* Every step keeps the invariant.
LEMMA NextKeepsPads == PadsInv /\ [Next]_vars => PadsInv'
<1> SUFFICES ASSUME PadsInv, [Next]_vars PROVE PadsInv'
  OBVIOUS
<1>1. Typed'
  BY PlugKeepsTypes, UnplugKeepsTypes, DeviceAddedKeepsTypes, DeviceRemovedKeepsTypes,
     SwapKeepsTypes, MenuKeepsTypes, FrameKeepsTypes DEF Next, PadsInv
<1>2. SUFFICES ASSUME ~ crossed' PROVE Calm' /\ Aimed' /\ RecordedRight'
  BY <1>1 DEF PadsInv
<1>3. ~ crossed
  BY <1>2 DEF Next, Plug, Unplug, DeviceAdded, DeviceRemoved, Swap, StartRecording, Reset, Record, vars
<1>4. Typed /\ Calm /\ Aimed /\ RecordedRight /\ disturbed \in BOOLEAN
  BY <1>3 DEF PadsInv, Typed, SdlType
<1>5. CASE Plug
  <2>1. mapped' = mapped
    BY <1>5 DEF Plug, recordVars
  <2> QED BY <1>4, <1>5, <2>1, PlugKeepsCalm DEF RecordedRight
<1>6. ASSUME NEW i \in 1 .. MaxPads, Unplug(i) PROVE Calm' /\ Aimed' /\ RecordedRight'
  <2>1. mapped' = mapped
    BY <1>6 DEF Unplug, recordVars
  <2> QED BY <1>2, <1>4, <1>6, <2>1, UnplugKeepsCalm DEF RecordedRight
<1>7. CASE DeviceAdded
  <2>1. mapped' = mapped
    BY <1>7 DEF DeviceAdded, recordVars
  <2> QED BY <1>4, <1>7, <2>1, DeviceAddedKeepsCalm DEF RecordedRight
<1>8. CASE DeviceRemoved
  <2>1. mapped' = mapped
    BY <1>8 DEF DeviceRemoved
  <2> QED BY <1>4, <1>8, <2>1, DeviceRemovedKeepsCalm DEF RecordedRight
<1>9. ASSUME NEW i \in Indices, NEW j \in Indices, j = i + 1 \/ j = i - 1, Swap(i, j)
      PROVE  Calm' /\ Aimed' /\ RecordedRight'
  <2>1. mapped' = mapped
    BY <1>9 DEF Swap, recordVars
  <2>2. i # j
    <3>1. i \in Nat
      BY BoundFacts
    <3> QED BY <1>9, <3>1
  <2>3. Calm'
    BY <1>4, <1>9, <2>2, SwapKeepsCalm
  <2>4. Aimed'
    BY <1>4, <1>9, FrameKeepsAimed DEF Swap, recordVars
  <2> QED BY <1>4, <2>1, <2>3, <2>4 DEF RecordedRight
<1>10. CASE \/ \E p \in DOMAIN m_devices : StartRecording(p) \/ Reset(p)
            \/ \E iid \in Iids : Record(iid)
  BY <1>4, <1>10, MenuIsRight
<1>11. CASE UNCHANGED vars
  <2>1. mapped' = mapped /\ UNCHANGED CalmVars
    BY <1>11 DEF vars, recordVars, CalmVars
  <2>2. Aimed'
    BY <1>4, <1>11, FrameKeepsAimed DEF vars, recordVars
  <2> QED BY <1>4, <2>1, <2>2, FrameKeepsCalm DEF RecordedRight
<1> QED BY <1>5, <1>6, <1>7, <1>8, <1>9, <1>10, <1>11 DEF Next

\* The invariant holds in every run.
LEMMA PadsInvariant == Spec => []PadsInv
BY InitPads, NextKeepsPads, PTL DEF Spec

\* A game started between two polls has the players that the frontend shows: the
\* line of each names its pad and the index SDL has for it, after any number of
\* pads that came, went and were swapped, each after the last was handled.
THEOREM EveryPlayerHasItsPad == Spec => []PlayersAgree
<1>1. PadsInv => PlayersAgree
  <2>1. SUFFICES ASSUME PadsInv, Handled, ~ crossed, m_devices # <<>>
                 PROVE  /\ Len(m_devices) = Len(joysticks)
                        /\ \A i \in Lines :
                             IF i < Len(m_devices)
                             THEN /\ pads[i] = [iid |-> m_devices[i + 1].iid,
                                                sdlidx |-> m_devices[i + 1].idx]
                                  /\ m_devices[i + 1].id = i
                                  /\ joysticks[pads[i].sdlidx + 1] = pads[i].iid
                             ELSE pads[i] = NoLine
    BY DEF PlayersAgree
  <2>2. Typed /\ Calm
    BY <2>1 DEF PadsInv
  <2>3. Len(m_devices) = Len(joysticks)
    BY <2>1, <2>2, HandledPads
  <2>4. \A i \in Lines : pads[i] = IF i < Len(m_devices) THEN LineOf(m_devices[i + 1]) ELSE NoLine
    BY <2>1, <2>2, NowFacts DEF Calm, Linked, LinesAgree
  <2>5. ASSUME NEW i \in Lines, i < Len(m_devices)
        PROVE  /\ pads[i] = [iid |-> m_devices[i + 1].iid, sdlidx |-> m_devices[i + 1].idx]
               /\ m_devices[i + 1].id = i
               /\ joysticks[pads[i].sdlidx + 1] = pads[i].iid
    <3>1. PICK p \in DOMAIN m_devices : p = i + 1 /\ p - 1 = i
      <4>1. i \in Nat /\ DOMAIN m_devices = 1 .. Len(m_devices) /\ Len(m_devices) \in Nat
        BY <2>2, BoundFacts, TypeOfNow, DevicesFacts
      <4>2. i + 1 \in DOMAIN m_devices /\ (i + 1) - 1 = i
        BY <2>5, <4>1
      <4> QED BY <4>2
    <3>2. m_devices[p].id = i /\ m_iid_to_idx[m_devices[p].iid] = m_devices[p].idx
      BY <2>2, <3>1, NowFacts DEF Calm, Linked, Agree
    <3>3. pads[i] = [iid |-> m_devices[p].iid, sdlidx |-> m_devices[p].idx]
      BY <2>4, <2>5, <3>1 DEF LineOf
    <3>4. m_devices[p].iid \in Iids /\ m_devices[p].idx # NoIdx
      BY <2>2, TypeOfNow, DevicesFacts, BoundFacts
    <3>5. PICK j \in DOMAIN joysticks : joysticks[j] = m_devices[p].iid
      BY <2>1, <2>2, <3>2, <3>4, HandledPads
    <3>6. m_devices[p].idx = j - 1 /\ (j - 1) + 1 = j
      <4>1. m_iid_to_idx[joysticks[j]] = j - 1 /\ j \in Int
        BY <2>1, <2>2, HandledPads, TypeOfNow
      <4> QED BY <3>2, <3>5, <4>1
    <3>7. joysticks[pads[i].sdlidx + 1] = pads[i].iid
      BY <3>3, <3>5, <3>6
    <3> QED BY <3>1, <3>2, <3>3, <3>7
  <2> QED BY <2>3, <2>4, <2>5
<1> QED BY <1>1, PadsInvariant, PTL

\* However adds and removals are batched, as long as none crossed: a button of a
\* pad is looked up by its index and moves that pad and no other.
THEOREM EveryButtonReachesItsPad == Spec => []ButtonsReachTheirPad
<1>1. PadsInv => ButtonsReachTheirPad
  <2>1. SUFFICES ASSUME PadsInv, Handled, ~ crossed, NEW iid \in Range(joysticks)
                 PROVE  /\ Reached(iid) # {}
                        /\ m_devices[First(Reached(iid))].iid = iid
    BY DEF ButtonsReachTheirPad
  <2>2. Typed /\ Calm
    BY <2>1 DEF PadsInv
  <2>3. iid \in Iids /\ m_iid_to_idx[iid] # NoIdx
    <3>1. PICK j \in DOMAIN joysticks : joysticks[j] = iid
      BY <2>1 DEF Range
    <3>2. m_iid_to_idx[iid] = j - 1 /\ iid \in Iids /\ j - 1 \in Indices
      BY <2>1, <2>2, <3>1, HandledPads, TypeOfNow
    <3> QED BY <3>2, BoundFacts
  <2>4. \A p \in DOMAIN m_devices : /\ m_devices[p].iid \in Iids
                                    /\ m_iid_to_idx[m_devices[p].iid] = m_devices[p].idx
    BY <2>2, TypeOfNow, DevicesFacts, NowFacts DEF Calm, Linked, Agree
  <2>5. PICK p \in DOMAIN m_devices : m_devices[p].iid = iid
    BY <2>2, <2>3 DEF Calm, Held
  <2>6. p \in Reached(iid)
    BY <2>4, <2>5 DEF Reached, WithIdx
  <2>7. \A q \in Reached(iid) : q \in DOMAIN m_devices /\ m_devices[q].iid = iid
    BY <2>1, <2>2, <2>3, <2>4, HandledPads DEF Reached, WithIdx
  <2>8. Reached(iid) \in SUBSET Nat
    BY <2>2, TypeOfNow, DevicesFacts DEF Reached, WithIdx
  <2>9. First(Reached(iid)) \in Reached(iid)
    BY <2>6, <2>8, FirstIsFound
  <2> QED BY <2>6, <2>7, <2>9
<1> QED BY <1>1, PadsInvariant, PTL

\* An input that is recorded, at any place of the queue, goes into the mapping of
\* the pad that sent it unless a removal waits, and that is the pad the menu is
\* configuring, removals waiting or not, unless it or one in front of it has left.
THEOREM EveryRecordingIsForItsPad == Spec => []RecordedForThePad
<1>1. PadsInv => RecordedForThePad
  BY DEF PadsInv, RecordedRight, RecordedForThePad
<1> QED BY <1>1, PadsInvariant, PTL
================================================================================
