------------------------------- MODULE Gamepads -------------------------------
(***************************************************************************)
(* GamepadManager and its SDL2 backend: which pad is which player, and for *)
(* which pad a button is configured.                                       *)
(*                                                                         *)
(* A pad has four names: its instance in SDL, which is never used again;   *)
(* its index in SDL's list, which others leaving change; its id, the       *)
(* player, who may be swapped with another; and the line pegasus.pad<id>   *)
(* of recalbox.conf, from which a game gets its controllers.               *)
(*                                                                         *)
(* SDL is not part of the program: Plug and Unplug are what it does to its *)
(* list and to the events that wait in its queue, which a timer empties.   *)
(* The handlers run on the GUI thread, to their end.                       *)
(***************************************************************************)
EXTENDS Integers, Sequences, SequencesExt, FiniteSets

CONSTANTS
  MaxPlugs,     \* bound: how often a pad is plugged in
  MaxPads,      \* bound: pads at a time, below iMaxInputDevices
  MaxEvents     \* bound: changes that wait in SDL's queue

ASSUME GamepadsAssumption ==
  /\ MaxPlugs \in Nat
  /\ MaxPads \in Nat \ {0}

Iids == 1 .. MaxPlugs
NoIid == 0
Indices == 0 .. MaxPads - 1
NoIdx == -1
Lines == 0 .. MaxPads         \* the last one is never written

NoLine == [iid |-> NoIid, sdlidx |-> NoIdx]
OldLine == [iid |-> NoIid, sdlidx |-> 0]     \* of a pad of an earlier run

VARIABLES
  crossed,          \* history: a pad left while another waited to be added, or
                    \* while two that had left waited
  plugs,            \* how often a pad was plugged in
  joysticks,        \* SDL's list of instances
  events,           \* SDL's queue: an index that was added, an instance that was removed
  m_idx_to_iid,
  m_iid_to_idx,     \* and m_iid_to_device, which has the same instances
  m_devices,
  pads,             \* the lines pegasus.pad<id>
  m_recording,      \* the device of m_recording
  target,           \* history: the pad that is being configured
  disturbed,        \* history: since then a pad of its index or of one before it left
  mapped            \* history: of the last input recorded, the pad that was to be
                    \* configured, the one the input came from, the one whose
                    \* mapping it was added to, and the one that has been given the
                    \* result; and what had left by then

sdlVars    == <<plugs, joysticks, events>>
mapVars    == <<m_idx_to_iid, m_iid_to_idx>>
recordVars == <<m_recording, target, mapped>>
vars       == <<crossed, disturbed, sdlVars, mapVars, m_devices, pads, recordVars>>

Nobody == [target |-> NoIid, from |-> NoIid, base |-> NoIid, to |-> NoIid,
           disturbed |-> FALSE, waiting |-> FALSE]

Init ==
  /\ crossed = FALSE
  /\ plugs = 0
  /\ joysticks = <<>>
  /\ events = <<>>
  /\ m_idx_to_iid = [i \in Indices |-> NoIid]
  /\ m_iid_to_idx = [d \in Iids |-> NoIdx]
  /\ m_devices = <<>>
  /\ \E n \in 0 .. MaxPads : pads = [i \in Lines |-> IF i < n THEN OldLine ELSE NoLine]
  /\ m_recording = NoIdx
  /\ target = NoIid
  /\ disturbed = FALSE
  /\ mapped = Nobody

-----------------------------------------------------------------------------
\* emplace of a hash map: what is there stays.
Emplace(f, k, v, none) == IF f[k] = none THEN [f EXCEPT ![k] = v] ELSE f

\* find_if over the model: the positions found, of which the code takes the first.
WithId(devices, id)   == {p \in DOMAIN devices : devices[p].id = id}
WithIdx(devices, idx) == {p \in DOMAIN devices : devices[p].idx = idx}
WithIid(devices, iid) == {p \in DOMAIN devices : devices[p].iid = iid}
First(ps) == CHOOSE p \in ps : \A q \in ps : p <= q

\* The model with another device at a position.
With(devices, p, d) == [q \in DOMAIN devices |-> IF q = p THEN d ELSE devices[q]]

-----------------------------------------------------------------------------
(***************************************************************************)
(* SDL.                                                                    *)
(***************************************************************************)

RemovalWaits == \E n \in DOMAIN events : events[n].kind = "removed"

\* Adding a pad takes a while: others come and go meanwhile.
MayChange == Len(events) < MaxEvents

Plug ==
  /\ MayChange
  /\ plugs < MaxPlugs
  /\ Len(joysticks) < MaxPads
  /\ plugs' = plugs + 1
  /\ joysticks' = Append(joysticks, plugs + 1)
  /\ events' = Append(events, [kind |-> "added", which |-> Len(joysticks)])
  /\ UNCHANGED <<crossed, disturbed, mapVars, m_devices, pads, recordVars>>

\* A pad that leaves now leaves while others wait.
Crosses == (\E n \in DOMAIN events : events[n].kind = "added") \/ Len(events) >= 2

\* The indices in the queue follow the list.  A pad that was not opened yet only
\* loses its event.
Unplug(i) ==
  /\ MayChange
  /\ i \in DOMAIN joysticks
  /\ crossed' = (crossed \/ Crosses)
  /\ disturbed' = (disturbed \/ m_recording >= i - 1)
  /\ joysticks' = RemoveAt(joysticks, i)
  /\ LET lost   == {n \in DOMAIN events : events[n] = [kind |-> "added", which |-> i - 1]}
         others == IF lost = {} THEN events ELSE RemoveAt(events, First(lost))
         moved  == [n \in DOMAIN others |->
                      IF others[n].kind = "added" /\ others[n].which > i - 1
                      THEN [others[n] EXCEPT !.which = @ - 1] ELSE others[n]]
     IN  events' = IF m_iid_to_idx[joysticks[i]] = NoIdx THEN moved
                   ELSE Append(moved, [kind |-> "removed", which |-> joysticks[i]])
  /\ UNCHANGED <<plugs, mapVars, m_devices, pads, recordVars>>

-----------------------------------------------------------------------------
(***************************************************************************)
(* A pad comes.                                                            *)
(***************************************************************************)

MutantPlayersFromOne(idx, iid) == [id |-> idx + 1, iid |-> iid, idx |-> idx]

\* new Gamepad: the player is the index at the time of connection.
NewGamepad(idx, iid) == [id |-> idx, iid |-> iid, idx |-> idx]

\* bkOnConnected: the line of the pad, and no line after it.
Connected(idx, iid) ==
  LET stale == {i \in Lines : i > idx /\ \A j \in idx + 1 .. i : pads[j] # NoLine}
  IN  /\ pads' = [i \in Lines |-> CASE i = idx -> [iid |-> iid, sdlidx |-> idx]
                                    [] i \in stale -> NoLine
                                    [] OTHER -> pads[i]]
      /\ m_devices' = IF WithIid(m_devices, iid) # {} THEN m_devices
                      ELSE Append(m_devices, NewGamepad(idx, iid))

\* add_controller_by_idx: the pad can be opened and has a mapping, its own or
\* one made for it.
DeviceAdded ==
  /\ events # <<>>
  /\ Head(events).kind = "added"
  /\ events' = Tail(events)
  /\ LET idx == Head(events).which
         iid == joysticks[idx + 1]
     IN  /\ m_idx_to_iid' = Emplace(m_idx_to_iid, idx, iid, NoIid)
         /\ m_iid_to_idx' = Emplace(m_iid_to_idx, iid, idx, NoIdx)
         /\ Connected(idx, iid)
  /\ UNCHANGED <<crossed, disturbed, plugs, joysticks, recordVars>>

-----------------------------------------------------------------------------
(***************************************************************************)
(* A pad goes: remove_pad_by_iid, on a record of the four variables it     *)
(* changes.                                                                *)
(***************************************************************************)

\* bkOnRemoved: the players behind it move up, with their lines.
Removed(st, id) ==
  LET rest    == RemoveAt(st.devices, First(WithId(st.devices, id)))
      shifted == {i \in Lines : i >= id /\ \A j \in id .. i : st.pads[j] # NoLine}
  IN  [st EXCEPT
        !.devices = [p \in DOMAIN rest |->
          IF rest[p].id - 1 \in shifted /\ p = First(WithId(rest, rest[p].id))
          THEN [rest[p] EXCEPT !.id = @ - 1] ELSE rest[p]],
        !.pads = [i \in Lines |->
          CASE i \notin shifted -> st.pads[i]
            [] i \in shifted /\ WithId(rest, i + 1) # {} -> st.pads[i + 1]
            [] OTHER -> NoLine]]

\* bkOnDisconnected
Disconnected(st, iid) ==
  LET gone == WithIid(st.devices, iid)
  IN  IF gone = {} THEN st ELSE Removed(st, st.devices[First(gone)].id)

Erased(st, iid) ==
  [st EXCEPT !.idxToIid[st.iidToIdx[iid]] = NoIid, !.iidToIdx[iid] = NoIdx]

MutantLineKeepsIndex(st, from, to, any) ==
  LET found == WithIdx(st.devices, from)
  IN  IF found = {} THEN st
      ELSE [st EXCEPT !.devices = With(@, First(found), [@[First(found)] EXCEPT !.idx = to])]

\* indexChanged and bkOnIndexChanged: the pad, and the line of its player.  If no
\* pad has the index, the line is that of a device_id that was never set.
IndexChanged(st, from, to, any) ==
  LET found == WithIdx(st.devices, from)
      p     == First(found)
  IN  IF found = {} THEN [st EXCEPT !.pads[any].sdlidx = to]
      ELSE [st EXCEPT !.devices = With(@, p, [@[p] EXCEPT !.idx = to]),
                      !.pads[st.devices[p].id].sdlidx = to]

MutantMapKeepsIndex(st, j, any) ==
  LET iid == joysticks[j]
      old == st.iidToIdx[iid]
  IN  IF old = j - 1 THEN st ELSE IndexChanged(st, old, j - 1, any)

\* One turn of the loop over SDL's list.
Reindexed(st, j, any) ==
  LET iid == joysticks[j]
      old == st.iidToIdx[iid]
  IN  IF old = j - 1 THEN st
      ELSE IndexChanged(
             [st EXCEPT !.iidToIdx[iid] = j - 1,
                        !.idxToIid = Emplace([@ EXCEPT ![old] = NoIid], j - 1, iid, NoIid)],
             old, j - 1, any)

\* The loop ends with an exception at the first pad that was not added yet.
Known == {j \in DOMAIN joysticks : \A k \in 1 .. j : m_iid_to_idx[joysticks[k]] # NoIdx}

\* What each turn leaves, from before the first.
Turns(st, any) ==
  LET after[j \in 0 .. Len(joysticks)] ==
        IF j = 0 THEN st
        ELSE IF j \in Known THEN Reindexed(after[j - 1], j, any) ELSE after[j - 1]
  IN  after

AfterRemoval(iid, any) ==
  Turns(Erased(Disconnected(
          [idxToIid |-> m_idx_to_iid, iidToIdx |-> m_iid_to_idx,
           devices |-> m_devices, pads |-> pads], iid), iid), any)[Len(joysticks)]

DeviceRemoved ==
  /\ events # <<>>
  /\ Head(events).kind = "removed"
  /\ events' = Tail(events)
  /\ \E any \in Lines :
     LET iid == Head(events).which
         st  == AfterRemoval(iid, any)
     IN  /\ m_idx_to_iid' = st.idxToIid
         /\ m_iid_to_idx' = st.iidToIdx
         /\ m_devices' = st.devices
         /\ pads' = st.pads
         /\ m_recording' = IF m_recording = m_iid_to_idx[iid] THEN NoIdx ELSE m_recording
  /\ UNCHANGED <<crossed, disturbed, plugs, joysticks, target, mapped>>

-----------------------------------------------------------------------------
(***************************************************************************)
(* The player in the menus, between two polls that leave the queue empty.  *)
(***************************************************************************)

Handled == events = <<>>

\* swap: the two change all but their ids.
Swap(i, j) ==
  /\ Handled
  /\ WithId(m_devices, i) # {} /\ WithId(m_devices, j) # {}
  /\ pads' = [pads EXCEPT ![i] = pads[j], ![j] = pads[i]]
  /\ LET p == First(WithId(m_devices, i))
         q == First(WithId(m_devices, j))
         Now(a, b) == [m_devices[a] EXCEPT !.iid = m_devices[b].iid, !.idx = m_devices[b].idx]
     IN  m_devices' = With(With(m_devices, p, Now(p, q)), q, Now(q, p))
  /\ UNCHANGED <<crossed, disturbed, sdlVars, mapVars, recordVars>>

\* configureButton and configureAxis
StartRecording(p) ==
  /\ Handled
  /\ m_recording' = m_devices[p].idx
  /\ target' = m_devices[p].iid
  /\ disturbed' = FALSE
  /\ UNCHANGED <<crossed, sdlVars, mapVars, m_devices, pads, mapped>>

\* finish_recording: generate_mapping adds the input to the mapping of the pad
\* that the map has at the index, and gives the result to the one, if any, that
\* SDL's list has there by now.  Without an entry of the map it fails, without a
\* pad SDL may refuse, and the recording goes on.
Finish(device, wanted, from, lost) ==
  LET base == m_idx_to_iid[device]
      to   == IF device < Len(joysticks) THEN joysticks[device + 1] ELSE NoIid
      opened == base # NoIid /\ m_iid_to_idx[base] # NoIdx
  IN  \/ /\ opened
         /\ mapped' = [target |-> wanted, from |-> from, base |-> base, to |-> to,
                       disturbed |-> lost, waiting |-> RemovalWaits]
         /\ m_recording' = NoIdx
      \/ /\ ~ opened \/ to = NoIid
         /\ m_recording' = device
         /\ UNCHANGED mapped

\* resetButton and resetAxis
Reset(p) ==
  /\ Handled
  /\ target' = m_devices[p].iid
  /\ disturbed' = FALSE
  /\ Finish(m_devices[p].idx, m_devices[p].iid, m_devices[p].iid, FALSE)
  /\ UNCHANGED <<crossed, sdlVars, mapVars, m_devices, pads>>

MutantAnyDevice(iid) == TRUE

\* record_joy_button_maybe, and the two others like it.
IsRecorded(iid) == m_iid_to_idx[iid] = m_recording

\* An input of an opened pad waits in the queue among the other events, and is
\* handled when SDL's list may be ahead of them.  That it may be anywhere among them
\* is more than the queue allows: it cannot be before its own pad was opened.
Record(iid) ==
  /\ m_iid_to_idx[iid] # NoIdx
  /\ m_recording # NoIdx
  /\ IsRecorded(iid)
  /\ Finish(m_recording, target, iid, disturbed)
  /\ UNCHANGED <<crossed, disturbed, sdlVars, mapVars, m_devices, pads, target>>

Next ==
  \/ Plug
  \/ \E i \in 1 .. MaxPads : Unplug(i)
  \/ DeviceAdded
  \/ DeviceRemoved
  \/ \E i \in Indices, j \in Indices : (j = i + 1 \/ j = i - 1) /\ Swap(i, j)
  \/ \E p \in DOMAIN m_devices : StartRecording(p) \/ Reset(p)
  \/ \E iid \in Iids : Record(iid)

Spec == Init /\ [][Next]_vars

-----------------------------------------------------------------------------
\* The maps, the model and the lines keep their shape; no device index leaves
\* SDL's range.
TypeOK ==
  /\ joysticks \in Seq(Iids)
  /\ m_idx_to_iid \in [Indices -> Iids \cup {NoIid}]
  /\ m_iid_to_idx \in [Iids -> Indices \cup {NoIdx}]
  /\ m_devices \in Seq([id : Indices, iid : Iids, idx : Indices])
  /\ pads \in [Lines -> [iid : Iids \cup {NoIid}, sdlidx : Indices \cup {NoIdx}]]
  /\ m_recording \in Indices \cup {NoIdx}

\* A game started now has the players that the frontend shows: they are 0 to
\* n - 1, and the line of each names its pad and the index SDL has for it, however
\* players were swapped and pads came and went, each after the last was handled.
PlayersAgree ==
  Handled /\ ~ crossed /\ m_devices # <<>> =>
    /\ Len(m_devices) = Len(joysticks)
    /\ \A i \in Lines :
         IF i < Len(m_devices)
         THEN /\ pads[i] = [iid |-> m_devices[i + 1].iid, sdlidx |-> m_devices[i + 1].idx]
              /\ m_devices[i + 1].id = i
              /\ joysticks[pads[i].sdlidx + 1] = pads[i].iid
         ELSE pads[i] = NoLine

\* Where bkOnButtonChanged takes a button of a pad.
Reached(iid) == WithIdx(m_devices, m_iid_to_idx[iid])

\* A button moves the pad it is on, even when pads come and go together, as long
\* as no pad leaves between the first and the last of more than two events.
ButtonsReachTheirPad ==
  Handled /\ ~ crossed => \A iid \in Range(joysticks) :
    /\ Reached(iid) # {}
    /\ m_devices[First(Reached(iid))].iid = iid

\* What is recorded goes into the mapping of the pad that sent it, in spite of the
\* four names, unless a pad that has left is not handled yet: then SDL's list is
\* ahead of the maps.  And that pad is the one that was to be configured, even then,
\* unless it has left itself or one in front of it: m_recording keeps its old index.
RecordedForThePad ==
  ~ crossed =>
    /\ ~ mapped.waiting => mapped.from = mapped.to /\ mapped.base = mapped.to
    /\ ~ mapped.disturbed =>
         mapped.from = mapped.target /\ mapped.base = mapped.target /\ mapped.to = mapped.target
=============================================================================
