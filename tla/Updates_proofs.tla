---------------------------- MODULE Updates_proofs ----------------------------
(***************************************************************************)
(* One entry per component, whose script runs once and over complete       *)
(* files, for any number of components, managers and launches.             *)
(***************************************************************************)
EXTENDS Updates, FiniteSetTheorems, TLAPS

EntryType == [name : Components, slot : Slots, step : 0 .. 4,
              lambdas : Nat, posted : Nat, running : Nat]

SlotType == [due : Nat, err : {0, 1}, asleep : BOOLEAN, late : BOOLEAN, forgiven : BOOLEAN]

\* The entries of different components, however they came.
NamesDiffer ==
  \A i, j \in Entries : i # j => m_updates[i].name # m_updates[j].name

\* The managers are given out in turn.
SlotsInTurn ==
  Len(m_updates) <= MAX_DOWNLOADER =>
    /\ \A i \in Entries : m_updates[i].slot = i - 1
    /\ Len(m_updates) < MAX_DOWNLOADER => downloaderIndex = Len(m_updates)

EntriesInv == TypeOK /\ NamesDiffer /\ SlotsInTurn

-----------------------------------------------------------------------------
(***************************************************************************)
(* What the actions do to m_updates.                                       *)
(***************************************************************************)

\* A list whose entries keep their names and slots.
Kept(s) ==
  /\ s \in Seq(EntryType)
  /\ Len(s) = Len(m_updates)
  /\ \A j \in 1 .. Len(m_updates) : s[j].name = m_updates[j].name /\ s[j].slot = m_updates[j].slot

LEMMA ListFacts ==
  ASSUME TypeOK
  PROVE  m_updates \in Seq(EntryType) /\ Entries = 1 .. Len(m_updates) /\ Len(m_updates) \in Nat
  BY DEF TypeOK, EntryType, Entries

LEMMA EntryFacts ==
  ASSUME TypeOK, NEW i \in Entries
  PROVE  /\ m_updates[i] \in EntryType
         /\ m_updates[i].name \in Components /\ m_updates[i].slot \in Slots
         /\ m_updates[i].lambdas \in Nat /\ m_updates[i].posted \in Nat
         /\ m_updates[i].running \in Nat
<1>1. m_updates[i] \in EntryType
  BY ListFacts
<1> QED
  BY <1>1 DEF EntryType

LEMMA WithKeeps ==
  ASSUME TypeOK, NEW i \in Entries, NEW e \in EntryType,
         e.name = m_updates[i].name, e.slot = m_updates[i].slot
  PROVE  Kept(With(i, e))
<1>1. m_updates \in Seq(EntryType) /\ Entries = 1 .. Len(m_updates) /\ Len(m_updates) \in Nat
  BY ListFacts
<1>2. With(i, e) = [j \in 1 .. Len(m_updates) |-> IF j = i THEN e ELSE m_updates[j]]
  BY <1>1 DEF With
<1>3. \A j \in 1 .. Len(m_updates) : (IF j = i THEN e ELSE m_updates[j]) \in EntryType
  BY <1>1
<1>4. With(i, e) \in Seq(EntryType) /\ Len(With(i, e)) = Len(m_updates)
  BY <1>1, <1>2, <1>3
<1> QED
  BY <1>1, <1>2, <1>4 DEF Kept

LEMMA NotifiedKeeps ==
  ASSUME TypeOK, NEW s \in Slots
  PROVE  Kept(Notified(s))
<1>1. m_updates \in Seq(EntryType) /\ Entries = 1 .. Len(m_updates) /\ Len(m_updates) \in Nat
  BY ListFacts
<1> DEFINE E(i) == IF m_updates[i].slot = s /\ slots[s].err = 0
                   THEN [m_updates[i] EXCEPT !.posted = @ + m_updates[i].lambdas]
                   ELSE m_updates[i]
<1>2. Notified(s) = [j \in 1 .. Len(m_updates) |-> E(j)]
  BY <1>1 DEF Notified
<1>3. \A j \in 1 .. Len(m_updates) :
        E(j) \in EntryType /\ E(j).name = m_updates[j].name /\ E(j).slot = m_updates[j].slot
  <2> TAKE j \in 1 .. Len(m_updates)
  <2>1. m_updates[j] \in EntryType
    BY <1>1
  <2> QED
    BY <2>1 DEF EntryType
<1> HIDE DEF E
<1>4. Notified(s) \in Seq(EntryType) /\ Len(Notified(s)) = Len(m_updates)
  BY <1>1, <1>2, <1>3
<1> QED
  BY <1>1, <1>2, <1>3, <1>4 DEF Kept

LEMMA FirstFound ==
  ASSUME TypeOK, NamesDiffer, NEW c \in Components, Found(c) # {}
  PROVE  First(c) \in Entries /\ m_updates[First(c)].name = c
<1>1. PICK i \in Entries : m_updates[i].name = c
  BY DEF Found
<1>2. Found(c) = {i}
  BY <1>1 DEF Found, NamesDiffer
<1>3. i \in Nat
  BY ListFacts
<1>4. First(c) = i
  BY <1>2, <1>3 DEF First
<1> QED
  BY <1>1, <1>4

\* An entry with one lambda more, and with one script more.
LEMMA ConnectKeeps ==
  ASSUME NEW e \in EntryType
  PROVE  Connect(e) \in EntryType /\ Connect(e).name = e.name /\ Connect(e).slot = e.slot
<1> DEFINE n == e.lambdas + 1
<1>1. n \in Nat
  BY DEF EntryType
<1> DEFINE m == 1
           d == [e EXCEPT !.step = m, !.lambdas = n]
<1>2. Connect(e) = d
  BY DEF Connect
<1>3. m \in 0 .. 4
  OBVIOUS
<1> HIDE DEF m, n
<1>4. d \in EntryType /\ d.name = e.name /\ d.slot = e.slot
  BY <1>1, <1>3 DEF EntryType
<1> HIDE DEF d
<1> QED
  BY <1>2, <1>4

LEMMA StartScriptKeeps ==
  ASSUME NEW e \in EntryType
  PROVE  /\ StartScript(e) \in EntryType
         /\ StartScript(e).name = e.name /\ StartScript(e).slot = e.slot
<1> DEFINE n == e.running + 1
<1>1. n \in Nat
  BY DEF EntryType
<1> DEFINE m == 2
           d == [e EXCEPT !.step = m, !.running = n]
<1>2. StartScript(e) = d
  BY DEF StartScript
<1>3. m \in 0 .. 4
  OBVIOUS
<1> HIDE DEF m, n
<1>4. d \in EntryType /\ d.name = e.name /\ d.slot = e.slot
  BY <1>1, <1>3 DEF EntryType
<1> HIDE DEF d
<1> QED
  BY <1>2, <1>4

\* What an entry is launched with.
LEMMA EntryOfType ==
  ASSUME TypeOK, NamesDiffer, NEW c \in Components
  PROVE  EntryOf(c) \in EntryType /\ EntryOf(c).name = c
<1>1. CASE Found(c) = {}
  BY <1>1 DEF EntryOf, NewEntry, EntryType, TypeOK
<1>2. CASE Found(c) # {}
  <2>1. First(c) \in Entries /\ m_updates[First(c)].name = c
    BY <1>2, FirstFound
  <2>2. m_updates[First(c)] \in EntryType
    BY <2>1, ListFacts
  <2> QED
    BY <1>2, <2>1, <2>2 DEF EntryOf, EntryType
<1> QED
  BY <1>1, <1>2

-----------------------------------------------------------------------------
\* The parts of the invariant that speak of m_updates.
ListInv == /\ m_updates \in Seq(EntryType)
           /\ downloaderIndex \in Slots
           /\ NamesDiffer
           /\ SlotsInTurn

LEMMA KeptKeepsList ==
  ASSUME EntriesInv, Kept(m_updates'), downloaderIndex' = downloaderIndex
  PROVE  ListInv'
<1>1. m_updates \in Seq(EntryType) /\ Entries = 1 .. Len(m_updates) /\ Len(m_updates) \in Nat
  BY ListFacts DEF EntriesInv
<1>2. Entries' = Entries
  BY <1>1 DEF Kept, Entries
<1>3. NamesDiffer'
  BY <1>1, <1>2 DEF Kept, EntriesInv, NamesDiffer
<1>4. SlotsInTurn'
  BY <1>1, <1>2 DEF Kept, EntriesInv, SlotsInTurn
<1> QED
  BY <1>3, <1>4 DEF ListInv, Kept, EntriesInv, TypeOK

LEMMA SmallModulus ==
  ASSUME NEW M \in Nat \ {0}, NEW n \in Nat, n < M
  PROVE  n % M = n
  OBVIOUS

LEMMA FollowKeepsList ==
  ASSUME EntriesInv, NEW c \in Components, NEW e \in EntryType,
         e.name = c, e.slot = EntryOf(c).slot, Follow(c, e)
  PROVE  ListInv'
<1> USE UpdatesAssumption
<1>1. m_updates \in Seq(EntryType) /\ Entries = 1 .. Len(m_updates) /\ Len(m_updates) \in Nat
  BY ListFacts DEF EntriesInv
<1>2. CASE Found(c) = {}
  <2> DEFINE n == Len(m_updates)
  <2>1. m_updates' = Append(m_updates, e) /\ downloaderIndex' = (downloaderIndex + 1) % MAX_DOWNLOADER
    BY <1>2 DEF Follow, NextSlot
  <2>2. e.slot = downloaderIndex /\ downloaderIndex \in 0 .. MAX_DOWNLOADER - 1
    BY <1>2 DEF EntryOf, NewEntry, EntriesInv, TypeOK, Slots
  <2>3. /\ m_updates' \in Seq(EntryType) /\ Len(m_updates') = n + 1
        /\ \A i \in 1 .. n : m_updates'[i] = m_updates[i]
        /\ m_updates'[n + 1] = e
        /\ Entries' = 1 .. n + 1
    BY <1>1, <2>1 DEF Entries
  <2>4. downloaderIndex' \in Slots
    BY <2>1, <2>2 DEF Slots
  <2>5. \A i \in 1 .. n : m_updates[i].name # c
    BY <1>1, <1>2 DEF Found
  <2>6. NamesDiffer'
    BY <1>1, <2>3, <2>5 DEF NamesDiffer, EntriesInv
  <2>7. SlotsInTurn'
    <3> SUFFICES ASSUME n + 1 <= MAX_DOWNLOADER
                 PROVE  /\ \A i \in 1 .. n + 1 : m_updates'[i].slot = i - 1
                        /\ n + 1 < MAX_DOWNLOADER => downloaderIndex' = n + 1
      BY <2>3 DEF SlotsInTurn
    <3>1. downloaderIndex = n /\ \A i \in 1 .. n : m_updates[i].slot = i - 1
      BY <1>1 DEF EntriesInv, SlotsInTurn
    <3>2. \A i \in 1 .. n + 1 : m_updates'[i].slot = i - 1
      BY <1>1, <2>2, <2>3, <3>1
    <3>3. n + 1 < MAX_DOWNLOADER => downloaderIndex' = n + 1
      <4>1. downloaderIndex' = (n + 1) % MAX_DOWNLOADER
        BY <2>1, <3>1
      <4>2. n + 1 \in Nat /\ MAX_DOWNLOADER \in Nat \ {0}
        BY <1>1
      <4> QED
        BY <4>1, <4>2, SmallModulus
    <3> QED
      BY <3>2, <3>3
  <2> QED
    BY <2>3, <2>4, <2>6, <2>7 DEF ListInv
<1>3. CASE Found(c) # {}
  <2>1. m_updates' = With(First(c), e) /\ downloaderIndex' = downloaderIndex
    BY <1>3 DEF Follow
  <2>2. First(c) \in Entries /\ m_updates[First(c)].name = c
    BY <1>3, FirstFound DEF EntriesInv
  <2>3. m_updates[First(c)] \in EntryType
    BY <1>1, <2>2
  <2>4. e.slot = m_updates[First(c)].slot
    BY <1>3, <2>3 DEF EntryOf, EntryType
  <2>5. Kept(m_updates')
    BY <2>1, <2>2, <2>4, WithKeeps DEF EntriesInv
  <2> QED
    BY <2>1, <2>5, KeptKeepsList
<1> QED
  BY <1>2, <1>3

\* TypeOK without the list.
RestOK ==
  /\ localRepos \subseteq Components
  /\ calls \in Seq(Components)
  /\ fetching \in Seq(Components)
  /\ slots \in [Slots -> SlotType]
  /\ installErr \in [Components -> {0, 1, -1}]
  /\ presses \in [Components -> 0 .. MaxPresses]
  /\ hops \in 0 .. MaxHops

LEMMA Parts == EntriesInv <=> RestOK /\ ListInv
  BY DEF EntriesInv, RestOK, ListInv, TypeOK, EntryType, SlotType

LEMMA SlotFacts ==
  ASSUME slots \in [Slots -> SlotType], NEW s \in Slots
  PROVE  /\ slots[s] \in SlotType /\ slots[s].due \in Nat /\ slots[s].err \in {0, 1}
         /\ slots[s].asleep \in BOOLEAN /\ slots[s].late \in BOOLEAN
         /\ slots[s].forgiven \in BOOLEAN
<1>1. slots[s] \in SlotType
  OBVIOUS
<1> QED
  BY <1>1 DEF SlotType

\* One more finished() for a manager, which a launch or a redirection may give.
LEMMA GivenFilesType ==
  ASSUME NEW manager \in SlotType
  PROVE  /\ GivenFiles(manager) \subseteq SlotType
         /\ manager.due = 0 => \A m \in GivenFiles(manager) :
              /\ m.due = 1 /\ m.err = 0
              /\ m.late = manager.late /\ m.forgiven = manager.forgiven
<1> DEFINE n == manager.due + 1
<1>1. n \in Nat
  BY DEF SlotType
<1>2. CASE manager.due = 0
  <2>1. GivenFiles(manager) = {[manager EXCEPT !.due = 1, !.err = 0]}
    BY <1>2 DEF GivenFiles
  <2>2. /\ [manager EXCEPT !.due = 1, !.err = 0] \in SlotType
        /\ [manager EXCEPT !.due = 1, !.err = 0].due = 1
        /\ [manager EXCEPT !.due = 1, !.err = 0].err = 0
        /\ [manager EXCEPT !.due = 1, !.err = 0].late = manager.late
        /\ [manager EXCEPT !.due = 1, !.err = 0].forgiven = manager.forgiven
    BY DEF SlotType
  <2> QED
    BY <2>1, <2>2
<1>3. CASE manager.due # 0
  <2>1. GivenFiles(manager) = {[manager EXCEPT !.err = 0],
                               [manager EXCEPT !.err = 0, !.asleep = FALSE],
                               [manager EXCEPT !.due = n, !.err = 0, !.late = TRUE]}
    BY <1>3 DEF GivenFiles
  <2> HIDE DEF n
  <2>2. [manager EXCEPT !.err = 0] \in SlotType
    BY DEF SlotType
  <2>3. [manager EXCEPT !.err = 0, !.asleep = FALSE] \in SlotType
    BY DEF SlotType
  <2>4. [manager EXCEPT !.due = n, !.err = 0, !.late = TRUE] \in SlotType
    BY <1>1 DEF SlotType
  <2> QED
    BY <1>3, <2>1, <2>2, <2>3, <2>4
<1> QED
  BY <1>2, <1>3

\* What a redirection makes of a manager.
Redirected(manager, again) ==
  [manager EXCEPT !.due = manager.due + again, !.err = 0,
                  !.late = (manager.late \/ again = 1),
                  !.forgiven = (manager.forgiven \/ manager.err > 0)]

LEMMA RedirectedType ==
  ASSUME NEW manager \in SlotType, NEW again \in {0, 1}
  PROVE  LET m == Redirected(manager, again) IN
         /\ m \in SlotType
         /\ m.due = manager.due + again /\ m.err = 0
         /\ m.late <=> (manager.late \/ again = 1)
         /\ m.forgiven <=> (manager.forgiven \/ manager.err > 0)
<1> DEFINE n == manager.due + again
           l == manager.late \/ again = 1
           g == manager.forgiven \/ manager.err > 0
           m == [manager EXCEPT !.due = n, !.err = 0, !.late = l, !.forgiven = g]
<1>1. n \in Nat /\ l \in BOOLEAN /\ g \in BOOLEAN
  BY DEF SlotType
<1>2. Redirected(manager, again) = m
  BY DEF Redirected
<1> HIDE DEF n, l, g
<1>3. /\ m \in SlotType /\ m.due = n /\ m.err = 0
      /\ m.late <=> l
      /\ m.forgiven <=> g
  BY <1>1 DEF SlotType
<1> QED
  BY <1>2, <1>3 DEF n, l, g

LEMMA RedirectionFacts ==
  ASSUME slots \in [Slots -> SlotType], NEW s \in Slots, FileRedirected(s)
  PROVE  \E again \in {0, 1} :
           /\ slots' = [slots EXCEPT ![s] = Redirected(slots[s], again)]
           /\ again = 0 => slots[s].due > 0
           /\ slots[s].due > 0 \/ slots[s].err > 0
<1>1. PICK again \in IF slots[s].due > 0 THEN {0, 1} ELSE IF slots[s].err > 0 THEN {1} ELSE {} :
        slots' = [slots EXCEPT ![s].due = @ + again,
                               ![s].err = 0,
                               ![s].late = (@ \/ again = 1),
                               ![s].forgiven = (@ \/ slots[s].err > 0)]
  BY DEF FileRedirected
<1>2. slots' = [slots EXCEPT ![s] = Redirected(slots[s], again)]
  BY <1>1, SlotFacts DEF Redirected, SlotType
<1>3. again \in {0, 1}
  BY <1>1
<1>4. again = 0 => slots[s].due > 0
  BY <1>1
<1>5. slots[s].due > 0 \/ slots[s].err > 0
  BY <1>1
<1> QED
  BY <1>2, <1>3, <1>4, <1>5

LEMMA SameList ==
  ASSUME EntriesInv, UNCHANGED <<m_updates, downloaderIndex>>
  PROVE  ListInv'
  BY DEF EntriesInv, ListInv, TypeOK, EntryType, NamesDiffer, SlotsInTurn, Entries

-----------------------------------------------------------------------------
LEMMA InitEntries == Init => EntriesInv
<1> SUFFICES ASSUME Init PROVE EntriesInv
  OBVIOUS
<1> USE UpdatesAssumption DEF Init
<1>1. RestOK
  <2>1. [due |-> 0, err |-> 0, asleep |-> FALSE, late |-> FALSE, forgiven |-> FALSE] \in SlotType
    BY DEF SlotType
  <2>2. slots \in [Slots -> SlotType]
    BY <2>1
  <2> QED
    BY <2>2 DEF RestOK
<1>2. ListInv
  BY DEF ListInv, Slots, NamesDiffer, SlotsInTurn, Entries
<1> QED
  BY <1>1, <1>2, Parts

LEMMA StepEntries == EntriesInv /\ [Next]_vars => EntriesInv'
<1> SUFFICES ASSUME EntriesInv, [Next]_vars PROVE RestOK' /\ ListInv'
  BY Parts, PTL
<1> USE UpdatesAssumption
<1>a. RestOK /\ m_updates \in Seq(EntryType) /\ Entries = 1 .. Len(m_updates)
  BY Parts, ListFacts DEF EntriesInv
<1>1. ASSUME NEW c \in Components, Press(c) PROVE RestOK' /\ ListInv'
  <2>1. ListInv'
    BY <1>1, SameList DEF Press
  <2>2. calls' \in Seq(Components) /\ presses' \in [Components -> 0 .. MaxPresses]
    BY <1>a, <1>1 DEF Press, RestOK
  <2> QED
    BY <1>a, <1>1, <2>1, <2>2 DEF Press, RestOK
<1>2. CASE NoSuchVersion
  <2>1. ListInv'
    BY <1>2, SameList DEF NoSuchVersion
  <2>2. calls' \in Seq(Components)
    BY <1>a, <1>2 DEF NoSuchVersion, RestOK
  <2>3. installErr' \in [Components -> {0, 1, -1}]
    BY <1>a, <1>2 DEF NoSuchVersion, RestOK
  <2> QED
    BY <1>a, <1>2, <2>1, <2>2, <2>3 DEF NoSuchVersion, RestOK
<1>3. CASE FetchVersion
  <2>1. ListInv'
    BY <1>3, SameList DEF FetchVersion
  <2>2. /\ calls' \in Seq(Components) /\ fetching' \in Seq(Components)
        /\ installErr' \in [Components -> {0, 1, -1}]
    BY <1>a, <1>3 DEF FetchVersion, RestOK
  <2> QED
    BY <1>a, <1>3, <2>1, <2>2 DEF FetchVersion, RestOK
<1>4. CASE NothingToInstall
  <2>1. ListInv'
    BY <1>4, SameList DEF NothingToInstall
  <2>2. fetching' \in Seq(Components)
    BY <1>a, <1>4 DEF NothingToInstall, RestOK, Front
  <2> QED
    BY <1>a, <1>4, <2>1, <2>2 DEF NothingToInstall, RestOK
<1>5. CASE LaunchDownload
  <2> DEFINE c == Last(fetching)
             entry == EntryOf(c)
  <2>1. c \in Components /\ fetching' \in Seq(Components)
    BY <1>a, <1>5 DEF LaunchDownload, RestOK, Last, Front
  <2>2. entry \in EntryType /\ entry.name = c
    BY <2>1, EntryOfType DEF EntriesInv
  <2>3. slots' \in [Slots -> SlotType]
    <3>1. entry.slot \in Slots
      BY <2>2 DEF EntryType
    <3>2. slots[entry.slot] \in SlotType
      BY <1>a, <3>1 DEF RestOK
    <3>3. PICK slot \in GivenFiles(slots[entry.slot]) :
            slots' = [slots EXCEPT ![entry.slot] = slot]
      BY <1>5 DEF LaunchDownload
    <3>4. slot \in SlotType
      BY <3>2, <3>3, GivenFilesType
    <3> QED
      BY <1>a, <3>3, <3>4 DEF RestOK
  <2>4. Follow(c, Connect(entry))
    BY <1>5 DEF LaunchDownload
  <2>5. Connect(entry) \in EntryType /\ Connect(entry).name = c /\ Connect(entry).slot = entry.slot
    BY <2>2, ConnectKeeps
  <2>6. ListInv'
    BY <2>1, <2>4, <2>5, FollowKeepsList
  <2> QED
    BY <1>a, <1>5, <2>1, <2>3, <2>6 DEF LaunchDownload, RestOK
<1>6. CASE LaunchLocal
  <2> DEFINE c == Head(calls)
             entry == EntryOf(c)
  <2>1. c \in Components /\ calls' \in Seq(Components)
    BY <1>a, <1>6 DEF LaunchLocal, RestOK
  <2>2. entry \in EntryType /\ entry.name = c
    BY <2>1, EntryOfType DEF EntriesInv
  <2>3. installErr' \in [Components -> {0, 1, -1}]
    BY <1>a, <1>6 DEF LaunchLocal, RestOK
  <2>4. Follow(c, StartScript(entry))
    BY <1>6 DEF LaunchLocal
  <2>5. StartScript(entry) \in EntryType /\ StartScript(entry).name = c
        /\ StartScript(entry).slot = entry.slot
    BY <2>2, StartScriptKeeps
  <2>6. ListInv'
    BY <2>1, <2>4, <2>5, FollowKeepsList
  <2> QED
    BY <1>a, <1>6, <2>1, <2>3, <2>6 DEF LaunchLocal, RestOK
<1>7. ASSUME NEW s \in Slots, FileFails(s) PROVE RestOK' /\ ListInv'
  <2>1. ListInv'
    BY <1>7, SameList DEF FileFails
  <2>2. slots' \in [Slots -> SlotType]
    <3>1. slots[s] \in SlotType
      BY <1>a, SlotFacts DEF RestOK
    <3>2. [slots[s] EXCEPT !.err = 1] \in SlotType
      BY <3>1 DEF SlotType
    <3>3. slots' = [slots EXCEPT ![s] = [slots[s] EXCEPT !.err = 1]]
      BY <1>a, <1>7 DEF FileFails, RestOK
    <3> QED
      BY <1>a, <3>2, <3>3 DEF RestOK
  <2> QED
    BY <1>a, <1>7, <2>1, <2>2 DEF FileFails, RestOK
<1>8. ASSUME NEW s \in Slots, SlotFinished(s) PROVE RestOK' /\ ListInv'
  <2>1. ListInv'
    BY <1>8, NotifiedKeeps, KeptKeepsList DEF SlotFinished, EntriesInv
  <2>2. slots' \in [Slots -> SlotType]
    <3>1. slots[s] \in SlotType /\ slots[s].due \in Nat /\ slots[s].due > 0
      BY <1>a, <1>8, SlotFacts DEF SlotFinished, RestOK
    <3> DEFINE n == slots[s].due - 1
    <3>2. n \in Nat
      BY <3>1
    <3>3. slots' = [slots EXCEPT ![s] = [slots[s] EXCEPT !.due = n]]
      BY <1>a, <1>8 DEF SlotFinished, RestOK
    <3> HIDE DEF n
    <3>4. [slots[s] EXCEPT !.due = n] \in SlotType
      BY <3>1, <3>2 DEF SlotType
    <3> QED
      BY <1>a, <3>3, <3>4 DEF RestOK
  <2> QED
    BY <1>a, <1>8, <2>1, <2>2 DEF SlotFinished, RestOK
<1>9. ASSUME NEW i \in Entries, Install(i) PROVE RestOK' /\ ListInv'
  <2> DEFINE n == m_updates[i].posted - 1
             d == [m_updates[i] EXCEPT !.posted = n]
             e == StartScript(d)
  <2>1. m_updates[i] \in EntryType
    BY <1>a
  <2>2. n \in Nat
    BY <1>9, <2>1 DEF Install, EntryType
  <2>4. m_updates' = With(i, e)
    BY <1>9 DEF Install
  <2> HIDE DEF n
  <2>5. d \in EntryType /\ d.name = m_updates[i].name /\ d.slot = m_updates[i].slot
    BY <2>1, <2>2 DEF EntryType
  <2> HIDE DEF d
  <2>6. e \in EntryType /\ e.name = m_updates[i].name /\ e.slot = m_updates[i].slot
    BY <2>5, StartScriptKeeps
  <2>3. ListInv'
    BY <1>9, <2>4, <2>6, WithKeeps, KeptKeepsList DEF Install, EntriesInv
  <2> QED
    BY <1>a, <1>9, <2>3 DEF Install, RestOK
<1>10. ASSUME NEW i \in Entries, ScriptReports(i) PROVE RestOK' /\ ListInv'
  <2>1. ListInv'
    BY <1>10, SameList DEF ScriptReports
  <2>2. installErr' \in [Components -> {0, 1, -1}]
    BY <1>a, <1>10 DEF ScriptReports, RestOK
  <2> QED
    BY <1>a, <1>10, <2>1, <2>2 DEF ScriptReports, RestOK
<1>11. ASSUME NEW i \in Entries, ScriptEnds(i) PROVE RestOK' /\ ListInv'
  <2>1. PICK exitOk \in BOOLEAN :
          m_updates' = With(i, [m_updates[i] EXCEPT
            !.running = @ - 1,
            !.step = IF exitOk /\ ErrorOf(m_updates[i]) <= 0 THEN 3 ELSE 4])
    BY <1>11 DEF ScriptEnds
  <2> DEFINE n == IF exitOk /\ ErrorOf(m_updates[i]) <= 0 THEN 3 ELSE 4
             k == m_updates[i].running - 1
             e == [m_updates[i] EXCEPT !.running = k, !.step = n]
  <2>2. n \in 0 .. 4
    OBVIOUS
  <2>3. m_updates[i] \in EntryType
    BY <1>a
  <2>6. k \in Nat
    BY <1>11, <2>3 DEF ScriptEnds, EntryType
  <2>7. m_updates' = With(i, e)
    BY <2>1
  <2> HIDE DEF n, k
  <2>4. e \in EntryType /\ e.name = m_updates[i].name /\ e.slot = m_updates[i].slot
    BY <2>2, <2>3, <2>6 DEF EntryType
  <2>5. ListInv'
    BY <1>11, <2>7, <2>4, WithKeeps, KeptKeepsList DEF ScriptEnds, EntriesInv
  <2> QED
    BY <1>a, <1>11, <2>5 DEF ScriptEnds, RestOK
<1>12. ASSUME NEW s \in Slots, FileRedirected(s) PROVE RestOK' /\ ListInv'
  <2>1. ListInv'
    BY <1>12, SameList DEF FileRedirected
  <2>2. slots' \in [Slots -> SlotType]
    <3>1. slots \in [Slots -> SlotType] /\ slots[s] \in SlotType
      BY <1>a, SlotFacts DEF RestOK
    <3>2. PICK again \in {0, 1} : slots' = [slots EXCEPT ![s] = Redirected(slots[s], again)]
      BY <1>12, <3>1, RedirectionFacts
    <3>3. Redirected(slots[s], again) \in SlotType
      BY <3>1, RedirectedType
    <3> QED
      BY <3>1, <3>2, <3>3
  <2>3. hops' \in 0 .. MaxHops
    BY <1>a, <1>12 DEF FileRedirected, RestOK
  <2> QED
    BY <1>a, <1>12, <2>1, <2>2, <2>3 DEF FileRedirected, RestOK
<1>13. ASSUME NEW s \in Slots, WriterSleeps(s) PROVE RestOK' /\ ListInv'
  <2>1. ListInv'
    BY <1>13, SameList DEF WriterSleeps
  <2>2. slots' \in [Slots -> SlotType]
    <3>1. slots[s] \in SlotType
      BY <1>a, SlotFacts DEF RestOK
    <3>2. [slots[s] EXCEPT !.asleep = TRUE] \in SlotType
      BY <3>1 DEF SlotType
    <3>3. slots' = [slots EXCEPT ![s] = [slots[s] EXCEPT !.asleep = TRUE]]
      BY <1>a, <1>13 DEF WriterSleeps, RestOK
    <3> QED
      BY <1>a, <3>2, <3>3 DEF RestOK
  <2> QED
    BY <1>a, <1>13, <2>1, <2>2 DEF WriterSleeps, RestOK
<1>14. CASE UNCHANGED vars
  BY <1>a, <1>14, SameList DEF vars, RestOK
<1> QED
  BY <1>1, <1>2, <1>3, <1>4, <1>5, <1>6, <1>7, <1>8, <1>9, <1>10, <1>11, <1>12, <1>13, <1>14
     DEF Next, Progress

LEMMA EntriesInvariant == Spec => []EntriesInv
  BY InitEntries, StepEntries, PTL DEF Spec

\* m_updates, the managers and the queues of Updates keep their types.
THEOREM TypeCorrect == Spec => []TypeOK
<1>1. EntriesInv => TypeOK
  BY DEF EntriesInv
<1> QED
  BY <1>1, EntriesInvariant, PTL

\* However the slots of several launches nest, a component has one entry, and
\* the managers are shared only when there are more components than managers
\* (Updates::launchComponentInstallation_slot, MAX_DOWNLOADER of them).
THEOREM EntriesApart == Spec => []OneEntry
<1>1. EntriesInv => OneEntry
  <2> SUFFICES ASSUME EntriesInv, NEW i \in Entries, NEW j \in Entries, i # j
               PROVE  /\ m_updates[i].name # m_updates[j].name
                      /\ Len(m_updates) <= MAX_DOWNLOADER => m_updates[i].slot # m_updates[j].slot
    BY DEF OneEntry
  <2>1. i \in Nat /\ j \in Nat
    BY ListFacts DEF EntriesInv
  <2> QED
    BY <2>1 DEF EntriesInv, NamesDiffer, SlotsInTurn
<1> QED
  BY <1>1, EntriesInvariant, PTL

-----------------------------------------------------------------------------
(***************************************************************************)
(* A component that was launched once is on its way at one place only.     *)
(***************************************************************************)
In(s, c) == \E i \in DOMAIN s : s[i] = c
OnceIn(s, c) == \A i, j \in DOMAIN s : s[i] = c /\ s[j] = c => i = j

OnItsWay ==
  \A c \in Components :
    /\ presses[c] = 0 => ~ In(calls, c) /\ ~ In(fetching, c) /\ Found(c) = {}
    /\ presses[c] = 1 => /\ OnceIn(calls, c) /\ OnceIn(fetching, c)
                         /\ In(calls, c) => ~ In(fetching, c) /\ Found(c) = {}
                         /\ In(fetching, c) => Found(c) = {}

\* The managers that no entry has are as they were made.
Fresh(manager) == manager.due = 0 /\ manager.err = 0 /\ ~ manager.late

FreshManagers == \A s \in Slots : s >= Len(m_updates) => Fresh(slots[s])

\* Of a batch, an installation that is queued and a script there is one at most,
\* and none of the last two after an error, while the manager was neither late
\* nor made to forget one.
OneThing(e, manager) ==
  ~ manager.late /\ ~ manager.forgiven =>
    /\ e.lambdas <= 1
    /\ manager.due + e.posted + e.running <= 1
    /\ manager.err # 0 => e.posted = 0 /\ e.running = 0

Steady ==
  Len(m_updates) <= MAX_DOWNLOADER =>
    \A i \in Entries : presses[m_updates[i].name] = 1
                         => OneThing(m_updates[i], slots[m_updates[i].slot])

InstallInv == EntriesInv /\ OnItsWay /\ FreshManagers /\ Steady

-----------------------------------------------------------------------------
LEMMA OfTail ==
  ASSUME NEW S, NEW s \in Seq(S), s # <<>>, NEW c
  PROVE  /\ In(Tail(s), c) => In(s, c)
         /\ OnceIn(s, c) => OnceIn(Tail(s), c)
         /\ In(s, Head(s))
         /\ OnceIn(s, Head(s)) => ~ In(Tail(s), Head(s))
<1>1. /\ Len(s) \in Nat /\ Len(s) > 0 /\ DOMAIN s = 1 .. Len(s)
      /\ DOMAIN Tail(s) = 1 .. Len(s) - 1
      /\ \A i \in 1 .. Len(s) - 1 : Tail(s)[i] = s[i + 1]
      /\ Head(s) = s[1]
  OBVIOUS
<1>2. In(Tail(s), c) => In(s, c)
  BY <1>1 DEF In
<1>3. OnceIn(s, c) => OnceIn(Tail(s), c)
  <2> SUFFICES ASSUME OnceIn(s, c), NEW i \in DOMAIN Tail(s), NEW j \in DOMAIN Tail(s),
                      Tail(s)[i] = c, Tail(s)[j] = c
               PROVE  i = j
    BY DEF OnceIn
  <2>1. /\ i \in Int /\ j \in Int /\ i + 1 \in DOMAIN s /\ j + 1 \in DOMAIN s
        /\ s[i + 1] = c /\ s[j + 1] = c
    BY <1>1
  <2> QED
    BY <2>1 DEF OnceIn
<1>4. In(s, Head(s))
  BY <1>1 DEF In
<1>5. OnceIn(s, Head(s)) => ~ In(Tail(s), Head(s))
  <2> SUFFICES ASSUME OnceIn(s, Head(s)), NEW i \in DOMAIN Tail(s), Tail(s)[i] = Head(s)
               PROVE  FALSE
    BY DEF In
  <2>1. i \in Int /\ i + 1 \in DOMAIN s /\ 1 \in DOMAIN s /\ s[i + 1] = Head(s) /\ s[1] = Head(s)
        /\ i + 1 # 1
    BY <1>1
  <2> QED
    BY <2>1 DEF OnceIn
<1> QED
  BY <1>2, <1>3, <1>4, <1>5

LEMMA OfFront ==
  ASSUME NEW S, NEW s \in Seq(S), s # <<>>, NEW c
  PROVE  /\ In(Front(s), c) => In(s, c)
         /\ OnceIn(s, c) => OnceIn(Front(s), c)
         /\ In(s, Last(s))
         /\ OnceIn(s, Last(s)) => ~ In(Front(s), Last(s))
<1>1. /\ Len(s) \in Nat /\ Len(s) > 0 /\ DOMAIN s = 1 .. Len(s)
      /\ DOMAIN Front(s) = 1 .. Len(s) - 1
      /\ \A i \in 1 .. Len(s) - 1 : Front(s)[i] = s[i]
      /\ Last(s) = s[Len(s)]
  BY DEF Front, Last
<1>2. In(Front(s), c) => In(s, c)
  BY <1>1 DEF In
<1>3. OnceIn(s, c) => OnceIn(Front(s), c)
  BY <1>1 DEF OnceIn
<1>4. In(s, Last(s))
  BY <1>1 DEF In
<1>5. OnceIn(s, Last(s)) => ~ In(Front(s), Last(s))
  BY <1>1 DEF In, OnceIn
<1> QED
  BY <1>2, <1>3, <1>4, <1>5

LEMMA OfAppend ==
  ASSUME NEW S, NEW s \in Seq(S), NEW d \in S, NEW c
  PROVE  /\ In(Append(s, d), c) <=> In(s, c) \/ c = d
         /\ OnceIn(s, c) /\ (c = d => ~ In(s, c)) => OnceIn(Append(s, d), c)
<1>1. /\ Len(s) \in Nat /\ DOMAIN s = 1 .. Len(s)
      /\ DOMAIN Append(s, d) = 1 .. Len(s) + 1
      /\ \A i \in 1 .. Len(s) : Append(s, d)[i] = s[i]
      /\ Append(s, d)[Len(s) + 1] = d
  OBVIOUS
<1>2. In(Append(s, d), c) <=> In(s, c) \/ c = d
  BY <1>1 DEF In
<1>3. OnceIn(s, c) /\ (c = d => ~ In(s, c)) => OnceIn(Append(s, d), c)
  BY <1>1 DEF In, OnceIn
<1> QED
  BY <1>2, <1>3

LEMMA SameFound ==
  ASSUME TypeOK, Kept(m_updates') \/ UNCHANGED m_updates
  PROVE  \A c \in Components : Found(c)' = Found(c)
<1>1. m_updates \in Seq(EntryType) /\ Entries = 1 .. Len(m_updates) /\ Len(m_updates) \in Nat
  BY ListFacts
<1>2. CASE Kept(m_updates')
  <2>1. Entries' = Entries
    BY <1>1, <1>2 DEF Kept, Entries
  <2> QED
    BY <1>1, <1>2, <2>1 DEF Kept, Found
<1>3. CASE UNCHANGED m_updates
  BY <1>3 DEF Found, Entries
<1> QED
  BY <1>2, <1>3

LEMMA FollowFacts ==
  ASSUME EntriesInv, NEW c \in Components, NEW e \in EntryType,
         e.name = c, e.slot = EntryOf(c).slot, Follow(c, e)
  PROVE  /\ Found(c) = {} =>
              /\ Len(m_updates') = Len(m_updates) + 1
              /\ Entries' = 1 .. Len(m_updates) + 1
              /\ \A i \in Entries : m_updates'[i] = m_updates[i]
              /\ m_updates'[Len(m_updates) + 1] = e
              /\ Len(m_updates) < MAX_DOWNLOADER => e.slot = Len(m_updates)
         /\ Found(c) # {} =>
              /\ First(c) \in Entries /\ m_updates[First(c)].name = c
              /\ Len(m_updates') = Len(m_updates) /\ Entries' = Entries
              /\ \A i \in Entries : i # First(c) => m_updates'[i] = m_updates[i]
              /\ m_updates'[First(c)] = e /\ e.slot = m_updates[First(c)].slot
<1>1. m_updates \in Seq(EntryType) /\ Entries = 1 .. Len(m_updates) /\ Len(m_updates) \in Nat
  BY ListFacts DEF EntriesInv
<1>2. ASSUME Found(c) = {}
      PROVE  /\ Len(m_updates') = Len(m_updates) + 1
             /\ Entries' = 1 .. Len(m_updates) + 1
             /\ \A i \in Entries : m_updates'[i] = m_updates[i]
             /\ m_updates'[Len(m_updates) + 1] = e
             /\ Len(m_updates) < MAX_DOWNLOADER => e.slot = Len(m_updates)
  <2>1. m_updates' = Append(m_updates, e)
    BY <1>2 DEF Follow
  <2>2. e.slot = downloaderIndex
    BY <1>2 DEF EntryOf, NewEntry
  <2>3. Len(m_updates) < MAX_DOWNLOADER => e.slot = Len(m_updates)
    BY <1>1, <2>2, UpdatesAssumption DEF EntriesInv, SlotsInTurn
  <2> QED
    BY <1>1, <2>1, <2>3 DEF Entries
<1>3. ASSUME Found(c) # {}
      PROVE  /\ First(c) \in Entries /\ m_updates[First(c)].name = c
             /\ Len(m_updates') = Len(m_updates) /\ Entries' = Entries
             /\ \A i \in Entries : i # First(c) => m_updates'[i] = m_updates[i]
             /\ m_updates'[First(c)] = e /\ e.slot = m_updates[First(c)].slot
  <2>1. m_updates' = With(First(c), e)
    BY <1>3 DEF Follow
  <2>2. First(c) \in Entries /\ m_updates[First(c)].name = c
    BY <1>3, FirstFound DEF EntriesInv
  <2>3. m_updates[First(c)] \in EntryType
    BY <1>1, <2>2
  <2>4. e.slot = m_updates[First(c)].slot
    BY <1>3, <2>3 DEF EntryOf, EntryType
  <2>5. Kept(m_updates')
    BY <2>1, <2>2, <2>4, WithKeeps DEF EntriesInv
  <2>6. Len(m_updates') = Len(m_updates) /\ Entries' = Entries
    BY <1>1, <2>5 DEF Kept, Entries
  <2>7. \A i \in Entries : m_updates'[i] = IF i = First(c) THEN e ELSE m_updates[i]
    BY <2>1 DEF With
  <2> QED
    BY <2>2, <2>4, <2>6, <2>7
<1> QED
  BY <1>2, <1>3

LEMMA FollowFound ==
  ASSUME EntriesInv, NEW c \in Components, NEW e \in EntryType,
         e.name = c, e.slot = EntryOf(c).slot, Follow(c, e)
  PROVE  \A d \in Components \ {c} : Found(d)' = Found(d)
<1>1. Entries = 1 .. Len(m_updates) /\ Len(m_updates) \in Nat
  BY ListFacts DEF EntriesInv
<1>2. CASE Found(c) = {}
  BY <1>1, <1>2, FollowFacts DEF Found
<1>3. CASE Found(c) # {}
  BY <1>3, FollowFacts DEF Found
<1> QED
  BY <1>2, <1>3

-----------------------------------------------------------------------------
LEMMA FrameOnItsWay ==
  ASSUME EntriesInv, OnItsWay, UNCHANGED <<calls, fetching, presses>>,
         Kept(m_updates') \/ UNCHANGED m_updates
  PROVE  OnItsWay'
<1>1. \A c \in Components : Found(c)' = Found(c)
  BY SameFound DEF EntriesInv
<1> QED
  BY <1>1 DEF OnItsWay, In, OnceIn

LEMMA PressOnItsWay ==
  ASSUME EntriesInv, OnItsWay, NEW c0 \in Components, Press(c0)
  PROVE  OnItsWay'
<1>1. /\ calls \in Seq(Components) /\ fetching' = fetching
      /\ calls' = Append(calls, c0)
      /\ presses \in [Components -> 0 .. MaxPresses]
      /\ presses' = [presses EXCEPT ![c0] = presses[c0] + 1]
  BY DEF Press, EntriesInv, TypeOK
<1>3. \A c \in Components : Found(c)' = Found(c)
  BY SameFound DEF EntriesInv, Press
<1> SUFFICES ASSUME NEW c \in Components
             PROVE  /\ presses'[c] = 0 => ~ In(calls', c) /\ ~ In(fetching, c) /\ Found(c) = {}
                    /\ presses'[c] = 1 => /\ OnceIn(calls', c) /\ OnceIn(fetching, c)
                                          /\ In(calls', c) => ~ In(fetching, c) /\ Found(c) = {}
                                          /\ In(fetching, c) => Found(c) = {}
  BY <1>1, <1>3 DEF OnItsWay, In, OnceIn
<1>4. /\ In(calls', c) <=> In(calls, c) \/ c = c0
      /\ OnceIn(calls, c) /\ (c = c0 => ~ In(calls, c)) => OnceIn(calls', c)
  BY <1>1, OfAppend
<1>5. CASE c = c0
  <2>1. presses[c] \in Nat /\ presses'[c] = presses[c] + 1
    BY <1>1, <1>5, UpdatesAssumption
  <2>2. presses'[c] = 1 => ~ In(calls, c) /\ ~ In(fetching, c) /\ Found(c) = {}
    BY <2>1 DEF OnItsWay
  <2>3. (~ In(fetching, c) => OnceIn(fetching, c)) /\ (~ In(calls, c) => OnceIn(calls, c))
    BY DEF In, OnceIn
  <2>4. presses'[c] # 0
    BY <2>1
  <2> QED
    BY <1>4, <2>2, <2>3, <2>4
<1>6. CASE c # c0
  <2>1. presses'[c] = presses[c]
    BY <1>1, <1>6
  <2> QED
    BY <1>4, <1>6, <2>1 DEF OnItsWay
<1> QED
  BY <1>5, <1>6

\* A call that is over without a trace.
LEMMA CallEndsOnItsWay ==
  ASSUME EntriesInv, OnItsWay, calls # <<>>, calls' = Tail(calls),
         UNCHANGED <<fetching, presses, m_updates>>
  PROVE  OnItsWay'
<1>1. \A c \in Components : Found(c)' = Found(c)
  BY SameFound DEF EntriesInv
<1>2. \A c \in Components : /\ In(calls', c) => In(calls, c)
                            /\ OnceIn(calls, c) => OnceIn(calls', c)
  BY OfTail DEF EntriesInv, TypeOK
<1>3. \A c \in Components : (In(fetching, c)' <=> In(fetching, c)) /\ (OnceIn(fetching, c)' <=> OnceIn(fetching, c))
  BY DEF In, OnceIn
<1> QED
  BY <1>1, <1>2, <1>3 DEF OnItsWay

LEMMA FetchOnItsWay ==
  ASSUME EntriesInv, OnItsWay, FetchVersion
  PROVE  OnItsWay'
<1> DEFINE c0 == Head(calls)
<1>1. /\ calls \in Seq(Components) /\ calls # <<>> /\ calls' = Tail(calls) /\ c0 \in Components
      /\ fetching \in Seq(Components) /\ fetching' = Append(fetching, c0)
      /\ presses' = presses
  BY DEF FetchVersion, EntriesInv, TypeOK
<1>2. \A c \in Components : Found(c)' = Found(c)
  BY SameFound DEF EntriesInv, FetchVersion
<1> SUFFICES ASSUME NEW c \in Components
             PROVE  /\ presses[c] = 0 => ~ In(calls', c) /\ ~ In(fetching', c) /\ Found(c) = {}
                    /\ presses[c] = 1 => /\ OnceIn(calls', c) /\ OnceIn(fetching', c)
                                         /\ In(calls', c) => ~ In(fetching', c) /\ Found(c) = {}
                                         /\ In(fetching', c) => Found(c) = {}
  BY <1>1, <1>2 DEF OnItsWay, In, OnceIn
<1>3. /\ OnceIn(calls, c) => OnceIn(calls', c)
      /\ In(calls', c) => In(calls, c)
      /\ In(calls, c0) /\ (OnceIn(calls, c0) => ~ In(calls', c0))
  BY <1>1, OfTail
<1> HIDE DEF c0
<1>4. /\ In(fetching', c) <=> In(fetching, c) \/ c = c0
      /\ OnceIn(fetching, c) /\ (c = c0 => ~ In(fetching, c)) => OnceIn(fetching', c)
  BY <1>1, OfAppend
<1>5. CASE c = c0
  BY <1>3, <1>4, <1>5 DEF OnItsWay
<1>6. CASE c # c0
  BY <1>3, <1>4, <1>6 DEF OnItsWay
<1> QED
  BY <1>5, <1>6

LEMMA FetchEndsOnItsWay ==
  ASSUME EntriesInv, OnItsWay, fetching # <<>>, fetching' = Front(fetching),
         UNCHANGED <<calls, presses, m_updates>>
  PROVE  OnItsWay'
<1>1. \A c \in Components : Found(c)' = Found(c)
  BY SameFound DEF EntriesInv
<1>2. \A c \in Components : /\ In(fetching', c) => In(fetching, c)
                            /\ OnceIn(fetching, c) => OnceIn(fetching', c)
  BY OfFront DEF EntriesInv, TypeOK
<1>3. \A c \in Components : (In(calls, c)' <=> In(calls, c)) /\ (OnceIn(calls, c)' <=> OnceIn(calls, c))
  BY DEF In, OnceIn
<1> QED
  BY <1>1, <1>2, <1>3 DEF OnItsWay

LEMMA DownloadOnItsWay ==
  ASSUME EntriesInv, OnItsWay, fetching # <<>>, fetching' = Front(fetching),
         UNCHANGED <<calls, presses>>,
         \A c \in Components \ {Last(fetching)} : Found(c)' = Found(c)
  PROVE  OnItsWay'
<1> DEFINE c0 == Last(fetching)
<1>1. fetching \in Seq(Components)
  BY DEF EntriesInv, TypeOK
<1> SUFFICES ASSUME NEW c \in Components
             PROVE  /\ presses[c] = 0 => ~ In(calls, c) /\ ~ In(fetching', c) /\ Found(c)' = {}
                    /\ presses[c] = 1 => /\ OnceIn(calls, c) /\ OnceIn(fetching', c)
                                         /\ In(calls, c) => ~ In(fetching', c) /\ Found(c)' = {}
                                         /\ In(fetching', c) => Found(c)' = {}
  BY DEF OnItsWay, In, OnceIn
<1>2. /\ In(fetching', c) => In(fetching, c)
      /\ OnceIn(fetching, c) => OnceIn(fetching', c)
      /\ In(fetching, c0)
      /\ OnceIn(fetching, c0) => ~ In(fetching', c0)
  BY <1>1, OfFront
<1> HIDE DEF c0
<1>3. CASE c = c0
  BY <1>2, <1>3 DEF OnItsWay
<1>4. CASE c # c0
  BY <1>2, <1>4 DEF OnItsWay, c0
<1> QED
  BY <1>3, <1>4

LEMMA LocalOnItsWay ==
  ASSUME EntriesInv, OnItsWay, calls # <<>>, calls' = Tail(calls),
         UNCHANGED <<fetching, presses>>,
         \A c \in Components \ {Head(calls)} : Found(c)' = Found(c)
  PROVE  OnItsWay'
<1> DEFINE c0 == Head(calls)
<1>1. calls \in Seq(Components) /\ c0 \in Components
  BY DEF EntriesInv, TypeOK
<1> SUFFICES ASSUME NEW c \in Components
             PROVE  /\ presses[c] = 0 => ~ In(calls', c) /\ ~ In(fetching, c) /\ Found(c)' = {}
                    /\ presses[c] = 1 => /\ OnceIn(calls', c) /\ OnceIn(fetching, c)
                                         /\ In(calls', c) => ~ In(fetching, c) /\ Found(c)' = {}
                                         /\ In(fetching, c) => Found(c)' = {}
  BY DEF OnItsWay, In, OnceIn
<1>2. /\ OnceIn(calls, c) => OnceIn(calls', c)
      /\ In(calls', c) => In(calls, c)
      /\ In(calls, c0) /\ (OnceIn(calls, c0) => ~ In(calls', c0))
  BY <1>1, OfTail
<1> HIDE DEF c0
<1>3. CASE c = c0
  BY <1>2, <1>3 DEF OnItsWay
<1>4. CASE c # c0
  BY <1>2, <1>4 DEF OnItsWay, c0
<1> QED
  BY <1>3, <1>4

-----------------------------------------------------------------------------
LEMMA FollowSteady ==
  ASSUME EntriesInv, FreshManagers, Steady,
         NEW c \in Components, NEW e \in EntryType,
         e.name = c, e.slot = EntryOf(c).slot, Follow(c, e),
         presses' = presses,
         \A s \in Slots : s # e.slot => slots'[s] = slots[s],
         Found(c) # {} => presses[c] # 1,
         Found(c) = {} /\ Len(m_updates) < MAX_DOWNLOADER => OneThing(e, slots'[e.slot])
  PROVE  FreshManagers' /\ Steady'
<1> USE UpdatesAssumption
<1> DEFINE n == Len(m_updates)
<1>1. Entries = 1 .. n /\ n \in Nat
  BY ListFacts DEF EntriesInv
<1>2. \A i \in Entries : m_updates[i] \in EntryType /\ m_updates[i].slot \in Slots
  BY EntryFacts DEF EntriesInv
<1>3. n <= MAX_DOWNLOADER => \A i \in Entries : m_updates[i].slot = i - 1
  BY DEF EntriesInv, SlotsInTurn
<1>4. CASE Found(c) = {}
  <2>1. /\ Len(m_updates') = n + 1 /\ Entries' = 1 .. n + 1
        /\ \A i \in Entries : m_updates'[i] = m_updates[i]
        /\ m_updates'[n + 1] = e
        /\ n < MAX_DOWNLOADER => e.slot = n
    BY <1>4, FollowFacts
  <2>2. FreshManagers'
    <3> SUFFICES ASSUME NEW s \in Slots, s >= n + 1
                 PROVE  Fresh(slots'[s])
      BY <2>1 DEF FreshManagers, Slots
    <3>1. s # e.slot /\ s >= n
      BY <1>1, <2>1 DEF Slots
    <3> QED
      BY <3>1 DEF FreshManagers
  <2>3. Steady'
    <3> SUFFICES ASSUME n + 1 <= MAX_DOWNLOADER, NEW i \in 1 .. n + 1,
                        presses[m_updates'[i].name] = 1
                 PROVE  OneThing(m_updates'[i], slots'[m_updates'[i].slot])
      BY <2>1 DEF Steady
    <3>1. n < MAX_DOWNLOADER /\ n <= MAX_DOWNLOADER
      BY <1>1
    <3>2. CASE i = n + 1
      BY <1>4, <2>1, <3>1, <3>2
    <3>3. CASE i # n + 1
      <4>1. i \in Entries /\ m_updates'[i] = m_updates[i]
        BY <1>1, <2>1, <3>3
      <4>2. m_updates[i].slot # e.slot
        BY <1>1, <1>3, <2>1, <3>1, <4>1
      <4>3. slots'[m_updates[i].slot] = slots[m_updates[i].slot]
        BY <1>2, <4>1, <4>2
      <4> QED
        BY <3>1, <4>1, <4>3 DEF Steady
    <3> QED
      BY <3>2, <3>3
  <2> QED
    BY <2>2, <2>3
<1>5. CASE Found(c) # {}
  <2>1. /\ First(c) \in Entries /\ m_updates[First(c)].name = c
        /\ Len(m_updates') = n /\ Entries' = Entries
        /\ \A i \in Entries : i # First(c) => m_updates'[i] = m_updates[i]
        /\ m_updates'[First(c)] = e /\ e.slot = m_updates[First(c)].slot
    BY <1>5, FollowFacts
  <2>2. FreshManagers'
    <3> SUFFICES ASSUME NEW s \in Slots, s >= n
                 PROVE  Fresh(slots'[s])
      BY <2>1 DEF FreshManagers, Slots
    <3>1. s # e.slot
      BY <1>1, <1>3, <2>1 DEF Slots
    <3> QED
      BY <3>1 DEF FreshManagers
  <2>3. Steady'
    <3> SUFFICES ASSUME n <= MAX_DOWNLOADER, NEW i \in Entries,
                        presses[m_updates'[i].name] = 1
                 PROVE  OneThing(m_updates'[i], slots'[m_updates'[i].slot])
      BY <2>1 DEF Steady
    <3>1. i # First(c)
      BY <1>5, <2>1
    <3>2. m_updates[i].slot # e.slot /\ m_updates'[i] = m_updates[i]
      BY <1>1, <1>3, <2>1, <3>1
    <3>3. slots'[m_updates[i].slot] = slots[m_updates[i].slot]
      BY <1>2, <3>2
    <3> QED
      BY <3>2, <3>3 DEF Steady
  <2> QED
    BY <2>2, <2>3
<1> QED
  BY <1>4, <1>5

\* An entry changes, its manager does not.
LEMMA EntrySteady ==
  ASSUME EntriesInv, FreshManagers, Steady, NEW i \in Entries, NEW e \in EntryType,
         m_updates' = With(i, e), UNCHANGED <<slots, presses>>,
         e.name = m_updates[i].name, e.slot = m_updates[i].slot,
         OneThing(m_updates[i], slots[m_updates[i].slot]) => OneThing(e, slots[e.slot])
  PROVE  FreshManagers' /\ Steady'
<1>1. Kept(m_updates')
  BY WithKeeps DEF EntriesInv
<1>2. Len(m_updates') = Len(m_updates) /\ Entries' = Entries
  BY <1>1, ListFacts DEF Kept, Entries, EntriesInv
<1>3. \A j \in Entries : m_updates'[j] = IF j = i THEN e ELSE m_updates[j]
  BY DEF With
<1>4. FreshManagers'
  BY <1>2 DEF FreshManagers, Slots
<1>5. Steady'
  BY <1>2, <1>3 DEF Steady
<1> QED
  BY <1>4, <1>5

LEMMA OneOfThree ==
  ASSUME NEW a \in Nat, NEW b \in Nat, NEW c \in Nat, a > 0, a + b + c <= 1
  PROVE  a = 1 /\ b = 0 /\ c = 0
  OBVIOUS

LEMMA FinishedSteady ==
  ASSUME EntriesInv, FreshManagers, Steady, NEW s \in Slots, SlotFinished(s)
  PROVE  FreshManagers' /\ Steady'
<1> USE UpdatesAssumption
<1>1. /\ slots \in [Slots -> SlotType] /\ slots[s].due > 0
      /\ slots' = [slots EXCEPT ![s].due = slots[s].due - 1]
      /\ m_updates' = Notified(s) /\ presses' = presses
  BY DEF SlotFinished, EntriesInv, TypeOK, SlotType
<1>2. slots[s] \in SlotType
  BY <1>1
<1>3. /\ slots'[s].due = slots[s].due - 1 /\ slots'[s].err = slots[s].err
      /\ slots'[s].late = slots[s].late /\ slots'[s].forgiven = slots[s].forgiven
  BY <1>1, <1>2 DEF SlotType
<1>4. \A t \in Slots : t # s => slots'[t] = slots[t]
  BY <1>1
<1>5. Kept(m_updates')
  BY <1>1, NotifiedKeeps DEF EntriesInv
<1>6. /\ m_updates \in Seq(EntryType) /\ Entries = 1 .. Len(m_updates) /\ Len(m_updates) \in Nat
      /\ Len(m_updates') = Len(m_updates) /\ Entries' = Entries
  BY <1>5, ListFacts DEF Kept, Entries, EntriesInv
<1>7. FreshManagers'
  <2> SUFFICES ASSUME NEW t \in Slots, t >= Len(m_updates)
               PROVE  Fresh(slots'[t])
    BY <1>6 DEF FreshManagers, Slots
  <2>1. Fresh(slots[t])
    BY DEF FreshManagers
  <2>2. t # s
    BY <1>1, <2>1 DEF Fresh
  <2> QED
    BY <1>4, <2>1, <2>2
<1>8. Steady'
  <2> SUFFICES ASSUME Len(m_updates) <= MAX_DOWNLOADER, NEW i \in Entries,
                      presses[m_updates[i].name] = 1
               PROVE  OneThing(m_updates'[i], slots'[m_updates[i].slot])
    BY <1>1, <1>5, <1>6 DEF Steady, Kept
  <2>1. OneThing(m_updates[i], slots[m_updates[i].slot])
    BY DEF Steady
  <2>2. m_updates[i] \in EntryType /\ m_updates[i].slot \in Slots
    BY EntryFacts DEF EntriesInv
  <2>3. CASE m_updates[i].slot # s
    <3>1. m_updates'[i] = m_updates[i]
      BY <1>1, <2>3 DEF Notified
    <3> QED
      BY <1>4, <2>1, <2>2, <2>3, <3>1
  <2>4. CASE m_updates[i].slot = s /\ ~ slots[s].late /\ ~ slots[s].forgiven
    <3>1. /\ m_updates[i].posted \in Nat /\ m_updates[i].running \in Nat
          /\ m_updates[i].lambdas \in Nat /\ slots[s].due \in Nat
      BY <1>2, <2>2 DEF EntryType, SlotType
    <3>a. /\ m_updates[i].lambdas <= 1
          /\ slots[s].due + m_updates[i].posted + m_updates[i].running <= 1
      BY <2>1, <2>4 DEF OneThing
    <3>b. slots[s].due > 0
      BY <1>1
    <3>c. slots[s].due = 1 /\ m_updates[i].posted = 0 /\ m_updates[i].running = 0
      BY <3>1, <3>a, <3>b, OneOfThree
    <3>2. /\ m_updates[i].lambdas <= 1
          /\ slots[s].due = 1 /\ m_updates[i].posted = 0 /\ m_updates[i].running = 0
      BY <3>a, <3>c
    <3>3. CASE slots[s].err = 0
      <4>1. m_updates'[i] = [m_updates[i] EXCEPT !.posted = m_updates[i].posted + m_updates[i].lambdas]
        BY <1>1, <2>4, <3>3 DEF Notified
      <4>2. /\ m_updates'[i].lambdas = m_updates[i].lambdas
            /\ m_updates'[i].running = 0
            /\ m_updates'[i].posted = m_updates[i].posted + m_updates[i].lambdas
        BY <2>2, <3>2, <4>1 DEF EntryType
      <4>3. m_updates'[i].posted \in Nat /\ m_updates'[i].posted <= 1
        BY <3>1, <3>2, <4>2
      <4> QED
        BY <1>3, <2>4, <3>2, <3>3, <4>2, <4>3 DEF OneThing
    <3>4. CASE slots[s].err # 0
      <4>1. m_updates'[i] = m_updates[i]
        BY <1>1, <3>4 DEF Notified
      <4> QED
        BY <1>3, <2>4, <3>2, <4>1 DEF OneThing
    <3> QED
      BY <3>3, <3>4
  <2>5. CASE m_updates[i].slot = s /\ (slots[s].late \/ slots[s].forgiven)
    BY <1>3, <2>5 DEF OneThing
  <2> QED
    BY <2>3, <2>4, <2>5
<1> QED
  BY <1>7, <1>8

\* A manager changes, and no entry.
LEMMA ManagerSteady ==
  ASSUME EntriesInv, FreshManagers, Steady, NEW s \in Slots, UNCHANGED <<m_updates, presses>>,
         \A t \in Slots : t # s => slots'[t] = slots[t],
         Fresh(slots[s]) => Fresh(slots'[s]),
         \A i \in Entries : m_updates[i].slot = s /\ OneThing(m_updates[i], slots[s])
                              => OneThing(m_updates[i], slots'[s])
  PROVE  FreshManagers' /\ Steady'
<1>1. Entries' = Entries /\ \A i \in Entries : m_updates[i].slot \in Slots
  BY EntryFacts DEF EntriesInv, Entries
<1>2. FreshManagers'
  BY DEF FreshManagers, Slots
<1>3. Steady'
  <2> SUFFICES ASSUME Len(m_updates) <= MAX_DOWNLOADER, NEW i \in Entries,
                      presses[m_updates[i].name] = 1
               PROVE  OneThing(m_updates[i], slots'[m_updates[i].slot])
    BY <1>1 DEF Steady
  <2>1. OneThing(m_updates[i], slots[m_updates[i].slot])
    BY DEF Steady
  <2> QED
    BY <1>1, <2>1
<1> QED
  BY <1>2, <1>3

LEMMA FileFailsSteady ==
  ASSUME EntriesInv, FreshManagers, Steady, NEW s \in Slots, FileFails(s)
  PROVE  FreshManagers' /\ Steady'
<1>1. /\ slots \in [Slots -> SlotType] /\ (slots[s].due > 0 \/ slots[s].late)
      /\ slots' = [slots EXCEPT ![s] = [slots[s] EXCEPT !.err = 1]]
      /\ m_updates' = m_updates /\ presses' = presses
  BY DEF FileFails, EntriesInv, TypeOK, SlotType
<1>2. /\ slots[s] \in SlotType /\ slots[s].due \in Nat /\ slots'[s] = [slots[s] EXCEPT !.err = 1]
      /\ \A t \in Slots : t # s => slots'[t] = slots[t]
  BY <1>1, SlotFacts
<1>3. /\ slots'[s].due = slots[s].due
      /\ slots'[s].late = slots[s].late /\ slots'[s].forgiven = slots[s].forgiven
  BY <1>2 DEF SlotType
<1>4. Fresh(slots[s]) => Fresh(slots'[s])
  BY <1>1 DEF Fresh
<1>5. ASSUME NEW i \in Entries, OneThing(m_updates[i], slots[s])
      PROVE  OneThing(m_updates[i], slots'[s])
  <2> SUFFICES ASSUME ~ slots[s].late, ~ slots[s].forgiven
               PROVE  OneThing(m_updates[i], slots'[s])
    BY <1>3 DEF OneThing
  <2>1. m_updates[i].posted \in Nat /\ m_updates[i].running \in Nat
    BY EntryFacts DEF EntriesInv
  <2>2. /\ m_updates[i].lambdas <= 1
        /\ slots[s].due + m_updates[i].posted + m_updates[i].running <= 1 /\ slots[s].due > 0
    BY <1>1, <1>5 DEF OneThing
  <2>3. m_updates[i].posted = 0 /\ m_updates[i].running = 0
    BY <1>2, <2>1, <2>2
  <2> QED
    BY <1>3, <2>2, <2>3 DEF OneThing
<1> QED
  BY <1>1, <1>2, <1>4, <1>5, ManagerSteady

LEMMA RedirectedSteady ==
  ASSUME EntriesInv, FreshManagers, Steady, NEW s \in Slots, FileRedirected(s)
  PROVE  FreshManagers' /\ Steady'
<1>1. /\ slots \in [Slots -> SlotType] /\ slots[s] \in SlotType
      /\ slots[s].due \in Nat /\ slots[s].err \in {0, 1}
      /\ m_updates' = m_updates /\ presses' = presses
  BY SlotFacts DEF FileRedirected, EntriesInv, TypeOK, SlotType
<1>2. PICK again \in {0, 1} :
        /\ slots' = [slots EXCEPT ![s] = Redirected(slots[s], again)]
        /\ again = 0 => slots[s].due > 0
        /\ slots[s].due > 0 \/ slots[s].err > 0
  BY <1>1, RedirectionFacts
<1>3. slots'[s] = Redirected(slots[s], again) /\ \A t \in Slots : t # s => slots'[t] = slots[t]
  BY <1>1, <1>2
<1>4. /\ slots'[s].due = slots[s].due + again /\ slots'[s].err = 0
      /\ slots'[s].late <=> (slots[s].late \/ again = 1)
      /\ slots'[s].forgiven <=> (slots[s].forgiven \/ slots[s].err > 0)
  BY <1>1, <1>3, RedirectedType
<1>5. ~ Fresh(slots[s])
  BY <1>1, <1>2 DEF Fresh
<1>6. ASSUME NEW i \in Entries, OneThing(m_updates[i], slots[s])
      PROVE  OneThing(m_updates[i], slots'[s])
  <2> SUFFICES ASSUME ~ slots'[s].late, ~ slots'[s].forgiven
               PROVE  OneThing(m_updates[i], slots'[s])
    BY DEF OneThing
  <2>1. ~ slots[s].late /\ again = 0 /\ ~ slots[s].forgiven
    BY <1>2, <1>4
  <2>2. slots'[s].due = slots[s].due
    BY <1>1, <1>4, <2>1
  <2> QED
    BY <1>4, <1>6, <2>1, <2>2 DEF OneThing
<1> QED
  BY <1>1, <1>3, <1>5, <1>6, ManagerSteady

LEMMA SleepsSteady ==
  ASSUME EntriesInv, FreshManagers, Steady, NEW s \in Slots, WriterSleeps(s)
  PROVE  FreshManagers' /\ Steady'
<1>1. /\ slots \in [Slots -> SlotType] /\ slots[s] \in SlotType
      /\ slots' = [slots EXCEPT ![s] = [slots[s] EXCEPT !.asleep = TRUE]]
      /\ m_updates' = m_updates /\ presses' = presses
  BY SlotFacts DEF WriterSleeps, EntriesInv, TypeOK, SlotType
<1>2. slots'[s] = [slots[s] EXCEPT !.asleep = TRUE] /\ \A t \in Slots : t # s => slots'[t] = slots[t]
  BY <1>1
<1>3. /\ slots'[s].due = slots[s].due /\ slots'[s].err = slots[s].err
      /\ slots'[s].late = slots[s].late /\ slots'[s].forgiven = slots[s].forgiven
  BY <1>1, <1>2 DEF SlotType
<1>4. Fresh(slots[s]) => Fresh(slots'[s])
  BY <1>3 DEF Fresh
<1>5. \A i \in Entries : OneThing(m_updates[i], slots[s]) => OneThing(m_updates[i], slots'[s])
  BY <1>3 DEF OneThing
<1> QED
  BY <1>1, <1>2, <1>4, <1>5, ManagerSteady

\* No entry, no manager and no count of launches changes, or those of a
\* component without an entry.
LEMMA FrameSteady ==
  ASSUME EntriesInv, FreshManagers, Steady, UNCHANGED <<m_updates, slots>>,
         \A i \in Entries : presses'[m_updates[i].name] = 1 => presses[m_updates[i].name] = 1
  PROVE  FreshManagers' /\ Steady'
<1>1. Entries' = Entries
  BY DEF Entries
<1> QED
  BY <1>1 DEF FreshManagers, Steady, Slots

-----------------------------------------------------------------------------
LEMMA InitInstall == Init => InstallInv
<1> SUFFICES ASSUME Init PROVE InstallInv
  OBVIOUS
<1> USE UpdatesAssumption DEF Init
<1>1. EntriesInv
  BY InitEntries
<1>2. OnItsWay
  BY DEF OnItsWay, In, OnceIn, Found, Entries
<1>3. FreshManagers /\ Steady
  BY DEF FreshManagers, Fresh, Steady, Entries
<1> QED
  BY <1>1, <1>2, <1>3 DEF InstallInv

LEMMA StepInstall == InstallInv /\ [Next]_vars => InstallInv'
<1> SUFFICES ASSUME InstallInv, [Next]_vars
             PROVE  OnItsWay' /\ FreshManagers' /\ Steady'
  BY StepEntries DEF InstallInv
<1> USE UpdatesAssumption
<1>a. /\ EntriesInv /\ OnItsWay /\ FreshManagers /\ Steady
      /\ \A i \in Entries : m_updates[i] \in EntryType /\ m_updates[i].name \in Components
                            /\ m_updates[i].slot \in Slots
  BY EntryFacts DEF InstallInv, EntriesInv
<1>b. /\ slots \in [Slots -> SlotType]
      /\ fetching \in Seq(Components) /\ calls \in Seq(Components)
  BY <1>a DEF EntriesInv, TypeOK, SlotType
<1>1. ASSUME NEW c \in Components, Press(c) PROVE OnItsWay' /\ FreshManagers' /\ Steady'
  <2>1. OnItsWay'
    BY <1>1, <1>a, PressOnItsWay
  <2>2. \A i \in Entries : presses'[m_updates[i].name] = 1 => presses[m_updates[i].name] = 1
    <3> SUFFICES ASSUME NEW i \in Entries, presses'[m_updates[i].name] = 1,
                        presses[m_updates[i].name] # 1
                 PROVE  FALSE
      OBVIOUS
    <3>1. /\ presses \in [Components -> 0 .. MaxPresses]
          /\ presses' = [presses EXCEPT ![c] = presses[c] + 1]
          /\ m_updates[i].name \in Components
      BY <1>1, <1>a DEF Press, EntriesInv, TypeOK
    <3>3. m_updates[i].name = c
      BY <3>1
    <3>4. presses[c] = 0
      BY <3>1, <3>3
    <3>2. i \in Found(c)
      BY <3>3 DEF Found
    <3> QED
      BY <1>a, <3>2, <3>4 DEF OnItsWay
  <2> QED
    BY <1>1, <1>a, <2>1, <2>2, FrameSteady DEF Press
<1>2. CASE NoSuchVersion
  BY <1>2, <1>a, CallEndsOnItsWay, FrameSteady DEF NoSuchVersion
<1>3. CASE FetchVersion
  BY <1>3, <1>a, FetchOnItsWay, FrameSteady DEF FetchVersion
<1>4. CASE NothingToInstall
  BY <1>4, <1>a, FetchEndsOnItsWay, FrameSteady DEF NothingToInstall
<1>5. CASE LaunchDownload
  <2> DEFINE c == Last(fetching)
             entry == EntryOf(c)
             e == Connect(entry)
  <2>1. c \in Components /\ In(fetching, c)
    BY <1>b, <1>5, OfFront DEF LaunchDownload, Last
  <2>2. entry \in EntryType /\ entry.name = c
    BY <1>a, <2>1, EntryOfType DEF EntriesInv
  <2>3. e \in EntryType /\ e.name = c /\ e.slot = entry.slot /\ Follow(c, e)
    BY <1>5, <2>2, ConnectKeeps DEF LaunchDownload
  <2>4. \A d \in Components \ {c} : Found(d)' = Found(d)
    BY <1>a, <2>1, <2>3, FollowFound
  <2>5. OnItsWay'
    BY <1>5, <1>a, <2>4, DownloadOnItsWay DEF LaunchDownload
  <2>6. entry.slot \in Slots
    BY <2>2 DEF EntryType
  <2>7. PICK slot \in GivenFiles(slots[entry.slot]) :
          slots' = [slots EXCEPT ![entry.slot] = slot]
    BY <1>5 DEF LaunchDownload
  <2>8. slots'[entry.slot] = slot
        /\ \A s \in Slots : s # e.slot => slots'[s] = slots[s]
    BY <1>b, <2>3, <2>6, <2>7
  <2>9. Found(c) # {} => presses[c] # 1
    BY <1>a, <2>1 DEF OnItsWay
  <2>10. Found(c) = {} /\ Len(m_updates) < MAX_DOWNLOADER => OneThing(e, slots'[e.slot])
    <3> SUFFICES ASSUME Found(c) = {}, Len(m_updates) < MAX_DOWNLOADER
                 PROVE  OneThing(e, slots'[e.slot])
      OBVIOUS
    <3>1. entry = NewEntry(c)
      BY DEF EntryOf
    <3>2. e.lambdas = 1 /\ e.posted = 0 /\ e.running = 0
      BY <3>1 DEF Connect, NewEntry
    <3>3. e.slot = Len(m_updates)
      BY <1>a, <2>1, <2>3, FollowFacts
    <3>4. slots[entry.slot].due = 0
      BY <1>a, <2>3, <2>6, <3>3, ListFacts DEF FreshManagers, Fresh, EntriesInv
    <3>5. slot.due = 1 /\ slot.err = 0
      BY <1>b, <2>6, <2>7, <3>4, GivenFilesType
    <3> QED
      BY <2>3, <2>8, <3>2, <3>5 DEF OneThing
  <2>11. presses' = presses
    BY <1>5 DEF LaunchDownload
  <2> HIDE DEF c, entry, e
  <2>12. e.slot = EntryOf(c).slot
    BY <2>3 DEF entry
  <2> QED
    BY <1>a, <2>1, <2>3, <2>5, <2>8, <2>9, <2>10, <2>11, <2>12, FollowSteady
<1>6. CASE LaunchLocal
  <2> DEFINE c == Head(calls)
             entry == EntryOf(c)
             e == StartScript(entry)
  <2>1. c \in Components /\ In(calls, c)
    BY <1>b, <1>6, OfTail DEF LaunchLocal
  <2>2. entry \in EntryType /\ entry.name = c
    BY <1>a, <2>1, EntryOfType DEF EntriesInv
  <2>3. e \in EntryType /\ e.name = c /\ e.slot = entry.slot /\ Follow(c, e)
    BY <1>6, <2>2, StartScriptKeeps DEF LaunchLocal
  <2>4. \A d \in Components \ {c} : Found(d)' = Found(d)
    BY <1>a, <2>1, <2>3, FollowFound
  <2>5. OnItsWay'
    BY <1>6, <1>a, <2>4, LocalOnItsWay DEF LaunchLocal
  <2>6. entry.slot \in Slots /\ slots' = slots /\ presses' = presses
    BY <1>6, <2>2 DEF EntryType, LaunchLocal
  <2>9. Found(c) # {} => presses[c] # 1
    BY <1>a, <2>1 DEF OnItsWay
  <2>10. Found(c) = {} /\ Len(m_updates) < MAX_DOWNLOADER => OneThing(e, slots'[e.slot])
    <3> SUFFICES ASSUME Found(c) = {}, Len(m_updates) < MAX_DOWNLOADER
                 PROVE  OneThing(e, slots'[e.slot])
      OBVIOUS
    <3>1. entry = NewEntry(c)
      BY DEF EntryOf
    <3>2. e.lambdas = 0 /\ e.posted = 0 /\ e.running = 1
      BY <3>1 DEF StartScript, NewEntry
    <3>3. e.slot = Len(m_updates)
      BY <1>a, <2>1, <2>3, FollowFacts
    <3>4. slots[e.slot].due = 0 /\ slots[e.slot].err = 0
      BY <1>a, <2>3, <2>6, <3>3, ListFacts DEF FreshManagers, Fresh, EntriesInv
    <3> QED
      BY <2>6, <3>2, <3>4 DEF OneThing
  <2> HIDE DEF c, entry, e
  <2>12. e.slot = EntryOf(c).slot
    BY <2>3 DEF entry
  <2> QED
    BY <1>a, <2>1, <2>3, <2>5, <2>6, <2>9, <2>10, <2>12, FollowSteady
<1>7. ASSUME NEW s \in Slots, FileFails(s) PROVE OnItsWay' /\ FreshManagers' /\ Steady'
  <2>1. OnItsWay'
    BY <1>7, <1>a, FrameOnItsWay DEF FileFails
  <2> QED
    BY <1>7, <1>a, <2>1, FileFailsSteady
<1>8. ASSUME NEW s \in Slots, SlotFinished(s) PROVE OnItsWay' /\ FreshManagers' /\ Steady'
  <2>1. OnItsWay'
    BY <1>8, <1>a, NotifiedKeeps, FrameOnItsWay DEF SlotFinished, EntriesInv
  <2> QED
    BY <1>8, <1>a, <2>1, FinishedSteady
<1>9. ASSUME NEW i \in Entries, Install(i) PROVE OnItsWay' /\ FreshManagers' /\ Steady'
  <2> DEFINE n == m_updates[i].posted - 1
             d == [m_updates[i] EXCEPT !.posted = n]
             e == StartScript(d)
  <2>1. m_updates[i] \in EntryType
    BY <1>a
  <2>2. n \in Nat /\ m_updates[i].posted = n + 1
    BY <1>9, <2>1 DEF Install, EntryType
  <2>3. m_updates' = With(i, e) /\ UNCHANGED <<calls, fetching, slots, presses>>
    BY <1>9 DEF Install
  <2> HIDE DEF n
  <2>4. /\ d \in EntryType /\ d.name = m_updates[i].name /\ d.slot = m_updates[i].slot
        /\ d.lambdas = m_updates[i].lambdas /\ d.running = m_updates[i].running /\ d.posted = n
    BY <2>1, <2>2 DEF EntryType
  <2> HIDE DEF d
  <2>5. e \in EntryType /\ e.name = m_updates[i].name /\ e.slot = m_updates[i].slot
    BY <2>4, StartScriptKeeps
  <2>6. e.lambdas = d.lambdas /\ e.running = d.running + 1 /\ e.posted = d.posted
    BY <2>4 DEF StartScript, EntryType
  <2>7. m_updates[i].running \in Nat /\ slots[m_updates[i].slot].due \in Nat
    BY <1>a, <1>b, <2>1, SlotFacts DEF EntryType
  <2>8. OneThing(m_updates[i], slots[m_updates[i].slot]) => OneThing(e, slots[e.slot])
    BY <2>2, <2>4, <2>5, <2>6, <2>7 DEF OneThing
  <2>9. Kept(m_updates')
    BY <1>a, <2>3, <2>5, WithKeeps DEF EntriesInv
  <2>10. OnItsWay'
    BY <1>a, <2>3, <2>9, FrameOnItsWay
  <2> HIDE DEF e
  <2> QED
    BY <1>a, <2>3, <2>5, <2>8, <2>10, EntrySteady
<1>10. ASSUME NEW i \in Entries, ScriptReports(i) PROVE OnItsWay' /\ FreshManagers' /\ Steady'
  BY <1>10, <1>a, FrameOnItsWay, FrameSteady DEF ScriptReports
<1>11. ASSUME NEW i \in Entries, ScriptEnds(i) PROVE OnItsWay' /\ FreshManagers' /\ Steady'
  <2>1. PICK exitOk \in BOOLEAN :
          m_updates' = With(i, [m_updates[i] EXCEPT
            !.running = @ - 1,
            !.step = IF exitOk /\ ErrorOf(m_updates[i]) <= 0 THEN 3 ELSE 4])
    BY <1>11 DEF ScriptEnds
  <2> DEFINE n == IF exitOk /\ ErrorOf(m_updates[i]) <= 0 THEN 3 ELSE 4
             k == m_updates[i].running - 1
             e == [m_updates[i] EXCEPT !.running = k, !.step = n]
  <2>2. n \in 0 .. 4
    OBVIOUS
  <2>3. m_updates[i] \in EntryType
    BY <1>a
  <2>4. k \in Nat /\ m_updates[i].running = k + 1
    BY <1>11, <2>3 DEF ScriptEnds, EntryType
  <2>5. m_updates' = With(i, e) /\ UNCHANGED <<calls, fetching, slots, presses>>
    BY <1>11, <2>1 DEF ScriptEnds
  <2> HIDE DEF n, k
  <2>6. /\ e \in EntryType /\ e.name = m_updates[i].name /\ e.slot = m_updates[i].slot
        /\ e.lambdas = m_updates[i].lambdas /\ e.posted = m_updates[i].posted /\ e.running = k
    BY <2>2, <2>3, <2>4 DEF EntryType
  <2> HIDE DEF e
  <2>7. m_updates[i].posted \in Nat /\ slots[m_updates[i].slot].due \in Nat
    BY <1>a, <1>b, <2>3, SlotFacts DEF EntryType
  <2>8. OneThing(m_updates[i], slots[m_updates[i].slot]) => OneThing(e, slots[e.slot])
    BY <2>4, <2>6, <2>7 DEF OneThing
  <2>9. Kept(m_updates')
    BY <1>a, <2>5, <2>6, WithKeeps DEF EntriesInv
  <2>10. OnItsWay'
    BY <1>a, <2>5, <2>9, FrameOnItsWay
  <2> QED
    BY <1>a, <2>5, <2>6, <2>8, <2>10, EntrySteady
<1>12. ASSUME NEW s \in Slots, FileRedirected(s) PROVE OnItsWay' /\ FreshManagers' /\ Steady'
  <2>1. OnItsWay'
    BY <1>12, <1>a, FrameOnItsWay DEF FileRedirected
  <2> QED
    BY <1>12, <1>a, <2>1, RedirectedSteady
<1>13. ASSUME NEW s \in Slots, WriterSleeps(s) PROVE OnItsWay' /\ FreshManagers' /\ Steady'
  <2>1. OnItsWay'
    BY <1>13, <1>a, FrameOnItsWay DEF WriterSleeps
  <2> QED
    BY <1>13, <1>a, <2>1, SleepsSteady
<1>14. CASE UNCHANGED vars
  BY <1>14, <1>a, FrameOnItsWay, FrameSteady DEF vars
<1> QED
  BY <1>1, <1>2, <1>3, <1>4, <1>5, <1>6, <1>7, <1>8, <1>9, <1>10, <1>11, <1>12, <1>13, <1>14
     DEF Next, Progress

LEMMA InstallInvariant == Spec => []InstallInv
  BY InitInstall, StepInstall, PTL DEF Spec

\* No more entries than components.
LEMMA EntriesBounded ==
  ASSUME EntriesInv
  PROVE  Len(m_updates) <= Cardinality(Components)
<1> DEFINE n == Len(m_updates)
           f == [i \in 1 .. n |-> m_updates[i].name]
<1>1. m_updates \in Seq(EntryType) /\ Entries = 1 .. n /\ n \in Nat
  BY ListFacts DEF EntriesInv
<1>2. \A i \in 1 .. n : m_updates[i].name \in Components
  BY <1>1, EntryFacts DEF EntriesInv
<1>3. f \in [1 .. n -> Components] /\ \A i, j \in 1 .. n : f[i] = f[j] => i = j
  BY <1>1, <1>2 DEF EntriesInv, NamesDiffer
<1>4. f \in Injection(1 .. n, Components)
  BY <1>3 DEF Injection, IsInjective
<1>5. Cardinality(1 .. n) <= Cardinality(Components)
  BY <1>4, FS_Injection, UpdatesAssumption
<1>6. Cardinality(1 .. n) = n
  BY <1>1, FS_Interval
<1> QED
  BY <1>5, <1>6

\* A component that was launched once, with as many managers as components: its
\* script runs once, over files that are all there and not downloaded again,
\* whatever happens to the others (the lambda on DownloadManager::finished), as
\* long as its manager has neither ended twice nor forgotten an error.
THEOREM ScriptsRunOnceAndComplete == Spec => []InstallsWhatIsThere
<1>1. InstallInv => InstallsWhatIsThere
  <2> SUFFICES ASSUME InstallInv, NEW e \in Range(m_updates), LaunchedOnce(e),
                      ~ slots[e.slot].late, ~ slots[e.slot].forgiven, e.running > 0
               PROVE  /\ e.running = 1 /\ e.posted = 0
                      /\ slots[e.slot].due = 0 /\ slots[e.slot].err = 0
    BY DEF InstallsWhatIsThere
  <2>1. PICK i \in Entries : e = m_updates[i]
    BY DEF Range, Entries
  <2>2. /\ Len(m_updates) <= Cardinality(Components) /\ Cardinality(Components) <= MAX_DOWNLOADER
        /\ Cardinality(Components) \in Nat /\ Len(m_updates) \in Nat /\ MAX_DOWNLOADER \in Nat
    BY EntriesBounded, ListFacts, FS_CardinalityType, UpdatesAssumption
       DEF InstallInv, EntriesInv, LaunchedOnce
  <2>3. OneThing(e, slots[e.slot])
    BY <2>1, <2>2 DEF InstallInv, Steady, LaunchedOnce
  <2>4. /\ e.posted \in Nat /\ e.running \in Nat
        /\ slots[e.slot].due \in Nat /\ slots[e.slot].err \in {0, 1}
    <3>1. m_updates[i].slot \in Slots /\ slots \in [Slots -> SlotType]
      BY EntryFacts DEF InstallInv, EntriesInv, TypeOK, SlotType
    <3> QED
      BY <2>1, <3>1, SlotFacts, EntryFacts DEF InstallInv, EntriesInv
  <2>5. /\ slots[e.slot].due + e.posted + e.running <= 1
        /\ slots[e.slot].err # 0 => e.running = 0
    BY <2>3 DEF OneThing
  <2> QED
    BY <2>4, <2>5
<1> QED
  BY <1>1, InstallInvariant, PTL
=============================================================================
