-------------------------------- MODULE Updates --------------------------------
(***************************************************************************)
(* Updates: the player launches the installation of a component; a slot    *)
(* fetches what it needs, hands the files to one of the DownloadManagers,  *)
(* and runs the installation script when they are there.                   *)
(*                                                                         *)
(* The slot waits for the network in an event loop of its own, in which    *)
(* every other handler runs, the slot of another component included: the   *)
(* inner one has to return first.  A DownloadManager is here what          *)
(* DownloadManager.tla says of it: a batch ends once and with its error if *)
(* it has one, unless an append() took the manager for idle (late), a      *)
(* redirection made it forget the error (forgiven) or a writer slept       *)
(* through its stop (asleep).  A script runs in a thread, and its end is   *)
(* handled there.                                                          *)
(***************************************************************************)
EXTENDS Integers, Sequences, SequencesExt, FiniteSets

CONSTANTS
  Components,
  MAX_DOWNLOADER,
  MaxPresses,       \* bound: launches of one component
  MaxHops           \* bound: redirections

ASSUME UpdatesAssumption ==
  /\ IsFiniteSet(Components)
  /\ MAX_DOWNLOADER \in Nat \ {0}
  /\ MaxPresses \in Nat \ {0}
  /\ MaxHops \in Nat

VARIABLES
  localRepos,       \* does not change: the components whose repository is on this machine
  calls,            \* queued calls of launchComponentInstallation_slot
  fetching,         \* slots that wait for the network, the innermost last
  m_updates,
  downloaderIndex,
  slots,            \* of each DownloadManager: finished() still to come, statusError;
                    \* asleep; history: late, forgiven
  installErr,       \* the number in install.err of each component, 0 without one
  presses,          \* history: launches of each component
  hops              \* history: redirections

vars == <<localRepos, calls, fetching, m_updates, downloaderIndex, slots, installErr, presses,
          hops>>

Slots == 0 .. MAX_DOWNLOADER - 1
Entries == DOMAIN m_updates

\* m_updates with another entry at an index.
With(i, e) == [j \in Entries |-> IF j = i THEN e ELSE m_updates[j]]

\* An entry, with the lambdas connected to finished() for it, the installations
\* they have queued, and the scripts that run.
NewEntry(c) == [name |-> c, slot |-> downloaderIndex, step |-> 0,
                lambdas |-> 0, posted |-> 0, running |-> 0]

Init ==
  /\ localRepos \in SUBSET Components
  /\ calls = <<>>
  /\ fetching = <<>>
  /\ m_updates = <<>>
  /\ downloaderIndex = 0
  /\ slots = [s \in Slots |-> [due |-> 0, err |-> 0, asleep |-> FALSE,
                            late |-> FALSE, forgiven |-> FALSE]]
  /\ installErr = [c \in Components |-> 0]
  /\ presses = [c \in Components |-> 0]
  /\ hops = 0

-----------------------------------------------------------------------------
\* getInstallationError of an entry.
ErrorOf(e) ==
  CASE e.step = 1 -> slots[e.slot].err
    [] e.step >= 2 -> installErr[e.name]
    [] OTHER -> 0

MutantLastEntry(c) == {i \in Entries : i = Len(m_updates) /\ m_updates[i].name = c}

\* The entries of a component: the code takes the first.
Found(c) == {i \in Entries : m_updates[i].name = c}

\* The player accepts the dialog.  Whether the button shows "Update ?" or
\* "Retry ?" was polled, up to a second before the dialog opened, and is not
\* tested again: by then anything may have happened.
Press(c) ==
  /\ presses[c] < MaxPresses
  /\ calls' = Append(calls, c)
  /\ presses' = [presses EXCEPT ![c] = presses[c] + 1]
  /\ UNCHANGED <<localRepos, fetching, m_updates, downloaderIndex, slots, installErr, hops>>

\* The release is not in the list any more, or its local repository holds no
\* installation script: then the logs of the last one are gone as well.
NoSuchVersion ==
  /\ calls # <<>>
  /\ calls' = Tail(calls)
  /\ \/ UNCHANGED installErr
     \/ /\ Head(calls) \in localRepos
        /\ installErr' = [installErr EXCEPT ![Head(calls)] = 0]
  /\ UNCHANGED <<localRepos, fetching, m_updates, downloaderIndex, slots, presses, hops>>

\* The logs of the last installation are removed, the version script fetched.
FetchVersion ==
  /\ calls # <<>>
  /\ Head(calls) \notin localRepos
  /\ fetching' = Append(fetching, Head(calls))
  /\ installErr' = [installErr EXCEPT ![Head(calls)] = 0]
  /\ calls' = Tail(calls)
  /\ UNCHANGED <<localRepos, m_updates, downloaderIndex, slots, presses, hops>>

\* No installation script, or no version to be read.
NothingToInstall ==
  /\ fetching # <<>>
  /\ fetching' = Front(fetching)
  /\ UNCHANGED <<localRepos, calls, m_updates, downloaderIndex, slots, installErr,
                 presses, hops>>

MutantNoWrap(n) == n + 1

NextSlot(n) == (n + 1) % MAX_DOWNLOADER

First(c) == CHOOSE i \in Found(c) : \A j \in Found(c) : i <= j

\* The entry of the component, made or reset.
EntryOf(c) ==
  IF Found(c) = {} THEN NewEntry(c) ELSE [m_updates[First(c)] EXCEPT !.step = 0]

Follow(c, entry) ==
  IF Found(c) = {}
  THEN /\ m_updates' = Append(m_updates, entry)
       /\ downloaderIndex' = NextSlot(downloaderIndex)
  ELSE /\ m_updates' = With(First(c), entry)
       /\ UNCHANGED downloaderIndex

MutantNeverConnected(e) == [e EXCEPT !.step = 1]

\* One more lambda is connected; those of earlier launches stay.
Connect(e) == [e EXCEPT !.step = 1, !.lambdas = e.lambdas + 1]

\* clear(), and an idle manager gets a batch.  A busy one gets the files behind
\* those it has, or arms a timer beside its last file; one that is asleep may
\* stay so.
GivenFiles(slot) ==
  IF slot.due = 0
  THEN {[slot EXCEPT !.due = 1, !.err = 0]}
  ELSE {[slot EXCEPT !.err = 0], [slot EXCEPT !.err = 0, !.asleep = FALSE],
        [slot EXCEPT !.due = @ + 1, !.err = 0, !.late = TRUE]}

\* A remote repository: the slot is cleared and given the files.
LaunchDownload ==
  /\ fetching # <<>>
  /\ LET entry == EntryOf(Last(fetching)) IN
       /\ Follow(Last(fetching), Connect(entry))
       /\ \E slot \in GivenFiles(slots[entry.slot]) :
            slots' = [slots EXCEPT ![entry.slot] = slot]
  /\ fetching' = Front(fetching)
  /\ UNCHANGED <<localRepos, calls, installErr, presses, hops>>

StartScript(e) == [e EXCEPT !.step = 2, !.running = e.running + 1]

\* A local repository: the logs are removed and the scripts copied without
\* waiting, and the installation starts at once.
LaunchLocal ==
  /\ calls # <<>>
  /\ Head(calls) \in localRepos
  /\ installErr' = [installErr EXCEPT ![Head(calls)] = 0]
  /\ Follow(Head(calls), StartScript(EntryOf(Head(calls))))
  /\ calls' = Tail(calls)
  /\ UNCHANGED <<localRepos, fetching, slots, presses, hops>>

-----------------------------------------------------------------------------
FileFails(s) ==
  /\ ~ slots[s].asleep
  /\ slots[s].due > 0 \/ slots[s].late
  /\ slots' = [slots EXCEPT ![s].err = 1]
  /\ UNCHANGED <<localRepos, calls, fetching, m_updates, downloaderIndex, installErr,
                 presses, hops>>

\* A redirection resets the error; that of the last file arms a timer, and so
\* does that of a reply which outlived its batch after an error.
FileRedirected(s) ==
  /\ hops < MaxHops
  /\ ~ slots[s].asleep
  /\ \E again \in IF slots[s].due > 0 THEN {0, 1} ELSE IF slots[s].err > 0 THEN {1} ELSE {} :
       slots' = [slots EXCEPT ![s].due = @ + again,
                              ![s].err = 0,
                              ![s].late = (@ \/ again = 1),
                              ![s].forgiven = (@ \/ slots[s].err > 0)]
  /\ hops' = hops + 1
  /\ UNCHANGED <<localRepos, calls, fetching, m_updates, downloaderIndex, installErr, presses>>

\* A writer sleeps through its stop: the next file is never started.
WriterSleeps(s) ==
  /\ slots[s].due > 0
  /\ slots' = [slots EXCEPT ![s].asleep = TRUE]
  /\ UNCHANGED <<localRepos, calls, fetching, m_updates, downloaderIndex, installErr,
                 presses, hops>>

MutantErrorNotChecked(s) ==
  [i \in Entries |-> IF m_updates[i].slot = s
                     THEN [m_updates[i] EXCEPT !.posted = @ + m_updates[i].lambdas]
                     ELSE m_updates[i]]

\* Each lambda queues an installation, unless the batch had an error: then
\* nothing tells it but the slot's statusError.
Notified(s) ==
  [i \in Entries |-> IF m_updates[i].slot = s /\ slots[s].err = 0
                     THEN [m_updates[i] EXCEPT !.posted = @ + m_updates[i].lambdas]
                     ELSE m_updates[i]]

SlotFinished(s) ==
  /\ slots[s].due > 0
  /\ ~ slots[s].asleep
  /\ slots' = [slots EXCEPT ![s].due = @ - 1]
  /\ m_updates' = Notified(s)
  /\ UNCHANGED <<localRepos, calls, fetching, downloaderIndex, installErr, presses, hops>>

\* A queued installation.
Install(i) ==
  /\ m_updates[i].posted > 0
  /\ m_updates' = With(i, StartScript([m_updates[i] EXCEPT !.posted = @ - 1]))
  /\ UNCHANGED <<localRepos, calls, fetching, downloaderIndex, slots, installErr,
                 presses, hops>>

\* A script writes install.err: an error, or a wish for a restart.
ScriptReports(i) ==
  /\ m_updates[i].running > 0
  /\ \E n \in {1, -1} : installErr' = [installErr EXCEPT ![m_updates[i].name] = n]
  /\ UNCHANGED <<localRepos, calls, fetching, m_updates, downloaderIndex, slots, presses, hops>>

\* ScriptManagerThread::finished, which tests the error as the step is by then.
ScriptEnds(i) ==
  /\ m_updates[i].running > 0
  /\ \E exitOk \in BOOLEAN :
       m_updates' = With(i, [m_updates[i] EXCEPT
         !.running = @ - 1,
         !.step = IF exitOk /\ ErrorOf(m_updates[i]) <= 0 THEN 3 ELSE 4])
  /\ UNCHANGED <<localRepos, calls, fetching, downloaderIndex, slots, installErr,
                 presses, hops>>

Progress ==
  \/ NoSuchVersion
  \/ FetchVersion
  \/ NothingToInstall
  \/ LaunchDownload
  \/ LaunchLocal
  \/ \E s \in Slots : SlotFinished(s)
  \/ \E i \in Entries : Install(i) \/ ScriptEnds(i)

Next ==
  \/ \E c \in Components : Press(c)
  \/ \E s \in Slots : FileFails(s) \/ FileRedirected(s) \/ WriterSleeps(s)
  \/ \E i \in Entries : ScriptReports(i)
  \/ Progress

Spec == Init /\ [][Next]_vars

\* The event loops run, a fetch has a timeout of 10 s, scripts end, and batches,
\* but for what DownloadManager.tla says.
FairSpec == Spec /\ WF_vars(Progress)

-----------------------------------------------------------------------------
\* m_updates and the slots keep their types, within the bound on presses.
TypeOK ==
  /\ localRepos \subseteq Components
  /\ calls \in Seq(Components)
  /\ fetching \in Seq(Components)
  /\ downloaderIndex \in Slots
  /\ m_updates \in Seq([name : Components, slot : Slots, step : 0 .. 4,
                        lambdas : Nat, posted : Nat, running : Nat])
  /\ slots \in [Slots -> [due : Nat, err : {0, 1}, asleep : BOOLEAN, late : BOOLEAN,
                         forgiven : BOOLEAN]]
  /\ installErr \in [Components -> {0, 1, -1}]
  /\ presses \in [Components -> 0 .. MaxPresses]
  /\ hops \in 0 .. MaxHops

\* However the slots of several launches nest in each other's event loop, a
\* component has one entry, and a DownloadManager that no other uses as long as
\* there are enough of them.
OneEntry ==
  \A i, j \in Entries : i # j =>
    /\ m_updates[i].name # m_updates[j].name
    /\ Len(m_updates) <= MAX_DOWNLOADER => m_updates[i].slot # m_updates[j].slot

LaunchedOnce(e) == presses[e.name] = 1 /\ Cardinality(Components) <= MAX_DOWNLOADER

\* Whatever the launches and retries of other components, an installation script
\* runs once, over files that are all there and not downloaded again; redirections
\* change nothing, unless that of the last file, or the end of a reply after its
\* batch, gives a second finished(), or an error is forgotten.
InstallsWhatIsThere ==
  \A e \in Range(m_updates) :
    LaunchedOnce(e) /\ ~ slots[e.slot].late /\ ~ slots[e.slot].forgiven /\ e.running > 0 =>
      /\ e.running = 1 /\ e.posted = 0
      /\ slots[e.slot].due = 0 /\ slots[e.slot].err = 0

\* The player sees an end: done, an issue, or the error of the download.
Settled(c) ==
  /\ c \notin Range(calls) \cup Range(fetching)
  /\ \A i \in Found(c) : \/ m_updates[i].step \in {3, 4}
                         \/ ErrorOf(m_updates[i]) > 0

Sleeps(c) == \E i \in Found(c) : slots[m_updates[i].slot].asleep

\* Each launch comes to an end the player can see, retries included, or back to
\* the button when there is nothing to install; unless a writer sleeps through
\* its stop, which only another launch can mend.
InstallationEnds == \A c \in Components : presses[c] > 0 ~> Settled(c) \/ Sleeps(c)
=============================================================================
