# pegasus-frontend in TLA+

pegasus-frontend (the pixL fork) shows a game library, starts the games and
comes back when they are over. This directory models the parts of its backend
where the order of events decides whether that works, checks the models with
TLC and proves the most important properties with TLAPS. Paths below are
relative to the repository's `src/backend` unless they say otherwise.

## 1. The system

Everything the user sees runs on the Qt GUI thread. Around it there are pool
threads (`QtConcurrent::run`) that scan for games and write favorites and play
times, a `QThread` per downloaded file, threads for scripts, and the games
themselves, which are other processes. Objects talk by signals and slots, direct
on one thread and queued between threads.

| component | state it keeps | operations | hard because | correct when |
|---|---|---|---|---|
| `model/Api`, `ProcessLauncher`, `FrontendLayer`: the launch session | the launched file, the QProcess, the python command and the pids it was listed with, the QML engine | launch, launch failed, teardown (now or by a deferred delete), run (blocking, waiting, or in the background with a timer), finish, rebuild | three objects wired by signals whose order matters; a failed start; configuration that changes in between; the end of a game deduced from `ps` | one session at a time, every slot finds what it asserts, the frontend and the keyboard always come back |
| `providers/ProviderManager`, `SearchContext`: the scan | a future, the target lists, pending downloads | run, finished, what is dropped meanwhile | the worker emits `finished()` before it ends; games are replaced under the UI | no launch, play or mark is lost; the scan ends |
| `providers/pegasus_favorites` | the pending and the active list, the file | a change, the worker, the read-back in a scan | one busy flag, changes that overtake each other, a file that is truncated and rewritten | one writer; the last list is what is in the file |
| `providers/pegasus_playtime` | the pending and the active entries, a database | game launched, game finished, the worker | a test outside the lock; a failing database | each play counted and saved once |
| `FileIOWriter` | a buffer, a running flag, a condition | writeData, stop, the thread | a flag tested without the mutex | what is written is what was given; the thread ends |
| `DownloadManager` | a queue, the current file, a status, a timer | append, start next, reply events, writer's end | four event sources start the next file; partial files; redirections; retries | files complete at `finished()`, which comes once, errors remembered, one file at a time |
| `model/internal/updates` | the installation step of each component, 20 download slots | fetch, launch an installation, the end of a download, of a script | nested event loops; slots reused; a retry over a running batch; lambdas connected again and again | each installation runs once, after its download, and its end is seen |
| `providers/*` with `SearchContext`: what a scan gathers | maps from collections to games and from games to files, the game a metadata file is at | list a file, describe files, declare collections, games and files, finalize | providers meet in the same maps in any order | no listed file is lost, nothing shown is empty |
| `ProcessLauncher`, `model/gaming/Game`: emulator selection | none | default, configured, of a netplay host, by suffix | indices and priorities mixed, an index that may be -1 | an emulator of the collection that takes the file, and no index out of range but for known causes |
| `model/internal/GamepadManager*` | four names for each pad: instance, index, player, line of `recalbox.conf`; the recording of a button | connect, remove, swap, record | pads come and go together, and while one is configured; SDL's list is ahead of the events | player, line and index agree; a button is recorded for the pad that sent it |
| `RecalboxConf`, `utils/IniFile` | keys and values, pending writes, the text file | set, save, reload, another file, crash | other programs write the same file; a save may fail or be cut short and nobody looks; one object serves all games | what is read is what a restart reads, and nothing gets into the file of another game |
| `model/memory/Memory` | the themes' values, a file | get, set | written at once by each set | what was set is there after a restart |
| `ScriptManager`, `HttpServer`, `ParametersList`, parsers, platform, audio, hardware | caches, tables | requests and wrappers | mostly I/O | not behaviour of their own |

The same list, with what is modelled of each, is under `components` in
`PROJECT.json`; everything that is hard to test, at its line, is under `hazards`.

## 2. Modules

| module | what it is |
|---|---|
| `GameLaunch` | the launch session: `Api`, `ProcessLauncher`, `FrontendLayer`, and as much of the scan, the play time provider, the terminal keyboard and the script events as a session touches |
| `LaunchSession` | what a player is promised about launching games; `GameLaunch` implements it |
| `GameLaunch_proofs` | theorems about `GameLaunch` |
| `Favorites` | the favorites provider with the scan that reads its file |
| `PlaytimeStats` | the play time provider |
| `Providers_proofs` | theorems about these two |
| `FileIOWriter`, `FileIOWriter_proofs` | the writer thread of a download; theorems about it |
| `BytePipe` | what a download wants from that thread; `FileIOWriter` implements it |
| `DownloadManager`, `DownloadManager_proofs` | the download queue, with a writer reduced to what `FileIOWriter` shows of it; theorems about it |
| `Updates`, `Updates_proofs` | installations, with a `DownloadManager` reduced to what `DownloadManager` shows of it; theorems about them |
| `SearchContext` | what the providers of a scan gather, and what is left of it |
| `EmulatorSelection` | the functions that choose an emulator and a core |
| `Library`, `Library_proofs` | the two together: from the scan to the launch of what it found; theorems about both |
| `IniFile`, `IniFile_proofs` | the settings files: two maps over the lines of a text file; theorems about them |
| `ConfStore` | what a settings object promises; `IniFile` implements it |
| `Gamepads`, `Gamepads_proofs` | `GamepadManager` and its SDL2 backend; theorems about them |
| `MC...` | the finite sets TLC is given |

A definition named `Mutant...` is not part of a model. It is a plausible bug in
the definition that follows it, and is used to see that a property can fail.

### GameLaunch

`gui` is the program counter of the GUI thread. Direct signal connections are
calls, so a chain such as `processLaunchOk` to `Api::onGameLaunchOk` to
`FrontendLayer::teardown` to `onTeardownComplete` cannot be interrupted by
another slot of the thread; but games, scripts and the scan worker go on, so the
chain is cut where the outside can be noticed: before teardown (`launchOk`),
before the command (`teardownComplete`), in a blocking call (`system`,
`waitForFinished`), and before the end is told (`processFinished`).

- `LaunchRequested`, `LaunchFailed`: `GameFile::launch`, the early return of
  `onGameFileLaunchRequested` (Api.cpp 107-114), `onLaunchRequested` and
  `runProcess`. A launch command is "python" (remembered, run after teardown),
  "program" (run by QProcess) or "missing" (QProcess cannot start it). An empty
  command ends in the same error without the keyboard and is not a kind of its own.
- `LaunchOk`: `onGameLaunchOk`, then `teardown`, which emits `teardownComplete`
  itself or leaves it to the destruction of the engine (`EngineDestroyed`).
- `RunPythonInBackground`, `RunPythonAndWait`, `WaitForProgram`,
  `BlockingCallReturns`, `CheckPidStatus`: the three ways of
  `onTeardownComplete`, and the timer.
- `ProcessFinished`: `onGameFinished`, then `rebuild`.
- `StartScanning` ... `OnSearchFinished`: the future is still running for an
  instant after the games are shown (ProviderManager.cpp 145), so plays and
  launches of that instant are dropped by lines 177 and 186.

`m_last_launch_time` is reduced to whether it was ever set and whether by this
session. The two keys of `recalbox.conf` may change whenever the GUI thread is
idle: both are read anew by each slot, and the model would find a session that
is torn down under one value and run under another.

Two constants say how far the pid listing of a background game can be trusted.
`Scripts` are python processes that are not games; `PsSeesChild` says that
the shell has become python by the time `ps` runs. With `Scripts = {}` and
`PsSeesChild` the listing is what its author meant. Pids
grow and are not reused, one is never the end of another's digits (the listings
are compared as text), and `ps -e` prints the names of programs without their
arguments, so that the `grep` does not list itself.

### Favorites

A list is the set of its lines. The busy flag is `m_active_task`, as in the code,
and `writer` says what each thread of the pool really does. `Open` truncates, one
line is written at a time, and `Restart` is a power cut at any moment; then the
file is all there is. A scan (`StartScanning`, `Run`, `OnSearchFinished`,
`FutureFinished`) reads the file without the lock, also in the middle of a write.

### PlaytimeStats

A play is the number of its `onGameFinished`. The loop of the worker is cut at
the test without the lock, the update of the model, the database transaction and
the locked hand-over. A game may end at any moment; `gaps` counts those that ended
in a gap, between the hand-over of an empty list and the next test, where
`onGameFinished` starts a worker beside the one that is there. `Save` takes any
part of the entries: a path without an id (line 278), a row that is not inserted
(136) and a commit that fails (282) pass in silence, and `refused` has the plays
they concern. `DbFails` is the way out of the loop (265, 272) with the entries
still in the list.

### FileIOWriter and DownloadManager

`FileIOWriter` has one step per lock section, test and write. `DownloadManager`
uses a smaller writer (`opening`, `running`, `finished`, and `stuck` when it slept
through `stop()`), and counts units of data. `starting` is set from the call of
`startNextDownload` to its return, so that its recursion over files that are
already there is a step per file; nothing else of the GUI thread runs meanwhile.
A server may ignore a Range header, fail at any moment, or redirect, and the target
may redirect again; a file may turn out not to be writable.

A batch is appended at any moment. The menu offers the retry as soon as one file
has failed (`statusError` is what it shows, UpdatesMain.qml 276, 340), and the slot
then calls `clear()`, which leaves the queue as it is, and `append()` over the batch
that still runs (Updates.cpp 644, 645). `append()` takes an empty queue for an idle
manager and arms the timer, which the last file of a batch does not deserve: `late`
remembers that this happened, be it by a retry or by the redirection of the last
file. A timer then fires beside a file in progress (`overlap`), and the members
`m_file`, `m_fileWriter` and `currentDownload` pass to the next file while reply and
writer of the last one live. They become strays: what a stray reply delivers goes
to the new writer, its end stops it, and the end of a stray writer is handled as
that of the new one (`StrayReadyRead`, `StrayFinished`, `StrayWriteFinished`).
A reply whose file could not be opened becomes one too, because `writeFinished` only
calls `deleteLater` for it (338): its signals reach the next file until then
(`StrayDeleted`), which `strayed` remembers. `forgiven` says that a redirection has
reset the error of another file (312), or kept a file of the wrong size from being
one (330).

The properties name these as their exceptions. Left out is the end of a stray
writer after `currentDownload` was deleted, where `writeFinished` reads a dangling
pointer (330). A file left over that is larger than the release's passes for
complete, by the test of 213, and `CompleteWhenOk` says so.

### Updates

`launchComponentInstallation_slot` waits for the version script in an event loop
of its own (Updates.cpp 587). Everything else runs meanwhile, the slot of another
component included, and loops end innermost first: `fetching` is the stack of the
slots that wait. `calls` are the queued invocations of the slot. An entry of
`m_updates` carries the number of lambdas connected to `finished()` for it, since
nothing disconnects those of earlier launches; of the installations they have
queued; and of the scripts that run. Both kinds of repository are there
(`localRepos`): a local one installs without waiting. A launch may come at any
moment: the button polls the error once a second, and neither it nor the dialog
tests it again when it is accepted (UpdatesMain.qml 63).

A download manager is the number of `finished()` it owes, its `statusError`, and
what `DownloadManager` says may happen to it: `GivenFiles` is an append to an idle
manager, to a busy one, or one that arms a second timer (`late`); `FileRedirected`
resets the error (`forgiven`), and that of the last file, or of a reply that
outlived its batch, owes one `finished()` more (`late`); `WriterSleeps` is a writer
that slept through `stop()`, after which nothing is owed until another launch wakes
it. That a batch ends otherwise is `BatchEnds`. A release that is installed has an
installation script (597-603), so no batch is empty.

Assumed: a script process starts (ScriptManager.h 437 does not look whether it
did).

### SearchContext, EmulatorSelection and Library

A provider is what it calls of the context: `ListFile` (ES2, Steam, LaunchBox, the
filters of a metadata file), `DescribeFiles` (Logiqx, Lutris, GOG, Android), the
declarations of a metadata file in their order, `ScheduleDownload`. Which
providers are enabled, and what they read, is arbitrary. `Finalize` is the four
clean-ups and `Game::finalize`; a game keeps one of its collections, the one the
hash map gives first. `m_filepath_to_gamefile` is the inverse of
`m_game_entries` and not kept twice. A file is a number, its place in the order of
names, because the launch takes the suffix of a game's first file.

`EmulatorSelection` has no state. A command is told by the placeholders it holds: a
name or a core is looked up only for its own, and a command without any is run as it
is (ProcessLauncher.cpp 153). `OutOfRange` is what `at(-1)` of a list gives. Only
`Es2Games.cpp` 103 gives a collection emulators; those of metadata files, Logiqx,
Steam and the others have an empty list. `Library` adds to the scan the launch of a
file that is shown, under any settings of its system, any command of its collection
and for any netplay host. Left out are the emulator that Singleplay sets for its one
game (`Game.cpp` 94), and `replace_variables` of the working directory.

### IniFile and ConfStore

Lines of different keys never meet, so a file is a sequence of lines for each
key, active or commented out. `Save` keeps what the code does: the first line of
the key takes the value, comment or not, and the pending writes stay, because they
are moved under the name `key=val` (IniFile.cpp 150). Its result and that of the
remount are ignored (159-163), so it has three ends: the file is written
(`SaveWritten`), emptied and written in part (`SaveCutShort`), or not opened.
`unsaved` are the keys set since the last save that was written, `torn` those whose
lines a save may have cut off since they were read: all of them, until they are
written again. `CutShort` cuts the lines of each key off on its own, the last one
perhaps not at its end, which is more than one place of the file. `Restart` is the
end of the program, by its destructor or by a power cut, in a save or not, and the
next start. `LoadFromNewPath` is the settings object of the games, `ChangeOutside`
is configgen or a script. `ConfStore` says the same with three maps: what is read,
what each file would give after a restart, which keys were set.

### Gamepads

SDL is the environment: `Plug` and `Unplug` change its list and put an event in
its queue, renumbering the indices that wait there. `DeviceAdded` and
`DeviceRemoved` are the handlers of the timer's poll down to the lines
`pegasus.pad<N>`: `Connected`, `Removed`, `Erased` and `Reindexed` are the slots
and loops they call, in their order. `remove_pad_by_iid` ends its loop with an
exception at a pad that was not added yet (`Known`); `Turns` is what each turn of
it leaves. If no pad has the index that changed, `bkOnIndexChanged` writes the line
of a `device_id` that was never set: `any` is whichever it is. `crossed` remembers
that a pad left while another waited to be added, or while two that had left
waited: the code then loses track of the indices, and the properties say nothing
(section 4).

`poll` takes inputs from the same queue as the events of devices, so `Record` may
come before any of them: that it may do so before the addition of its own pad is more
than the queue allows. `Finish` keeps the three names that `generate_mapping` mixes:
the map's entry at the recorded index, whose mapping the input is added to (`base`),
SDL's current list at that index, whose GUID the result gets (`to`), and the pad the
input came from (`from`). `disturbed` remembers that since the recording started its
pad, or one before it, has left.

## 3. Runs

All runs are exhaustive within their bounds. Most take seconds, `library`, `downloads`
and `conf` one to three minutes.

| run | bounds | what it shows |
|---|---|---|
| `game_launch` | one game per kind of command, trustworthy listings | `OnlyTheLaunchedGame`, `SessionEnds`, and `SessionSpec`: the slots implement `LaunchSession`, with its liveness |
| `game_launch_scripts` | the same, a script that comes and goes, `ps` too early | `AssertionsHold`, `NeverStranded`, `KeyboardHandedBack` do not need trustworthy listings |
| `favorites` | two games, two threads, a power cut anywhere, a file that cannot be opened | `OneWriter`, `ActiveMeansBusy`, `SavedWhenIdle`, `ChangeIsSaved` |
| `file_writer` | three pieces of data of two kinds | `NothingLost`, `DataGetsWritten`, `PipeSpec` |
| `playtime` | three plays, three threads, a database that fails or refuses | `OneWorker`, `SavedOnce`, `CountedOrWaiting`, `EveryPlayIsSaved` |
| `downloads` | a script without a size and a package with one, of two units each, every partial file; two batches, the second at any moment, and one redirection, or one batch and two; one less of either once two files are mixed up | `CompleteWhenOk`, `OneAtATime`, `OneEnd`, `BatchEnds` |
| `updates` | two components, local or remote, two managers, two launches of each; three launches and redirections altogether, two redirections at most | `OneEntry`, `InstallsWhatIsThere`, `InstallationEnds` |
| `conf` | two files, two keys, with no line, an active one, a commented one, or one of each; a fallback or none; no file both changed outside and cut short while in use | `MemoryAgrees`, `StoreSpec` |
| `library` | three files of two suffixes, a system with three emulators and a collection with none, two games, commands with all placeholders, one or none | `ShownIsWhole`, `FilesKept`, `LaunchedIsPlayable` |
| `gamepads` | four plugs, three pads at a time, three events in the queue, lines left by an earlier run | `PlayersAgree`, `ButtonsReachTheirPad`, `RecordedForThePad` |
| `file_writer_stop`, `playtime_gap` | as their passing runs | section 4 |

Most runs check the types of their module besides; that of the scan, `ScanTypeOK`, is proved.

Why the bounds are enough. One game per kind of command reaches each branch, and
because a session ends before the next, a second game of a kind adds nothing but
a name. Two games give the favorites four lists, enough for one to be written,
one to wait and one to overtake it. Two threads are enough for a second writer.
Three pieces of data let one be picked up, one be in the buffer, one come after
it. Three plays are one in work and two waiting, or two that end in a gap and start
three workers. A file of two units can be missing, cut
off, complete, or continued wrongly; of a batch of two the first file meets a queue
that is not empty and the last one an empty one, which is all that `append` looks at;
a second batch is the retry, before, in and after each of them, and a second
redirection follows the first or that of the other file. A third batch over two files
that are already mixed up is left to the proofs, which have no bound. With two
components a slot nests in another's loop and returns after it, and the second launch of each is the retry
that finds lambdas of the first; as many managers as components is what
`InstallsWhatIsThere` asks for, and more components than managers is left to the
proof. Two keys tell a key that was set from one that was not, two files that of
a game from that of the next; a commented line before an active one is the case
in which reading and writing disagree. A file cut off and changed by somebody else
is exempt from `MemoryAgrees` by either. Two games and three files let a game have
two files, two games compete for one, and a listed file be described by another
provider. Three pads give one of them a neighbour on each side, a fourth plug
lets one come back as another instance, and three events let two leave between two
polls and a third one after them. The loop of the automatic selection is compared
with what it is for over every list of up to three emulators and four priorities, by an assumption of
`MCLibrary` that TLC evaluates.

Deadlock is checked except where the system may stop: a writer thread that has
ended, all plays played, a queue whose writer sleeps for ever, all launches of
updates made, a scan that waits for a download nobody counts down, all plugs used.

### Fairness

`GameLaunch`: the event loop delivers what is posted, the scan worker runs, and a
player leaves a game at some time (`SessionEnds` says nothing of a game that is
played for ever). `Favorites`, `PlaytimeStats`: the pool runs its workers; plays
may end at `MaxPlays`. `FileIOWriter`: the thread is scheduled and the reply
ends, since requests have a transfer timeout of 15 s (DownloadManager.cpp 237).
`DownloadManager`: the event loop and the writer run, and again a reply ends.
`Updates`: the event loops run and return, the fetch of a script has a timeout of
10 s, a batch ends unless a writer sleeps (`BatchEnds`) and so does a script. A
writer that sleeps is not fair: `BatchEnds` and `InstallationEnds` end with it.
Nothing is assumed of users, scripts, the configuration or the network.

## 4. Where the code says one thing and does another

Two are runs that TLC finds violated.

- `file_writer_stop`: `stop()` between the test of `m_running` (FileIOWriter.cpp
  49) and the wait (54) wakes nobody, and the thread sleeps for ever.
  `DownloadManager` then never starts the next file.
- `playtime_gap`: two workers handle the same play when a game ends between the
  hand-over and the next test; a play is counted twice. The test that expects
  three plays (tests/backend/providers/playtime/test_Playtime.cpp 133) is marked
  as flaky.

The others were met while modelling. The models keep what the code does; a property
that such a behaviour breaks has it as a named exception, a history variable or a
state, and holds in every other case:

- Launch session: a game launched in the instant between `finished()` and the end
  of the scan's future ends with a launch time that is not valid
  (ProviderManager.cpp 177, `PlayHasLaunchTime` in `GameLaunch`). With
  user scripts listed, the end of one of them ends the session of a game that
  still runs (ProcessLauncher.cpp 572, whose comment regrets it). A program that
  cannot be started leaves `es_state` at the RunGame event, because
  `onProcessError` does not notify EndGame.
- Downloads: a redirection of the last file arms the timer again, and
  `finished()` comes while the target is downloaded (DownloadManager.cpp 134), and
  again after it; so does a retry during the last file, and the next file is then
  started over it: `m_file`, `m_fileWriter` and `currentDownload` are those of two
  files (`late`, `overlap`). A retry during an earlier file appends the batch once
  more behind what is left of it, for `clear()` leaves the queue. A redirection
  resets the error of an earlier file (312; `forgiven`). A file that cannot be opened
  leaves its reply running, which then delivers to the next file's writer
  (`strayed`). The part of a file that an error interrupted is removed by
  `writeFinished` although `downloadFinished` wants to keep it. A file left over that
  is too long passes for complete (213). Redirections have no limit.
- Play times: a row that the database refuses, or a commit that fails, loses plays
  without a retry (PlaytimeStats.cpp 136, 278, 282; `refused`).
- Updates: two `finished()` of a batch queue two installations (Updates.cpp 687), and
  an error that a redirection reset installs half a release (`late` and `forgiven` of
  its manager); a retry while the script of the first launch still runs runs a second
  one over it, and the end of the first is shown as "done" (Updates.h 39); a
  script that was killed counts as one that ended with 0.
- Settings: pending writes stay after a save, and are written again by later ones
  over what another program wrote since (IniFile.cpp 150); the first save of
  settings read from a fallback makes a file without the others (128); of an
  active line after a commented one, the save changes the comment and the load
  takes the other. A save that fails is logged as done (163), and a disk that is full
  costs keys that were not even set (Files.cpp 68-71; `unsaved`, `torn`).
- Scan: a scheduled download is never counted down, so a scan with one waits for
  ever (SearchContext.cpp 349; Steam, GOG and Android schedule them). A game
  declared without a collection and only described by Logiqx or Lutris is
  dropped.
- Emulators: the automatic selection compares an index with a priority
  (ProcessLauncher.cpp 118), and may skip a better emulator; it takes the suffix
  of the game's first file, whichever is launched. `at(-1)` (261) is asked for when a
  collection has no emulators, a setting names none of its list, the command lacks
  one of the two placeholders, or the player joins a netplay host, whose core is
  never looked up (236): `NoneOf` in `Library`, and the theorem says that there is no
  fifth cause.
- Gamepads: `m_recording` keeps an index that another pad's removal changes
  (GamepadManagerSDL2.cpp 1501, where a comment says "still to verify in other
  function also"), so that a button may be recorded for the neighbour; and an input
  handled while a removal waits is added to the mapping of one pad and given to
  another, because SDL's list is ahead (1807). An add that
  crosses a removal finds its index taken, `emplace` does not overwrite (1317), and
  a wrong line `pegasus.pad<N>` stays. When of three pads the second and then the
  first leave, the index map keeps a hole, and a recording for the third fails and
  goes on. When three leave between two polls, `bkOnIndexChanged` can take one that
  has left and is still in the model for the one whose index changed, as both have
  that index (GamepadManager.cpp 321); with five pads the buttons of one then reach
  another. If no pad has the index, the line of an uninitialized `device_id` is
  written (325). A swap does not swap the GUIDs of the devices (GamepadManager.cpp 202).
- Favorites: a rescan reads the file without the lock while a worker rewrites it
  (Favorites.cpp 69).

## 5. Proofs

TLAPS proves these for every value of the constants that satisfies the named
assumptions of the modules.

`GameLaunch_proofs`, from `CommandsAssumption` (each game has a known kind of
command) and `NoGameAssumption`, and for the abstract session `ScriptsAssumption`:

- `TypeCorrect`: `TypeOK` is inductive as it stands; it includes that
  `globalCommand` only holds python commands and `m_process` only other programs.
- `SlotsAssertions`, `PlayerNeverStranded`, `KeyboardIsReturned`: they are not
  inductive alone. `LaunchInv` adds `PendingInSession` (a slot runs, an engine's
  delete is posted or the timer is active for a launched game only, and never
  the last two at once) and `CommandKnown` (until a session is over, either the
  python command or the QProcess is set; without it nothing says that
  `WaitForProgram` finds a process). One step per action.
- `LaunchedGameOnly`, `ImplementsSession`: under `PidsTrusted`. A further
  invariant ties the listed pids and the running games to the launched game; each
  action then maps to an action of `LaunchSession` or a stutter.

`Providers_proofs` holds the theorems of the two providers that save what the player
does, as both have a queue that the GUI thread fills and a worker of the pool
empties. It extends the modules of both, so the names of `Favorites` that they would
share have a prefix. Of `Favorites`, for any pool and any number of games:

- `FavoritesTypeCorrect`, and `SingleWriter`, `BusyFlag`, `LastChangeIsSaved` from one
  invariant: at most one worker is busy, the flag is set exactly then, an
  idle provider has nothing pending, and what a worker has written so far is part
  of its list, which is the one requested unless another is pending.

Of `PlaytimeStats`, for any pool and any number of plays, which may end at any
moment:

- `OneWorkerAtATime`: workers are counted. A new one is started over an empty list
  only; the busy ones beside it are then at the test that ends them, in the gap, or
  past it because the list was taken from under them, and `Paid` says that a game
  that ended in a gap pays for each of these.
- `EachPlaySavedOnce`, `EachPlayCountedOnce`: as long as no game ended in a gap, one
  worker is at work (`Alone`), never over an empty list but at its test
  (`BusyOverWork`), and work without a worker is what a failing database left
  (`LeftByFailure`). `Ledger` then gives the play count and the rows of each play by
  the list it is in and by where the worker is.
- `TypeCorrect` needs no condition on the gap. Its bound on the play count is
  the hard part: a play is in the hands of each worker once at most, so it is
  counted no more often than there are workers (`PoolAssumption`: finitely many).

`FileIOWriter_proofs`, for any data and any bound on it:

- `NoDataLost`, `TypeCorrect`: `NothingLost` is an equation between sequences. It
  becomes inductive with `InHand` (the local of the thread is empty but on the way
  to a write), `LeftStopped` (the loop is left after a `stop()` only, so no data
  comes after the tail was taken) and `Opened`.
- `WriterIsAPipe`: the whole of `BytePipe`, as the specification has no fairness.
  `Write` and `WriteRemaining` map to `Store`, because what is in the file is
  then a prefix of what was given; `Close` maps to `End`, because `LeftStopped`
  and `NothingLost` make the file complete by then; the rest stutters.

`DownloadManager_proofs`, for any files, sizes, batches, retries and redirections,
and a bound on the batches:

- `TypeCorrect`, `FilesOneByOne`, `EndsOnce`: as long as `append` did not take the
  empty queue of a busy manager, and no stray reply was heard, `InOrder` holds: a
  timer is armed once at most, for an idle manager with a queue; nothing is in
  progress when the next file is started; and a batch that was told has left nothing.
- `ReleaseIsWhole`: as long as no two files were mixed up, the members are those of
  one file (`OneFile`); what it holds, what the writer has and what is to come make up
  its size (`Delivered`); and as long as no error is known or was forgotten, each
  wanted file is queued, in work or whole (`Accounted`).

`Updates_proofs`, for any finite set of components, any number of managers and of
launches:

- `TypeCorrect`, and `EntriesApart`: names differ and managers are given out in
  turn (`SlotsInTurn`), however the slots nest.
- `ScriptsRunOnceAndComplete`: of a component launched once, the call, the waiting
  slot and the entry exclude each other (`OnItsWay`), and a manager without an entry
  is as it was made (`FreshManagers`). Unless its manager was `late` or has `forgiven`,
  the entry has one lambda; batch, queued installation and script exclude each
  other, and the last two come without an error (`OneThing`).

`Library_proofs`, for any files, collections and games:

- `ScanTypeCorrect`, `LibraryIsWhole`, `NoListedFileLost`: no file has two games
  (`OneOwner`), what has files was created (`OnlyCreated`), a game with files has a
  collection, or is parentless, or is the one a metadata file is at (`Placed`), and
  a listed file is in a game of its collection that is not parentless
  (`ListedIsThere`): which is why `game_add_to` must end the parentless state.
- `SupportingIsSelected`, `LaunchIsPlayable`: the loop of the automatic selection is
  a function of the turn, and `BestAfterTurns` an invariant of its turns: what it
  has chosen so far takes the suffix, and it has chosen none only if none does yet.
  A turn that broke it would have a least number (`LeastNat`), which is how an
  induction is done without the library's rule. `LibraryAssumption` says of the
  lists that they are finite sequences, perhaps empty, whose emulators have names and
  cores. `NoneOf` names what the pair that is looked up is made of, so that the
  theorem is an equivalence: the index is out of range then and only then.

`IniFile_proofs`, for any keys, values and lines (`ConfAssumption`: a missing file is
not a file, and what others write into a file are lines):

- `TypeCorrect`, `MemoryIsTheFile`: an unsaved key is a pending one
  (`UnsavedIsPending`), and values come from the fallback only when marked so
  (`FallbackIsRead`). The rest is about lines: `Replaced` leaves the value last set
  where there was one line at most, which is the condition of `MemoryAgrees`.
- `ImplementsStore`: the whole of `ConfStore`. `Save` maps to the store's `Save`
  because, of each key, the value a restart reads is a function of its lines
  (`ValueIn`), and the keys the code writes are those the store has set; a save that
  was cut short maps to the store's own, which may lose anything of the file in use
  and nothing of another.

`Gamepads_proofs`, for any number of pads, of events that wait and of pads that come
and go:

- `TypeCorrect`: also after removals and adds have crossed.
- `EveryPlayerHasItsPad`, `EveryButtonReachesItsPad`, `EveryRecordingIsForItsPad`: the
  properties have the condition that they have not, and `PadsInv` asks for no more
  than the types then. Otherwise `Calm` holds: the queue has two removals at most
  and then additions, each with the index its pad has in SDL's list
  (`QueueInOrder`); the maps know the pads that were added and those that wait to
  be removed (`KnownOnes`), the model has the same (`Held`), and the lines are those
  of the model (`Linked`); the indices of the pads that were added are in the order
  of the list, each at its place unless a removal waits (`IndicesInOrder`). A
  recording that nothing disturbed is for the pad at its index in SDL's list and in
  the maps, behind which are all that wait to be removed (`Aimed`).
- The loop of `remove_pad_by_iid` is the hard part (`LoopAgrees`). It goes through the
  list upwards, and each turn finds the one pad of the model that has the old
  index: the pads behind have higher ones, and the pad that still waits to be
  removed another. A turn that broke it would have a least number, as in
  `Library_proofs`. With a third removal in the queue that is false, which is why
  `crossed` is part of the properties (section 4).

Only model-checked: the liveness properties (`SessionEnds`, `ChangeIsSaved`,
`DataGetsWritten`, `EveryPlayIsSaved`, `BatchEnds`, `InstallationEnds`, the
fairness of `SessionSpec`), which are out of the prover's reach.

## 6. Not modelled

The formats the game parsers read (what they call of the scan's context is
modelled), `Memory`, `ParametersList`, retro achievements, netplay rooms, audio,
hardware and storage: file formats, tables and wrappers, without an order of
events that could go wrong. QML, except the splash screen that keeps games from
being launched while they are loaded. Progress, speed and messages of downloads.
What a worker reads from a vector that another clears is undefined in C++;
`OneWorker` says when there are two workers that could, `playtime_gap` how it comes to it.

Of `Updates`, the list of repositories, the comparison of versions and the plugins:
requests and parsing. Of the gamepads, pads that cannot be opened, a recording that
the menu cancels, mapping files, layouts and names. Of the downloads, the end of a
stray writer after its reply was deleted. Of `PlaytimeStats`, the statistics read
back during a scan. Vendored libraries (rcheevos, libretro-common, zlib, 7zip and others) are most of the lines
under `src/backend/utils` and are not this program.

## 7. What could follow

1. The end of a script of `Updates` in its own thread, against the GUI thread that
   appends to `m_updates` (Updates.cpp 711): undefined behaviour, of which a model
   would have to list the outcomes.
2. The life of the `Game` objects across a rescan in a session with several windows,
   and the favorites and plays read back into new ones: `Library` composed with
   `Favorites` and `PlaytimeStats`.
3. Pure functions: the comparison of versions of `Updates` and the tokenizer of
   launch commands, each against a reference definition.
4. `Memory`, as a second and simpler implementation of `ConfStore`.
