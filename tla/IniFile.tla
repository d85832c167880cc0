-------------------------------- MODULE IniFile --------------------------------
(***************************************************************************)
(* IniFile, the class behind recalbox.conf, recalbox-boot.conf and the     *)
(* <rom>.recalbox.conf of a game: two maps in memory over a text file that *)
(* configgen, scripts and the player change as well.                       *)
(*                                                                         *)
(* Lines of different keys never meet, so a file is a sequence of lines    *)
(* for each key, "key=val" or ";key=val"; other lines stay as they are.    *)
(* The handlers run on the GUI thread, each to its end.                    *)
(***************************************************************************)
EXTENDS Naturals, Sequences, FiniteSetsExt

CONSTANTS
  Paths,        \* the files an object is moved over (LoadFromNewPath)
  Keys,
  ValuesOf,     \* the values each key may take
  Missing,      \* no entry in a map
  NoFile,       \* no such file
  Contents,     \* the lines each key may have in a file this program did not write
  Starts        \* the files, and the fallback, that may be there at first

Values == UNION {ValuesOf[k] : k \in Keys}

Lines == Seq([off : BOOLEAN, val : Values])

Files == {NoFile} \cup {f \in [Keys -> UNION {Contents[k] : k \in Keys}] :
                          \A k \in Keys : f[k] \in Contents[k]}

ASSUME ConfAssumption ==
  /\ Missing \notin Values
  /\ NoFile \notin [Keys -> Lines]
  /\ Contents \in [Keys -> SUBSET Lines]
  /\ Starts \subseteq [file : [Paths -> Files], fallback : Files]

VARIABLES
  mFilePath,
  mFallback,        \* the content of mFallbackFilePath
  mConfiguration,
  mPendingWrites,
  file,             \* the content of each path
  unsaved,          \* history: keys set since the last save that opened the file
                    \* and wrote all of it
  changed,          \* history: keys changed outside since they were read
  torn,             \* history: keys whose lines were cut off by a save
  onFallback        \* history: the values were read from the fallback

confVars == <<mConfiguration, mPendingWrites>>
pathVars == <<mFilePath, mFallback>>
historyVars == <<unsaved, changed, torn>>
vars == <<pathVars, confVars, file, historyVars, onFallback>>

On(v) == [off |-> FALSE, val |-> v]
Nothing == [k \in Keys |-> Missing]

-----------------------------------------------------------------------------
(***************************************************************************)
(* Reading and writing the file.                                           *)
(***************************************************************************)

\* Load: of several lines of a key the last one wins, comments are skipped.
ValueIn(lines) ==
  LET active == {i \in DOMAIN lines : ~ lines[i].off}
  IN  IF active = {} THEN Missing ELSE lines[Max(active)].val

\* The file, or the fallback when it is missing, or nothing.
Content(files, p) == IF files[p] # NoFile THEN files[p] ELSE mFallback

LoadFrom(files, p) ==
  LET content == Content(files, p)
  IN  IF content = NoFile THEN Nothing ELSE [k \in Keys |-> ValueIn(content[k])]

MutantCommentStays(lines, v) ==
  IF lines = <<>> THEN <<On(v)>> ELSE [lines EXCEPT ![1].val = v]

MutantValueForgotten(lines, v) ==
  IF lines = <<>> THEN <<On(Missing)>> ELSE [lines EXCEPT ![1] = On(Missing)]

\* The first line of the key, commented out or not, takes the value: the
\* others do not match any more, since `key` has become the line.
Replaced(lines, v) ==
  IF lines = <<>> THEN <<On(v)>> ELSE [lines EXCEPT ![1] = On(v)]

\* Files::LoadFile gives an empty content for a missing file, not the fallback.
SavedContent ==
  LET old == IF file[mFilePath] = NoFile THEN [k \in Keys |-> <<>>] ELSE file[mFilePath]
  IN  [k \in Keys |-> IF mPendingWrites[k] = Missing THEN old[k]
                      ELSE Replaced(old[k], mPendingWrites[k])]

Saved == IF mPendingWrites = Nothing THEN file
         ELSE [file EXCEPT ![mFilePath] = SavedContent]

\* The first lines of a key, the last of them perhaps not to its end.
CutLines(k, lines) ==
  {SubSeq(lines, 1, n) : n \in 0 .. Len(lines)}
    \cup {[SubSeq(lines, 1, n) EXCEPT ![n].val = v] : n \in 1 .. Len(lines), v \in ValuesOf[k]}

\* SaveFile empties the file and writes it: when the disk is full, or the power
\* goes, it ends anywhere.
CutShort ==
  {content \in [Keys -> UNION {CutLines(k, SavedContent[k]) : k \in Keys}] :
     \A k \in Keys : content[k] \in CutLines(k, SavedContent[k])}

\* What a save may leave: the new file, a part of it, or the old one when /boot
\* or / could not be remounted, or the file not be opened.
Outcomes ==
  {file, Saved} \cup
    IF mPendingWrites = Nothing THEN {}
    ELSE {[file EXCEPT ![mFilePath] = content] : content \in CutShort}

\* AsString and the others.
ExtractValue(k) ==
  IF mPendingWrites[k] # Missing THEN mPendingWrites[k] ELSE mConfiguration[k]

-----------------------------------------------------------------------------
Init ==
  /\ mFilePath \in Paths
  /\ \E start \in Starts : file = start.file /\ mFallback = start.fallback
  /\ mConfiguration = LoadFrom(file, mFilePath)
  /\ mPendingWrites = Nothing
  /\ unsaved = {} /\ changed = {} /\ torn = {}
  /\ onFallback = (file[mFilePath] = NoFile /\ mFallback # NoFile)

Set(k, v) ==
  /\ mPendingWrites' = [mPendingWrites EXCEPT ![k] = v]
  /\ unsaved' = unsaved \cup {k}
  /\ UNCHANGED <<pathVars, mConfiguration, file, changed, torn, onFallback>>

\* Meant to move the pending writes to mConfiguration, but under the name
\* "key=val": they stay, and are written again by each later save.
SaveWritten ==
  /\ file' = Saved
  /\ unsaved' = {}
  /\ changed' = {k \in changed : mPendingWrites[k] = Missing}
  /\ torn' = {k \in torn : mPendingWrites[k] = Missing}
  /\ UNCHANGED <<pathVars, confVars, onFallback>>

SaveCutShort ==
  /\ mPendingWrites # Nothing
  /\ \E content \in CutShort : file' = [file EXCEPT ![mFilePath] = content]
  /\ torn' = Keys
  /\ UNCHANGED <<pathVars, confVars, unsaved, changed, onFallback>>

\* The program goes on, and says "saved", whatever became of the file: a save
\* that could not open it changes nothing.
Save == SaveWritten \/ SaveCutShort \/ UNCHANGED vars

MutantReloadKeepsPendings(files, p) ==
  /\ mFilePath' = p
  /\ mConfiguration' = LoadFrom(files, p)
  /\ unsaved' = {} /\ changed' = {} /\ torn' = {}
  /\ onFallback' = (files[p] = NoFile /\ mFallback # NoFile)
  /\ UNCHANGED <<mPendingWrites, mFallback>>

\* Reload: both maps are cleared, and the file read.
Reload(files, p) ==
  /\ mFilePath' = p
  /\ mConfiguration' = LoadFrom(files, p)
  /\ mPendingWrites' = Nothing
  /\ unsaved' = {} /\ changed' = {} /\ torn' = {}
  /\ onFallback' = (files[p] = NoFile /\ mFallback # NoFile)
  /\ UNCHANGED mFallback

\* /api?conf=reload
ReloadAll == Reload(file, mFilePath) /\ UNCHANGED file

\* The settings of a game: only the object without a fallback moves.
LoadFromNewPath(p) ==
  /\ mFallback = NoFile
  /\ Reload(file, p)
  /\ UNCHANGED file

\* /api?conf=reload&parameter=k
ReloadValue(k) ==
  /\ LoadFrom(file, mFilePath)[k] # Missing
  /\ mConfiguration' = [mConfiguration EXCEPT ![k] = LoadFrom(file, mFilePath)[k]]
  /\ mPendingWrites' = [mPendingWrites EXCEPT ![k] = Missing]
  /\ unsaved' = unsaved \ {k}
  /\ changed' = changed \ {k}
  /\ torn' = torn \ {k}
  /\ UNCHANGED <<pathVars, file, onFallback>>

\* The program ends, and the next one reads: its destructor has saved, or the
\* power went before that or on the way.
Restart ==
  /\ file' \in Outcomes
  /\ Reload(file', mFilePath)

\* Another program rewrites the lines of a key of the file in use.
ChangeOutside(k) ==
  /\ file[mFilePath] # NoFile
  /\ \E lines \in Contents[k] : file' = [file EXCEPT ![mFilePath][k] = lines]
  /\ changed' = changed \cup {k}
  /\ UNCHANGED <<pathVars, confVars, unsaved, torn, onFallback>>

Next ==
  \/ \E k \in Keys : \E v \in ValuesOf[k] : Set(k, v)
  \/ Save
  \/ ReloadAll
  \/ \E p \in Paths : LoadFromNewPath(p)
  \/ \E k \in Keys : ReloadValue(k)
  \/ Restart
  \/ \E k \in Keys : ChangeOutside(k)

Spec == Init /\ [][Next]_vars

-----------------------------------------------------------------------------
\* The two maps and the files keep their shape.
TypeOK ==
  /\ mFilePath \in Paths
  /\ mFallback \in Files
  /\ mConfiguration \in [Keys -> Values \cup {Missing}]
  /\ mPendingWrites \in [Keys -> Values \cup {Missing}]
  /\ file \in [Paths -> {NoFile} \cup [Keys -> Lines]]
  /\ unsaved \subseteq Keys
  /\ changed \subseteq Keys
  /\ torn \subseteq Keys
  /\ onFallback \in BOOLEAN

\* A save replaces one line of a key: another one after it would win.
OneLine(k) == file[mFilePath] # NoFile => Len(file[mFilePath][k]) <= 1

\* What the program reads is what configgen, and the next start, find in the
\* file, for each key that was not set since the last save that was written, nor
\* changed by somebody else since it was read, nor cut off with the file and not
\* written again.  The settings of the fallback file are not among them: the
\* first save makes a file without them.
MemoryAgrees ==
  ~ onFallback =>
    \A k \in Keys \ (unsaved \cup changed \cup torn) :
      OneLine(k) => ExtractValue(k) = LoadFrom(file, mFilePath)[k]

\* The settings as their users see them: ConfStore says what a set, a save, a
\* reload, another file and a restart do to them.
Store == INSTANCE ConfStore WITH
  path    <- mFilePath,
  view    <- [k \in Keys |-> ExtractValue(k)],
  disk    <- [p \in Paths |-> LoadFrom(file, p)],
  exists  <- {p \in Paths : file[p] # NoFile},
  touched <- {k \in Keys : mPendingWrites[k] # Missing}

\* The two maps, the order of their reads and the lines of the file implement
\* the store: nothing set for one game gets into the file of another, and a key
\* that was not set is never written.
StoreSpec == Store!Spec
=============================================================================
