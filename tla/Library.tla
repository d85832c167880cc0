-------------------------------- MODULE Library --------------------------------
(***************************************************************************)
(* From the scan to the launch: a game that is shown is launched with an   *)
(* emulator of the collection it has kept.                                 *)
(***************************************************************************)
EXTENDS SearchContext, EmulatorSelection, Functions

CONSTANTS
  EmulatorsOf,      \* the emulators of each collection
  SuffixOf,         \* the suffix of each file
  Confs,            \* what recalbox.conf may say of a system
  Hosts,            \* Unset, or what a netplay host says it plays with
  CommandsOf        \* the launch commands of each collection

\* A command is told by the placeholders it holds.  Each emulator has a name, a core
\* and a priority; a collection may have none.
Placeholders == {"file.path", "emulator.name", "emulator.core"}

ASSUME LibraryAssumption ==
  /\ \A c \in Collections :
       LET list == EmulatorsOf[c]
       IN  /\ list \in Seq(Range(list))
           /\ \A i \in DOMAIN list :
                /\ {list[i].name, list[i].core} \cap {Unset, Undefined} = {}
                /\ list[i].priority \in Int
  /\ \A c \in Collections : CommandsOf[c] \subseteq SUBSET Placeholders
  /\ Unset \in Hosts

VARIABLE launched   \* the last launch

vars == <<scanVars, launched>>

Init ==
  /\ Empty
  /\ launched = Unset

\* filesConst().first(): the suffix is that of the game's first file.
First(g) == CHOOSE x \in m_game_entries[g] : \A y \in m_game_entries[g] : x <= y

\* A file of a shown game.  A command without placeholders is run as it is.
Launch(g, f) ==
  /\ shown
  /\ f \in m_game_entries[g]
  /\ \E conf \in Confs, host \in Hosts, command \in CommandsOf[collectionOf[g]] :
       launched' = [file |-> f, game |-> g, conf |-> conf, host |-> host, command |-> command,
                    pair |-> IF command = {} THEN Unset
                             ELSE Selected(EmulatorsOf[collectionOf[g]], conf, host, command,
                                           SuffixOf[First(g)])]
  /\ UNCHANGED scanVars

\* The last launch is forgotten when the library changes.
Forgotten == launched' = Unset

Next ==
  \/ \E c \in Collections : GetOrCreateCollection(c) /\ Forgotten
  \/ \E c \in Collections, f \in Files : ListFile(c, f) /\ Forgotten
  \/ \E c \in Collections : \E fs \in SUBSET Files \ {{}} : DescribeFiles(c, fs) /\ Forgotten
  \/ \E c \in Collections : DeclareCollection(c) /\ Forgotten
  \/ DeclareGame /\ Forgotten
  \/ \E f \in Files : DeclareFile(f) /\ Forgotten
  \/ MetadataFileEnds /\ Forgotten
  \/ ScheduleDownload /\ Forgotten
  \/ Finalize /\ Forgotten
  \/ Rescan /\ Forgotten
  \/ \E g \in Games, f \in Files : Launch(g, f)

Spec == Init /\ [][Next]_vars

-----------------------------------------------------------------------------
Pairs(c) == {[name |-> e.name, core |-> e.core] : e \in Range(EmulatorsOf[c])}

\* Why the pair that is looked up is none of the collection's.
NoneOf(c, conf, host, command) ==
  LET default == Default(EmulatorsOf[c])
  IN  \/ EmulatorsOf[c] = <<>>
      \/ host # Unset
      \/ ~ {"emulator.name", "emulator.core"} \subseteq command
      \/ /\ {conf.name, conf.core} # {Unset}
         /\ [name |-> IF conf.name = Unset THEN default.name ELSE conf.name,
             core |-> IF conf.core = Unset THEN default.core ELSE conf.core] \notin Pairs(c)

\* With autoselection the list is asked out of its range, at(-1), exactly for a
\* collection without emulators, a netplay client, a command without one of the two
\* placeholders and settings that make no pair of the list.  Every other launch is
\* with an emulator of the game's own collection, one that takes the launched file
\* if there is one and the game's first file is of its kind.
LaunchedIsPlayable ==
  launched # Unset /\ launched.command # {} /\ launched.conf.autoselection =>
    LET c    == collectionOf[launched.game]
        list == EmulatorsOf[c]
        s    == SuffixOf[launched.file]
    IN  /\ launched.pair = OutOfRange
             <=> NoneOf(c, launched.conf, launched.host, launched.command)
        /\ launched.pair # OutOfRange =>
             \E e \in Range(list) :
               /\ launched.pair = [name |-> e.name, core |-> e.core]
               /\ SuffixOf[First(launched.game)] = s /\ (\E x \in Range(list) : Supports(x, s))
                    => Supports(e, s)
=============================================================================
