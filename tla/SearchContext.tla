----------------------------- MODULE SearchContext -----------------------------
(***************************************************************************)
(* SearchContext: what the providers of a scan find is gathered in maps    *)
(* from collections to games and from games to files, cleaned up at the    *)
(* end, and given to the frontend.                                         *)
(*                                                                         *)
(* The providers run one after the other on the scan's thread; which of    *)
(* them are enabled, and what each reads, is arbitrary here.  They call    *)
(* the context in four ways: they list a file for a collection (ES2,       *)
(* Steam, LaunchBox, the filters of a metadata file), they describe files  *)
(* and leave their game where it is (Logiqx, Lutris, GOG, Android), they   *)
(* declare collections, games and files one after the other (a metadata    *)
(* file), or they schedule a download.                                     *)
(***************************************************************************)
EXTENDS Naturals, FiniteSets

CONSTANTS
  Files,            \* a file is its place in the order of names
  Collections,
  NoCollection,
  MaxGames          \* bound: Game objects made by a scan

ASSUME SearchAssumption ==
  /\ Files \subseteq Nat
  /\ NoCollection \notin Collections
  /\ MaxGames \in Nat

Games == 1 .. MaxGames
NoGame == 0

VARIABLES
  created,              \* how many Game objects there are
  m_collections,
  m_collection_games,
  m_parentless_games,
  m_game_entries,       \* and m_filepath_to_gamefile, which is its inverse
  m_pending_downloads,
  cur_game,             \* the ParserState of a metadata file
  all_colls,
  shown,                \* the scan is over, the maps are what the frontend has
  collectionOf,         \* the one collection each game keeps
  listed                \* history: the files listed for a collection

mapVars    == <<m_collection_games, m_parentless_games, m_game_entries>>
parserVars == <<cur_game, all_colls>>
endVars    == <<shown, collectionOf>>
scanVars   == <<created, m_collections, mapVars, m_pending_downloads, parserVars, endVars, listed>>

Empty ==
  /\ created = 0
  /\ m_collections = {}
  /\ m_collection_games = [c \in Collections |-> {}]
  /\ m_parentless_games = {}
  /\ m_game_entries = [g \in Games |-> {}]
  /\ m_pending_downloads = 0
  /\ cur_game = NoGame
  /\ all_colls = {}
  /\ shown = FALSE
  /\ collectionOf = [g \in Games |-> NoCollection]
  /\ listed = {}

Parsing == cur_game # NoGame \/ all_colls # {}

\* A provider that parses no metadata file is at work.
Searching == ~ shown /\ ~ Parsing

\* game_by_filepath and game_by_uri.
Owners(fs) == {g \in Games : m_game_entries[g] \cap fs # {}}

MutantStaysParentless(g) == UNCHANGED m_parentless_games

\* game_add_to: a game that belongs to a collection is not parentless any more.
HasParent(g) == m_parentless_games' = m_parentless_games \ {g}

-----------------------------------------------------------------------------
GetOrCreateCollection(c) ==
  /\ Searching
  /\ m_collections' = m_collections \cup {c}
  /\ UNCHANGED <<created, mapVars, m_pending_downloads, parserVars, endVars, listed>>

\* The game of the file, or else a new one, is added to the collection.
ListFile(c, f) ==
  /\ Searching
  /\ \E g \in Games :
       /\ \/ Owners({f}) = {g} /\ UNCHANGED created
          \/ Owners({f}) = {} /\ g = created + 1 /\ created' = g
       /\ m_game_entries' = [m_game_entries EXCEPT ![g] = @ \cup {f}]
       /\ m_collection_games' = [m_collection_games EXCEPT ![c] = @ \cup {g}]
       /\ HasParent(g)
  /\ m_collections' = m_collections \cup {c}
  /\ listed' = listed \cup {<<f, c>>}
  /\ UNCHANGED <<m_pending_downloads, parserVars, endVars>>

\* A new game is added to the collection, an old one stays where it is and is
\* given the other files; those of several games are left alone.
DescribeFiles(c, fs) ==
  /\ Searching
  /\ \/ \E g \in Games :
          /\ Owners(fs) = {g}
          /\ m_game_entries' = [m_game_entries EXCEPT ![g] = @ \cup fs]
          /\ UNCHANGED <<created, m_collection_games>>
     \/ \E g \in Games :
          /\ Owners(fs) = {}
          /\ g = created + 1
          /\ created' = g
          /\ m_game_entries' = [m_game_entries EXCEPT ![g] = fs]
          /\ m_collection_games' = [m_collection_games EXCEPT ![c] = @ \cup {g}]
  /\ m_collections' = m_collections \cup {c}
  /\ UNCHANGED <<m_parentless_games, m_pending_downloads, parserVars, endVars, listed>>

\* "collection:" in a metadata file.
DeclareCollection(c) ==
  /\ ~ shown
  /\ m_collections' = m_collections \cup {c}
  /\ all_colls' = all_colls \cup {c}
  /\ cur_game' = NoGame
  /\ UNCHANGED <<created, mapVars, m_pending_downloads, endVars, listed>>

\* "game:": it belongs to the collections declared so far, perhaps to none.
DeclareGame ==
  /\ ~ shown
  /\ created < MaxGames
  /\ created' = created + 1
  /\ cur_game' = created + 1
  /\ m_parentless_games' =
       IF all_colls = {} THEN m_parentless_games \cup {created + 1} ELSE m_parentless_games
  /\ m_collection_games' =
       [c \in Collections |->
          m_collection_games[c] \cup (IF c \in all_colls THEN {created + 1} ELSE {})]
  /\ UNCHANGED <<m_collections, m_game_entries, m_pending_downloads, all_colls, endVars, listed>>

\* "file:", unless the file is known already.
DeclareFile(f) ==
  /\ ~ shown
  /\ cur_game # NoGame
  /\ Owners({f}) = {}
  /\ m_game_entries' = [m_game_entries EXCEPT ![cur_game] = @ \cup {f}]
  /\ UNCHANGED <<created, m_collections, m_collection_games, m_parentless_games,
                 m_pending_downloads, parserVars, endVars, listed>>

MetadataFileEnds ==
  /\ Parsing
  /\ cur_game' = NoGame
  /\ all_colls' = {}
  /\ UNCHANGED <<created, m_collections, mapVars, m_pending_downloads, endVars, listed>>

\* Nothing counts it down again: the lines that did are commented out.
ScheduleDownload ==
  /\ Searching
  /\ m_pending_downloads' = 1
  /\ UNCHANGED <<created, m_collections, mapVars, parserVars, endVars, listed>>

-----------------------------------------------------------------------------
MutantEntrylessStay == Games \ m_parentless_games

\* Games without a collection, or without a file, are dropped.
Kept == {g \in Games \ m_parentless_games : m_game_entries[g] # {}}

\* finalize, once no download is pending: the games, then the collections left
\* without games are removed, and each game keeps one of its collections, the
\* first in the order of their addresses.
Finalize ==
  /\ Searching
  /\ m_pending_downloads = 0
  /\ m_collection_games' = [c \in Collections |-> m_collection_games[c] \cap Kept]
  /\ m_collections' = {c \in m_collections : m_collection_games'[c] # {}}
  /\ m_game_entries' = [g \in Games |-> IF g \in m_parentless_games THEN {} ELSE m_game_entries[g]]
  /\ m_parentless_games' = {}
  /\ LET Of(g) == {c \in Collections : g \in m_collection_games'[c]} IN
       collectionOf' \in {of \in [Games -> Collections \cup {NoCollection}] :
         \A g \in Games : IF Of(g) = {} THEN of[g] = NoCollection ELSE of[g] \in Of(g)}
  /\ shown' = TRUE
  /\ UNCHANGED <<created, m_pending_downloads, parserVars, listed>>

\* ApiObject::startScanning: the lists are cleared, a new context is made.
Rescan ==
  /\ shown
  /\ created' = 0
  /\ m_collections' = {}
  /\ m_collection_games' = [c \in Collections |-> {}]
  /\ m_parentless_games' = {}
  /\ m_game_entries' = [g \in Games |-> {}]
  /\ shown' = FALSE
  /\ collectionOf' = [g \in Games |-> NoCollection]
  /\ listed' = {}
  /\ UNCHANGED <<m_pending_downloads, parserVars>>

-----------------------------------------------------------------------------
ScanTypeOK ==
  /\ created \in 0 .. MaxGames
  /\ m_collections \subseteq Collections
  /\ m_collection_games \in [Collections -> SUBSET Games]
  /\ m_parentless_games \subseteq Games
  /\ m_game_entries \in [Games -> SUBSET Files]
  /\ m_pending_downloads \in 0 .. 1
  /\ cur_game \in Games \cup {NoGame}
  /\ all_colls \subseteq Collections
  /\ shown \in BOOLEAN
  /\ collectionOf \in [Games -> Collections \cup {NoCollection}]
  /\ listed \subseteq Files \X Collections

\* What the frontend relies on without a test, whichever providers met: each
\* game has a file and a collection that is shown and has it, each collection
\* has a game, and no file belongs to two games.
ShownIsWhole ==
  shown =>
    /\ \A c \in Collections : c \in m_collections <=> m_collection_games[c] # {}
    /\ \A c \in Collections : \A g \in m_collection_games[c] : m_game_entries[g] # {}
    /\ \A g \in Games : m_game_entries[g] # {} =>
         collectionOf[g] \in m_collections /\ g \in m_collection_games[collectionOf[g]]
    /\ \A g, h \in Games : g # h => m_game_entries[g] \cap m_game_entries[h] = {}

\* A file that a provider listed for a collection is shown in it, also when
\* another one had declared its game without a collection, or described it.
FilesKept ==
  shown => \A l \in listed : \E g \in m_collection_games[l[2]] : l[1] \in m_game_entries[g]
=============================================================================
