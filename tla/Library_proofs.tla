---------------------------- MODULE Library_proofs ----------------------------
(***************************************************************************)
(* What a scan shows is whole and loses no listed file, for any files,     *)
(* collections, emulators and number of games, and a game that is shown is *)
(* launched with an emulator of the collection it has kept.                *)
(*                                                                         *)
(* A fact about a list of emulators of any length is proved of the least   *)
(* index it fails at, which LeastNat names: there is none.                 *)
(***************************************************************************)
EXTENDS Library, WellFoundedInduction, TLAPS

(***************************************************************************)
(* The inductive invariant.                                                *)
(***************************************************************************)

\* A file belongs to one game at most.
OneOwner ==
  \A g, h \in Games : g # h => m_game_entries[g] \cap m_game_entries[h] = {}

\* A Game that was not made yet is nowhere.
OnlyCreated ==
  /\ cur_game <= created
  /\ \A g \in Games : g > created =>
       /\ m_game_entries[g] = {}
       /\ g \notin m_parentless_games
       /\ \A c \in Collections : g \notin m_collection_games[c]

\* While the scan runs, each game is parentless or in a collection, not both,
\* and each collection with games is known.
Placed ==
  ~ shown =>
    /\ \A g \in Games : g <= created =>
         g \in m_parentless_games \/ \E c \in Collections : g \in m_collection_games[c]
    /\ \A g \in m_parentless_games : \A c \in Collections : g \notin m_collection_games[c]
    /\ \A c \in Collections : m_collection_games[c] # {} => c \in m_collections
    /\ all_colls \subseteq m_collections

\* A listed file is in a game of the collection, before the clean-up as well.
ListedIsThere ==
  \A l \in listed : \E g \in m_collection_games[l[2]] : l[1] \in m_game_entries[g]

ParserAtRest == shown => ~ Parsing

ScanInv ==
  /\ ScanTypeOK
  /\ OneOwner
  /\ OnlyCreated
  /\ Placed
  /\ ListedIsThere
  /\ ParserAtRest
  /\ ShownIsWhole

-----------------------------------------------------------------------------
LEMMA InitScanInv == Init => ScanInv
<1> SUFFICES ASSUME Init PROVE ScanInv
  OBVIOUS
<1> USE SearchAssumption DEF Init, Empty
<1>1. ScanTypeOK
  <2>1. created \in 0 .. MaxGames /\ m_pending_downloads \in 0 .. 1
    OBVIOUS
  <2>2. /\ m_collection_games \in [Collections -> SUBSET Games]
        /\ m_game_entries \in [Games -> SUBSET Files]
        /\ collectionOf \in [Games -> Collections \cup {NoCollection}]
    OBVIOUS
  <2>3. /\ m_collections \subseteq Collections /\ m_parentless_games \subseteq Games
        /\ cur_game \in Games \cup {NoGame} /\ all_colls \subseteq Collections
        /\ shown \in BOOLEAN /\ listed \subseteq Files \X Collections
    OBVIOUS
  <2> QED
    BY <2>1, <2>2, <2>3 DEF ScanTypeOK
<1>2. OneOwner /\ OnlyCreated
  BY DEF OneOwner, OnlyCreated, Games, NoGame
<1>3. Placed
  BY DEF Placed, Games
<1>4. ListedIsThere /\ ParserAtRest /\ ShownIsWhole
  BY DEF ListedIsThere, ParserAtRest, ShownIsWhole
<1> QED
  BY <1>1, <1>2, <1>3, <1>4 DEF ScanInv

-----------------------------------------------------------------------------
(***************************************************************************)
(* One lemma per action of the scan.                                       *)
(***************************************************************************)

LEMMA GetOrCreateCollectionKeepsInv ==
  ASSUME ScanInv, NEW c \in Collections, GetOrCreateCollection(c)
  PROVE  ScanInv'
<1> USE SearchAssumption
       DEF ScanInv, GetOrCreateCollection, Searching, mapVars, parserVars, endVars
<1>1. ScanTypeOK' /\ OneOwner' /\ OnlyCreated'
  BY DEF ScanTypeOK, OneOwner, OnlyCreated
<1>2. Placed'
  BY DEF Placed, ScanTypeOK
<1>3. ListedIsThere' /\ ParserAtRest' /\ ShownIsWhole'
  BY DEF ListedIsThere, ParserAtRest, Parsing, ShownIsWhole
<1> QED
  BY <1>1, <1>2, <1>3

LEMMA ListFileKeepsInv ==
  ASSUME ScanInv, NEW c \in Collections, NEW f \in Files, ListFile(c, f)
  PROVE  ScanInv'
<1> USE SearchAssumption DEF ScanInv, Searching, endVars, parserVars
<1>1. PICK g \in Games :
        /\ \/ Owners({f}) = {g} /\ UNCHANGED created
           \/ Owners({f}) = {} /\ g = created + 1 /\ created' = g
        /\ m_game_entries' = [m_game_entries EXCEPT ![g] = @ \cup {f}]
        /\ m_collection_games' = [m_collection_games EXCEPT ![c] = @ \cup {g}]
        /\ m_parentless_games' = m_parentless_games \ {g}
  BY DEF ListFile, HasParent
<1>2. /\ ~ shown /\ shown' = shown /\ collectionOf' = collectionOf
      /\ m_collections' = m_collections \cup {c}
      /\ listed' = listed \cup {<<f, c>>}
      /\ cur_game' = cur_game /\ all_colls' = all_colls
      /\ m_pending_downloads' = m_pending_downloads
  BY DEF ListFile
<1>3. /\ created' \in 0 .. MaxGames /\ created <= created' /\ g <= created'
      /\ \A h \in Games : h <= created' => h <= created \/ h = g
      /\ \A h \in Games : h # g => f \notin m_game_entries[h]
  <2>1. \A h \in Games : h # g => f \notin m_game_entries[h]
    BY <1>1 DEF Owners
  <2>2. /\ created \in 0 .. MaxGames /\ MaxGames \in Nat /\ g \in 1 .. MaxGames
        /\ Owners({f}) = {g} => g <= created
    BY DEF Owners, ScanTypeOK, OnlyCreated, Games
  <2>3. \A h \in Games : h <= created' => h <= created \/ h = g
    BY <1>1, <2>2 DEF Games
  <2>4. created' \in 0 .. MaxGames /\ created <= created' /\ g <= created'
    <3>1. CASE Owners({f}) = {g} /\ created' = created
      BY <2>2, <3>1
    <3>2. CASE g = created + 1 /\ created' = g
      BY <2>2, <3>2
    <3> QED
      BY <1>1, <3>1, <3>2
  <2> QED
    BY <2>1, <2>3, <2>4
<1>4. ScanTypeOK'
  BY <1>1, <1>2, <1>3 DEF ScanTypeOK
<1>5. OneOwner'
  BY <1>1, <1>3 DEF OneOwner, ScanTypeOK
<1>6. OnlyCreated'
  BY <1>1, <1>2, <1>3 DEF OnlyCreated, ScanTypeOK, Games, NoGame
<1>7. Placed'
  BY <1>1, <1>2, <1>3 DEF Placed, ScanTypeOK
<1>8. ListedIsThere'
  BY <1>1, <1>2 DEF ListedIsThere, ScanTypeOK
<1>9. ParserAtRest' /\ ShownIsWhole'
  BY <1>2 DEF ParserAtRest, ShownIsWhole
<1> QED
  BY <1>4, <1>5, <1>6, <1>7, <1>8, <1>9

LEMMA DescribeFilesKeepsInv ==
  ASSUME ScanInv, NEW c \in Collections, NEW fs \in SUBSET Files \ {{}},
         DescribeFiles(c, fs)
  PROVE  ScanInv'
<1> USE SearchAssumption DEF ScanInv, Searching, endVars, parserVars
<1>1. PICK g \in Games :
        \/ /\ Owners(fs) = {g}
           /\ m_game_entries' = [m_game_entries EXCEPT ![g] = @ \cup fs]
           /\ UNCHANGED <<created, m_collection_games>>
        \/ /\ Owners(fs) = {}
           /\ g = created + 1
           /\ created' = g
           /\ m_game_entries' = [m_game_entries EXCEPT ![g] = fs]
           /\ m_collection_games' = [m_collection_games EXCEPT ![c] = @ \cup {g}]
  BY DEF DescribeFiles
<1>2. /\ ~ shown /\ shown' = shown /\ collectionOf' = collectionOf
      /\ m_collections' = m_collections \cup {c}
      /\ m_parentless_games' = m_parentless_games
      /\ listed' = listed
      /\ cur_game' = cur_game /\ all_colls' = all_colls
      /\ m_pending_downloads' = m_pending_downloads
  BY DEF DescribeFiles
<1>3. \A h \in Games : h # g => m_game_entries[h] \cap fs = {}
  BY <1>1 DEF Owners
<1>4. CASE Owners(fs) = {g} /\ created' = created /\ m_collection_games' = m_collection_games
           /\ m_game_entries' = [m_game_entries EXCEPT ![g] = @ \cup fs]
  <2>1. g <= created
    BY <1>4 DEF Owners, OnlyCreated, ScanTypeOK, Games
  <2>2. ScanTypeOK'
    BY <1>2, <1>4 DEF ScanTypeOK
  <2>3. OneOwner'
    BY <1>3, <1>4 DEF OneOwner, ScanTypeOK
  <2>4. OnlyCreated'
    BY <1>2, <1>4, <2>1 DEF OnlyCreated, ScanTypeOK, Games, NoGame
  <2>5. Placed'
    BY <1>2, <1>4 DEF Placed
  <2>6. ListedIsThere'
    BY <1>2, <1>4 DEF ListedIsThere, ScanTypeOK
  <2> QED
    BY <1>2, <2>2, <2>3, <2>4, <2>5, <2>6 DEF ParserAtRest, ShownIsWhole
<1>5. CASE /\ Owners(fs) = {}
           /\ g = created + 1
           /\ created' = g
           /\ m_game_entries' = [m_game_entries EXCEPT ![g] = fs]
           /\ m_collection_games' = [m_collection_games EXCEPT ![c] = @ \cup {g}]
  <2>1. /\ created' \in 0 .. MaxGames /\ g <= created' /\ g > created
        /\ m_game_entries[g] = {}
        /\ g \notin m_parentless_games
        /\ \A h \in Games : h <= created' => h <= created \/ h = g
    BY <1>5 DEF OnlyCreated, ScanTypeOK, Games
  <2>2. ScanTypeOK'
    BY <1>2, <1>5, <2>1 DEF ScanTypeOK
  <2>3. OneOwner'
    BY <1>3, <1>5 DEF OneOwner, ScanTypeOK
  <2>4. OnlyCreated'
    BY <1>2, <1>5, <2>1 DEF OnlyCreated, ScanTypeOK, Games, NoGame
  <2>5. Placed'
    BY <1>2, <1>5, <2>1 DEF Placed, ScanTypeOK
  <2>6. ListedIsThere'
    BY <1>2, <1>5, <2>1 DEF ListedIsThere, ScanTypeOK
  <2> QED
    BY <1>2, <2>2, <2>3, <2>4, <2>5, <2>6 DEF ParserAtRest, ShownIsWhole
<1> QED
  BY <1>1, <1>4, <1>5

LEMMA DeclareCollectionKeepsInv ==
  ASSUME ScanInv, NEW c \in Collections, DeclareCollection(c)
  PROVE  ScanInv'
<1> USE SearchAssumption DEF ScanInv, DeclareCollection, mapVars, endVars
<1>1. ScanTypeOK' /\ OneOwner' /\ OnlyCreated'
  BY DEF ScanTypeOK, OneOwner, OnlyCreated, NoGame
<1>2. Placed'
  BY DEF Placed, ScanTypeOK
<1>3. ListedIsThere' /\ ParserAtRest' /\ ShownIsWhole'
  BY DEF ListedIsThere, ParserAtRest, ShownIsWhole
<1> QED
  BY <1>1, <1>2, <1>3

LEMMA DeclareGameKeepsInv ==
  ASSUME ScanInv, DeclareGame
  PROVE  ScanInv'
<1> USE SearchAssumption DEF ScanInv, endVars
<1> DEFINE g == created + 1
<1>1. /\ ~ shown /\ shown' = shown /\ collectionOf' = collectionOf
      /\ created' = g /\ cur_game' = g
      /\ m_collections' = m_collections /\ all_colls' = all_colls
      /\ m_game_entries' = m_game_entries /\ listed' = listed
      /\ m_pending_downloads' = m_pending_downloads
  BY DEF DeclareGame
<1>2. /\ g \in Games /\ created' \in 0 .. MaxGames /\ g > created
      /\ m_game_entries[g] = {}
      /\ g \notin m_parentless_games
      /\ \A c \in Collections : g \notin m_collection_games[c]
      /\ \A h \in Games : h <= created' => h <= created \/ h = g
  BY <1>1 DEF DeclareGame, OnlyCreated, ScanTypeOK, Games
<1>3. /\ m_parentless_games' =
           IF all_colls = {} THEN m_parentless_games \cup {g} ELSE m_parentless_games
      /\ m_collection_games' =
           [c \in Collections |-> m_collection_games[c] \cup (IF c \in all_colls THEN {g} ELSE {})]
  BY DEF DeclareGame
<1> HIDE DEF g
<1>4. ScanTypeOK'
  BY <1>1, <1>2, <1>3 DEF ScanTypeOK
<1>5. OneOwner'
  BY <1>1 DEF OneOwner
<1>6. OnlyCreated'
  BY <1>1, <1>2, <1>3 DEF OnlyCreated, ScanTypeOK, Games
<1>7. Placed'
  BY <1>1, <1>2, <1>3 DEF Placed, ScanTypeOK
<1>8. ListedIsThere'
  BY <1>1, <1>3 DEF ListedIsThere, ScanTypeOK
<1> QED
  BY <1>1, <1>4, <1>5, <1>6, <1>7, <1>8 DEF ParserAtRest, ShownIsWhole

LEMMA DeclareFileKeepsInv ==
  ASSUME ScanInv, NEW f \in Files, DeclareFile(f)
  PROVE  ScanInv'
<1> USE SearchAssumption DEF ScanInv, DeclareFile, endVars, parserVars
<1>1. /\ cur_game \in Games /\ cur_game <= created
      /\ \A h \in Games : f \notin m_game_entries[h]
  BY DEF ScanTypeOK, OnlyCreated, Owners
<1>2. ScanTypeOK'
  BY <1>1 DEF ScanTypeOK
<1>3. OneOwner'
  BY <1>1 DEF OneOwner, ScanTypeOK
<1>4. OnlyCreated'
  BY <1>1 DEF OnlyCreated, ScanTypeOK, Games
<1>5. Placed'
  BY DEF Placed
<1>6. ListedIsThere'
  BY DEF ListedIsThere, ScanTypeOK
<1> QED
  BY <1>2, <1>3, <1>4, <1>5, <1>6 DEF ParserAtRest, ShownIsWhole

LEMMA MetadataFileEndsKeepsInv ==
  ASSUME ScanInv, MetadataFileEnds
  PROVE  ScanInv'
<1> USE SearchAssumption DEF ScanInv, MetadataFileEnds, mapVars, endVars
<1>1. ScanTypeOK' /\ OneOwner' /\ OnlyCreated'
  BY DEF ScanTypeOK, OneOwner, OnlyCreated, NoGame
<1>2. Placed'
  BY DEF Placed
<1>3. ListedIsThere' /\ ParserAtRest' /\ ShownIsWhole'
  BY DEF ListedIsThere, ParserAtRest, Parsing, ShownIsWhole
<1> QED
  BY <1>1, <1>2, <1>3

LEMMA ScheduleDownloadKeepsInv ==
  ASSUME ScanInv, ScheduleDownload
  PROVE  ScanInv'
<1> USE DEF ScanInv, ScheduleDownload, mapVars, parserVars, endVars
<1>1. ScanTypeOK' /\ OneOwner' /\ OnlyCreated'
  BY DEF ScanTypeOK, OneOwner, OnlyCreated
<1>2. Placed' /\ ListedIsThere' /\ ParserAtRest' /\ ShownIsWhole'
  BY DEF Placed, ListedIsThere, ParserAtRest, Parsing, ShownIsWhole
<1> QED
  BY <1>1, <1>2

LEMMA FinalizeKeepsInv ==
  ASSUME ScanInv, Finalize
  PROVE  ScanInv'
<1> USE SearchAssumption DEF ScanInv, Searching, parserVars
<1> DEFINE Of(g) == {c \in Collections : g \in m_collection_games'[c]}
<1>1. /\ ~ shown /\ ~ Parsing /\ shown' = TRUE
      /\ m_collection_games' = [c \in Collections |-> m_collection_games[c] \cap Kept]
      /\ m_collections' = {c \in m_collections : m_collection_games'[c] # {}}
      /\ m_game_entries' =
           [g \in Games |-> IF g \in m_parentless_games THEN {} ELSE m_game_entries[g]]
      /\ m_parentless_games' = {}
      /\ created' = created /\ listed' = listed
      /\ cur_game' = cur_game /\ all_colls' = all_colls
      /\ m_pending_downloads' = m_pending_downloads
  BY DEF Finalize
<1>2. /\ collectionOf' \in [Games -> Collections \cup {NoCollection}]
      /\ \A g \in Games : Of(g) # {} => collectionOf'[g] \in Of(g)
  BY DEF Finalize
<1>3. \A g \in Games : m_game_entries'[g] # {} => g \in Kept /\ Of(g) # {}
  <2> SUFFICES ASSUME NEW g \in Games, m_game_entries'[g] # {}
               PROVE  g \in Kept /\ Of(g) # {}
    OBVIOUS
  <2>1. g \notin m_parentless_games /\ m_game_entries[g] # {}
    BY <1>1
  <2>2. g \in Kept
    BY <2>1 DEF Kept
  <2>3. g <= created
    BY <2>1 DEF OnlyCreated, ScanTypeOK, Games
  <2>4. PICK c \in Collections : g \in m_collection_games[c]
    BY <1>1, <2>1, <2>3 DEF Placed
  <2>5. g \in m_collection_games'[c]
    BY <1>1, <2>2, <2>4
  <2> QED
    BY <2>2, <2>5
<1>4. \A c \in Collections : c \in m_collections' <=> m_collection_games'[c] # {}
  BY <1>1 DEF Placed, ScanTypeOK
<1>5. \A c \in Collections : \A g \in m_collection_games'[c] : m_game_entries'[g] # {}
  BY <1>1 DEF Kept, ScanTypeOK
<1>6. \A g \in Games : m_game_entries'[g] # {} =>
        collectionOf'[g] \in m_collections' /\ g \in m_collection_games'[collectionOf'[g]]
  BY <1>2, <1>3, <1>4
<1>7. OneOwner'
  BY <1>1 DEF OneOwner
<1>8. ShownIsWhole'
  BY <1>4, <1>5, <1>6, <1>7 DEF ShownIsWhole, OneOwner
<1>9. ScanTypeOK'
  BY <1>1, <1>2 DEF ScanTypeOK, Kept
<1>10. OnlyCreated'
  BY <1>1 DEF OnlyCreated
<1>11. Placed' /\ ParserAtRest'
  BY <1>1 DEF Placed, ParserAtRest, Parsing
<1>12. ListedIsThere'
  <2> SUFFICES ASSUME NEW l \in listed
               PROVE  \E g \in m_collection_games'[l[2]] : l[1] \in m_game_entries'[g]
    BY <1>1 DEF ListedIsThere
  <2>1. PICK g \in m_collection_games[l[2]] : l[1] \in m_game_entries[g]
    BY DEF ListedIsThere
  <2>2. l[2] \in Collections /\ g \in Games
    BY <2>1 DEF ScanTypeOK
  <2>3. g \notin m_parentless_games /\ g \in Kept
    BY <1>1, <2>1, <2>2 DEF Placed, Kept
  <2> QED
    BY <1>1, <2>1, <2>2, <2>3
<1> QED
  BY <1>7, <1>8, <1>9, <1>10, <1>11, <1>12

LEMMA RescanKeepsInv ==
  ASSUME ScanInv, Rescan
  PROVE  ScanInv'
<1> USE SearchAssumption DEF ScanInv, Rescan, parserVars
<1>1. cur_game = NoGame /\ all_colls = {}
  BY DEF ParserAtRest, Parsing
<1>2. ScanTypeOK'
  <2>1. created' \in 0 .. MaxGames /\ m_pending_downloads' \in 0 .. 1
    BY DEF ScanTypeOK
  <2>2. /\ m_collection_games' \in [Collections -> SUBSET Games]
        /\ m_game_entries' \in [Games -> SUBSET Files]
        /\ collectionOf' \in [Games -> Collections \cup {NoCollection}]
    OBVIOUS
  <2>3. /\ m_collections' \subseteq Collections /\ m_parentless_games' \subseteq Games
        /\ cur_game' \in Games \cup {NoGame} /\ all_colls' \subseteq Collections
        /\ listed' \subseteq Files \X Collections
    BY DEF ScanTypeOK
  <2>4. shown' \in BOOLEAN
    OBVIOUS
  <2> QED
    BY <2>1, <2>2, <2>3, <2>4 DEF ScanTypeOK
<1>3. OneOwner' /\ OnlyCreated'
  BY <1>1 DEF OneOwner, OnlyCreated, NoGame
<1>4. Placed'
  BY <1>1 DEF Placed, Games
<1>5. ListedIsThere' /\ ParserAtRest' /\ ShownIsWhole'
  BY <1>1 DEF ListedIsThere, ParserAtRest, Parsing, ShownIsWhole
<1> QED
  BY <1>2, <1>3, <1>4, <1>5

LEMMA FrameKeepsInv ==
  ASSUME ScanInv, UNCHANGED scanVars
  PROVE  ScanInv'
<1> USE DEF ScanInv, scanVars, mapVars, parserVars, endVars
<1>1. ScanTypeOK' /\ OneOwner' /\ OnlyCreated'
  BY DEF ScanTypeOK, OneOwner, OnlyCreated
<1>2. Placed' /\ ListedIsThere' /\ ParserAtRest' /\ ShownIsWhole'
  BY DEF Placed, ListedIsThere, ParserAtRest, Parsing, ShownIsWhole
<1> QED
  BY <1>1, <1>2

-----------------------------------------------------------------------------
LEMMA ScanInvariant == Spec => []ScanInv
<1>1. Init => ScanInv
  BY InitScanInv
<1>2. ScanInv /\ [Next]_vars => ScanInv'
  <2> SUFFICES ASSUME ScanInv, [Next]_vars PROVE ScanInv'
    OBVIOUS
  <2>1. CASE \E c \in Collections : GetOrCreateCollection(c)
    BY <2>1, GetOrCreateCollectionKeepsInv
  <2>2. CASE \E c \in Collections, f \in Files : ListFile(c, f)
    BY <2>2, ListFileKeepsInv
  <2>3. CASE \E c \in Collections : \E fs \in SUBSET Files \ {{}} : DescribeFiles(c, fs)
    BY <2>3, DescribeFilesKeepsInv
  <2>4. CASE \E c \in Collections : DeclareCollection(c)
    BY <2>4, DeclareCollectionKeepsInv
  <2>5. CASE DeclareGame
    BY <2>5, DeclareGameKeepsInv
  <2>6. CASE \E f \in Files : DeclareFile(f)
    BY <2>6, DeclareFileKeepsInv
  <2>7. CASE MetadataFileEnds
    BY <2>7, MetadataFileEndsKeepsInv
  <2>8. CASE ScheduleDownload
    BY <2>8, ScheduleDownloadKeepsInv
  <2>9. CASE Finalize
    BY <2>9, FinalizeKeepsInv
  <2>10. CASE Rescan
    BY <2>10, RescanKeepsInv
  <2>11. CASE \E g \in Games, f \in Files : Launch(g, f)
    BY <2>11, FrameKeepsInv DEF Launch
  <2>12. CASE UNCHANGED vars
    BY <2>12, FrameKeepsInv DEF vars
  <2> QED
    BY <2>1, <2>2, <2>3, <2>4, <2>5, <2>6, <2>7, <2>8, <2>9, <2>10, <2>11, <2>12
       DEF Next
<1> QED
  BY <1>1, <1>2, PTL DEF Spec

\* The maps of SearchContext, the parser's state and what the frontend has keep
\* their types.
THEOREM ScanTypeCorrect == Spec => []ScanTypeOK
<1>1. ScanInv => ScanTypeOK
  BY DEF ScanInv
<1> QED
  BY <1>1, ScanInvariant, PTL

\* Whatever the providers find, in whatever order they run, each game the
\* frontend gets has a file and a collection that is shown, each collection a
\* game, and no file two games (SearchContext::finalize).
THEOREM LibraryIsWhole == Spec => []ShownIsWhole
<1>1. ScanInv => ShownIsWhole
  BY DEF ScanInv
<1> QED
  BY <1>1, ScanInvariant, PTL

\* A file that a provider lists for a collection is shown in it: no clean-up of
\* SearchContext::finalize takes it away.
THEOREM NoListedFileLost == Spec => []FilesKept
<1>1. ScanInv => FilesKept
  BY DEF ScanInv, ListedIsThere, FilesKept
<1> QED
  BY <1>1, ScanInvariant, PTL

-----------------------------------------------------------------------------
\* A set of naturals has a least element.
LEMMA LeastNat ==
  ASSUME NEW T \in SUBSET Nat, T # {}
  PROVE  \E x \in T : \A y \in T : x <= y
<1> DEFINE R == OpToRel(<, Nat)
<1>1. IsWellFoundedOn(R, Nat)
  BY NatLessThanWellFounded
<1>2. \A x, y \in Nat : x < y => <<x, y>> \in R
  <2>1. R = {ss \in Nat \X Nat : ss[1] < ss[2]}
    BY DEF OpToRel
  <2> HIDE DEF R
  <2> QED BY <2>1
<1> HIDE DEF R
<1>3. PICK x \in T : \A y \in T : ~ (<<y, x>> \in R)
  BY <1>1, WFMin
<1>4. x \in Nat /\ \A y \in T : y \in Nat
  OBVIOUS
<1>5. \A y \in T : ~ (y < x)
  BY <1>2, <1>3, <1>4
<1> QED BY <1>4, <1>5

\* The loop from one turn to the next.
Turn(list, suffix, b, i) ==
  IF (b = 0 \/ b > list[i].priority + 1) /\ Supports(list[i], suffix) THEN i ELSE b

\* The function BestAfter is defined by recursion exists: each turn of the loop
\* follows from the one before.
LEMMA BestAfterTurns ==
  ASSUME NEW list, Len(list) \in Nat, NEW suffix
  PROVE  LET best == BestAfter(list, suffix)
         IN  /\ best[0] = 0
             /\ \A i \in 1 .. Len(list) : best[i] = Turn(list, suffix, best[i - 1], i)
<1> DEFINE IsLoop(h, n) ==
             /\ h = [i \in 0 .. n |-> IF i = 0 THEN 0 ELSE Turn(list, suffix, h[i - 1], i)]
           n == Len(list)
           N == {m \in 0 .. n : ~ \E h : IsLoop(h, m)}
<1>1. N = {}
  <2>1. SUFFICES ASSUME N # {} PROVE FALSE
    OBVIOUS
  <2>2. PICK m \in N : \A k \in N : m <= k
    <3> N \in SUBSET Nat
      OBVIOUS
    <3> HIDE DEF N
    <3> QED BY <2>1, LeastNat
  <2>3. m # 0
    <3>1. IsLoop([i \in 0 .. 0 |-> 0], 0)
      OBVIOUS
    <3> QED BY <3>1
  <2>4. m \in Nat /\ m - 1 \in 0 .. n /\ m - 1 \notin N
    BY <2>2, <2>3
  <2>5. PICK g : IsLoop(g, m - 1)
    BY <2>4
  <2> DEFINE h == [i \in 0 .. m |-> IF i = m THEN Turn(list, suffix, g[m - 1], m) ELSE g[i]]
  <2>6. \A i \in 0 .. m - 1 : h[i] = g[i]
    BY <2>4
  <2>7. \A i \in 0 .. m :
          h[i] = IF i = 0 THEN 0 ELSE Turn(list, suffix, h[i - 1], i)
    <3>1. SUFFICES ASSUME NEW i \in 0 .. m
                   PROVE  h[i] = IF i = 0 THEN 0 ELSE Turn(list, suffix, h[i - 1], i)
      OBVIOUS
    <3>2. CASE i = m
      <4>1. i - 1 \in 0 .. m - 1 /\ i # 0
        BY <2>3, <2>4, <3>2
      <4>2. h[i - 1] = g[i - 1]
        BY <4>1, <2>6
      <4>3. h[i] = Turn(list, suffix, g[m - 1], m)
        BY <3>2
      <4> HIDE DEF h
      <4> QED BY <3>2, <4>1, <4>2, <4>3
    <3>3. CASE i # m
      <4>1. i \in 0 .. m - 1 /\ h[i] = g[i]
        BY <3>3, <2>4, <2>6
      <4>2. g[i] = IF i = 0 THEN 0 ELSE Turn(list, suffix, g[i - 1], i)
        BY <2>5, <4>1
      <4>3. i # 0 => i - 1 \in 0 .. m - 1 /\ h[i - 1] = g[i - 1]
        BY <4>1, <2>4, <2>6
      <4> HIDE DEF h
      <4> QED BY <4>1, <4>2, <4>3
    <3> QED BY <3>2, <3>3
  <2>8. IsLoop(h, m)
    <3>1. h = [i \in 0 .. m |-> h[i]]
      OBVIOUS
    <3> HIDE DEF h
    <3> QED BY <3>1, <2>7
  <2> QED BY <2>2, <2>8
<1>2. \E h : IsLoop(h, n)
  <2>1. n \notin N /\ n \in 0 .. n
    BY <1>1
  <2> QED BY <2>1
<1>3. BestAfter(list, suffix) = CHOOSE h : IsLoop(h, n)
  BY DEF BestAfter, Turn
<1>4. IsLoop(BestAfter(list, suffix), n)
  <2> HIDE DEF IsLoop
  <2> QED BY <1>2, <1>3
<1> HIDE DEF N
<1> DEFINE best == BestAfter(list, suffix)
<1>5. best = [i \in 0 .. n |-> IF i = 0 THEN 0 ELSE Turn(list, suffix, best[i - 1], i)]
  BY <1>4
<1> HIDE DEF best
<1>6. best[0] = 0
  BY <1>5
<1>7. \A i \in 1 .. n : best[i] = Turn(list, suffix, best[i - 1], i)
  BY <1>5
<1> QED BY <1>6, <1>7 DEF best

\* getAutoSelectedEmulatorIndex finds an emulator that takes the suffix in every
\* list that has one, though it compares an index with a priority: it never goes
\* back to none, and takes the first that it meets.
THEOREM SupportingIsSelected ==
  ASSUME NEW list, Len(list) \in Nat, DOMAIN list = 1 .. Len(list), NEW suffix
  PROVE  SelectsSupporting(list, suffix)
<1> DEFINE n == Len(list)
           best == BestAfter(list, suffix)
           Ok(i) == IF \E k \in 1 .. i : Supports(list[k], suffix)
                    THEN best[i] \in 1 .. i /\ Supports(list[best[i]], suffix)
                    ELSE best[i] = 0
           N == {i \in 0 .. n : ~ Ok(i)}
<1>1. /\ best[0] = 0
      /\ \A i \in 1 .. n : best[i] = Turn(list, suffix, best[i - 1], i)
  BY BestAfterTurns
<1> HIDE DEF best
<1>2. N = {}
  <2>1. SUFFICES ASSUME N # {} PROVE FALSE
    OBVIOUS
  <2>2. PICK m \in N : \A k \in N : m <= k
    <3> N \in SUBSET Nat
      OBVIOUS
    <3> HIDE DEF N
    <3> QED BY <2>1, LeastNat
  <2>3. m # 0
    <3>1. Ok(0)
      BY <1>1
    <3> QED BY <3>1
  <2>4. m \in 1 .. n /\ m - 1 \in 0 .. n /\ Ok(m - 1)
    BY <2>2, <2>3
  <2>5. best[m] = Turn(list, suffix, best[m - 1], m)
    BY <1>1, <2>4
  <2>6. \A k \in 1 .. m : k = m \/ k \in 1 .. m - 1
    BY <2>4
  <2>7. Ok(m)
    <3>1. CASE \E k \in 1 .. m - 1 : Supports(list[k], suffix)
      <4>1. best[m - 1] \in 1 .. m - 1 /\ Supports(list[best[m - 1]], suffix)
        BY <2>4, <3>1
      <4>2. (best[m] = m /\ Supports(list[m], suffix)) \/ best[m] = best[m - 1]
        BY <2>5 DEF Turn
      <4>3. \E k \in 1 .. m : Supports(list[k], suffix)
        BY <2>4, <3>1
      <4>4. best[m] \in 1 .. m /\ Supports(list[best[m]], suffix)
        BY <2>4, <4>1, <4>2
      <4> QED BY <4>3, <4>4
    <3>2. CASE ~ \E k \in 1 .. m - 1 : Supports(list[k], suffix)
      <4>1. best[m - 1] = 0
        BY <2>4, <3>2
      <4>2. best[m] = IF Supports(list[m], suffix) THEN m ELSE 0
        BY <2>5, <4>1 DEF Turn
      <4>3. (\E k \in 1 .. m : Supports(list[k], suffix)) <=> Supports(list[m], suffix)
        BY <2>4, <2>6, <3>2
      <4> QED BY <2>4, <4>2, <4>3
    <3> QED BY <3>1, <3>2
  <2> QED BY <2>2, <2>7
<1>3. Ok(n)
  <2>1. n \in 0 .. n /\ n \notin N
    BY <1>2
  <2> QED BY <2>1
<1> QED
  BY <1>3 DEF SelectsSupporting, AutoSelectedEmulatorIndex, best

\* An emulator of lowest priority, the first of them.
LEMMA DefaultIsInList ==
  ASSUME NEW list, Len(list) \in Nat, Len(list) # 0, DOMAIN list = 1 .. Len(list),
         \A i \in DOMAIN list : list[i].priority \in Int
  PROVE  \E i \in DOMAIN list : Default(list) = list[i]
<1> DEFINE n == Len(list)
           p == [i \in 1 .. n |-> list[i].priority]
           Before(i, j) == p[i] < p[j] \/ (p[i] = p[j] /\ i <= j)
           Ok(m) == \E i \in 1 .. m : \A j \in 1 .. m : Before(i, j)
           N == {m \in 1 .. n : ~ Ok(m)}
<1>1. n \in Nat /\ n # 0 /\ DOMAIN list = 1 .. n
  OBVIOUS
<1> HIDE DEF n
<1>2. p \in [1 .. n -> Int]
  BY <1>1
<1>3. \A i \in 1 .. n : p[i] = list[i].priority
  OBVIOUS
<1> HIDE DEF p
<1>4. N = {}
  <2>1. SUFFICES ASSUME N # {} PROVE FALSE
    OBVIOUS
  <2>2. PICK m \in N : \A k \in N : m <= k
    <3> N \in SUBSET Nat
      BY <1>1
    <3> HIDE DEF N
    <3> QED BY <2>1, LeastNat
  <2>3. m # 1
    <3>1. \A j \in 1 .. 1 : j = 1
      OBVIOUS
    <3>2. Ok(1)
      BY <3>1, <1>1, <1>2
    <3> QED BY <3>2
  <2>4. m \in 1 .. n /\ m - 1 \in 1 .. n /\ Ok(m - 1)
    <3>1. m \in 1 .. n
      OBVIOUS
    <3>2. m - 1 \in 1 .. n /\ ~ m <= m - 1
      BY <1>1, <2>3, <3>1
    <3>3. m - 1 \notin N
      BY <2>2, <3>2
    <3> QED BY <3>1, <3>2, <3>3
  <2>5. PICK i \in 1 .. m - 1 : \A j \in 1 .. m - 1 : Before(i, j)
    BY <2>4
  <2>6. /\ i \in 1 .. m /\ m \in 1 .. m /\ i \in 1 .. n
        /\ \A j \in 1 .. m : j \in 1 .. n /\ (j = m \/ j \in 1 .. m - 1)
    BY <1>1, <2>4
  <2>7. \A j \in 1 .. m : Before(i, m) => Before(i, j)
    BY <2>5, <2>6
  <2>8. \A j \in 1 .. m : ~ Before(i, m) => Before(m, j)
    BY <1>1, <1>2, <2>4, <2>5, <2>6
  <2>9. Ok(m)
    BY <2>6, <2>7, <2>8
  <2> QED BY <2>2, <2>9
<1>5. Ok(n)
  <2>1. n \in 1 .. n
    BY <1>1
  <2> QED BY <1>4, <2>1
<1>6. \E i \in DOMAIN list : \A j \in DOMAIN list :
         \/ list[i].priority < list[j].priority
         \/ list[i].priority = list[j].priority /\ i <= j
  <2>1. PICK i \in 1 .. n : \A j \in 1 .. n : Before(i, j)
    BY <1>5
  <2>2. \A j \in 1 .. n : \/ list[i].priority < list[j].priority
                          \/ list[i].priority = list[j].priority /\ i <= j
    BY <1>3, <2>1
  <2> QED BY <1>1, <2>2
<1>7. list # <<>>
  BY <1>1
<1> QED
  BY <1>6, <1>7 DEF Default

\* getIndexFromEmulatorCore: an index of the pair, or none has it.
LEMMA IndexIsOfPair ==
  ASSUME NEW list, Len(list) \in Nat, DOMAIN list = 1 .. Len(list), NEW pair
  PROVE  LET i == IndexFromEmulatorCore(list, pair)
         IN  /\ i # 0 => i \in DOMAIN list
                           /\ list[i].name = pair.name /\ list[i].core = pair.core
             /\ i = 0 => \A k \in DOMAIN list :
                           ~ (list[k].name = pair.name /\ list[k].core = pair.core)
<1> DEFINE there == {i \in DOMAIN list : list[i].name = pair.name /\ list[i].core = pair.core}
<1>1. there # {} => \E i \in there : \A j \in there : i <= j
  <2> there \in SUBSET Nat
    OBVIOUS
  <2> HIDE DEF there
  <2> QED BY LeastNat
<1>2. there # {} =>
        (CHOOSE i \in there : \A j \in there : i <= j) \in there
  BY <1>1
<1>3. CASE there = {}
  <2>1. IndexFromEmulatorCore(list, pair) = 0
    BY <1>3 DEF IndexFromEmulatorCore
  <2>2. \A k \in DOMAIN list : k \notin there
    BY <1>3
  <2> QED BY <2>1, <2>2
<1>4. CASE there # {}
  <2>1. IndexFromEmulatorCore(list, pair) = CHOOSE i \in there : \A j \in there : i <= j
    BY <1>4 DEF IndexFromEmulatorCore
  <2>2. IndexFromEmulatorCore(list, pair) \in there
    BY <1>2, <1>4, <2>1
  <2>3. \A k \in there : k # 0
    OBVIOUS
  <2> QED BY <2>2, <2>3
<1> QED BY <1>3, <1>4

\* What LibraryAssumption says of the list of a collection.
LEMMA LibraryListIsSeq ==
  ASSUME NEW c \in Collections
  PROVE  /\ Len(EmulatorsOf[c]) \in Nat
         /\ Len(EmulatorsOf[c]) # 0 <=> EmulatorsOf[c] # <<>>
         /\ DOMAIN EmulatorsOf[c] = 1 .. Len(EmulatorsOf[c])
         /\ \A i \in DOMAIN EmulatorsOf[c] :
              /\ EmulatorsOf[c][i].name \notin {Unset, Undefined}
              /\ EmulatorsOf[c][i].core \notin {Unset, Undefined}
              /\ EmulatorsOf[c][i].priority \in Int
<1> DEFINE list == EmulatorsOf[c]
<1>1. /\ list \in Seq(Range(list))
      /\ \A i \in DOMAIN list : /\ {list[i].name, list[i].core} \cap {Unset, Undefined} = {}
                                /\ list[i].priority \in Int
  BY LibraryAssumption
<1> HIDE DEF list
<1>2. Len(list) \in Nat /\ DOMAIN list = 1 .. Len(list) /\ (Len(list) # 0 <=> list # <<>>)
  BY <1>1
<1>3. \A i \in DOMAIN list : /\ list[i].name \notin {Unset, Undefined}
                             /\ list[i].core \notin {Unset, Undefined}
                             /\ list[i].priority \in Int
  BY <1>1
<1> QED BY <1>2, <1>3 DEF list

\* The pair of the settings and of the defaults is one of the collection's, but
\* for the causes that NoneOf names.
LEMMA ConfiguredIsOfCollection ==
  ASSUME NEW c \in Collections, NEW conf, NEW host, NEW command
  PROVE  Configured(EmulatorsOf[c], conf, host, command) \in Pairs(c)
           <=> ~ NoneOf(c, conf, host, command)
<1> DEFINE list == EmulatorsOf[c]
           pair == Configured(list, conf, host, command)
           asked == [name |-> IF conf.name = Unset THEN Default(list).name ELSE conf.name,
                     core |-> IF conf.core = Unset THEN Default(list).core ELSE conf.core]
           held == {"emulator.name", "emulator.core"} \subseteq command
<1>1. /\ Len(list) \in Nat /\ (Len(list) # 0 <=> list # <<>>) /\ DOMAIN list = 1 .. Len(list)
      /\ \A k \in DOMAIN list : /\ list[k].name \notin {Unset, Undefined}
                                /\ list[k].core \notin {Unset, Undefined}
                                /\ list[k].priority \in Int
  BY LibraryListIsSeq
<1>2. \A r : r \in Pairs(c) <=>
              \E k \in DOMAIN list : r = [name |-> list[k].name, core |-> list[k].core]
  BY DEF Pairs, Range
<1>3. NoneOf(c, conf, host, command) <=>
        \/ list = <<>> \/ host # Unset \/ ~ held
        \/ {conf.name, conf.core} # {Unset} /\ asked \notin Pairs(c)
  BY DEF NoneOf
<1> HIDE DEF list
<1>4. CASE list = <<>>
  <2>1. \A r : r \notin Pairs(c)
    BY <1>1, <1>2, <1>4
  <2> QED BY <1>3, <1>4, <2>1
<1>5. CASE host # Unset \/ ~ held
  <2>1. pair.name = Unset \/ pair.core = Unset
    BY <1>5 DEF Configured
  <2> HIDE DEF pair
  <2>2. pair \notin Pairs(c)
    BY <1>1, <1>2, <2>1
  <2> QED BY <1>3, <1>5, <2>2 DEF pair, list
<1>6. CASE list # <<>> /\ host = Unset /\ held
  <2>1. pair = asked
    BY <1>6 DEF Configured
  <2>2. CASE {conf.name, conf.core} = {Unset}
    <3>1. conf.name = Unset /\ conf.core = Unset
      BY <2>2
    <3>2. pair = [name |-> Default(list).name, core |-> Default(list).core]
      BY <2>1, <3>1
    <3>3. PICK k \in DOMAIN list : Default(list) = list[k]
      BY <1>1, <1>6, DefaultIsInList
    <3>4. pair \in Pairs(c)
      BY <1>2, <3>2, <3>3
    <3> QED BY <1>3, <1>6, <2>2, <3>4 DEF list
  <2>3. CASE {conf.name, conf.core} # {Unset}
    BY <1>3, <1>6, <2>1, <2>3 DEF list
  <2> QED BY <2>2, <2>3
<1> QED BY <1>4, <1>5, <1>6

\* The autoselection of a pair of the list gives a pair of the list, which takes
\* the suffix if any emulator of the list does.
LEMMA ReselectedIsPlayable ==
  ASSUME NEW c \in Collections, NEW s, NEW pair \in Pairs(c)
  PROVE  /\ Reselected(EmulatorsOf[c], pair, s) \in Pairs(c)
         /\ \E e \in Range(EmulatorsOf[c]) :
              /\ Reselected(EmulatorsOf[c], pair, s) = [name |-> e.name, core |-> e.core]
              /\ (\E x \in Range(EmulatorsOf[c]) : Supports(x, s)) => Supports(e, s)
<1> DEFINE list == EmulatorsOf[c]
           i == IndexFromEmulatorCore(list, pair)
           j == AutoSelectedEmulatorIndex(list, s)
<1>1. /\ Len(list) \in Nat /\ DOMAIN list = 1 .. Len(list)
      /\ \A k \in DOMAIN list : list[k].priority \in Int
  BY LibraryListIsSeq
<1>2. \A e : e \in Range(list) <=> \E k \in DOMAIN list : e = list[k]
  BY DEF Range
<1>3. \A k \in DOMAIN list : [name |-> list[k].name, core |-> list[k].core] \in Pairs(c)
  BY DEF Pairs, Range
<1>4. PICK k \in DOMAIN list : pair = [name |-> list[k].name, core |-> list[k].core]
  BY DEF Pairs, Range
<1> HIDE DEF list
<1>5. i \in DOMAIN list /\ i # 0 /\ list[i].name = pair.name /\ list[i].core = pair.core
  <2>1. list[k].name = pair.name /\ list[k].core = pair.core
    BY <1>4
  <2>2. /\ i # 0 => i \in DOMAIN list
                      /\ list[i].name = pair.name /\ list[i].core = pair.core
        /\ i = 0 => \A m \in DOMAIN list :
                      ~ (list[m].name = pair.name /\ list[m].core = pair.core)
    BY <1>1, IndexIsOfPair
  <2> QED BY <2>1, <2>2
<1>6. pair = [name |-> list[i].name, core |-> list[i].core]
  BY <1>4, <1>5
<1>7. IF \E m \in DOMAIN list : Supports(list[m], s)
      THEN j \in DOMAIN list /\ Supports(list[j], s)
      ELSE j = 0
  BY <1>1, SupportingIsSelected DEF SelectsSupporting
<1>8. Reselected(list, pair, s) = IF Supports(list[i], s) \/ j = 0 THEN pair
                                  ELSE [name |-> list[j].name, core |-> list[j].core]
  BY <1>5 DEF Reselected
<1> HIDE DEF i, j
<1>9. CASE Supports(list[i], s) \/ j = 0
  <2>1. Reselected(list, pair, s) = [name |-> list[i].name, core |-> list[i].core]
    BY <1>6, <1>8, <1>9
  <2>2. (\E x \in Range(list) : Supports(x, s)) => Supports(list[i], s)
    BY <1>1, <1>2, <1>7, <1>9
  <2>3. list[i] \in Range(list)
    BY <1>2, <1>5
  <2> QED BY <1>3, <1>5, <2>1, <2>2, <2>3 DEF list
<1>10. CASE ~ (Supports(list[i], s) \/ j = 0)
  <2>1. Reselected(list, pair, s) = [name |-> list[j].name, core |-> list[j].core]
    BY <1>8, <1>10
  <2>2. j \in DOMAIN list /\ list[j] \in Range(list) /\ Supports(list[j], s)
    BY <1>2, <1>7, <1>10
  <2> QED BY <1>3, <2>1, <2>2 DEF list
<1> QED BY <1>9, <1>10

\* at(-1) is asked for exactly for a pair that is none of the collection's.
LEMMA SelectedIsPlayable ==
  ASSUME NEW c \in Collections, NEW conf, NEW host, NEW command, NEW s,
         conf.autoselection
  PROVE  LET chosen == Selected(EmulatorsOf[c], conf, host, command, s)
         IN  /\ chosen = OutOfRange <=> NoneOf(c, conf, host, command)
             /\ chosen # OutOfRange =>
                  \E e \in Range(EmulatorsOf[c]) :
                    /\ chosen = [name |-> e.name, core |-> e.core]
                    /\ (\E x \in Range(EmulatorsOf[c]) : Supports(x, s)) => Supports(e, s)
<1> DEFINE list == EmulatorsOf[c]
           pair == Configured(list, conf, host, command)
           taken == Reselected(list, pair, s)
           chosen == Selected(list, conf, host, command, s)
<1>1. /\ Len(list) \in Nat /\ DOMAIN list = 1 .. Len(list)
      /\ \A k \in DOMAIN list : list[k].name # Undefined
  BY LibraryListIsSeq
<1>2. \A r : r \in Pairs(c) <=>
              \E k \in DOMAIN list : r = [name |-> list[k].name, core |-> list[k].core]
  BY DEF Pairs, Range
<1>3. pair \in Pairs(c) <=> ~ NoneOf(c, conf, host, command)
  BY ConfiguredIsOfCollection
<1>4. pair \in Pairs(c) =>
        /\ taken \in Pairs(c)
        /\ \E e \in Range(list) :
             /\ taken = [name |-> e.name, core |-> e.core]
             /\ (\E x \in Range(list) : Supports(x, s)) => Supports(e, s)
  BY ReselectedIsPlayable
<1>5. OutOfRange \notin Pairs(c)
  <2>1. OutOfRange.name = Undefined
    BY DEF OutOfRange
  <2> HIDE DEF list
  <2> QED BY <1>1, <1>2, <2>1
<1> HIDE DEF list
<1>6. pair = [name |-> pair.name, core |-> pair.core]
  BY DEF Configured
<1>7. CASE pair \in Pairs(c)
  <2>1. /\ host = Unset
        /\ "emulator.name" \in command /\ "emulator.core" \in command
    BY <1>3, <1>7 DEF NoneOf
  <2>2. taken # OutOfRange
    BY <1>4, <1>5, <1>7
  <2>3. taken = [name |-> taken.name, core |-> taken.core]
    <3> HIDE DEF taken
    <3> QED BY <1>2, <1>4, <1>7
  <2>4. chosen = [name |-> taken.name, core |-> taken.core]
    BY <2>1, <2>2 DEF Selected
  <2> QED BY <1>3, <1>4, <1>7, <2>2, <2>3, <2>4 DEF list
<1>8. CASE pair \notin Pairs(c)
  <2>1. IndexFromEmulatorCore(list, pair) = 0
    <3> HIDE DEF pair
    <3>1. LET i == IndexFromEmulatorCore(list, pair)
          IN  i # 0 => i \in DOMAIN list
                        /\ list[i].name = pair.name /\ list[i].core = pair.core
      BY <1>1, IndexIsOfPair
    <3>2. \A k \in DOMAIN list : ~ (list[k].name = pair.name /\ list[k].core = pair.core)
      BY <1>2, <1>6, <1>8
    <3> QED BY <3>1, <3>2
  <2>2. taken = OutOfRange
    BY <2>1 DEF Reselected
  <2>3. chosen = OutOfRange
    BY <2>2 DEF Selected
  <2> QED BY <1>3, <1>8, <2>3 DEF list
<1> QED BY <1>7, <1>8

\* The launch of a shown game selects from the list of the collection it kept.
LEMMA LaunchKeepsPlayable ==
  ASSUME ScanInv, NEW g \in Games, NEW f \in Files, Launch(g, f)
  PROVE  LaunchedIsPlayable'
<1> DEFINE c == collectionOf[g]
           s == SuffixOf[First(g)]
<1>1. PICK conf \in Confs, host \in Hosts, command \in CommandsOf[c] :
        launched' = [file |-> f, game |-> g, conf |-> conf, host |-> host, command |-> command,
                     pair |-> IF command = {} THEN Unset
                              ELSE Selected(EmulatorsOf[c], conf, host, command, s)]
  BY DEF Launch
<1>2. /\ shown /\ f \in m_game_entries[g]
      /\ m_game_entries' = m_game_entries /\ collectionOf' = collectionOf
  BY DEF Launch, scanVars, mapVars, endVars
<1>3. c \in Collections
  BY <1>2 DEF ScanInv, ScanTypeOK, ShownIsWhole
<1>4. /\ collectionOf'[g] = c
      /\ SuffixOf[First(g)'] = s
  BY <1>2 DEF First
<1> HIDE DEF s, c
<1>5. /\ launched'.game = g /\ launched'.file = f /\ launched'.conf = conf
      /\ launched'.host = host /\ launched'.command = command
      /\ command # {} =>
           launched'.pair = Selected(EmulatorsOf[c], conf, host, command, s)
  BY <1>1
<1>6. ASSUME command # {}, conf.autoselection
      PROVE  /\ launched'.pair = OutOfRange <=> NoneOf(c, conf, host, command)
             /\ launched'.pair # OutOfRange =>
                  \E e \in Range(EmulatorsOf[c]) :
                    /\ launched'.pair = [name |-> e.name, core |-> e.core]
                    /\ (\E x \in Range(EmulatorsOf[c]) : Supports(x, s)) => Supports(e, s)
  <2> DEFINE chosen == Selected(EmulatorsOf[c], conf, host, command, s)
  <2>1. /\ chosen = OutOfRange <=> NoneOf(c, conf, host, command)
        /\ chosen # OutOfRange =>
             \E e \in Range(EmulatorsOf[c]) :
               /\ chosen = [name |-> e.name, core |-> e.core]
               /\ (\E x \in Range(EmulatorsOf[c]) : Supports(x, s)) => Supports(e, s)
    BY <1>3, <1>6, SelectedIsPlayable
  <2>2. launched'.pair = chosen
    BY <1>5, <1>6
  <2> HIDE DEF chosen
  <2> QED BY <2>1, <2>2
<1> QED
  BY <1>4, <1>5, <1>6 DEF LaunchedIsPlayable

\* Every other action forgets the last launch.
LEMMA ForgottenIsPlayable == Forgotten => LaunchedIsPlayable'
BY DEF Forgotten, LaunchedIsPlayable

\* The autoselection asks the list out of its range for the causes of NoneOf and for
\* no other, and else finds an emulator of the game's own collection that takes its
\* file whenever there is one, for any collections, any lists of emulators, empty
\* ones too, with any priorities, any settings and any commands (ProcessLauncher's
\* replace_variables and getAutoSelectedEmulatorIndex).
THEOREM LaunchIsPlayable == Spec => []LaunchedIsPlayable
<1>1. Init => LaunchedIsPlayable
  BY DEF Init, LaunchedIsPlayable
<1>2. ScanInv /\ LaunchedIsPlayable /\ [Next]_vars => LaunchedIsPlayable'
  <2> SUFFICES ASSUME ScanInv, LaunchedIsPlayable, [Next]_vars PROVE LaunchedIsPlayable'
    OBVIOUS
  <2>1. CASE Forgotten
    BY <2>1, ForgottenIsPlayable
  <2>2. CASE \E g \in Games, f \in Files : Launch(g, f)
    BY <2>2, LaunchKeepsPlayable
  <2>3. CASE UNCHANGED vars
    BY <2>3 DEF vars, scanVars, mapVars, endVars, LaunchedIsPlayable, First
  <2> QED
    BY <2>1, <2>2, <2>3 DEF Next
<1> QED
  BY <1>1, <1>2, ScanInvariant, PTL DEF Spec
=============================================================================
