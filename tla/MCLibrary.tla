------------------------------- MODULE MCLibrary -------------------------------
(***************************************************************************)
(* Library for TLC: three files of two suffixes, a system of three         *)
(* emulators and a collection that has none, and the settings a system may *)
(* have: none, each emulator of its list, and one that an update of the    *)
(* system has removed.                                                     *)
(***************************************************************************)
EXTENDS Library, TLC

CONSTANTS psx, steam, bin, zip, libretro, standalone, core1, core2

MCFiles == {1, 2, 3}
MCCollections == {psx, steam}
MCSuffixOf == <<bin, zip, zip>>

Emulator(n, c, p, ss) == [name |-> n, core |-> c, priority |-> p, suffixes |-> ss]

MCEmulatorsOf ==
  psx :> <<Emulator(libretro, core1, 2, {bin}), Emulator(libretro, core2, 1, {zip}),
           Emulator(standalone, core1, 1, {bin, zip})>>
  @@ steam :> <<>>

\* Of es_systems, of a metadata file that has joined the collection, and of a
\* collection that runs its files itself.
MCCommandsOf ==
  psx :> {Placeholders, {"emulator.core"}}
  @@ steam :> {{}, {"file.path"}}

Conf(n, c, auto) == [name |-> n, core |-> c, autoselection |-> auto]

MCConfs ==
  {Conf(p.name, p.core, TRUE) : p \in Pairs(psx) \cup {[name |-> Unset, core |-> Unset]}}
  \cup {Conf(standalone, core2, TRUE), Conf(Unset, Unset, FALSE)}

MCHosts == {Unset, [name |-> libretro, core |-> core1]}

\* The loop of the autoselection, over every list of up to three emulators.
ShortLists ==
  UNION {[1 .. n -> [name : {libretro}, core : {core1}, priority : 0 .. 3,
                     suffixes : SUBSET {bin, zip}]] : n \in 0 .. 3}

ASSUME AutoSelectionAssumption ==
  \A list \in ShortLists : \A s \in {bin, zip} : SelectsSupporting(list, s)
=============================================================================
