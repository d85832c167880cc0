------------------------------- MODULE MCIniFile -------------------------------
(***************************************************************************)
(* IniFile for TLC: two files and two keys; a key has no line at first,    *)
(* an active one, a commented one, or one of each.                         *)
(***************************************************************************)
EXTENDS IniFile, TLC

CONSTANTS rom1, rom2, emulator, core, a, b

MCPaths == {rom1, rom2}
MCKeys == {emulator, core}
MCValuesOf == emulator :> {a, b} @@ core :> {a}
MCContents ==
  emulator :> {<<>>, <<[off |-> TRUE, val |-> a]>>, <<[off |-> TRUE, val |-> a], On(b)>>}
  @@ core :> {<<>>, <<On(a)>>}

\* recalbox.conf, or the settings of two games, the second without any yet.
MCStarts ==
  LET full == emulator :> <<[off |-> TRUE, val |-> a], On(b)>> @@ core :> <<On(a)>>
      none == [k \in MCKeys |-> <<>>]
      At(f) == rom1 :> f @@ rom2 :> NoFile
  IN  {[file |-> At(f), fallback |-> g] : f \in {NoFile, none, full}, g \in {NoFile, full}}

\* Bound: no file is both changed outside and cut short while it is in use, and
\* the second has a line of each key at most.
Bound ==
  /\ changed = {} \/ torn = {}
  /\ file[rom2] # NoFile => \A k \in Keys : Len(file[rom2][k]) <= 1
=============================================================================
