---------------------------- MODULE MCPlaytimeStats ----------------------------
(***************************************************************************)
(* PlaytimeStats for TLC: as many plays as test_Playtime::write_queue, and *)
(* as many threads as it can take.                                         *)
(***************************************************************************)
EXTENDS PlaytimeStats

CONSTANTS w1, w2, w3

MCWorkers == {w1, w2, w3}
=============================================================================
