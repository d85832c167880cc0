------------------------------ MODULE MCFavorites ------------------------------
(***************************************************************************)
(* Favorites for TLC: two games, and a second thread for a second writer.  *)
(***************************************************************************)
EXTENDS Favorites

CONSTANTS w1, w2

MCWriters == {w1, w2}
=============================================================================
