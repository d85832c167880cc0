------------------------------ MODULE MCGamepads ------------------------------
(***************************************************************************)
(* Gamepads for TLC.  Its constants are bounds only: three pads at a time, *)
(* so that one has a neighbour on each side, and one that comes back as a  *)
(* fourth instance.                                                        *)
(***************************************************************************)
EXTENDS Gamepads
=============================================================================
