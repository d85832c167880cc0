------------------------------- MODULE MCUpdates -------------------------------
(***************************************************************************)
(* Updates for TLC: two components and two download managers, each         *)
(* component launched twice at most.                                       *)
(***************************************************************************)
EXTENDS Updates

CONSTANTS pegasus, pixl

MCComponents == {pegasus, pixl}

\* Three launches, two with one redirection, or one with two.
Bound == presses[pegasus] + presses[pixl] + hops <= 3
=============================================================================
