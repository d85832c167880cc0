----------------------------- MODULE MCGameLaunch -----------------------------
(***************************************************************************)
(* GameLaunch for TLC: one game per kind of launch command.                *)
(***************************************************************************)
EXTENDS GameLaunch, TLC

CONSTANTS pythonGame, programGame, missingGame

MCGames == {pythonGame, programGame, missingGame}
MCCommandOf == pythonGame :> "python" @@ programGame :> "program" @@ missingGame :> "missing"
=============================================================================
