----------------------------- MODULE MCGameEngine -----------------------------
(***************************************************************************)
(* Small instances of GameEngine for TLC.                                   *)
(***************************************************************************)
EXTENDS GameEngine, TLC

CONSTANT MaxBalance   \* bound: no further round for anyone richer than this

\* The engine tells players apart only by where they sit and stand in line.
PlayerSymmetry == Permutations(Player)

\* A winner's balance grows without end from round to round.
BalanceBound == \A p \in Player : player[p].balance <= MaxBalance

==============================================================================
