----------------------------- MODULE MCTableActor -----------------------------
(***************************************************************************)
(* Small instances of TableActor for TLC.                                   *)
(***************************************************************************)
EXTENDS TableActor

CONSTANT MaxBalance    \* bound: nobody richer than this places a bet

\* Only commands are bounded, which nobody is obliged to send: timers and dealer
\* finish whatever was begun.
BetBound ==
  \A p \in Player :
    player[p].bet = 0 /\ player'[p].bet # 0 => player[p].balance <= MaxBalance

==============================================================================
