----------------------------- MODULE MCClientView -----------------------------
(***************************************************************************)
(* Small instances of ClientView for TLC.                                   *)
(***************************************************************************)
EXTENDS ClientView, TLC

CONSTANT MaxBalance   \* bound: no further round for anyone richer than this

BalanceBound == \A p \in Player : player[p].balance <= MaxBalance

\* Bound: a visit that begins with events of the one before is not followed.
Followed == mixed # "stale"

\* Bound: while players are dealt cards, are paid and start over, nothing is asked of the
\* server and no visit ends (they do when bets are open and while players play).
AskedEarly ==
  sent # <<>> \/ feed \notin {"joined", "on"} => phase \in {"WaitingForBets", "PlayerTurn"}

==============================================================================
