------------------------------ MODULE ChipLedger ------------------------------
(***************************************************************************)
(* What a table promises about money, without cards, seats, phases or       *)
(* wallets: everyone has one account; a round takes up some of the players, *)
(* any of them may drop out, and the round is settled once, for all who are *)
(* still in it and at one moment.  Accounts change in no other way.         *)
(***************************************************************************)
EXTENDS Integers

CONSTANTS Player,
          MaxBet

VARIABLES account,   \* the chips of every player, staked ones included
          inRound    \* those with a stake in a round that is being played

vars == <<account, inRound>>

TypeOK == account \in [Player -> Nat] /\ inRound \in SUBSET Player

Init == account \in [Player -> Nat] /\ inRound = {}

StartRound(S) ==
  /\ inRound = {}
  /\ inRound' = S
  /\ UNCHANGED account

\* Whoever leaves the table during a round has won and lost nothing.
DropOut(p) ==
  /\ p \in inRound
  /\ inRound' = inRound \ {p}
  /\ UNCHANGED account

\* A stake is at most two bets, and a blackjack pays at most three for two.
Settle ==
  /\ inRound' = {}
  /\ account' \in [Player -> Nat]
  /\ \A p \in Player :
       IF p \in inRound
       THEN account'[p] \in (account[p] - 2 * MaxBet)..(account[p] + 2 * MaxBet)
       ELSE account'[p] = account[p]

Next ==
  \/ \E S \in SUBSET Player : StartRound(S)
  \/ \E p \in Player : DropOut(p)
  \/ Settle

Spec == Init /\ [][Next]_vars

==============================================================================
