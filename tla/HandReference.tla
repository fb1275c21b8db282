---------------------------- MODULE HandReference ----------------------------
(***************************************************************************)
(* The hand arithmetic of Hands against a definition that follows the rules *)
(* of the game instead of the code.  Cards are dealt one by one to a player *)
(* and to a dealer; the engine's running Hand, the total the CLI computes   *)
(* from the cards it is shown (cli/src/state/cards.rs) and the definition   *)
(* below must agree on every pair of hands.                                 *)
(***************************************************************************)
EXTENDS Hands, SequencesExt

CONSTANTS Cards,      \* the pips that are dealt
          MaxCards    \* bound: cards in a hand

ASSUME CardsAssumption == Cards \subseteq Pip /\ MaxCards \in Nat

VARIABLES mine, theirs,           \* the cards of the player and of the dealer
          myHand, theirHand       \* the engine's view of them

vars == <<mine, theirs, myHand, theirHand>>

Init ==
  /\ mine = <<>> /\ theirs = <<>>
  /\ myHand = EmptyHand /\ theirHand = EmptyHand

DealToPlayer(c) ==
  /\ Len(mine) < MaxCards
  /\ mine' = Append(mine, c)
  /\ myHand' = AddCard(myHand, c)
  /\ UNCHANGED <<theirs, theirHand>>

DealToDealer(c) ==
  /\ Len(theirs) < MaxCards
  /\ theirs' = Append(theirs, c)
  /\ theirHand' = AddCard(theirHand, c)
  /\ UNCHANGED <<mine, myHand>>

Next == \E c \in Cards : DealToPlayer(c) \/ DealToDealer(c)

Spec == Init /\ [][Next]_vars

-----------------------------------------------------------------------------

Aces(cards) == Cardinality({i \in DOMAIN cards : cards[i] = 1})

\* Mutant: a client that takes the last ace down already at 21.
ClientValueBelow21(cards) ==
  LET total == FoldSeq(+, 0, cards) + 10 * Aces(cards)
      taken == {k \in 0..Aces(cards) : total - 10 * k < 21} \cup {Aces(cards)}
  IN total - 10 * Min(taken)

\* UiHand::compute_value: aces count 11 and are taken down to 1 one at a time
\* while the total is over 21.
ClientValue(cards) ==
  LET total == FoldSeq(+, 0, cards) + 10 * Aces(cards)
      taken == {k \in 0..Aces(cards) : total - 10 * k <= 21} \cup {Aces(cards)}
  IN total - 10 * Min(taken)

-----------------------------------------------------------------------------

\* The rules: every ace is worth 1 or 11, and the total is the best of all the
\* ways to count that does not exceed 21, or the least one if all of them do.
TotalByRules(cards) ==
  LET ways == {FoldSeq(+, 0, cards) + 10 * k : k \in 0..Aces(cards)}
      good == {t \in ways : t <= 21}
  IN IF good = {} THEN Min(ways) ELSE Max(good)

\* How a hand compares: a bust is worth nothing, a two-card 21 beats any other.
Strength(cards) ==
  IF TotalByRules(cards) > 21 THEN 0
  ELSE IF Len(cards) = 2 /\ TotalByRules(cards) = 21 THEN 22
  ELSE TotalByRules(cards)

\* The player's chips after a bet of b, as the rules have it: the house wins when
\* both bust, and a blackjack is paid three to two, rounded down.
GainByRules(b) ==
  LET me == Strength(mine) you == Strength(theirs)
  IN CASE me = 0 \/ me < you -> -b
       [] me # 0 /\ me = you -> 0
       [] me # 0 /\ me > you -> IF me = 22 THEN (3 * b) \div 2 ELSE b

\* Hand::value decides between one ace at 11 and none; no way of counting several
\* aces ever does better.
EngineTotalIsBest ==
  /\ BestValue(myHand) = TotalByRules(mine)
  /\ IsBust(myHand) <=> TotalByRules(mine) > 21

\* The total a client shows beside a hand is the one the engine plays by.
ClientShowsEngineTotal == ClientValue(mine) = BestValue(myHand)

\* The order of the tests in settle_player, and the integer division of the
\* blackjack payout, give the gain the rules give, for odd bets and even.
SettlementFollowsRules ==
  Len(mine) >= 2 /\ Len(theirs) >= 2 =>
    \A b \in 1..4 :
      Payout(b, SettlePlayer(myHand, theirHand)) - b = GainByRules(b)

\* The loop of PlayHand leaves the dealer with 17 or more whatever the shoe holds:
\* the turns DealerHands allows are all the loop can take.
DrawLoopEnds ==
  Len(theirs) = 2 => \A h \in DealerHands(theirHand, Pip) : BestValue(h) >= 17

==============================================================================
