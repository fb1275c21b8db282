-------------------------------- MODULE Hands --------------------------------
(***************************************************************************)
(* The arithmetic of a hand and of its settlement: Hand::value and          *)
(* HandScore of core/src/domain/hand/mod.rs, settle_player of               *)
(* dealer/settle_round.rs and PayoutMultiplier::apply of event/outcome.rs.  *)
(*                                                                          *)
(* A card is its pip value, 1 for an ace and 10 for a ten or a court card:  *)
(* suit and deck never influence the game.  A hand is what Hand::value      *)
(* reads off its cards: how many there are, the total with every ace at 1   *)
(* ("hard") and whether there is an ace.                                    *)
(***************************************************************************)
EXTENDS Integers

Pip == 1..10

\* The largest value of the u8 in which Hand::value adds up the pips.
MaxU8 == 255

Hand == [cards : Nat, hard : Nat, ace : BOOLEAN]

EmptyHand == [cards |-> 0, hard |-> 0, ace |-> FALSE]

AddCard(h, c) ==
  [cards |-> h.cards + 1, hard |-> h.hard + c, ace |-> h.ace \/ c = 1]

TwoCards(c, d) == AddCard(AddCard(EmptyHand, c), d)

IsBust(h) == h.hard > 21

\* Mutant: the soft total is compared with 21 by < instead of <=.
IsSoftBelow21(h) == h.ace /\ h.hard + 10 < 21

\* One ace may count 11 when that does not bust the hand (HandScore::Dual).
IsSoft(h) == h.ace /\ h.hard + 10 <= 21

BestValue(h) == IF IsSoft(h) THEN h.hard + 10 ELSE h.hard

IsNaturalBlackjack(h) == h.cards = 2 /\ BestValue(h) = 21

-----------------------------------------------------------------------------

\* Mutant: the dealer stands on 16.
DealerStaysOn16(h) == BestValue(h) >= 16

\* One turn of the dealer's loop in PlayHand::handle, on every hand of S at
\* once: a hand of 17 or more, soft or hard, stays; any other takes a card.
DealerStays(h) == BestValue(h) >= 17

DrawOnce(S, Cards) ==
  {h \in S : DealerStays(h)}
    \cup UNION {{AddCard(h, c) : c \in Cards} : h \in {g \in S : ~DealerStays(g)}}

Draw2(S, Cards) == DrawOnce(DrawOnce(S, Cards), Cards)
Draw4(S, Cards) == Draw2(Draw2(S, Cards), Cards)

\* The hands with which the loop can end when the dealer starts with h: twelve
\* turns are enough for any two cards (DrawLoopEnds checks it).
DealerHands(h, Cards) == Draw4(Draw4(Draw4({h}, Cards), Cards), Cards)

-----------------------------------------------------------------------------

Outcomes == {"Bust", "Push", "Blackjack", "Lost", "Won"}

\* Mutant: the dealer's bust is looked at before the player's.
SettleDealerBustFirst(ph, dh) ==
  CASE IsBust(dh)                -> "Won"
    [] ~IsBust(dh) /\ IsBust(ph) -> "Bust"
    [] OTHER -> IF BestValue(ph) > BestValue(dh) THEN "Won"
                ELSE IF BestValue(ph) = BestValue(dh) THEN "Push" ELSE "Lost"

\* settle_player: the order of the alternatives is the order of its returns.
SettlePlayer(ph, dh) ==
  CASE IsBust(ph) -> "Bust"
    [] ~IsBust(ph) /\ IsNaturalBlackjack(ph) ->
         IF IsNaturalBlackjack(dh) THEN "Push" ELSE "Blackjack"
    [] ~IsBust(ph) /\ ~IsNaturalBlackjack(ph) /\ IsNaturalBlackjack(dh) -> "Lost"
    [] OTHER ->
         IF IsBust(dh) \/ BestValue(ph) > BestValue(dh) THEN "Won"
         ELSE IF BestValue(ph) = BestValue(dh) THEN "Push" ELSE "Lost"

\* Mutant: whoever loses pays the stake a second time.
PayoutTakingTwice(bet, outcome) ==
  CASE outcome \in {"Bust", "Lost"} -> 0 - bet
    [] outcome = "Push"             -> bet
    [] outcome = "Won"              -> bet * 2
    [] outcome = "Blackjack"        -> bet * 2 + bet \div 2

\* Payout::total: what goes back to the balance the bet was taken from.
Payout(bet, outcome) ==
  CASE outcome \in {"Bust", "Lost"} -> 0
    [] outcome = "Push"             -> bet
    [] outcome = "Won"              -> bet * 2
    [] outcome = "Blackjack"        -> bet * 2 + bet \div 2

==============================================================================
