------------------------------ MODULE GameEngine ------------------------------
(***************************************************************************)
(* The game engine of core/src/domain/engine: a GameState and the commands  *)
(* that change it.  Every action is one command that is accepted, its       *)
(* handler together with GameState::apply_event on each event it returns;   *)
(* a command that is refused, or accepted with no event, changes nothing.   *)
(*                                                                          *)
(* The shoe is shuffled, so the card under the cursor is any card: only the *)
(* cursor `dealt' is state.  NewRound is the one change a host makes to a   *)
(* GameState other than by a command (table_actor.rs replaces a finished    *)
(* state by a fresh one).                                                   *)
(***************************************************************************)
EXTENDS Hands, Sequences, FiniteSets, SequencesExt

CONSTANTS Player,        \* the PlayerIds
          Nobody,        \* no player: `turn' outside Phase::PlayerTurn
          MaxPlayers,    \* TableSettings::max_players
          MaxObservers,  \* TableSettings::max_observers
          MinBet,        \* TableSettings::min_bet
          MaxBet,        \* TableSettings::max_bet
          Balances,      \* the balances a host loads for a player who sits down
          Cards,         \* the pips that may come out of the shoe
          ShoeSize       \* the number of cards in a new shoe

ASSUME PlayerAssumption == IsFiniteSet(Player) /\ Nobody \notin Player

ASSUME SettingsAssumption ==
  /\ MaxPlayers \in Nat \ {0}
  /\ MaxObservers \in Nat
  /\ MinBet \in Nat \ {0}
  /\ MaxBet \in Nat

ASSUME ChipsAssumption == Balances \subseteq Nat

ASSUME ShoeAssumption == Cards \subseteq Pip /\ ShoeSize \in Nat

VARIABLES phase,      \* GameState::phase
          turn,       \* the player of Phase::PlayerTurn
          players,    \* the ids of GameState::players, in the vector's order
          waiting,    \* the ids of GameState::waiting, in the vector's order
          observers,  \* GameState::observers, whose order nothing reads
          player,     \* the PlayerState of every id in players; of an id in
                      \* waiting, its desired seat
          dealer,     \* the dealer's hand
          dealt       \* the cursor into the shoe

vars == <<phase, turn, players, waiting, observers, player, dealer, dealt>>

-----------------------------------------------------------------------------

Seat == 1..MaxPlayers

\* Phase::InitialDealing is left again by the command that enters it.
Phase == {"WaitingForBets", "PlayerTurn", "DealerTurn", "Payouts", "Finished"}

Decision == {"None", "Stand", "Double"}

\* seat 0 is that of a player without one, bet 0 is None (min_bet is positive),
\* decision is the last one recorded.
PlayerState ==
  [seat : 0..MaxPlayers, hand : Hand, balance : Nat, bet : Nat, decision : Decision]

AtSeat(s, chips) ==
  [seat |-> s, hand |-> EmptyHand, balance |-> chips, bet |-> 0, decision |-> "None"]

NoPlayer == AtSeat(0, 0)

Seated  == Range(players)
Waiting == Range(waiting)

\* Mutant: someone in the queue may join the table once more.
PresentOrQueued == Seated \cup observers

Present == Seated \cup Waiting \cup observers

\* Mutant: cards are dealt to everyone in a seat.
BettorsOrNot == Seated

Bettors == {p \in Seated : player[p].bet # 0}

PlayerFinished(p) ==
  IsBust(player[p].hand) \/ player[p].decision \in {"Stand", "Double"}

StillToPlay(p) == player[p].bet # 0 /\ ~PlayerFinished(p)

\* Mutant: the turn goes to the next in the vector, with a bet or without.
NextInVectorAfter(p) ==
  LET later == {j \in DOMAIN players : \E i \in 1..(j - 1) : players[i] = p}
  IN IF later = {} THEN Nobody ELSE players[Min(later)]

\* The player of the next Phase::PlayerTurn, or Nobody for Phase::DealerTurn:
\* the search goes on from the vector position of the player who is done.
NextPlayerAfter(p) ==
  LET later == {j \in DOMAIN players :
                  /\ \E i \in 1..(j - 1) : players[i] = p
                  /\ StillToPlay(players[j])}
  IN IF later = {} THEN Nobody ELSE players[Min(later)]

\* The search for the successor of a player who leaves starts from the front.
NextPlayerAfterLeave(p) ==
  LET rest == {j \in DOMAIN players : players[j] # p /\ StillToPlay(players[j])}
  IN IF rest = {} THEN Nobody ELSE players[Min(rest)]

\* EventPayload::PhaseChanged out of PlayerTurn.
PassTurnTo(p) ==
  /\ turn' = p
  /\ phase' = IF p = Nobody THEN "DealerTurn" ELSE "PlayerTurn"

CardsRemaining == ShoeSize - dealt

-----------------------------------------------------------------------------
(***************************************************************************)
(* Coming and going.                                                        *)
(***************************************************************************)

JoinTable(p) ==
  /\ p \notin Present
  /\ Cardinality(observers) < MaxObservers
  /\ observers' = observers \cup {p}
  /\ UNCHANGED <<phase, turn, players, waiting, player, dealer, dealt>>

\* Mutant: one seat more than the table has.
FreeSeatsAndOneMore ==
  (1..MaxPlayers + 1) \ {player[q].seat : q \in Seated \cup Waiting}

\* Mutant: the seats the queue has asked for count as free.
FreeSeatsIgnoringQueue == Seat \ {player[q].seat : q \in Seated}

FreeSeats == Seat \ {player[q].seat : q \in Seated \cup Waiting}

\* `seat: None' asks for the lowest free seat, `seat: Some(s)' for s.
SeatsFor(want) == IF want = "any" THEN {Min(FreeSeats)} ELSE FreeSeats

\* PlayerJoined starts at_seat with no chips; before it looks at the next
\* command the host loads the player's balance (table_actor.rs:126-136).
SitDown(p, s, chips) ==
  /\ phase = "WaitingForBets"
  /\ observers' = observers \ {p}
  /\ waiting' = RemoveFirst(waiting, p)
  /\ players' = Append(players, p)
  /\ player' = [player EXCEPT ![p] = AtSeat(s, chips)]
  /\ UNCHANGED <<phase, turn, dealer, dealt>>

QueueForSeat(p, s) ==
  /\ phase # "WaitingForBets"
  /\ observers' = observers \ {p}
  /\ waiting' = Append(waiting, p)
  /\ player' = [player EXCEPT ![p] = AtSeat(s, 0)]
  /\ UNCHANGED <<phase, turn, players, dealer, dealt>>

TakeSeat(p, want, chips) ==
  /\ p \in observers
  /\ FreeSeats # {}
  /\ \E s \in SeatsFor(want) : SitDown(p, s, chips) \/ QueueForSeat(p, s)

\* EventPayload::PlayerLeft and, when it is the leaver's turn, the PhaseChanged
\* that hands the turn on.
GiveUpSeat(p) ==
  /\ p \in Seated
  /\ players' = RemoveFirst(players, p)
  /\ waiting' = RemoveFirst(waiting, p)
  /\ player' = [player EXCEPT ![p] = NoPlayer]
  /\ IF turn = p THEN PassTurnTo(NextPlayerAfterLeave(p)) ELSE UNCHANGED <<phase, turn>>
  /\ UNCHANGED <<dealer, dealt>>

LeaveQueue(p) ==
  /\ p \in Waiting
  /\ waiting' = RemoveFirst(waiting, p)
  /\ player' = [player EXCEPT ![p] = NoPlayer]
  /\ UNCHANGED <<phase, turn, players, dealer, dealt>>

\* Back to watching: the observer limit is not consulted.
LeaveSeat(p) ==
  /\ GiveUpSeat(p) \/ LeaveQueue(p)
  /\ observers' = observers \cup {p}

LeaveTable(p) ==
  \/ /\ GiveUpSeat(p) \/ LeaveQueue(p)
     /\ UNCHANGED observers
  \/ /\ p \in observers
     /\ observers' = observers \ {p}
     /\ UNCHANGED <<phase, turn, players, waiting, player, dealer, dealt>>

-----------------------------------------------------------------------------
(***************************************************************************)
(* Playing a hand.                                                          *)
(***************************************************************************)

\* u32::saturating_sub, with which apply_event takes a stake from a balance.
SaturatingSub(a, b) == IF b <= a THEN a - b ELSE 0

\* Mutant: a bet is checked against the limits of the table only.
BetBeyondBalance(p, amount) ==
  /\ phase = "WaitingForBets"
  /\ p \in Seated
  /\ player[p].bet = 0
  /\ amount \in MinBet..MaxBet
  /\ player' = [player EXCEPT ![p].balance = SaturatingSub(@, amount), ![p].bet = amount]
  /\ UNCHANGED <<phase, turn, players, waiting, observers, dealer, dealt>>

PlaceBet(p, amount) ==
  /\ phase = "WaitingForBets"
  /\ p \in Seated
  /\ player[p].bet = 0
  /\ amount \in MinBet..MaxBet
  /\ amount <= player[p].balance
  /\ player' = [player EXCEPT ![p].balance = SaturatingSub(@, amount), ![p].bet = amount]
  /\ UNCHANGED <<phase, turn, players, waiting, observers, dealer, dealt>>

\* A bust or a 21 ends the turn; on anything less the player stays on turn.
Hit(p, c) ==
  LET new == AddCard(player[p].hand, c) IN
  /\ turn = p
  /\ CardsRemaining > 0
  /\ p \in Seated
  /\ dealt' = dealt + 1
  /\ \/ /\ IsBust(new)
        /\ player' = [player EXCEPT ![p].hand = new]
        /\ PassTurnTo(NextPlayerAfter(p))
     \/ /\ ~IsBust(new) /\ BestValue(new) = 21
        /\ player' = [player EXCEPT ![p].hand = new, ![p].decision = "Stand"]
        /\ PassTurnTo(NextPlayerAfter(p))
     \/ /\ ~IsBust(new) /\ BestValue(new) # 21
        /\ player' = [player EXCEPT ![p].hand = new]
        /\ UNCHANGED <<phase, turn>>
  /\ UNCHANGED <<players, waiting, observers, dealer>>

\* Mutant: the turn passes on but the decision is not recorded.
StandUnrecorded(p) ==
  /\ turn = p
  /\ PassTurnTo(NextPlayerAfter(p))
  /\ UNCHANGED <<players, waiting, observers, player, dealer, dealt>>

\* Also what PlayerTimeout does.
Stand(p) ==
  /\ turn = p
  /\ player' = [player EXCEPT ![p].decision = "Stand"]
  /\ PassTurnTo(NextPlayerAfter(p))
  /\ UNCHANGED <<players, waiting, observers, dealer, dealt>>

DoubleDown(p, c) ==
  LET stake == player[p].bet IN
  /\ turn = p
  /\ p \in Seated
  /\ player[p].hand.cards = 2
  /\ stake # 0
  /\ player[p].balance >= stake
  /\ CardsRemaining > 0
  /\ dealt' = dealt + 1
  /\ player' = [player EXCEPT ![p].balance = SaturatingSub(@, stake),
                              ![p].bet = @ + stake,
                              ![p].hand = AddCard(@, c),
                              ![p].decision = "Double"]
  /\ PassTurnTo(NextPlayerAfter(p))
  /\ UNCHANGED <<players, waiting, observers, dealer>>

-----------------------------------------------------------------------------
(***************************************************************************)
(* The dealer's commands.                                                   *)
(***************************************************************************)

\* Two rounds of cards, in seat order; the lowest seat has the first turn.
DealInitialCards(deal, up, hole) ==
  LET needed == 2 * (Cardinality(Bettors) + 1) IN
  /\ phase = "WaitingForBets"
  /\ Bettors # {}
  /\ CardsRemaining >= needed
  /\ dealt' = dealt + needed
  /\ player' = [p \in Player |->
       IF p \in Bettors
       THEN [player[p] EXCEPT !.hand = AddCard(AddCard(@, deal[p][1]), deal[p][2])]
       ELSE player[p]]
  /\ dealer' = AddCard(AddCard(dealer, up), hole)
  /\ \E first \in Bettors :
       /\ \A q \in Bettors : player[first].seat <= player[q].seat
       /\ PassTurnTo(first)
  /\ UNCHANGED <<players, waiting, observers>>

\* The dealer draws to 17; a shoe that runs out refuses the whole command.
PlayHand ==
  /\ phase = "DealerTurn"
  /\ dealer' \in DealerHands(dealer, Cards)
  /\ dealt' = dealt + (dealer'.cards - dealer.cards)
  /\ dealt' <= ShoeSize
  /\ phase' = "Payouts"
  /\ UNCHANGED <<turn, players, waiting, observers, player>>

\* GameFinished pays every bettor; the bet stays on the PlayerState.
SettleRound ==
  /\ phase = "Payouts"
  /\ player' = [p \in Player |->
       IF p \in Bettors
       THEN [player[p] EXCEPT !.balance =
               @ + Payout(player[p].bet, SettlePlayer(player[p].hand, dealer))]
       ELSE player[p]]
  /\ phase' = "Finished"
  /\ UNCHANGED <<turn, players, waiting, observers, dealer, dealt>>

\* Mutant: a new round that keeps the cards of the last one.
NewRoundWithOldHands ==
  /\ phase' = "WaitingForBets"
  /\ turn' = Nobody
  /\ waiting' = <<>>
  /\ observers' = {}
  /\ dealer' = EmptyHand
  /\ dealt' = 0
  /\ UNCHANGED <<players, player>>

\* Mutant: a new round dealt from the rest of the old shoe.
NewRoundFromOldShoe ==
  /\ phase' = "WaitingForBets"
  /\ turn' = Nobody
  /\ player' = [p \in Player |->
       IF p \in Seated THEN AtSeat(player[p].seat, player[p].balance) ELSE NoPlayer]
  /\ waiting' = <<>>
  /\ observers' = {}
  /\ dealer' = EmptyHand
  /\ UNCHANGED <<players, dealt>>

\* Mutant: the stakes of the last round are given back.
NewRoundReturningStakes ==
  /\ phase' = "WaitingForBets"
  /\ turn' = Nobody
  /\ player' = [p \in Player |->
       IF p \in Seated
       THEN AtSeat(player[p].seat, player[p].balance + player[p].bet) ELSE NoPlayer]
  /\ waiting' = <<>>
  /\ observers' = {}
  /\ dealer' = EmptyHand
  /\ dealt' = 0
  /\ UNCHANGED players

\* The state the host puts in place of any other: new shoe, same seats and
\* balances, and nobody watching or queued (table_actor.rs:203-229).
NewRound ==
  /\ phase' = "WaitingForBets"
  /\ turn' = Nobody
  /\ player' = [p \in Player |->
       IF p \in Seated THEN AtSeat(player[p].seat, player[p].balance) ELSE NoPlayer]
  /\ waiting' = <<>>
  /\ observers' = {}
  /\ dealer' = EmptyHand
  /\ dealt' = 0
  /\ UNCHANGED players

-----------------------------------------------------------------------------

\* GameState::new on an empty table.
Init ==
  /\ phase = "WaitingForBets"
  /\ turn = Nobody
  /\ players = <<>>
  /\ waiting = <<>>
  /\ observers = {}
  /\ player = [p \in Player |-> NoPlayer]
  /\ dealer = EmptyHand
  /\ dealt = 0

Membership(p) ==
  \/ JoinTable(p)
  \/ \E want \in {"any", "this"}, chips \in Balances : TakeSeat(p, want, chips)
  \/ LeaveSeat(p)
  \/ LeaveTable(p)

Play(p) ==
  \/ \E amount \in MinBet..MaxBet : PlaceBet(p, amount)
  \/ \E c \in Cards : Hit(p, c) \/ DoubleDown(p, c)
  \/ Stand(p)

Deal ==
  \E deal \in [Bettors -> Cards \X Cards], up, hole \in Cards :
    DealInitialCards(deal, up, hole)

StartOver == phase = "Finished" /\ NewRound

DealerStep == Deal \/ PlayHand \/ SettleRound \/ StartOver

Next == (\E p \in Player : Membership(p) \/ Play(p)) \/ DealerStep

Spec == Init /\ [][Next]_vars

-----------------------------------------------------------------------------
(***************************************************************************)
(* What the engine promises.                                                *)
(***************************************************************************)

TypeOK ==
  /\ phase \in Phase
  /\ turn \in Player \cup {Nobody}
  /\ players \in Seq(Player)
  /\ waiting \in Seq(Player)
  /\ observers \in SUBSET Player
  /\ player \in [Player -> PlayerState]
  /\ dealer \in Hand
  /\ dealt \in Nat

\* ADR-0003's "three disjoint player states": nobody is in two of the three
\* collections or twice in one of them, whatever was joined, left or queued and
\* in whatever phase.  (So `retain' and RemoveFirst agree.)  The repository does not
\* agree with itself here: ADR-0005:33 and player_state.rs:6-7 speak of a player with
\* several PlayerStates, one for each of several seats.  No command makes a second one
\* (TakeSeat is for observers), and the lookups by PlayerId and the one balance of a
\* player rely on that.
OneStateEach ==
  /\ IsInjective(players)
  /\ IsInjective(waiting)
  /\ Seated \cap Waiting = {}
  /\ observers \cap (Seated \cup Waiting) = {}

\* No seat belongs to two people, seated or queued, and every seat is one of the
\* table's: what the debug_assert of the actor's round reset and the `expect' in
\* OpenBetting rely on.
SeatsExclusive ==
  /\ \A p \in Seated \cup Waiting : player[p].seat \in Seat
  /\ \A p, q \in Seated \cup Waiting :
       player[p].seat = player[q].seat => p = q

\* The turn is always with somebody who can use it: seated, with a bet, neither
\* bust nor done.  Otherwise every command of the round would be refused.
TurnIsPlayable ==
  /\ phase = "PlayerTurn" <=> turn # Nobody
  /\ turn # Nobody => turn \in Seated /\ StillToPlay(turn)

\* Nobody without a stake has cards or a decision, and no hand is so large that
\* the u8 of Hand::value could overflow.
HandsInBounds ==
  /\ \A p \in Player :
       /\ player[p].hand.hard + 10 <= MaxU8
       /\ player[p].bet = 0 => player[p].hand = EmptyHand /\ player[p].decision = "None"
  /\ dealer.hard + 10 <= MaxU8

\* A round begins from nothing: while bets are open nobody has a card or a decision
\* from the last round, nobody is queued and the shoe is whole.
RoundStartsClean ==
  phase = "WaitingForBets" =>
    /\ waiting = <<>>
    /\ dealer = EmptyHand
    /\ dealt = 0
    /\ \A p \in Player : player[p].hand = EmptyHand /\ player[p].decision = "None"

\* The dealer holds the up card and the hole card until the players are done.
DealerHasTwoCards ==
  phase \in {"PlayerTurn", "DealerTurn"} =>
    \E up, hole \in Cards : dealer = TwoCards(up, hole)

\* The round is not settled before the dealer stands, and the dealer stands on
\* the first total of 17 or more.
DealerStandsOn17 ==
  phase \in {"Payouts", "Finished"} => BestValue(dealer) >= 17

\* Ten aces, a two and eight aces come to 20 without a stop at 21; one card more ends
\* the longest hand there is.
LongestHand == 20

\* The cards in the hands of the bettors.
CardsInPlay == SumFunctionOnSet([p \in Player |-> player[p].hand.cards], Bettors)

\* The cards that are gone from the shoe are those on the table and those of bettors
\* who left, at most LongestHand a seat: with seven seats and the dealer's that is
\* less than the shoe of 208, so neither Hit nor PlayHand, whose ShoeEmpty would
\* leave the table in DealerTurn for good, ever runs out.
ShoeNeverRunsOut ==
  /\ \A p \in Seated : player[p].hand.cards <= LongestHand
  /\ dealer.cards <= LongestHand
  /\ dealt <= dealer.cards + CardsInPlay
                 + LongestHand * (MaxPlayers - Cardinality(Bettors))

\* What makes ShoeNeverRunsOut inductive.  A card is worth a point at least, and a
\* hand that goes on past 10 has one card worth two: eleven aces would be 21 and end
\* it.
HandsShort ==
  \A p \in Player :
    /\ player[p].hand.cards <= player[p].hand.hard
    /\ player[p].hand.cards <= LongestHand
    /\ StillToPlay(p) =>
         /\ player[p].hand.hard <= 20
         /\ player[p].hand.hard > 10 => player[p].hand.cards < player[p].hand.hard

\* The inductive invariant.  TurnIsPlayable needs RoundStartsClean (a deal gives the
\* turn to somebody who has not decided yet) and OneStateEach (the next in the
\* vector is somebody else), HandsInBounds needs TurnIsPlayable (nobody who is bust
\* draws), DealerStandsOn17 needs DealerHasTwoCards.
IInv ==
  /\ TypeOK
  /\ OneStateEach
  /\ SeatsExclusive
  /\ TurnIsPlayable
  /\ HandsInBounds
  /\ RoundStartsClean
  /\ DealerHasTwoCards
  /\ DealerStandsOn17

\* With what the shoe needs.
ShoeInv ==
  /\ IInv
  /\ HandsShort
  /\ ShoeNeverRunsOut

\* The chips of a player: the balance and, until the round is settled, the stake.
Chips(p) ==
  player[p].balance + (IF phase = "Finished" THEN 0 ELSE player[p].bet)

\* Betting, doubling, playing and starting over move chips between stake and
\* balance and create or destroy none, although a stake is taken from the balance by a
\* subtraction that would hide one too large: what a player has changes at settlement
\* only, once a round, by what the outcome pays on the whole stake.
ChipsChangeAtSettlementOnly ==
  [][\A p \in Seated \cap Seated' :
       Chips(p)' - Chips(p) =
         IF phase = "Payouts" /\ phase' = "Finished" /\ player[p].bet # 0
         THEN Payout(player[p].bet, SettlePlayer(player[p].hand, dealer)) - player[p].bet
         ELSE 0]_vars

\* A player on turn keeps the turn until done or gone, and whoever is done stays
\* done until the next round: nobody acts twice in a round.
TurnEndsForGood ==
  [][/\ \A p \in Seated' : turn = p /\ turn' # p => PlayerFinished(p)'
     /\ \A p \in Seated \cap Seated' :
          phase # "Finished" /\ PlayerFinished(p) => PlayerFinished(p)' /\ turn' # p]_vars

\* Every bettor acts: the dealer does not play while somebody in a seat has a bet
\* and a hand that is neither bust nor stood on.
EveryBettorActs ==
  phase \in {"DealerTurn", "Payouts", "Finished"} => \A p \in Seated : ~StillToPlay(p)

\* ADR-0003: at the start of each new round the waiting players are promoted to
\* seats.
WaitersPromoted ==
  [][phase = "Finished" /\ phase' = "WaitingForBets" => Waiting \subseteq Seated']_vars

==============================================================================
