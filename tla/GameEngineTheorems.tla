-------------------------- MODULE GameEngineTheorems --------------------------
(***************************************************************************)
(* The invariants of GameEngine, for any players, seats, limits and cards.  *)
(* IInv is shown to hold initially and to be preserved by each action, one  *)
(* lemma for each; the invariants are its conjuncts.  From IInv, and from   *)
(* what each action does to balances and turns, follow the two properties   *)
(* of steps: chips move at settlement only, and a turn ends for good.       *)
(***************************************************************************)
EXTENDS GameEngine, OperatorLemmas

USE SettingsAssumption

\* The collections of GameState hold PlayerIds, and only a seated player can be a bettor.
LEMMA SetsType ==
  ASSUME TypeOK
  PROVE  /\ Seated \subseteq Player
         /\ Waiting \subseteq Player
         /\ Bettors \subseteq Seated
PROOF
  BY RangeType DEF TypeOK, Seated, Waiting, Bettors

\* The record of somebody who has no seat is a PlayerState.
LEMMA NoPlayerType == NoPlayer \in PlayerState
PROOF
  BY EmptyHandType DEF NoPlayer, AtSeat, PlayerState, Decision

\* PlayerState::at_seat builds a PlayerState.
LEMMA AtSeatType ==
  ASSUME NEW s \in 0..MaxPlayers, NEW chips \in Nat
  PROVE  AtSeat(s, chips) \in PlayerState
PROOF
  BY EmptyHandType DEF AtSeat, PlayerState, Decision

\* Who is next is somebody else, in a seat and able to use the turn.
LEMMA NextPlayer ==
  ASSUME TypeOK, IsInjective(players), NEW p \in Player
  PROVE  \/ NextPlayerAfter(p) = Nobody
         \/ /\ NextPlayerAfter(p) \in Seated \ {p}
            /\ StillToPlay(NextPlayerAfter(p))
PROOF
<1> DEFINE later == {j \in DOMAIN players :
                       /\ \E i \in 1..(j - 1) : players[i] = p
                       /\ StillToPlay(players[j])}
<1>1. CASE later = {}
  BY <1>1 DEF NextPlayerAfter
<1>2. CASE later # {}
  <2>1. players \in Seq(Player) /\ DOMAIN players = 1..Len(players) /\ Len(players) \in Nat
    BY LenProperties DEF TypeOK
  <2> later \in SUBSET Nat
    BY <2>1
  <2>2. Min(later) \in later
    <3> HIDE DEF later
    <3> QED
      BY <1>2, MinIsLeast
  <2> DEFINE j == Min(later)
  <2> HIDE DEF j
  <2>3. PICK i \in 1..(j - 1) : players[i] = p
    BY <2>2 DEF j
  <2>4. j \in 1..Len(players) /\ StillToPlay(players[j])
    BY <2>1, <2>2 DEF j
  <2>5. i \in DOMAIN players /\ j \in DOMAIN players /\ i # j
    BY <2>1, <2>4
  <2>6. players[j] # p /\ players[j] \in Seated
    BY <2>3, <2>5 DEF IsInjective, Seated, Range
  <2>7. NextPlayerAfter(p) = players[j]
    BY <1>2 DEF NextPlayerAfter, j
  <2> QED
    BY <2>4, <2>6, <2>7
<1> QED
  BY <1>1, <1>2

\* The successor of a player who leaves is somebody else who can use the turn, too.
LEMMA NextPlayerOnLeave ==
  ASSUME TypeOK, NEW p \in Player
  PROVE  \/ NextPlayerAfterLeave(p) = Nobody
         \/ /\ NextPlayerAfterLeave(p) \in Seated \ {p}
            /\ StillToPlay(NextPlayerAfterLeave(p))
PROOF
<1> DEFINE rest == {j \in DOMAIN players : players[j] # p /\ StillToPlay(players[j])}
<1>1. CASE rest = {}
  BY <1>1 DEF NextPlayerAfterLeave
<1>2. CASE rest # {}
  <2>1. players \in Seq(Player) /\ DOMAIN players = 1..Len(players) /\ Len(players) \in Nat
    BY LenProperties DEF TypeOK
  <2> rest \in SUBSET Nat
    BY <2>1
  <2>2. Min(rest) \in rest
    <3> HIDE DEF rest
    <3> QED
      BY <1>2, MinIsLeast
  <2>3. NextPlayerAfterLeave(p) = players[Min(rest)]
    BY <1>2 DEF NextPlayerAfterLeave
  <2> QED
    BY <2>2, <2>3 DEF Seated, Range
<1> QED
  BY <1>1, <1>2

\* A seat that is asked for is one of the table's and nobody's.
LEMMA SeatGiven ==
  ASSUME NEW want, FreeSeats # {}, NEW s \in SeatsFor(want)
  PROVE  s \in FreeSeats /\ s \in Seat
PROOF
<1>1. FreeSeats \in SUBSET Nat /\ FreeSeats \subseteq Seat
  BY DEF FreeSeats, Seat
<1>2. Min(FreeSeats) \in FreeSeats
  BY <1>1, MinIsLeast
<1> QED
  BY <1>1, <1>2 DEF SeatsFor

-----------------------------------------------------------------------------

\* A membership command, whatever balance the host has for a new player.
AnyMembership(p) ==
  \/ JoinTable(p)
  \/ \E want \in {"any", "this"}, chips \in Nat : TakeSeat(p, want, chips)
  \/ LeaveSeat(p)
  \/ LeaveTable(p)

\* Balances are such balances.
LEMMA MembershipOfHost ==
  ASSUME NEW p, Membership(p)
  PROVE  AnyMembership(p)
PROOF
  BY ChipsAssumption DEF Membership, AnyMembership

\* What the engine does for a host that may give a new player any balance.
Moves == (\E p \in Player : AnyMembership(p) \/ Play(p)) \/ DealerStep

\* Its own steps are such moves.
LEMMA NextIsMove == Next => Moves
PROOF
  BY MembershipOfHost DEF Next, Moves

\* A new table satisfies the invariant.
LEMMA InitInv == Init => IInv
PROOF
<1>1. SUFFICES ASSUME Init PROVE IInv
  OBVIOUS
<1>2. Seated = {} /\ Waiting = {}
  BY <1>1 DEF Init, Seated, Waiting, Range
<1>3. TypeOK
  BY <1>1, NoPlayerType, EmptyHandType DEF Init, TypeOK, Phase
<1>4. OneStateEach
  BY <1>1, <1>2 DEF Init, OneStateEach, IsInjective
<1>5. SeatsExclusive
  BY <1>2 DEF SeatsExclusive
<1>6. TurnIsPlayable
  BY <1>1 DEF Init, TurnIsPlayable
<1>7. HandsInBounds
  <2>1. NoPlayer.hand = EmptyHand /\ NoPlayer.decision = "None"
    BY DEF NoPlayer, AtSeat
  <2>2. EmptyHand.hard + 10 <= MaxU8
    BY DEF EmptyHand, MaxU8
  <2> QED
    BY <1>1, <2>1, <2>2 DEF Init, HandsInBounds
<1>8. RoundStartsClean
  BY <1>1 DEF Init, RoundStartsClean, NoPlayer, AtSeat
<1>9. DealerHasTwoCards /\ DealerStandsOn17
  BY <1>1 DEF Init, DealerHasTwoCards, DealerStandsOn17
<1> QED
  BY <1>3, <1>4, <1>5, <1>6, <1>7, <1>8, <1>9 DEF IInv

\* Somebody new comes to watch: only OneStateEach is at stake.
LEMMA JoinTableInv ==
  ASSUME IInv, NEW p \in Player, JoinTable(p)
  PROVE  IInv'
PROOF
<1> USE DEF IInv, JoinTable
<1>1. Seated' = Seated /\ Waiting' = Waiting
  BY DEF Seated, Waiting
<1>2. TypeOK'
  BY DEF TypeOK
<1>3. OneStateEach'
  BY <1>1 DEF OneStateEach, Present
<1>4. SeatsExclusive'
  BY <1>1 DEF SeatsExclusive
<1>5. TurnIsPlayable'
  BY <1>1 DEF TurnIsPlayable, StillToPlay, PlayerFinished
<1>6. HandsInBounds' /\ RoundStartsClean' /\ DealerHasTwoCards' /\ DealerStandsOn17'
  BY DEF HandsInBounds, RoundStartsClean, DealerHasTwoCards, DealerStandsOn17
<1> QED
  BY <1>2, <1>3, <1>4, <1>5, <1>6

\* A seat that is free for all, those in the queue included, keeps SeatsExclusive; the
\* new player has neither bet nor cards.
LEMMA TakeSeatInv ==
  ASSUME IInv, NEW p \in Player, NEW want, NEW chips \in Nat, TakeSeat(p, want, chips)
  PROVE  IInv'
PROOF
<1> USE DEF IInv
<1>1. PICK s \in SeatsFor(want) : SitDown(p, s, chips) \/ QueueForSeat(p, s)
  BY DEF TakeSeat
<1>2. s \in FreeSeats /\ s \in Seat /\ s \in 1..MaxPlayers
  BY SeatGiven DEF TakeSeat, Seat
<1>3. p \notin Seated /\ p \notin Waiting /\ turn # p
  <2>1. p \notin Seated /\ p \notin Waiting
    BY DEF TakeSeat, OneStateEach
  <2>2. p # Nobody
    BY PlayerAssumption
  <2> QED
    BY <2>1, <2>2 DEF TurnIsPlayable
<1>4. chips \in Nat
  OBVIOUS
<1>5. \A q \in Seated \cup Waiting : player[q].seat # s
  BY <1>2 DEF FreeSeats
<1>6. CASE SitDown(p, s, chips)
  <2> USE <1>6 DEF SitDown
  <2>1. /\ players' \in Seq(Player) /\ Seated' = Seated \cup {p} /\ IsInjective(players')
        /\ waiting' \in Seq(Player) /\ Waiting' = Waiting /\ IsInjective(waiting')
    <3>1. players' \in Seq(Player) /\ Seated' = Seated \cup {p} /\ IsInjective(players')
      BY <1>3, AppendElement DEF TypeOK, OneStateEach, Seated
    <3>2. waiting' = waiting
      BY <1>3, RemoveFirstAbsent DEF TypeOK, Waiting
    <3> QED
      BY <3>1, <3>2 DEF TypeOK, OneStateEach, Waiting
  <2>2. AtSeat(s, chips) \in PlayerState
    BY <1>2, <1>4, AtSeatType
  <2>3. /\ player'[p] = AtSeat(s, chips)
        /\ \A q \in Player : q # p => player'[q] = player[q]
    BY DEF TypeOK
  <2>4. TypeOK'
    BY <2>1, <2>2 DEF TypeOK
  <2>5. OneStateEach'
    BY <1>3, <2>1 DEF OneStateEach
  <2>6. SeatsExclusive'
    BY <1>2, <1>3, <1>5, <2>1, <2>3, SetsType DEF SeatsExclusive, AtSeat
  <2>7. TurnIsPlayable'
    BY <1>3, <2>1, <2>3, SetsType DEF TurnIsPlayable, StillToPlay, PlayerFinished
  <2>8. HandsInBounds' /\ RoundStartsClean'
    <3>1. waiting' = <<>>
      BY RemoveFirstAbsent, <1>3 DEF RoundStartsClean, TypeOK, Waiting
    <3> QED
      BY <2>3, <3>1 DEF HandsInBounds, RoundStartsClean, AtSeat, EmptyHand, MaxU8
  <2>9. DealerHasTwoCards' /\ DealerStandsOn17'
    BY DEF DealerHasTwoCards, DealerStandsOn17
  <2> QED
    BY <2>4, <2>5, <2>6, <2>7, <2>8, <2>9
<1>7. CASE QueueForSeat(p, s)
  <2> USE <1>7 DEF QueueForSeat
  <2>1. /\ Seated' = Seated
        /\ waiting' \in Seq(Player) /\ Waiting' = Waiting \cup {p} /\ IsInjective(waiting')
    BY <1>3, AppendElement DEF TypeOK, OneStateEach, Seated, Waiting
  <2>2. AtSeat(s, 0) \in PlayerState
    BY <1>2, AtSeatType
  <2>3. /\ player'[p] = AtSeat(s, 0)
        /\ \A q \in Player : q # p => player'[q] = player[q]
    BY DEF TypeOK
  <2>4. TypeOK'
    BY <2>1, <2>2 DEF TypeOK
  <2>5. OneStateEach'
    BY <1>3, <2>1 DEF OneStateEach
  <2>6. SeatsExclusive'
    BY <1>2, <1>3, <1>5, <2>1, <2>3, SetsType DEF SeatsExclusive, AtSeat
  <2>7. TurnIsPlayable'
    BY <1>3, <2>1, <2>3, SetsType DEF TurnIsPlayable, StillToPlay, PlayerFinished
  <2>8. HandsInBounds' /\ RoundStartsClean'
    BY <2>3 DEF HandsInBounds, RoundStartsClean, AtSeat, EmptyHand, MaxU8
  <2>9. DealerHasTwoCards' /\ DealerStandsOn17'
    BY DEF DealerHasTwoCards, DealerStandsOn17
  <2> QED
    BY <2>4, <2>5, <2>6, <2>7, <2>8, <2>9
<1> QED
  BY <1>1, <1>6, <1>7

\* The turn goes to someone who can use it, or to the dealer.
LEMMA PassTurnInv ==
  ASSUME IInv, phase = "PlayerTurn", NEW q, PassTurnTo(q), UNCHANGED dealer,
         q = Nobody \/ (q \in Player /\ q \in Seated' /\ StillToPlay(q)')
  PROVE  /\ phase' \in Phase /\ turn' \in Player \cup {Nobody}
         /\ phase' # "WaitingForBets"
         /\ TurnIsPlayable' /\ DealerHasTwoCards' /\ DealerStandsOn17'
PROOF
<1>1. turn' = q /\ phase' = IF q = Nobody THEN "DealerTurn" ELSE "PlayerTurn"
  BY DEF PassTurnTo
<1>2. q \in Player => q # Nobody
  BY PlayerAssumption
<1>3. TurnIsPlayable'
  BY <1>1, <1>2 DEF TurnIsPlayable
<1>4. DealerHasTwoCards' /\ DealerStandsOn17'
  BY <1>1 DEF IInv, DealerHasTwoCards, DealerStandsOn17
<1> QED
  BY <1>1, <1>3, <1>4 DEF Phase

\* Leaving a seat removes the player everywhere and hands the turn on to somebody who
\* is still there.
LEMMA GiveUpSeatInv ==
  ASSUME IInv, NEW p \in Player, GiveUpSeat(p),
         observers' = observers \cup {p} \/ observers' = observers
  PROVE  IInv'
PROOF
<1> USE DEF IInv, GiveUpSeat
<1>1. /\ players' \in Seq(Player) /\ Seated' = Seated \ {p} /\ IsInjective(players')
      /\ waiting' \in Seq(Player) /\ Waiting' = Waiting /\ waiting' = waiting
  <2>1. players' \in Seq(Player) /\ Seated' = Seated \ {p} /\ IsInjective(players')
    BY RemoveFirstProperties DEF TypeOK, OneStateEach, Seated
  <2>2. waiting' = waiting
    BY RemoveFirstAbsent DEF TypeOK, OneStateEach, Waiting
  <2> QED
    BY <2>1, <2>2 DEF TypeOK, Waiting
<1>2. /\ player' \in [Player -> PlayerState]
      /\ player'[p] = NoPlayer
      /\ \A q \in Player : q # p => player'[q] = player[q]
  BY NoPlayerType DEF TypeOK
<1>3. OneStateEach'
  BY <1>1 DEF OneStateEach
<1>4. SeatsExclusive'
  <2>1. p \notin Seated' /\ p \notin Waiting'
    BY <1>1 DEF OneStateEach
  <2> QED
    BY <1>1, <1>2, <2>1, SetsType DEF SeatsExclusive
<1>5. HandsInBounds'
  BY <1>2 DEF HandsInBounds, NoPlayer, AtSeat, EmptyHand, MaxU8
<1>6. /\ phase' \in Phase /\ turn' \in Player \cup {Nobody}
      /\ TurnIsPlayable' /\ DealerHasTwoCards' /\ DealerStandsOn17' /\ RoundStartsClean'
  <2>1. CASE turn # p
    <3>1. UNCHANGED <<phase, turn>>
      BY <2>1
    <3>2. TurnIsPlayable'
      BY <1>1, <1>2, <2>1, <3>1, SetsType DEF TurnIsPlayable, StillToPlay, PlayerFinished
    <3>3. RoundStartsClean'
      BY <1>1, <1>2, <3>1 DEF RoundStartsClean, NoPlayer, AtSeat
    <3> QED
      BY <3>1, <3>2, <3>3 DEF TypeOK, DealerHasTwoCards, DealerStandsOn17
  <2>2. CASE turn = p
    <3>1. PICK q : q = NextPlayerAfterLeave(p)
      OBVIOUS
    <3>2. phase = "PlayerTurn"
      BY <2>2, PlayerAssumption DEF TurnIsPlayable
    <3>3. q = Nobody \/ (q \in Seated \ {p} /\ StillToPlay(q))
      BY <3>1, NextPlayerOnLeave
    <3>4. q = Nobody \/ (q \in Player /\ q \in Seated' /\ StillToPlay(q)')
      BY <1>1, <1>2, <3>3, SetsType DEF StillToPlay, PlayerFinished
    <3>5. PassTurnTo(q) /\ UNCHANGED dealer
      BY <2>2, <3>1
    <3> QED
      BY <3>2, <3>4, <3>5, PassTurnInv DEF RoundStartsClean
  <2> QED
    BY <2>1, <2>2
<1>7. TypeOK'
  BY <1>1, <1>2, <1>6 DEF TypeOK
<1> QED
  BY <1>3, <1>4, <1>5, <1>6, <1>7

\* Leaving the queue frees the seat that was asked for.
LEMMA LeaveQueueInv ==
  ASSUME IInv, NEW p \in Player, LeaveQueue(p),
         observers' = observers \cup {p} \/ observers' = observers
  PROVE  IInv'
PROOF
<1> USE DEF IInv, LeaveQueue
<1>1. /\ Seated' = Seated
      /\ waiting' \in Seq(Player) /\ Waiting' = Waiting \ {p} /\ IsInjective(waiting')
  BY RemoveFirstProperties DEF TypeOK, OneStateEach, Seated, Waiting
<1>2. /\ player' \in [Player -> PlayerState]
      /\ player'[p] = NoPlayer
      /\ \A q \in Player : q # p => player'[q] = player[q]
  BY NoPlayerType DEF TypeOK
<1>3. p \notin Seated
  BY DEF OneStateEach
<1>4. OneStateEach'
  BY <1>1, <1>3 DEF OneStateEach
<1>5. SeatsExclusive'
  BY <1>1, <1>2, <1>3, SetsType DEF SeatsExclusive
<1>6. TurnIsPlayable'
  BY <1>1, <1>2, <1>3, SetsType DEF TurnIsPlayable, StillToPlay, PlayerFinished
<1>7. HandsInBounds'
  BY <1>2 DEF HandsInBounds, NoPlayer, AtSeat, EmptyHand, MaxU8
<1>8. RoundStartsClean'
  BY SetsType DEF RoundStartsClean, Waiting, Range
<1>9. DealerHasTwoCards' /\ DealerStandsOn17'
  BY DEF DealerHasTwoCards, DealerStandsOn17
<1>10. TypeOK'
  BY <1>1, <1>2 DEF TypeOK
<1> QED
  BY <1>4, <1>5, <1>6, <1>7, <1>8, <1>9, <1>10

\* LeaveSeat: as the two lemmas above, and back among the observers.
LEMMA LeaveSeatInv ==
  ASSUME IInv, NEW p \in Player, LeaveSeat(p)
  PROVE  IInv'
PROOF
  BY GiveUpSeatInv, LeaveQueueInv DEF LeaveSeat

\* LeaveTable: the same, or an observer less.
LEMMA LeaveTableInv ==
  ASSUME IInv, NEW p \in Player, LeaveTable(p)
  PROVE  IInv'
PROOF
<1>1. CASE GiveUpSeat(p) /\ UNCHANGED observers
  BY <1>1, GiveUpSeatInv
<1>2. CASE LeaveQueue(p) /\ UNCHANGED observers
  BY <1>2, LeaveQueueInv
<1>3. CASE observers' = observers \ {p}
           /\ UNCHANGED <<phase, turn, players, waiting, player, dealer, dealt>>
  <2> USE <1>3 DEF IInv
  <2>1. Seated' = Seated /\ Waiting' = Waiting
    BY DEF Seated, Waiting
  <2>2. TypeOK' /\ OneStateEach' /\ SeatsExclusive'
    BY <2>1 DEF TypeOK, OneStateEach, SeatsExclusive
  <2>3. TurnIsPlayable'
    BY <2>1 DEF TurnIsPlayable, StillToPlay, PlayerFinished
  <2>4. HandsInBounds' /\ RoundStartsClean' /\ DealerHasTwoCards' /\ DealerStandsOn17'
    BY DEF HandsInBounds, RoundStartsClean, DealerHasTwoCards, DealerStandsOn17
  <2> QED
    BY <2>2, <2>3, <2>4
<1> QED
  BY <1>1, <1>2, <1>3 DEF LeaveTable

\* Coming and going, whatever balance a new player brings.
LEMMA MembershipInv ==
  ASSUME IInv, NEW p \in Player, AnyMembership(p)
  PROVE  IInv'
PROOF
  BY JoinTableInv, TakeSeatInv, LeaveSeatInv, LeaveTableInv DEF AnyMembership

-----------------------------------------------------------------------------

\* A bet is covered by the balance and gives nobody a card.
LEMMA PlaceBetInv ==
  ASSUME IInv, NEW p \in Player, NEW amount \in MinBet..MaxBet, PlaceBet(p, amount)
  PROVE  IInv'
PROOF
<1> USE DEF IInv, PlaceBet, SaturatingSub
<1>1. Seated' = Seated /\ Waiting' = Waiting
  BY DEF Seated, Waiting
<1>2. player[p] \in PlayerState /\ amount \in Nat /\ player[p].balance - amount \in Nat
  BY DEF TypeOK, PlayerState
<1>3. /\ player' \in [Player -> PlayerState]
      /\ player'[p].seat = player[p].seat
      /\ player'[p].hand = player[p].hand
      /\ player'[p].decision = player[p].decision
      /\ \A q \in Player : q # p => player'[q] = player[q]
  BY <1>2 DEF TypeOK, PlayerState
<1>4. TypeOK' /\ OneStateEach' /\ RoundStartsClean'
  BY <1>1, <1>3 DEF TypeOK, OneStateEach, RoundStartsClean
<1>5. SeatsExclusive'
  BY <1>1, <1>3, SetsType DEF SeatsExclusive
<1>6. TurnIsPlayable'
  BY DEF TurnIsPlayable
<1>7. HandsInBounds'
  BY <1>3 DEF HandsInBounds, RoundStartsClean
<1>8. DealerHasTwoCards' /\ DealerStandsOn17'
  BY DEF DealerHasTwoCards, DealerStandsOn17
<1> QED
  BY <1>4, <1>5, <1>6, <1>7, <1>8

\* Hit, Stand and DoubleDown have this in common: the player on turn gets a hand
\* that is still in bounds and may decide; the turn stays where it is, with the hand
\* still in play, or is passed on.
LEMMA MoveInv ==
  ASSUME IInv, NEW p \in Player, turn = p,
         player' \in [Player -> PlayerState],
         player'[p].seat = player[p].seat,
         player'[p].bet # 0,
         player'[p].hand.hard + 10 <= MaxU8,
         \A q \in Player : q # p => player'[q] = player[q],
         dealt' \in Nat,
         UNCHANGED <<players, waiting, observers, dealer>>,
         \/ UNCHANGED <<phase, turn>> /\ StillToPlay(p)'
         \/ PassTurnTo(NextPlayerAfter(p))
  PROVE  IInv'
PROOF
<1> USE DEF IInv
<1>1. Seated' = Seated /\ Waiting' = Waiting
  BY DEF Seated, Waiting
<1>2. phase = "PlayerTurn" /\ p \in Seated
  BY PlayerAssumption DEF TurnIsPlayable
<1>3. OneStateEach'
  BY <1>1 DEF OneStateEach
<1>4. SeatsExclusive'
  BY <1>1, SetsType DEF SeatsExclusive
<1>5. HandsInBounds'
  BY DEF HandsInBounds
<1>6. /\ phase' \in Phase /\ turn' \in Player \cup {Nobody}
      /\ phase' # "WaitingForBets"
      /\ TurnIsPlayable' /\ DealerHasTwoCards' /\ DealerStandsOn17'
  <2>1. CASE UNCHANGED <<phase, turn>> /\ StillToPlay(p)'
    BY <1>1, <1>2, <2>1, PlayerAssumption
    DEF TypeOK, TurnIsPlayable, DealerHasTwoCards, DealerStandsOn17
  <2>2. CASE PassTurnTo(NextPlayerAfter(p))
    <3>1. PICK q : q = NextPlayerAfter(p)
      OBVIOUS
    <3>2. q = Nobody \/ (q \in Seated \ {p} /\ StillToPlay(q))
      BY <3>1, NextPlayer DEF OneStateEach
    <3>3. q = Nobody \/ (q \in Player /\ q \in Seated' /\ StillToPlay(q)')
      BY <1>1, <3>2, SetsType DEF StillToPlay, PlayerFinished
    <3> QED
      BY <1>2, <2>2, <3>1, <3>3, PassTurnInv
  <2> QED
    BY <2>1, <2>2
<1>7. TypeOK' /\ RoundStartsClean'
  BY <1>6 DEF TypeOK, RoundStartsClean
<1> QED
  BY <1>3, <1>4, <1>5, <1>6, <1>7

\* Hit draws for a hand that is not bust, so the sum stays in bounds.
LEMMA HitInv ==
  ASSUME IInv, NEW p \in Player, NEW c \in Cards, Hit(p, c)
  PROVE  IInv'
PROOF
<1> USE DEF IInv
<1> DEFINE new == AddCard(player[p].hand, c)
<1>1. turn = p /\ StillToPlay(p)
  BY PlayerAssumption DEF Hit, TurnIsPlayable
<1>2. player[p] \in PlayerState /\ player[p].hand \in Hand /\ c \in Pip
  BY ShoeAssumption DEF TypeOK, PlayerState
<1>3. new \in Hand /\ new.hard = player[p].hand.hard + c
  BY <1>2, AddCardType
<1>4. new.hard + 10 <= MaxU8
  BY <1>1, <1>2, <1>3 DEF StillToPlay, PlayerFinished, IsBust, MaxU8, Hand, Pip
<1> HIDE DEF new
<1>5. \/ player' = [player EXCEPT ![p].hand = new]
      \/ player' = [player EXCEPT ![p].hand = new, ![p].decision = "Stand"]
  BY DEF Hit, new
<1>6. /\ player' \in [Player -> PlayerState]
      /\ player'[p].seat = player[p].seat
      /\ player'[p].bet = player[p].bet
      /\ player'[p].hand = new
      /\ \A q \in Player : q # p => player'[q] = player[q]
  <2>1. CASE player' = [player EXCEPT ![p].hand = new]
    BY <1>2, <1>3, <2>1 DEF TypeOK, PlayerState
  <2>2. CASE player' = [player EXCEPT ![p].hand = new, ![p].decision = "Stand"]
    BY <1>2, <1>3, <2>2 DEF TypeOK, PlayerState, Decision
  <2> QED
    BY <1>5, <2>1, <2>2
<1>7. dealt' \in Nat /\ UNCHANGED <<players, waiting, observers, dealer>>
  BY DEF Hit, TypeOK
<1>8. CASE PassTurnTo(NextPlayerAfter(p))
  BY <1>1, <1>4, <1>6, <1>7, <1>8, MoveInv DEF StillToPlay
<1>9. CASE /\ ~IsBust(new) /\ player' = [player EXCEPT ![p].hand = new]
           /\ UNCHANGED <<phase, turn>>
  <2>1. player'[p].decision = player[p].decision
    BY <1>2, <1>9 DEF TypeOK, PlayerState
  <2>2. StillToPlay(p)'
    BY <1>1, <1>6, <1>9, <2>1 DEF StillToPlay, PlayerFinished
  <2> QED
    BY <1>1, <1>4, <1>6, <1>7, <1>9, <2>2, MoveInv DEF StillToPlay
<1> QED
  BY <1>8, <1>9 DEF Hit, new

\* Stand, and PlayerTimeout with it, records a decision and hands the turn on.
LEMMA StandInv ==
  ASSUME IInv, NEW p \in Player, Stand(p)
  PROVE  IInv'
PROOF
<1> USE DEF IInv, Stand
<1>1. StillToPlay(p)
  BY PlayerAssumption DEF TurnIsPlayable
<1>2. player[p] \in PlayerState
  BY DEF TypeOK
<1>3. /\ player' \in [Player -> PlayerState]
      /\ player'[p].seat = player[p].seat
      /\ player'[p].bet = player[p].bet
      /\ player'[p].hand = player[p].hand
      /\ \A q \in Player : q # p => player'[q] = player[q]
  BY <1>2 DEF TypeOK, PlayerState, Decision
<1>4. player'[p].hand.hard + 10 <= MaxU8
  BY <1>3 DEF HandsInBounds
<1>5. dealt' \in Nat
  BY DEF TypeOK
<1> QED
  BY <1>1, <1>3, <1>4, <1>5, MoveInv DEF StillToPlay

\* The second stake of DoubleDown is covered by the balance.
LEMMA DoubleDownInv ==
  ASSUME IInv, NEW p \in Player, NEW c \in Cards, DoubleDown(p, c)
  PROVE  IInv'
PROOF
<1> USE DEF IInv, DoubleDown, SaturatingSub
<1> DEFINE new == AddCard(player[p].hand, c)
<1>1. StillToPlay(p)
  BY PlayerAssumption DEF TurnIsPlayable
<1>2. player[p] \in PlayerState /\ player[p].hand \in Hand /\ c \in Pip
  BY ShoeAssumption DEF TypeOK, PlayerState
<1>3. new \in Hand /\ new.hard = player[p].hand.hard + c
  BY <1>2, AddCardType
<1>4. new.hard + 10 <= MaxU8
  BY <1>1, <1>2, <1>3 DEF StillToPlay, PlayerFinished, IsBust, MaxU8, Hand, Pip
<1>5. player' = [player EXCEPT ![p] = [@ EXCEPT !.balance = @ - player[p].bet,
                                                !.bet = @ + player[p].bet,
                                                !.hand = new,
                                                !.decision = "Double"]]
  BY <1>2 DEF TypeOK, PlayerState
<1> HIDE DEF new
<1>6. /\ player[p].balance - player[p].bet \in Nat
      /\ player[p].bet + player[p].bet \in Nat \ {0}
  BY <1>2 DEF PlayerState
<1>7. /\ player' \in [Player -> PlayerState]
      /\ player'[p].seat = player[p].seat
      /\ player'[p].bet = player[p].bet + player[p].bet
      /\ player'[p].hand = new
      /\ \A q \in Player : q # p => player'[q] = player[q]
  BY <1>2, <1>3, <1>5, <1>6 DEF TypeOK, PlayerState, Decision
<1>8. dealt' \in Nat
  BY DEF TypeOK
<1> QED
  BY <1>4, <1>6, <1>7, <1>8, MoveInv

-----------------------------------------------------------------------------

\* The number of cards needed for a deal is a number.
LEMMA BettorsFinite ==
  ASSUME TypeOK
  PROVE  Cardinality(Bettors) \in Nat
PROOF
<1>1. Bettors \subseteq Player /\ IsFiniteSet(Player)
  BY SetsType, PlayerAssumption
<1> QED
  BY <1>1, FS_Subset, FS_CardinalityType

\* The deal gives two cards to every bettor and the first turn to one of them.
LEMMA DealInitialCardsInv ==
  ASSUME IInv, NEW deal \in [Bettors -> Cards \X Cards], NEW up \in Cards, NEW hole \in Cards,
         DealInitialCards(deal, up, hole)
  PROVE  IInv'
PROOF
<1> USE DEF IInv, DealInitialCards
<1>1. Seated' = Seated /\ Waiting' = Waiting
  BY DEF Seated, Waiting
<1>2. Cards \subseteq Pip
  BY ShoeAssumption
<1>3. ASSUME NEW q \in Bettors
      PROVE  /\ player'[q] \in PlayerState
             /\ player'[q].seat = player[q].seat
             /\ player'[q].bet = player[q].bet
             /\ player'[q].decision = player[q].decision
             /\ player'[q].hand.hard \in 0..20
  <2> DEFINE new == TwoCards(deal[q][1], deal[q][2])
  <2>1. q \in Player /\ player[q].hand = EmptyHand
    BY SetsType DEF RoundStartsClean
  <2>2. player[q] \in PlayerState
    BY <2>1 DEF TypeOK
  <2>3. deal[q][1] \in Pip /\ deal[q][2] \in Pip
    BY <1>2
  <2>4. new \in Hand /\ new.hard \in 0..20
    BY <2>3, TwoCardsType DEF Pip
  <2>5. player'[q] = [player[q] EXCEPT !.hand = new]
    <3>1. player'[q] = [player[q] EXCEPT !.hand =
                          AddCard(AddCard(player[q].hand, deal[q][1]), deal[q][2])]
      BY <2>1, <2>2 DEF PlayerState
    <3> QED
      BY <2>1, <3>1 DEF TwoCards
  <2> HIDE DEF new
  <2> QED
    BY <2>2, <2>4, <2>5 DEF PlayerState
<1>4. ASSUME NEW q \in Player \ Bettors
      PROVE  player'[q] = player[q] /\ player'[q] \in PlayerState
  BY DEF TypeOK
<1>5. player' \in [Player -> PlayerState]
  BY <1>3, <1>4
<1>6. dealer' = TwoCards(up, hole)
  BY DEF RoundStartsClean, TwoCards
<1>7. dealer' \in Hand /\ dealer'.hard <= 20
  BY <1>2, <1>6, TwoCardsType DEF Pip
<1>8. PICK first \in Bettors : PassTurnTo(first)
  OBVIOUS
<1>9. /\ first \in Player /\ first \in Seated /\ first # Nobody
      /\ turn' = first /\ phase' = "PlayerTurn"
  BY <1>8, SetsType, PlayerAssumption DEF PassTurnTo
<1>10. TypeOK'
  BY <1>5, <1>7, <1>9, BettorsFinite DEF TypeOK, Phase
<1>11. OneStateEach'
  BY <1>1 DEF OneStateEach
<1>12. SeatsExclusive'
  BY <1>1, <1>3, <1>4, SetsType DEF SeatsExclusive
<1>13. TurnIsPlayable'
  <2>1. player'[first].bet # 0
    BY <1>3 DEF Bettors
  <2>2. player'[first].decision = "None"
    BY <1>3, <1>9 DEF RoundStartsClean
  <2>3. ~IsBust(player'[first].hand)
    <3> HIDE DEF IInv, DealInitialCards
    <3>1. player'[first].hand.hard \in 0..20
      BY <1>3
    <3> QED
      BY <3>1 DEF IsBust
  <2> QED
    BY <1>1, <1>9, <2>1, <2>2, <2>3 DEF TurnIsPlayable, StillToPlay, PlayerFinished
<1>14. HandsInBounds'
  <2>1. ASSUME NEW q \in Player
        PROVE  player'[q].hand.hard + 10 <= MaxU8
    <3>1. CASE q \in Bettors
      <4> HIDE DEF IInv, DealInitialCards
      <4>1. player'[q].hand.hard \in 0..20
        BY <1>3, <3>1
      <4> QED
        BY <4>1 DEF MaxU8
    <3>2. CASE q \notin Bettors
      BY <1>4, <3>2 DEF HandsInBounds
    <3> QED
      BY <3>1, <3>2
  <2>2. ASSUME NEW q \in Player, player'[q].bet = 0
        PROVE  player'[q].hand = EmptyHand /\ player'[q].decision = "None"
    BY <1>3, <1>4, <2>2 DEF HandsInBounds, Bettors
  <2> QED
    BY <1>7, <2>1, <2>2 DEF HandsInBounds, MaxU8, Hand
<1>15. RoundStartsClean' /\ DealerHasTwoCards' /\ DealerStandsOn17'
  BY <1>6, <1>9 DEF RoundStartsClean, DealerHasTwoCards, DealerStandsOn17
<1> QED
  BY <1>10, <1>11, <1>12, <1>13, <1>14, <1>15

\* The dealer's loop ends on 17 or more, by the theorems about Hands.
LEMMA PlayHandInv ==
  ASSUME IInv, PlayHand
  PROVE  IInv'
PROOF
<1> USE DEF IInv, PlayHand
<1>1. Seated' = Seated /\ Waiting' = Waiting
  BY DEF Seated, Waiting
<1>2. Cards \in SUBSET Pip /\ dealer \in Hand
  BY ShoeAssumption DEF TypeOK
<1>3. /\ dealer' \in Hand
      /\ dealer'.cards >= dealer.cards
      /\ dealer'.hard <= dealer.hard \/ dealer'.hard <= 26
  BY <1>2, DealerHandsType
<1>4. BestValue(dealer') >= 17
  <2>1. PICK up \in Cards, hole \in Cards : dealer = TwoCards(up, hole)
    BY DEF DealerHasTwoCards
  <2> QED
    BY <1>2, <2>1, DealerLoopEnds
<1>5. TypeOK'
  BY <1>2, <1>3 DEF TypeOK, Phase, Hand
<1>6. OneStateEach' /\ SeatsExclusive'
  BY <1>1 DEF OneStateEach, SeatsExclusive
<1>7. TurnIsPlayable'
  BY DEF TurnIsPlayable
<1>8. HandsInBounds'
  BY <1>2, <1>3 DEF HandsInBounds, MaxU8, Hand
<1>9. RoundStartsClean' /\ DealerHasTwoCards' /\ DealerStandsOn17'
  BY <1>4 DEF RoundStartsClean, DealerHasTwoCards, DealerStandsOn17
<1> QED
  BY <1>5, <1>6, <1>7, <1>8, <1>9

\* Settlement pays whole chips and touches no hand.
LEMMA SettleRoundInv ==
  ASSUME IInv, SettleRound
  PROVE  IInv'
PROOF
<1> USE DEF IInv, SettleRound
<1>1. Seated' = Seated /\ Waiting' = Waiting
  BY DEF Seated, Waiting
<1>2. ASSUME NEW q \in Player
      PROVE  /\ player'[q] \in PlayerState
             /\ player'[q].seat = player[q].seat
             /\ player'[q].bet = player[q].bet
             /\ player'[q].hand = player[q].hand
             /\ player'[q].decision = player[q].decision
  <2> DEFINE pay == Payout(player[q].bet, SettlePlayer(player[q].hand, dealer))
  <2>1. player[q] \in PlayerState
    BY DEF TypeOK
  <2>2. pay \in Nat
    BY <2>1, OutcomeType, PayoutType DEF TypeOK, PlayerState
  <2> HIDE DEF pay
  <2>3. player'[q] = IF q \in Bettors THEN [player[q] EXCEPT !.balance = @ + pay] ELSE player[q]
    BY DEF pay
  <2> QED
    BY <2>1, <2>2, <2>3 DEF PlayerState
<1>3. TypeOK'
  BY <1>2 DEF TypeOK, Phase
<1>4. OneStateEach'
  BY <1>1 DEF OneStateEach
<1>5. SeatsExclusive'
  BY <1>1, <1>2, SetsType DEF SeatsExclusive
<1>6. TurnIsPlayable'
  BY DEF TurnIsPlayable
<1>7. HandsInBounds'
  BY <1>2 DEF HandsInBounds
<1>8. RoundStartsClean' /\ DealerHasTwoCards' /\ DealerStandsOn17'
  BY DEF RoundStartsClean, DealerHasTwoCards, DealerStandsOn17
<1> QED
  BY <1>3, <1>4, <1>5, <1>6, <1>7, <1>8

\* Whatever the phase it replaces: the host does not look at it.
LEMMA NewRoundInv ==
  ASSUME IInv, NewRound
  PROVE  IInv'
PROOF
<1> USE DEF IInv, NewRound
<1>1. Seated' = Seated /\ Waiting' = {}
  BY DEF Seated, Waiting, Range
<1>2. ASSUME NEW q \in Player
      PROVE  /\ player'[q] \in PlayerState
             /\ q \in Seated => player'[q].seat = player[q].seat
             /\ player'[q].hand = EmptyHand
             /\ player'[q].decision = "None"
  <2>1. player[q].seat \in 0..MaxPlayers /\ player[q].balance \in Nat
    BY DEF TypeOK, PlayerState
  <2>2. AtSeat(player[q].seat, player[q].balance) \in PlayerState /\ NoPlayer \in PlayerState
    BY <2>1, AtSeatType, NoPlayerType
  <2> QED
    BY <2>2 DEF AtSeat, NoPlayer
<1>3. TypeOK'
  BY <1>2, EmptyHandType DEF TypeOK, Phase
<1>4. OneStateEach'
  BY <1>1 DEF OneStateEach, IsInjective
<1>5. SeatsExclusive'
  BY <1>1, <1>2, SetsType DEF SeatsExclusive
<1>6. TurnIsPlayable'
  BY DEF TurnIsPlayable
<1>7. HandsInBounds'
  BY <1>2 DEF HandsInBounds, EmptyHand, MaxU8
<1>8. RoundStartsClean'
  BY <1>2 DEF RoundStartsClean
<1>9. DealerHasTwoCards' /\ DealerStandsOn17'
  BY DEF DealerHasTwoCards, DealerStandsOn17
<1> QED
  BY <1>3, <1>4, <1>5, <1>6, <1>7, <1>8, <1>9

\* A step that changes nothing keeps the invariant.
LEMMA StutterInv ==
  ASSUME IInv, UNCHANGED vars
  PROVE  IInv'
PROOF
<1> USE DEF IInv, vars
<1>1. Seated' = Seated /\ Waiting' = Waiting
  BY DEF Seated, Waiting
<1>2. TypeOK' /\ OneStateEach' /\ SeatsExclusive'
  BY <1>1 DEF TypeOK, OneStateEach, SeatsExclusive
<1>3. TurnIsPlayable'
  BY <1>1 DEF TurnIsPlayable, StillToPlay, PlayerFinished
<1>4. HandsInBounds' /\ RoundStartsClean' /\ DealerHasTwoCards' /\ DealerStandsOn17'
  BY DEF HandsInBounds, RoundStartsClean, DealerHasTwoCards, DealerStandsOn17
<1> QED
  BY <1>2, <1>3, <1>4

\* Every step of the engine keeps the invariant.
LEMMA StepInv == IInv /\ [Next]_vars => IInv'
PROOF
<1>1. SUFFICES ASSUME IInv, [Next]_vars PROVE IInv'
  OBVIOUS
<1>2. ASSUME NEW p \in Player, Membership(p)
      PROVE  IInv'
  BY <1>1, <1>2, MembershipOfHost, MembershipInv
<1>3. ASSUME NEW p \in Player, Play(p)
      PROVE  IInv'
  BY <1>1, <1>3, PlaceBetInv, HitInv, StandInv, DoubleDownInv DEF Play
<1>4. CASE DealerStep
  BY <1>1, <1>4, DealInitialCardsInv, PlayHandInv, SettleRoundInv, NewRoundInv
  DEF DealerStep, Deal, StartOver
<1>5. CASE UNCHANGED vars
  BY <1>1, <1>5, StutterInv
<1> QED
  BY <1>1, <1>2, <1>3, <1>4, <1>5 DEF Next

\* IInv is an invariant of the engine: whatever commands come in, in whatever order,
\* the collections, the seats, the turn and the hands stay consistent.
THEOREM Invariance == Spec => []IInv
PROOF
<1> QED
  BY InitInv, StepInv, PTL DEF Spec

-----------------------------------------------------------------------------

\* Every variable keeps its type: in particular no stake exceeds the balance it is
\* taken from, so the saturating_sub of apply_event never cuts a stake short.
THEOREM TypeCorrect == Spec => []TypeOK
PROOF
<1>1. IInv => TypeOK
  BY DEF IInv
<1> QED
  BY <1>1, Invariance, PTL

\* The three collections of GameState stay disjoint and free of repetitions, however
\* players join, sit down, queue, get up and leave.
THEOREM OneStateEachHolds == Spec => []OneStateEach
PROOF
<1>1. IInv => OneStateEach
  BY DEF IInv
<1> QED
  BY <1>1, Invariance, PTL

\* The seats of the people seated and queued are the table's and all different.
THEOREM SeatsExclusiveHolds == Spec => []SeatsExclusive
PROOF
<1>1. IInv => SeatsExclusive
  BY DEF IInv
<1> QED
  BY <1>1, Invariance, PTL

\* The turn is never with somebody who left, has no bet or has finished.
THEOREM TurnIsPlayableHolds == Spec => []TurnIsPlayable
PROOF
<1>1. IInv => TurnIsPlayable
  BY DEF IInv
<1> QED
  BY <1>1, Invariance, PTL

\* The u8 sum of Hand::value cannot overflow, however many cards are dealt.
THEOREM HandsInBoundsHolds == Spec => []HandsInBounds
PROOF
<1>1. IInv => HandsInBounds
  BY DEF IInv
<1> QED
  BY <1>1, Invariance, PTL

\* Every round begins with empty hands, an empty queue and a whole shoe.
THEOREM RoundStartsCleanHolds == Spec => []RoundStartsClean
PROOF
<1>1. IInv => RoundStartsClean
  BY DEF IInv
<1> QED
  BY <1>1, Invariance, PTL

\* No round is settled against a dealer who should have drawn another card.
THEOREM DealerStandsOn17Holds == Spec => []DealerStandsOn17
PROOF
<1>1. IInv => DealerStandsOn17
  BY DEF IInv
<1> QED
  BY <1>1, Invariance, PTL

-----------------------------------------------------------------------------
(***************************************************************************)
(* What a step may never do.  Both follow from IInv before the step.        *)
(***************************************************************************)

ChipsStep ==
  \A p \in Seated \cap Seated' :
    Chips(p)' - Chips(p) =
      IF phase = "Payouts" /\ phase' = "Finished" /\ player[p].bet # 0
      THEN Payout(player[p].bet, SettlePlayer(player[p].hand, dealer)) - player[p].bet
      ELSE 0

TurnStep ==
  /\ \A p \in Seated' : turn = p /\ turn' # p => PlayerFinished(p)'
  /\ \A p \in Seated \cap Seated' :
       phase # "Finished" /\ PlayerFinished(p) => PlayerFinished(p)' /\ turn' # p

\* The phases in which cards are played or handed on, and the players they are about.
LEMMA TurnPhase ==
  ASSUME IInv
  PROVE  /\ \A p \in Player : turn = p => phase = "PlayerTurn" /\ StillToPlay(p)
         /\ \A p \in Player : p # Nobody
         /\ phase # "PlayerTurn" => turn = Nobody
PROOF
  BY PlayerAssumption DEF IInv, TurnIsPlayable

\* The players are the same before and after a membership command, except the one
\* who gives it; and nobody's phase becomes or ceases to be Finished by it.
LEMMA MembershipStep ==
  ASSUME IInv, NEW q \in Player, AnyMembership(q)
  PROVE  /\ \A p \in Seated \cap Seated' : player'[p] = player[p]
         /\ phase = "Finished" <=> phase' = "Finished"
         /\ turn' = turn \/ (turn = q /\ q \notin Seated' /\ turn' = NextPlayerAfterLeave(q))
PROOF
<1>1. CASE JoinTable(q)
  BY <1>1 DEF JoinTable
<1>2. ASSUME NEW want, NEW chips, TakeSeat(q, want, chips)
      PROVE  /\ \A p \in Seated \cap Seated' : player'[p] = player[p]
             /\ UNCHANGED <<phase, turn>>
  <2>1. q \notin Seated
    BY <1>2 DEF TakeSeat, IInv, OneStateEach
  <2>2. PICK s \in SeatsFor(want) : SitDown(q, s, chips) \/ QueueForSeat(q, s)
    BY <1>2 DEF TakeSeat
  <2>3. UNCHANGED <<phase, turn>> /\ \E x : player' = [player EXCEPT ![q] = x]
    BY <2>2 DEF SitDown, QueueForSeat
  <2> QED
    BY <2>1, <2>3, SetsType DEF IInv, TypeOK
<1>3. CASE GiveUpSeat(q)
  <2>1. Seated' = Seated \ {q}
    BY <1>3, RemoveFirstProperties DEF GiveUpSeat, IInv, TypeOK, OneStateEach, Seated
  <2>2. \A p \in Seated \cap Seated' : player'[p] = player[p]
    BY <1>3, <2>1, SetsType DEF GiveUpSeat, IInv, TypeOK
  <2>3. CASE turn = q
    <3>1. PassTurnTo(NextPlayerAfterLeave(q))
      BY <1>3, <2>3 DEF GiveUpSeat
    <3>2. phase = "PlayerTurn" /\ phase' \in {"PlayerTurn", "DealerTurn"}
      BY <2>3, <3>1, TurnPhase DEF PassTurnTo
    <3> QED
      BY <2>1, <2>2, <2>3, <3>1, <3>2 DEF PassTurnTo
  <2>4. CASE turn # q
    BY <1>3, <2>2, <2>4 DEF GiveUpSeat
  <2> QED
    BY <2>3, <2>4
<1>4. CASE LeaveQueue(q)
  <2>1. q \notin Seated
    BY <1>4 DEF LeaveQueue, IInv, OneStateEach
  <2> QED
    BY <1>4, <2>1, SetsType DEF LeaveQueue, IInv, TypeOK
<1>5. CASE UNCHANGED <<phase, turn, player>>
  BY <1>5
<1> QED
  BY <1>1, <1>2, <1>3, <1>4, <1>5 DEF AnyMembership, LeaveSeat, LeaveTable

\* What hands a player's chips from one place to another.
LEMMA ChipsOfState ==
  ASSUME IInv, NEW p \in Player
  PROVE  /\ player[p] \in PlayerState
         /\ player[p].balance \in Nat /\ player[p].bet \in Nat
         /\ Chips(p) \in Nat
PROOF
  BY DEF IInv, TypeOK, PlayerState, Chips

\* A command of the player on turn, or a bet: stake and balance keep their sum.
LEMMA PlayChips ==
  ASSUME IInv, NEW q \in Player, Play(q), NEW p \in Player
  PROVE  /\ player'[p].balance + player'[p].bet = player[p].balance + player[p].bet
         /\ phase # "Finished" /\ phase' # "Finished"
PROOF
<1>1. player[q] \in PlayerState /\ player[q].balance \in Nat /\ player[q].bet \in Nat
      /\ player[p].balance \in Nat /\ player[p].bet \in Nat
  BY ChipsOfState
<1>2. player \in [Player -> PlayerState]
  BY DEF IInv, TypeOK
<1>3. ASSUME NEW amount \in MinBet..MaxBet, PlaceBet(q, amount)
      PROVE  /\ player'[p].balance + player'[p].bet = player[p].balance + player[p].bet
             /\ phase = "WaitingForBets" /\ phase' = phase
  <2>1. player[q].bet = 0 /\ amount \in Nat
        /\ player' = [player EXCEPT ![q].balance = @ - amount, ![q].bet = amount]
        /\ phase = "WaitingForBets" /\ phase' = phase
    BY <1>3 DEF PlaceBet, SaturatingSub
  <2>2. player'[q].balance = player[q].balance - amount /\ player'[q].bet = amount
    BY <1>1, <1>2, <2>1 DEF PlayerState
  <2> QED
    BY <1>1, <1>2, <2>1, <2>2
<1>4. ASSUME NEW c \in Cards, Hit(q, c)
      PROVE  player'[p].balance = player[p].balance /\ player'[p].bet = player[p].bet
  <2> DEFINE new == AddCard(player[q].hand, c)
  <2>1. \/ player' = [player EXCEPT ![q].hand = new]
        \/ player' = [player EXCEPT ![q].hand = new, ![q].decision = "Stand"]
    BY <1>4 DEF Hit
  <2> HIDE DEF new
  <2> QED
    BY <1>1, <1>2, <2>1 DEF PlayerState
<1>5. ASSUME Stand(q)
      PROVE  player'[p].balance = player[p].balance /\ player'[p].bet = player[p].bet
  BY <1>1, <1>2, <1>5 DEF Stand, PlayerState
<1>6. ASSUME NEW c \in Cards, DoubleDown(q, c)
      PROVE  player'[p].balance + player'[p].bet = player[p].balance + player[p].bet
  <2> DEFINE new == AddCard(player[q].hand, c)
  <2>1. player' = [player EXCEPT ![q].balance = @ - player[q].bet,
                                 ![q].bet = @ + player[q].bet,
                                 ![q].hand = AddCard(@, c),
                                 ![q].decision = "Double"]
    BY <1>6 DEF DoubleDown, SaturatingSub
  <2>2. player'[q].balance = player[q].balance - player[q].bet
        /\ player'[q].bet = player[q].bet + player[q].bet
    BY <1>1, <1>2, <2>1 DEF PlayerState
  <2>3. p # q => player'[p] = player[p]
    BY <1>2, <2>1
  <2> QED
    BY <1>1, <2>2, <2>3
<1>7. ASSUME turn = q, phase' = phase \/ \E x : PassTurnTo(x)
      PROVE  phase # "Finished" /\ phase' # "Finished"
  BY <1>7, TurnPhase DEF PassTurnTo
<1>8. ASSUME NEW c \in Cards, Hit(q, c) \/ DoubleDown(q, c) \/ Stand(q)
      PROVE  turn = q /\ (phase' = phase \/ \E x : PassTurnTo(x))
  BY <1>8 DEF Hit, DoubleDown, SaturatingSub, Stand
<1>9. ASSUME Stand(q)
      PROVE  turn = q /\ (phase' = phase \/ \E x : PassTurnTo(x))
  BY <1>9 DEF Stand
<1> QED
  BY <1>3, <1>4, <1>5, <1>6, <1>7, <1>8, <1>9 DEF Play

\* The deal gives out cards and moves no chips.
LEMMA DealStakes ==
  ASSUME IInv, Deal
  PROVE  /\ phase = "WaitingForBets" /\ phase' = "PlayerTurn"
         /\ players' = players
         /\ \A p \in Player : /\ player'[p].balance = player[p].balance
                             /\ player'[p].bet = player[p].bet
                             /\ player'[p].decision = player[p].decision
PROOF
<1>1. PICK deal \in [Bettors -> Cards \X Cards], up \in Cards, hole \in Cards :
        DealInitialCards(deal, up, hole)
  BY DEF Deal
<1>2. ASSUME NEW p \in Player
      PROVE  player'[p] = player[p] \/ \E h : player'[p] = [player[p] EXCEPT !.hand = h]
  BY <1>1 DEF DealInitialCards
<1>3. \A p \in Player : player[p] \in PlayerState
  BY ChipsOfState
<1>4. \A p \in Player : /\ player'[p].balance = player[p].balance
                       /\ player'[p].bet = player[p].bet
                       /\ player'[p].decision = player[p].decision
  BY <1>2, <1>3 DEF PlayerState
<1>5. PICK first \in Bettors : PassTurnTo(first)
  BY <1>1 DEF DealInitialCards
<1>6. first # Nobody
  BY SetsType, PlayerAssumption DEF IInv
<1> QED
  BY <1>1, <1>4, <1>5, <1>6 DEF DealInitialCards, PassTurnTo

\* No step but settlement changes what a player has, and settlement by the outcome.
LEMMA ChipsMove ==
  ASSUME IInv, Next
  PROVE  ChipsStep
PROOF
<1> SUFFICES ASSUME NEW p \in Seated, p \in Seated'
             PROVE  Chips(p)' - Chips(p) =
                      IF phase = "Payouts" /\ phase' = "Finished" /\ player[p].bet # 0
                      THEN Payout(player[p].bet, SettlePlayer(player[p].hand, dealer))
                             - player[p].bet
                      ELSE 0
  BY DEF ChipsStep
<1>1. /\ p \in Player /\ player[p] \in PlayerState /\ Chips(p) \in Nat
      /\ player[p].balance \in Nat /\ player[p].bet \in Nat
  BY ChipsOfState, SetsType DEF IInv
<1>2. ASSUME NEW q \in Player, Membership(q)
      PROVE  Chips(p)' = Chips(p) /\ ~(phase = "Payouts" /\ phase' = "Finished")
  BY <1>2, MembershipOfHost, MembershipStep DEF Chips
<1>3. ASSUME NEW q \in Player, Play(q)
      PROVE  Chips(p)' = Chips(p) /\ ~(phase = "Payouts" /\ phase' = "Finished")
  BY <1>1, <1>3, PlayChips DEF Chips
<1>4. CASE Deal
  <2>1. phase = "WaitingForBets" /\ phase' = "PlayerTurn"
        /\ player'[p].balance = player[p].balance /\ player'[p].bet = player[p].bet
    BY <1>1, <1>4, DealStakes
  <2> QED
    BY <1>1, <2>1 DEF Chips
<1>5. CASE PlayHand
  BY <1>1, <1>5 DEF PlayHand, Chips
<1>6. CASE SettleRound
  <2> DEFINE pay == Payout(player[p].bet, SettlePlayer(player[p].hand, dealer))
  <2>1. player[p].hand \in Hand /\ dealer \in Hand
    BY <1>1 DEF IInv, TypeOK, PlayerState
  <2>2. pay \in Nat
    BY <1>1, <2>1, OutcomeType, PayoutType
  <2>3. player'[p] = IF p \in Bettors THEN [player[p] EXCEPT !.balance = @ + pay] ELSE player[p]
    BY <1>1, <1>6 DEF SettleRound
  <2>4. p \in Bettors <=> player[p].bet # 0
    BY DEF Bettors
  <2>5. phase = "Payouts" /\ phase' = "Finished"
    BY <1>6 DEF SettleRound
  <2> HIDE DEF pay
  <2>6. player'[p].balance = IF player[p].bet # 0 THEN player[p].balance + pay
                             ELSE player[p].balance
    BY <1>1, <2>3, <2>4 DEF PlayerState
  <2>7. Chips(p)' - Chips(p) = IF player[p].bet # 0 THEN pay - player[p].bet ELSE 0
    BY <1>1, <2>2, <2>5, <2>6 DEF Chips
  <2> QED
    BY <2>5, <2>7 DEF pay
<1>7. CASE StartOver
  BY <1>1, <1>7 DEF StartOver, NewRound, Chips, AtSeat
<1> QED
  BY <1>1, <1>2, <1>3, <1>4, <1>5, <1>6, <1>7 DEF Next, DealerStep

\* Who gives the turn away is done, and nobody who is done is undone.
LEMMA PlayTurn ==
  ASSUME IInv, NEW q \in Player, Play(q)
  PROVE  TurnStep
PROOF
<1>1. player[q] \in PlayerState /\ player \in [Player -> PlayerState] /\ Seated \subseteq Player
  BY SetsType DEF IInv, TypeOK
<1>2. ASSUME NEW amount \in MinBet..MaxBet, PlaceBet(q, amount)
      PROVE  TurnStep
  <2>1. /\ players' = players /\ turn' = turn /\ turn = Nobody
        /\ player' = [player EXCEPT ![q].balance = @ - amount, ![q].bet = amount]
    BY <1>2, TurnPhase DEF PlaceBet, SaturatingSub
  <2>2. \A p \in Player : /\ player'[p].hand = player[p].hand
                          /\ player'[p].decision = player[p].decision
    BY <1>1, <2>1 DEF PlayerState
  <2> QED
    BY <1>1, <2>1, <2>2, TurnPhase DEF TurnStep, PlayerFinished, Seated
<1>3. ASSUME turn = q, players' = players,
             \A p \in Player \ {q} : player'[p] = player[p],
             \/ turn' = turn
             \/ turn' = NextPlayerAfter(q) /\ PlayerFinished(q)'
      PROVE  TurnStep
  <2>1. StillToPlay(q)
    BY <1>3, TurnPhase
  <2>2. NextPlayerAfter(q) = Nobody \/ StillToPlay(NextPlayerAfter(q))
    BY NextPlayer DEF IInv, OneStateEach
  <2>3. Seated' = Seated
    BY <1>3 DEF Seated
  <2>4. ASSUME NEW p \in Seated, PlayerFinished(p)
        PROVE  PlayerFinished(p)' /\ turn' # p
    <3>1. p \in Player /\ p # q
      BY <1>1, <2>1, <2>4 DEF StillToPlay
    <3>2. PlayerFinished(p)'
      BY <1>3, <2>4, <3>1 DEF PlayerFinished
    <3>3. turn' # p
      BY <1>3, <2>2, <2>4, <3>1, TurnPhase DEF StillToPlay
    <3> QED
      BY <3>2, <3>3
  <2> QED
    BY <1>3, <2>3, <2>4 DEF TurnStep
<1>4. ASSUME NEW c \in Cards, Hit(q, c)
      PROVE  TurnStep
  <2> DEFINE new == AddCard(player[q].hand, c)
  <2>1. turn = q /\ players' = players
    BY <1>4 DEF Hit
  <2>2. CASE /\ IsBust(new) /\ player' = [player EXCEPT ![q].hand = new]
             /\ PassTurnTo(NextPlayerAfter(q))
    <3> HIDE DEF new
    <3>1. PlayerFinished(q)'
      BY <1>1, <2>2 DEF PlayerFinished, PlayerState
    <3> QED
      BY <1>1, <1>3, <2>1, <2>2, <3>1 DEF PassTurnTo
  <2>3. CASE /\ player' = [player EXCEPT ![q].hand = new, ![q].decision = "Stand"]
             /\ PassTurnTo(NextPlayerAfter(q))
    <3> HIDE DEF new
    <3>1. PlayerFinished(q)'
      BY <1>1, <2>3 DEF PlayerFinished, PlayerState
    <3> QED
      BY <1>1, <1>3, <2>1, <2>3, <3>1 DEF PassTurnTo
  <2>4. CASE player' = [player EXCEPT ![q].hand = new] /\ UNCHANGED <<phase, turn>>
    <3> HIDE DEF new
    <3> QED
      BY <1>1, <1>3, <2>1, <2>4
  <2> QED
    BY <1>4, <2>2, <2>3, <2>4 DEF Hit
<1>5. ASSUME Stand(q)
      PROVE  TurnStep
  <2>1. PlayerFinished(q)'
    BY <1>1, <1>5 DEF Stand, PlayerFinished, PlayerState
  <2> QED
    BY <1>1, <1>3, <1>5, <2>1 DEF Stand, PassTurnTo
<1>6. ASSUME NEW c \in Cards, DoubleDown(q, c)
      PROVE  TurnStep
  <2>1. /\ player'[q].decision = "Double"
        /\ \A p \in Player \ {q} : player'[p] = player[p]
    BY <1>1, <1>6 DEF DoubleDown, SaturatingSub, PlayerState
  <2>2. PlayerFinished(q)'
    BY <2>1 DEF PlayerFinished
  <2> QED
    BY <1>3, <1>6, <2>1, <2>2 DEF DoubleDown, SaturatingSub, PassTurnTo
<1> QED
  BY <1>2, <1>4, <1>5, <1>6 DEF Play

\* The same for the commands of membership and of the dealer.
LEMMA TurnMove ==
  ASSUME IInv, Moves
  PROVE  TurnStep
PROOF
<1>1. Seated \subseteq Player
  BY SetsType DEF IInv
<1>2. ASSUME NEW q \in Player, AnyMembership(q)
      PROVE  TurnStep
  <2>1. NextPlayerAfterLeave(q) = Nobody \/ StillToPlay(NextPlayerAfterLeave(q))
    BY NextPlayerOnLeave DEF IInv
  <2>2. ASSUME NEW p \in Seated', turn = p, turn' # p
        PROVE  FALSE
    BY <1>2, <2>2, MembershipStep
  <2>3. ASSUME NEW p \in Seated, p \in Seated', PlayerFinished(p)
        PROVE  PlayerFinished(p)' /\ turn' # p
    <3>1. player'[p] = player[p]
      BY <1>2, <2>3, MembershipStep
    <3>2. turn' = turn \/ turn' = Nobody \/ StillToPlay(turn')
      BY <1>2, <2>1, MembershipStep
    <3>3. p \in Player /\ p # Nobody /\ turn # p
      BY <1>1, <2>3, TurnPhase DEF StillToPlay
    <3> QED
      BY <2>3, <3>1, <3>2, <3>3 DEF PlayerFinished, StillToPlay
  <2> QED
    BY <2>2, <2>3 DEF TurnStep
<1>3. ASSUME NEW q \in Player, Play(q)
      PROVE  TurnStep
  BY <1>3, PlayTurn
<1>4. CASE Deal
  <2>1. phase = "WaitingForBets" /\ players' = players
    BY <1>4 DEF Deal, DealInitialCards
  <2>2. Seated' = Seated /\ turn = Nobody
    BY <2>1, TurnPhase DEF Seated
  <2>3. \A p \in Player : ~PlayerFinished(p)
    BY <2>1 DEF IInv, RoundStartsClean, PlayerFinished, IsBust, EmptyHand
  <2> QED
    BY <1>1, <2>2, <2>3, TurnPhase DEF TurnStep
<1>5. CASE PlayHand
  BY <1>1, <1>5, TurnPhase DEF PlayHand, TurnStep, Seated, PlayerFinished
<1>6. CASE SettleRound
  <2>1. players' = players /\ turn' = turn /\ turn = Nobody
    BY <1>6, TurnPhase DEF SettleRound
  <2>2. ASSUME NEW p \in Player
        PROVE  player'[p].hand = player[p].hand /\ player'[p].decision = player[p].decision
    <3>1. player[p] \in PlayerState
      BY ChipsOfState
    <3>2. player'[p] = player[p] \/ \E b : player'[p] = [player[p] EXCEPT !.balance = b]
      BY <1>6 DEF SettleRound
    <3> QED
      BY <3>1, <3>2 DEF PlayerState
  <2> QED
    BY <1>1, <2>1, <2>2, TurnPhase DEF TurnStep, PlayerFinished, Seated
<1>7. CASE StartOver
  <2>1. phase = "Finished" /\ turn = Nobody /\ players' = players
    BY <1>7, TurnPhase DEF StartOver, NewRound
  <2> QED
    BY <1>1, <2>1, TurnPhase DEF TurnStep, Seated
<1> QED
  BY <1>2, <1>3, <1>4, <1>5, <1>6, <1>7 DEF Moves, DealerStep

\* Betting, doubling, leaving and starting over create and destroy no chips; settlement
\* pays each outcome exactly once, on the whole stake.
THEOREM ChipsChangeHolds == Spec => ChipsChangeAtSettlementOnly
PROOF
<1>1. IInv /\ [Next]_vars => [ChipsStep]_vars
  BY ChipsMove
<1> QED
  BY <1>1, Invariance, PTL DEF Spec, ChipsChangeAtSettlementOnly, ChipsStep

\* A turn is handed on by its player's own finish only, and nobody acts twice.
THEOREM TurnEndsForGoodHolds == Spec => TurnEndsForGood
PROOF
<1>1. IInv /\ [Next]_vars => [TurnStep]_vars
  BY NextIsMove, TurnMove
<1> QED
  BY <1>1, Invariance, PTL DEF Spec, TurnEndsForGood, TurnStep
-----------------------------------------------------------------------------
(***************************************************************************)
(* The shoe.  A hand that is still played has at most 20 points and, past   *)
(* 10 of them, fewer cards than points, so that no hand gets more than      *)
(* LongestHand cards; the rest is counting: a draw adds one card to a       *)
(* bettor's hand, and a bettor who leaves took LongestHand at most.         *)
(***************************************************************************)

\* No more people have a seat than there are seats.
LEMMA FewSeats ==
  ASSUME NEW S, NEW seat, NEW n \in Nat, \A p \in S : seat[p] \in 1..n,
         \A p, q \in S : seat[p] = seat[q] => p = q
  PROVE  IsFiniteSet(S) /\ Cardinality(S) \in Nat /\ Cardinality(S) <= n
PROOF
<1> DEFINE f == [p \in S |-> seat[p]]
<1>1. f \in Injection(S, 1..n)
  BY DEF Injection, IsInjective
<1>2. IsFiniteSet(1..n) /\ Cardinality(1..n) = n
  BY FS_Interval
<1> QED
  BY <1>1, <1>2, FS_Injection, FS_CardinalityType

\* Before and after a step there are at most as many bettors as seats, and the cards
\* in their hands are a number.
LEMMA BettorsFew ==
  ASSUME IInv
  PROVE  /\ IsFiniteSet(Bettors) /\ Cardinality(Bettors) \in Nat
         /\ Cardinality(Bettors) <= MaxPlayers
         /\ Bettors \subseteq Player
         /\ \A p \in Player : player[p].hand.cards \in Nat
         /\ CardsInPlay \in Nat /\ dealer.cards \in Nat /\ dealt \in Nat
PROOF
<1> DEFINE seat == [p \in Player |-> player[p].seat]
           F == [p \in Player |-> player[p].hand.cards]
<1>1. TypeOK /\ SeatsExclusive /\ Bettors \subseteq Seated /\ Bettors \subseteq Player
  BY SetsType DEF IInv
<1>2. \A p \in Bettors : seat[p] \in 1..MaxPlayers
  BY <1>1 DEF SeatsExclusive, Seat
<1>3. \A p, q \in Bettors : seat[p] = seat[q] => p = q
  BY <1>1 DEF SeatsExclusive
<1> HIDE DEF seat
<1>4. /\ IsFiniteSet(Bettors) /\ Cardinality(Bettors) \in Nat
      /\ Cardinality(Bettors) <= MaxPlayers
  BY <1>2, <1>3, FewSeats
<1>5. \A p \in Player : player[p].hand.cards \in Nat
  BY <1>1 DEF TypeOK, PlayerState, Hand
<1>6. \A p \in Bettors : F[p] \in Nat
  BY <1>1, <1>5
<1> HIDE DEF F
<1>7. SumFunctionOnSet(F, Bettors) \in Nat
  BY <1>4, <1>6, SumType
<1> QED
  BY <1>1, <1>4, <1>5, <1>7 DEF CardsInPlay, F, TypeOK, Hand

\* BettorsFew of the next state.
LEMMA BettorsFewNext ==
  ASSUME IInv'
  PROVE  /\ IsFiniteSet(Bettors') /\ Cardinality(Bettors') \in Nat
         /\ Cardinality(Bettors') <= MaxPlayers
         /\ Bettors' \subseteq Player
         /\ \A p \in Player : player'[p].hand.cards \in Nat
         /\ CardsInPlay' \in Nat /\ dealer'.cards \in Nat /\ dealt' \in Nat
PROOF
<1>1. (IInv => /\ IsFiniteSet(Bettors) /\ Cardinality(Bettors) \in Nat
               /\ Cardinality(Bettors) <= MaxPlayers
               /\ Bettors \subseteq Player
               /\ \A p \in Player : player[p].hand.cards \in Nat
               /\ CardsInPlay \in Nat /\ dealer.cards \in Nat /\ dealt \in Nat)'
  BY BettorsFew, PTL
<1> QED
  BY <1>1

\* A step after which bets are open leaves the shoe whole and the hands empty.
LEMMA ShoeFresh ==
  ASSUME IInv', phase' = "WaitingForBets"
  PROVE  ShoeInv'
PROOF
<1>1. /\ dealer' = EmptyHand /\ dealt' = 0
      /\ \A p \in Player : player'[p].hand = EmptyHand
  BY DEF IInv, RoundStartsClean
<1>2. EmptyHand.cards = 0 /\ EmptyHand.hard = 0
  BY DEF EmptyHand
<1>3. HandsShort'
  BY <1>1, <1>2 DEF HandsShort, LongestHand
<1>4. Seated' \subseteq Player
  BY RangeType DEF IInv, TypeOK, Seated
<1>5. (\A p \in Seated : player[p].hand.cards <= LongestHand)' /\ dealer'.cards <= LongestHand
  BY <1>1, <1>2, <1>4 DEF LongestHand
<1> DEFINE n == Cardinality(Bettors')
<1>6. n \in Nat /\ n <= MaxPlayers /\ CardsInPlay' \in Nat
  BY BettorsFewNext
<1> HIDE DEF n
<1> DEFINE sum == CardsInPlay'
<1> HIDE DEF sum
<1>7. 0 <= 0 + sum + LongestHand * (MaxPlayers - n)
  <2>1. sum \in Nat /\ MaxPlayers - n \in Nat
    BY <1>6 DEF sum
  <2> QED
    BY <2>1 DEF LongestHand
<1>8. dealt' <= dealer'.cards + CardsInPlay' + LongestHand * (MaxPlayers - n)
  BY <1>1, <1>2, <1>7 DEF sum
<1> QED
  BY <1>3, <1>5, <1>8 DEF ShoeInv, ShoeNeverRunsOut, n

\* What is left to show of a step, once the hands are known to be short.
LEMMA ShoeFromHands ==
  ASSUME IInv', HandsShort', dealer'.cards <= LongestHand,
         dealt' <= dealer'.cards + CardsInPlay'
                     + LongestHand * (MaxPlayers - Cardinality(Bettors'))
  PROVE  ShoeInv'
PROOF
<1>1. Seated' \subseteq Player
  BY RangeType DEF IInv, TypeOK, Seated
<1>2. (\A p \in Seated : player[p].hand.cards <= LongestHand)'
  BY <1>1 DEF HandsShort
<1> QED
  BY <1>2 DEF ShoeInv, ShoeNeverRunsOut

\* A step that neither draws a card nor makes or ends a bet.
LEMMA ShoeSame ==
  ASSUME ShoeInv, IInv', HandsShort', Bettors' = Bettors,
         \A p \in Bettors : player'[p].hand.cards = player[p].hand.cards,
         UNCHANGED <<dealer, dealt>>
  PROVE  ShoeInv'
PROOF
<1> DEFINE F == [p \in Player |-> player[p].hand.cards]
           H == [p \in Player |-> player'[p].hand.cards]
<1>1. IInv
  BY DEF ShoeInv
<1>2. IsFiniteSet(Bettors) /\ Bettors \subseteq Player /\ \A p \in Player : player[p].hand.cards \in Nat
  BY <1>1, BettorsFew
<1>3. \A p \in Bettors : F[p] \in Nat /\ H[p] = F[p]
  BY <1>2
<1>4. CardsInPlay = SumFunctionOnSet(F, Bettors) /\ CardsInPlay' = SumFunctionOnSet(H, Bettors)
  BY DEF CardsInPlay
<1> HIDE DEF F, H
<1>5. CardsInPlay' = CardsInPlay
  BY <1>2, <1>3, <1>4, SumEqual
<1> QED
  BY <1>5, ShoeFromHands DEF ShoeInv, ShoeNeverRunsOut

\* What keeps the hands short: one player's hand may go, or stay as it is when the
\* player had a stake in it before.
LEMMA HandsKept ==
  ASSUME HandsShort, NEW p \in Player, \A q \in Player \ {p} : player'[q] = player[q],
         \/ player'[p].hand = EmptyHand
         \/ player'[p].hand = player[p].hand /\ (StillToPlay(p)' => StillToPlay(p))
  PROVE  HandsShort'
PROOF
<1>1. ASSUME NEW q \in Player, q # p
      PROVE  /\ player'[q].hand = player[q].hand
             /\ StillToPlay(q)' <=> StillToPlay(q)
  BY <1>1 DEF StillToPlay, PlayerFinished
<1>2. EmptyHand.cards = 0 /\ EmptyHand.hard = 0
  BY DEF EmptyHand
<1>3. CASE player'[p].hand = EmptyHand
  BY <1>1, <1>2, <1>3 DEF HandsShort, LongestHand
<1>4. CASE player'[p].hand = player[p].hand /\ (StillToPlay(p)' => StillToPlay(p))
  BY <1>1, <1>4 DEF HandsShort
<1> QED
  BY <1>3, <1>4

\* The hand of a player who draws once more is as short.
LEMMA DrawnHandShort ==
  ASSUME NEW h \in Hand, NEW c \in Pip, h.cards <= h.hard, h.hard <= 20,
         h.hard > 10 => h.cards < h.hard
  PROVE  LET new == AddCard(h, c) IN
         /\ new.cards <= new.hard
         /\ new.cards <= LongestHand
         /\ ~IsBust(new) /\ BestValue(new) # 21 =>
              new.hard <= 20 /\ (new.hard > 10 => new.cards < new.hard)
PROOF
<1> DEFINE new == AddCard(h, c)
<1>1. /\ new \in Hand /\ new.cards = h.cards + 1 /\ new.hard = h.hard + c
      /\ new.ace <=> h.ace \/ c = 1
  BY AddCardType
<1>2. h.cards \in Nat /\ h.hard \in Nat /\ c \in 1..10
  BY DEF Hand, Pip
<1> HIDE DEF new
<1>3. new.cards <= new.hard
  BY <1>1, <1>2
<1>4. new.cards <= 20
  <2>1. CASE h.hard > 10
    BY <1>1, <1>2, <2>1
  <2>2. CASE h.hard <= 10
    BY <1>1, <1>2, <2>2
  <2> QED
    BY <1>2, <2>1, <2>2
<1>5. ASSUME ~IsBust(new), BestValue(new) # 21
      PROVE  new.hard <= 20 /\ (new.hard > 10 => new.cards < new.hard)
  <2>1. new.hard <= 21 /\ new.hard # 21
    BY <1>1, <1>2, <1>5 DEF IsBust, BestValue, IsSoft
  <2>2. ~(new.hard = 11 /\ new.ace)
    BY <1>5 DEF BestValue, IsSoft
  <2>3. ASSUME new.hard > 10
        PROVE  new.cards < new.hard
    <3>1. CASE c >= 2
      BY <1>1, <1>2, <3>1
    <3>2. CASE c = 1
      <4>1. new.hard > 11
        BY <1>1, <1>2, <2>2, <2>3, <3>2
      <4>2. h.cards < h.hard
        BY <1>1, <1>2, <3>2, <4>1
      <4> QED
        BY <1>1, <1>2, <4>2
    <3> QED
      BY <1>2, <3>1, <3>2
  <2> QED
    BY <1>1, <1>2, <2>1, <2>3
<1> QED
  BY <1>3, <1>4, <1>5 DEF LongestHand, new

\* A card drawn by the player on turn is counted in the hand.
LEMMA ShoeDraw ==
  ASSUME ShoeInv, IInv', NEW p \in Player, turn = p, NEW c \in Cards,
         UNCHANGED <<players, dealer>>, dealt' = dealt + 1,
         \A q \in Player : q # p => player'[q] = player[q],
         player'[p].bet # 0, player'[p].hand = AddCard(player[p].hand, c),
         \/ PlayerFinished(p)'
         \/ ~IsBust(player'[p].hand) /\ BestValue(player'[p].hand) # 21
  PROVE  ShoeInv'
PROOF
<1> DEFINE F == [q \in Player |-> player[q].hand.cards]
           H == [q \in Player |-> player'[q].hand.cards]
           h == player[p].hand
           new == AddCard(player[p].hand, c)
<1>1. IInv /\ HandsShort /\ ShoeNeverRunsOut
  BY DEF ShoeInv
<1>2. StillToPlay(p) /\ p \in Seated /\ p \in Bettors
  BY <1>1, PlayerAssumption DEF IInv, TurnIsPlayable, StillToPlay, Bettors
<1>3. h \in Hand /\ c \in Pip
  BY <1>1, ShoeAssumption DEF IInv, TypeOK, PlayerState
<1>4. h.cards <= h.hard /\ h.hard <= 20 /\ (h.hard > 10 => h.cards < h.hard)
  BY <1>1, <1>2 DEF HandsShort
<1>5. /\ new.cards = h.cards + 1
      /\ new.cards <= new.hard
      /\ new.cards <= LongestHand
      /\ ~IsBust(new) /\ BestValue(new) # 21 =>
           new.hard <= 20 /\ (new.hard > 10 => new.cards < new.hard)
  <2> HIDE DEF h
  <2> QED
    BY <1>3, <1>4, AddCardType, DrawnHandShort DEF h
<1>6. player'[p].hand = new
  OBVIOUS
<1> HIDE DEF new, h
<1>7. HandsShort'
  <2>1. ASSUME NEW q \in Player, q # p
        PROVE  /\ player'[q].hand = player[q].hand
               /\ StillToPlay(q)' <=> StillToPlay(q)
    BY <2>1 DEF StillToPlay, PlayerFinished
  <2>2. StillToPlay(p)' => ~IsBust(new) /\ BestValue(new) # 21
    BY <1>6 DEF StillToPlay
  <2> QED
    BY <1>1, <1>5, <1>6, <2>1, <2>2 DEF HandsShort
<1>8. Bettors' = Bettors
  BY <1>1, <1>2, SetsType DEF Bettors, Seated, IInv
<1>9. /\ IsFiniteSet(Bettors) /\ Bettors \subseteq Player
      /\ \A q \in Player : player[q].hand.cards \in Nat
      /\ CardsInPlay \in Nat /\ dealer.cards \in Nat /\ dealt \in Nat
      /\ Cardinality(Bettors) \in Nat
  BY <1>1, BettorsFew
<1>10. /\ \A q \in Bettors : F[q] \in Nat
       /\ \A q \in Bettors \ {p} : H[q] = F[q]
       /\ H[p] = F[p] + 1 /\ F[p] \in Nat /\ H[p] \in Nat
  BY <1>5, <1>6, <1>9 DEF h
<1>11. CardsInPlay = SumFunctionOnSet(F, Bettors) /\ CardsInPlay' = SumFunctionOnSet(H, Bettors)
  BY <1>8 DEF CardsInPlay
<1> HIDE DEF F, H
<1>12. CardsInPlay' + F[p] = CardsInPlay + H[p]
  BY <1>2, <1>9, <1>10, <1>11, SumChange
<1>13. CardsInPlay' \in Nat
  BY BettorsFewNext
<1>14. CardsInPlay' = CardsInPlay + 1
  BY <1>9, <1>10, <1>12, <1>13
<1> DEFINE room == LongestHand * (MaxPlayers - Cardinality(Bettors))
<1>15. room \in Int /\ dealt <= dealer.cards + CardsInPlay + room
  BY <1>1, <1>9 DEF ShoeNeverRunsOut, LongestHand
<1> HIDE DEF room
<1>16. dealt' <= dealer'.cards + CardsInPlay' + room
  BY <1>9, <1>14, <1>15
<1>17. dealer'.cards <= LongestHand
  BY <1>1 DEF ShoeNeverRunsOut
<1> QED
  BY <1>7, <1>8, <1>16, <1>17, ShoeFromHands DEF room

\* Somebody who gives up a seat takes no more cards out of the count than the seat was
\* allowed.
LEMMA ShoeLeave ==
  ASSUME ShoeInv, IInv', NEW p \in Player, GiveUpSeat(p)
  PROVE  ShoeInv'
PROOF
<1> DEFINE F == [q \in Player |-> player[q].hand.cards]
           H == [q \in Player |-> player'[q].hand.cards]
           B == Bettors \ {p}
<1>1. IInv /\ HandsShort /\ ShoeNeverRunsOut /\ TypeOK /\ IsInjective(players)
  BY DEF ShoeInv, IInv, OneStateEach
<1>2. Seated' = Seated \ {p} /\ UNCHANGED <<dealer, dealt>>
  BY <1>1, RemoveFirstProperties DEF GiveUpSeat, TypeOK, Seated
<1>3. player'[p] = NoPlayer /\ \A q \in Player : q # p => player'[q] = player[q]
  BY <1>1 DEF GiveUpSeat, TypeOK
<1>4. HandsShort'
  <2>1. player'[p].hand = EmptyHand
    BY <1>3 DEF NoPlayer, AtSeat
  <2> QED
    BY <1>1, <1>3, <2>1, HandsKept
<1>5. Bettors' = B
  BY <1>1, <1>2, <1>3, SetsType DEF Bettors
<1>6. CASE p \notin Bettors
  <2>1. Bettors' = Bettors /\ \A q \in Bettors : player'[q].hand.cards = player[q].hand.cards
    BY <1>1, <1>3, <1>5, <1>6, SetsType
  <2> QED
    BY <1>2, <1>4, <2>1, ShoeSame
<1>7. CASE p \in Bettors
  <2> DEFINE n == Cardinality(Bettors)
             sum == SumFunctionOnSet(F, B)
             dc == dealer.cards
  <2>1. /\ IsFiniteSet(Bettors) /\ Bettors \subseteq Player
        /\ \A q \in Player : player[q].hand.cards \in Nat
        /\ dc \in Nat /\ dealt \in Nat
        /\ n \in Nat
    BY <1>1, BettorsFew
  <2>2. /\ \A q \in Bettors : F[q] \in Nat
        /\ \A q \in B : H[q] = F[q] /\ F[q] \in Nat
        /\ F[p] <= LongestHand /\ F[p] \in Nat
    BY <1>1, <1>3, <2>1 DEF HandsShort
  <2>3. CardsInPlay = SumFunctionOnSet(F, Bettors) /\ CardsInPlay' = SumFunctionOnSet(H, B)
    BY <1>5 DEF CardsInPlay
  <2>4. IsFiniteSet(B) /\ Cardinality(B) = n - 1
    BY <1>7, <2>1, FS_Subset, FS_RemoveElement
  <2> HIDE DEF F, H
  <2>5. CardsInPlay = F[p] + sum
    BY <1>7, <2>1, <2>2, <2>3, SumTakeOut
  <2>6. CardsInPlay' = sum
    <3> HIDE DEF B
    <3> QED
      BY <2>2, <2>3, <2>4, SumEqual
  <2>7. sum \in Nat
    <3> HIDE DEF B
    <3> QED
      BY <2>2, <2>4, SumType
  <2>8. dealt <= dc + CardsInPlay + LongestHand * (MaxPlayers - n)
    BY <1>1 DEF ShoeNeverRunsOut
  <2> HIDE DEF sum, n, dc
  <2>9. dealt <= dc + sum + LongestHand * (MaxPlayers - (n - 1))
    BY <2>1, <2>2, <2>5, <2>7, <2>8 DEF LongestHand
  <2>10. dealt' <= dealer'.cards + CardsInPlay' + LongestHand * (MaxPlayers - Cardinality(Bettors'))
    BY <1>2, <1>5, <2>4, <2>6, <2>9 DEF dc
  <2>11. dealer'.cards <= LongestHand
    BY <1>1, <1>2 DEF ShoeNeverRunsOut
  <2> QED
    BY <1>4, <2>10, <2>11, ShoeFromHands
<1> QED
  BY <1>6, <1>7

\* Coming, queueing and leaving: no card moves, and only a bettor who leaves takes some.
LEMMA ShoeMembership ==
  ASSUME ShoeInv, IInv', NEW p \in Player, AnyMembership(p)
  PROVE  ShoeInv'
PROOF
<1>1. IInv /\ HandsShort /\ TypeOK
  BY DEF ShoeInv, IInv
<1>2. ASSUME NEW x \in PlayerState, p \notin Seated,
             player' = [player EXCEPT ![p] = x], x.hand = EmptyHand, x.bet = 0,
             Seated' = Seated \/ Seated' = Seated \cup {p}, UNCHANGED <<dealer, dealt>>
      PROVE  ShoeInv'
  <2>1. player'[p] = x /\ \A q \in Player : q # p => player'[q] = player[q]
    BY <1>1, <1>2 DEF TypeOK
  <2>2. HandsShort'
    BY <1>1, <1>2, <2>1, HandsKept
  <2>3. Bettors' = Bettors /\ \A q \in Bettors : player'[q] = player[q]
    BY <1>1, <1>2, <2>1, SetsType DEF Bettors
  <2> QED
    BY <1>2, <2>2, <2>3, ShoeSame
<1>3. CASE UNCHANGED <<players, player, dealer, dealt>>
  <2>1. Bettors' = Bettors /\ HandsShort'
    BY <1>1, <1>3 DEF Bettors, Seated, HandsShort, StillToPlay, PlayerFinished
  <2> QED
    BY <1>3, <2>1, ShoeSame
<1>4. ASSUME NEW want, NEW chips \in Nat, TakeSeat(p, want, chips)
      PROVE  ShoeInv'
  <2>1. p \notin Seated /\ FreeSeats # {}
    BY <1>1, <1>4 DEF TakeSeat, IInv, OneStateEach
  <2>2. PICK s \in SeatsFor(want) : SitDown(p, s, chips) \/ QueueForSeat(p, s)
    BY <1>4 DEF TakeSeat
  <2>3. s \in 0..MaxPlayers
    BY <2>1, <2>2, SeatGiven DEF Seat
  <2>4. CASE SitDown(p, s, chips)
    <3>1. AtSeat(s, chips) \in PlayerState
      BY <2>3, AtSeatType
    <3>2. Seated' = Seated \cup {p}
      BY <1>1, <2>4, AppendElement DEF SitDown, Seated, TypeOK
    <3> QED
      BY <1>2, <2>1, <2>4, <3>1, <3>2 DEF SitDown, AtSeat
  <2>5. CASE QueueForSeat(p, s)
    <3>1. AtSeat(s, 0) \in PlayerState
      BY <2>3, AtSeatType
    <3> QED
      BY <1>2, <2>1, <2>5, <3>1 DEF QueueForSeat, AtSeat, Seated
  <2> QED
    BY <2>2, <2>4, <2>5
<1>5. CASE LeaveQueue(p)
  <2>1. p \notin Seated
    BY <1>1, <1>5 DEF LeaveQueue, IInv, OneStateEach
  <2> QED
    BY <1>2, <1>5, <2>1, NoPlayerType DEF LeaveQueue, NoPlayer, AtSeat, Seated
<1>6. CASE GiveUpSeat(p)
  BY <1>6, ShoeLeave
<1> QED
  BY <1>3, <1>4, <1>5, <1>6
  DEF AnyMembership, JoinTable, LeaveSeat, LeaveTable

\* A command of the player on turn draws one card or none; a bet is placed while no card
\* is out.
LEMMA ShoePlay ==
  ASSUME ShoeInv, IInv', NEW p \in Player, Play(p)
  PROVE  ShoeInv'
PROOF
<1>1. IInv /\ HandsShort /\ TypeOK /\ player[p] \in PlayerState
  BY DEF ShoeInv, IInv, TypeOK
<1>2. ASSUME NEW amount, PlaceBet(p, amount)
      PROVE  ShoeInv'
  BY <1>2, ShoeFresh DEF PlaceBet, SaturatingSub
<1>3. ASSUME NEW c \in Cards, Hit(p, c)
      PROVE  ShoeInv'
  <2> DEFINE new == AddCard(player[p].hand, c)
  <2>1. turn = p /\ StillToPlay(p)
    BY <1>1, <1>3, PlayerAssumption DEF Hit, IInv, TurnIsPlayable
  <2> HIDE DEF new
  <2>2. UNCHANGED <<players, dealer>> /\ dealt' = dealt + 1
    BY <1>3 DEF Hit
  <2>3. CASE player' = [player EXCEPT ![p].hand = new] /\ (IsBust(new) \/ BestValue(new) # 21)
    <3>1. /\ player'[p].hand = new /\ player'[p].bet = player[p].bet
          /\ \A q \in Player : q # p => player'[q] = player[q]
      BY <1>1, <2>3 DEF TypeOK, PlayerState
    <3>2. \/ PlayerFinished(p)'
          \/ ~IsBust(player'[p].hand) /\ BestValue(player'[p].hand) # 21
      BY <2>3, <3>1 DEF PlayerFinished
    <3> QED
      BY <2>1, <2>2, <3>1, <3>2, ShoeDraw DEF StillToPlay, new
  <2>4. CASE player' = [player EXCEPT ![p].hand = new, ![p].decision = "Stand"]
    <3>1. /\ player'[p].hand = new /\ player'[p].bet = player[p].bet
          /\ player'[p].decision = "Stand"
          /\ \A q \in Player : q # p => player'[q] = player[q]
      BY <1>1, <2>4 DEF TypeOK, PlayerState
    <3>2. PlayerFinished(p)'
      BY <3>1 DEF PlayerFinished
    <3> QED
      BY <2>1, <2>2, <3>1, <3>2, ShoeDraw DEF StillToPlay, new
  <2> QED
    BY <1>3, <2>3, <2>4 DEF Hit, new
<1>4. ASSUME NEW c \in Cards, DoubleDown(p, c)
      PROVE  ShoeInv'
  <2> DEFINE new == AddCard(player[p].hand, c)
  <2>1. turn = p /\ UNCHANGED <<players, dealer>> /\ dealt' = dealt + 1
    BY <1>4 DEF DoubleDown, SaturatingSub
  <2> DEFINE s == [player[p] EXCEPT !.balance = player[p].balance - player[p].bet,
                                    !.bet = player[p].bet + player[p].bet,
                                    !.hand = new,
                                    !.decision = "Double"]
  <2>2. player' = [player EXCEPT ![p] = s]
    BY <1>1, <1>4 DEF DoubleDown, SaturatingSub, TypeOK, PlayerState
  <2>3. new \in Hand
    BY <1>1, ShoeAssumption, AddCardType DEF PlayerState
  <2> HIDE DEF new
  <2>4. /\ player[p].balance - player[p].bet \in Nat
        /\ player[p].bet + player[p].bet \in Nat \ {0}
    BY <1>1, <1>4 DEF DoubleDown, SaturatingSub, PlayerState
  <2>5. /\ player'[p].hand = new
        /\ player'[p].bet = player[p].bet + player[p].bet
        /\ player'[p].decision = "Double"
        /\ \A q \in Player : q # p => player'[q] = player[q]
    <3>1. s.hand = new /\ s.bet = player[p].bet + player[p].bet /\ s.decision = "Double"
      BY <1>1 DEF PlayerState
    <3>2. DOMAIN player = Player
      BY <1>1 DEF TypeOK
    <3> HIDE DEF s
    <3>4. player'[p] = s /\ \A q \in Player : q # p => player'[q] = player[q]
      BY <2>2, <3>2
    <3> QED
      BY <3>1, <3>4
  <2>6. PlayerFinished(p)' /\ player'[p].bet # 0
    BY <2>4, <2>5 DEF PlayerFinished
  <2> QED
    BY <2>1, <2>5, <2>6, ShoeDraw DEF new
<1>5. CASE Stand(p)
  <2>1. /\ player'[p].hand = player[p].hand /\ player'[p].bet = player[p].bet
        /\ \A q \in Player : q # p => player'[q] = player[q]
        /\ ~StillToPlay(p)'
    BY <1>1, <1>5 DEF Stand, TypeOK, PlayerState, StillToPlay, PlayerFinished
  <2>2. HandsShort'
    BY <1>1, <2>1, HandsKept
  <2>3. Bettors' = Bettors /\ \A q \in Bettors : player'[q].hand.cards = player[q].hand.cards
    BY <1>1, <1>5, <2>1, SetsType DEF Bettors, Seated, Stand
  <2> QED
    BY <1>5, <2>2, <2>3, ShoeSame DEF Stand
<1> QED
  BY <1>2, <1>3, <1>4, <1>5 DEF Play

\* The deal takes two cards for every bettor and for the dealer.
LEMMA ShoeDeal ==
  ASSUME ShoeInv, IInv', NEW deal \in [Bettors -> Cards \X Cards], NEW up \in Cards,
         NEW hole \in Cards, DealInitialCards(deal, up, hole)
  PROVE  ShoeInv'
PROOF
<1> DEFINE n == Cardinality(Bettors)
           H == [q \in Player |-> player'[q].hand.cards]
<1>1. /\ IInv /\ HandsShort /\ TypeOK /\ Cards \subseteq Pip /\ phase = "WaitingForBets"
      /\ Bettors \subseteq Player /\ Bettors \subseteq Seated
  BY ShoeAssumption, SetsType DEF ShoeInv, IInv, DealInitialCards
<1>2. /\ dealt = 0 /\ dealer = EmptyHand
      /\ \A q \in Player : player[q].hand = EmptyHand /\ player[q] \in PlayerState
  BY <1>1 DEF IInv, RoundStartsClean, TypeOK
<1>3. ASSUME NEW q \in Bettors
      PROVE  /\ player'[q].bet = player[q].bet
             /\ player'[q].hand.cards = 2
             /\ player'[q].hand.hard \in 2..20
  <2> DEFINE new == TwoCards(deal[q][1], deal[q][2])
  <2>1. deal[q][1] \in Pip /\ deal[q][2] \in Pip
    BY <1>1
  <2>2. new \in Hand /\ new.cards = 2 /\ new.hard \in 2..20
    BY <2>1, TwoCardsType DEF Pip
  <2>3. player'[q] = [player[q] EXCEPT !.hand =
                        AddCard(AddCard(player[q].hand, deal[q][1]), deal[q][2])]
    BY <1>1, <1>2 DEF DealInitialCards, PlayerState
  <2>4. player'[q] = [player[q] EXCEPT !.hand = new]
    BY <1>1, <1>2, <2>3 DEF TwoCards
  <2> HIDE DEF new
  <2>5. q \in Player /\ player[q] \in PlayerState
    BY <1>1, <1>2
  <2>6. player'[q].hand = new /\ player'[q].bet = player[q].bet
    BY <2>4, <2>5 DEF PlayerState
  <2> QED
    BY <2>2, <2>6
<1>4. ASSUME NEW q \in Player, q \notin Bettors
      PROVE  player'[q] = player[q]
  BY <1>4 DEF DealInitialCards
<1>5. HandsShort'
  <2>1. ASSUME NEW q \in Player, q \notin Bettors
        PROVE  player'[q].hand.cards = 0 /\ player'[q].hand.hard = 0
    BY <1>2, <1>4, <2>1 DEF EmptyHand
  <2> QED
    BY <1>3, <2>1 DEF HandsShort, LongestHand
<1>6. Bettors' = Bettors
  <2>1. Seated' = Seated
    BY DEF DealInitialCards, Seated
  <2>2. \A q \in Seated : player'[q].bet = player[q].bet
    BY <1>1, <1>3, <1>4, SetsType
  <2> QED
    BY <2>1, <2>2 DEF Bettors
<1>7. dealer' = TwoCards(up, hole) /\ dealt' = dealt + 2 * (n + 1)
  BY <1>2 DEF DealInitialCards, TwoCards
<1>8. dealer'.cards = 2
  BY <1>1, <1>7, TwoCardsType
<1>9. IsFiniteSet(Bettors) /\ n \in Nat /\ n <= MaxPlayers
  BY <1>1, BettorsFew
<1>10. CardsInPlay' = SumFunctionOnSet(H, Bettors) /\ \A q \in Bettors : H[q] = 2
  BY <1>1, <1>3, <1>6 DEF CardsInPlay
<1> HIDE DEF H
<1>11. CardsInPlay' = 2 * n
  BY <1>9, <1>10, SumConstant
<1> DEFINE room == LongestHand * (MaxPlayers - n)
<1>12. room \in Nat
  <2> HIDE DEF n
  <2>1. MaxPlayers - n \in Nat
    BY <1>9
  <2> QED
    BY <2>1 DEF LongestHand
<1> HIDE DEF room, n
<1>13. dealt' <= dealer'.cards + CardsInPlay' + room
  BY <1>2, <1>7, <1>8, <1>9, <1>11, <1>12
<1>14. dealer'.cards <= LongestHand
  BY <1>8 DEF LongestHand
<1> QED
  BY <1>5, <1>6, <1>13, <1>14, ShoeFromHands DEF room, n

\* The dealer's loop takes the cards it adds, ten at most.
LEMMA ShoePlayHand ==
  ASSUME ShoeInv, IInv', PlayHand
  PROVE  ShoeInv'
PROOF
<1> DEFINE room == LongestHand * (MaxPlayers - Cardinality(Bettors))
<1>1. /\ IInv /\ HandsShort /\ ShoeNeverRunsOut
      /\ UNCHANGED <<players, player>>
      /\ dealer' \in DealerHands(dealer, Cards)
      /\ dealt' = dealt + (dealer'.cards - dealer.cards)
  BY DEF ShoeInv, PlayHand
<1>2. PICK up \in Cards, hole \in Cards : dealer = TwoCards(up, hole)
  BY <1>1 DEF IInv, DealerHasTwoCards, PlayHand
<1>3. dealer'.cards <= 12 /\ dealer'.cards \in Nat
  BY <1>1, <1>2, ShoeAssumption, DealerHandsShort DEF Hand
<1>4. Bettors' = Bettors /\ CardsInPlay' = CardsInPlay /\ HandsShort'
  BY <1>1 DEF Bettors, Seated, CardsInPlay, HandsShort, StillToPlay, PlayerFinished
<1>5. /\ dealt \in Nat /\ dealer.cards \in Nat /\ CardsInPlay \in Nat
      /\ Cardinality(Bettors) \in Nat
  BY <1>1, BettorsFew
<1>6. room \in Int /\ dealt <= dealer.cards + CardsInPlay + room
  BY <1>1, <1>5 DEF ShoeNeverRunsOut, LongestHand
<1> HIDE DEF room
<1>7. dealt' <= dealer'.cards + CardsInPlay' + room
  BY <1>1, <1>3, <1>4, <1>5, <1>6
<1>8. dealer'.cards <= LongestHand
  BY <1>3 DEF LongestHand
<1> QED
  BY <1>4, <1>7, <1>8, ShoeFromHands DEF room

\* Settlement moves chips, not cards.
LEMMA ShoeSettle ==
  ASSUME ShoeInv, IInv', SettleRound
  PROVE  ShoeInv'
PROOF
<1>1. IInv /\ HandsShort /\ TypeOK
  BY DEF ShoeInv, IInv
<1>2. ASSUME NEW q \in Player
      PROVE  /\ player'[q].bet = player[q].bet
             /\ player'[q].hand = player[q].hand
             /\ player'[q].decision = player[q].decision
  BY <1>1 DEF SettleRound, TypeOK, PlayerState
<1>3. HandsShort'
  BY <1>1, <1>2 DEF HandsShort, StillToPlay, PlayerFinished
<1>4. Bettors' = Bettors /\ \A q \in Bettors : player'[q].hand.cards = player[q].hand.cards
  BY <1>1, <1>2, SetsType DEF Bettors, Seated, SettleRound
<1> QED
  BY <1>3, <1>4, ShoeSame DEF SettleRound

\* Every move of the engine keeps the shoe in bounds, whoever its host is.
LEMMA ShoeMove ==
  ASSUME ShoeInv, IInv', Moves
  PROVE  ShoeInv'
PROOF
<1>1. ASSUME NEW p \in Player, AnyMembership(p) \/ Play(p)
      PROVE  ShoeInv'
  BY <1>1, ShoeMembership, ShoePlay
<1>2. CASE Deal
  BY <1>2, ShoeDeal DEF Deal
<1>3. CASE StartOver
  BY <1>3, ShoeFresh DEF StartOver, NewRound
<1> QED
  BY <1>1, <1>2, <1>3, ShoePlayHand, ShoeSettle DEF Moves, DealerStep

\* So does a step that leaves the game alone.
LEMMA ShoeStutter ==
  ASSUME ShoeInv, UNCHANGED vars
  PROVE  ShoeInv'
PROOF
<1>1. IInv'
  BY StutterInv DEF ShoeInv
<1>2. Bettors' = Bettors /\ HandsShort'
  BY DEF vars, ShoeInv, Bettors, Seated, HandsShort, StillToPlay, PlayerFinished
<1> QED
  BY <1>1, <1>2, ShoeSame DEF vars

\* Every step of the engine keeps the shoe in bounds.
LEMMA ShoeStep == ShoeInv /\ [Next]_vars => ShoeInv'
PROOF
  BY StepInv, NextIsMove, ShoeMove, ShoeStutter DEF ShoeInv

\* A new table has a whole shoe.
LEMMA ShoeInit == Init => ShoeInv
PROOF
<1>1. SUFFICES ASSUME Init PROVE ShoeInv
  OBVIOUS
<1>2. IInv
  BY <1>1, InitInv
<1>3. /\ dealer = EmptyHand /\ dealt = 0 /\ Seated = {}
      /\ \A p \in Player : player[p].hand = EmptyHand
      /\ EmptyHand.cards = 0 /\ EmptyHand.hard = 0
  <2>1. Seated = {}
    BY <1>1 DEF Init, Seated, Range
  <2>2. \A p \in Player : player[p].hand = EmptyHand
    BY <1>1 DEF Init, NoPlayer, AtSeat
  <2> QED
    BY <1>1, <2>1, <2>2 DEF Init, EmptyHand
<1>4. HandsShort
  BY <1>3 DEF HandsShort, LongestHand
<1>5. Cardinality(Bettors) = 0 /\ CardsInPlay \in Nat
  BY <1>2, <1>3, BettorsFew, FS_EmptySet DEF Bettors
<1>6. ShoeNeverRunsOut
  BY <1>3, <1>5 DEF ShoeNeverRunsOut, LongestHand
<1> QED
  BY <1>2, <1>4, <1>6 DEF ShoeInv

\* ShoeInv is an invariant of the engine.
THEOREM ShoeInvariance == Spec => []ShoeInv
PROOF
<1> QED
  BY ShoeInit, ShoeStep, PTL DEF Spec

\* However the cards fall and whoever leaves in mid-round with a hand, the cards that are
\* gone from the shoe are bounded by the seats.
THEOREM ShoeNeverRunsOutHolds == Spec => []ShoeNeverRunsOut
PROOF
<1>1. ShoeInv => ShoeNeverRunsOut
  BY DEF ShoeInv
<1> QED
  BY <1>1, ShoeInvariance, PTL

\* A shoe with LongestHand cards for each seat and as many for the dealer, as the 208 of
\* new_shoe are for seven seats, never refuses a card: one is left for whoever is on
\* turn, and for the dealer as many as any way of drawing to 17 takes, so that
\* ShoeEmpty never ends a Hit, a DoubleDown or PlayHand.
ShoeSuffices ==
  ShoeSize >= LongestHand * (MaxPlayers + 1) =>
    /\ phase = "PlayerTurn" => CardsRemaining > 0
    /\ phase = "DealerTurn" =>
         \A hand \in DealerHands(dealer, Cards) : hand.cards - dealer.cards <= CardsRemaining

\* The bound of ShoeNeverRunsOut is one under which no card is ever refused.
LEMMA ShoeIsEnough == ShoeInv => ShoeSuffices
PROOF
<1>1. ASSUME ShoeInv, ShoeSize >= LongestHand * (MaxPlayers + 1),
             phase \in {"PlayerTurn", "DealerTurn"}
      PROVE  /\ phase = "PlayerTurn" => CardsRemaining > 0
             /\ phase = "DealerTurn" =>
                  \A hand \in DealerHands(dealer, Cards) :
                    hand.cards - dealer.cards <= CardsRemaining
  <2> DEFINE F == [q \in Player |-> player[q].hand.cards]
             n == Cardinality(Bettors)
  <2>1. IInv /\ HandsShort /\ ShoeNeverRunsOut
    BY <1>1 DEF ShoeInv
  <2>2. PICK up \in Cards, hole \in Cards : dealer = TwoCards(up, hole)
    BY <1>1, <2>1 DEF IInv, DealerHasTwoCards
  <2>3. dealer.cards = 2
    BY <2>2, ShoeAssumption, TwoCardsType
  <2>4. /\ IsFiniteSet(Bettors) /\ n \in Nat /\ n <= MaxPlayers /\ Bettors \subseteq Player
        /\ \A q \in Player : player[q].hand.cards \in Nat
        /\ CardsInPlay \in Nat /\ dealt \in Nat
    BY <2>1, BettorsFew
  <2>5. \A q \in Bettors : F[q] \in Nat /\ F[q] <= LongestHand
    BY <2>1, <2>4 DEF HandsShort
  <2>6. CardsInPlay = SumFunctionOnSet(F, Bettors)
    BY DEF CardsInPlay
  <2>7. dealt <= 2 + CardsInPlay + 20 * (MaxPlayers - n)
    BY <2>1, <2>3 DEF ShoeNeverRunsOut, LongestHand
  <2> HIDE DEF F
  <2>8. CardsInPlay <= 20 * n
    BY <2>4, <2>5, <2>6, SumAtMost DEF LongestHand
  <2> HIDE DEF n
  <2>9. dealt <= 2 + 20 * MaxPlayers
    BY <2>4, <2>7, <2>8
  <2>10. CardsRemaining >= 18
    BY <1>1, <2>4, <2>9, ShoeAssumption DEF CardsRemaining, LongestHand
  <2>11. \A hand \in DealerHands(dealer, Cards) : hand.cards \in Nat /\ hand.cards <= 12
    BY <2>2, ShoeAssumption, DealerHandsShort DEF Hand
  <2>12. CardsRemaining \in Int
    BY <2>4, ShoeAssumption DEF CardsRemaining
  <2> QED
    BY <2>3, <2>10, <2>11, <2>12
<1> QED
  BY <1>1 DEF ShoeSuffices

\* No player and no dealer is ever refused a card in a round, however it goes.
THEOREM ShoeSufficesHolds == Spec => []ShoeSuffices
PROOF
  BY ShoeIsEnough, ShoeInvariance, PTL

==============================================================================
