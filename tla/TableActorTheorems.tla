--------------------------- MODULE TableActorTheorems ---------------------------
(***************************************************************************)
(* Theorems about TableActor, for any players, limits, cards and opening    *)
(* chips: the actor never waits for nothing, the lobby's summary and the    *)
(* wallet are up to date whenever it waits, and table and wallet together   *)
(* implement ChipLedger.                                                    *)
(*                                                                         *)
(* What the actor does to its GameState is a step of GameEngine, so IInv is *)
(* preserved by the lemmas of GameEngineTheorems.                           *)
(***************************************************************************)
EXTENDS TableActor, GameEngineTheorems

\* How large a stake may get: two bets, and one bet unless the player has doubled,
\* which takes a third card.  ChipLedger needs it to bound what a round can cost.
Stakes ==
  \A p \in Player :
    /\ player[p].bet <= 2 * MaxBet
    /\ player[p].decision # "Double" => player[p].bet <= MaxBet
    /\ player[p].decision = "Double" => player[p].hand.cards # 2

\* The arm that loads a balance is the one in which somebody sat down.
LoadsJoined ==
  /\ pc = "load" <=> joined # Nobody
  /\ joined # Nobody =>
       joined \in Seated /\ phase = "WaitingForBets" /\ player[joined].bet = 0

\* Only a finished round is written to the wallet, for those in a seat.
FlushesSeated ==
  /\ pc # "flush" => toFlush = <<>>
  /\ toFlush # <<>> => phase = "Finished"
  /\ Range(toFlush) \subseteq Seated

\* The timer of the round runs in a finished round only, and the dealer moves on in
\* the dealer's phases only.
TimersArmed ==
  /\ NeverStuck
  /\ roundTimer => phase = "Finished"
  /\ pc = "advance" => phase \in {"DealerTurn", "Payouts"}

\* From the moment the summary is written it is right until the next arm.
Listed == pc \in {"select", "flush", "advance"} => summary = SummaryOf(players, phase)

\* The balance of a player at the table is the wallet's, but for somebody whose
\* balance is yet to be loaded and those who are yet to be written.
Unwritten(p) == phase = "Finished" /\ (pc = "summary" \/ p \in Range(toFlush))

Copies == \A p \in Seated \ {joined} : Chips(p) = wallet[p] \/ Unwritten(p)

\* The inductive invariant.
ActorInv ==
  /\ IInv
  /\ Stakes
  /\ ActorTypeOK
  /\ LoadsJoined
  /\ FlushesSeated
  /\ TimersArmed
  /\ Listed
  /\ Copies

-----------------------------------------------------------------------------
(***************************************************************************)
(* What the arms do to the GameState.                                       *)
(***************************************************************************)

\* Coming and going leaves the stakes alone, but for those of who comes or goes.
LEMMA MembershipStakes ==
  ASSUME IInv, NEW q \in Player, AnyMembership(q)
  PROVE  /\ \A p \in Player : player'[p] = player[p] \/ p = q
         /\ player'[q] = player[q] \/ (player'[q].bet = 0 /\ player'[q].decision = "None")
         /\ Seated' \subseteq Seated \cup {q}
         /\ q \in Seated' \ Seated =>
              phase = "WaitingForBets" /\ phase' = phase /\ player'[q].bet = 0
PROOF
<1>1. player \in [Player -> PlayerState] /\ Seated \subseteq Player
  BY SetsType DEF IInv, TypeOK
<1>2. CASE JoinTable(q)
  BY <1>2 DEF JoinTable, Seated
<1>3. ASSUME NEW want, NEW chips \in Nat, TakeSeat(q, want, chips)
      PROVE  /\ \A p \in Player : player'[p] = player[p] \/ p = q
             /\ player'[q].bet = 0 /\ player'[q].decision = "None"
             /\ \/ Seated' = Seated \cup {q} /\ phase = "WaitingForBets" /\ phase' = phase
                \/ Seated' = Seated
  <2>1. PICK s \in SeatsFor(want) : SitDown(q, s, chips) \/ QueueForSeat(q, s)
    BY <1>3 DEF TakeSeat
  <2>2. \E b : player' = [player EXCEPT ![q] = AtSeat(s, b)]
    BY <2>1 DEF SitDown, QueueForSeat
  <2>3. /\ \A p \in Player : player'[p] = player[p] \/ p = q
        /\ player'[q].bet = 0 /\ player'[q].decision = "None"
    BY <1>1, <2>2 DEF AtSeat
  <2>4. CASE SitDown(q, s, chips)
    <3>1. Seated' = Seated \cup {q}
      BY <2>4, AppendElement DEF SitDown, IInv, TypeOK, Seated
    <3> QED
      BY <2>3, <2>4, <3>1 DEF SitDown
  <2>5. CASE QueueForSeat(q, s)
    BY <2>3, <2>5 DEF QueueForSeat, Seated
  <2> QED
    BY <2>1, <2>4, <2>5
<1>4. CASE GiveUpSeat(q)
  <2>1. Seated' = Seated \ {q}
    BY <1>4, RemoveFirstProperties DEF GiveUpSeat, IInv, TypeOK, OneStateEach, Seated
  <2> QED
    BY <1>1, <1>4, <2>1 DEF GiveUpSeat, NoPlayer, AtSeat
<1>5. CASE LeaveQueue(q)
  BY <1>1, <1>5 DEF LeaveQueue, NoPlayer, AtSeat, Seated
<1>6. CASE UNCHANGED <<phase, players, player>>
  BY <1>6 DEF Seated
<1> QED
  BY <1>2, <1>3, <1>4, <1>5, <1>6 DEF AnyMembership, LeaveSeat, LeaveTable

\* The stake of a player who leaves drops out of the round, and nobody else's.
LEMMA MembershipInRound ==
  ASSUME IInv, NEW q \in Player, AnyMembership(q)
  PROVE  InRound' = InRound \/ (q \in InRound /\ InRound' = InRound \ {q})
PROOF
<1>1. Seated \subseteq Player /\ q # Nobody
  BY SetsType, PlayerAssumption DEF IInv
<1>2. ASSUME Seated' = Seated, phase' = phase, \A p \in Seated : player'[p] = player[p]
      PROVE  InRound' = InRound
  BY <1>2 DEF InRound, Bettors
<1>3. CASE JoinTable(q)
  BY <1>2, <1>3 DEF JoinTable, Seated
<1>4. ASSUME NEW want, NEW chips \in Nat, TakeSeat(q, want, chips)
      PROVE  InRound' = InRound
  <2>1. PICK s \in SeatsFor(want) : SitDown(q, s, chips) \/ QueueForSeat(q, s)
    BY <1>4 DEF TakeSeat
  <2>2. CASE SitDown(q, s, chips)
    BY <2>2 DEF SitDown, InRound
  <2>3. CASE QueueForSeat(q, s)
    <3>1. Seated' = Seated /\ phase' = phase /\ q \notin Seated
      BY <1>4, <2>3 DEF QueueForSeat, TakeSeat, Seated, IInv, OneStateEach
    <3>2. \A p \in Seated : player'[p] = player[p]
      BY <1>1, <2>3, <3>1 DEF QueueForSeat, IInv, TypeOK
    <3> QED
      BY <1>2, <3>1, <3>2
  <2> QED
    BY <2>1, <2>2, <2>3
<1>5. CASE GiveUpSeat(q)
  <2>1. Seated' = Seated \ {q}
    BY <1>5, RemoveFirstProperties DEF GiveUpSeat, IInv, TypeOK, OneStateEach, Seated
  <2>2. \A p \in Seated \ {q} : player'[p] = player[p]
    BY <1>1, <1>5 DEF GiveUpSeat, IInv, TypeOK
  <2>3. Bettors' = Bettors \ {q}
    BY <2>1, <2>2 DEF Bettors
  <2>4. phase' = phase \/ (phase = "PlayerTurn" /\ phase' \in {"PlayerTurn", "DealerTurn"})
    BY <1>1, <1>5, TurnPhase DEF GiveUpSeat, PassTurnTo
  <2> QED
    BY <2>3, <2>4 DEF InRound
<1>6. CASE LeaveQueue(q)
  <2>1. Seated' = Seated /\ phase' = phase /\ q \notin Seated
    BY <1>6 DEF LeaveQueue, Seated, IInv, OneStateEach
  <2>2. \A p \in Seated : player'[p] = player[p]
    BY <1>1, <1>6, <2>1 DEF LeaveQueue, IInv, TypeOK
  <2> QED
    BY <1>2, <2>1, <2>2
<1>7. CASE UNCHANGED <<phase, players, player>>
  BY <1>2, <1>7 DEF Seated
<1> QED
  BY <1>3, <1>4, <1>5, <1>6, <1>7 DEF AnyMembership, LeaveSeat, LeaveTable

\* The player on turn, or one who bets, keeps the stakes within their bounds and every
\* bettor in the round.
LEMMA PlayStakes ==
  ASSUME IInv, Stakes, NEW q \in Player, Play(q)
  PROVE  /\ Stakes'
         /\ players' = players
         /\ InRound' = InRound
PROOF
<1>1. /\ player \in [Player -> PlayerState] /\ player[q] \in PlayerState
      /\ player[q].bet \in Nat /\ player[q].hand \in Hand
      /\ MaxBet \in Nat /\ MinBet \in Nat \ {0}
  BY SettingsAssumption DEF IInv, TypeOK, PlayerState
<1>2. turn = q => StillToPlay(q) /\ phase = "PlayerTurn"
  BY TurnPhase
<1>3. ASSUME \A p \in Player \ {q} : player'[p] = player[p],
             player'[q].bet <= 2 * MaxBet,
             player'[q].decision # "Double" => player'[q].bet <= MaxBet,
             player'[q].decision = "Double" => player'[q].hand.cards # 2
      PROVE  Stakes'
  <2>1. ASSUME NEW p \in Player
        PROVE  /\ player'[p].bet <= 2 * MaxBet
               /\ player'[p].decision # "Double" => player'[p].bet <= MaxBet
               /\ player'[p].decision = "Double" => player'[p].hand.cards # 2
    <3>1. CASE p = q
      BY <1>3, <3>1
    <3>2. CASE p # q
      BY <1>3, <3>2 DEF Stakes
    <3> QED
      BY <3>1, <3>2
  <2> QED
    BY <2>1 DEF Stakes
<1>4. ASSUME players' = players, turn = q,
             \A p \in Player \ {q} : player'[p] = player[p], player'[q].bet # 0,
             phase' = phase \/ \E x : PassTurnTo(x)
      PROVE  InRound' = InRound
  <2>1. Bettors' = Bettors
    <3>1. Seated' = Seated /\ Seated \subseteq Player /\ player[q].bet # 0
      BY <1>2, <1>4, SetsType DEF Seated, StillToPlay, IInv
    <3> QED
      BY <1>4, <3>1 DEF Bettors
  <2>2. phase = "PlayerTurn" /\ phase' \in {"PlayerTurn", "DealerTurn"}
    BY <1>2, <1>4 DEF PassTurnTo
  <2> QED
    BY <2>1, <2>2 DEF InRound
<1>5. ASSUME NEW amount \in MinBet..MaxBet, PlaceBet(q, amount)
      PROVE  Stakes' /\ players' = players /\ InRound' = InRound
  <2>1. /\ player'[q].bet = amount /\ player'[q].decision = player[q].decision
        /\ \A p \in Player \ {q} : player'[p] = player[p]
    BY <1>1, <1>5 DEF PlaceBet, SaturatingSub, PlayerState
  <2>2. player[q].decision = "None"
    BY <1>5 DEF PlaceBet, SaturatingSub, IInv, RoundStartsClean
  <2>3. Stakes'
    BY <1>1, <1>3, <2>1, <2>2
  <2> QED
    BY <1>5, <2>3 DEF PlaceBet, SaturatingSub, InRound
<1>6. ASSUME NEW c \in Cards, Hit(q, c)
      PROVE  Stakes' /\ players' = players /\ InRound' = InRound
  <2> DEFINE new == AddCard(player[q].hand, c)
  <2>1. /\ turn = q /\ players' = players
        /\ phase' = phase \/ \E x : PassTurnTo(x)
    BY <1>6 DEF Hit
  <2>2. \/ player' = [player EXCEPT ![q].hand = new]
        \/ player' = [player EXCEPT ![q].hand = new, ![q].decision = "Stand"]
    BY <1>6 DEF Hit
  <2> HIDE DEF new
  <2>3. /\ player'[q].bet = player[q].bet
        /\ player'[q].decision \in {player[q].decision, "Stand"}
        /\ \A p \in Player \ {q} : player'[p] = player[p]
    BY <1>1, <2>2 DEF PlayerState
  <2>4. player[q].decision # "Double" /\ player[q].bet # 0
    BY <1>2, <2>1 DEF StillToPlay, PlayerFinished
  <2>5. Stakes'
    BY <1>1, <1>3, <2>3, <2>4 DEF Stakes
  <2> QED
    BY <1>4, <2>1, <2>3, <2>4, <2>5
<1>7. ASSUME Stand(q)
      PROVE  Stakes' /\ players' = players /\ InRound' = InRound
  <2>1. /\ player'[q].bet = player[q].bet /\ player'[q].decision = "Stand"
        /\ \A p \in Player \ {q} : player'[p] = player[p]
    BY <1>1, <1>7 DEF Stand, PlayerState
  <2>2. player[q].decision # "Double" /\ player[q].bet # 0
    BY <1>2, <1>7 DEF StillToPlay, PlayerFinished, Stand
  <2>3. Stakes'
    BY <1>1, <1>3, <2>1, <2>2 DEF Stakes
  <2> QED
    BY <1>4, <1>7, <2>1, <2>2, <2>3 DEF Stand
<1>8. ASSUME NEW c \in Cards, DoubleDown(q, c)
      PROVE  Stakes' /\ players' = players /\ InRound' = InRound
  <2> DEFINE new == AddCard(player[q].hand, c)
  <2>1. player[q].hand.cards = 2 /\ new.cards = 3 /\ player[q].bet # 0
    BY <1>1, <1>8 DEF DoubleDown, SaturatingSub, AddCard
  <2>2. /\ player'[q] = [player[q] EXCEPT !.balance = player[q].balance - player[q].bet,
                                          !.bet = player[q].bet + player[q].bet,
                                          !.hand = new,
                                          !.decision = "Double"]
        /\ \A p \in Player \ {q} : player'[p] = player[p]
    BY <1>1, <1>8 DEF DoubleDown, SaturatingSub, PlayerState
  <2> HIDE DEF new
  <2>3. /\ player'[q].bet = player[q].bet + player[q].bet
        /\ player'[q].decision = "Double"
        /\ player'[q].hand = new
    BY <1>1, <2>2 DEF PlayerState
  <2>4. player[q].bet <= MaxBet /\ \A p \in Player \ {q} : player'[p] = player[p]
    BY <2>1, <2>2 DEF Stakes
  <2>5. player'[q].bet <= 2 * MaxBet /\ player'[q].bet # 0
    BY <1>1, <2>1, <2>3, <2>4
  <2>6. Stakes'
    BY <1>3, <2>1, <2>3, <2>4, <2>5
  <2> QED
    BY <1>4, <1>8, <2>3, <2>4, <2>5, <2>6 DEF DoubleDown, SaturatingSub
<1> QED
  BY <1>5, <1>6, <1>7, <1>8 DEF Play


\* A stake is neither made nor changed by a membership command.
LEMMA MembershipKeepsStakes ==
  ASSUME IInv, Stakes, NEW q \in Player, AnyMembership(q)
  PROVE  Stakes'
PROOF
  BY MembershipStakes, SettingsAssumption DEF Stakes

\* The dealer's moves and a new round change bets and decisions of nobody, or undo
\* them all.
LEMMA DealKeepsStakes ==
  ASSUME IInv, Stakes, Deal
  PROVE  Stakes'
PROOF
<1>1. \A p \in Player : /\ player'[p].bet = player[p].bet
                       /\ player'[p].decision = player[p].decision
                       /\ player[p].decision = "None"
  BY DealStakes DEF IInv, RoundStartsClean
<1> QED
  BY <1>1 DEF Stakes

\* Settlement leaves bets, cards and decisions alone.
LEMMA SettleRoundStakes ==
  ASSUME IInv, SettleRound
  PROVE  \A p \in Player :
           /\ player'[p].bet = player[p].bet
           /\ player'[p].decision = player[p].decision
           /\ player'[p].hand = player[p].hand
PROOF
<1> TAKE p \in Player
<1>1. player[p] \in PlayerState
  BY ChipsOfState
<1>2. player'[p] = player[p] \/ \E b : player'[p] = [player[p] EXCEPT !.balance = b]
  BY DEF SettleRound
<1> QED
  BY <1>1, <1>2 DEF PlayerState

\* A new round has no stakes.
LEMMA NewRoundKeepsStakes ==
  ASSUME NewRound
  PROVE  Stakes'
PROOF
  BY SettingsAssumption DEF NewRound, Stakes, AtSeat, NoPlayer

\* What every command has in common, whoever sends it.
LEMMA CommandStep ==
  ASSUME IInv, Stakes, NEW q \in Player, Command(q)
  PROVE  /\ IInv' /\ Stakes'
         /\ phase = "Finished" <=> phase' = "Finished"
         /\ \A p \in Seated \cap Seated' : Chips(p)' = Chips(p)
         /\ Seated' \subseteq Seated \cup {q}
         /\ q \in Seated' \ Seated => phase' = "WaitingForBets" /\ player'[q].bet = 0
         /\ InRound' = InRound \/ (q \in InRound /\ InRound' = InRound \ {q})
PROOF
<1>1. Seated \subseteq Player
  BY SetsType DEF IInv
<1>2. CASE AnyMembership(q)
  <2>1. IInv' /\ Stakes'
    BY <1>2, MembershipInv, MembershipKeepsStakes
  <2>2. /\ phase = "Finished" <=> phase' = "Finished"
        /\ \A p \in Seated \cap Seated' : Chips(p)' = Chips(p)
    BY <1>2, MembershipStep DEF Chips
  <2>3. /\ Seated' \subseteq Seated \cup {q}
        /\ q \in Seated' \ Seated => phase' = "WaitingForBets" /\ player'[q].bet = 0
    BY <1>2, MembershipStakes
  <2> QED
    BY <1>2, <2>1, <2>2, <2>3, MembershipInRound
<1>3. CASE Play(q)
  <2>1. IInv'
    BY <1>3, PlaceBetInv, HitInv, StandInv, DoubleDownInv DEF Play
  <2>2. Stakes' /\ players' = players /\ InRound' = InRound
    BY <1>3, PlayStakes
  <2>3. Seated' = Seated
    BY <2>2 DEF Seated
  <2>4. /\ phase # "Finished" /\ phase' # "Finished"
        /\ \A p \in Seated : Chips(p)' = Chips(p)
    BY <1>1, <1>3, PlayChips DEF Chips
  <2> QED
    BY <2>1, <2>2, <2>3, <2>4
<1>4. CASE UNCHANGED vars
  <2>1. IInv'
    BY <1>4, StutterInv
  <2>2. Seated' = Seated /\ UNCHANGED <<phase, player, players>>
    BY <1>4 DEF vars, Seated
  <2> QED
    BY <2>1, <2>2 DEF Stakes, Chips, InRound, Bettors
<1>5. AnyMembership(q) \/ Play(q) \/ UNCHANGED vars
  <2>1. 0 \in Nat
    OBVIOUS
  <2> QED
    BY <2>1 DEF Command, EmptyCommand, AnyMembership
<1> QED
  BY <1>2, <1>3, <1>4, <1>5

\* A turn that runs out is a Stand of the player whose turn it is.
LEMMA TimeoutIsCommand ==
  ASSUME IInv, phase = "PlayerTurn", Stand(turn)
  PROVE  turn \in Player /\ Command(turn) /\ players' = players
PROOF
<1>1. turn \in Player
  BY DEF IInv, TypeOK, TurnIsPlayable
<1> QED
  BY <1>1 DEF Command, Play, Stand

\* The balance that is loaded changes the balance and nothing else.
LEMMA LoadBalanceStep ==
  ASSUME ActorInv, LoadBalance
  PROVE  /\ IInv' /\ Stakes'
         /\ Seated' = Seated /\ InRound' = InRound
         /\ joined \in Seated /\ \A p \in {joined} : Chips(p)' = wallet[p]
         /\ \A p \in Player \ {joined} : player'[p] = player[p]
PROOF
<1>1. /\ joined \in Seated /\ joined \in Player /\ phase = "WaitingForBets"
      /\ player[joined].bet = 0
  BY PlayerAssumption DEF ActorInv, ActorTypeOK, LoadBalance, LoadsJoined
<1>2. /\ player \in [Player -> PlayerState] /\ wallet[joined] \in Nat
  BY <1>1 DEF ActorInv, ActorTypeOK, TypeOK
<1>3. UNCHANGED <<phase, turn, players, waiting, observers, dealer, dealt>>
  BY DEF LoadBalance
<1>4. Seated' = Seated /\ Waiting' = Waiting
  BY <1>3 DEF Seated, Waiting
<1>5. /\ player' \in [Player -> PlayerState]
      /\ player'[joined].balance = wallet[joined]
      /\ player'[joined].seat = player[joined].seat
      /\ player'[joined].hand = player[joined].hand
      /\ player'[joined].bet = player[joined].bet
      /\ player'[joined].decision = player[joined].decision
      /\ \A p \in Player \ {joined} : player'[p] = player[p]
  <2>1. player' = [player EXCEPT ![joined].balance = wallet[joined]]
    BY DEF LoadBalance
  <2> QED
    BY <1>1, <1>2, <2>1 DEF PlayerState
<1>6. \A p \in Player : /\ player'[p].seat = player[p].seat
                       /\ player'[p].hand = player[p].hand
                       /\ player'[p].bet = player[p].bet
                       /\ player'[p].decision = player[p].decision
  BY <1>5
<1>7. IInv'
  <2> USE DEF ActorInv, IInv
  <2>1. TypeOK' /\ OneStateEach'
    BY <1>3, <1>4, <1>5 DEF TypeOK, OneStateEach
  <2>2. SeatsExclusive'
    BY <1>3, <1>4, <1>6, SetsType DEF SeatsExclusive
  <2>3. TurnIsPlayable'
    BY <1>1, <1>3 DEF TurnIsPlayable
  <2>4. HandsInBounds' /\ RoundStartsClean'
    BY <1>3, <1>6 DEF HandsInBounds, RoundStartsClean
  <2>5. DealerHasTwoCards' /\ DealerStandsOn17'
    BY <1>3 DEF DealerHasTwoCards, DealerStandsOn17
  <2> QED
    BY <2>1, <2>2, <2>3, <2>4, <2>5
<1>8. Stakes'
  BY <1>6 DEF ActorInv, Stakes
<1>9. InRound' = InRound
  BY <1>1, <1>3 DEF InRound
<1>10. \A p \in {joined} : Chips(p)' = wallet[p]
  BY <1>1, <1>2, <1>3, <1>5 DEF Chips
<1> QED
  BY <1>1, <1>4, <1>5, <1>7, <1>8, <1>9, <1>10

-----------------------------------------------------------------------------
(***************************************************************************)
(* The arms.                                                                *)
(***************************************************************************)

\* Where a player who is not written yet can be found when the actor waits: nowhere.
LEMMA WaitingCopies ==
  ASSUME ActorInv, pc \in {"select", "advance"}
  PROVE  /\ joined = Nobody /\ toFlush = <<>>
         /\ \A p \in Seated : Chips(p) = wallet[p]
PROOF
<1>1. joined = Nobody /\ toFlush = <<>> /\ Range(toFlush) = {}
  BY DEF ActorInv, LoadsJoined, FlushesSeated, Range
<1>2. Nobody \notin Seated
  BY PlayerAssumption, SetsType DEF ActorInv, IInv
<1> QED
  BY <1>1, <1>2 DEF ActorInv, Copies, Unwritten

\* An empty table that nobody plays with.
LEMMA ActorInitInv == ActorInit => ActorInv
PROOF
<1> SUFFICES ASSUME ActorInit PROVE ActorInv
  OBVIOUS
<1> USE DEF ActorInit
<1>1. IInv
  BY InitInv
<1>2. /\ Seated = {} /\ Range(toFlush) = {} /\ Len(players) = 0
      /\ phase = "WaitingForBets"
  BY DEF Init, Seated, Range
<1>3. Stakes
  BY SettingsAssumption DEF Init, Stakes, NoPlayer, AtSeat
<1>4. ActorTypeOK
  <2>1. summary \in [player_count : Nat, phase : Phase, is_joinable : BOOLEAN]
    BY DEF SummaryOf, Phase
  <2>2. toFlush \in Seq(Player)
    OBVIOUS
  <2> QED
    BY <1>1, <2>1, <2>2, StartChipsAssumption DEF ActorTypeOK, IInv, Location
<1>5. LoadsJoined /\ FlushesSeated /\ Copies
  BY <1>2 DEF LoadsJoined, FlushesSeated, Copies
<1>6. TimersArmed
  BY <1>2 DEF TimersArmed, NeverStuck
<1>7. Listed
  BY DEF Init, Listed
<1> QED
  BY <1>1, <1>3, <1>4, <1>5, <1>6, <1>7 DEF ActorInv

\* A command is handled while the actor has nothing else to do.
LEMMA ExecuteInv ==
  ASSUME ActorInv, NEW q \in Player, Execute(q)
  PROVE  ActorInv'
PROOF
<1>1. /\ pc = "select" /\ joined = Nobody /\ toFlush = <<>>
      /\ \A p \in Seated : Chips(p) = wallet[p]
      /\ IInv /\ Stakes /\ ActorTypeOK /\ TimersArmed
  BY WaitingCopies DEF ActorInv, Execute
<1>2. /\ IInv' /\ Stakes'
      /\ phase = "Finished" <=> phase' = "Finished"
      /\ \A p \in Seated \cap Seated' : Chips(p)' = Chips(p)
      /\ Seated' \subseteq Seated \cup {q}
      /\ q \in Seated' \ Seated => phase' = "WaitingForBets" /\ player'[q].bet = 0
  BY <1>1, CommandStep DEF Execute
<1>3. /\ joined' = IF q \in Seated' \ Seated THEN q ELSE Nobody
      /\ pc' = IF q \in Seated' \ Seated THEN "load" ELSE "summary"
      /\ UNCHANGED <<toFlush, wallet, summary, playerTimer, roundTimer>>
  BY DEF Execute
<1>4. q # Nobody
  BY PlayerAssumption
<1>5. ActorTypeOK'
  BY <1>1, <1>2, <1>3 DEF ActorTypeOK, IInv, Location
<1>6. LoadsJoined'
  BY <1>2, <1>3, <1>4 DEF LoadsJoined
<1>7. FlushesSeated' /\ Range(toFlush') = {}
  BY <1>1, <1>3 DEF FlushesSeated, Range
<1>8. TimersArmed' /\ Listed'
  BY <1>1, <1>2, <1>3 DEF TimersArmed, NeverStuck, Listed
<1>9. Copies'
  <2>1. ASSUME NEW p \in Seated' \ {joined'}
        PROVE  Chips(p)' = wallet'[p]
    <3>1. p \in Seated
      BY <1>2, <1>3, <2>1
    <3> QED
      BY <1>1, <1>2, <1>3, <3>1
  <2> QED
    BY <2>1 DEF Copies
<1> QED
  BY <1>2, <1>5, <1>6, <1>7, <1>8, <1>9 DEF ActorInv

\* What is common to the arms without a command: they start from a table whose books
\* are in order and leave a GameState whose summary is to be written.
LEMMA ArmInv ==
  ASSUME ActorInv, pc \in {"select", "advance"}, pc' = "summary",
         IInv', Stakes', players' = players,
         UNCHANGED <<joined, toFlush, wallet, summary>>,
         playerTimer' \in BOOLEAN, roundTimer' \in BOOLEAN,
         roundTimer' => phase' = "Finished",
         \/ phase' = "Finished"
         \/ \A p \in Seated : Chips(p)' = Chips(p)
  PROVE  ActorInv'
PROOF
<1>1. /\ joined = Nobody /\ toFlush = <<>> /\ Seated' = Seated
      /\ \A p \in Seated : Chips(p) = wallet[p]
  BY WaitingCopies DEF Seated
<1>2. ActorTypeOK'
  BY DEF ActorInv, ActorTypeOK, IInv, Location
<1>3. LoadsJoined' /\ FlushesSeated'
  BY <1>1 DEF LoadsJoined, FlushesSeated, Range
<1>4. TimersArmed' /\ Listed'
  BY DEF TimersArmed, NeverStuck, Listed
<1>5. Copies'
  BY <1>1 DEF Copies, Unwritten
<1> QED
  BY <1>2, <1>3, <1>4, <1>5 DEF ActorInv

\* The betting deadline deals.
LEMMA BettingTimeoutInv ==
  ASSUME ActorInv, BettingTimeout
  PROVE  ActorInv'
PROOF
<1>1. IInv /\ Stakes /\ TypeOK /\ Seated \subseteq Player
  BY SetsType DEF ActorInv, IInv
<1>2. Deal
  BY DEF BettingTimeout
<1>3. IInv'
  BY <1>1, <1>2, DealInitialCardsInv DEF Deal
<1>4. Stakes'
  BY <1>1, <1>2, DealKeepsStakes
<1>5. /\ players' = players /\ phase = "WaitingForBets" /\ phase' = "PlayerTurn"
      /\ \A p \in Seated : Chips(p)' = Chips(p)
  BY <1>1, <1>2, DealStakes DEF Chips
<1>6. /\ pc = "select" /\ pc' = "summary" /\ ~roundTimer
      /\ UNCHANGED <<joined, toFlush, wallet, summary, playerTimer, roundTimer>>
  BY <1>5 DEF BettingTimeout, ActorInv, TimersArmed
<1> QED
  BY <1>3, <1>4, <1>5, <1>6, ArmInv DEF ActorInv, ActorTypeOK

\* The turn deadline stands for the player on turn.
LEMMA PlayerTimeoutInv ==
  ASSUME ActorInv, PlayerTimeout
  PROVE  ActorInv'
PROOF
<1>1. IInv /\ Stakes /\ phase = "PlayerTurn" /\ Stand(turn)
  BY DEF ActorInv, PlayerTimeout
<1>2. PICK q \in Player : q = turn /\ Command(q) /\ players' = players
  BY <1>1, TimeoutIsCommand
<1>3. /\ IInv' /\ Stakes' /\ phase' # "Finished"
      /\ \A p \in Seated \cap Seated' : Chips(p)' = Chips(p)
  BY <1>1, <1>2, CommandStep
<1>4. Seated' = Seated
  BY <1>2 DEF Seated
<1>5. /\ pc = "select" /\ pc' = "summary" /\ ~roundTimer
      /\ UNCHANGED <<joined, toFlush, wallet, summary, playerTimer, roundTimer>>
  BY <1>1 DEF PlayerTimeout, ActorInv, TimersArmed
<1> QED
  BY <1>2, <1>3, <1>4, <1>5, ArmInv DEF ActorInv, ActorTypeOK

\* The round timer runs in a finished round only, so no stake is thrown away.
LEMMA RoundDelayOverInv ==
  ASSUME ActorInv, RoundDelayOver
  PROVE  ActorInv'
PROOF
<1>1. /\ IInv /\ phase = "Finished" /\ NewRound
      /\ pc = "select" /\ pc' = "summary" /\ roundTimer' = FALSE
      /\ UNCHANGED <<joined, toFlush, wallet, summary, playerTimer>>
  BY DEF ActorInv, TimersArmed, RoundDelayOver
<1>2. IInv' /\ Stakes' /\ players' = players
  BY <1>1, NewRoundInv, NewRoundKeepsStakes DEF NewRound
<1>3. \A p \in Seated : Chips(p)' = Chips(p)
  <2>1. ASSUME NEW p \in Seated PROVE Chips(p)' = Chips(p)
    <3>1. p \in Player /\ player[p].balance \in Nat
      BY <1>1, SetsType, ChipsOfState DEF IInv
    <3> QED
      BY <1>1, <3>1 DEF NewRound, Chips, AtSeat
  <2> QED
    BY <2>1
<1> QED
  BY <1>1, <1>2, <1>3, ArmInv DEF ActorInv, ActorTypeOK

\* The dealer plays, or the round is settled.
LEMMA AdvanceDealerInv ==
  ASSUME ActorInv, AdvanceDealer
  PROVE  ActorInv'
PROOF
<1>1. /\ IInv /\ Stakes /\ pc = "advance" /\ pc' = "summary"
      /\ phase \in {"DealerTurn", "Payouts"} /\ ~roundTimer
      /\ UNCHANGED <<joined, toFlush, wallet, summary, playerTimer, roundTimer>>
  BY DEF ActorInv, TimersArmed, AdvanceDealer
<1>2. CASE PlayHand
  <2>1. IInv' /\ UNCHANGED <<players, player>> /\ phase = "DealerTurn" /\ phase' = "Payouts"
    BY <1>1, <1>2, PlayHandInv DEF PlayHand
  <2>2. Stakes' /\ \A p \in Seated : Chips(p)' = Chips(p)
    BY <1>1, <2>1 DEF Stakes, Chips
  <2> QED
    BY <1>1, <2>1, <2>2, ArmInv DEF ActorInv, ActorTypeOK
<1>3. CASE SettleRound
  <2>1. IInv' /\ players' = players /\ phase' = "Finished"
    BY <1>1, <1>3, SettleRoundInv DEF SettleRound
  <2>2. Stakes'
    BY <1>1, <1>3, SettleRoundStakes DEF Stakes
  <2> QED
    BY <1>1, <2>1, <2>2, ArmInv DEF ActorInv, ActorTypeOK
<1> QED
  BY <1>2, <1>3 DEF AdvanceDealer

\* From now on the new player plays with what the wallet has.
LEMMA LoadBalanceInv ==
  ASSUME ActorInv, LoadBalance
  PROVE  ActorInv'
PROOF
<1>1. /\ pc = "load" /\ pc' = "summary" /\ joined' = Nobody /\ toFlush = <<>>
      /\ phase = "WaitingForBets"
      /\ UNCHANGED <<phase, players, toFlush, wallet, summary, playerTimer, roundTimer>>
  BY PlayerAssumption DEF ActorInv, LoadBalance, LoadsJoined, FlushesSeated
<1>2. /\ IInv' /\ Stakes' /\ Seated' = Seated
      /\ \A p \in {joined} : Chips(p)' = wallet[p]
      /\ \A p \in Player \ {joined} : player'[p] = player[p]
  BY LoadBalanceStep
<1>3. ActorTypeOK'
  BY <1>1, <1>2 DEF ActorInv, ActorTypeOK, IInv, Location
<1>4. LoadsJoined' /\ FlushesSeated'
  BY <1>1 DEF LoadsJoined, FlushesSeated, Range
<1>5. TimersArmed' /\ Listed'
  BY <1>1 DEF ActorInv, TimersArmed, NeverStuck, Listed
<1>6. Copies'
  <2>1. ASSUME NEW p \in Seated
        PROVE  Chips(p)' = wallet[p]
    <3>1. CASE p = joined
      BY <1>2, <3>1
    <3>2. CASE p # joined
      <4>1. Chips(p) = wallet[p] /\ p \in Player
        BY <1>1, <3>2, SetsType DEF ActorInv, IInv, Copies, Unwritten
      <4> QED
        BY <1>1, <1>2, <3>2, <4>1 DEF Chips
    <3> QED
      BY <3>1, <3>2
  <2> QED
    BY <1>1, <1>2, <2>1 DEF Copies
<1> QED
  BY <1>2, <1>3, <1>4, <1>5, <1>6 DEF ActorInv

\* What a step that leaves the GameState alone leaves alone.
LEMMA SameGame ==
  ASSUME UNCHANGED vars
  PROVE  /\ Seated' = Seated
         /\ IInv => IInv'
         /\ Stakes => Stakes'
         /\ \A p \in Player : Chips(p)' = Chips(p)
         /\ InRound' = InRound
         /\ UNCHANGED <<phase, players, player>>
PROOF
<1>1. Seated' = Seated /\ UNCHANGED <<phase, players, player>>
  BY DEF vars, Seated
<1> QED
  BY <1>1, StutterInv DEF Stakes, Chips, InRound, Bettors

\* Who is written next is on the list from now on.
LEMMA UpdateSummaryInv ==
  ASSUME ActorInv, UpdateSummary
  PROVE  ActorInv'
PROOF
<1>1. /\ pc = "summary" /\ pc' = "flush" /\ summary' = SummaryOf(players, phase)
      /\ toFlush' = IF phase = "Finished" THEN players ELSE <<>>
      /\ UNCHANGED <<joined, wallet, playerTimer, roundTimer>>
      /\ UNCHANGED vars
  BY DEF UpdateSummary
<1>2. /\ IInv' /\ Stakes' /\ Seated' = Seated
      /\ \A p \in Player : Chips(p)' = Chips(p)
      /\ UNCHANGED <<phase, players, player>>
  BY <1>1, SameGame DEF ActorInv
<1>3. Range(toFlush') = IF phase = "Finished" THEN Seated ELSE {}
  BY <1>1 DEF Seated, Range
<1>4. ActorTypeOK'
  <2>1. players \in Seq(Player) /\ phase \in Phase /\ MaxPlayers \in Nat
    BY SettingsAssumption DEF ActorInv, ActorTypeOK, TypeOK
  <2>2. summary' \in [player_count : Nat, phase : Phase, is_joinable : BOOLEAN]
    <3>1. Len(players) \in Nat
      BY <2>1, LenProperties
    <3> QED
      BY <1>1, <2>1, <3>1 DEF SummaryOf
  <2>3. toFlush' \in Seq(Player)
    BY <1>1, <2>1
  <2> QED
    BY <1>1, <1>2, <2>2, <2>3 DEF ActorInv, ActorTypeOK, IInv, Location
<1>5. LoadsJoined'
  BY <1>1, <1>2 DEF ActorInv, LoadsJoined
<1>6. FlushesSeated'
  BY <1>1, <1>2, <1>3 DEF FlushesSeated
<1>7. TimersArmed' /\ Listed'
  BY <1>1, <1>2 DEF ActorInv, TimersArmed, NeverStuck, Listed
<1>8. Copies'
  <2>1. toFlush = <<>> /\ Range(toFlush) = {} /\ Seated \subseteq Player
    BY <1>1, SetsType DEF ActorInv, IInv, FlushesSeated, Range
  <2> QED
    BY <1>1, <1>2, <1>3, <2>1 DEF ActorInv, Copies, Unwritten
<1> QED
  BY <1>2, <1>4, <1>5, <1>6, <1>7, <1>8 DEF ActorInv

\* The elements of a sequence are its head and those of its tail.
LEMMA HeadAndTail ==
  ASSUME NEW S, NEW s \in Seq(S), s # <<>>
  PROVE  /\ Head(s) \in S /\ Tail(s) \in Seq(S)
         /\ Range(s) = {Head(s)} \cup Range(Tail(s))
PROOF
<1>1. /\ Len(s) \in Nat \ {0} /\ DOMAIN s = 1..Len(s)
      /\ Head(s) = s[1] /\ Tail(s) \in Seq(S)
      /\ Len(Tail(s)) = Len(s) - 1 /\ DOMAIN Tail(s) = 1..(Len(s) - 1)
      /\ \A i \in 1..(Len(s) - 1) : Tail(s)[i] = s[i + 1]
  BY HeadTailProperties, LenProperties, EmptySeq
<1>2. s[1] \in S
  BY <1>1, ElementOfSeq
<1>3. Range(s) \subseteq {Head(s)} \cup Range(Tail(s))
  <2>1. SUFFICES ASSUME NEW i \in 1..Len(s)
                 PROVE  s[i] = Head(s) \/ s[i] \in Range(Tail(s))
    BY <1>1 DEF Range
  <2>2. CASE i = 1
    BY <1>1, <2>2
  <2>3. CASE i # 1
    <3>1. i - 1 \in 1..(Len(s) - 1) /\ Tail(s)[i - 1] = s[i]
      BY <1>1, <2>3
    <3> QED
      BY <1>1, <3>1 DEF Range
  <2> QED
    BY <2>2, <2>3
<1>4. {Head(s)} \cup Range(Tail(s)) \subseteq Range(s)
  BY <1>1 DEF Range
<1> QED
  BY <1>1, <1>2, <1>3, <1>4

\* One balance is written; the others are still on the list or written already.
LEMMA FlushBalanceInv ==
  ASSUME ActorInv, FlushBalance
  PROVE  ActorInv'
PROOF
<1>1. /\ pc = "flush" /\ pc' = "flush" /\ toFlush # <<>> /\ toFlush' = Tail(toFlush)
      /\ UNCHANGED <<joined, summary, playerTimer, roundTimer>>
      /\ UNCHANGED vars
      /\ phase = "Finished"
  BY DEF ActorInv, FlushesSeated, FlushBalance
<1>2. /\ IInv' /\ Stakes' /\ Seated' = Seated /\ Seated \subseteq Player
      /\ \A p \in Player : Chips(p)' = Chips(p)
      /\ UNCHANGED <<phase, players, player>>
  BY <1>1, SameGame, SetsType DEF ActorInv, IInv
<1>3. PICK h \in Player : /\ h = Head(toFlush) /\ toFlush' \in Seq(Player)
                          /\ Range(toFlush) = {h} \cup Range(toFlush')
  BY <1>1, HeadAndTail DEF ActorInv, ActorTypeOK
<1>4. /\ wallet' = [wallet EXCEPT ![h] = player[h].balance]
      /\ player[h].balance \in Nat /\ Chips(h) = player[h].balance
  BY <1>1, <1>3, ChipsOfState DEF ActorInv, FlushBalance, Chips
<1>5. /\ wallet' \in [Player -> Nat] /\ wallet'[h] = player[h].balance
      /\ \A p \in Player \ {h} : wallet'[p] = wallet[p]
  BY <1>4 DEF ActorInv, ActorTypeOK
<1>6. ActorTypeOK'
  BY <1>1, <1>2, <1>3, <1>5 DEF ActorInv, ActorTypeOK, IInv
<1>7. LoadsJoined' /\ TimersArmed' /\ Listed'
  BY <1>1, <1>2 DEF ActorInv, LoadsJoined, TimersArmed, NeverStuck, Listed
<1>8. FlushesSeated'
  BY <1>1, <1>2, <1>3 DEF ActorInv, FlushesSeated
<1>9. Copies'
  BY <1>1, <1>2, <1>3, <1>4, <1>5 DEF ActorInv, Copies, Unwritten
<1> QED
  BY <1>2, <1>6, <1>7, <1>8, <1>9 DEF ActorInv

\* Everything is written when the actor arms its timers.
LEMMA SetTimersInv ==
  ASSUME ActorInv, SetTimers
  PROVE  ActorInv'
PROOF
<1>1. /\ pc = "flush" /\ toFlush = <<>>
      /\ roundTimer' = (roundTimer \/ phase = "Finished")
      /\ playerTimer' = (phase = "PlayerTurn")
      /\ pc' = IF phase \in {"DealerTurn", "Payouts"} THEN "advance" ELSE "select"
      /\ UNCHANGED <<joined, toFlush, wallet, summary>>
      /\ UNCHANGED vars
  BY DEF SetTimers
<1>2. /\ IInv' /\ Stakes' /\ Seated' = Seated /\ Seated \subseteq Player
      /\ \A p \in Player : Chips(p)' = Chips(p)
      /\ UNCHANGED <<phase, players, player>>
  BY <1>1, SameGame, SetsType DEF ActorInv, IInv
<1>3. ActorTypeOK'
  BY <1>1, <1>2 DEF ActorInv, ActorTypeOK, IInv, Location
<1>4. LoadsJoined' /\ FlushesSeated' /\ Range(toFlush) = {}
  BY <1>1, <1>2 DEF ActorInv, LoadsJoined, FlushesSeated, Range
<1>5. TimersArmed' /\ Listed'
  BY <1>1, <1>2 DEF ActorInv, TimersArmed, NeverStuck, Listed
<1>6. Copies'
  BY <1>1, <1>2, <1>4 DEF ActorInv, Copies, Unwritten
<1> QED
  BY <1>2, <1>3, <1>4, <1>5, <1>6 DEF ActorInv

\* A step that changes nothing keeps the invariant.
LEMMA ActorStutterInv ==
  ASSUME ActorInv, UNCHANGED allVars
  PROVE  ActorInv'
PROOF
<1>1. UNCHANGED vars
      /\ UNCHANGED <<pc, joined, toFlush, wallet, summary, playerTimer, roundTimer>>
  BY DEF allVars, actorVars
<1>2. /\ IInv' /\ Stakes' /\ Seated' = Seated /\ Seated \subseteq Player
      /\ \A p \in Player : Chips(p)' = Chips(p)
      /\ UNCHANGED <<phase, players, player>>
  BY <1>1, SameGame, SetsType DEF ActorInv, IInv
<1>3. ActorTypeOK' /\ LoadsJoined' /\ FlushesSeated' /\ TimersArmed' /\ Listed'
  BY <1>1, <1>2 DEF ActorInv, ActorTypeOK, IInv, LoadsJoined, FlushesSeated, TimersArmed,
                    NeverStuck, Listed
<1>4. Copies'
  BY <1>1, <1>2 DEF ActorInv, Copies, Unwritten
<1> QED
  BY <1>2, <1>3, <1>4 DEF ActorInv

\* Every arm, and every step of it, keeps the invariant.
LEMMA ActorStepInv == ActorInv /\ [ActorNext]_allVars => ActorInv'
PROOF
  BY ExecuteInv, BettingTimeoutInv, PlayerTimeoutInv, RoundDelayOverInv, LoadBalanceInv,
     UpdateSummaryInv, FlushBalanceInv, SetTimersInv, AdvanceDealerInv, ActorStutterInv
  DEF ActorNext, ActorStep

\* ActorInv is an invariant of the actor, whatever is commanded, and at whatever moment
\* a timer runs out.
THEOREM ActorInvariance == ActorSpec => []ActorInv
PROOF
  BY ActorInitInv, ActorStepInv, PTL DEF ActorSpec

\* Every variable of the actor and of its game keeps its type.
THEOREM ActorTypeCorrect == ActorSpec => []ActorTypeOK
PROOF
<1>1. ActorInv => ActorTypeOK
  BY DEF ActorInv
<1> QED
  BY <1>1, ActorInvariance, PTL

\* A waiting actor always has the timer that its phase needs, and no other: neither is
\* a table forgotten nor a round cut short by the timer of the one before.
THEOREM NeverStuckHolds == ActorSpec => []NeverStuck
PROOF
<1>1. ActorInv => NeverStuck
  BY DEF ActorInv, TimersArmed
<1> QED
  BY <1>1, ActorInvariance, PTL

\* Every arm ends with the summary, the reset of a round included.
THEOREM SummaryCurrentHolds == ActorSpec => []SummaryCurrent
PROOF
<1>1. ActorInv => SummaryCurrent
  BY DEF ActorInv, Listed, SummaryCurrent
<1> QED
  BY <1>1, ActorInvariance, PTL

\* A player may leave whenever the actor takes the command: the wallet has every chip.
THEOREM CopyMatchesWalletHolds == ActorSpec => []CopyMatchesWallet
PROOF
<1>1. ActorInv => CopyMatchesWallet
  BY WaitingCopies DEF CopyMatchesWallet
<1> QED
  BY <1>1, ActorInvariance, PTL

-----------------------------------------------------------------------------
(***************************************************************************)
(* The game at a table that an actor runs.  It is GameEngine's but for the  *)
(* balance, which is loaded a step after somebody sat down and may be any.  *)
(***************************************************************************)

\* What an arm does to the game is a move of the engine, the loading of a balance or
\* nothing: the timer of the round runs out in a finished round only.
LEMMA ArmIsMove ==
  ASSUME ActorInv, ActorNext
  PROVE  Moves \/ LoadBalance \/ UNCHANGED vars
PROOF
<1>1. ASSUME NEW p \in Player, Execute(p)
      PROVE  Moves \/ UNCHANGED vars
  <2>1. 0 \in Nat
    OBVIOUS
  <2> QED
    BY <1>1, <2>1 DEF Execute, Command, EmptyCommand, AnyMembership, Moves
<1>2. CASE PlayerTimeout
  <2>1. turn \in Player /\ Play(turn)
    BY <1>2 DEF PlayerTimeout, ActorInv, IInv, TypeOK, TurnIsPlayable, Play
  <2> QED
    BY <2>1 DEF Moves
<1>3. CASE BettingTimeout \/ AdvanceDealer
  BY <1>3 DEF BettingTimeout, AdvanceDealer, Moves, DealerStep
<1>4. CASE RoundDelayOver
  BY <1>4 DEF RoundDelayOver, ActorInv, TimersArmed, StartOver, Moves, DealerStep
<1> QED
  BY <1>1, <1>2, <1>3, <1>4 DEF ActorNext, ActorStep, UpdateSummary, FlushBalance, SetTimers

\* The actor keeps the shoe in bounds: nobody has a card when a balance is loaded.
LEMMA ActorKeepsShoe == ShoeInv /\ ActorInv /\ [ActorNext]_allVars => ShoeInv'
PROOF
<1> SUFFICES ASSUME ShoeInv, ActorInv, [ActorNext]_allVars PROVE ShoeInv'
  OBVIOUS
<1>1. IInv'
  BY ActorStepInv DEF ActorInv
<1>2. CASE LoadBalance
  BY <1>1, <1>2, ShoeFresh DEF LoadBalance, ActorInv, LoadsJoined
<1> QED
  BY <1>1, <1>2, ArmIsMove, ShoeMove, ShoeStutter DEF allVars

\* A table with the shoe of new_shoe never meets ShoeEmpty in a round: no Hit is refused
\* for want of a card, and fire_dealer, which drops a refusal, never leaves the table in
\* DealerTurn with nobody to move it on.
THEOREM ActorShoeSuffices == ActorSpec => []ShoeSuffices
PROOF
<1>1. ActorInit => ShoeInv
  BY ShoeInit DEF ActorInit
<1>2. ActorSpec => []ShoeInv
  BY <1>1, ActorKeepsShoe, ActorInvariance, PTL DEF ActorSpec
<1>3. ShoeInv => ShoeSuffices
  BY ShoeIsEnough
<1> QED
  BY <1>2, <1>3, PTL

\* No arm, no timer and no loading of a balance makes a player act twice, or takes the
\* turn from one who is not done.
LEMMA ActorTurnStep == ActorInv /\ [ActorNext]_allVars => [TurnStep]_vars
PROOF
<1> SUFFICES ASSUME ActorInv, [ActorNext]_allVars PROVE [TurnStep]_vars
  OBVIOUS
<1>1. IInv /\ Seated \subseteq Player
  BY SetsType DEF ActorInv, IInv
<1>2. CASE LoadBalance
  <2>1. UNCHANGED <<phase, turn, players>>
    BY <1>2 DEF LoadBalance
  <2>2. turn = Nobody
    BY <1>1, <1>2, TurnPhase DEF LoadBalance, ActorInv, LoadsJoined
  <2>3. \A p \in Player : ~PlayerFinished(p)
    BY <1>1, <1>2
    DEF LoadBalance, ActorInv, LoadsJoined, IInv, RoundStartsClean, PlayerFinished, IsBust, EmptyHand
  <2> QED
    BY <1>1, <2>1, <2>2, <2>3, TurnPhase DEF TurnStep, Seated
<1> QED
  BY <1>1, <1>2, ArmIsMove, TurnMove DEF allVars

\* At a table that an actor runs, with its timers and its resets, a turn ends for good.
THEOREM ActorTurnsEndForGood == ActorSpec => TurnEndsForGood
PROOF
  BY ActorTurnStep, ActorInvariance, PTL DEF ActorSpec, TurnEndsForGood, TurnStep

\* What the engine promises it promises at such a table, too.
THEOREM ActorPlaysFair ==
  ActorSpec => [](/\ OneStateEach /\ SeatsExclusive /\ TurnIsPlayable
                  /\ HandsInBounds /\ RoundStartsClean /\ DealerStandsOn17)
PROOF
<1>1. ActorInv => /\ OneStateEach /\ SeatsExclusive /\ TurnIsPlayable
                  /\ HandsInBounds /\ RoundStartsClean /\ DealerStandsOn17
  BY DEF ActorInv, IInv
<1> QED
  BY <1>1, ActorInvariance, PTL

-----------------------------------------------------------------------------
(***************************************************************************)
(* Table and wallet implement ChipLedger.                                   *)
(***************************************************************************)

\* An account is the wallet's as long as nobody's balance is yet to be written.
LEMMA AccountIsWallet ==
  ASSUME ActorInv, pc \in {"select", "advance"}
  PROVE  \A p \in Player : Account[p] = wallet[p]
PROOF
  BY WaitingCopies DEF Account

\* Accounts are equal when they have the same chips.
LEMMA SameAccount ==
  ASSUME \A p \in Player : Account'[p] = Account[p]
  PROVE  Account' = Account
PROOF
  BY DEF Account

\* A round takes up and gives up players of the table.
LEMMA InRoundType ==
  ASSUME IInv
  PROVE  InRound \in SUBSET Player
PROOF
  BY SetsType DEF IInv, InRound

\* A command moves nobody's chips and takes at most its sender out of the round.
LEMMA CommandLedger ==
  ASSUME ActorInv, pc = "select", NEW q \in Player, Command(q), wallet' = wallet,
         joined' = IF q \in Seated' \ Seated THEN q ELSE Nobody
  PROVE  [Ledger!Next]_(Ledger!vars)
PROOF
<1>1. /\ \A p \in Seated \cap Seated' : Chips(p)' = Chips(p)
      /\ Seated' \subseteq Seated \cup {q}
      /\ InRound' = InRound \/ (q \in InRound /\ InRound' = InRound \ {q})
  BY CommandStep DEF ActorInv
<1>2. \A p \in Seated : Chips(p) = wallet[p]
  BY WaitingCopies
<1>3. ASSUME NEW p \in Player
      PROVE  Account'[p] = Account[p]
  <2>1. Account[p] = wallet[p]
    BY AccountIsWallet
  <2>2. Account'[p] = IF p \in Seated' /\ p # joined' THEN Chips(p)' ELSE wallet'[p]
    BY DEF Account
  <2>3. p \in Seated' /\ p # joined' => p \in Seated
    BY <1>1
  <2> QED
    BY <1>1, <1>2, <2>1, <2>2, <2>3
<1>4. Account' = Account
  BY <1>3, SameAccount
<1> QED
  BY <1>1, <1>4 DEF Ledger!Next, Ledger!DropOut, Ledger!vars

\* The arms of the timers that keep everybody at the table.
LEMMA SameChipsLedger ==
  ASSUME ActorInv, Seated' = Seated, joined' = joined, wallet' = wallet,
         \A p \in Seated : Chips(p)' = Chips(p)
  PROVE  Account' = Account
PROOF
<1>1. ASSUME NEW p \in Player
      PROVE  Account'[p] = Account[p]
  BY DEF Account
<1> QED
  BY <1>1, SameAccount

\* What a settled stake is worth: at most the stake is lost, and at most two bets are
\* won, because a blackjack is not doubled.
LEMMA OutcomeInBounds ==
  ASSUME IInv, Stakes, NEW p \in Player
  PROVE  Payout(player[p].bet, SettlePlayer(player[p].hand, dealer)) - player[p].bet
           \in (-2 * MaxBet)..(2 * MaxBet)
PROOF
<1>1. /\ player[p].bet \in Nat /\ player[p].bet <= 2 * MaxBet /\ MaxBet \in Nat
      /\ player[p].hand \in Hand /\ dealer \in Hand
  BY SettingsAssumption DEF IInv, TypeOK, PlayerState, Stakes
<1> DEFINE bet == player[p].bet
           outcome == SettlePlayer(player[p].hand, dealer)
<1>2. outcome \in Outcomes
  BY <1>1, OutcomeType
<1>3. outcome = "Blackjack" => bet <= MaxBet
  <2>1. outcome = "Blackjack" => player[p].hand.cards = 2
    BY DEF SettlePlayer, IsNaturalBlackjack
  <2>2. player[p].hand.cards = 2 => bet <= MaxBet
    BY DEF Stakes
  <2> QED
    BY <2>1, <2>2
<1> HIDE DEF outcome
<1>4. bet \div 2 \in Nat /\ bet \div 2 <= bet
  BY <1>1
<1> HIDE DEF bet
<1>5. bet \in Nat /\ bet <= 2 * MaxBet
  BY <1>1 DEF bet
<1>6. Payout(bet, outcome) - bet \in (-2 * MaxBet)..(2 * MaxBet)
  BY <1>1, <1>2, <1>3, <1>4, <1>5 DEF Payout, Outcomes
<1> QED
  BY <1>6 DEF bet, outcome

\* Settlement is the one step that changes accounts, all at once.
LEMMA SettleLedger ==
  ASSUME ActorInv, AdvanceDealer, SettleRound
  PROVE  Ledger!Settle
PROOF
<1>1. /\ IInv /\ Stakes /\ IInv' /\ pc = "advance"
      /\ phase = "Payouts" /\ phase' = "Finished"
      /\ players' = players /\ joined' = joined /\ wallet' = wallet
  BY SettleRoundInv DEF ActorInv, AdvanceDealer, SettleRound
<1>2. /\ joined = Nobody /\ Seated' = Seated /\ Nobody \notin Player /\ Seated \subseteq Player
      /\ \A p \in Seated : Chips(p) = wallet[p]
  BY <1>1, WaitingCopies, PlayerAssumption, SetsType DEF Seated, IInv
<1>3. InRound = Bettors /\ InRound' = {}
  BY <1>1 DEF InRound
<1>4. ChipsStep
  BY <1>1, ChipsMove DEF Next, DealerStep
<1>5. ASSUME NEW p \in Player
      PROVE  /\ Account[p] \in Nat /\ Account'[p] \in Nat
             /\ p \in InRound => Account'[p] - Account[p] \in (-2 * MaxBet)..(2 * MaxBet)
             /\ p \notin InRound => Account'[p] = Account[p]
  <2>1. /\ Account[p] = IF p \in Seated THEN Chips(p) ELSE wallet[p]
        /\ Account'[p] = IF p \in Seated THEN Chips(p)' ELSE wallet[p]
    BY <1>1, <1>2 DEF Account
  <2>2. wallet[p] \in Nat /\ Chips(p) \in Nat
    BY <1>1, ChipsOfState DEF ActorInv, ActorTypeOK
  <2>3. Chips(p)' \in Nat
    <3>1. player'[p] \in PlayerState
      BY <1>1 DEF IInv, TypeOK
    <3> QED
      BY <3>1 DEF PlayerState, Chips
  <2>4. CASE p \in Bettors
    <3>1. p \in Seated /\ player[p].bet # 0
      BY <2>4 DEF Bettors
    <3>2. Chips(p)' - Chips(p) =
            Payout(player[p].bet, SettlePlayer(player[p].hand, dealer)) - player[p].bet
      BY <1>1, <1>2, <1>4, <3>1 DEF ChipsStep
    <3>3. Chips(p)' - Chips(p) \in (-2 * MaxBet)..(2 * MaxBet)
      BY <1>1, <3>2, OutcomeInBounds
    <3> QED
      BY <1>3, <2>1, <2>2, <2>3, <2>4, <3>1, <3>3
  <2>5. CASE p \in Seated \ Bettors
    <3>1. player[p].bet = 0
      BY <2>5 DEF Bettors
    <3>2. Chips(p)' - Chips(p) = 0
      BY <1>2, <1>4, <2>5, <3>1 DEF ChipsStep
    <3> QED
      BY <1>3, <2>1, <2>2, <2>3, <2>5, <3>2
  <2>6. CASE p \notin Seated
    BY <1>3, <2>1, <2>2, <2>6 DEF Bettors
  <2> QED
    BY <2>4, <2>5, <2>6
<1>6. Account' \in [Player -> Nat]
  BY <1>5 DEF Account
<1>7. MaxBet \in Nat
  BY SettingsAssumption
<1>8. ASSUME NEW p \in InRound
      PROVE  Account'[p] \in (Account[p] - 2 * MaxBet)..(Account[p] + 2 * MaxBet)
  <2>1. p \in Player
    BY <1>1, InRoundType
  <2> QED
    BY <1>5, <1>7, <2>1
<1> QED
  BY <1>3, <1>5, <1>6, <1>8 DEF Ledger!Settle

\* Every step of the actor is a step of the ledger or none.
LEMMA LedgerStep ==
  ASSUME ActorInv, [ActorNext]_allVars
  PROVE  [Ledger!Next]_(Ledger!vars)
PROOF
<1>1. IInv /\ Stakes /\ Seated \subseteq Player
  BY SetsType DEF ActorInv, IInv
<1>2. Account' = Account /\ InRound' = InRound => [Ledger!Next]_(Ledger!vars)
  BY DEF Ledger!vars
<1>3. ASSUME NEW q \in Player, Execute(q)
      PROVE  [Ledger!Next]_(Ledger!vars)
  BY <1>3, CommandLedger DEF Execute
<1>4. CASE BettingTimeout
  <2>1. Deal /\ UNCHANGED <<joined, wallet>>
    BY <1>4 DEF BettingTimeout
  <2>2. /\ phase = "WaitingForBets" /\ Seated' = Seated
        /\ \A p \in Seated : Chips(p)' = Chips(p)
    BY <1>1, <2>1, DealStakes DEF Chips, Seated
  <2>3. Account' = Account /\ InRound = {}
    BY <2>1, <2>2, SameChipsLedger DEF InRound
  <2>4. InRound' \in SUBSET Player
    BY <1>1, <2>2, SetsType DEF InRound, Bettors
  <2> QED
    BY <2>3, <2>4 DEF Ledger!Next, Ledger!StartRound
<1>5. CASE PlayerTimeout
  <2>1. /\ pc = "select" /\ UNCHANGED <<joined, wallet>>
        /\ phase = "PlayerTurn" /\ Stand(turn)
    BY <1>5 DEF PlayerTimeout
  <2>2. PICK q \in Player : q = turn /\ Command(q) /\ players' = players
    BY <1>1, <2>1, TimeoutIsCommand
  <2>3. Seated' = Seated /\ joined = Nobody
    BY <2>1, <2>2, WaitingCopies DEF Seated
  <2> QED
    BY <2>1, <2>2, <2>3, CommandLedger
<1>6. CASE RoundDelayOver
  <2>1. /\ phase = "Finished" /\ NewRound /\ UNCHANGED <<joined, wallet>>
    BY <1>6 DEF ActorInv, TimersArmed, RoundDelayOver
  <2>2. ASSUME NEW p \in Seated PROVE Chips(p)' = Chips(p)
    <3>1. p \in Player /\ player[p].balance \in Nat
      BY <1>1, ChipsOfState
    <3> QED
      BY <2>1, <3>1 DEF NewRound, Chips, AtSeat
  <2>3. Seated' = Seated /\ InRound' = InRound
    BY <2>1 DEF NewRound, Seated, InRound
  <2> QED
    BY <1>2, <2>1, <2>2, <2>3, SameChipsLedger
<1>7. CASE LoadBalance
  <2>1. /\ Seated' = Seated /\ InRound' = InRound
        /\ \A p \in {joined} : Chips(p)' = wallet[p]
        /\ \A p \in Player \ {joined} : player'[p] = player[p]
        /\ joined' = Nobody /\ UNCHANGED <<phase, wallet>>
    BY <1>7, LoadBalanceStep DEF LoadBalance
  <2>2. ASSUME NEW p \in Player PROVE Account'[p] = Account[p]
    <3>1. p # Nobody
      BY PlayerAssumption
    <3>2. /\ Account[p] = IF p \in Seated /\ p # joined THEN Chips(p) ELSE wallet[p]
          /\ Account'[p] = IF p \in Seated THEN Chips(p)' ELSE wallet[p]
      BY <2>1, <3>1 DEF Account
    <3>3. CASE p = joined
      BY <2>1, <3>2, <3>3
    <3>4. CASE p # joined
      <4>1. Chips(p)' = Chips(p)
        BY <2>1, <3>4 DEF Chips
      <4> QED
        BY <3>2, <3>4, <4>1
    <3> QED
      BY <3>3, <3>4
  <2> QED
    BY <1>2, <2>1, <2>2, SameAccount
<1>8. CASE UpdateSummary \/ SetTimers \/ UNCHANGED allVars
  <2>1. UNCHANGED vars /\ UNCHANGED <<joined, wallet>>
    BY <1>8 DEF UpdateSummary, SetTimers, allVars, actorVars
  <2>2. /\ Seated' = Seated /\ InRound' = InRound
        /\ \A p \in Seated : Chips(p)' = Chips(p)
    BY <1>1, <2>1, SameGame
  <2> QED
    BY <1>2, <2>1, <2>2, SameChipsLedger
<1>9. CASE FlushBalance
  <2>1. /\ UNCHANGED vars /\ UNCHANGED joined /\ pc = "flush" /\ toFlush # <<>>
        /\ wallet' = [wallet EXCEPT ![Head(toFlush)] = player[Head(toFlush)].balance]
    BY <1>9 DEF FlushBalance
  <2>2. joined = Nobody /\ Head(toFlush) \in Seated
    BY <2>1, HeadAndTail DEF ActorInv, ActorTypeOK, LoadsJoined, FlushesSeated
  <2>3. /\ Seated' = Seated /\ InRound' = InRound
        /\ \A p \in Seated : Chips(p)' = Chips(p)
    BY <1>1, <2>1, SameGame
  <2>4. ASSUME NEW p \in Player PROVE Account'[p] = Account[p]
    <3>1. p # Nobody
      BY PlayerAssumption
    <3>2. p \notin Seated => wallet'[p] = wallet[p]
      BY <2>1, <2>2 DEF ActorInv, ActorTypeOK
    <3> QED
      BY <2>1, <2>2, <2>3, <3>1, <3>2 DEF Account
  <2> QED
    BY <1>2, <2>3, <2>4, SameAccount
<1>10. CASE AdvanceDealer
  <2>1. CASE PlayHand
    <3>1. /\ UNCHANGED <<players, player>> /\ phase = "DealerTurn" /\ phase' = "Payouts"
          /\ UNCHANGED <<joined, wallet>>
      BY <1>10, <2>1 DEF PlayHand, AdvanceDealer
    <3>2. /\ Seated' = Seated /\ InRound' = InRound
          /\ \A p \in Seated : Chips(p)' = Chips(p)
      BY <3>1 DEF Seated, InRound, Bettors, Chips
    <3> QED
      BY <1>2, <3>1, <3>2, SameChipsLedger
  <2>2. CASE SettleRound
    BY <1>10, <2>2, SettleLedger DEF Ledger!Next
  <2> QED
    BY <1>10, <2>1, <2>2 DEF AdvanceDealer
<1> QED
  BY <1>3, <1>4, <1>5, <1>6, <1>7, <1>8, <1>9, <1>10 DEF ActorNext, ActorStep

\* The actor, its table and the wallet keep the books: whatever players do and
\* wherever a timer falls, chips change hands at settlement only, within two bets.
THEOREM ImplementsLedger == ActorSpec => KeepsTheBooks
PROOF
<1>1. ActorInit => Ledger!Init
  <2> SUFFICES ASSUME ActorInit PROVE Ledger!Init
    OBVIOUS
  <2>1. Seated = {} /\ phase = "WaitingForBets"
    BY DEF ActorInit, Init, Seated, Range
  <2>2. Account \in [Player -> Nat]
    BY <2>1, StartChipsAssumption DEF ActorInit, Account
  <2> QED
    BY <2>1, <2>2 DEF Ledger!Init, InRound
<1>2. ActorInv /\ [ActorNext]_allVars => [Ledger!Next]_(Ledger!vars)
  BY LedgerStep
<1> QED
  BY <1>1, <1>2, ActorInvariance, PTL DEF ActorSpec, KeepsTheBooks, Ledger!Spec

================================================================================
