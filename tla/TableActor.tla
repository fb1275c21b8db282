------------------------------ MODULE TableActor ------------------------------
(***************************************************************************)
(* The task that runs one table: run_table_actor of                         *)
(* server/src/session/table_actor.rs around the GameState of GameEngine,    *)
(* with the wallet it reads and writes, the summary the lobby reads and its *)
(* timers.  Only the actor touches its GameState, but each `.await' between *)
(* two of its effects lets every other task see the effects so far: the     *)
(* steps of one select! arm are separate actions, in the order of the code. *)
(***************************************************************************)
EXTENDS GameEngine

CONSTANT StartChips    \* the chips an account is opened with (main.rs)

ASSUME StartChipsAssumption == StartChips \in Nat

VARIABLES pc,           \* where the actor is in its select! loop
          joined,       \* the player whose balance the arm has yet to load
          toFlush,      \* the players whose balances are still to be written
          wallet,       \* the balances of wallet/in_memory.rs
          summary,      \* the TableSummary that list_tables reads
          playerTimer,  \* player_dl is Some
          roundTimer    \* round_dl is Some

actorVars == <<pc, joined, toFlush, wallet, summary, playerTimer, roundTimer>>
allVars == <<vars, actorVars>>

\* "select": waiting; "load": the wallet of a new player; "summary": the lock of
\* the summary; "flush": the wallet of the players; "advance": the dealer's move.
Location == {"select", "load", "summary", "flush", "advance"}

SummaryOf(pls, ph) ==
  [player_count |-> Len(pls), phase |-> ph, is_joinable |-> Len(pls) < MaxPlayers]

-----------------------------------------------------------------------------
(***************************************************************************)
(* The arms of select!.                                                     *)
(***************************************************************************)

\* Commands that are accepted with no event: JoinTable by anyone present and
\* LeaveSeat by an observer.  They run through the rest of the arm all the same.
EmptyCommand(p) == p \in Present /\ UNCHANGED vars

Command(p) ==
  \/ JoinTable(p)
  \/ \E want \in {"any", "this"} : TakeSeat(p, want, 0)
  \/ LeaveSeat(p)
  \/ LeaveTable(p)
  \/ Play(p)
  \/ EmptyCommand(p)

\* TableCommand::Execute that the engine accepts; a refused one is answered and
\* changes nothing.
Execute(p) ==
  /\ pc = "select"
  /\ Command(p)
  /\ joined' = IF p \in Seated' \ Seated THEN p ELSE Nobody
  /\ pc' = IF p \in Seated' \ Seated THEN "load" ELSE "summary"
  /\ UNCHANGED <<toFlush, wallet, summary, playerTimer, roundTimer>>

\* betting_dl is always armed, and looked at while bets are open only.
BettingTimeout ==
  /\ pc = "select"
  /\ phase = "WaitingForBets"
  /\ Deal
  /\ pc' = "summary"
  /\ UNCHANGED <<joined, toFlush, wallet, summary, playerTimer, roundTimer>>

PlayerTimeout ==
  /\ pc = "select"
  /\ playerTimer
  /\ phase = "PlayerTurn"
  /\ Stand(turn)
  /\ pc' = "summary"
  /\ UNCHANGED <<joined, toFlush, wallet, summary, playerTimer, roundTimer>>

\* Mutant: the reset does not go through update_summary.
RoundDelayOverUnlisted ==
  /\ pc = "select"
  /\ roundTimer
  /\ roundTimer' = FALSE
  /\ NewRound
  /\ UNCHANGED <<pc, joined, toFlush, wallet, summary, playerTimer>>

\* The OpenBetting fired after the reset finds WaitingForBets and does nothing.
RoundDelayOver ==
  /\ pc = "select"
  /\ roundTimer
  /\ roundTimer' = FALSE
  /\ NewRound
  /\ pc' = "summary"
  /\ UNCHANGED <<joined, toFlush, wallet, summary, playerTimer>>

-----------------------------------------------------------------------------
(***************************************************************************)
(* The rest of an arm.                                                      *)
(***************************************************************************)

LoadBalance ==
  /\ pc = "load"
  /\ player' = [player EXCEPT ![joined].balance = wallet[joined]]
  /\ joined' = Nobody
  /\ pc' = "summary"
  /\ UNCHANGED <<phase, turn, players, waiting, observers, dealer, dealt>>
  /\ UNCHANGED <<toFlush, wallet, summary, playerTimer, roundTimer>>

\* Mutant: the wallets are written when the dealer is done, before the payouts.
UpdateSummaryFlushingEarly ==
  /\ pc = "summary"
  /\ summary' = SummaryOf(players, phase)
  /\ toFlush' = IF phase = "Payouts" THEN players ELSE <<>>
  /\ pc' = "flush"
  /\ UNCHANGED vars
  /\ UNCHANGED <<joined, wallet, playerTimer, roundTimer>>

UpdateSummary ==
  /\ pc = "summary"
  /\ summary' = SummaryOf(players, phase)
  /\ toFlush' = IF phase = "Finished" THEN players ELSE <<>>
  /\ pc' = "flush"
  /\ UNCHANGED vars
  /\ UNCHANGED <<joined, wallet, playerTimer, roundTimer>>

\* One set_balance of handle_game_finished.
FlushBalance ==
  /\ pc = "flush"
  /\ toFlush # <<>>
  /\ wallet' = [wallet EXCEPT ![Head(toFlush)] = player[Head(toFlush)].balance]
  /\ toFlush' = Tail(toFlush)
  /\ UNCHANGED vars
  /\ UNCHANGED <<pc, joined, summary, playerTimer, roundTimer>>

\* Mutant: the player's deadline is armed and never taken back.
SetTimersOnly ==
  /\ pc = "flush"
  /\ toFlush = <<>>
  /\ roundTimer' = (roundTimer \/ phase = "Finished")
  /\ playerTimer' = (playerTimer \/ phase = "PlayerTurn")
  /\ pc' = IF phase \in {"DealerTurn", "Payouts"} THEN "advance" ELSE "select"
  /\ UNCHANGED vars
  /\ UNCHANGED <<joined, toFlush, wallet, summary>>

\* Mutant: the dealer moves on at the first deadline, not at once.
SetTimersAndWait ==
  /\ pc = "flush"
  /\ toFlush = <<>>
  /\ roundTimer' = (roundTimer \/ phase = "Finished")
  /\ playerTimer' = (phase = "PlayerTurn")
  /\ pc' = "select"
  /\ UNCHANGED vars
  /\ UNCHANGED <<joined, toFlush, wallet, summary>>

\* Timers are armed afresh after every accepted command; then the dealer moves on
\* if it is the dealer's turn.
SetTimers ==
  /\ pc = "flush"
  /\ toFlush = <<>>
  /\ roundTimer' = (roundTimer \/ phase = "Finished")
  /\ playerTimer' = (phase = "PlayerTurn")
  /\ pc' = IF phase \in {"DealerTurn", "Payouts"} THEN "advance" ELSE "select"
  /\ UNCHANGED vars
  /\ UNCHANGED <<joined, toFlush, wallet, summary>>

\* maybe_advance_dealer: PlayHand, then SettleRound, each fired like a command.
AdvanceDealer ==
  /\ pc = "advance"
  /\ PlayHand \/ SettleRound
  /\ pc' = "summary"
  /\ UNCHANGED <<joined, toFlush, wallet, summary, playerTimer, roundTimer>>

ActorStep ==
  LoadBalance \/ UpdateSummary \/ FlushBalance \/ SetTimers \/ AdvanceDealer

-----------------------------------------------------------------------------

ActorInit ==
  /\ Init
  /\ pc = "select"
  /\ joined = Nobody
  /\ toFlush = <<>>
  /\ wallet = [p \in Player |-> StartChips]
  /\ summary = SummaryOf(<<>>, "WaitingForBets")
  /\ playerTimer = FALSE
  /\ roundTimer = FALSE

ActorNext ==
  \/ \E p \in Player : Execute(p)
  \/ BettingTimeout \/ PlayerTimeout \/ RoundDelayOver
  \/ ActorStep

ActorSpec == ActorInit /\ [][ActorNext]_allVars

\* The task is polled as long as it can go on, and a deadline that has passed with
\* no command in between fires.  Nothing obliges anybody to send a command.
Fairness ==
  /\ WF_allVars(ActorStep)
  /\ WF_allVars(BettingTimeout)
  /\ WF_allVars(PlayerTimeout)
  /\ WF_allVars(RoundDelayOver)

FairActorSpec == ActorSpec /\ Fairness

-----------------------------------------------------------------------------

ActorTypeOK ==
  /\ TypeOK
  /\ pc \in Location
  /\ joined \in Player \cup {Nobody}
  /\ toFlush \in Seq(Player)
  /\ wallet \in [Player -> Nat]
  /\ summary \in [player_count : Nat, phase : Phase, is_joinable : BOOLEAN]
  /\ playerTimer \in BOOLEAN
  /\ roundTimer \in BOOLEAN

\* Whenever the actor waits, something will wake the table up again: it is not the
\* dealer's move, a turn has its timer and a finished round has its timer, and a
\* timer never runs for a round it was not armed for.
NeverStuck ==
  pc = "select" =>
    /\ phase \notin {"DealerTurn", "Payouts"}
    /\ playerTimer <=> phase = "PlayerTurn"
    /\ roundTimer <=> phase = "Finished"

\* What the lobby lists is what the table was when the actor last went to wait.
SummaryCurrent == pc = "select" => summary = SummaryOf(players, phase)

\* ADR-0004 rules 2 and 3: the copy of the balance that the game plays with and the
\* wallet agree whenever the actor waits.  A stake is still in the wallet until the
\* round is settled, so leaving the table at any moment loses track of no chip.
CopyMatchesWallet ==
  pc = "select" => \A p \in Seated : Chips(p) = wallet[p]

\* The account of a player is the wallet, except from the settlement to the flush,
\* when the table already knows better.
Account == [p \in Player |->
  IF p \in Seated /\ p # joined THEN Chips(p) ELSE wallet[p]]

InRound == IF phase \in {"PlayerTurn", "DealerTurn", "Payouts"} THEN Bettors ELSE {}

Ledger == INSTANCE ChipLedger WITH account <- Account, inRound <- InRound

\* Table and wallet together keep the books of ChipLedger: every stake is settled
\* once and by one step, and nobody's chips change by anything else.
KeepsTheBooks == Ledger!Spec

\* From some moment on nobody sends a command any more.
QuietFromNowOn == <>[][~\E p \in Player : Execute(p)]_allVars

\* Nobody has to be there for a round to be finished: once no more commands come
\* in, bets that were placed are dealt, turns run out one after the other, the
\* dealer plays and settles, and the table comes to rest with open bets and none
\* placed.
TableComesToRest ==
  QuietFromNowOn => <>[](phase = "WaitingForBets" /\ Bettors = {} /\ pc = "select")

\* A turn comes to an end, whatever the others at the table do in the meantime.
TurnsEnd == \A p \in Player : turn = p ~> turn # p

==============================================================================
