------------------------------ MODULE ClientView ------------------------------
(***************************************************************************)
(* The table screen of the CLI: what handle_ws_message and                  *)
(* apply_event_payload of cli/src/app/mod.rs make of a snapshot and the     *)
(* events that follow it, next to the GameEngine that emits them.           *)
(*                                                                         *)
(* Every command of GameEngine is paired with the events its handler        *)
(* returns, in their order.  One client, of the player Me, follows the      *)
(* table; its events wait in `queue' (channels, socket and App::event_queue *)
(* together) and are applied one by one, so the screen is always late.      *)
(* What the client asks of the server is on its way as well (`sent'), and   *)
(* Enter may ask for a table that is already about to be shown.             *)
(* Balances and status texts of the rows, which no widget shows, the log,   *)
(* the seq of an event and the hints of the footer are left out; which      *)
(* events a forwarder drops or keeps is TableFeed.                          *)
(***************************************************************************)
EXTENDS GameEngine

CONSTANTS Me,          \* App::player_id
          MaxBacklog,  \* bound: the table waits while the screen is later than that
          MaxSent      \* bound: how many JoinTables and LeaveTables are under way

ASSUME ClientAssumption == Me \in Player /\ MaxBacklog \in Nat /\ MaxSent \in Nat

VARIABLES dealerCards,  \* the dealer's cards one by one; `dealer' is their total
          sent,         \* the JoinTables and LeaveTables on their way to the server
          feed,         \* how far the server is with the one it has taken up
          held,         \* the events broadcast between subscribe and snapshot
          queue,        \* the events on their way to the screen
          ui,           \* App::ui
          mixed,        \* history: which events the screen gets twice or out of order
          forgotten     \* history: whom round resets dropped since Subscribe

feedVars == <<sent, feed, held, queue>>
viewVars == <<dealerCards, feedVars, ui, mixed, forgotten>>
allVars == <<vars, viewVars>>

-----------------------------------------------------------------------------
(***************************************************************************)
(* The events.  PlayerDecisionTaken and DealerBust change texts only.        *)
(***************************************************************************)

\* Of EventPayload what the screen reads: whose it is, and a card or an amount.
Event(kind, who, n) == [kind |-> kind, who |-> who, n |-> n, to |-> phase]

Of(kind, p) == Event(kind, {p}, 0)

Dealers(kind, n) == Event(kind, {}, n)

\* Nothing else carries a phase; `who' has the player of PlayerTurn.
PhaseChanged == [kind |-> "PhaseChanged", who |-> {turn'} \ {Nobody}, n |-> 0, to |-> phase']

\* Until it is aborted, a forwarder sends the events of the table on.
Forwarding == feed \in {"on", "leaving"}

\* A receiver without a forwarder keeps them.
Emit(es) ==
  /\ queue' = IF Forwarding THEN queue \o es ELSE queue
  /\ held' = IF feed \in {"subscribed", "joined"} THEN held \o es ELSE held

\* PhaseChanged is the last event of a command that takes the turn from p.
HandedOn(p) == IF turn' = p THEN <<>> ELSE <<PhaseChanged>>

\* Mutant: whoever leaves on turn leaves without handing it on.
LeftOnTurn(p) ==
  CASE p \in Seated    -> <<Of("PlayerLeft", p)>>
    [] p \in observers -> <<Of("ObserverLeft", p)>>
    [] p \in Waiting   -> <<Of("PlayerRemovedFromWaitingList", p)>>

Left(p) ==
  CASE p \in Seated    -> <<Of("PlayerLeft", p)>>
                            \o (IF turn = p THEN <<PhaseChanged>> ELSE <<>>)
    [] p \in observers -> <<Of("ObserverLeft", p)>>
    [] p \in Waiting   -> <<Of("PlayerRemovedFromWaitingList", p)>>

\* The CLI leaves the seat to the table.
Seating(p) ==
  /\ \E chips \in Balances : TakeSeat(p, "any", chips)
  /\ Emit(<<Of(IF p \in Seated' THEN "PlayerJoined" ELSE "PlayerAddedToWaitingList", p)>>)

Unseating(p) ==
  /\ LeaveSeat(p)
  /\ Emit(Left(p) \o <<Of("ObserverJoined", p)>>)

Betting(p) ==
  \E amount \in MinBet..MaxBet :
    /\ PlaceBet(p, amount)
    /\ Emit(<<Event("PlayerPlacedBet", {p}, amount)>>)

Hitting(p) ==
  \E c \in Cards :
    /\ Hit(p, c)
    /\ Emit(<<Event("PlayerCardDealt", {p}, c)>>
              \o (IF IsBust(player'[p].hand) THEN <<Of("PlayerBust", p)>> ELSE <<>>)
              \o HandedOn(p))

Standing(p) ==
  /\ Stand(p)
  /\ Emit(HandedOn(p))

\* Mutant: the event has the doubled stake, not what was added to it.
DoublingTheSum(p) ==
  \E c \in Cards :
    /\ DoubleDown(p, c)
    /\ Emit(<<Event("PlayerDoubledDown", {p}, player'[p].bet), Event("PlayerCardDealt", {p}, c)>>
              \o (IF IsBust(player'[p].hand) THEN <<Of("PlayerBust", p)>> ELSE <<>>)
              \o HandedOn(p))

Doubling(p) ==
  \E c \in Cards :
    /\ DoubleDown(p, c)
    /\ Emit(<<Event("PlayerDoubledDown", {p}, player[p].bet), Event("PlayerCardDealt", {p}, c)>>
              \o (IF IsBust(player'[p].hand) THEN <<Of("PlayerBust", p)>> ELSE <<>>)
              \o HandedOn(p))

\* The bettors in seat order, the one way there is.
BySeat ==
  {b \in [1..Cardinality(Bettors) -> Bettors] :
     /\ Range(b) = Bettors
     /\ \A j \in DOMAIN b : \A i \in 1..(j - 1) : player[b[i]].seat < player[b[j]].seat}

\* Round i of the deal, a card for everyone in b.
Round(b, deal, i) ==
  [k \in DOMAIN b |-> Event("PlayerCardDealt", {b[k]}, deal[b[k]][i])]

\* Two rounds of cards to the bettors and to the dealer, whose second card is
\* announced only.
Dealing ==
  \E b \in BySeat, deal \in [Bettors -> Cards \X Cards], up, hole \in Cards :
    /\ DealInitialCards(deal, up, hole)
    /\ dealerCards' = <<up, hole>>
    /\ Emit(<<Dealers("GameStarted", 0)>>
              \o Round(b, deal, 1) \o <<Dealers("DealerCardDealt", up)>>
              \o Round(b, deal, 2) \o <<Dealers("DealerHoleCardDealt", 0)>>
              \o <<PhaseChanged>>)

\* The cards one by one that take the dealer's hand to dealer'.
Draws ==
  {drawn \in [1..(dealer'.cards - dealer.cards) -> Cards] :
     /\ FoldLeft(AddCard, dealer, drawn) = dealer'
     /\ \A k \in 0..(Len(drawn) - 1) :
          ~DealerStays(FoldLeft(AddCard, dealer, SubSeq(drawn, 1, k)))}

DealerPlaying ==
  /\ PlayHand
  /\ \E drawn \in Draws :
       /\ dealerCards' = dealerCards \o drawn
       /\ Emit(<<Dealers("DealerHoleCardRevealed", dealerCards[2])>>
                 \o [k \in DOMAIN drawn |-> Dealers("DealerCardDealt", drawn[k])]
                 \o <<PhaseChanged>>)

\* GameFinished names everybody with a stake.
Settling ==
  /\ SettleRound
  /\ Emit(<<Event("GameFinished", Bettors, 0), PhaseChanged>>)

\* The one event of a round reset.
StartingOver ==
  /\ StartOver
  /\ dealerCards' = <<>>
  /\ forgotten' = forgotten \cup Waiting \cup observers
  /\ Emit(<<PhaseChanged>>)

-----------------------------------------------------------------------------
(***************************************************************************)
(* The screen.                                                              *)
(***************************************************************************)

GamePhase == {"Betting", "Dealing", "PlayerTurn", "DealerTurn", "Resolving", "Finished"}

\* server_phase_to_game_phase
GamePhaseOf(ph) ==
  CASE ph = "WaitingForBets" -> "Betting"
    [] ph = "Payouts"        -> "Resolving"
    [] OTHER                 -> ph

\* PlayerUiState: the row of a player.
Row == [bet : Nat, hand : Hand, bust : BOOLEAN]

EmptyRow == [bet |-> 0, hand |-> EmptyHand, bust |-> FALSE]

Hidden == 0

\* Screen::Table, or any other screen when it is not `shown'.
TableState ==
  [shown : BOOLEAN, phase : GamePhase, players : Seq(Player), row : [Player -> Row],
   observers : SUBSET Player, waiting : SUBSET Player, dealer : Seq(Pip \cup {Hidden}),
   active : SUBSET Player, myTurn : BOOLEAN, isObserver : BOOLEAN, result : BOOLEAN]

NoTable ==
  [shown |-> FALSE, phase |-> "Betting", players |-> <<>>,
   row |-> [p \in Player |-> EmptyRow],
   observers |-> {}, waiting |-> {}, dealer |-> <<>>,
   active |-> {}, myTurn |-> FALSE, isObserver |-> FALSE, result |-> FALSE]

\* `betting' is whether there is a widget to bet with.
UiState == [screen : TableState, betting : BOOLEAN]

LobbyUi == [screen |-> NoTable, betting |-> FALSE]

\* The rows of some players, as far as they are shown, become those of `row'.
RowsOf(s, who, row) ==
  [s EXCEPT !.row = [p \in Player |->
    IF p \in who \cap Range(s.players) THEN row[p] ELSE @[p]]]

\* The one player who comes or goes.
Subject(e) == CHOOSE p \in e.who : TRUE

\* People come, go and change places.
ApplyMove(s, e) ==
  CASE e.kind = "ObserverJoined" ->
         [s EXCEPT !.observers = @ \cup e.who,
                   !.isObserver = @ \/ Me \in e.who \ s.observers]
    [] e.kind = "ObserverLeft" ->
         [s EXCEPT !.observers = @ \ e.who, !.isObserver = @ /\ Me \notin e.who]
    [] e.kind = "PlayerAddedToWaitingList" ->
         [s EXCEPT !.observers = @ \ e.who,
                   !.waiting = @ \cup e.who,
                   !.isObserver = @ /\ Me \notin e.who]
    [] e.kind = "PlayerRemovedFromWaitingList" ->
         [s EXCEPT !.waiting = @ \ e.who]
    [] e.kind = "PlayerJoined" ->
         [s EXCEPT !.observers = @ \ e.who,
                   !.waiting = @ \ e.who,
                   !.isObserver = @ /\ Me \notin e.who,
                   !.players =
                     IF Subject(e) \in Range(@) THEN @ ELSE Append(@, Subject(e))]
    [] e.kind = "PlayerLeft" ->
         [s EXCEPT !.players = RemoveFirst(@, Subject(e)),
                   !.active = @ \ e.who,
                   !.row = [p \in Player |-> IF p \in e.who THEN EmptyRow ELSE @[p]]]

\* Stakes and cards; what is done to a row that is not there is lost.
ApplyCard(s, e) ==
  CASE e.kind = "PlayerPlacedBet" ->
         RowsOf(s, e.who, [p \in Player |-> [s.row[p] EXCEPT !.bet = e.n]])
    [] e.kind = "PlayerDoubledDown" ->
         RowsOf(s, e.who, [p \in Player |-> [s.row[p] EXCEPT !.bet = @ + e.n]])
    [] e.kind = "PlayerCardDealt" ->
         RowsOf(s, e.who, [p \in Player |-> [s.row[p] EXCEPT !.hand = AddCard(@, e.n)]])
    [] e.kind = "PlayerBust" ->
         RowsOf(s, e.who, [p \in Player |-> [s.row[p] EXCEPT !.bust = TRUE]])
    [] e.kind = "DealerCardDealt" ->
         [s EXCEPT !.dealer = Append(@, e.n)]
    [] e.kind = "DealerHoleCardDealt" ->
         [s EXCEPT !.dealer = Append(@, Hidden)]
    [] e.kind = "DealerHoleCardRevealed" ->
         [s EXCEPT !.dealer = [i \in DOMAIN @ |-> IF i = 2 THEN e.n ELSE @[i]]]

\* A round begins and ends.
ApplyRound(s, e) ==
  CASE e.kind = "GameStarted" ->
         [RowsOf(s, Player, [p \in Player |-> [EmptyRow EXCEPT !.bet = s.row[p].bet]])
            EXCEPT !.dealer = <<>>, !.phase = "Dealing"]
    [] e.kind = "GameFinished" ->
         [RowsOf(s, e.who, [p \in Player |-> [s.row[p] EXCEPT !.bet = 0]])
            EXCEPT !.phase = "Finished", !.result = @ \/ Me \in e.who]
    [] e.kind = "PhaseChanged" /\ e.to # "WaitingForBets" ->
         [s EXCEPT !.phase = GamePhaseOf(e.to),
                   !.myTurn = Me \in e.who,
                   !.active = e.who \cap Range(s.players)]
    [] e.kind = "PhaseChanged" /\ e.to = "WaitingForBets" ->
         [s EXCEPT !.phase = "Betting",
                   !.myTurn = FALSE,
                   !.active = {},
                   !.row = [p \in Player |-> EmptyRow],
                   !.dealer = <<>>]

\* The arms of apply_event_payload.
Apply(s, e) ==
  CASE e.kind \in {"ObserverJoined", "ObserverLeft", "PlayerAddedToWaitingList",
                   "PlayerRemovedFromWaitingList", "PlayerJoined", "PlayerLeft"} ->
         ApplyMove(s, e)
    [] e.kind \in {"GameStarted", "GameFinished", "PhaseChanged"} -> ApplyRound(s, e)
    [] OTHER -> ApplyCard(s, e)

\* sync_ui_chrome, which runs whatever the screen is.
SyncChrome(u, e) ==
  IF e.kind = "PhaseChanged"
  THEN [u EXCEPT !.betting = ~u.screen.isObserver /\ e.to = "WaitingForBets"]
  ELSE u

\* apply_event_payload
ApplyEvent(u, e) ==
  SyncChrome(IF u.screen.shown THEN [u EXCEPT !.screen = Apply(@, e)] ELSE u, e)

\* Mutant: a snapshot has all the cards.
DealerSnapshotOpen == dealerCards

\* GameStateSnapshot::from_state: the hole card is withheld while players play.
DealerSnapshot ==
  [i \in DOMAIN dealerCards |->
     IF i = 2 /\ phase = "PlayerTurn" THEN Hidden ELSE dealerCards[i]]

\* Mutant: no widget for somebody who only watches.
SnapshotUiForObserver ==
  [screen |->
     [shown |-> TRUE, phase |-> GamePhaseOf(phase), players |-> players,
      row |-> [p \in Player |->
        [bet |-> player[p].bet, hand |-> player[p].hand, bust |-> IsBust(player[p].hand)]],
      observers |-> observers, waiting |-> Waiting, dealer |-> DealerSnapshot,
      active |-> {turn} \ {Nobody}, myTurn |-> turn = Me,
      isObserver |-> Me \in observers, result |-> FALSE],
   betting |-> phase = "WaitingForBets" /\ Me \notin observers]

\* table_state_from_snapshot and UiState::from_table_state, which gives somebody who
\* only watches a widget to bet with, too.
SnapshotUi ==
  [screen |->
     [shown |-> TRUE, phase |-> GamePhaseOf(phase), players |-> players,
      row |-> [p \in Player |->
        [bet |-> player[p].bet, hand |-> player[p].hand, bust |-> IsBust(player[p].hand)]],
      observers |-> observers, waiting |-> Waiting, dealer |-> DealerSnapshot,
      active |-> {turn} \ {Nobody}, myTurn |-> turn = Me,
      isObserver |-> Me \in observers, result |-> FALSE],
   betting |-> phase = "WaitingForBets"]

-----------------------------------------------------------------------------
(***************************************************************************)
(* The connection and the keys.                                             *)
(***************************************************************************)

\* Enter in the lobby, which the client leaves with the first snapshot only: until
\* then the key may be pressed again, for this table or for another.
Enter ==
  /\ ~ui.screen.shown
  /\ Len(sent) < MaxSent
  /\ sent' = Append(sent, "join")
  /\ UNCHANGED <<vars, dealerCards, feed, held, queue, ui, mixed, forgotten>>

\* The server takes one message at a time, and first what was sent first.
Arrives(message) ==
  /\ feed \in {"off", "on"}
  /\ sent # <<>> /\ Head(sent) = message
  /\ sent' = Tail(sent)

\* An aborted forwarder has sent on the first of its events and loses the others.
Abort(es) == \E k \in 0..Len(queue \o es) : queue' = SubSeq(queue \o es, 1, k)

\* Mutant: the forwarder of the old visit is aborted, but the visit goes on.
JoinArrivesOnly ==
  /\ Arrives("join")
  /\ feed' = "left"
  /\ IF feed = "on" THEN Abort(<<>>) ELSE UNCHANGED queue
  /\ UNCHANGED <<vars, dealerCards, held, ui, mixed, forgotten>>

\* The old visit, whose screen the client may be looking at, ends first: its
\* forwarder is aborted and the player leaves, unless a round reset was faster.
JoinArrives ==
  /\ Arrives("join")
  /\ feed' = "left"
  /\ \/ feed = "on" /\ LeaveTable(Me) /\ Abort(Left(Me))
     \/ feed = "on" /\ Me \notin Present /\ Abort(<<>>) /\ UNCHANGED vars
     \/ feed = "off" /\ UNCHANGED <<vars, queue>>
  /\ UNCHANGED <<dealerCards, held, ui, mixed, forgotten>>

Subscribe ==
  /\ feed = "left"
  /\ feed' = "subscribed"
  /\ held' = <<>>
  /\ forgotten' = {}
  /\ UNCHANGED <<vars, dealerCards, sent, queue, ui, mixed>>

\* The JoinTable was for another table, which refuses it or whose screen comes to be
\* shown instead.  (What its events do to a later screen of this table is TableFeed.)
JoinElsewhere ==
  /\ feed = "left"
  /\ feed' = "off"
  /\ ui' \in {ui, LobbyUi}
  /\ UNCHANGED <<vars, dealerCards, sent, held, queue, mixed, forgotten>>

JoinMe ==
  /\ feed = "subscribed"
  /\ JoinTable(Me)
  /\ feed' = "joined"
  /\ Emit(<<Of("ObserverJoined", Me)>>)
  /\ UNCHANGED <<dealerCards, sent, ui, mixed, forgotten>>

\* As many observers as the table allows: the receiver is dropped, and a screen of the
\* visit before stays as it is.
JoinRefused ==
  /\ feed = "subscribed"
  /\ Cardinality(observers) >= MaxObservers
  /\ feed' = "off"
  /\ held' = <<>>
  /\ UNCHANGED <<vars, dealerCards, sent, queue, ui, mixed, forgotten>>

\* What the client has queued is discarded, the events from before that are still
\* in the channel to the socket follow the snapshot, and then those held back.
TakeSnapshot ==
  /\ feed = "joined"
  /\ feed' = "on"
  /\ ui' = SnapshotUi
  /\ \E k \in 0..Len(queue) :
       LET old == SubSeq(queue, k + 1, Len(queue)) IN
       /\ queue' = old \o held
       /\ mixed' = IF old # <<>> THEN "stale"
                   ELSE IF held = <<Of("ObserverJoined", Me)>> THEN "clean" ELSE "repeated"
  /\ held' = <<>>
  /\ UNCHANGED <<vars, dealerCards, sent, forgotten>>

\* `l' of somebody who watches; the queued events stay.
BackToLobby ==
  /\ ui.screen.shown /\ ui.screen.isObserver /\ ~ui.screen.result
  /\ Len(sent) < MaxSent
  /\ sent' = Append(sent, "leave")
  /\ ui' = LobbyUi
  /\ UNCHANGED <<vars, dealerCards, feed, held, queue, mixed, forgotten>>

\* A refused LeaveTable leaves the forwarder running.
LeaveArrives ==
  /\ Arrives("leave")
  /\ \/ LeaveTable(Me) /\ feed' = "leaving" /\ Emit(Left(Me))
     \/ Me \notin Present /\ UNCHANGED <<vars, feed, held, queue>>
  /\ UNCHANGED <<dealerCards, ui, mixed, forgotten>>

\* An accepted one ends it, once the table has answered.
StopForwarder ==
  /\ feed = "leaving"
  /\ feed' = "off"
  /\ Abort(<<>>)
  /\ UNCHANGED <<vars, dealerCards, sent, held, ui, mixed, forgotten>>

\* Any key, while the result of the round is shown.
DismissResult ==
  /\ ui.screen.result
  /\ ui' = [ui EXCEPT !.screen.result = FALSE]
  /\ UNCHANGED <<vars, dealerCards, feedVars, mixed, forgotten>>

\* Every third tick.
Tick ==
  /\ queue # <<>>
  /\ ui' = ApplyEvent(ui, Head(queue))
  /\ queue' = Tail(queue)
  /\ UNCHANGED <<vars, dealerCards, sent, feed, held, mixed, forgotten>>

\* The client's requests and what the server makes of them.
Requests ==
  \/ Enter \/ JoinArrives \/ Subscribe \/ JoinElsewhere \/ JoinMe \/ JoinRefused
  \/ TakeSnapshot \/ BackToLobby \/ LeaveArrives \/ StopForwarder

Connection == Requests \/ DismissResult \/ Tick

-----------------------------------------------------------------------------

Playing(p) == Betting(p) \/ Hitting(p) \/ Standing(p) \/ Doubling(p)

\* A key may be pressed for what the late screen shows, so Me's command may be any.  It
\* comes in its turn: after the JoinTables, and before the LeaveTable of the same visit.
MyCommand ==
  /\ feed \in {"off", "on"}
  /\ IF sent = <<>> THEN ui.screen.shown ELSE Head(sent) = "leave"
  /\ Seating(Me) \/ Unseating(Me) \/ Playing(Me)

OthersCommand(p) ==
  \/ JoinTable(p) /\ Emit(<<Of("ObserverJoined", p)>>)
  \/ Seating(p) \/ Unseating(p) \/ Playing(p)
  \/ LeaveTable(p) /\ Emit(Left(p))

\* The deadline of a turn, which does not need the client.
MyTimeout == Standing(Me)

TableStep ==
  /\ Len(queue \o held) <= MaxBacklog
  /\ \/ /\ MyCommand \/ MyTimeout \/ \E p \in Player \ {Me} : OthersCommand(p)
        /\ UNCHANGED <<dealerCards, forgotten>>
     \/ (Dealing \/ DealerPlaying) /\ UNCHANGED forgotten
     \/ Settling /\ UNCHANGED <<dealerCards, forgotten>>
     \/ StartingOver
  /\ UNCHANGED <<sent, feed, ui, mixed>>

ViewInit ==
  /\ Init
  /\ dealerCards = <<>>
  /\ sent = <<>>
  /\ feed = "off"
  /\ held = <<>>
  /\ queue = <<>>
  /\ ui = LobbyUi
  /\ mixed = "clean"
  /\ forgotten = {}

ViewNext == Connection \/ TableStep

ViewSpec == ViewInit /\ [][ViewNext]_allVars

-----------------------------------------------------------------------------

ViewTypeOK ==
  /\ TypeOK
  /\ dealerCards \in Seq(Cards)
  /\ sent \in Seq({"join", "leave"})
  /\ feed \in {"off", "left", "subscribed", "joined", "on", "leaving"}
  /\ ui \in UiState
  /\ mixed \in {"clean", "repeated", "stale"}
  /\ forgotten \in SUBSET Player

\* What the screen will show when everything on its way has been applied.
Settled == FoldLeft(ApplyEvent, ui, queue)

\* The same people in `shown' and `real', but for those a round reset has dropped.
SamePeople(shown, real) == real \subseteq shown /\ shown \subseteq real \cup forgotten

\* Whoever the table knows has its events sent on, or is about to: while a second
\* JoinTable ends the first visit and may be refused, no moment leaves the player at a
\* table whose screen has stopped.
PlayersAreFed == Me \in Present => feed \in {"joined", "on"}

\* While events are sent on, however commands, ticks, Enter and `l' interleave with
\* what the server makes of them, the events take the screen to where the table is:
\* the phase, whose turn it is, who sits, who waits and who watches; the round reset,
\* which drops people without an event, is the only thing the screen does not hear of.
\* Events that repeat what the snapshot has harm nothing but the order of the rows,
\* events of an earlier visit may.  (Without a forwarder a screen of this table may
\* still be shown, if a second JoinTable was refused or `l' came between two
\* snapshots: it is of a table the client is not at, and follows it no longer.)
TableShown ==
  LET s == Settled.screen IN
  feed = "on" /\ ui.screen.shown /\ mixed # "stale" =>
    /\ s.phase = GamePhaseOf(phase)
    /\ s.active = {turn} \ {Nobody}
    /\ s.myTurn <=> turn = Me
    /\ Range(s.players) = Seated
    /\ mixed = "clean" => s.players = players
    /\ SamePeople(s.observers, observers)
    /\ SamePeople(s.waiting, Waiting)
    /\ SamePeople({p \in {Me} : s.isObserver}, observers \cap {Me})

\* Cards, stakes and busts, too, while events are sent on and if the snapshot had
\* nothing that was then sent again: every hand is the one the engine decides with, and
\* the dealer's cards are all there, face up once the dealer has played.
CardsShown ==
  LET s == Settled.screen IN
  feed = "on" /\ ui.screen.shown /\ mixed = "clean" =>
    /\ Len(s.dealer) = Len(dealerCards)
    /\ \A i \in DOMAIN dealerCards :
         \/ s.dealer[i] = dealerCards[i]
         \/ s.dealer[i] = Hidden /\ i = 2 /\ phase \in {"PlayerTurn", "DealerTurn"}
    /\ \A p \in Seated :
         /\ s.row[p].hand = player[p].hand
         /\ s.row[p].bust <=> IsBust(player[p].hand)
         /\ phase # "Finished" => s.row[p].bet = player[p].bet

\* No screen, one that has stopped included, shows the hole card while, as far as it
\* knows, somebody has still to play.
HoleCardHidden ==
  ui.screen.shown /\ mixed = "clean" /\ ui.screen.phase \in {"Dealing", "PlayerTurn"} =>
    \A i \in DOMAIN ui.screen.dealer : ui.screen.dealer[i] # Hidden => i = 1

\* Whoever has a seat and no bet while bets are open will get a widget to bet with,
\* although a change of phase takes it from those who watch and sitting down does
\* not give it back (so a round reset that comes twice does harm: hence "clean").
SeatedCanBet ==
  ui.screen.shown /\ mixed = "clean" /\ phase = "WaitingForBets" /\ Me \in Seated =>
    Settled.betting

==============================================================================
