# Verification of blackjack-defi

TLA+ models of the blackjack server and its terminal client, TLC runs on small
instances of them, and TLAPS proofs for every instance.  Paths are relative to
`src/`.

## The system

| Component | State | Operations | Interacts with |
|---|---|---|---|
| Hand arithmetic (`core/src/domain/hand`, `dealer/settle_round.rs`, `event/outcome.rs`) | none | value of a hand, outcome, payout | engine; the CLI has an algorithm of its own (`cli/src/state/cards.rs`) |
| Game engine (`core/src/domain/engine`) | `GameState`: phase, players, waiting, observers, dealer, shoe | eight player commands, four dealer commands, `PlayerTimeout`; each returns events, `apply_event` changes the state | called by the actor only |
| Table actor (`server/src/session/table_actor.rs`) | the `GameState` of one table, three deadlines, event counter | `select!` over commands, betting deadline, turn deadline, round delay | engine (call), wallet (await), summary (lock), broadcast channel |
| Wallet (`server/src/wallet`) | balance of every account | `balance`, `credit`, `debit`, `set_balance` | actor, connection, forwarder |
| Session registry (`server/src/session/in_memory.rs`) | handles of the tables | `send_command`, `snapshot`, `subscribe`, `list_tables` | actor (mpsc, oneshot, broadcast) |
| Connection (`server/src/routes/ws.rs`) | `current_table`, the forwarder task | login, `JoinTable`, `LeaveTable`, game commands, cleanup | registry, wallet, authenticator, socket |
| Authenticator (`server/src/auth`) | users | login with automatic registration | connection |
| CLI application (`cli/src/app`) | screen, generation, `event_queue`, `ws_tx`, poll flag | keys, tick, lobby polls, messages, login and its end | its own tasks (one channel), socket |
| CLI screens (`cli/src/state`, `cli/src/ui`) | `TableState`, the betting widget, header | made by snapshots, changed by events | application |

What is hard about it: a command handler is a pure function and well tested, but sequences of
commands by several players are not; the actor interleaves commands with three deadlines, and
other tasks see its wallet and its summary between two awaits; a client is fed through two
bounded channels by a task that is started and aborted while the table plays on; a user may
connect several times, and a dead connection may be cleaned up late; the client gives up logins
whose tasks go on for a while.  The hazards are listed with their lines in `PROJECT.json`.

What makes the components correct, in short:

* *hands*: totals, settlement and payout follow the rules; the dealer's loop ends on 17
  or more; client and engine show the same total.
* *engine*: everybody is in one of three states, no seat is promised twice, the turn is
  with somebody who can use it and ends once, every bettor gets one, a round starts from
  nothing, chips change hands at settlement only.
* *actor*: it never waits without something that will wake the table up; lobby, wallet
  and table agree whenever it waits; a round is finished even if everybody has left.
* *connection*: nothing is lost between snapshot and feed, one forwarder per connection,
  no task waits for itself; nobody is at a table whom no connection will take away; no
  table writes an old balance back; the opening chips are given once.
* *client*: the screen ends up where the table is, hides the hole card as long as it is
  hidden, and lets whoever sits bet; what is on the screen belongs to the login last
  asked for; a login ends, a poll in flight has one answer.

## The modules

* `Hands` is the arithmetic.  A card is its pip value; a hand is what `Hand::value`
  reads off its cards.  The dealer's loop is twelve turns of `DrawOnce` on sets of
  hands.
* `HandReference` deals two hands card by card and compares `Hands`, and the total of
  the CLI, with a definition that follows the rules of the game.
* `GameEngine` is `GameState` with one action per accepted command, each the handler
  together with `apply_event` of the events it returns.  A refused command changes
  nothing and is no action.  `GameState::waiting` keeps seats, so `player` holds the
  seat of somebody waiting, too; `decisions` is its last element; the shoe is its
  cursor, and the card under it any card.  A player who sits down gets some balance of
  `Balances`.  `NewRound` is the state the actor puts in place of a finished one.
  `Phase::InitialDealing` never shows outside one command and is left out.
* `TableActor` extends `GameEngine` with the loop of one table.  An arm of `select!` is
  one action up to its first await and one for each effect after it, in the order of
  the code: load the balance of a new player, update the summary, flush the wallets one
  after the other, arm the timers, let the dealer move.
* `ChipLedger` is the abstract specification of money: accounts, and who is in a round;
  `TableActor!Ledger` instantiates it with the refinement mapping `Account`, `InRound`.
* `TableFeed` follows one connection and its client.  A table is the number of events it
  has broadcast and a snapshot the number it was taken at, which is all that losing,
  repeating and reordering events is about.  The handler of `JoinTable` is one action
  per round trip.  A forwarder takes an event out of the broadcast, then waits for room
  in the queue; one that was aborted may go on until it next waits.
* `Connections` has users, their connections and the tables they share a wallet with:
  `handle_socket` from the first `Auth` to the cleanup, one action per await, the
  authenticator, `credit`, and tables reduced to who is present, the balances they play
  with and rounds of one step.  A command waits until the table's actor is through with
  the one before (`Idle`).  `overlapped` is a history variable: the users who have had two
  connections at a time, old ones that are still being cleaned up included.
* `BalancePush` extends it with the `Balance` messages and what the header of the client
  shows after them.
* `ClientView` extends `GameEngine` with the events of each command, in the order in which
  the handler returns them, with one client that joins, leaves, and applies them late,
  and with the state behind its table screen: `table_state_from_snapshot`,
  `apply_event_payload`, `sync_ui_chrome`.  `JoinTable`s and `LeaveTable`s wait in `sent`; since
  the lobby stays until the snapshot is there, `Enter` may send a second `JoinTable`, for this
  table or for another (`JoinElsewhere`), and the server takes it up when the first screen is
  shown: it aborts the forwarder, has the player leave, subscribes and joins again, or is
  refused.  `feed` is how far it is with that: no visit (`off`), the visit before ended
  (`left`), `subscribed`, `joined`, a forwarder that sends events on (`on`), or one about to be
  aborted after a `LeaveTable` (`leaving`).  To end a visit is one step (`JoinArrives`), that
  of the table that handles the `LeaveTable`; `Abort` lets the forwarder, aborted a moment
  before, have sent on as many of the last events as it may.  The events of the feed wait
  in `held` until the snapshot is taken and in `queue` until a tick applies them.  `mixed` and `forgotten` are
  history: whether the snapshot has what is then sent again or what is left over from an
  earlier visit, and whom round resets have dropped.  The events of another table, which
  may follow the snapshot of this one, are left to `TableFeed`; no property of `ClientView`
  is about such a screen.  The balances and status texts of the rows are shown by no widget and
  left out.
* `ClientSession` is one run of the CLI: the loop, the WebSocket tasks with their
  generations, the polls, and the keys that lead from screen to screen, meeting in one
  channel.  The keys and ticks that go through the same channel are actions of their
  own.  A connection that has `visited` a table may send events at any time from then on:
  some are still in its queue after a `LeaveTable`, and a refused one leaves the forwarder
  running.  `TableFeed` follows the messages of one connection, `ClientView` what they do to
  the screen, `ClientSession` which connection they are from.
* `MCGameEngine`, `MCTableActor`, `MCClientView` add symmetry and bounds for TLC.
* `OperatorLemmas` has the facts about operators that the proofs share: sequences, folds,
  sums and the hands.  `HandReferenceTheorems`, `GameEngineTheorems`, `TableActorTheorems`,
  `TableFeedTheorems`, `ConnectionsTheorems`, `ClientSessionTheorems` and
  `ClientViewTheorems` hold the proofs about the modules they are named for.

An operator whose comment begins with "Mutant:" is no part of a model.  It is the
definition that follows it with a plausible bug; `PROJECT.json` says which property
notices.

`TableActor` and `TableFeed` meet in the events: what the one calls a step of the
table, the other counts.  `TableActor` leaves out who is told of a step, `TableFeed` what
the step was.

## The runs

| Run | Question | Bounds |
|---|---|---|
| `hands` | do engine, CLI and rules agree on every pair of hands? | hands of up to four cards out of ace, 2, 6, 9, 10; bets 1 to 4 |
| `engine_seats` | do collections, seats, turns, chips and the dealer stay right whatever comes in? does the shoe last? | three people, two seats, two observers, ace and ten, one odd bet |
| `actor` | do wallet, summary, timers and table agree between the awaits? is the ledger implemented? does a table left alone come to rest? | two people, two seats, one observer place, 6 and 10 |
| `feed` | is anything lost, mixed up or stuck between table and screen? | two tables, broadcast of two, queue of one, one unread message, two events of others |
| `connections` | does a player without a connection leave the tables? do tables and login spoil the wallet? | one user, two connections, two tables, stakes of one chip |
| `client_view` | is whoever is at a table fed by it, a second `JoinTable` or a refused one notwithstanding? does a screen that is fed get to where the table is? | the client and somebody else, two seats, one observer place, 6 and 10, one event waiting when the table moves, two requests under way (`MaxSent`) |
| `client_session` | do abandoned logins, lost connections and polls disturb the session? do logins end? | two logins, three messages and two open joins each, a channel of three |

Three people on two seats are the least that has somebody in every collection and one
person more than seats; two bettors are the least that has a successor on turn.  Ace and
ten reach blackjack, 21, 12 and bust; 6 and 10 every outcome but the blackjack.  The shoe
has its 208 cards.  The balances of `engine_seats` and `client_view` are bounded by the
constraint `BalanceBound`: states in which somebody is richer are checked and not
continued, so a winner's later rounds are left out; what a round does with a large balance
differs from what it does with a small one only by `PlaceBet` and `DoubleDown` being
possible, and the balances chosen allow both and forbid both.  In `actor`, which checks
liveness, `BetBound` keeps the rich from betting instead: it takes away commands only,
which are under no fairness, so it cuts off no behaviour that the property needs.
`client_view` does not follow a client whose new snapshot is followed by events of an
earlier visit (`Followed`): no property claims anything of it, `event_repeated`
does.  Two requests under way are the least that has a second `JoinTable` handled while the
first screen is up, or an `l` between the two.  Its constraint `AskedEarly` keeps the
instance small: while the table deals its own cards, pays and starts over, the client asks
for nothing and no visit ends; it does join, leave and ask again when bets are open and
while players play, which is when a snapshot has stakes, cards, a turn and a hole card to be
right about.  The proofs have neither bound.

In `feed` a broadcast of two events stands for the 256 of the code: a client lags after two
instead of 256.  `MaxEvents` counts only what starts something; joins and leaves still under
way add to it.  In `connections` one user is enough, because nothing relates two users but
the actor that serves both in turn, which `Idle` has; two connections are the least that
overlap, two tables the least that share a balance; who has more than `MaxChips` bets no
more.  In `client_session` two logins are the least of which one is given up, and a
channel of three fills up with what one task, one poll and another task post.

The runs of `hands`, `feed`, `connections` and `client_session` do not check for deadlock,
because the programs may rest there: both hands full, a client at no table that presses no
key, everybody disconnected, the CLI ended; so does everything once a bound is reached.
That nothing rests where it should not is what `FeedSettles`, `SeatsComeFree` and `LoginEnds`
say.

### What the runs show

`NothingMissed` is the reason why the handler subscribes before it joins: with the forwarder
subscribing when it starts, an event between snapshot and start is lost.  `OneFeed` is the
reason why the old forwarder is aborted before the join, which may be refused, and not only
when the new one starts. `CopyMatchesWallet` shows that leaving at any time is safe for the
chips, the stake included: it was never taken from the wallet.

`HeldByConnection`, `CopyIsCurrent` and `CreditOpensAccount` hold for whoever has one
connection at a time.  They say `\ overlapped` because the others are not protected: the
cleanup of one connection takes the other's seat, two tables of one player overwrite each
other's balance, and two first logins at the same moment are given the opening chips
twice.  Nothing in the repository says what should happen then.

`TableShown` says that the lists of observers and waiting players may show too many
people, exactly those a round reset has dropped; it holds also when the events repeat what
the snapshot contained, but for the order of the rows: somebody who left and came back may
be shown below those who sat down later.  `CardsShown` and `SeatedCanBet` do not: a
repeated card is shown twice, and a repeated round reset takes the betting widget from an
observer, who then sits down and cannot bet in that round.

`PlayersAreFed` says that whoever the table knows has its events sent on, or is about to, in
every moment of a second `JoinTable`: with the forwarder aborted and the old visit going on,
somebody sits at a table whose screen has stopped.  The converse does not hold, and the models
show it: a second `JoinTable` that is refused (the one place for observers has been taken
meanwhile), or an `l` between the two snapshots, leaves the CLI with the screen of a table at
which the player is no more and of which no event arrives.  The refusal is a `CommandError`
that is only logged; nothing in the repository says what the CLI should show then.
`TableShown` and `CardsShown` therefore speak of screens while a forwarder sends events on
(`feed = "on"`); `HoleCardHidden` and `SeatedCanBet` of all.

`OneStateEach` takes the side of ADR-0003 ("three disjoint player states") and of
`take_seat.rs`, which refuses everybody who does not observe: no command makes a second
`PlayerState` of a player. ADR-0005:33 says that "the same `player_id` can appear at multiple
seats by having multiple `PlayerState` entries.  The CLI enforces one-seat-per-player at the UI
layer; the domain is seat-set agnostic", and `player_state.rs:6-7` that such entries "represent
a player holding multiple hands simultaneously".  The code does not do that: the rule is the
domain's, not the CLI's, and the lookups by player id would find one of several entries only.
No run can show this disagreement as a violation, since the two texts say what may be, not what
always is.

`ChipsChangeAtSettlementOnly` is what stands between a stake and `saturating_sub`: the models
subtract as the code does (`SaturatingSub`), so a bet beyond the balance would make chips.

`NoStaleMessages` holds although messages do not carry the generation that the other events
of a task carry: a task that is given up while logging in has not been asked for a table, and one
that has been let in is given up only after its end has been heard, which is the last thing in
the channel.

Five runs show a disagreement of the code with its documents (quotes are in
`PROJECT.json`):

* `skipped_bettor`: the first turn goes by seat, the next ones by the order of sitting
  down.  If the player of the lower seat sat down last, the others are passed over.
* `waiters_lost`: people waiting for a seat are not promoted in the next round but
  forgotten, as are the observers, because the actor opens the round before it fires
  `OpenBetting`, which then does nothing.
* `turn_starved`: every accepted command gives the player on turn a new deadline.
* `event_repeated`: events that the snapshot contains are sent and applied once more,
  the first of them being the client's own arrival; the snapshot has no sequence number
  by which a client could tell.
* `balance_pushed`: the forwarder reads the wallet as soon as it has sent `GameFinished`,
  and the actor writes it after that; a header may show the balance of before the round
  until the next round is over.

### Fairness

`TableActor!FairActorSpec`: weak fairness of the actor's own steps (tokio polls a task
that can go on) and of each deadline.  *Weak* is the point: a deadline is armed again by
every accepted command, so it must fire only if it stays due.  Nothing is assumed of the
players; `TableComesToRest` supposes that from some moment on no command arrives.

`TableFeed!FairSpec`: weak fairness of the handler's round trips (the actor answers), of
the forwarders and the forwarding branch, and of the client's loop.  When a command and a
queued event are both there, tokio picks a branch at random; `FeedSettles` supposes that
keys stop being pressed, so weak fairness is enough.

`Connections!FairSpec`: weak fairness of a table's actor, strong fairness of each
connection's handler.  Strong, because a handler waits for an actor that others keep busy:
its command is in a queue, and a queue serves it some time, which weak fairness of an
action that is enabled again and again does not say.  Nothing is assumed of clients, and
nothing of when a dead socket is noticed.

`ClientSession!FairSpec`: weak fairness of the loop (it receives while it runs), of polls
(the request has a timeout) and of a task until it is let in or refused: connecting fails
in the end, and a server that is reached answers an `Auth`.  An established connection may
last for ever.  `LoginEnds` supposes that keys stop being pressed.

## The proofs

`GameEngineTheorems` proves for any finite set of players, any number of seats and
observers, any limits, any set of pips and any shoe (the named assumptions of
`GameEngine`) that every behaviour of `Spec` satisfies `TypeOK`, `OneStateEach`,
`SeatsExclusive`, `TurnIsPlayable`, `HandsInBounds`, `RoundStartsClean` and
`DealerStandsOn17`.

None of them but `OneStateEach` is inductive by itself.  `IInv` is their conjunction with
`DealerHasTwoCards`:

* `TurnIsPlayable` needs `RoundStartsClean`, since a deal gives the turn to a bettor who
  must not have decided yet, and `OneStateEach`, since the next in the vector must be
  somebody else than the player who is done;
* `HandsInBounds` (the `u8` of `Hand::value`) needs `TurnIsPlayable`: only a hand that is
  not bust, hence worth at most 21, ever gets another card;
* `RoundStartsClean` needs that nobody without a stake has cards, part of `HandsInBounds`;
* `DealerStandsOn17` needs `DealerHasTwoCards`, from which the loop starts.

The dealer's loop has a theorem of its own, `OperatorLemmas!DealerLoopEnds`: a hand the
dealer still draws on has few cards for its total (`Slow`), so after twelve turns
every hand stands.  There is one lemma per action, and `StepInv` puts them
together.  Two lemmas per action more, about the chips and about the turn, make the
action properties `ChipsChangeAtSettlementOnly` and `TurnEndsForGood`; both need `IInv`,
the second because whoever is next must not have decided.

`ShoeInv`, a proof's invariant as `IInv` is and no property of a run, adds to `IInv` what the
shoe needs.  `HandsShort`, that no hand has more than
twenty cards, is inductive because every card is worth a point at least, only hands of at
most 20 points get another, and one that goes on past 10 has a card worth more.
`ShoeNeverRunsOut` is a sum over the players: a step changes one summand (`SumChange`), or
takes one out (`SumTakeOut`), or, in a deal, is two for each bettor (`SumConstant`).
`ShoeSufficesHolds` draws the conclusion for the code: with twenty cards a seat and twenty
for the dealer (the shoe has 208, for seven seats and the dealer), nobody who plays and no
way for the dealer to draw is ever answered `ShoeEmpty`.

`TableActorTheorems` proves `ActorTypeOK`, `NeverStuck`, `SummaryCurrent` and
`CopyMatchesWallet`, that `ActorSpec` implements `ChipLedger` (`ImplementsLedger`), and
that a table run by an actor keeps what the engine promises: `ActorPlaysFair`,
`ActorTurnsEndForGood`, `ActorShoeSuffices`. The engine's part of the state is left to the
lemmas of `GameEngineTheorems`, since what the actor does to it is a step of `GameEngine`.
`ActorInv` adds to `IInv` what holds between two awaits: `LoadsJoined` (only the arm in
which somebody sat down loads a balance), `FlushesSeated` (only a finished round is
written, for those in a seat), `TimersArmed`, `Listed` (the summary is right from the
moment it is written), and `Copies`: the balance at the table is the wallet's, but for who
is loaded next or has yet to be written. `CopyMatchesWallet` is `Copies` where nobody is
excepted. `Stakes` bounds a stake by two bets, and by one unless the player has doubled;
the ledger needs it to bound what a settlement can cost, and without the part about the
third card a player could double twice, or double and win with a blackjack.

`TableFeedTheorems` proves `FeedTypeOK`, `OneFeed` and `NothingMissed` for any number of
tables and any capacity of the channels.  `OneFeed` speaks of the moments in which the
connection waits; `FeedsCurrent` is the same wherever the handler is, which is what makes it
inductive: after `LeaveOldTable` nothing runs, so a join that is then refused leaves nothing
behind.  `NothingMissed` applies the messages on their way, a fold; its inductive invariant
`FollowInv` says instead where they are: after the last snapshot come the events from its
number on to the one its task has taken, in this order, among whatever else there is
(`Chain`, `Carries`).  What comes in between does no harm, since `Follow` takes an event
only if it is the next one; a new snapshot starts a new chain, and that has no gap because
the receiver is older than the snapshot (`InTime`).

`ConnectionsTheorems` proves `ConnTypeOK`, `HeldByConnection`, `CopyIsCurrent` and
`CreditOpensAccount` for any number of users, connections and tables and any amounts.  The
three properties need each other, and `ConnInv` has them together: the opening chips cannot
overtake a table because a user who is still logging in is at no table, which is
`HeldByConnection` with `LoginFirst`; a table that writes a balance back writes the newest
because the one connection of its player (`Single`) is at one table at most.  `SeatsKnown` says
for whom a table loads and writes balances.

`ClientSessionTheorems` proves `SessionTypeOK`, `SessionIsCurrent`, `NoStaleMessages` and
`PollsAreCounted` for any number of logins, messages and open joins and any channel.
`SessionInv`, the inductive invariant, has the order of a task's events in the channel
(`TaskInOrder`: the answer to the login first, the end last), who holds the command channel
(`HoldsLastTask`), what is known behind the login screen (`BehindLogin`), and that no task but
that of the session on the screen has asked for anything (`OthersQuiet`).
`NoStaleMessages` follows from the last; that it is preserved when a session ends needs that
the end comes last, and when one begins, that nothing came before.  All of it is given up
when the user quits, since nothing is handled any more.  `TaskSilent` and `TaskPosts` are
the two ways in which a task can move, `LoopIgnores` the events that are none of the session's
business.

`HandReferenceTheorems` proves all four properties of `HandReference` for hands of any
number of cards of any pips.  The rules speak of all ways to count the aces, the engine of
one bit: `RefInv` ties the engine's running `Hand` to the cards, and the lemmas show that
at most one ace can count eleven.  The client's total is a loop that takes ten off
as long as it can, and comes to the same.

`ClientViewTheorems` proves that the table of `ClientView` implements `GameEngine`
(`ViewImplementsEngine`), and `ViewTypeOK`, `PlayersAreFed`, `TableShown`, `CardsShown`,
`HoleCardHidden` and `SeatedCanBet`, for any number of players and any cards.  A screen is
*right* when the phase, the turn and everybody's place are the table's, *clean* when the order
of the seats, the cards and the stakes are, too, and *discreet* when it gives no hole card
away.  A walk, `Leads`, is what a list of events does to a screen, one after the other.

* Every step of the table is `Announced`.  Its events take along *any* screen, whatever
  it shows (`Told`): what the step changes at the table they set to what it is now, what it
  leaves they leave.  And they take a screen that is right, clean and discreet to a clean
  one, through discreet ones only (`Heard`).  There is one lemma per command; the longest are
  those of the deal and of the dealer's turn, whose events are as many as cards.
* `ScreenRight` and `ScreenClean`, the heart of the inductive invariant `ViewInv`, say where
  the walk along the queue ends.  `Tick` takes one step of the walk; a step of the table
  makes it longer.
* Both speak of a screen while events are sent on (`Forwarding`).  When the forwarder is aborted
  the walk loses its end, and what is left of it leads anywhere but through discreet screens
  still: `ScreenDiscreet`, which holds of screens that have stopped, too.
* `Attended` has `PlayersAreFed`, with what `SeatedCanBet` needs: whoever has a seat has had
  the snapshot.
* A client that joins holds events back while the snapshot is being taken, and the snapshot
  may have them already.  `HeldRenews` says that they spoil nothing in a screen that is
  right: each sets some piece of it to what it is now, or leaves it.  For clean screens
  that is not so, whence `mixed`.
* `HeldQuiet` has what `SeatedCanBet` needs: whoever missed no change of phase is not
  among the forgotten.  `Twin` shows that to dismiss the result of a round touches nothing
  that any event reads.

The invariant quantifies over all screens and all walks, so TLC cannot evaluate it; TLC
checks the six properties, on the run `client_view`.

Every safety property that a passing run checks is proved: all type invariants, all
invariants, the action properties and the refinement `KeepsTheBooks`.  Folds and sums are
within reach although the library's induction theorems are not: `NatInduct` and
`SubsetInduct` in `OperatorLemmas` take a *set* instead of a predicate and follow from
`WFMin`, and `FoldWalk` and `SumUnfold` turn a fold into a walk or a sum into a summand and
the rest.  Only model-checked:

* Liveness: `TableComesToRest`, `FeedSettles`, `SeatsComeFree`, `LoginEnds`.  It takes
  ENABLED, which the prover does not reason about.
* The five disagreements above, which are counterexamples.

## Not modelled

* Rendering, layout and texts of the CLI, and the selection of a table in the lobby.
* HTTP routes, configuration and start-up, but for the seeded accounts (`Connections!Init`)
  and the summaries that `list_tables` reads (`TableActor`).
* Shuffling: any card may come next.  Hashing of passwords: one is right or wrong.
* A crash of the server: all its state is in memory and gone.
* The `TableStore` stub; the Kafka and PostgreSQL design of ADR-0001, of which there is no
  code.
* `DealerExecute` of the actor, which has no sender, `Wallet::debit` and
  `GameState::first_betting_player`, which have no caller, `CloseTable`, which is `todo!()`.
* `OpenBetting` out of `Finished`, which no host in the repository reaches (`waiters_lost`).
* Commands a client of another make could send: `Connections` has a connection send what
  the CLI can send, in any order, and for any table.

## Plan

Done: all modules and theorems above.  Left: `OpenBetting` out of `Finished`, as a host
of the library could call it, with the invariants of `GameEngine` for it.
