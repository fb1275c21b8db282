------------------------------- MODULE TableFeed -------------------------------
(***************************************************************************)
(* How one client follows the tables: the JoinTable and LeaveTable handlers *)
(* of server/src/routes/ws.rs with the forwarder task they start and abort, *)
(* the two channels between a table and the socket, and the application     *)
(* loop of the CLI (cli/src/app/mod.rs).                                    *)
(*                                                                         *)
(* A table is the number of events it has broadcast: event n takes its      *)
(* state from n - 1 to n, a snapshot is the number it was taken at.  Cards, *)
(* bets and the other players are in the events this module only counts.    *)
(* Acknowledgements and refusals, which the client only logs, and the       *)
(* Balance that follows a GameFinished are left out.                        *)
(***************************************************************************)
EXTENDS Integers, Sequences, FiniteSets, SequencesExt

CONSTANTS Table,        \* the TableIds
          NoTable,      \* None, for a TableId
          Retained,     \* the capacity of a table's broadcast channel
          QueueSize,    \* the capacity of event_fwd_tx
          SocketSize,   \* the messages that socket and client buffer unread
          MaxEvents,    \* bound: nobody starts anything after so many events
          MaxCommands   \* bound: commands of the client on their way

ASSUME TableAssumption == NoTable \notin Table

ASSUME CapacityAssumption == {Retained, QueueSize, SocketSize} \subseteq Nat \ {0}

ASSUME BoundAssumption == MaxEvents \in Nat /\ MaxCommands \in Nat

VARIABLES seq,         \* the events each table has broadcast
          member,      \* the tables whose GameState holds this player
          pc,          \* where handle_client_msg is
          target,      \* the table of the JoinTable being handled
          rx,          \* the next event of the receiver that JoinTable holds
          current,     \* current_table
          forwarders,  \* the forwarder tasks that still run
          queue,       \* the channel from the forwarders to the connection
          toServer,    \* the client's commands, not yet received
          inbox,       \* server messages, not yet handled by the client
          events,      \* App::event_queue
          view         \* the screen: NoView for the lobby

serverVars == <<seq, member, pc, target, rx, current, forwarders, queue>>
clientVars == <<inbox, events, view>>
vars == <<serverVars, toServer, clientVars>>

-----------------------------------------------------------------------------

\* "event" n of a table, a "snapshot" taken after event n, or the error "lagged".
Message == [kind : {"event", "snapshot", "lagged"}, table : Table, n : Nat]

Command == [kind : {"JoinTable", "LeaveTable"}, table : Table]

\* A task that copies the events of a table from number `next' on; `held' is the
\* message, if any, that it has taken out of the broadcast and not yet sent.
Forwarder == [table : Table, next : Nat, held : Seq(Message), aborted : BOOLEAN]

NewForwarder(t, next) == [table |-> t, next |-> next, held |-> <<>>, aborted |-> FALSE]

\* The snapshot a table screen was made from and the events applied to it since.
View == [table : Table \cup {NoTable}, base : Nat, shown : Seq(Message)]

NoView == [table |-> NoTable, base |-> 0, shown |-> <<>>]

Running == {f \in forwarders : ~f.aborted}

\* JoinHandle::abort: a task that is being polled goes on until it next waits.
Aborted == {[f EXCEPT !.aborted = TRUE] : f \in forwarders}

\* The tokio broadcast channel keeps the last events only.
Lags(t, next) == seq[t] - next >= Retained

QuietEnough == FoldFunction(+, 0, seq) < MaxEvents

Broadcast(t) == seq' = [seq EXCEPT ![t] = @ + 1]

-----------------------------------------------------------------------------
(***************************************************************************)
(* The table.                                                               *)
(***************************************************************************)

\* Somebody else plays.
Publish(t) ==
  /\ QuietEnough
  /\ Broadcast(t)
  /\ UNCHANGED <<member, pc, target, rx, current, forwarders, queue, toServer, clientVars>>

\* A new round forgets those who only watch (table_actor.rs:203-229).
ResetRound(t) ==
  /\ QuietEnough
  /\ t \in member
  /\ Broadcast(t)
  /\ member' = member \ {t}
  /\ UNCHANGED <<pc, target, rx, current, forwarders, queue, toServer, clientVars>>

\* LeaveTable, refused when the table does not know the player.
LeaveAt(t) ==
  /\ member' = member \ {t}
  /\ IF t \in member THEN Broadcast(t) ELSE UNCHANGED seq

-----------------------------------------------------------------------------
(***************************************************************************)
(* The connection.                                                          *)
(***************************************************************************)

\* The first branch of its select!.
ForwardToSocket ==
  /\ pc = "idle"
  /\ queue # <<>>
  /\ Len(inbox) < SocketSize
  /\ inbox' = Append(inbox, Head(queue))
  /\ queue' = Tail(queue)
  /\ UNCHANGED <<seq, member, pc, target, rx, current, forwarders, toServer, events, view>>

ReceiveJoinTable ==
  /\ pc = "idle"
  /\ toServer # <<>>
  /\ Head(toServer).kind = "JoinTable"
  /\ toServer' = Tail(toServer)
  /\ target' = Head(toServer).table
  /\ pc' = "leave"
  /\ UNCHANGED <<seq, member, rx, current, forwarders, queue, clientVars>>

\* Mutant: the forwarder of the old table is left for SpawnForwarder to abort.
LeaveOldTableOnly ==
  /\ pc = "leave"
  /\ IF current = NoTable THEN UNCHANGED <<seq, member>> ELSE LeaveAt(current)
  /\ current' = NoTable
  /\ pc' = "subscribe"
  /\ UNCHANGED <<target, rx, forwarders, queue, toServer, clientVars>>

LeaveOldTable ==
  /\ pc = "leave"
  /\ IF current = NoTable
     THEN UNCHANGED <<seq, member, forwarders>>
     ELSE LeaveAt(current) /\ forwarders' = Aborted
  /\ current' = NoTable
  /\ pc' = "subscribe"
  /\ UNCHANGED <<target, rx, queue, toServer, clientVars>>

Subscribe ==
  /\ pc = "subscribe"
  /\ rx' = seq[target] + 1
  /\ pc' = "join"
  /\ UNCHANGED <<seq, member, target, current, forwarders, queue, toServer, clientVars>>

\* Accepted without an event when the player is there already.
JoinAccepted ==
  /\ pc = "join"
  /\ IF target \in member THEN UNCHANGED seq ELSE Broadcast(target)
  /\ member' = member \cup {target}
  /\ pc' = "snapshot"
  /\ UNCHANGED <<target, rx, current, forwarders, queue, toServer, clientVars>>

\* As many observers as the table allows: the receiver is dropped.
JoinRefused ==
  /\ pc = "join"
  /\ target \notin member
  /\ pc' = "idle"
  /\ rx' = 0
  /\ target' = NoTable
  /\ UNCHANGED <<seq, member, current, forwarders, queue, toServer, clientVars>>

\* Mutant: the snapshot takes the way of the events.
SnapshotThroughQueue ==
  /\ pc = "snapshot"
  /\ Len(queue) < QueueSize
  /\ queue' = Append(queue, [kind |-> "snapshot", table |-> target, n |-> seq[target]])
  /\ pc' = "spawn"
  /\ UNCHANGED <<seq, member, target, rx, current, forwarders, toServer, clientVars>>

\* The snapshot overtakes what is still in the queue.
SendSnapshot ==
  /\ pc = "snapshot"
  /\ Len(inbox) < SocketSize
  /\ inbox' = Append(inbox, [kind |-> "snapshot", table |-> target, n |-> seq[target]])
  /\ pc' = "spawn"
  /\ UNCHANGED <<seq, member, target, rx, current, forwarders, queue, toServer, events, view>>

\* Mutant: the forwarder subscribes when it starts.
SpawnForwarderSubscribing ==
  /\ pc = "spawn"
  /\ forwarders' = Aborted \cup {NewForwarder(target, seq[target] + 1)}
  /\ current' = target
  /\ pc' = "idle"
  /\ rx' = 0
  /\ target' = NoTable
  /\ UNCHANGED <<seq, member, queue, toServer, clientVars>>

SpawnForwarder ==
  /\ pc = "spawn"
  /\ forwarders' = Aborted \cup {NewForwarder(target, rx)}
  /\ current' = target
  /\ pc' = "idle"
  /\ rx' = 0
  /\ target' = NoTable
  /\ UNCHANGED <<seq, member, queue, toServer, clientVars>>

\* A refused LeaveTable changes nothing here, the forwarder included.
ReceiveLeaveTable ==
  /\ pc = "idle"
  /\ toServer # <<>>
  /\ Head(toServer).kind = "LeaveTable"
  /\ toServer' = Tail(toServer)
  /\ LeaveAt(Head(toServer).table)
  /\ IF Head(toServer).table \in member
     THEN current' = NoTable /\ forwarders' = Aborted
     ELSE UNCHANGED <<current, forwarders>>
  /\ UNCHANGED <<pc, target, rx, queue, clientVars>>

Handler ==
  \/ ReceiveJoinTable \/ LeaveOldTable \/ Subscribe \/ JoinAccepted \/ JoinRefused
  \/ SendSnapshot \/ SpawnForwarder \/ ReceiveLeaveTable

-----------------------------------------------------------------------------
(***************************************************************************)
(* A forwarder.                                                             *)
(***************************************************************************)

Become(f, g) == forwarders' = (forwarders \ {f}) \cup {g}

TakeEvent(f) ==
  /\ f.held = <<>>
  /\ f.next <= seq[f.table]
  /\ IF Lags(f.table, f.next)
     THEN Become(f, [f EXCEPT !.held = <<[kind |-> "lagged", table |-> f.table, n |-> 0]>>])
     ELSE Become(f, [f EXCEPT !.held = <<[kind |-> "event", table |-> f.table, n |-> f.next]>>,
                              !.next = @ + 1])
  /\ UNCHANGED <<seq, member, pc, target, rx, current, queue, toServer, clientVars>>

\* Mutant: an unbounded channel.
SendHeldAtOnce(f) ==
  /\ f.held # <<>>
  /\ queue' = queue \o f.held
  /\ IF Head(f.held).kind = "lagged"
     THEN forwarders' = forwarders \ {f}
     ELSE Become(f, [f EXCEPT !.held = <<>>])
  /\ UNCHANGED <<seq, member, pc, target, rx, current, toServer, clientVars>>

\* The error is the last thing a forwarder sends.
SendHeld(f) ==
  /\ f.held # <<>>
  /\ Len(queue) < QueueSize
  /\ queue' = queue \o f.held
  /\ IF Head(f.held).kind = "lagged"
     THEN forwarders' = forwarders \ {f}
     ELSE Become(f, [f EXCEPT !.held = <<>>])
  /\ UNCHANGED <<seq, member, pc, target, rx, current, toServer, clientVars>>

Die(f) ==
  /\ f.aborted
  /\ forwarders' = forwarders \ {f}
  /\ UNCHANGED <<seq, member, pc, target, rx, current, queue, toServer, clientVars>>

-----------------------------------------------------------------------------
(***************************************************************************)
(* The client.                                                              *)
(***************************************************************************)

Send(c) ==
  /\ Len(toServer) < MaxCommands
  /\ QuietEnough
  /\ toServer' = Append(toServer, c)

\* Enter in the lobby, which stays on the screen until the snapshot arrives.
EnterTable(t) ==
  /\ view = NoView
  /\ Send([kind |-> "JoinTable", table |-> t])
  /\ UNCHANGED <<serverVars, clientVars>>

\* `l' of somebody who watches: the lobby is shown at once.
BackToLobby ==
  /\ view # NoView
  /\ Send([kind |-> "LeaveTable", table |-> view.table])
  /\ view' = NoView
  /\ UNCHANGED <<serverVars, inbox, events>>

\* handle_ws_message; the error of a forwarder that lagged is only logged.
ReceiveMessage ==
  /\ inbox # <<>>
  /\ LET m == Head(inbox) IN
       \/ /\ m.kind = "snapshot"
          /\ events' = <<>>
          /\ view' = [table |-> m.table, base |-> m.n, shown |-> <<>>]
       \/ /\ m.kind = "event"
          /\ events' = Append(events, m)
          /\ UNCHANGED view
       \/ /\ m.kind = "lagged"
          /\ UNCHANGED <<events, view>>
  /\ inbox' = Tail(inbox)
  /\ UNCHANGED <<serverVars, toServer>>

\* One queued event at a time is applied to the table screen, if there is one.
Tick ==
  /\ events # <<>>
  /\ events' = Tail(events)
  /\ IF view = NoView THEN UNCHANGED view
     ELSE view' = [view EXCEPT !.shown = Append(@, Head(events))]
  /\ UNCHANGED <<serverVars, toServer, inbox>>

-----------------------------------------------------------------------------

Init ==
  /\ seq = [t \in Table |-> 0]
  /\ member = {}
  /\ pc = "idle"
  /\ target = NoTable
  /\ rx = 0
  /\ current = NoTable
  /\ forwarders = {}
  /\ queue = <<>>
  /\ toServer = <<>>
  /\ inbox = <<>>
  /\ events = <<>>
  /\ view = NoView

ForwarderStep == \E f \in forwarders : TakeEvent(f) \/ SendHeld(f) \/ Die(f)

Next ==
  \/ \E t \in Table : Publish(t) \/ ResetRound(t) \/ EnterTable(t)
  \/ Handler \/ ForwardToSocket
  \/ ForwarderStep
  \/ BackToLobby \/ ReceiveMessage \/ Tick

Spec == Init /\ [][Next]_vars

\* Tasks are polled while they can go on, and the application loop ticks.  Nobody
\* has to play, to enter a table or to leave it.
Fairness ==
  /\ WF_vars(Handler) /\ WF_vars(ForwardToSocket)
  /\ WF_vars(ForwarderStep)
  /\ WF_vars(ReceiveMessage) /\ WF_vars(Tick)

FairSpec == Spec /\ Fairness

-----------------------------------------------------------------------------

FeedTypeOK ==
  /\ seq \in [Table -> Nat]
  /\ member \in SUBSET Table
  /\ pc \in {"idle", "leave", "subscribe", "join", "snapshot", "spawn"}
  /\ target \in Table \cup {NoTable}
  /\ rx \in Nat
  /\ current \in Table \cup {NoTable}
  /\ forwarders \subseteq Forwarder
  /\ queue \in Seq(Message) /\ Len(queue) <= QueueSize
  /\ toServer \in Seq(Command)
  /\ inbox \in Seq(Message) /\ Len(inbox) <= SocketSize
  /\ events \in Seq(Message)
  /\ view.table \in Table \cup {NoTable} /\ view.base \in Nat /\ view.shown \in Seq(Message)

\* Whenever the connection waits, at most one task feeds it, and with the events of
\* the table it believes the player to be at.
OneFeed ==
  pc = "idle" =>
    /\ Cardinality(Running) <= 1
    /\ \A f \in Running : f.table = current

\* Everything on its way to the screen, in the order in which it will get there.
OnTheWay == view.shown \o events \o inbox \o queue

\* A client that applies an event only if it is the next one.
Follow(m, n) == IF m.kind = "event" /\ m.table = view.table /\ m.n = n + 1 THEN m.n ELSE n

\* The number of the last event such a client has applied when it is through ms.
Reached(ms) == FoldLeft(LAMBDA n, m : Follow(m, n), view.base, ms)

\* The task of the table on the screen, or the one about to be started for it.
Feeds ==
  {f \in Running : f.table = view.table}
    \cup (IF pc = "spawn" /\ target = view.table THEN {NewForwarder(target, rx)} ELSE {})

\* The event is broadcast before or after the receiver exists, and before or after
\* the snapshot is taken, yet none falls between the two: the snapshot on the
\* screen, what was applied to it, what is on its way and what the forwarder has yet
\* to take are together all there was, and in order.  Only what the channel drops
\* under a slow reader is missed, and that is the end of the feed.
NothingMissed ==
  \A f \in Feeds :
    /\ pc \in {"idle", "spawn"}
    /\ \A i \in DOMAIN OnTheWay : OnTheWay[i].kind # "snapshot"
    => Reached(OnTheWay \o f.held) + 1 >= f.next

\* From some moment on no key is pressed any more.
NoMoreKeys == <>[][~BackToLobby /\ ~\E t \in Table : EnterTable(t)]_vars

\* However slow anybody is, the connection comes back to its select!, everything sent
\* arrives, and a screen whose feed is alive ends up showing the table as it is: the
\* handler, which alone empties the queue, never waits for room in it.
FeedSettles ==
  NoMoreKeys =>
    <>[](/\ pc = "idle"
         /\ queue = <<>> /\ inbox = <<>> /\ events = <<>>
         /\ \A f \in Running : f.table = view.table => Reached(view.shown) = seq[f.table])

\* ADR-0001: "send a GameStateSnapshot ..., then stream subsequent events".  What is
\* applied to the screen of a table are events of that table, each after the
\* snapshot and after the one before it.
EventsFollowSnapshot ==
  \A i \in DOMAIN view.shown :
    /\ view.shown[i].table = view.table
    /\ view.shown[i].n > (IF i = 1 THEN view.base ELSE view.shown[i - 1].n)

==============================================================================
