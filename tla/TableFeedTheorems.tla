--------------------------- MODULE TableFeedTheorems ---------------------------
(***************************************************************************)
(* Theorems about TableFeed, for any number of tables and any capacities of *)
(* the channels: the channels keep within their capacity and one task at    *)
(* most feeds a connection, with the events of the table its player is at.  *)
(***************************************************************************)
EXTENDS TableFeed, OperatorLemmas

USE TableAssumption, CapacityAssumption, BoundAssumption

\* The lobby, or the screen of a table.
Screen == {NoView} \cup [table : Table, base : Nat, shown : Seq(Message)]

\* A forwarder holds one message at most.
HeldAndShown ==
  /\ \A f \in forwarders : Len(f.held) <= 1
  /\ view \in Screen
  /\ pc # "idle" => target \in Table

\* Of the tasks that nobody has aborted there is one at most, and only for the table
\* that the connection believes its player to be at: wherever the handler is.
FeedsCurrent ==
  /\ \A f, g \in Running : f = g
  /\ \A f \in Running : f.table = current

\* The inductive invariant.
FeedInv == FeedTypeOK /\ HeldAndShown /\ FeedsCurrent

-----------------------------------------------------------------------------

\* No table, no player, no task.
LEMMA InitInv == Init => FeedInv
PROOF
<1> SUFFICES ASSUME Init PROVE FeedInv
  OBVIOUS
<1> USE DEF Init
<1>1. FeedTypeOK
  <2>1. queue \in Seq(Message) /\ inbox \in Seq(Message) /\ events \in Seq(Message)
        /\ toServer \in Seq(Command)
    OBVIOUS
  <2>2. Len(queue) <= QueueSize /\ Len(inbox) <= SocketSize
    BY DEF Init
  <2> QED
    BY <2>1, <2>2 DEF FeedTypeOK, NoView
<1>2. HeldAndShown
  BY DEF HeldAndShown, Screen
<1>3. FeedsCurrent
  BY DEF FeedsCurrent, Running
<1> QED
  BY <1>1, <1>2, <1>3 DEF FeedInv

\* An event more, or none, at a table.
LEMMA BroadcastType ==
  ASSUME seq \in [Table -> Nat], NEW t \in Table, Broadcast(t) \/ UNCHANGED seq
  PROVE  seq' \in [Table -> Nat]
PROOF
<1>1. seq[t] + 1 \in Nat
  OBVIOUS
<1> QED
  BY <1>1 DEF Broadcast

\* What happens at a table, and what the client does, is no concern of the tasks.
LEMMA ElsewhereInv ==
  ASSUME FeedInv, UNCHANGED <<pc, target, rx, current, forwarders, queue>>,
         seq' \in [Table -> Nat], member' \in SUBSET Table,
         toServer' \in Seq(Command),
         inbox' \in Seq(Message), Len(inbox') <= SocketSize,
         events' \in Seq(Message), view' \in Screen
  PROVE  FeedInv'
PROOF
<1>1. FeedTypeOK'
  <2>1. /\ view'.table \in Table \cup {NoTable} /\ view'.base \in Nat
        /\ view'.shown \in Seq(Message)
    <3>1. CASE view' = NoView
      BY <3>1 DEF NoView
    <3>2. CASE view' \in [table : Table, base : Nat, shown : Seq(Message)]
      BY <3>2
    <3> QED
      BY <3>1, <3>2 DEF Screen
  <2> QED
    BY <2>1 DEF FeedInv, FeedTypeOK
<1>2. HeldAndShown' /\ FeedsCurrent'
  BY DEF FeedInv, HeldAndShown, FeedsCurrent, Running
<1> QED
  BY <1>1, <1>2 DEF FeedInv

\* Aborting all tasks leaves tasks, none of them running.
LEMMA AbortedType ==
  ASSUME FeedInv
  PROVE  /\ Aborted \subseteq Forwarder
         /\ \A f \in Aborted : f.aborted /\ Len(f.held) <= 1
PROOF
<1>1. forwarders \subseteq Forwarder /\ \A f \in forwarders : Len(f.held) <= 1
  BY DEF FeedInv, FeedTypeOK, HeldAndShown
<1>2. ASSUME NEW f \in forwarders
      PROVE  LET g == [f EXCEPT !.aborted = TRUE] IN
             g \in Forwarder /\ g.aborted /\ Len(g.held) <= 1
  BY <1>1 DEF Forwarder
<1> QED
  BY <1>2 DEF Aborted

\* A command is taken off the channel.
LEMMA CommandTaken ==
  ASSUME FeedInv, toServer # <<>>
  PROVE  Head(toServer).table \in Table /\ Tail(toServer) \in Seq(Command)
PROOF
<1>1. Head(toServer) \in Command /\ Tail(toServer) \in Seq(Command)
  BY HeadTailProperties DEF FeedInv, FeedTypeOK
<1> QED
  BY <1>1 DEF Command

\* The handler of JoinTable aborts the old task before it may be refused.
LEMMA HandlerInv ==
  ASSUME FeedInv, Handler
  PROVE  FeedInv'
PROOF
<1> USE DEF FeedInv
<1>1. ASSUME NEW t \in Table, LeaveAt(t)
      PROVE  member' \in SUBSET Table /\ seq' \in [Table -> Nat]
  <2>1. seq' \in [Table -> Nat]
    BY <1>1, BroadcastType DEF LeaveAt, FeedTypeOK
  <2> QED
    BY <1>1, <2>1 DEF LeaveAt, FeedTypeOK
<1>2. CASE ReceiveJoinTable
  <2>1. Head(toServer).table \in Table /\ Tail(toServer) \in Seq(Command)
    BY <1>2, CommandTaken DEF ReceiveJoinTable
  <2> QED
    BY <1>2, <2>1 DEF ReceiveJoinTable, clientVars, FeedTypeOK, HeldAndShown, FeedsCurrent, Running
<1>3. CASE LeaveOldTable
  <2>1. /\ member' \in SUBSET Table /\ seq' \in [Table -> Nat]
        /\ current' = NoTable /\ target \in Table
        /\ pc' = "subscribe" /\ UNCHANGED <<target, rx, queue, toServer, inbox, events, view>>
    <3>1. current # NoTable => current \in Table
      BY DEF FeedTypeOK
    <3> QED
      BY <1>1, <1>3, <3>1 DEF LeaveOldTable, clientVars, FeedTypeOK, HeldAndShown
  <2>2. /\ forwarders' \subseteq Forwarder
        /\ \A f \in forwarders' : f.aborted /\ Len(f.held) <= 1
    <3>1. CASE current = NoTable
      <4>1. forwarders' = forwarders
        BY <1>3, <3>1 DEF LeaveOldTable
      <4>2. \A f \in forwarders : f \in Forwarder /\ f.table \in Table
        BY DEF FeedTypeOK, Forwarder
      <4>3. \A f \in forwarders : f.aborted
        BY <3>1, <4>2 DEF FeedsCurrent, Running
      <4> QED
        BY <4>1, <4>2, <4>3 DEF HeldAndShown
    <3>2. CASE current # NoTable
      BY <1>3, <3>2, AbortedType DEF LeaveOldTable
    <3> QED
      BY <3>1, <3>2
  <2>3. FeedTypeOK'
    BY <2>1, <2>2 DEF FeedTypeOK
  <2> QED
    BY <2>1, <2>2, <2>3 DEF HeldAndShown, FeedsCurrent, Running
<1>4. CASE Subscribe
  <2>1. rx' \in Nat
    BY <1>4 DEF Subscribe, FeedTypeOK, HeldAndShown
  <2> QED
    BY <1>4, <2>1 DEF Subscribe, clientVars, FeedTypeOK, HeldAndShown, FeedsCurrent, Running
<1>5. CASE JoinAccepted
  <2>1. member' \in SUBSET Table /\ seq' \in [Table -> Nat]
    BY <1>5 DEF JoinAccepted, Broadcast, FeedTypeOK, HeldAndShown
  <2> QED
    BY <1>5, <2>1 DEF JoinAccepted, clientVars, FeedTypeOK, HeldAndShown, FeedsCurrent, Running
<1>6. CASE JoinRefused
  BY <1>6 DEF JoinRefused, clientVars, FeedTypeOK, HeldAndShown, FeedsCurrent, Running
<1>7. CASE SendSnapshot
  <2> DEFINE snapshot == [kind |-> "snapshot", table |-> target, n |-> seq[target]]
  <2>1. snapshot \in Message
    BY <1>7 DEF SendSnapshot, FeedTypeOK, HeldAndShown, Message
  <2>2. inbox' = Append(inbox, snapshot) /\ Len(inbox) < SocketSize /\ inbox \in Seq(Message)
    BY <1>7 DEF SendSnapshot, FeedTypeOK
  <2> HIDE DEF snapshot
  <2>3. inbox' \in Seq(Message) /\ Len(inbox') <= SocketSize
    BY <2>1, <2>2
  <2> QED
    BY <1>7, <2>3 DEF SendSnapshot, FeedTypeOK, HeldAndShown, FeedsCurrent, Running
<1>8. CASE SpawnForwarder
  <2> DEFINE new == NewForwarder(target, rx)
  <2>1. target \in Table /\ rx \in Nat
    BY <1>8 DEF SpawnForwarder, FeedTypeOK, HeldAndShown
  <2>2. new \in Forwarder /\ Len(new.held) = 0 /\ new.table = target
    BY <2>1 DEF NewForwarder, Forwarder
  <2>3. forwarders' = Aborted \cup {new} /\ current' = target
    BY <1>8 DEF SpawnForwarder
  <2> HIDE DEF new
  <2>4. /\ forwarders' \subseteq Forwarder
        /\ \A f \in forwarders' : Len(f.held) <= 1
        /\ \A f \in Running' : f = new
    BY <2>2, <2>3, AbortedType DEF Running
  <2>5. FeedsCurrent'
    BY <2>2, <2>3, <2>4 DEF FeedsCurrent
  <2> QED
    BY <1>8, <2>1, <2>4, <2>5 DEF SpawnForwarder, clientVars, FeedTypeOK, HeldAndShown
<1>9. CASE ReceiveLeaveTable
  <2>1. Head(toServer).table \in Table /\ Tail(toServer) \in Seq(Command)
    BY <1>9, CommandTaken DEF ReceiveLeaveTable
  <2>2. /\ member' \in SUBSET Table /\ seq' \in [Table -> Nat]
        /\ toServer' \in Seq(Command)
        /\ UNCHANGED <<pc, target, rx, queue, inbox, events, view>>
    BY <1>1, <1>9, <2>1 DEF ReceiveLeaveTable, clientVars
  <2>3. CASE UNCHANGED <<current, forwarders>>
    BY <2>2, <2>3 DEF FeedTypeOK, HeldAndShown, FeedsCurrent, Running
  <2>4. CASE current' = NoTable /\ forwarders' = Aborted
    BY <2>2, <2>4, AbortedType DEF FeedTypeOK, HeldAndShown, FeedsCurrent, Running
  <2> QED
    BY <1>9, <2>3, <2>4 DEF ReceiveLeaveTable
<1> QED
  BY <1>2, <1>3, <1>4, <1>5, <1>6, <1>7, <1>8, <1>9 DEF Handler

\* A message is handed from one channel to the next.
LEMMA ForwardToSocketInv ==
  ASSUME FeedInv, ForwardToSocket
  PROVE  FeedInv'
PROOF
<1>1. /\ queue \in Seq(Message) /\ queue # <<>> /\ Len(queue) <= QueueSize
      /\ inbox \in Seq(Message) /\ Len(inbox) < SocketSize
      /\ inbox' = Append(inbox, Head(queue)) /\ queue' = Tail(queue)
  BY DEF FeedInv, FeedTypeOK, ForwardToSocket
<1>2. /\ queue' \in Seq(Message) /\ Head(queue) \in Message
      /\ Len(queue') <= QueueSize
  BY <1>1, HeadTailProperties
<1>3. inbox' \in Seq(Message) /\ Len(inbox') <= SocketSize
  BY <1>1, <1>2
<1> QED
  BY <1>2, <1>3 DEF ForwardToSocket, FeedInv, FeedTypeOK, HeldAndShown, FeedsCurrent, Running

\* A task that goes on is still the same task, aborted or not, at the same table.
LEMMA BecomeInv ==
  ASSUME FeedInv, NEW f \in forwarders, NEW g \in Forwarder, Become(f, g),
         g.table = f.table, g.aborted = f.aborted, Len(g.held) <= 1,
         queue' \in Seq(Message), Len(queue') <= QueueSize,
         UNCHANGED <<seq, member, pc, target, rx, current, toServer, clientVars>>
  PROVE  FeedInv'
PROOF
<1>1. FeedTypeOK'
  BY DEF FeedInv, FeedTypeOK, Become, clientVars
<1>2. HeldAndShown'
  BY DEF FeedInv, HeldAndShown, Become, clientVars
<1>3. FeedsCurrent'
  <2>1. \A h \in Running' : (h = g /\ f \in Running) \/ (h \in Running /\ h # f)
    BY DEF Running, Become
  <2> QED
    BY <2>1 DEF FeedInv, FeedsCurrent
<1> QED
  BY <1>1, <1>2, <1>3 DEF FeedInv

\* What a task holds may change, and the event it takes next; nothing else does.
LEMMA ForwarderWith ==
  ASSUME NEW f \in Forwarder, NEW h \in Seq(Message), Len(h) <= 1,
         NEW g, g = [f EXCEPT !.held = h] \/ g = [f EXCEPT !.held = h, !.next = @ + 1]
  PROVE  g \in Forwarder /\ g.table = f.table /\ g.aborted = f.aborted /\ Len(g.held) <= 1
PROOF
<1>1. f.next \in Nat /\ f.next + 1 \in Nat
  BY DEF Forwarder
<1>2. CASE g = [f EXCEPT !.held = h]
  BY <1>2 DEF Forwarder
<1>3. CASE g = [f EXCEPT !.held = h, !.next = @ + 1]
  BY <1>1, <1>3 DEF Forwarder
<1> QED
  BY <1>2, <1>3

\* A task that ends, having reported that it lagged or having been aborted.
LEMMA EndInv ==
  ASSUME FeedInv, NEW f \in forwarders, forwarders' = forwarders \ {f},
         queue' \in Seq(Message), Len(queue') <= QueueSize,
         UNCHANGED <<seq, member, pc, target, rx, current, toServer, clientVars>>
  PROVE  FeedInv'
PROOF
  BY DEF FeedInv, FeedTypeOK, HeldAndShown, FeedsCurrent, Running, clientVars

\* A task takes an event or learns that it lagged, sends what it holds, or dies.
LEMMA ForwarderStepInv ==
  ASSUME FeedInv, NEW f \in forwarders, TakeEvent(f) \/ SendHeld(f) \/ Die(f)
  PROVE  FeedInv'
PROOF
<1>1. /\ f \in Forwarder /\ f.held \in Seq(Message) /\ Len(f.held) <= 1
      /\ f.next \in Nat /\ f.table \in Table
      /\ queue \in Seq(Message) /\ Len(queue) <= QueueSize
  BY DEF FeedInv, FeedTypeOK, HeldAndShown, Forwarder
<1>2. CASE TakeEvent(f)
  <2> DEFINE lagged == [kind |-> "lagged", table |-> f.table, n |-> 0]
             event  == [kind |-> "event", table |-> f.table, n |-> f.next]
  <2>1. lagged \in Message /\ event \in Message
    BY <1>1 DEF Message
  <2>2. /\ \/ Become(f, [f EXCEPT !.held = <<lagged>>])
           \/ Become(f, [f EXCEPT !.held = <<event>>, !.next = @ + 1])
        /\ UNCHANGED <<seq, member, pc, target, rx, current, queue, toServer, clientVars>>
    BY <1>2 DEF TakeEvent
  <2> HIDE DEF lagged, event
  <2>3. /\ <<lagged>> \in Seq(Message) /\ Len(<<lagged>>) = 1
        /\ <<event>> \in Seq(Message) /\ Len(<<event>>) = 1
    BY <2>1
  <2>4. ASSUME NEW h \in Seq(Message), Len(h) <= 1, NEW g, Become(f, g),
               g = [f EXCEPT !.held = h] \/ g = [f EXCEPT !.held = h, !.next = @ + 1]
        PROVE  FeedInv'
    <3>1. /\ g \in Forwarder /\ g.table = f.table /\ g.aborted = f.aborted
          /\ Len(g.held) <= 1
      BY <1>1, <2>4, ForwarderWith
    <3> QED
      BY <1>1, <2>2, <2>4, <3>1, BecomeInv
  <2>5. CASE Become(f, [f EXCEPT !.held = <<lagged>>])
    <3> DEFINE h == <<lagged>>
    <3>1. h \in Seq(Message) /\ Len(h) <= 1 /\ Become(f, [f EXCEPT !.held = h])
      BY <2>3, <2>5
    <3> HIDE DEF h
    <3> QED
      BY <2>4, <3>1
  <2>6. CASE Become(f, [f EXCEPT !.held = <<event>>, !.next = @ + 1])
    <3> DEFINE h == <<event>>
    <3>1. /\ h \in Seq(Message) /\ Len(h) <= 1
          /\ Become(f, [f EXCEPT !.held = h, !.next = @ + 1])
      BY <2>3, <2>6
    <3> HIDE DEF h
    <3> QED
      BY <2>4, <3>1
  <2> QED
    BY <2>2, <2>5, <2>6
<1>3. CASE SendHeld(f)
  <2>1. /\ queue' = queue \o f.held /\ Len(queue) < QueueSize
        /\ UNCHANGED <<seq, member, pc, target, rx, current, toServer, clientVars>>
        /\ forwarders' = forwarders \ {f} \/ Become(f, [f EXCEPT !.held = <<>>])
    BY <1>3 DEF SendHeld
  <2>2. queue' \in Seq(Message) /\ Len(queue') <= QueueSize
    BY <1>1, <2>1
  <2>3. <<>> \in Seq(Message) /\ Len(<<>>) = 0
    OBVIOUS
  <2>4. CASE forwarders' = forwarders \ {f}
    BY <2>1, <2>2, <2>4, EndInv
  <2>5. ASSUME NEW h, h = <<>>, NEW g, g = [f EXCEPT !.held = h], Become(f, g)
        PROVE  FeedInv'
    <3>1. h \in Seq(Message) /\ Len(h) <= 1
      BY <2>3, <2>5
    <3>2. /\ g \in Forwarder /\ g.table = f.table /\ g.aborted = f.aborted
          /\ Len(g.held) <= 1
      BY <1>1, <2>5, <3>1, ForwarderWith
    <3> QED
      BY <2>1, <2>2, <2>5, <3>2, BecomeInv
  <2> QED
    BY <2>1, <2>4, <2>5
<1>4. CASE Die(f)
  BY <1>1, <1>4, EndInv DEF Die
<1> QED
  BY <1>2, <1>3, <1>4

\* A table publishes, or forgets who only watches.
LEMMA TableInv ==
  ASSUME FeedInv, NEW t \in Table, Publish(t) \/ ResetRound(t)
  PROVE  FeedInv'
PROOF
<1>1. seq' \in [Table -> Nat] /\ member' \in SUBSET Table
  <2>1. seq' \in [Table -> Nat]
    BY BroadcastType DEF Publish, ResetRound, FeedInv, FeedTypeOK
  <2> QED
    BY <2>1 DEF Publish, ResetRound, FeedInv, FeedTypeOK
<1> QED
  BY <1>1, ElsewhereInv
  DEF Publish, ResetRound, clientVars, FeedInv, FeedTypeOK, HeldAndShown

\* A command more on its way.
LEMMA SendType ==
  ASSUME FeedInv, NEW c \in Command, Send(c)
  PROVE  toServer' \in Seq(Command)
PROOF
  BY DEF Send, FeedInv, FeedTypeOK

\* The keys of the client.
LEMMA KeysInv ==
  ASSUME FeedInv, BackToLobby \/ \E t \in Table : EnterTable(t)
  PROVE  FeedInv'
PROOF
<1>1. CASE BackToLobby
  <2> DEFINE c == [kind |-> "LeaveTable", table |-> view.table]
  <2>1. c \in Command
    BY <1>1 DEF BackToLobby, FeedInv, HeldAndShown, Screen, Command
  <2>2. Send(c) /\ view' = NoView /\ UNCHANGED <<serverVars, inbox, events>>
    BY <1>1 DEF BackToLobby
  <2> HIDE DEF c
  <2>3. toServer' \in Seq(Command)
    BY <2>1, <2>2, SendType
  <2> QED
    BY <2>2, <2>3, ElsewhereInv DEF serverVars, FeedInv, FeedTypeOK, Screen
<1>2. ASSUME NEW t \in Table, EnterTable(t) PROVE FeedInv'
  <2> DEFINE c == [kind |-> "JoinTable", table |-> t]
  <2>1. c \in Command
    BY DEF Command
  <2>2. Send(c) /\ UNCHANGED <<serverVars, clientVars>>
    BY <1>2 DEF EnterTable
  <2> HIDE DEF c
  <2>3. toServer' \in Seq(Command)
    BY <2>1, <2>2, SendType
  <2> QED
    BY <2>2, <2>3, ElsewhereInv
    DEF serverVars, clientVars, FeedInv, FeedTypeOK, HeldAndShown
<1> QED
  BY <1>1, <1>2

\* A message of the server opens a table screen, is queued or is only logged.
LEMMA ReceiveMessageInv ==
  ASSUME FeedInv, ReceiveMessage
  PROVE  FeedInv'
PROOF
<1> DEFINE m == Head(inbox)
<1>1. m \in Message /\ Tail(inbox) \in Seq(Message) /\ Len(Tail(inbox)) <= SocketSize
  BY HeadTailProperties DEF ReceiveMessage, FeedInv, FeedTypeOK
<1>2. /\ inbox' = Tail(inbox) /\ UNCHANGED <<serverVars, toServer>>
      /\ \/ events' = <<>> /\ view' = [table |-> m.table, base |-> m.n, shown |-> <<>>]
         \/ events' = Append(events, m) /\ UNCHANGED view
         \/ UNCHANGED <<events, view>>
  BY DEF ReceiveMessage
<1> HIDE DEF m
<1>3. events' \in Seq(Message)
  <2>1. events \in Seq(Message)
    BY DEF FeedInv, FeedTypeOK
  <2>2. Append(events, m) \in Seq(Message) /\ <<>> \in Seq(Message)
    BY <1>1, <2>1
  <2> QED
    BY <1>2, <2>1, <2>2
<1>4. [table |-> m.table, base |-> m.n, shown |-> <<>>] \in Screen
  BY <1>1 DEF Screen, Message
<1>5. view' \in Screen
  BY <1>2, <1>4 DEF FeedInv, HeldAndShown
<1> QED
  BY <1>1, <1>2, <1>3, <1>5, ElsewhereInv DEF serverVars, FeedInv, FeedTypeOK

\* An event is applied to the screen.
LEMMA TickInv ==
  ASSUME FeedInv, Tick
  PROVE  FeedInv'
PROOF
<1>1. Head(events) \in Message /\ Tail(events) \in Seq(Message)
  BY HeadTailProperties DEF Tick, FeedInv, FeedTypeOK
<1>2. view \in Screen
  BY DEF FeedInv, HeldAndShown
<1>3. ASSUME view # NoView, view' = [view EXCEPT !.shown = Append(@, Head(events))]
      PROVE  view' \in Screen
  <2>1. view \in [table : Table, base : Nat, shown : Seq(Message)]
    BY <1>2, <1>3 DEF Screen
  <2>2. Append(view.shown, Head(events)) \in Seq(Message)
    BY <1>1, <2>1
  <2> QED
    BY <1>3, <2>1, <2>2 DEF Screen
<1>4. view' \in Screen
  BY <1>2, <1>3 DEF Tick
<1> QED
  BY <1>1, <1>4, ElsewhereInv DEF Tick, serverVars, FeedInv, FeedTypeOK

\* FeedInv is inductive.
LEMMA StepInv == FeedInv /\ [Next]_vars => FeedInv'
PROOF
<1> SUFFICES ASSUME FeedInv, [Next]_vars PROVE FeedInv'
  OBVIOUS
<1>1. CASE Handler
  BY <1>1, HandlerInv
<1>2. CASE ForwardToSocket
  BY <1>2, ForwardToSocketInv
<1>3. CASE ForwarderStep
  BY <1>3, ForwarderStepInv DEF ForwarderStep
<1>4. CASE BackToLobby \/ \E t \in Table : EnterTable(t)
  BY <1>4, KeysInv
<1>5. CASE \E t \in Table : Publish(t) \/ ResetRound(t)
  BY <1>5, TableInv
<1>6. CASE ReceiveMessage
  BY <1>6, ReceiveMessageInv
<1>7. CASE Tick
  BY <1>7, TickInv
<1>8. CASE UNCHANGED vars
  BY <1>8 DEF vars, serverVars, clientVars, FeedInv, FeedTypeOK, HeldAndShown, FeedsCurrent, Running
<1> QED
  BY <1>1, <1>2, <1>3, <1>4, <1>5, <1>6, <1>7, <1>8 DEF Next

\* Two tasks that run would be the same one.
LEMMA OneFeedOfInv == FeedInv => OneFeed
PROOF
<1> SUFFICES ASSUME FeedInv PROVE OneFeed
  OBVIOUS
<1>1. Cardinality(Running) <= 1
  <2>1. CASE Running = {}
    BY <2>1, FS_EmptySet
  <2>2. CASE Running # {}
    <3>1. PICK f : Running = {f}
      BY <2>2 DEF FeedInv, FeedsCurrent
    <3> QED
      BY <3>1, FS_Singleton
  <2> QED
    BY <2>1, <2>2
<1> QED
  BY <1>1 DEF OneFeed, FeedInv, FeedsCurrent

-----------------------------------------------------------------------------
(***************************************************************************)
(* What a feed owes the screen.  No message says that it is the next one, so *)
(* the invariant names, for every event a task has taken since the snapshot, *)
(* the place where the event is on its way.                                 *)
(***************************************************************************)

\* The snapshot the screen was made from, as the message it was.
Opening == [kind |-> "snapshot", table |-> view.table, n |-> view.base]

\* What the screen shows and what is on its way, the snapshot first.
Screened == <<Opening>> \o OnTheWay

\* Messages, and what stands for the lobby.
Signal == [kind : {"event", "snapshot", "lagged"}, table : Table \cup {NoTable}, n : Nat]

\* The screen will be made anew from message i, and from none after it.
LastSnapshot(ms, i) ==
  /\ ms[i].kind = "snapshot"
  /\ \A j \in DOMAIN ms : j > i => ms[j].kind # "snapshot"

\* After message i come all events from its number on up to k, in this order, among
\* whatever else there is.
Chain(ms, i, t, k) ==
  \E h \in [ms[i].n + 1 .. k -> DOMAIN ms] :
    \A j \in ms[i].n + 1 .. k :
      /\ h[j] > i
      /\ ms[h[j]] = [kind |-> "event", table |-> t, n |-> j]
      /\ \A l \in ms[i].n + 1 .. k : l < j => h[l] < h[j]

\* If the last snapshot is one of table t, the events up to k follow it.
Carries(ms, t, k) ==
  \A i \in DOMAIN ms : LastSnapshot(ms, i) /\ ms[i].table = t => Chain(ms, i, t, k)

\* The task that feeds the connection, or the one about to be started.
Feeding ==
  IF pc = "idle" THEN Running
  ELSE IF pc = "spawn" THEN {NewForwarder(target, rx)}
  ELSE {}

\* Whatever a task has taken follows the last snapshot of its table.
NothingLost == \A f \in Feeding : Carries(Screened \o f.held, f.table, f.next - 1)

\* The receiver exists before the snapshot is taken, and the old task is gone by then.
InTime ==
  /\ pc \in {"join", "snapshot"} => rx <= seq[target] + 1
  /\ pc \in {"subscribe", "join", "snapshot", "spawn"} => current = NoTable

NoSnapshotIn(ms) == \A i \in DOMAIN ms : ms[i].kind # "snapshot"

\* Snapshots take the short way and are never queued behind events.
SnapshotsInInbox ==
  /\ NoSnapshotIn(view.shown) /\ NoSnapshotIn(events) /\ NoSnapshotIn(queue)
  /\ \A f \in forwarders : NoSnapshotIn(f.held)

\* The inductive invariant of NothingMissed.
FollowInv == FeedInv /\ NothingLost /\ InTime /\ SnapshotsInInbox

-----------------------------------------------------------------------------

\* The events after the last snapshot of ms are, in the same order, in ns after it.
Keeps(ms, ns, t, e) ==
  \A i \in DOMAIN ns : LastSnapshot(ns, i) /\ ns[i].table = t =>
    \E l \in DOMAIN ms :
      /\ LastSnapshot(ms, l) /\ ms[l] = ns[i]
      /\ \A x \in DOMAIN ms : x > l /\ ms[x].kind = "event" =>
           /\ e[x] \in DOMAIN ns /\ e[x] > i /\ ns[e[x]] = ms[x]
           /\ \A y \in DOMAIN ms : y > l /\ ms[y].kind = "event" /\ y < x => e[y] < e[x]

\* Then ns carries them as well.
LEMMA KeepsCarries ==
  ASSUME NEW ms \in Seq(Signal), NEW ns \in Seq(Signal), NEW t, NEW k, NEW e,
         Keeps(ms, ns, t, e), Carries(ms, t, k)
  PROVE  Carries(ns, t, k)
PROOF
<1> SUFFICES ASSUME NEW i \in DOMAIN ns, LastSnapshot(ns, i), ns[i].table = t
             PROVE  Chain(ns, i, t, k)
  BY DEF Carries
<1>1. PICK l \in DOMAIN ms :
        /\ LastSnapshot(ms, l) /\ ms[l] = ns[i]
        /\ \A x \in DOMAIN ms : x > l /\ ms[x].kind = "event" =>
             /\ e[x] \in DOMAIN ns /\ e[x] > i /\ ns[e[x]] = ms[x]
             /\ \A y \in DOMAIN ms : y > l /\ ms[y].kind = "event" /\ y < x => e[y] < e[x]
  BY DEF Keeps
<1>2. Chain(ms, l, t, k)
  BY <1>1 DEF Carries
<1> DEFINE J == ms[l].n + 1 .. k
<1>3. PICK h \in [J -> DOMAIN ms] :
        \A j \in J :
          /\ h[j] > l
          /\ ms[h[j]] = [kind |-> "event", table |-> t, n |-> j]
          /\ \A x \in J : x < j => h[x] < h[j]
  BY <1>2 DEF Chain
<1> HIDE DEF J
<1>4. ASSUME NEW j \in J PROVE ms[h[j]].kind = "event" /\ h[j] \in DOMAIN ms
  <2>1. ms[h[j]] = [kind |-> "event", table |-> t, n |-> j]
    BY <1>3
  <2> QED
    BY <1>3, <2>1
<1> DEFINE g == [j \in J |-> e[h[j]]]
<1>5. g \in [J -> DOMAIN ns]
  BY <1>1, <1>3, <1>4
<1>6. \A j \in J :
        /\ g[j] > i
        /\ ns[g[j]] = [kind |-> "event", table |-> t, n |-> j]
        /\ \A x \in J : x < j => g[x] < g[j]
  BY <1>1, <1>3, <1>4
<1> HIDE DEF g
<1>7. J = ns[i].n + 1 .. k
  BY <1>1 DEF J
<1> QED
  BY <1>5, <1>6, <1>7 DEF Chain

\* Messages that are neither snapshots nor errors may come in between, and errors may
\* disappear: a client that waits for the next event does not mind.
LEMMA CarriesReplaced ==
  ASSUME NEW a \in Seq(Signal), NEW b \in Seq(Signal), NEW c \in Seq(Signal), NEW d \in Seq(Signal),
         \A x \in DOMAIN c : c[x].kind = "lagged", NoSnapshotIn(d),
         NEW t, NEW k, Carries((a \o c) \o b, t, k)
  PROVE  Carries((a \o d) \o b, t, k)
PROOF
<1> DEFINE ms == (a \o c) \o b
           ns == (a \o d) \o b
           e == [x \in DOMAIN ms |-> IF x <= Len(a) THEN x ELSE x - Len(c) + Len(d)]
<1>1. /\ ms \in Seq(Signal) /\ ns \in Seq(Signal)
      /\ Len(ms) = Len(a) + Len(c) + Len(b) /\ Len(ns) = Len(a) + Len(d) + Len(b)
      /\ DOMAIN ms = 1..Len(ms) /\ DOMAIN ns = 1..Len(ns)
      /\ Len(a) \in Nat /\ Len(b) \in Nat /\ Len(c) \in Nat /\ Len(d) \in Nat
  OBVIOUS
<1>2. /\ \A x \in 1..Len(a) : ms[x] = a[x] /\ ns[x] = a[x]
      /\ \A x \in 1..Len(c) : ms[Len(a) + x] = c[x]
      /\ \A x \in 1..Len(d) : ns[Len(a) + x] = d[x]
      /\ \A x \in 1..Len(b) : ms[Len(a) + Len(c) + x] = b[x] /\ ns[Len(a) + Len(d) + x] = b[x]
  OBVIOUS
<1>3. \A x \in DOMAIN ms : x > Len(a) /\ ms[x].kind # "lagged" =>
        /\ x > Len(a) + Len(c)
        /\ x - Len(c) + Len(d) \in DOMAIN ns
        /\ ns[x - Len(c) + Len(d)] = ms[x]
  <2> HIDE DEF ms, ns
  <2> SUFFICES ASSUME NEW x \in DOMAIN ms, x > Len(a), ms[x].kind # "lagged"
               PROVE  /\ x > Len(a) + Len(c)
                      /\ x - Len(c) + Len(d) \in DOMAIN ns
                      /\ ns[x - Len(c) + Len(d)] = ms[x]
    OBVIOUS
  <2>1. x > Len(a) + Len(c)
    <3> SUFFICES ASSUME x <= Len(a) + Len(c) PROVE FALSE
      BY <1>1
    <3>1. x - Len(a) \in 1..Len(c) /\ x = Len(a) + (x - Len(a))
      BY <1>1
    <3>2. ms[x] = c[x - Len(a)]
      BY <1>2, <3>1
    <3> QED
      BY <3>1, <3>2
  <2>2. x - Len(a) - Len(c) \in 1..Len(b)
    BY <1>1, <2>1
  <2>3. ms[Len(a) + Len(c) + (x - Len(a) - Len(c))] = b[x - Len(a) - Len(c)]
        /\ ns[Len(a) + Len(d) + (x - Len(a) - Len(c))] = b[x - Len(a) - Len(c)]
    BY <1>2, <2>2
  <2>4. /\ Len(a) + Len(c) + (x - Len(a) - Len(c)) = x
        /\ Len(a) + Len(d) + (x - Len(a) - Len(c)) = x - Len(c) + Len(d)
    BY <1>1
  <2>5. x - Len(c) + Len(d) \in DOMAIN ns
    BY <1>1, <2>1
  <2>6. ns[x - Len(c) + Len(d)] = ms[x]
    BY <2>3, <2>4
  <2> QED
    BY <2>1, <2>5, <2>6
<1>4. \A i \in DOMAIN ns : i > Len(a) /\ ns[i].kind = "snapshot" =>
        /\ i > Len(a) + Len(d)
        /\ i - Len(d) + Len(c) \in DOMAIN ms
        /\ ms[i - Len(d) + Len(c)] = ns[i]
  <2> HIDE DEF ms, ns
  <2> SUFFICES ASSUME NEW x \in DOMAIN ns, x > Len(a), ns[x].kind = "snapshot"
               PROVE  /\ x > Len(a) + Len(d)
                      /\ x - Len(d) + Len(c) \in DOMAIN ms
                      /\ ms[x - Len(d) + Len(c)] = ns[x]
    OBVIOUS
  <2>1. x > Len(a) + Len(d)
    <3> SUFFICES ASSUME x <= Len(a) + Len(d) PROVE FALSE
      BY <1>1
    <3>1. x - Len(a) \in 1..Len(d) /\ x = Len(a) + (x - Len(a))
      BY <1>1
    <3>2. ns[x] = d[x - Len(a)]
      BY <1>2, <3>1
    <3> QED
      BY <3>1, <3>2 DEF NoSnapshotIn
  <2>2. x - Len(a) - Len(d) \in 1..Len(b)
    BY <1>1, <2>1
  <2>3. ms[Len(a) + Len(c) + (x - Len(a) - Len(d))] = b[x - Len(a) - Len(d)]
        /\ ns[Len(a) + Len(d) + (x - Len(a) - Len(d))] = b[x - Len(a) - Len(d)]
    BY <1>2, <2>2
  <2>4. /\ Len(a) + Len(d) + (x - Len(a) - Len(d)) = x
        /\ Len(a) + Len(c) + (x - Len(a) - Len(d)) = x - Len(d) + Len(c)
    BY <1>1
  <2>5. x - Len(d) + Len(c) \in DOMAIN ms
    BY <1>1, <2>1
  <2>6. ms[x - Len(d) + Len(c)] = ns[x]
    BY <2>3, <2>4
  <2> QED
    BY <2>1, <2>5, <2>6
<1>5. Keeps(ms, ns, t, e)
  <2> SUFFICES ASSUME NEW i \in DOMAIN ns, LastSnapshot(ns, i)
               PROVE  \E l \in DOMAIN ms :
                        /\ LastSnapshot(ms, l) /\ ms[l] = ns[i]
                        /\ \A x \in DOMAIN ms : x > l /\ ms[x].kind = "event" =>
                             /\ e[x] \in DOMAIN ns /\ e[x] > i /\ ns[e[x]] = ms[x]
                             /\ \A y \in DOMAIN ms :
                                  y > l /\ ms[y].kind = "event" /\ y < x => e[y] < e[x]
    BY DEF Keeps
  <2> DEFINE l == IF i <= Len(a) THEN i ELSE i - Len(d) + Len(c)
  <2> HIDE DEF ms, ns
  <2>1. l \in DOMAIN ms /\ ms[l] = ns[i]
    BY <1>1, <1>2, <1>4 DEF LastSnapshot
  <2>2. ASSUME NEW x \in DOMAIN ms, x > l, ms[x].kind # "lagged"
        PROVE  /\ e[x] \in DOMAIN ns /\ e[x] > i /\ ns[e[x]] = ms[x]
               /\ x <= Len(a) \/ x > Len(a) + Len(c)
    <3>1. CASE x <= Len(a)
      <4>1. i <= Len(a)
        <5> SUFFICES ASSUME i > Len(a) PROVE FALSE
          BY <1>1
        <5>1. i > Len(a) + Len(d) /\ l = i - Len(d) + Len(c)
          BY <1>1, <1>4 DEF LastSnapshot
        <5> QED
          BY <1>1, <2>2, <3>1, <5>1
      <4>2. e[x] = x /\ x > i
        BY <2>2, <3>1, <4>1
      <4> QED
        BY <1>1, <1>2, <3>1, <4>2
    <3>2. CASE x > Len(a)
      <4>1. e[x] = x - Len(c) + Len(d)
        BY <1>1, <3>2
      <4>2. x > Len(a) + Len(c) /\ e[x] \in DOMAIN ns /\ ns[e[x]] = ms[x]
        BY <1>3, <2>2, <3>2, <4>1
      <4>3. CASE i <= Len(a)
        BY <1>1, <4>1, <4>2, <4>3
      <4>4. CASE i > Len(a)
        BY <1>1, <2>2, <4>1, <4>2, <4>4
      <4> QED
        BY <1>1, <4>2, <4>3, <4>4
    <3> QED
      BY <1>1, <3>1, <3>2
  <2>3. LastSnapshot(ms, l)
    <3> SUFFICES ASSUME NEW x \in DOMAIN ms, x > l, ms[x].kind = "snapshot" PROVE FALSE
      BY <2>1 DEF LastSnapshot
    <3> HIDE DEF e, l
    <3> QED
      BY <2>2 DEF LastSnapshot
  <2>4. ASSUME NEW x \in DOMAIN ms, NEW y \in DOMAIN ms, x > l, y > l, y < x,
               ms[x].kind = "event", ms[y].kind = "event"
        PROVE  e[y] < e[x]
    BY <1>1, <2>2, <2>4
  <2> HIDE DEF e, l
  <2> QED
    BY <2>1, <2>2, <2>3, <2>4
<1> HIDE DEF ms, ns, e
<1>6. Carries(ms, t, k)
  BY DEF ms
<1> QED
  BY <1>1, <1>5, <1>6, KeepsCarries DEF ns

\* What came before the last snapshot does not matter.
LEMMA CarriesFrom ==
  ASSUME NEW a \in Seq(Signal), NEW b \in Seq(Signal), NEW c \in Seq(Signal), NEW t, NEW k,
         \A x \in DOMAIN c : c[x].kind = "snapshot" => c[x].table # t,
         Carries(a \o b, t, k)
  PROVE  Carries(c \o b, t, k)
PROOF
<1> DEFINE ms == a \o b
           ns == c \o b
           e == [x \in DOMAIN ms |-> x - Len(a) + Len(c)]
<1>1. /\ ms \in Seq(Signal) /\ ns \in Seq(Signal)
      /\ Len(ms) = Len(a) + Len(b) /\ Len(ns) = Len(c) + Len(b)
      /\ DOMAIN ms = 1..Len(ms) /\ DOMAIN ns = 1..Len(ns) /\ DOMAIN c = 1..Len(c)
      /\ Len(a) \in Nat /\ Len(b) \in Nat /\ Len(c) \in Nat
  OBVIOUS
<1>2. /\ \A x \in 1..Len(c) : ns[x] = c[x]
      /\ \A x \in 1..Len(b) : ms[Len(a) + x] = b[x] /\ ns[Len(c) + x] = b[x]
  OBVIOUS
<1> HIDE DEF ms, ns
<1>3. ASSUME NEW x \in DOMAIN ms, x > Len(a)
      PROVE  x - Len(a) + Len(c) \in DOMAIN ns /\ ns[x - Len(a) + Len(c)] = ms[x]
  <2>1. x - Len(a) \in 1..Len(b)
    BY <1>1, <1>3
  <2>2. /\ ms[Len(a) + (x - Len(a))] = b[x - Len(a)]
        /\ ns[Len(c) + (x - Len(a))] = b[x - Len(a)]
    BY <1>2, <2>1
  <2>3. Len(a) + (x - Len(a)) = x /\ Len(c) + (x - Len(a)) = x - Len(a) + Len(c)
    BY <1>1
  <2> QED
    BY <1>1, <2>1, <2>2, <2>3
<1>4. ASSUME NEW i \in DOMAIN ns, i > Len(c)
      PROVE  i - Len(c) + Len(a) \in DOMAIN ms /\ ms[i - Len(c) + Len(a)] = ns[i]
  <2>1. i - Len(c) \in 1..Len(b)
    BY <1>1, <1>4
  <2>2. /\ ms[Len(a) + (i - Len(c))] = b[i - Len(c)]
        /\ ns[Len(c) + (i - Len(c))] = b[i - Len(c)]
    BY <1>2, <2>1
  <2>3. Len(c) + (i - Len(c)) = i /\ Len(a) + (i - Len(c)) = i - Len(c) + Len(a)
    BY <1>1
  <2> QED
    BY <1>1, <2>1, <2>2, <2>3
<1>5. Keeps(ms, ns, t, e)
  <2> SUFFICES ASSUME NEW i \in DOMAIN ns, LastSnapshot(ns, i), ns[i].table = t
               PROVE  \E l \in DOMAIN ms :
                        /\ LastSnapshot(ms, l) /\ ms[l] = ns[i]
                        /\ \A x \in DOMAIN ms : x > l /\ ms[x].kind = "event" =>
                             /\ e[x] \in DOMAIN ns /\ e[x] > i /\ ns[e[x]] = ms[x]
                             /\ \A y \in DOMAIN ms :
                                  y > l /\ ms[y].kind = "event" /\ y < x => e[y] < e[x]
    BY DEF Keeps
  <2> DEFINE l == i - Len(c) + Len(a)
  <2>1. i > Len(c)
    <3>1. SUFFICES ASSUME i <= Len(c) PROVE FALSE
      BY <1>1
    <3> QED
      BY <1>1, <1>2, <3>1 DEF LastSnapshot
  <2>2. l \in DOMAIN ms /\ ms[l] = ns[i] /\ l > Len(a)
    BY <1>1, <1>4, <2>1
  <2>3. ASSUME NEW x \in DOMAIN ms, x > l
        PROVE  e[x] \in DOMAIN ns /\ e[x] > i /\ ns[e[x]] = ms[x]
    <3>1. x > Len(a) /\ e[x] = x - Len(a) + Len(c)
      BY <1>1, <2>2, <2>3
    <3> QED
      BY <1>1, <1>3, <2>3, <3>1
  <2>4. LastSnapshot(ms, l)
    <3> SUFFICES ASSUME NEW x \in DOMAIN ms, x > l, ms[x].kind = "snapshot" PROVE FALSE
      BY <2>2 DEF LastSnapshot
    <3> HIDE DEF e, l
    <3> QED
      BY <2>3 DEF LastSnapshot
  <2>5. ASSUME NEW x \in DOMAIN ms, NEW y \in DOMAIN ms, y < x
        PROVE  e[y] < e[x]
    BY <1>1, <2>5
  <2> HIDE DEF e, l
  <2> QED
    BY <2>2, <2>3, <2>4, <2>5
<1> HIDE DEF e
<1>6. Carries(ms, t, k)
  BY DEF ms
<1> QED
  BY <1>1, <1>5, <1>6, KeepsCarries DEF ns

\* The next event of the table at the end.
LEMMA CarriesNext ==
  ASSUME NEW ms \in Seq(Signal), NEW t \in Table, NEW k \in Nat, Carries(ms, t, k - 1)
  PROVE  Carries(Append(ms, [kind |-> "event", table |-> t, n |-> k]), t, k)
PROOF
<1> DEFINE m == [kind |-> "event", table |-> t, n |-> k]
           ns == Append(ms, m)
<1>1. m \in Signal
  BY DEF Signal
<1>2. m.kind = "event"
  OBVIOUS
<1> HIDE DEF m
<1>3. /\ ns \in Seq(Signal) /\ Len(ns) = Len(ms) + 1 /\ Len(ms) \in Nat
      /\ DOMAIN ms = 1..Len(ms) /\ DOMAIN ns = 1..Len(ns)
      /\ \A x \in 1..Len(ms) : ns[x] = ms[x]
      /\ ns[Len(ns)] = m
  BY <1>1
<1> HIDE DEF ns
<1> SUFFICES ASSUME NEW i \in DOMAIN ns, LastSnapshot(ns, i), ns[i].table = t
             PROVE  Chain(ns, i, t, k)
  BY DEF Carries, ns, m
<1>4. i \in DOMAIN ms /\ ms[i] = ns[i]
  BY <1>2, <1>3 DEF LastSnapshot
<1>5. LastSnapshot(ms, i)
  BY <1>3, <1>4 DEF LastSnapshot
<1>6. Chain(ms, i, t, k - 1)
  BY <1>4, <1>5 DEF Carries
<1>7. ms[i].n \in Nat
  <2>1. ms[i] \in Signal
    BY <1>4
  <2> QED
    BY <2>1 DEF Signal
<1> DEFINE J == ms[i].n + 1 .. k - 1
           K == ms[i].n + 1 .. k
<1>8. PICK h \in [J -> DOMAIN ms] :
        \A j \in J :
          /\ h[j] > i
          /\ ms[h[j]] = [kind |-> "event", table |-> t, n |-> j]
          /\ \A l \in J : l < j => h[l] < h[j]
  BY <1>6 DEF Chain
<1>9. \A j \in K : j = k \/ (j \in J /\ j < k)
  BY <1>7
<1> HIDE DEF J, K
<1> DEFINE g == [j \in K |-> IF j = k THEN Len(ns) ELSE h[j]]
<1>10. g \in [K -> DOMAIN ns]
  <2> SUFFICES ASSUME NEW j \in K PROVE (IF j = k THEN Len(ns) ELSE h[j]) \in DOMAIN ns
    OBVIOUS
  <2>1. CASE j = k
    BY <1>3, <2>1
  <2>2. CASE j # k
    <3>1. h[j] \in DOMAIN ms
      BY <1>8, <1>9, <2>2
    <3> QED
      BY <1>3, <2>2, <3>1
  <2> QED
    BY <2>1, <2>2
<1>11. ASSUME NEW j \in K, j # k
       PROVE  g[j] = h[j] /\ h[j] \in 1..Len(ms) /\ j \in J
  BY <1>3, <1>8, <1>9, <1>11
<1>12. k \in K => g[k] = Len(ns)
  OBVIOUS
<1> HIDE DEF g
<1>13. ASSUME NEW j \in K
       PROVE  /\ g[j] > i
              /\ ns[g[j]] = [kind |-> "event", table |-> t, n |-> j]
              /\ \A l \in K : l < j => g[l] < g[j]
  <2>1. CASE j = k
    <3>1. g[j] = Len(ns) /\ ns[g[j]] = m
      BY <1>3, <1>12, <2>1
    <3>2. g[j] > i
      BY <1>3, <1>4, <3>1
    <3>3. \A l \in K : l < j => l # k
      BY <1>9, <2>1
    <3>4. \A l \in K : l < j => g[l] < g[j]
      BY <1>3, <1>11, <3>1, <3>3
    <3> QED
      BY <2>1, <3>1, <3>2, <3>4 DEF m
  <2>2. CASE j # k
    <3>1. g[j] = h[j] /\ h[j] \in 1..Len(ms) /\ j \in J /\ j < k
      BY <1>9, <1>11, <2>2
    <3>2. h[j] > i /\ ms[h[j]] = [kind |-> "event", table |-> t, n |-> j]
      BY <1>8, <3>1
    <3>3. ASSUME NEW l \in K, l < j PROVE g[l] < g[j]
      <4>1. l # k
        BY <1>7, <3>1, <3>3 DEF K, J
      <4>2. g[l] = h[l] /\ l \in J
        BY <1>11, <4>1
      <4> QED
        BY <1>8, <3>1, <3>3, <4>2
    <3> QED
      BY <1>3, <3>1, <3>2, <3>3
  <2> QED
    BY <2>1, <2>2
<1>14. K = ns[i].n + 1 .. k
  BY <1>4 DEF K
<1> QED
  BY <1>10, <1>13, <1>14 DEF Chain

\* The fold of Reached walks through the messages from first to last.
LEMMA ReachedWalk ==
  ASSUME view.base \in Nat, NEW ms \in Seq(Message)
  PROVE  \E p \in [0..Len(ms) -> Nat] :
           /\ p[0] = view.base
           /\ \A k \in 1..Len(ms) : p[k] = Follow(ms[k], p[k - 1])
           /\ Reached(ms) = p[Len(ms)]
PROOF
<1> DEFINE n == Len(ms)
           G == [xv \in (1..n) \X Nat |-> Follow(ms[xv[1]], xv[2])]
           Eqn(g) == g = [T \in SUBSET (1..n) |->
                            IF T = {} THEN view.base
                            ELSE Follow(ms[Max(T)], g[T \ {Max(T)}])]
           h == CHOOSE g : Eqn(g)
<1>1. n \in Nat /\ DOMAIN ms = 1..n
  OBVIOUS
<1>2. Reached(ms) = h[1..n]
  BY <1>1 DEF Reached, FoldLeft, MapThenFoldSet
<1>3. \A x \in 1..n, v \in Nat : G[<<x, v>>] = Follow(ms[x], v) /\ G[<<x, v>>] \in Nat
  <2>1. \A x \in 1..n : ms[x] \in Message
    OBVIOUS
  <2>2. \A x \in 1..n, v \in Nat : Follow(ms[x], v) \in Nat
    BY <2>1 DEF Follow, Message
  <2> QED
    BY <2>2
<1>4. \A T \in SUBSET (1..n) : T # {} => Max(T) \in 1..n
  <2> HIDE DEF n
  <2> QED
    BY <1>1, MaxIsMember
<1>5. PICK g : g \in [SUBSET (1..n) -> Nat] /\ Recurs(g, G, n, Nat, view.base)
  <2> HIDE DEF n, G
  <2>1. Steps(G, n, Nat, view.base)
    BY <1>1, <1>3 DEF Steps
  <2> QED
    BY <2>1, RecursionOnIndices
<1>6. Eqn(g)
  <2>1. \A T \in SUBSET (1..n) : T # {} => g[T] = Follow(ms[Max(T)], g[T \ {Max(T)}])
    <3> HIDE DEF n, G
    <3> QED
      BY <1>3, <1>4, <1>5 DEF Recurs
  <2> QED
    BY <1>5, <2>1 DEF Recurs
<1>7. Eqn(h)
  <2> HIDE DEF Eqn
  <2> QED
    BY <1>6
<1> HIDE DEF h
<1>8. /\ h[{}] = view.base
      /\ \A T \in SUBSET (1..n) : T # {} => h[T] = Follow(ms[Max(T)], h[T \ {Max(T)}])
  BY <1>7
<1> HIDE DEF G, n
<1>9. PICK p : Walks(p, G, n, Nat, view.base) /\ h[1..n] = p[n]
  <2>1. Steps(G, n, Nat, view.base)
    BY <1>1, <1>3 DEF Steps
  <2>2. Recurs(h, G, n, Nat, view.base)
    BY <1>3, <1>4, <1>8 DEF Recurs
  <2> QED
    BY <2>1, <2>2, FoldWalk
<1>10. ASSUME NEW k \in 1..n PROVE p[k] = Follow(ms[k], p[k - 1])
  <2>1. k - 1 \in 0..n
    BY <1>1
  <2> QED
    BY <1>3, <1>9, <2>1 DEF Walks
<1> QED
  BY <1>2, <1>9, <1>10 DEF n, Walks

\* A client that applies an event only if it is the next one gets as far as the events
\* that follow its snapshot.
LEMMA CarriesReached ==
  ASSUME view.base \in Nat, view.table \in Table, NEW ms \in Seq(Message), NoSnapshotIn(ms),
         NEW k \in Int, Carries(<<Opening>> \o ms, view.table, k)
  PROVE  Reached(ms) >= k /\ Reached(ms) \in Int
PROOF
<1> DEFINE ns == <<Opening>> \o ms
           n == Len(ms)
           J == view.base + 1 .. k
<1>1. /\ n \in Nat /\ DOMAIN ms = 1..n /\ DOMAIN ns = 1..(n + 1)
      /\ \A x \in 1..n : ns[x + 1] = ms[x]
      /\ ns[1] = Opening
  OBVIOUS
<1>2. PICK p \in [0..n -> Nat] :
           /\ p[0] = view.base
           /\ \A x \in 1..n : p[x] = Follow(ms[x], p[x - 1])
           /\ Reached(ms) = p[n]
  BY ReachedWalk
<1> HIDE DEF n, ns
<1>3. LastSnapshot(ns, 1) /\ 1 \in DOMAIN ns /\ ns[1].table = view.table /\ ns[1].n = view.base
  <2>1. ASSUME NEW j \in DOMAIN ns, j > 1 PROVE ns[j].kind # "snapshot"
    <3>1. j - 1 \in 1..n /\ (j - 1) + 1 = j
      BY <1>1, <2>1
    <3>2. ns[j] = ms[j - 1]
      BY <1>1, <3>1
    <3> QED
      BY <1>1, <3>1, <3>2 DEF NoSnapshotIn
  <2> QED
    BY <1>1, <2>1 DEF LastSnapshot, Opening
<1>4. Chain(ns, 1, view.table, k)
  BY <1>3 DEF Carries, ns
<1>5. PICK h \in [J -> DOMAIN ns] :
        \A j \in J :
          /\ h[j] > 1
          /\ ns[h[j]] = [kind |-> "event", table |-> view.table, n |-> j]
          /\ \A l \in J : l < j => h[l] < h[j]
  BY <1>3, <1>4 DEF Chain
<1> DEFINE g == [j \in J |-> h[j] - 1]
<1>6. ASSUME NEW j \in J
      PROVE  /\ j \in Int /\ j >= view.base + 1 /\ j <= k
             /\ g[j] \in 1..n
             /\ ms[g[j]] = [kind |-> "event", table |-> view.table, n |-> j]
             /\ \A l \in J : l < j => g[l] < g[j]
  <2>1. h[j] \in 1..(n + 1) /\ h[j] > 1
    BY <1>1, <1>5
  <2>2. g[j] = h[j] - 1 /\ g[j] \in 1..n /\ g[j] + 1 = h[j]
    <3>1. g[j] = h[j] - 1
      OBVIOUS
    <3> HIDE DEF g, J
    <3> QED
      BY <1>1, <2>1, <3>1
  <2>3. ms[g[j]] = ns[h[j]]
    BY <1>1, <2>2
  <2>4. ASSUME NEW l \in J, l < j PROVE g[l] < g[j]
    <3>1. h[l] < h[j] /\ h[l] \in 1..(n + 1)
      BY <1>1, <1>5, <2>4
    <3>2. g[l] = h[l] - 1
      OBVIOUS
    <3> QED
      BY <1>1, <2>1, <2>2, <3>1, <3>2
  <2>5. j \in Int /\ j >= view.base + 1 /\ j <= k
    OBVIOUS
  <2> HIDE DEF g
  <2> QED
    BY <1>5, <2>2, <2>3, <2>4, <2>5
<1> HIDE DEF g
<1>7. ASSUME NEW x \in 1..n
      PROVE  /\ x - 1 \in 0..n /\ x \in 0..n /\ p[x] >= p[x - 1]
             /\ \A j \in J : ms[x] = [kind |-> "event", table |-> view.table, n |-> j]
                             /\ p[x - 1] >= j - 1 => p[x] >= j
  <2>1. x - 1 \in 0..n /\ x \in 0..n
    BY <1>1
  <2>2. p[x - 1] \in Nat /\ p[x] \in Nat /\ p[x] = Follow(ms[x], p[x - 1])
    BY <1>2, <2>1
  <2>3. ASSUME NEW j \in J, ms[x] = [kind |-> "event", table |-> view.table, n |-> j],
               p[x - 1] >= j - 1
        PROVE  p[x] >= j
    <3>1. ms[x].kind = "event" /\ ms[x].table = view.table /\ ms[x].n = j /\ j \in Int
      BY <2>3
    <3>2. Follow(ms[x], p[x - 1]) = IF j = p[x - 1] + 1 THEN j ELSE p[x - 1]
      BY <3>1 DEF Follow
    <3>3. p[x] = IF j = p[x - 1] + 1 THEN j ELSE p[x - 1]
      BY <2>2, <3>2
    <3> HIDE DEF J
    <3> QED
      BY <2>2, <2>3, <3>1, <3>3
  <2>4. p[x] >= p[x - 1]
    <3>1. CASE ms[x].n = p[x - 1] + 1
      BY <2>2, <3>1 DEF Follow
    <3>2. CASE ms[x].n # p[x - 1] + 1
      BY <2>2, <3>2 DEF Follow
    <3> QED
      BY <3>1, <3>2
  <2> QED
    BY <2>1, <2>3, <2>4
\* The walk is past event j once it is past the place of that event.
<1> DEFINE Past(x) == \A j \in J : g[j] <= x => p[x] >= j
           N == {x \in Nat : x <= n => Past(x) /\ p[x] >= view.base}
<1>8. 0 \in N
  <2>1. ASSUME NEW j \in J PROVE ~(g[j] <= 0)
    <3>1. g[j] \in 1..n
      BY <1>6
    <3> QED
      BY <1>1, <3>1
  <2> QED
    BY <1>2, <2>1
<1>9. ASSUME NEW x \in Nat, x \in N, x + 1 <= n PROVE Past(x + 1) /\ p[x + 1] >= view.base
  <2>1. /\ x + 1 \in 1..n /\ (x + 1) - 1 = x /\ x \in 0..n /\ x + 1 \in 0..n
        /\ p[x] \in Nat /\ p[x + 1] \in Nat
    BY <1>1, <1>2, <1>9
  <2>2. Past(x) /\ p[x] >= view.base
    BY <1>1, <1>9
  <2>3. p[x + 1] >= p[x]
    BY <1>7, <2>1
  <2>4. ASSUME NEW j \in J, g[j] <= x + 1 PROVE p[x + 1] >= j
    <3>1. j \in Int /\ j >= view.base + 1 /\ j <= k /\ g[j] \in 1..n
      BY <1>6
    <3>2. CASE g[j] <= x
      BY <2>1, <2>2, <2>3, <3>1, <3>2
    <3>3. CASE g[j] = x + 1
      <4>1. p[x] >= j - 1
        <5>1. CASE j = view.base + 1
          BY <2>1, <2>2, <5>1
        <5>2. CASE j # view.base + 1
          <6>1. j - 1 \in J /\ j - 1 < j
            BY <3>1, <5>2
          <6>2. g[j - 1] < g[j] /\ g[j - 1] \in 1..n
            BY <1>6, <6>1
          <6>3. g[j - 1] <= x
            BY <3>3, <6>2
          <6> QED
            BY <2>2, <6>1, <6>3
        <5> QED
          BY <5>1, <5>2
      <4>2. ms[x + 1] = [kind |-> "event", table |-> view.table, n |-> j]
        BY <1>6, <3>3
      <4> QED
        BY <1>7, <2>1, <4>1, <4>2
    <3> QED
      BY <2>4, <3>1, <3>2, <3>3
  <2> QED
    BY <2>1, <2>2, <2>3, <2>4
<1>10. n \in N
  <2>1. \A x \in Nat : x \in N => x + 1 \in N
    BY <1>9
  <2> HIDE DEF N
  <2> QED
    BY <1>1, <1>8, <2>1, NatInduct
<1>11. Past(n) /\ p[n] >= view.base /\ p[n] \in Nat
  BY <1>1, <1>2, <1>10
<1>12. CASE k <= view.base
  BY <1>2, <1>11, <1>12
<1>13. CASE k > view.base
  <2>1. k \in J
    BY <1>13
  <2>2. g[k] \in 1..n
    BY <1>6, <2>1
  <2>3. g[k] <= n
    BY <1>1, <2>2
  <2> QED
    BY <1>2, <1>11, <2>1, <2>3
<1> QED
  BY <1>2, <1>11, <1>12, <1>13

\* Sequences without snapshots, put together or taken apart.
LEMMA NoSnapshotKept ==
  ASSUME NEW S, NEW a \in Seq(S), NEW b \in Seq(S), NoSnapshotIn(a), NoSnapshotIn(b)
  PROVE  /\ \A m \in S : m.kind # "snapshot" => NoSnapshotIn(Append(a, m))
         /\ a # <<>> => NoSnapshotIn(Tail(a)) /\ Head(a).kind # "snapshot"
         /\ NoSnapshotIn(a \o b)
PROOF
<1>1. ASSUME NEW m \in S, m.kind # "snapshot" PROVE NoSnapshotIn(Append(a, m))
  BY <1>1 DEF NoSnapshotIn
<1>2. ASSUME a # <<>> PROVE NoSnapshotIn(Tail(a)) /\ Head(a).kind # "snapshot"
  <2>1. /\ Len(Tail(a)) = Len(a) - 1 /\ Tail(a) \in Seq(S) /\ Len(a) \in Nat /\ Len(a) # 0
        /\ Head(a) = a[1]
        /\ \A i \in 1..Len(Tail(a)) : Tail(a)[i] = a[i + 1] /\ i + 1 \in 1..Len(a)
    BY <1>2
  <2> QED
    BY <2>1 DEF NoSnapshotIn
<1>3. NoSnapshotIn(a \o b)
  <2> SUFFICES ASSUME NEW i \in 1..(Len(a) + Len(b)) PROVE (a \o b)[i].kind # "snapshot"
    BY DEF NoSnapshotIn
  <2>1. CASE i <= Len(a)
    BY <2>1 DEF NoSnapshotIn
  <2>2. CASE i > Len(a)
    <3>1. i - Len(a) \in 1..Len(b) /\ (a \o b)[i] = b[i - Len(a)]
      BY <2>2
    <3> QED
      BY <3>1 DEF NoSnapshotIn
  <2> QED
    BY <2>1, <2>2
<1> QED
  BY <1>1, <1>2, <1>3

\* Nothing is not a snapshot.
LEMMA NoneIsNoSnapshot == NoSnapshotIn(<<>>)
PROOF
  BY DEF NoSnapshotIn

\* SendSnapshot is the one to send a snapshot, and the client keeps none.
LEMMA SnapshotsInInboxStep ==
  ASSUME FeedInv, SnapshotsInInbox, [Next]_vars
  PROVE  SnapshotsInInbox'
PROOF
<1>1. /\ view.shown \in Seq(Message) /\ events \in Seq(Message) /\ queue \in Seq(Message)
      /\ inbox \in Seq(Message) /\ forwarders \subseteq Forwarder
      /\ <<>> \in Seq(Message)
  BY DEF FeedInv, FeedTypeOK
<1>2. ASSUME UNCHANGED <<view, events, queue>>,
             \A f \in forwarders' : f \in forwarders
                                    \/ (\E g \in forwarders : f.held = g.held)
                                    \/ f.held = <<>>
      PROVE  SnapshotsInInbox'
  BY <1>2, NoneIsNoSnapshot DEF SnapshotsInInbox
<1>3. \A f \in Aborted : \E g \in forwarders : f.held = g.held
  BY <1>1 DEF Aborted, Forwarder
<1>4. CASE Handler
  <2>1. UNCHANGED <<view, events, queue>>
    BY <1>4 DEF Handler, ReceiveJoinTable, LeaveOldTable, Subscribe, JoinAccepted, JoinRefused,
                SendSnapshot, SpawnForwarder, ReceiveLeaveTable, clientVars
  <2>2. \/ forwarders' = forwarders \/ forwarders' = Aborted
        \/ forwarders' = Aborted \cup {NewForwarder(target, rx)}
    BY <1>4 DEF Handler, ReceiveJoinTable, LeaveOldTable, Subscribe, JoinAccepted, JoinRefused,
                SendSnapshot, SpawnForwarder, ReceiveLeaveTable, clientVars
  <2>3. NewForwarder(target, rx).held = <<>>
    BY DEF NewForwarder
  <2> QED
    BY <1>2, <1>3, <2>1, <2>2, <2>3
<1>5. CASE ForwardToSocket
  BY <1>1, <1>5, NoSnapshotKept DEF ForwardToSocket, SnapshotsInInbox
<1>6. ASSUME NEW f \in forwarders, TakeEvent(f) PROVE SnapshotsInInbox'
  <2> DEFINE lagged == [kind |-> "lagged", table |-> f.table, n |-> 0]
             event  == [kind |-> "event", table |-> f.table, n |-> f.next]
  <2>1. NoSnapshotIn(<<lagged>>) /\ NoSnapshotIn(<<event>>)
    BY DEF NoSnapshotIn
  <2>2. /\ UNCHANGED <<view, events, queue>>
        /\ \/ Become(f, [f EXCEPT !.held = <<lagged>>])
           \/ Become(f, [f EXCEPT !.held = <<event>>, !.next = @ + 1])
    BY <1>6 DEF TakeEvent, clientVars
  <2> HIDE DEF lagged, event
  <2>3. \A g \in forwarders' : g \in forwarders \/ g.held = <<lagged>> \/ g.held = <<event>>
    <3>1. f \in Forwarder
      BY <1>1
    <3>2. [f EXCEPT !.held = <<lagged>>].held = <<lagged>>
      BY <3>1 DEF Forwarder
    <3>3. [f EXCEPT !.held = <<event>>, !.next = @ + 1].held = <<event>>
      BY <3>1 DEF Forwarder
    <3> QED
      BY <2>2, <3>2, <3>3 DEF Become
  <2> QED
    BY <2>1, <2>2, <2>3 DEF SnapshotsInInbox
<1>7. ASSUME NEW f \in forwarders, SendHeld(f) PROVE SnapshotsInInbox'
  <2>1. f \in Forwarder /\ f.held \in Seq(Message) /\ NoSnapshotIn(f.held)
    BY <1>1 DEF Forwarder, SnapshotsInInbox
  <2>2. queue' = queue \o f.held /\ UNCHANGED <<view, events>>
    BY <1>7 DEF SendHeld, clientVars
  <2>3. NoSnapshotIn(queue')
    BY <1>1, <2>1, <2>2, NoSnapshotKept DEF SnapshotsInInbox
  <2>4. \A g \in forwarders' : g \in forwarders \/ g.held = <<>>
    <3>1. [f EXCEPT !.held = <<>>].held = <<>>
      BY <2>1 DEF Forwarder
    <3> QED
      BY <1>7, <3>1 DEF SendHeld, Become
  <2> QED
    BY <2>2, <2>3, <2>4, NoneIsNoSnapshot DEF SnapshotsInInbox
<1>8. ASSUME NEW f \in forwarders, Die(f) PROVE SnapshotsInInbox'
  BY <1>8, <1>2 DEF Die, clientVars
<1>9. CASE BackToLobby
  BY <1>9, NoneIsNoSnapshot DEF BackToLobby, serverVars, SnapshotsInInbox, NoView
<1>10. CASE \E t \in Table : EnterTable(t) \/ Publish(t) \/ ResetRound(t)
  BY <1>10, <1>2 DEF EnterTable, Publish, ResetRound, serverVars, clientVars
<1>11. CASE ReceiveMessage
  <2> DEFINE m == Head(inbox)
  <2>1. m \in Message
    BY <1>1, <1>11 DEF ReceiveMessage
  <2>2. /\ UNCHANGED <<forwarders, queue>>
        /\ \/ events' = <<>> /\ view' = [table |-> m.table, base |-> m.n, shown |-> <<>>]
           \/ m.kind = "event" /\ events' = Append(events, m) /\ UNCHANGED view
           \/ UNCHANGED <<events, view>>
    BY <1>11 DEF ReceiveMessage, serverVars
  <2> HIDE DEF m
  <2>3. NoSnapshotIn(events') /\ NoSnapshotIn(view'.shown)
    <3>1. CASE events' = <<>> /\ view' = [table |-> m.table, base |-> m.n, shown |-> <<>>]
      BY <3>1, NoneIsNoSnapshot
    <3>2. CASE m.kind = "event" /\ events' = Append(events, m) /\ UNCHANGED view
      BY <1>1, <2>1, <3>2, NoSnapshotKept DEF SnapshotsInInbox
    <3>3. CASE UNCHANGED <<events, view>>
      BY <3>3 DEF SnapshotsInInbox
    <3> QED
      BY <2>2, <3>1, <3>2, <3>3
  <2> QED
    BY <2>2, <2>3 DEF SnapshotsInInbox
<1>12. CASE Tick
  <2>1. /\ events' = Tail(events) /\ events # <<>> /\ UNCHANGED <<forwarders, queue>>
        /\ UNCHANGED view \/ view' = [view EXCEPT !.shown = Append(@, Head(events))]
    BY <1>12 DEF Tick, serverVars
  <2>2. NoSnapshotIn(events') /\ Head(events).kind # "snapshot" /\ Head(events) \in Message
    BY <1>1, <2>1, NoSnapshotKept DEF SnapshotsInInbox
  <2>3. NoSnapshotIn(Append(view.shown, Head(events)))
    BY <1>1, <2>2, NoSnapshotKept DEF SnapshotsInInbox
  <2>4. NoSnapshotIn(view'.shown)
    <3>1. [view EXCEPT !.shown = Append(@, Head(events))].shown
             = Append(view.shown, Head(events))
      BY DEF FeedInv, HeldAndShown, Screen, NoView
    <3> QED
      BY <2>1, <2>3, <3>1 DEF SnapshotsInInbox
  <2> QED
    BY <2>1, <2>2, <2>4 DEF SnapshotsInInbox
<1>13. CASE UNCHANGED vars
  BY <1>13, <1>2 DEF vars, serverVars, clientVars
<1> QED
  BY <1>4, <1>5, <1>6, <1>7, <1>8, <1>9, <1>10, <1>11, <1>12, <1>13 DEF Next, ForwarderStep

\* A table forgets no event.
LEMMA SeqGrows ==
  ASSUME FeedInv, NEW t \in Table, Broadcast(t) \/ UNCHANGED seq
  PROVE  \A u \in Table : seq[u] \in Nat /\ seq'[u] \in Nat /\ seq[u] <= seq'[u]
PROOF
<1>1. seq \in [Table -> Nat]
  BY DEF FeedInv, FeedTypeOK
<1> QED
  BY <1>1 DEF Broadcast

\* JoinTable subscribes before it asks for the snapshot (ws.rs:151-357).
LEMMA InTimeStep ==
  ASSUME FeedInv, InTime, [Next]_vars
  PROVE  InTime'
PROOF
<1>1. seq \in [Table -> Nat] /\ (pc # "idle" => target \in Table) /\ rx \in Nat
  BY DEF FeedInv, FeedTypeOK, HeldAndShown
<1>2. CASE UNCHANGED <<seq, pc, target, rx, current>>
  BY <1>2 DEF InTime
<1>3. ASSUME NEW t \in Table, Publish(t) \/ ResetRound(t) PROVE InTime'
  <2>1. Broadcast(t) /\ UNCHANGED <<pc, target, rx, current>>
    BY <1>3 DEF Publish, ResetRound
  <2>2. pc # "idle" => seq[target] \in Nat /\ seq'[target] \in Nat /\ seq[target] <= seq'[target]
    BY <1>1, <2>1, SeqGrows
  <2>3. pc \in {"join", "snapshot"} => rx <= seq'[target] + 1
    BY <1>1, <2>2 DEF InTime
  <2> QED
    BY <2>1, <2>3 DEF InTime
<1>4. CASE Handler
  <2>1. CASE ReceiveJoinTable \/ JoinRefused \/ SpawnForwarder \/ ReceiveLeaveTable
    BY <2>1 DEF ReceiveJoinTable, JoinRefused, SpawnForwarder, ReceiveLeaveTable, InTime
  <2>2. CASE LeaveOldTable
    BY <2>2 DEF LeaveOldTable, InTime
  <2>3. CASE Subscribe
    <3>1. rx' = seq[target] + 1 /\ UNCHANGED <<seq, target, current>> /\ pc = "subscribe"
          /\ pc' = "join"
      BY <2>3 DEF Subscribe
    <3> QED
      BY <1>1, <3>1 DEF InTime
  <2>4. CASE JoinAccepted
    <3>1. /\ Broadcast(target) \/ UNCHANGED seq
          /\ UNCHANGED <<target, rx, current>> /\ pc = "join" /\ pc' = "snapshot"
      BY <2>4 DEF JoinAccepted
    <3>2. seq[target] \in Nat /\ seq'[target] \in Nat /\ seq[target] <= seq'[target]
      BY <1>1, <3>1, SeqGrows
    <3>3. rx <= seq'[target] + 1
      BY <1>1, <3>1, <3>2 DEF InTime
    <3> QED
      BY <3>1, <3>3 DEF InTime
  <2>5. CASE SendSnapshot
    BY <2>5 DEF SendSnapshot, InTime
  <2> QED
    BY <1>4, <2>1, <2>2, <2>3, <2>4, <2>5 DEF Handler
<1>5. CASE ForwardToSocket \/ ForwarderStep
  BY <1>5, <1>2 DEF ForwardToSocket, ForwarderStep, TakeEvent, SendHeld, Die
<1>6. CASE BackToLobby \/ ReceiveMessage \/ Tick \/ \E t \in Table : EnterTable(t)
  BY <1>6, <1>2 DEF BackToLobby, ReceiveMessage, Tick, EnterTable, serverVars
<1>7. CASE UNCHANGED vars
  BY <1>7, <1>2 DEF vars, serverVars
<1> QED
  BY <1>3, <1>4, <1>5, <1>6, <1>7 DEF Next

\* What a feed still holds is a sequence like the others.
LEMMA WayTypes ==
  ASSUME FeedInv
  PROVE  /\ Message \subseteq Signal /\ Seq(Message) \subseteq Seq(Signal) /\ Opening \in Signal
         /\ view.shown \in Seq(Message) /\ events \in Seq(Message) /\ inbox \in Seq(Message)
         /\ queue \in Seq(Message) /\ OnTheWay \in Seq(Message) /\ Screened \in Seq(Signal)
         /\ \A f \in Feeding :
              f.held \in Seq(Message) /\ f.table \in Table /\ f.next \in Nat
         /\ Screened = <<Opening>> \o OnTheWay
PROOF
<1>1. /\ view.shown \in Seq(Message) /\ events \in Seq(Message) /\ inbox \in Seq(Message)
      /\ queue \in Seq(Message)
  BY DEF FeedInv, FeedTypeOK
<1>2. OnTheWay \in Seq(Message)
  BY <1>1 DEF OnTheWay
<1>3. Message \subseteq Signal
  BY DEF Message, Signal
<1>4. Seq(Message) \subseteq Seq(Signal)
  BY <1>3
<1>5. Opening \in Signal
  BY DEF FeedInv, FeedTypeOK, Opening, Signal
<1>6. Screened = <<Opening>> \o OnTheWay
  BY DEF Screened, Opening
<1>7. Screened \in Seq(Signal)
  <2> HIDE DEF OnTheWay
  <2> QED
    BY <1>2, <1>4, <1>5, <1>6
<1>8. ASSUME NEW f \in Feeding PROVE f.held \in Seq(Message) /\ f.table \in Table /\ f.next \in Nat
  <2>1. CASE f \in Running
    BY <2>1 DEF Running, FeedInv, FeedTypeOK, Forwarder
  <2>2. CASE f = NewForwarder(target, rx) /\ pc = "spawn"
    BY <2>2 DEF NewForwarder, FeedInv, FeedTypeOK, HeldAndShown
  <2> QED
    BY <2>1, <2>2 DEF Feeding
<1> QED
  BY <1>1, <1>2, <1>3, <1>4, <1>5, <1>6, <1>7, <1>8

\* The messages on their way, written as one sequence.
Line(o, s, e, i, q, h) == (o \o (((s \o e) \o i) \o q)) \o h

\* All of them are sequences over S.
AreSeqs(S, o, s, e, i, q, h) == {o, s, e, i, q, h} \subseteq Seq(S)

\* Written out it is a sequence, its parts one after the other.
LEMMA LineFlat ==
  ASSUME NEW S, NEW o, NEW s, NEW e, NEW i, NEW q, NEW h, AreSeqs(S, o, s, e, i, q, h)
  PROVE  /\ Line(o, s, e, i, q, h) = Then(o, Then(s, Then(e, Then(i, Then(q, h)))))
         /\ Line(o, s, e, i, q, h) \in Seq(S)
PROOF
<1>0. /\ o \in Seq(S) /\ s \in Seq(S) /\ e \in Seq(S)
      /\ i \in Seq(S) /\ q \in Seq(S) /\ h \in Seq(S)
  BY DEF AreSeqs
<1>1. Then(s, e) \in Seq(S) /\ Then(i, Then(q, h)) \in Seq(S) /\ Then(q, h) \in Seq(S)
  BY <1>0, ThenAssoc
<1>2. Then(Then(s, e), i) \in Seq(S)
  BY <1>0, <1>1, ThenAssoc
<1>3. Then(Then(Then(s, e), i), q) \in Seq(S)
  BY <1>0, <1>2, ThenAssoc
<1>4. Then(Then(o, Then(Then(Then(s, e), i), q)), h)
        = Then(o, Then(Then(Then(Then(s, e), i), q), h))
  BY <1>0, <1>3, ThenAssoc
<1>5. Then(Then(Then(Then(s, e), i), q), h) = Then(Then(Then(s, e), i), Then(q, h))
  BY <1>0, <1>2, ThenAssoc
<1>6. Then(Then(Then(s, e), i), Then(q, h)) = Then(Then(s, e), Then(i, Then(q, h)))
  BY <1>0, <1>1, ThenAssoc
<1>7. Then(Then(s, e), Then(i, Then(q, h))) = Then(s, Then(e, Then(i, Then(q, h))))
  BY <1>0, <1>1, ThenAssoc
<1>8. Line(o, s, e, i, q, h) = Then(Then(o, Then(Then(Then(s, e), i), q)), h)
  BY DEF Then, Line
<1>9. Then(o, Then(Then(Then(s, e), i), q)) \in Seq(S)
  BY <1>0, <1>3, ThenAssoc
<1>10. Then(Then(o, Then(Then(Then(s, e), i), q)), h) \in Seq(S)
  BY <1>0, <1>9, ThenAssoc
<1> QED
  BY <1>0, <1>4, <1>5, <1>6, <1>7, <1>8, <1>10

\* The messages around those of c.
LEMMA Around ==
  ASSUME NEW S, NEW o, NEW s, NEW e, NEW y, NEW q, NEW h, AreSeqs(S, o, s, e, y, q, h),
         NEW c \in Seq(S)
  PROVE  /\ Line(o, s, e, Then(c, y), q, h)
              = Then(Then(Then(o, Then(s, e)), c), Then(y, Then(q, h)))
         /\ Then(o, Then(s, e)) \in Seq(S) /\ Then(y, Then(q, h)) \in Seq(S)
PROOF
<1>0. /\ o \in Seq(S) /\ s \in Seq(S) /\ e \in Seq(S)
      /\ y \in Seq(S) /\ q \in Seq(S) /\ h \in Seq(S)
  BY DEF AreSeqs
<1> DEFINE r == Then(y, Then(q, h))
           u == Then(o, Then(s, e))
           v == Then(c, r)
<1>1. Then(q, h) \in Seq(S) /\ Then(s, e) \in Seq(S) /\ Then(c, y) \in Seq(S)
  BY <1>0, ThenAssoc
<1>2. r \in Seq(S) /\ u \in Seq(S)
  BY <1>0, <1>1, ThenAssoc
<1>3. Line(o, s, e, Then(c, y), q, h)
        = Then(o, Then(s, Then(e, Then(Then(c, y), Then(q, h)))))
  <2>1. AreSeqs(S, o, s, e, Then(c, y), q, h)
    BY <1>0, <1>1 DEF AreSeqs
  <2> QED
    BY <2>1, LineFlat
<1>4. Then(Then(c, y), Then(q, h)) = Then(c, r)
  BY <1>0, <1>1, ThenAssoc
<1> HIDE DEF r
<1>5. v \in Seq(S)
  BY <1>0, <1>2, ThenAssoc
<1>6. Then(u, v) = Then(o, Then(s, Then(e, v)))
  <2> HIDE DEF v
  <2>1. Then(u, v) = Then(o, Then(Then(s, e), v))
    BY <1>0, <1>1, <1>5, ThenAssoc
  <2>2. Then(Then(s, e), v) = Then(s, Then(e, v))
    BY <1>0, <1>1, <1>5, ThenAssoc
  <2> QED
    BY <2>1, <2>2
<1> HIDE DEF u
<1>7. Then(Then(u, c), r) = Then(u, v)
  BY <1>0, <1>2, ThenAssoc
<1> QED
  BY <1>0, <1>2, <1>3, <1>4, <1>6, <1>7 DEF r, u

\* An error is taken out of the line.
LEMMA LaggedDropped ==
  ASSUME NEW o, NEW s, NEW e, NEW y, NEW q, NEW h, AreSeqs(Signal, o, s, e, y, q, h),
         NEW c \in Seq(Signal), \A x \in DOMAIN c : c[x].kind = "lagged",
         NEW t, NEW k, Carries(Line(o, s, e, Then(c, y), q, h), t, k)
  PROVE  Carries(Line(o, s, e, y, q, h), t, k)
PROOF
<1>0. y \in Seq(Signal)
  BY DEF AreSeqs
<1> DEFINE a == Then(o, Then(s, e))
           b == Then(y, Then(q, h))
           d == <<>>
<1>1. d \in Seq(Signal) /\ Then(d, y) = y
  BY <1>0, Concats DEF Then
<1>2. NoSnapshotIn(d)
  BY NoneIsNoSnapshot
<1> HIDE DEF d
<1>3. /\ Line(o, s, e, Then(c, y), q, h) = Then(Then(a, c), b)
      /\ Line(o, s, e, Then(d, y), q, h) = Then(Then(a, d), b)
      /\ a \in Seq(Signal) /\ b \in Seq(Signal)
  <2> QED
    BY <1>1, Around
<1> HIDE DEF a, b
<1>4. Carries((a \o c) \o b, t, k)
  BY <1>3 DEF Then
<1>5. Carries((a \o d) \o b, t, k)
  BY <1>1, <1>2, <1>3, <1>4, CarriesReplaced
<1> QED
  BY <1>1, <1>3, <1>5 DEF Then

\* The screen is made anew from the next message.
LEMMA SnapshotOpened ==
  ASSUME NEW o, NEW s, NEW e, NEW y, NEW q, NEW h, AreSeqs(Signal, o, s, e, y, q, h),
         NEW c \in Seq(Signal), NEW t, NEW k, Carries(Line(o, s, e, Then(c, y), q, h), t, k)
  PROVE  Carries(Line(c, <<>>, <<>>, y, q, h), t, k)
PROOF
<1>0. y \in Seq(Signal) /\ q \in Seq(Signal) /\ h \in Seq(Signal)
  BY DEF AreSeqs
<1> DEFINE a == Then(o, Then(s, e))
           r == Then(y, Then(q, h))
           b == Then(c, r)
           d == <<>>
<1>1. d \in Seq(Signal) /\ \A x \in Seq(Signal) : Then(d, x) = x
  BY Concats DEF Then
<1>2. DOMAIN d = {}
  OBVIOUS
<1> HIDE DEF d
<1>3. Line(o, s, e, Then(c, y), q, h) = Then(Then(a, c), r) /\ a \in Seq(Signal) /\ r \in Seq(Signal)
  BY Around
<1>4. Line(c, d, d, y, q, h) = Then(c, Then(d, Then(d, r)))
  <2>1. AreSeqs(Signal, c, d, d, y, q, h)
    BY <1>0, <1>1 DEF AreSeqs
  <2> QED
    BY <2>1, LineFlat
<1> HIDE DEF a, r
<1>5. b \in Seq(Signal) /\ Then(Then(a, c), r) = Then(a, b)
  BY <1>0, <1>3, ThenAssoc
<1>6. Then(d, r) = r /\ Then(c, Then(d, Then(d, r))) = b
  BY <1>1, <1>3
<1> HIDE DEF b
<1>7. Carries(a \o b, t, k)
  BY <1>3, <1>5 DEF Then
<1>8. Carries(d \o b, t, k)
  BY <1>1, <1>2, <1>3, <1>5, <1>7, CarriesFrom
<1>9. d \o b = b
  BY <1>1, <1>5 DEF Then
<1> QED
  BY <1>4, <1>6, <1>8, <1>9 DEF d

\* The lobby, in place of a screen and what it shows.
LEMMA NothingOpen ==
  ASSUME NEW o, NEW s, NEW y, NEW i, NEW q, NEW h, AreSeqs(Signal, o, s, y, i, q, h),
         NEW c \in Seq(Signal), NEW t, NEW k, Carries(Line(o, s, y, i, q, h), t, k),
         \A x \in DOMAIN c : c[x].kind = "snapshot" => c[x].table # t
  PROVE  Carries(Line(c, <<>>, y, i, q, h), t, k)
PROOF
<1>0. /\ o \in Seq(Signal) /\ s \in Seq(Signal) /\ y \in Seq(Signal)
      /\ i \in Seq(Signal) /\ q \in Seq(Signal) /\ h \in Seq(Signal)
  BY DEF AreSeqs
<1> DEFINE b == Then(y, Then(i, Then(q, h)))
           a == Then(o, s)
           d == <<>>
<1>1. d \in Seq(Signal) /\ \A x \in Seq(Signal) : Then(d, x) = x
  BY Concats DEF Then
<1> HIDE DEF d
<1>2. Then(q, h) \in Seq(Signal) /\ a \in Seq(Signal)
  BY <1>0, ThenAssoc
<1>3. Then(i, Then(q, h)) \in Seq(Signal)
  BY <1>0, <1>2, ThenAssoc
<1>4. b \in Seq(Signal)
  BY <1>0, <1>3, ThenAssoc
<1>5. Line(o, s, y, i, q, h) = Then(o, Then(s, b)) /\ Line(c, d, y, i, q, h) = Then(c, Then(d, b))
  <2>1. AreSeqs(Signal, o, s, y, i, q, h) /\ AreSeqs(Signal, c, d, y, i, q, h)
    BY <1>0, <1>1 DEF AreSeqs
  <2> QED
    BY <2>1, LineFlat
<1> HIDE DEF b
<1>6. Then(a, b) = Then(o, Then(s, b)) /\ Then(d, b) = b
  BY <1>0, <1>1, <1>4, ThenAssoc
<1> HIDE DEF a
<1>7. Carries(a \o b, t, k)
  BY <1>5, <1>6 DEF Then
<1>8. Carries(c \o b, t, k)
  BY <1>2, <1>4, <1>7, CarriesFrom
<1> QED
  BY <1>5, <1>6, <1>8 DEF d, Then

\* The line of messages of a task that holds h.
Way(h) == Line(<<Opening>>, view.shown, events, inbox, queue, h)

\* It is what Screened and the held message are.
LEMMA WayIs ==
  ASSUME NEW h
  PROVE  Screened \o h = Way(h)
PROOF
  BY DEF Screened, OnTheWay, Opening, Line, Way

\* The messages on their way are signals.
LEMMA SignalTypes ==
  ASSUME FeedInv
  PROVE  /\ Message \subseteq Signal /\ Seq(Message) \subseteq Seq(Signal)
         /\ Opening \in Signal /\ <<Opening>> \in Seq(Signal)
         /\ view.shown \in Seq(Signal) /\ events \in Seq(Signal) /\ inbox \in Seq(Signal)
         /\ queue \in Seq(Signal) /\ Screened \in Seq(Signal) /\ <<>> \in Seq(Signal)
         /\ \A f \in Feeding : f.held \in Seq(Signal) /\ f.table \in Table /\ f.next \in Nat
PROOF
<1>1. <<Opening>> \in Seq(Signal) /\ <<>> \in Seq(Signal)
  BY WayTypes
<1> QED
  BY <1>1, WayTypes

\* Nothing moves, and no task is new.
LEMMA StillFeeds ==
  ASSUME FeedInv, NothingLost, Screened' = Screened, Feeding' \subseteq Feeding
  PROVE  NothingLost'
PROOF
  BY DEF NothingLost

\* The screen and the channels are all there is.
LEMMA SameWay ==
  ASSUME UNCHANGED <<view, events, inbox, queue>>
  PROVE  Screened' = Screened
PROOF
  BY DEF Screened, Opening, OnTheWay

\* A message is appended in the middle.
LEMMA AppendedBefore ==
  ASSUME NEW S, NEW o, NEW w, NEW i, NEW q, AreSeqs(S, o, w, i, q, q, q), NEW m \in S
  PROVE  /\ Then(o, Then(w, i)) \in Seq(S)
         /\ Then(o, Then(Then(w, Append(i, m)), q)) = Then(Append(Then(o, Then(w, i)), m), q)
PROOF
<1>0. o \in Seq(S) /\ w \in Seq(S) /\ i \in Seq(S) /\ q \in Seq(S)
  BY DEF AreSeqs
<1> DEFINE c == <<m>>
           v == Then(w, i)
           a == Then(o, v)
           x == Then(v, c)
<1>1. c \in Seq(S) /\ Append(i, m) = Then(i, c)
  BY <1>0, Concats DEF Then
<1> HIDE DEF c
<1>2. v \in Seq(S) /\ Then(w, Then(i, c)) = Then(v, c)
  BY <1>0, <1>1, ThenAssoc
<1> HIDE DEF v
<1>3. x \in Seq(S) /\ a \in Seq(S)
  BY <1>0, <1>1, <1>2, ThenAssoc
<1>4. Then(o, x) = Then(a, c)
  BY <1>0, <1>1, <1>2, ThenAssoc
<1> HIDE DEF x
<1>5. Then(o, Then(x, q)) = Then(Then(o, x), q)
  BY <1>0, <1>3, ThenAssoc
<1>6. Append(a, m) = Then(a, c)
  <2> HIDE DEF a
  <2> QED
    BY <1>0, <1>3, Concats DEF c, Then
<1>7. Then(o, Then(Then(w, Then(i, c)), q)) = Then(Append(a, m), q)
  BY <1>0, <1>2, <1>4, <1>5, <1>6 DEF x
<1> QED
  BY <1>1, <1>3, <1>7 DEF a, v

\* A snapshot that only events follow is the last one.
LEMMA LastIs ==
  ASSUME NEW a \in Seq(Signal), NEW m \in Signal, m.kind = "snapshot",
         NEW q \in Seq(Signal), NoSnapshotIn(q)
  PROVE  \A i \in DOMAIN (Append(a, m) \o q) :
           LastSnapshot(Append(a, m) \o q, i) => (Append(a, m) \o q)[i] = m
PROOF
<1> DEFINE b == Append(a, m)
           n == Len(a) + 1
           ms == b \o q
<1>1. /\ b \in Seq(Signal) /\ Len(b) = n /\ b[n] = m /\ n \in Nat \ {0} /\ Len(q) \in Nat
      /\ DOMAIN q = 1..Len(q)
  BY AppendProperties, LenProperties
<1> HIDE DEF b, n
<1>2. /\ DOMAIN ms = 1..(n + Len(q))
      /\ \A i \in 1..(n + Len(q)) : ms[i] = IF i <= n THEN b[i] ELSE q[i - n]
  BY <1>1
<1> HIDE DEF ms
<1>3. n \in DOMAIN ms /\ ms[n] = m
  BY <1>1, <1>2
<1> SUFFICES ASSUME NEW i \in DOMAIN ms, LastSnapshot(ms, i) PROVE ms[i] = m
  BY DEF ms, b
<1>4. ~(i < n)
  BY <1>1, <1>2, <1>3 DEF LastSnapshot
<1>5. ~(i > n)
  <2> SUFFICES ASSUME i > n PROVE FALSE
    OBVIOUS
  <2>1. i - n \in 1..Len(q) /\ ms[i] = q[i - n]
    BY <1>1, <1>2
  <2> QED
    BY <1>1, <2>1 DEF NoSnapshotIn, LastSnapshot
<1> QED
  BY <1>1, <1>2, <1>3, <1>4, <1>5

\* The snapshot that JoinTable sends is no older than the receiver of the task it
\* starts afterwards; every other step leaves tasks and messages as they are.
LEMMA HandlerFollows ==
  ASSUME FeedInv, NothingLost, InTime, SnapshotsInInbox, Handler
  PROVE  NothingLost'
PROOF
<1>1. CASE ReceiveJoinTable \/ LeaveOldTable \/ Subscribe \/ JoinAccepted
  <2>1. pc' \notin {"idle", "spawn"}
    BY <1>1 DEF ReceiveJoinTable, LeaveOldTable, Subscribe, JoinAccepted
  <2> QED
    BY <2>1 DEF NothingLost, Feeding
<1>2. CASE JoinRefused
  <2>1. current = NoTable /\ pc' = "idle" /\ UNCHANGED forwarders
    BY <1>2 DEF JoinRefused, InTime
  <2>2. Running = {}
    <3>1. \A f \in Running : f.table \in Table /\ f.table = current
      BY DEF FeedInv, FeedTypeOK, FeedsCurrent, Forwarder, Running
    <3> QED
      BY <2>1, <3>1, TableAssumption
  <2> QED
    BY <2>1, <2>2 DEF NothingLost, Feeding, Running
<1>3. CASE SendSnapshot
  <2> DEFINE m == [kind |-> "snapshot", table |-> target, n |-> seq[target]]
             f == NewForwarder(target, rx)
  <2>1. /\ target \in Table /\ rx \in Nat /\ seq[target] \in Nat /\ rx <= seq[target] + 1
        /\ pc' = "spawn" /\ UNCHANGED <<target, rx, view, events, queue>>
        /\ inbox' = Append(inbox, m)
    BY <1>3 DEF SendSnapshot, InTime, FeedInv, FeedTypeOK, HeldAndShown
  <2>2. f.held = <<>> /\ f.table = target /\ f.next = rx /\ Feeding' = {f}
    BY <2>1 DEF NewForwarder, Feeding
  <2>3. m \in Signal /\ m.kind = "snapshot" /\ m.n = seq[target]
    BY <2>1 DEF Signal
  <2> HIDE DEF m, f
  <2> DEFINE ms == Screened' \o <<>>
  <2>4. \A i \in DOMAIN ms : LastSnapshot(ms, i) => ms[i] = m
    <3> DEFINE o == <<Opening>>
               w == view.shown \o events
               a == Then(o, Then(w, inbox))
    <3>1. w \in Seq(Signal) /\ o \in Seq(Signal) /\ inbox \in Seq(Signal) /\ queue \in Seq(Signal)
      BY SignalTypes, Concats
    <3>2. Screened' = Then(o, Then(Then(w, Append(inbox, m)), queue))
      BY <2>1 DEF Screened, OnTheWay, Opening, Then
    <3> HIDE DEF o, w
    <3>. AreSeqs(Signal, o, w, inbox, queue, queue, queue)
      BY <3>1 DEF AreSeqs
    <3>3. a \in Seq(Signal) /\ Screened' = Then(Append(a, m), queue)
      BY <2>3, <3>1, <3>2, AppendedBefore
    <3>4. ms = Append(a, m) \o queue
      <4>1. Append(a, m) \o queue \in Seq(Signal)
        BY <2>3, <3>1, <3>3, AppendProperties, Concats
      <4> QED
        BY <3>3, <4>1, Concats DEF Then
    <3> HIDE DEF a, ms
    <3>5. NoSnapshotIn(queue)
      BY DEF SnapshotsInInbox
    <3> QED
      BY <2>3, <3>1, <3>3, <3>4, <3>5, LastIs
  <2> HIDE DEF ms
  <2>6. Carries(ms, target, rx - 1)
    <3> SUFFICES ASSUME NEW i \in DOMAIN ms, LastSnapshot(ms, i)
                 PROVE  Chain(ms, i, target, rx - 1)
      BY DEF Carries
    <3>1. ms[i].n = seq[target]
      BY <2>3, <2>4
    <3>2. ms[i].n + 1 .. rx - 1 = {}
      BY <2>1, <3>1
    <3> DEFINE h == [j \in {} |-> 1]
    <3>3. h \in [ms[i].n + 1 .. rx - 1 -> DOMAIN ms]
      BY <3>2
    <3> QED
      BY <3>2, <3>3 DEF Chain
  <2> QED
    BY <2>2, <2>6 DEF NothingLost, ms
<1>4. CASE SpawnForwarder
  <2> DEFINE f == NewForwarder(target, rx)
  <2>1. /\ forwarders' = Aborted \cup {f} /\ pc = "spawn" /\ pc' = "idle"
        /\ UNCHANGED <<view, events, inbox, queue>>
    BY <1>4 DEF SpawnForwarder, clientVars
  <2>2. Feeding = {f}
    BY <2>1 DEF Feeding
  <2>3. \A g \in Running' : g = f
    BY <2>1, AbortedType DEF Running
  <2>4. Feeding' \subseteq Feeding
    BY <2>1, <2>2, <2>3 DEF Feeding
  <2> QED
    BY <2>1, <2>4, StillFeeds, SameWay
<1>5. CASE ReceiveLeaveTable
  <2>1. /\ forwarders' = Aborted \/ forwarders' = forwarders
        /\ UNCHANGED <<pc, view, events, inbox, queue>> /\ pc = "idle"
    BY <1>5 DEF ReceiveLeaveTable, clientVars
  <2>2. Running' \subseteq Running
    BY <2>1, AbortedType DEF Running
  <2>3. Feeding' \subseteq Feeding
    BY <2>1, <2>2 DEF Feeding
  <2> QED
    BY <2>1, <2>3, StillFeeds, SameWay
<1> QED
  BY <1>1, <1>2, <1>3, <1>4, <1>5 DEF Handler

\* The connection hands a message on.
LEMMA ForwardFollows ==
  ASSUME FeedInv, NothingLost, ForwardToSocket
  PROVE  NothingLost'
PROOF
<1> DEFINE w == view.shown \o events
           x == Then(Then(w, Append(inbox, Head(queue))), Tail(queue))
<1>1. /\ w \in Seq(Signal) /\ inbox \in Seq(Signal) /\ queue \in Seq(Signal) /\ queue # <<>>
  BY SignalTypes, Concats DEF ForwardToSocket
<1>2. /\ inbox' = Append(inbox, Head(queue)) /\ queue' = Tail(queue)
      /\ UNCHANGED <<view, events, forwarders, pc, target, rx>>
  BY DEF ForwardToSocket
<1>3. x = Then(Then(w, inbox), queue)
  <2> HIDE DEF w
  <2> QED
    BY <1>1, HandedAfter
<1>4. Screened' = <<Opening>> \o x /\ Screened = <<Opening>> \o ((w \o inbox) \o queue)
  BY <1>2 DEF Screened, OnTheWay, Opening, Then
<1>5. Screened' = Screened
  BY <1>3, <1>4 DEF Then
<1>6. Feeding' \subseteq Feeding
  BY <1>2 DEF Feeding, Running
<1> QED
  BY <1>5, <1>6, StillFeeds

\* What neither adds a task nor moves a message.
LEMMA ElsewhereFollows ==
  ASSUME FeedInv, NothingLost, UNCHANGED <<pc, target, rx, view, events, inbox, queue>>,
         Running' \subseteq Running
  PROVE  NothingLost'
PROOF
<1>1. Feeding' \subseteq Feeding
  BY DEF Feeding
<1> QED
  BY <1>1, StillFeeds, SameWay

\* A task that takes an event, or learns that it lagged.
LEMMA TakeFollows ==
  ASSUME FeedInv, NothingLost, NEW f \in forwarders, TakeEvent(f)
  PROVE  NothingLost'
PROOF
<1> DEFINE lagged == [kind |-> "lagged", table |-> f.table, n |-> 0]
           event  == [kind |-> "event", table |-> f.table, n |-> f.next]
           g == [f EXCEPT !.held = <<lagged>>]
           h == [f EXCEPT !.held = <<event>>, !.next = @ + 1]
<1>1. f \in Forwarder /\ f.table \in Table /\ f.next \in Nat /\ f.held = <<>>
  BY DEF FeedInv, FeedTypeOK, Forwarder, TakeEvent
<1>2. lagged \in Signal /\ event \in Signal
  BY <1>1 DEF Signal
<1>3. /\ g.held = <<lagged>> /\ g.table = f.table /\ g.next = f.next /\ g.aborted = f.aborted
      /\ h.held = <<event>> /\ h.table = f.table /\ h.next = f.next + 1 /\ h.aborted = f.aborted
  BY <1>1 DEF Forwarder
<1>4. /\ Become(f, g) \/ Become(f, h)
      /\ UNCHANGED <<pc, target, rx, view, events, inbox, queue>>
  BY DEF TakeEvent, clientVars
<1>5. Screened' = Screened /\ Screened \in Seq(Signal)
  BY <1>4, SameWay, SignalTypes
<1> HIDE DEF lagged, event, g, h
<1>6. ASSUME f \in Feeding
      PROVE  /\ Carries(Screened \o <<lagged>>, f.table, f.next - 1)
             /\ Carries(Screened \o <<event>>, f.table, f.next)
  <2>1. Screened \o <<>> = Screened
    BY <1>5, Concats
  <2>2. Carries(Screened, f.table, f.next - 1)
    BY <1>1, <1>6, <2>1 DEF NothingLost
  <2>3. Carries(Append(Screened, event), f.table, f.next)
    BY <1>1, <1>5, <2>2, CarriesNext DEF event
  <2>4. Append(Screened, event) = Screened \o <<event>>
    BY <1>2, <1>5, AppendIsConcat
  <2>5. Carries(Screened \o <<lagged>>, f.table, f.next - 1)
    <3> DEFINE c == <<>>
               d == <<lagged>>
    <3>1. c \in Seq(Signal) /\ d \in Seq(Signal) /\ \A x \in DOMAIN c : c[x].kind = "lagged"
      BY <1>2
    <3>2. NoSnapshotIn(d)
      BY DEF NoSnapshotIn, lagged
    <3> HIDE DEF c, d
    <3>3. (Screened \o c) \o c = Screened
      <4>1. Screened \o c = Screened
        BY <1>5, Concats DEF c
      <4> QED
        BY <4>1
    <3>4. (Screened \o d) \o c = Screened \o d
      <4>1. Screened \o d \in Seq(Signal)
        BY <1>5, <3>1, Concats
      <4> QED
        BY <4>1, Concats DEF c
    <3>5. Carries((Screened \o d) \o c, f.table, f.next - 1)
      BY <1>5, <2>2, <3>1, <3>2, <3>3, CarriesReplaced
    <3> QED
      BY <3>4, <3>5 DEF d
  <2> QED
    BY <2>3, <2>4, <2>5
<1>7. ASSUME NEW x \in Feeding'
      PROVE  Carries(Screened \o x.held, x.table, x.next - 1)
  <2>1. CASE x \in Feeding
    BY <2>1 DEF NothingLost
  <2>2. CASE x \notin Feeding
    <3>1. pc = "idle" /\ x \in Running'
      BY <1>4, <2>2 DEF Feeding
    <3>2. x \notin Running /\ f \in Running /\ (x = g \/ x = h)
      BY <1>3, <1>4, <2>2, <3>1 DEF Feeding, Running, Become
    <3>3. f \in Feeding
      BY <3>1, <3>2 DEF Feeding
    <3>5. CASE x = g
      BY <1>3, <1>6, <3>3, <3>5
    <3>6. CASE x = h
      <4>1. x.held = <<event>> /\ x.table = f.table /\ x.next = f.next + 1
        BY <1>3, <3>6
      <4>2. x.next - 1 = f.next
        BY <1>1, <4>1
      <4> QED
        BY <1>6, <3>3, <4>1, <4>2
    <3> QED
      BY <3>2, <3>5, <3>6
  <2> QED
    BY <2>1, <2>2
<1> QED
  BY <1>5, <1>7 DEF NothingLost

\* What other tasks send comes in between, and does no harm.
LEMMA SendFollows ==
  ASSUME FeedInv, NothingLost, SnapshotsInInbox, NEW f \in forwarders, SendHeld(f)
  PROVE  NothingLost'
PROOF
<1> DEFINE g == [f EXCEPT !.held = <<>>]
           S == Screened \o f.held
<1>1. f \in Forwarder /\ f.held \in Seq(Message) /\ NoSnapshotIn(f.held)
  BY DEF FeedInv, FeedTypeOK, Forwarder, SnapshotsInInbox
<1>2. g.held = <<>> /\ g.table = f.table /\ g.next = f.next /\ g.aborted = f.aborted
  BY <1>1 DEF Forwarder
<1>3. /\ forwarders' = forwarders \ {f} \/ Become(f, g)
      /\ queue' = queue \o f.held /\ UNCHANGED <<pc, target, rx, view, events, inbox>>
  BY DEF SendHeld, clientVars
<1>4. Screened \in Seq(Signal) /\ f.held \in Seq(Signal) /\ <<>> \in Seq(Signal)
      /\ \A x \in Feeding : x.held \in Seq(Signal)
  BY <1>1, SignalTypes
<1>5. Screened' = S /\ S \in Seq(Signal)
  <2> DEFINE w == (view.shown \o events) \o inbox
             o == <<Opening>>
             k == f.held
  <2>1. k \in Seq(Signal) /\ w \in Seq(Signal) /\ o \in Seq(Signal) /\ queue \in Seq(Signal)
    <3>1. view.shown \o events \in Seq(Signal) /\ inbox \in Seq(Signal)
      BY SignalTypes, Concats
    <3> QED
      BY <1>4, <3>1, SignalTypes, Concats
  <2>2. Screened = Then(o, Then(w, queue)) /\ Screened' = Then(o, Then(w, Then(queue, k)))
    BY <1>3 DEF Screened, OnTheWay, Opening, Then
  <2> HIDE DEF w, o, k
  <2>3. Then(w, Then(queue, k)) = Then(Then(w, queue), k) /\ Then(w, queue) \in Seq(Signal)
    BY <2>1, ThenAssoc
  <2>4. Then(o, Then(Then(w, queue), k)) = Then(Then(o, Then(w, queue)), k)
    BY <2>1, <2>3, ThenAssoc
  <2>5. Then(Screened, k) \in Seq(Signal)
    BY <1>4, <2>1, ThenAssoc
  <2> QED
    BY <2>2, <2>3, <2>4, <2>5 DEF Then, k
<1> HIDE DEF g, S
<1>6. ASSUME NEW x \in Feeding' PROVE Carries(S \o x.held, x.table, x.next - 1)
  <2>1. CASE x \in Feeding
    <3> DEFINE c == <<>>
               h == x.held
    <3>1. c \in Seq(Signal) /\ h \in Seq(Signal) /\ \A i \in DOMAIN c : c[i].kind = "lagged"
      BY <1>4, <2>1
    <3>2. Screened \o c = Screened
      BY <1>4, Concats
    <3>3. Carries(Screened \o h, x.table, x.next - 1)
      BY <2>1 DEF NothingLost
    <3> HIDE DEF c, h
    <3>4. Carries((Screened \o f.held) \o h, x.table, x.next - 1)
      BY <1>1, <1>4, <3>1, <3>2, <3>3, CarriesReplaced
    <3> QED
      BY <3>4 DEF S, h
  <2>2. CASE x \notin Feeding
    <3>1. pc = "idle" /\ x \in Running'
      BY <1>3, <2>2 DEF Feeding
    <3>2. x \notin Running /\ f \in Running /\ x = g
      BY <1>2, <1>3, <2>2, <3>1 DEF Feeding, Running, Become
    <3>3. f \in Feeding
      BY <3>1, <3>2 DEF Feeding
    <3>4. Carries(S, f.table, f.next - 1)
      BY <3>3 DEF NothingLost, S
    <3>5. S \o <<>> = S
      BY <1>5, Concats
    <3> QED
      BY <1>2, <3>2, <3>4, <3>5
  <2> QED
    BY <2>1, <2>2
<1> QED
  BY <1>5, <1>6 DEF NothingLost

\* The screen is closed while messages for it are on their way.
LEMMA LobbyFollows ==
  ASSUME FeedInv, NothingLost, BackToLobby
  PROVE  NothingLost'
PROOF
<1>1. /\ view' = NoView /\ UNCHANGED <<pc, target, rx, forwarders, events, inbox, queue>>
  BY DEF BackToLobby, serverVars
<1>2. Feeding' = Feeding
  BY <1>1 DEF Feeding, Running
<1>3. ASSUME NEW f \in Feeding PROVE Carries((Screened \o f.held)', f.table, f.next - 1)
  <2> DEFINE o == <<Opening>>
             c == <<[kind |-> "snapshot", table |-> NoTable, n |-> 0]>>
  <2>1. o \in Seq(Signal) /\ c \in Seq(Signal) /\ f.held \in Seq(Signal) /\ f.table \in Table
    <3>1. [kind |-> "snapshot", table |-> NoTable, n |-> 0] \in Signal
      BY DEF Signal
    <3>2. c \in Seq(Signal)
      BY <3>1
    <3> QED
      BY <3>2, SignalTypes
  <2>2. \A x \in DOMAIN c : c[x].kind = "snapshot" => c[x].table # f.table
    BY <2>1, TableAssumption
  <2>3. Carries(Line(o, view.shown, events, inbox, queue, f.held), f.table, f.next - 1)
    BY WayIs DEF NothingLost, Way
  <2>4. (Screened \o f.held)' = Line(c, <<>>, events, inbox, queue, f.held)
    BY <1>1 DEF Screened, Opening, OnTheWay, Line, NoView
  <2> HIDE DEF o, c
  <2>5. AreSeqs(Signal, o, view.shown, events, inbox, queue, f.held)
    BY <2>1, SignalTypes DEF AreSeqs
  <2> QED
    BY <2>1, <2>2, <2>3, <2>4, <2>5, NothingOpen
<1> QED
  BY <1>2, <1>3 DEF NothingLost

\* The client opens the screen, queues an event or logs an error.
LEMMA ReceiveFollows ==
  ASSUME FeedInv, NothingLost, ReceiveMessage
  PROVE  NothingLost'
PROOF
<1> DEFINE m == Head(inbox)
           y == Tail(inbox)
           c == <<m>>
           o == <<Opening>>
<1>1. /\ inbox \in Seq(Message) /\ inbox # <<>> /\ inbox' = y
      /\ UNCHANGED <<pc, target, rx, forwarders, queue>>
      /\ \/ /\ m.kind = "snapshot" /\ events' = <<>>
            /\ view' = [table |-> m.table, base |-> m.n, shown |-> <<>>]
         \/ m.kind = "event" /\ events' = Append(events, m) /\ UNCHANGED view
         \/ m.kind = "lagged" /\ UNCHANGED <<events, view>>
  BY WayTypes DEF ReceiveMessage, serverVars
<1>2. m \in Message /\ y \in Seq(Message) /\ inbox = c \o y
  BY <1>1, Concats
<1>3. m \in Signal /\ c \in Seq(Signal) /\ y \in Seq(Signal) /\ inbox = Then(c, y)
  BY <1>2, SignalTypes DEF Then
<1>4. Feeding' = Feeding
  BY <1>1 DEF Feeding, Running
<1>5. ASSUME NEW f \in Feeding
      PROVE  /\ AreSeqs(Signal, o, view.shown, events, y, queue, f.held)
             /\ Carries(Line(o, view.shown, events, Then(c, y), queue, f.held), f.table, f.next - 1)
  <2>1. Carries(Line(o, view.shown, events, inbox, queue, f.held), f.table, f.next - 1)
    BY WayIs DEF NothingLost, Way
  <2> HIDE DEF o, y
  <2> QED
    BY <1>3, <2>1, SignalTypes DEF AreSeqs, o
<1>6. CASE m.kind = "snapshot" /\ events' = <<>>
           /\ view' = [table |-> m.table, base |-> m.n, shown |-> <<>>]
  <2>1. [kind |-> "snapshot", table |-> m.table, n |-> m.n] = m
    BY <1>2, <1>6 DEF Message
  <2>2. ASSUME NEW f \in Feeding PROVE (Screened \o f.held)' = Line(c, <<>>, <<>>, y, queue, f.held)
    BY <1>1, <1>6, <2>1 DEF Screened, Opening, OnTheWay, Line
  <2>3. ASSUME NEW f \in Feeding
        PROVE  Carries(Line(c, <<>>, <<>>, y, queue, f.held), f.table, f.next - 1)
    <3> HIDE DEF c, o, y
    <3> QED
      BY <1>3, <1>5, SnapshotOpened
  <2> HIDE DEF c, o, y
  <2> QED
    BY <1>4, <2>2, <2>3 DEF NothingLost
<1>7. CASE m.kind = "event" /\ events' = Append(events, m) /\ UNCHANGED view
  <2> DEFINE s == view.shown
  <2>1. s \in Seq(Signal) /\ events \in Seq(Signal) /\ inbox \in Seq(Signal)
    BY SignalTypes
  <2>2. Then(Then(s, Append(events, m)), y) = Then(Then(s, events), inbox)
    BY <1>1, <2>1, HandedAfter
  <2>3. Screened = <<Opening>> \o (Then(Then(s, events), inbox) \o queue)
    BY DEF Screened, OnTheWay, Then, Opening
  <2>4. Screened' = <<Opening>> \o (Then(Then(s, Append(events, m)), y) \o queue)
    BY <1>1, <1>7 DEF Screened, OnTheWay, Then, Opening
  <2>5. Screened' = Screened
    BY <2>2, <2>3, <2>4
  <2> QED
    BY <1>4, <2>5, StillFeeds
<1>8. CASE m.kind = "lagged" /\ UNCHANGED <<events, view>>
  <2>1. \A x \in DOMAIN c : c[x].kind = "lagged"
    BY <1>8
  <2>2. ASSUME NEW f \in Feeding
        PROVE  (Screened \o f.held)' = Line(o, view.shown, events, y, queue, f.held)
    BY <1>1, <1>8 DEF Screened, OnTheWay, Line, Opening
  <2>3. ASSUME NEW f \in Feeding
        PROVE  Carries(Line(o, view.shown, events, y, queue, f.held), f.table, f.next - 1)
    <3> HIDE DEF c, o, y
    <3> QED
      BY <1>3, <1>5, <2>1, LaggedDropped
  <2> HIDE DEF c, o, y
  <2> QED
    BY <1>4, <2>2, <2>3 DEF NothingLost
<1> QED
  BY <1>1, <1>6, <1>7, <1>8

\* An event is applied to the screen, or dropped when there is none.
LEMMA TickFollows ==
  ASSUME FeedInv, NothingLost, Tick
  PROVE  NothingLost'
PROOF
<1> DEFINE m == Head(events)
           y == Tail(events)
           c == <<m>>
           o == <<Opening>>
           s == view.shown
<1>1. /\ events # <<>> /\ events' = y
      /\ UNCHANGED <<pc, target, rx, forwarders, queue, inbox>>
      /\ IF view = NoView THEN UNCHANGED view
         ELSE view' = [view EXCEPT !.shown = Append(@, m)]
  BY DEF Tick, serverVars
<1>2. s \in Seq(Signal) /\ events \in Seq(Signal) /\ o \in Seq(Signal)
  BY SignalTypes
<1>3. Feeding' = Feeding
  BY <1>1 DEF Feeding, Running
<1>4. CASE view = NoView
  <2>1. Opening' = Opening /\ s = <<>> /\ s' = <<>> /\ Opening.table = NoTable
    BY <1>1, <1>4 DEF Opening, NoView
  <2>2. c \in Seq(Signal) /\ y \in Seq(Signal) /\ events = Then(c, y)
    BY <1>1, <1>2, Concats DEF Then
  <2>3. ASSUME NEW f \in Feeding PROVE Carries((Screened \o f.held)', f.table, f.next - 1)
    <3>1. (Screened \o f.held)' = Line(o, <<>>, y, inbox, queue, f.held)
      BY <1>1, <2>1 DEF Screened, OnTheWay, Line, Opening
    <3>2. Carries(Line(o, <<>>, events, inbox, queue, f.held), f.table, f.next - 1)
      BY <2>1, WayIs DEF NothingLost, Way
    <3> DEFINE d == <<>>
               r == Then(inbox, Then(queue, f.held))
               a == Then(o, c)
               b == Then(y, r)
    <3>3. d \in Seq(Signal) /\ (\A x \in Seq(Signal) : Then(d, x) = x)
      BY Concats DEF Then
    <3> HIDE DEF d
    <3>4. inbox \in Seq(Signal) /\ queue \in Seq(Signal) /\ f.held \in Seq(Signal)
      BY SignalTypes
    <3>5. AreSeqs(Signal, o, d, events, inbox, queue, f.held) /\ AreSeqs(Signal, o, d, y, inbox, queue, f.held)
      BY <1>2, <2>2, <3>3, <3>4 DEF AreSeqs
    <3>6. /\ Line(o, d, events, inbox, queue, f.held) = Then(o, Then(d, Then(events, r)))
          /\ Line(o, d, y, inbox, queue, f.held) = Then(o, Then(d, Then(y, r)))
      <4> HIDE DEF o, y
      <4> QED
        BY <3>5, LineFlat
    <3>7. r \in Seq(Signal)
      <4>1. Then(queue, f.held) \in Seq(Signal)
        BY <3>4, ThenAssoc
      <4> QED
        BY <3>4, <4>1, ThenAssoc
    <3> HIDE DEF r, c, y, o
    <3>8. b \in Seq(Signal) /\ a \in Seq(Signal) /\ Then(events, r) = Then(c, b)
          /\ Then(events, r) \in Seq(Signal)
      BY <1>2, <2>2, <3>7, ThenAssoc
    <3> HIDE DEF b
    <3>9. Then(o, Then(c, b)) = Then(a, b)
      BY <1>2, <2>2, <3>8, ThenAssoc
    <3>10. Line(o, d, events, inbox, queue, f.held) = Then(a, b)
           /\ Line(o, d, y, inbox, queue, f.held) = Then(o, b)
      BY <3>3, <3>6, <3>8, <3>9 DEF b
    <3> HIDE DEF a
    <3>11. Carries(a \o b, f.table, f.next - 1)
      BY <3>2, <3>10 DEF Then, d
    <3>12. f.table \in Table /\ \A x \in DOMAIN o : o[x].kind = "snapshot" => o[x].table # f.table
      BY <2>1, SignalTypes, TableAssumption DEF o
    <3>13. Carries(o \o b, f.table, f.next - 1)
      BY <1>2, <3>8, <3>11, <3>12, CarriesFrom
    <3> QED
      BY <3>1, <3>10, <3>13 DEF Then, d
  <2> QED
    BY <1>3, <2>3 DEF NothingLost
<1>5. CASE view # NoView
  <2>1. view' = [view EXCEPT !.shown = Append(@, m)] /\ view \in Screen
    BY <1>1, <1>5 DEF FeedInv, HeldAndShown
  <2>2. Opening' = Opening /\ view'.shown = Append(s, m)
    BY <1>5, <2>1 DEF Opening, Screen
  <2>3. Append(s, m) \o y = s \o events
    BY <1>1, <1>2, Handed
  <2>4. /\ Screened' = <<Opening>> \o (((Append(s, m) \o y) \o inbox) \o queue)
        /\ Screened = <<Opening>> \o (((s \o events) \o inbox) \o queue)
    <3> HIDE DEF y
    <3> QED
      BY <1>1, <2>2 DEF Screened, OnTheWay, Opening
  <2>5. Screened' = Screened
    BY <2>3, <2>4
  <2> QED
    BY <1>3, <2>5, StillFeeds
<1> QED
  BY <1>4, <1>5

\* At first nobody feeds anything.
LEMMA FollowInit == Init => FollowInv
PROOF
<1> SUFFICES ASSUME Init PROVE FollowInv
  OBVIOUS
<1>1. FeedInv
  BY InitInv
<1>2. Feeding = {} /\ forwarders = {}
  BY DEF Init, Feeding, Running
<1>3. InTime /\ pc = "idle"
  BY DEF Init, InTime
<1>4. SnapshotsInInbox
  BY <1>2, NoneIsNoSnapshot DEF Init, SnapshotsInInbox, NoView
<1> QED
  BY <1>1, <1>2, <1>3, <1>4 DEF FollowInv, NothingLost

\* FollowInv is inductive.
LEMMA FollowStep == FollowInv /\ [Next]_vars => FollowInv'
PROOF
<1> SUFFICES ASSUME FollowInv, [Next]_vars PROVE FollowInv'
  OBVIOUS
<1>1. FeedInv /\ NothingLost /\ InTime /\ SnapshotsInInbox
  BY DEF FollowInv
<1>2. FeedInv' /\ InTime' /\ SnapshotsInInbox'
  BY <1>1, StepInv, InTimeStep, SnapshotsInInboxStep
<1>3. NothingLost'
  <2>1. CASE Handler
    BY <1>1, <2>1, HandlerFollows
  <2>2. CASE ForwardToSocket
    BY <1>1, <2>2, ForwardFollows
  <2>3. CASE ForwarderStep
    <3> SUFFICES ASSUME NEW f \in forwarders, TakeEvent(f) \/ SendHeld(f) \/ Die(f)
                 PROVE  NothingLost'
      BY <2>3 DEF ForwarderStep
    <3>1. CASE Die(f)
      <4>1. Running' \subseteq Running
        BY <3>1 DEF Die, Running
      <4> QED
        BY <1>1, <3>1, <4>1, ElsewhereFollows DEF Die, clientVars
    <3> QED
      BY <1>1, <3>1, TakeFollows, SendFollows
  <2>4. CASE \E t \in Table : Publish(t) \/ ResetRound(t) \/ EnterTable(t)
    <3>1. UNCHANGED <<pc, target, rx, forwarders, view, events, inbox, queue>>
      BY <2>4 DEF Publish, ResetRound, EnterTable, serverVars, clientVars
    <3> QED
      BY <1>1, <3>1, ElsewhereFollows DEF Running
  <2>5. CASE BackToLobby
    BY <1>1, <2>5, LobbyFollows
  <2>6. CASE ReceiveMessage
    BY <1>1, <2>6, ReceiveFollows
  <2>7. CASE Tick
    BY <1>1, <2>7, TickFollows
  <2>8. CASE UNCHANGED vars
    BY <1>1, <2>8, ElsewhereFollows DEF vars, serverVars, clientVars, Running
  <2> QED
    BY <2>1, <2>2, <2>3, <2>4, <2>5, <2>6, <2>7, <2>8 DEF Next
<1> QED
  BY <1>2, <1>3 DEF FollowInv

\* What is on its way takes the client as far as its task has come.
LEMMA NothingMissedOfInv == FollowInv => NothingMissed
PROOF
<1> SUFFICES ASSUME FollowInv, NEW f \in Feeds, pc \in {"idle", "spawn"},
                    NoSnapshotIn(OnTheWay)
             PROVE  Reached(OnTheWay \o f.held) + 1 >= f.next
  BY DEF NothingMissed, NoSnapshotIn
<1> DEFINE ms == OnTheWay \o f.held
<1>1. FeedInv /\ NothingLost /\ SnapshotsInInbox
  BY DEF FollowInv
<1>2. f \in Feeding /\ f.table = view.table /\ NoSnapshotIn(f.held)
  <2>1. CASE f \in Running /\ f.table = view.table
    <3>1. pc = "idle"
      <4>1. f.table \in Table /\ f.table = current
        BY <1>1, <2>1 DEF FeedInv, FeedTypeOK, FeedsCurrent, Forwarder, Running
      <4> QED
        BY <4>1, TableAssumption DEF FollowInv, InTime
    <3> QED
      BY <1>1, <2>1, <3>1 DEF Feeding, SnapshotsInInbox, Running
  <2>2. CASE pc = "spawn" /\ target = view.table /\ f = NewForwarder(target, rx)
    BY <2>2, NoneIsNoSnapshot DEF Feeding, NewForwarder
  <2> QED
    BY <2>1, <2>2 DEF Feeds
<1>3. /\ OnTheWay \in Seq(Message) /\ f.held \in Seq(Message) /\ <<Opening>> \in Seq(Signal)
      /\ OnTheWay \in Seq(Signal) /\ f.held \in Seq(Signal)
      /\ f.table \in Table /\ f.next \in Nat /\ Screened = <<Opening>> \o OnTheWay
  BY <1>1, <1>2, WayTypes, SignalTypes
<1>4. ms \in Seq(Message) /\ NoSnapshotIn(ms)
  BY <1>2, <1>3, Concats, NoSnapshotKept
<1>5. Screened \o f.held = <<Opening>> \o ms
  <2> DEFINE o == <<Opening>>
             w == OnTheWay
             h == f.held
  <2>1. o \in Seq(Signal) /\ w \in Seq(Signal) /\ h \in Seq(Signal)
    BY <1>3
  <2> HIDE DEF o, w, h
  <2>2. Then(Then(o, w), h) = Then(o, Then(w, h))
    BY <2>1, ThenAssoc
  <2> QED
    BY <1>3, <2>2 DEF Then, o, w, h
<1>6. Carries(<<Opening>> \o ms, view.table, f.next - 1)
  BY <1>1, <1>2, <1>5 DEF NothingLost
<1>7. view.base \in Nat /\ f.next - 1 \in Int
  BY <1>1, <1>3 DEF FeedInv, FeedTypeOK
<1> HIDE DEF ms
<1>8. Reached(ms) >= f.next - 1 /\ Reached(ms) \in Int
  BY <1>1, <1>2, <1>3, <1>4, <1>6, <1>7, CarriesReached, Zenon
<1> QED
  BY <1>3, <1>8 DEF ms

-----------------------------------------------------------------------------

\* The inductive invariant holds in every reachable state.
THEOREM FeedInvariance == Spec => []FeedInv
PROOF
<1> QED
  BY InitInv, StepInv, PTL DEF Spec

\* The handler of the connection and its tasks (ws.rs:151-357) keep the channels of
\* the forwarders and of the socket within their capacity, whatever that is.
THEOREM FeedTypeCorrect == Spec => []FeedTypeOK
PROOF
<1>1. FeedInv => FeedTypeOK
  BY DEF FeedInv
<1> QED
  BY <1>1, FeedInvariance, PTL

\* JoinTable aborts the task of the old table before it may be refused, and LeaveTable
\* aborts all when it succeeds (ws.rs:151-357): no two tasks ever feed a connection.
THEOREM OneFeedHolds == Spec => []OneFeed
PROOF
<1> QED
  BY OneFeedOfInv, FeedInvariance, PTL

\* JoinTable subscribes, joins, sends the snapshot and only then starts the task
\* (ws.rs:151-357), and the client drops its queued events when a snapshot arrives
\* (app/mod.rs): whatever the interleaving, the number of tables and the capacity of
\* the channels, the events on their way take the screen to where its task has come.
THEOREM NothingMissedHolds == Spec => []NothingMissed
PROOF
<1> QED
  BY FollowInit, FollowStep, NothingMissedOfInv, PTL DEF Spec

==============================================================================
