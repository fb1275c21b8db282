------------------------- MODULE ClientSessionTheorems -------------------------
(***************************************************************************)
(* Theorems of ClientSession, for any number of logins and messages and any *)
(* size of the channel.                                                     *)
(***************************************************************************)
EXTENDS ClientSession, SequenceTheorems, TLAPS

USE SizesAssumption

\* An event at the end of the channel.
LEMMA PostType ==
  ASSUME SessionTypeOK,
         NEW kind, NEW g, [kind |-> kind, from |-> g] \in AppEvent,
         Post(kind, g)
  PROVE  /\ inbox' \in Seq(AppEvent) /\ Len(inbox') <= ChannelSize
         /\ Len(inbox') = Len(inbox) + 1
         /\ \A i \in 1..Len(inbox) : inbox'[i] = inbox[i]
         /\ inbox'[Len(inbox) + 1] = [kind |-> kind, from |-> g]
PROOF
<1> DEFINE e == [kind |-> kind, from |-> g]
<1>1. e \in AppEvent /\ inbox \in Seq(AppEvent) /\ Len(inbox) \in Nat
  BY DEF SessionTypeOK
<1>2. inbox' = Append(inbox, e) /\ Len(inbox) < ChannelSize
  BY DEF Post
<1> HIDE DEF e
<1>3. /\ inbox' \in Seq(AppEvent)
      /\ Len(inbox') = Len(inbox) + 1
      /\ \A i \in 1..Len(inbox) : inbox'[i] = inbox[i]
      /\ inbox'[Len(inbox) + 1] = e
  BY <1>1, <1>2, AppendProperties
<1> QED
  BY <1>1, <1>2, <1>3 DEF e

\* The head of the channel is taken.
LEMMA TakeType ==
  ASSUME SessionTypeOK, inbox # <<>>, inbox' = Tail(inbox)
  PROVE  /\ NextEvent = inbox[1] /\ NextEvent \in AppEvent
         /\ Len(inbox) \in Nat \ {0}
         /\ inbox' \in Seq(AppEvent) /\ Len(inbox') <= ChannelSize
         /\ Len(inbox') = Len(inbox) - 1
         /\ \A i \in 1..Len(inbox') : i + 1 \in 1..Len(inbox) /\ inbox'[i] = inbox[i + 1]
PROOF
<1>1. inbox \in Seq(AppEvent) /\ Len(inbox) <= ChannelSize
  BY DEF SessionTypeOK
<1>2. /\ Head(inbox) \in AppEvent /\ Head(inbox) = inbox[1]
      /\ Tail(inbox) \in Seq(AppEvent)
      /\ Len(inbox) \in Nat \ {0}
      /\ Len(Tail(inbox)) = Len(inbox) - 1
      /\ \A i \in 1..Len(Tail(inbox)) : Tail(inbox)[i] = inbox[i + 1]
  BY <1>1, HeadTailProperties
<1> QED
  BY <1>1, <1>2 DEF NextEvent

\* A task that has just been started.
LEMMA NewTaskType == NewTask \in TaskState
PROOF
  BY DEF NewTask, TaskState

\* Every step keeps the types: of the channel its bound, too.
LEMMA TypeStep ==
  ASSUME SessionTypeOK, [Next]_vars
  PROVE  SessionTypeOK'
PROOF
<1> USE DEF Generation
<1>1. CASE EnterLogin
  <2>1. generation' \in 0..MaxLogins /\ generation' \in Generation
    BY <1>1 DEF EnterLogin, SessionTypeOK
  <2>2. ASSUME NEW g \in Generation PROVE [task[g] EXCEPT !.aborted = TRUE] \in TaskState
    BY DEF SessionTypeOK, TaskState
  <2>3. task' \in [Generation -> TaskState]
    BY <1>1, <2>2, NewTaskType DEF EnterLogin, SessionTypeOK
  <2> QED
    BY <1>1, <2>1, <2>3 DEF EnterLogin, SessionTypeOK, Screen
<1>2. CASE EnterTable \/ BackToLobby
  <2>1. ASSUME NEW c \in {"JoinTable", "LeaveTable"}, NEW g \in Generation
        PROVE  Append(commands[g], c) \in Seq({"JoinTable", "LeaveTable"})
    BY AppendProperties DEF SessionTypeOK
  <2>2. ASSUME NEW c \in {"JoinTable", "LeaveTable"}, Command(c)
        PROVE  commands' \in [Generation -> Seq({"JoinTable", "LeaveTable"})]
    BY <2>1, <2>2 DEF Command, SessionTypeOK
  <2>3. commands' \in [Generation -> Seq({"JoinTable", "LeaveTable"})]
    BY <1>2, <2>2 DEF EnterTable, BackToLobby, SessionTypeOK
  <2> QED
    BY <1>2, <2>3 DEF EnterTable, BackToLobby, SessionTypeOK, Screen
<1>3. CASE Quit
  BY <1>3 DEF Quit, SessionTypeOK
<1>4. CASE ApplyQueued
  BY <1>4 DEF ApplyQueued, SessionTypeOK
<1>5. CASE StartPoll
  BY <1>5 DEF StartPoll, SessionTypeOK
<1>6. CASE HandlePoll \/ HandleConnected \/ HandleDisconnected \/ HandleFailed
  <2>1. inbox # <<>> /\ inbox' = Tail(inbox)
    BY <1>6 DEF HandlePoll, HandleConnected, HandleDisconnected, HandleFailed, Take
  <2>2. NextEvent.from \in 0..MaxLogins
    <3>1. NextEvent \in AppEvent
      BY <2>1, TakeType
    <3> QED
      BY <3>1 DEF AppEvent
  <2>3. inbox' \in Seq(AppEvent) /\ Len(inbox') <= ChannelSize
    BY <2>1, TakeType
  <2>4. identity' \in 0..MaxLogins /\ wsTx' \in 0..MaxLogins /\ screen' \in Screen
    BY <1>6, <2>2 DEF HandlePoll, HandleConnected, HandleDisconnected, HandleFailed,
                      SessionTypeOK, Screen
  <2>5. atTable' \in BOOLEAN /\ inFlight' \in BOOLEAN /\ UNCHANGED events
    BY <1>6 DEF HandlePoll, HandleConnected, HandleDisconnected, HandleFailed, SessionTypeOK
  <2>6. UNCHANGED <<generation, stopped, polls, task, commands>>
    BY <1>6 DEF HandlePoll, HandleConnected, HandleDisconnected, HandleFailed, Take
  <2> QED
    BY <2>3, <2>4, <2>5, <2>6 DEF SessionTypeOK
<1>7. CASE HandleMessage
  <2>1. /\ inbox # <<>> /\ inbox' = Tail(inbox)
        /\ UNCHANGED <<generation, wsTx, identity, inFlight, stopped, polls, task, commands>>
        /\ NextEvent.kind \in TaskEvent
    BY <1>7 DEF HandleMessage, Take, TaskEvent
  <2>2. NextEvent \in AppEvent /\ inbox' \in Seq(AppEvent) /\ Len(inbox') <= ChannelSize
    BY <2>1, TakeType
  <2>3. NextEvent.from \in Generation
    BY <2>1, <2>2 DEF AppEvent, TaskEvent, PollAnswer
  <2>4. screen' \in Screen /\ atTable' \in BOOLEAN
    BY <1>7 DEF HandleMessage, SessionTypeOK, Screen
  <2>5. events' \in Seq(Generation)
    <3>1. events \in Seq(Generation) /\ <<>> \in Seq(Generation)
      BY DEF SessionTypeOK
    <3>2. Append(events, NextEvent.from) \in Seq(Generation)
      BY <2>3, <3>1, AppendProperties
    <3>3. events' \in {<<>>, events, Append(events, NextEvent.from)}
      BY <1>7 DEF HandleMessage
    <3> QED
      BY <3>1, <3>2, <3>3
  <2> QED
    BY <2>1, <2>2, <2>4, <2>5 DEF SessionTypeOK
<1>8. CASE PollEnds
  <2>1. PICK answer \in PollAnswer : Post(answer, 0)
    BY <1>8 DEF PollEnds
  <2>2. [kind |-> answer, from |-> 0] \in AppEvent
    BY DEF AppEvent
  <2>3. inbox' \in Seq(AppEvent) /\ Len(inbox') <= ChannelSize
    BY <2>1, <2>2, PostType
  <2>4. polls' \in Nat
    BY <1>8 DEF PollEnds, SessionTypeOK
  <2> QED
    BY <1>8, <2>3, <2>4 DEF PollEnds, SessionTypeOK, appVars
<1>9. ASSUME NEW g \in Generation, TaskStep(g)
      PROVE  SessionTypeOK'
  <2> USE DEF Becomes, Goes
  <2>1. CASE Connect(g) \/ Die(g)
    <3>1. ASSUME NEW l \in {"auth", "ended"}
          PROVE  [task[g] EXCEPT !.pc = l] \in TaskState
      BY DEF SessionTypeOK, TaskState
    <3>2. task' \in [Generation -> TaskState]
      BY <2>1, <3>1 DEF Connect, Die, SessionTypeOK
    <3> QED
      BY <2>1, <3>2 DEF Connect, Die, SessionTypeOK, appVars
  <2>2. CASE Fail(g) \/ AuthOk(g) \/ EndSession(g)
    <3>1. ASSUME NEW l \in {"forward", "ended"}
          PROVE  [task[g] EXCEPT !.pc = l] \in TaskState
      BY DEF SessionTypeOK, TaskState
    <3>2. task' \in [Generation -> TaskState]
      BY <2>2, <3>1 DEF Fail, AuthOk, EndSession, SessionTypeOK
    <3>3. ASSUME NEW k \in TaskEvent
          PROVE  [kind |-> k, from |-> g] \in AppEvent
      BY DEF AppEvent
    <3>4. PICK k \in TaskEvent : Post(k, g)
      BY <2>2 DEF Fail, AuthOk, EndSession, TaskEvent
    <3>5. inbox' \in Seq(AppEvent) /\ Len(inbox') <= ChannelSize
      BY <3>3, <3>4, PostType
    <3> QED
      BY <2>2, <3>2, <3>5 DEF Fail, AuthOk, EndSession, SessionTypeOK, appVars
  <2>3. CASE ForwardCommand(g)
    <3> DEFINE n == task[g].joins + 1
    <3>0. task[g] \in TaskState /\ n \in Nat
      BY DEF SessionTypeOK, TaskState
    <3> HIDE DEF n
    <3>1. [task[g] EXCEPT !.joins = n] \in TaskState
      BY <3>0 DEF TaskState
    <3>2. task' \in [Generation -> TaskState]
      BY <2>3, <3>0, <3>1 DEF ForwardCommand, SessionTypeOK, n
    <3>3. Tail(commands[g]) \in Seq({"JoinTable", "LeaveTable"})
      BY <2>3, HeadTailProperties DEF ForwardCommand, SessionTypeOK
    <3>4. commands' \in [Generation -> Seq({"JoinTable", "LeaveTable"})]
      BY <2>3, <3>3 DEF ForwardCommand, SessionTypeOK
    <3> QED
      BY <2>3, <3>2, <3>4 DEF ForwardCommand, SessionTypeOK, appVars
  <2>4. CASE ForwardMessage(g)
    <3>1. PICK k \in ServerMessages(g) :
            /\ IF k = "Refusal" THEN UNCHANGED inbox ELSE Post(k, g)
            /\ task' = [task EXCEPT ![g] = [task[g] EXCEPT
                 !.sent = @ + 1,
                 !.joins = IF k \in {"Snapshot", "Refusal"} THEN @ - 1 ELSE @,
                 !.visited = @ \/ k = "Snapshot"]]
      BY <2>4 DEF ForwardMessage
    <3>2. task' \in [Generation -> TaskState]
      <4>1. task[g].sent + 1 \in 0..MaxMessages
        BY <2>4 DEF ForwardMessage, SessionTypeOK, TaskState
      <4>2. k \in {"Snapshot", "Refusal"} => task[g].joins - 1 \in Nat
        BY DEF ServerMessages, SessionTypeOK, TaskState
      <4>3. [task[g] EXCEPT
               !.sent = @ + 1,
               !.joins = IF k \in {"Snapshot", "Refusal"} THEN @ - 1 ELSE @,
               !.visited = @ \/ k = "Snapshot"]
              \in TaskState
        BY <4>1, <4>2 DEF SessionTypeOK, TaskState
      <4> QED
        BY <3>1, <4>3 DEF SessionTypeOK
    <3>3. inbox' \in Seq(AppEvent) /\ Len(inbox') <= ChannelSize
      <4>1. CASE k = "Refusal"
        BY <3>1, <4>1 DEF SessionTypeOK
      <4>2. CASE k # "Refusal"
        <5>1. [kind |-> k, from |-> g] \in AppEvent
          BY <4>2 DEF ServerMessages, AppEvent, TaskEvent
        <5> QED
          BY <3>1, <4>2, <5>1, PostType
      <4> QED
        BY <4>1, <4>2
    <3> QED
      BY <2>4, <3>2, <3>3 DEF ForwardMessage, SessionTypeOK, appVars
  <2> QED
    BY <1>9, <2>1, <2>2, <2>3, <2>4 DEF TaskStep
<1>10. CASE UNCHANGED vars
  BY <1>10 DEF SessionTypeOK, vars, appVars
<1> QED
  BY <1>1, <1>2, <1>3, <1>4, <1>5, <1>6, <1>7, <1>8, <1>9, <1>10 DEF Next, Keys, Loop

-----------------------------------------------------------------------------
(***************************************************************************)
(* The inductive invariant.                                                 *)
(***************************************************************************)

\* Where the events of a task are in the channel.
Posts(g) == {i \in 1..Len(inbox) : inbox[i].from = g}

\* The task has nothing under way for which the server could send a snapshot or events.
Quiet(g) ==
  \/ task[g].pc = "ended"
  \/ task[g].joins = 0 /\ ~task[g].visited /\ commands[g] = <<>>

\* A task is not started before its number is reached, says nothing before it has
\* been let in or refused, says that first, and its end last.
TaskInOrder(g) ==
  /\ task[g].pc # "new" <=> g <= generation
  /\ task[g].aborted => g <= generation
  /\ task[g].pc \in {"new", "connect", "auth"} => Posts(g) = {} /\ Quiet(g)
  /\ \A i \in Posts(g) :
       /\ inbox[i].kind = "AuthFailed" => task[g].pc = "ended" /\ Posts(g) = {i}
       /\ inbox[i].kind = "WsDisconnected" =>
            task[g].pc = "ended" /\ \A j \in Posts(g) : j <= i
       /\ inbox[i].kind = "WsConnected" => \A j \in Posts(g) : i <= j

\* The App holds the command channel of the last task until it has heard its end.
HoldsLastTask ==
  /\ wsTx \in {0, generation}
  /\ wsTx = 0 /\ generation # 0 => task[generation].pc = "ended" /\ Posts(generation) = {}

\* The screens behind the login belong to a task that is known to be let in.
BehindLogin ==
  /\ generation # 0 /\ identity = generation /\ wsTx = generation
  /\ task[generation].pc \in {"forward", "ended"}
  /\ \A i \in Posts(generation) : inbox[i].kind \notin {"WsConnected", "AuthFailed"}

\* Only the task whose session is on the screen has sent snapshots and events, and
\* can send more.
OthersQuiet ==
  /\ \A g \in Generation : Quiet(g) \/ (g = generation /\ ~AtLogin)
  /\ \A i \in 1..Len(inbox) :
       inbox[i].kind \in {"Snapshot", "Event"} => inbox[i].from = generation /\ ~AtLogin

\* When the user quits the loop handles nothing any more, and all this may end.
SessionInv ==
  ~stopped =>
    /\ \A g \in Generation : TaskInOrder(g)
    /\ HoldsLastTask
    /\ ~AtLogin => BehindLogin
    /\ OthersQuiet

-----------------------------------------------------------------------------

\* The events of a task stay where they are when another task posts one.
LEMMA PostsOfOthers ==
  ASSUME SessionTypeOK,
         NEW kind, NEW h, [kind |-> kind, from |-> h] \in AppEvent, Post(kind, h),
         NEW g, g # h
  PROVE  Posts(g)' = Posts(g) /\ \A i \in Posts(g) : inbox'[i] = inbox[i]
PROOF
<1>1. /\ Len(inbox') = Len(inbox) + 1
      /\ \A i \in 1..Len(inbox) : inbox'[i] = inbox[i]
      /\ inbox'[Len(inbox) + 1].from = h
  BY PostType
<1>2. Len(inbox) \in Nat
  BY DEF SessionTypeOK
<1>3. ASSUME NEW i \in 1..Len(inbox') PROVE i \in 1..Len(inbox) \/ i = Len(inbox) + 1
  BY <1>1, <1>2
<1>4. 1..Len(inbox) \subseteq 1..Len(inbox')
  BY <1>1, <1>2
<1> QED
  BY <1>1, <1>3, <1>4 DEF Posts

\* A task's own event comes after those it has posted.
LEMMA PostsOfOwn ==
  ASSUME SessionTypeOK,
         NEW kind, NEW g, [kind |-> kind, from |-> g] \in AppEvent, Post(kind, g)
  PROVE  /\ Posts(g)' = Posts(g) \cup {Len(inbox) + 1}
         /\ \A i \in Posts(g) : inbox'[i] = inbox[i] /\ i < Len(inbox) + 1
         /\ inbox'[Len(inbox) + 1].kind = kind
         /\ Len(inbox) + 1 \in Nat
PROOF
<1>1. /\ Len(inbox') = Len(inbox) + 1
      /\ \A i \in 1..Len(inbox) : inbox'[i] = inbox[i]
      /\ inbox'[Len(inbox) + 1] = [kind |-> kind, from |-> g]
  BY PostType
<1>2. Len(inbox) \in Nat
  BY DEF SessionTypeOK
<1>3. 1..Len(inbox') = 1..Len(inbox) \cup {Len(inbox) + 1}
  BY <1>1, <1>2
<1> QED
  BY <1>1, <1>2, <1>3 DEF Posts

\* Taking the head moves every event by one.
LEMMA PostsTaken ==
  ASSUME SessionTypeOK, inbox # <<>>, inbox' = Tail(inbox), NEW g
  PROVE  /\ \A i \in Posts(g)' : i \in Nat /\ i + 1 \in Posts(g) /\ inbox'[i] = inbox[i + 1]
         /\ NextEvent.from = g <=> 1 \in Posts(g)
         /\ NextEvent = inbox[1]
         /\ Posts(g) \subseteq Nat \ {0}
PROOF
<1>1. /\ NextEvent = inbox[1]
      /\ Len(inbox) \in Nat \ {0}
      /\ \A i \in 1..Len(inbox') : i + 1 \in 1..Len(inbox) /\ inbox'[i] = inbox[i + 1]
  BY TakeType
<1>2. 1 \in 1..Len(inbox)
  BY <1>1
<1> QED
  BY <1>1, <1>2 DEF Posts

\* A task stays in order when the loop takes an event.
LEMMA OrderTaken ==
  ASSUME SessionTypeOK, inbox # <<>>, inbox' = Tail(inbox),
         UNCHANGED <<generation, task, commands>>, NEW g, TaskInOrder(g)
  PROVE  TaskInOrder(g)'
PROOF
<1>1. /\ \A i \in Posts(g)' : i \in Nat /\ i + 1 \in Posts(g) /\ inbox'[i] = inbox[i + 1]
      /\ Posts(g) \subseteq Nat \ {0}
  BY PostsTaken
<1>2. Quiet(g)' = Quiet(g)
  BY DEF Quiet
<1>3. ASSUME NEW i \in Posts(g)'
      PROVE  /\ inbox'[i].kind = "AuthFailed" =>
                  task'[g].pc = "ended" /\ Posts(g)' = {i}
             /\ inbox'[i].kind = "WsDisconnected" =>
                  task'[g].pc = "ended" /\ \A j \in Posts(g)' : j <= i
             /\ inbox'[i].kind = "WsConnected" => \A j \in Posts(g)' : i <= j
  <2>1. i \in Nat /\ i + 1 \in Posts(g) /\ inbox'[i] = inbox[i + 1]
    BY <1>1, <1>3
  <2>2. CASE inbox'[i].kind = "AuthFailed"
    <3>1. Posts(g) = {i + 1} /\ task[g].pc = "ended"
      BY <2>1, <2>2 DEF TaskInOrder
    <3>2. ASSUME NEW j \in Posts(g)' PROVE j = i
      <4>1. j \in Nat /\ j + 1 \in Posts(g)
        BY <1>1
      <4> QED
        BY <2>1, <3>1, <4>1
    <3> QED
      BY <1>3, <2>2, <3>1, <3>2
  <2>3. CASE inbox'[i].kind = "WsDisconnected"
    <3>1. task[g].pc = "ended" /\ \A j \in Posts(g) : j <= i + 1
      BY <2>1, <2>3 DEF TaskInOrder
    <3>2. ASSUME NEW j \in Posts(g)' PROVE j <= i
      <4>1. j \in Nat /\ j + 1 \in Posts(g)
        BY <1>1
      <4> QED
        BY <2>1, <3>1, <4>1
    <3> QED
      BY <2>3, <3>1, <3>2
  <2>4. CASE inbox'[i].kind = "WsConnected"
    <3>1. \A j \in Posts(g) : i + 1 <= j
      BY <2>1, <2>4 DEF TaskInOrder
    <3>2. ASSUME NEW j \in Posts(g)' PROVE i <= j
      <4>1. j \in Nat /\ j + 1 \in Posts(g)
        BY <1>1
      <4> QED
        BY <2>1, <3>1, <4>1
    <3> QED
      BY <2>4, <3>2
  <2> QED
    BY <2>2, <2>3, <2>4
<1>4. Posts(g) = {} => Posts(g)' = {}
  BY <1>1
<1> QED
  BY <1>2, <1>3, <1>4 DEF TaskInOrder

\* A task stays in order while it neither moves nor posts.
LEMMA OrderOfOthers ==
  ASSUME NEW g, TaskInOrder(g),
         generation' = generation, task'[g] = task[g], commands'[g] = commands[g],
         Posts(g)' = Posts(g), \A i \in Posts(g) : inbox'[i] = inbox[i]
  PROVE  TaskInOrder(g)' /\ Quiet(g)' = Quiet(g)
PROOF
  BY DEF TaskInOrder, Quiet

-----------------------------------------------------------------------------

\* A task moves and posts nothing.
LEMMA TaskSilent ==
  ASSUME SessionTypeOK, SessionInv, ~stopped,
         UNCHANGED <<appVars, inbox>>,
         NEW g \in Generation, NEW t \in TaskState, task' = [task EXCEPT ![g] = t],
         \A h \in Generation \ {g} : commands'[h] = commands[h],
         task[g].pc \notin {"new", "ended"},
         t.pc # "new",
         t.pc \in {"connect", "auth"} => task[g].pc \in {"connect", "auth"},
         task[g].pc = "forward" => t.pc \in {"forward", "ended"},
         Quiet(g) => Quiet(g)'
  PROVE  SessionInv'
PROOF
<1> USE DEF appVars
<1>1. /\ \A h \in Generation : TaskInOrder(h)
      /\ HoldsLastTask
      /\ ~AtLogin => BehindLogin
      /\ OthersQuiet
  BY DEF SessionInv
<1>2. \A h \in Generation : Posts(h)' = Posts(h)
  BY DEF Posts
<1>3. task'[g] = t /\ \A h \in Generation \ {g} : task'[h] = task[h]
  BY DEF SessionTypeOK
<1>4. ASSUME NEW h \in Generation \ {g}
      PROVE  TaskInOrder(h)' /\ Quiet(h)' = Quiet(h)
  BY <1>1, <1>2, <1>3, OrderOfOthers
<1>5. TaskInOrder(g)'
  BY <1>1, <1>2, <1>3 DEF TaskInOrder
<1>6. HoldsLastTask'
  BY <1>1, <1>2, <1>3 DEF HoldsLastTask, SessionTypeOK, Generation
<1>7. AtLogin' = AtLogin
  BY DEF AtLogin
<1>8. ~AtLogin => BehindLogin'
  BY <1>1, <1>2, <1>3 DEF BehindLogin, SessionTypeOK, Generation
<1>9. OthersQuiet'
  BY <1>1, <1>4, <1>7 DEF OthersQuiet
<1> QED
  BY <1>4, <1>5, <1>6, <1>7, <1>8, <1>9 DEF SessionInv

\* A task moves and posts.
LEMMA TaskPosts ==
  ASSUME SessionTypeOK, SessionInv, ~stopped,
         UNCHANGED <<appVars, commands>>,
         NEW g \in Generation, NEW t \in TaskState, task' = [task EXCEPT ![g] = t],
         NEW kind \in TaskEvent, Post(kind, g),
         task[g].pc \in {"connect", "auth", "forward"},
         t.pc \in {"forward", "ended"},
         kind \in {"WsDisconnected", "AuthFailed"} => t.pc = "ended",
         kind \in {"WsConnected", "AuthFailed"} => task[g].pc \in {"connect", "auth"},
         kind \in {"Snapshot", "Event"} => ~Quiet(g),
         Quiet(g) => Quiet(g)'
  PROVE  SessionInv'
PROOF
<1> USE DEF appVars
<1>1. /\ \A h \in Generation : TaskInOrder(h)
      /\ HoldsLastTask
      /\ ~AtLogin => BehindLogin
      /\ OthersQuiet
  BY DEF SessionInv
<1>2. [kind |-> kind, from |-> g] \in AppEvent
  BY DEF AppEvent
<1>3. task'[g] = t /\ \A h \in Generation \ {g} : task'[h] = task[h]
  BY DEF SessionTypeOK
<1>4. ASSUME NEW h \in Generation \ {g}
      PROVE  /\ TaskInOrder(h)' /\ Quiet(h)' = Quiet(h)
             /\ Posts(h)' = Posts(h) /\ \A i \in Posts(h) : inbox'[i] = inbox[i]
  <2>1. Posts(h)' = Posts(h) /\ \A i \in Posts(h) : inbox'[i] = inbox[i]
    BY <1>2, PostsOfOthers
  <2> QED
    BY <1>1, <1>3, <2>1, OrderOfOthers
<1> DEFINE last == Len(inbox) + 1
<1>5. /\ Posts(g)' = Posts(g) \cup {last}
      /\ \A i \in Posts(g) : inbox'[i] = inbox[i] /\ i < last
      /\ inbox'[last].kind = kind
      /\ last \in Nat
  BY <1>2, PostsOfOwn
<1>6. Posts(g) \subseteq Nat
  BY DEF Posts, SessionTypeOK
<1>7. TaskInOrder(g)'
  <2>1. \A i \in Posts(g) : inbox[i].kind \notin {"AuthFailed", "WsDisconnected"}
    BY <1>1 DEF TaskInOrder
  <2>2. task[g].pc \in {"connect", "auth"} => Posts(g) = {}
    BY <1>1 DEF TaskInOrder
  <2>3. g <= generation
    BY <1>1 DEF TaskInOrder
  <2> HIDE DEF last
  <2>4. ASSUME NEW i \in Posts(g)'
        PROVE  /\ inbox'[i].kind = "AuthFailed" => t.pc = "ended" /\ Posts(g)' = {i}
               /\ inbox'[i].kind = "WsDisconnected" =>
                    t.pc = "ended" /\ \A j \in Posts(g)' : j <= i
               /\ inbox'[i].kind = "WsConnected" => \A j \in Posts(g)' : i <= j
    <3>1. CASE i = last
      BY <1>5, <1>6, <2>2, <3>1
    <3>2. CASE i \in Posts(g)
      <4>1. inbox'[i] = inbox[i] /\ i < last
        BY <1>5, <3>2
      <4>2. inbox[i].kind = "WsConnected" => \A j \in Posts(g) : i <= j
        BY <1>1, <3>2 DEF TaskInOrder
      <4> QED
        BY <1>5, <1>6, <2>1, <3>2, <4>1, <4>2
    <3> QED
      BY <1>5, <3>1, <3>2
  <2> QED
    BY <1>3, <2>3, <2>4 DEF TaskInOrder
<1>8. HoldsLastTask'
  BY <1>1, <1>3, <1>4 DEF HoldsLastTask, SessionTypeOK, Generation
<1>9. AtLogin' = AtLogin
  BY DEF AtLogin
<1>10. ~AtLogin => BehindLogin'
  <2>1. CASE g = generation
    BY <1>1, <1>3, <1>5, <2>1 DEF BehindLogin
  <2>2. CASE g # generation
    BY <1>1, <1>3, <1>4, <2>2 DEF BehindLogin, SessionTypeOK, Generation
  <2> QED
    BY <2>1, <2>2
<1>11. OthersQuiet'
  <2>1. /\ Len(inbox') = Len(inbox) + 1
        /\ \A i \in 1..Len(inbox) : inbox'[i] = inbox[i]
        /\ inbox'[Len(inbox) + 1] = [kind |-> kind, from |-> g]
    BY <1>2, PostType
  <2>2. Len(inbox) \in Nat
    BY DEF SessionTypeOK
  <2>3. ASSUME NEW i \in 1..Len(inbox'), inbox'[i].kind \in {"Snapshot", "Event"}
        PROVE  inbox'[i].from = generation /\ ~AtLogin
    <3>1. CASE i \in 1..Len(inbox)
      BY <1>1, <2>1, <2>3, <3>1 DEF OthersQuiet
    <3>2. CASE i = Len(inbox) + 1
      BY <1>1, <2>1, <2>3, <3>2 DEF OthersQuiet
    <3> QED
      BY <2>1, <2>2, <2>3, <3>1, <3>2
  <2> QED
    BY <1>1, <1>4, <1>9, <2>3 DEF OthersQuiet
<1> QED
  BY <1>4, <1>7, <1>8, <1>9, <1>10, <1>11 DEF SessionInv

-----------------------------------------------------------------------------

\* Whatever a task does, aborted or not.
LEMMA TaskStepInv ==
  ASSUME SessionTypeOK, SessionInv, ~stopped, NEW g \in Generation, TaskStep(g)
  PROVE  SessionInv'
PROOF
<1> USE DEF Becomes, Goes
<1>0. task[g] \in TaskState /\ commands[g] \in Seq({"JoinTable", "LeaveTable"})
  BY DEF SessionTypeOK
<1>1. ASSUME NEW l \in {"connect", "auth", "forward", "ended"}
      PROVE  [task[g] EXCEPT !.pc = l] \in TaskState
  BY <1>0 DEF TaskState
<1>2. ASSUME NEW l, task' = [task EXCEPT ![g] = [task[g] EXCEPT !.pc = l]],
             UNCHANGED commands, task[g].pc # "ended", Quiet(g)
      PROVE  Quiet(g)'
  BY <1>0, <1>2 DEF Quiet, SessionTypeOK, TaskState
<1>3. CASE Connect(g)
  <2> DEFINE t == [task[g] EXCEPT !.pc = "auth"]
  <2>1. t \in TaskState /\ t.pc = "auth"
    BY <1>0, <1>1 DEF TaskState
  <2>2. /\ task' = [task EXCEPT ![g] = t] /\ UNCHANGED <<appVars, inbox, commands>>
        /\ task[g].pc = "connect"
    BY <1>3 DEF Connect
  <2>3. Quiet(g) => Quiet(g)'
    BY <1>2, <2>2
  <2> HIDE DEF t
  <2> QED
    BY <2>1, <2>2, <2>3, TaskSilent
<1>4. CASE Die(g)
  <2> DEFINE t == [task[g] EXCEPT !.pc = "ended"]
  <2>1. t \in TaskState /\ t.pc = "ended"
    BY <1>0, <1>1 DEF TaskState
  <2>2. /\ task' = [task EXCEPT ![g] = t] /\ UNCHANGED <<appVars, inbox, commands>>
        /\ task[g].pc # "ended"
    BY <1>4 DEF Die
  <2>3. Quiet(g) => Quiet(g)'
    BY <1>2, <2>2
  <2>4. task[g].pc # "new"
    BY <1>4 DEF Die, SessionInv, TaskInOrder
  <2> HIDE DEF t
  <2> QED
    BY <2>1, <2>2, <2>3, <2>4, TaskSilent
<1>5. CASE Fail(g) \/ AuthOk(g) \/ EndSession(g)
  <2>1. PICK kind \in TaskEvent, l \in {"forward", "ended"} :
          /\ task' = [task EXCEPT ![g] = [task[g] EXCEPT !.pc = l]]
          /\ UNCHANGED <<appVars, commands>>
          /\ Post(kind, g)
          /\ task[g].pc \in {"connect", "auth", "forward"}
          /\ kind \in {"WsDisconnected", "AuthFailed"} => l = "ended"
          /\ kind \in {"WsConnected", "AuthFailed"} => task[g].pc \in {"connect", "auth"}
          /\ kind \notin {"Snapshot", "Event"}
    BY <1>5 DEF Fail, AuthOk, EndSession, TaskEvent
  <2> DEFINE t == [task[g] EXCEPT !.pc = l]
  <2>2. t \in TaskState /\ t.pc = l
    BY <1>0, <1>1 DEF TaskState
  <2>3. Quiet(g) => Quiet(g)'
    BY <1>2, <2>1
  <2>4. task' = [task EXCEPT ![g] = t]
    BY <2>1
  <2> HIDE DEF t
  <2> QED
    BY <2>1, <2>2, <2>3, <2>4, TaskPosts
<1>6. CASE ForwardCommand(g)
  <2> DEFINE t == IF Head(commands[g]) = "JoinTable"
                  THEN [task[g] EXCEPT !.joins = @ + 1]
                  ELSE task[g]
  <2> DEFINE n == task[g].joins + 1
  <2>0. n \in Nat
    BY <1>0 DEF TaskState
  <2> HIDE DEF n
  <2>1. /\ [task[g] EXCEPT !.joins = n] \in TaskState
        /\ [task[g] EXCEPT !.joins = n].pc = task[g].pc
    BY <1>0, <2>0 DEF TaskState
  <2>4. t \in TaskState /\ t.pc = task[g].pc
    BY <1>0, <2>1 DEF n
  <2>2. /\ task' = [task EXCEPT ![g] = t] /\ UNCHANGED <<appVars, inbox>>
        /\ \A h \in Generation \ {g} : commands'[h] = commands[h]
        /\ task[g].pc = "forward" /\ commands[g] # <<>>
    BY <1>6 DEF ForwardCommand, SessionTypeOK
  <2>3. ~Quiet(g)
    BY <2>2 DEF Quiet
  <2> HIDE DEF t
  <2> QED
    BY <2>2, <2>3, <2>4, TaskSilent
<1>7. CASE ForwardMessage(g)
  <2>1. PICK k \in ServerMessages(g) :
          /\ IF k = "Refusal" THEN UNCHANGED inbox ELSE Post(k, g)
          /\ task' = [task EXCEPT ![g] = [task[g] EXCEPT
               !.sent = @ + 1,
               !.joins = IF k \in {"Snapshot", "Refusal"} THEN @ - 1 ELSE @,
               !.visited = @ \/ k = "Snapshot"]]
          /\ UNCHANGED <<appVars, commands>>
          /\ task[g].pc = "forward"
    BY <1>7 DEF ForwardMessage, appVars
  <2> DEFINE t == [task[g] EXCEPT
               !.sent = @ + 1,
               !.joins = IF k \in {"Snapshot", "Refusal"} THEN @ - 1 ELSE @,
               !.visited = @ \/ k = "Snapshot"]
  <2>2. t \in TaskState /\ t.pc = "forward"
    <3>1. task[g].sent + 1 \in 0..MaxMessages
      BY <1>7, <1>0 DEF ForwardMessage, TaskState
    <3>2. k \in {"Snapshot", "Refusal"} => task[g].joins - 1 \in Nat
      BY <1>0 DEF ServerMessages, TaskState
    <3> QED
      BY <1>0, <2>1, <3>1, <3>2 DEF TaskState
  <2>3. k \in {"Snapshot", "Refusal", "Event"} => ~Quiet(g)
    BY <1>0, <2>1 DEF ServerMessages, Quiet, TaskState
  <2>4. Quiet(g) => k = "Balance"
    BY <2>3 DEF ServerMessages
  <2>5. k = "Balance" => t.joins = task[g].joins /\ t.visited = task[g].visited
    BY <1>0 DEF TaskState
  <2>6. task' = [task EXCEPT ![g] = t]
    BY <2>1
  <2> HIDE DEF t
  <2>7. Quiet(g) => Quiet(g)'
    BY <2>1, <2>2, <2>4, <2>5, <2>6 DEF Quiet, SessionTypeOK
  <2>8. CASE k = "Refusal"
    BY <2>1, <2>2, <2>3, <2>6, <2>8, TaskSilent
  <2>9. CASE k # "Refusal"
    <3>1. k \in TaskEvent /\ k \notin {"WsConnected", "WsDisconnected", "AuthFailed"}
      BY <2>9 DEF ServerMessages, TaskEvent
    <3> QED
      BY <2>1, <2>2, <2>3, <2>6, <2>7, <2>9, <3>1, TaskPosts
  <2> QED
    BY <2>8, <2>9
<1> QED
  BY <1>3, <1>4, <1>5, <1>6, <1>7 DEF TaskStep

\* What holds of the channel after its head is taken.
LEMMA LoopTakes ==
  ASSUME SessionTypeOK, SessionInv, ~stopped, inbox # <<>>, inbox' = Tail(inbox),
         UNCHANGED <<generation, task, commands>>
  PROVE  /\ \A g \in Generation : TaskInOrder(g)' /\ Quiet(g)' = Quiet(g)
         /\ \A g : Posts(g) = {} => Posts(g)' = {}
         /\ \A g : \A i \in Posts(g)' : i + 1 \in Posts(g) /\ inbox'[i] = inbox[i + 1]
         /\ \A i \in 1..Len(inbox') : i + 1 \in 1..Len(inbox) /\ inbox'[i] = inbox[i + 1]
         /\ \A g : NextEvent.from = g <=> 1 \in Posts(g)
         /\ NextEvent = inbox[1] /\ NextEvent \in AppEvent
PROOF
<1>1. \A g \in Generation : TaskInOrder(g)' /\ Quiet(g)' = Quiet(g)
  BY OrderTaken DEF SessionInv, Quiet
<1>2. ASSUME NEW g
      PROVE  /\ Posts(g) = {} => Posts(g)' = {}
             /\ \A i \in Posts(g)' : i + 1 \in Posts(g) /\ inbox'[i] = inbox[i + 1]
             /\ NextEvent.from = g <=> 1 \in Posts(g)
  BY PostsTaken
<1>3. /\ \A i \in 1..Len(inbox') : i + 1 \in 1..Len(inbox) /\ inbox'[i] = inbox[i + 1]
      /\ NextEvent = inbox[1] /\ NextEvent \in AppEvent
  BY TakeType
<1>4. ASSUME NEW g, NEW i \in Posts(g)'
      PROVE  i + 1 \in Posts(g) /\ inbox'[i] = inbox[i + 1]
  BY <1>2
<1> QED
  BY <1>1, <1>2, <1>3, <1>4

\* An event that changes no more than the queue of events leaves the session alone.
LEMMA LoopIgnores ==
  ASSUME SessionTypeOK, SessionInv, ~stopped, inbox # <<>>, inbox' = Tail(inbox),
         UNCHANGED <<generation, task, commands, stopped, wsTx, identity>>,
         AtLogin' = AtLogin
  PROVE  SessionInv'
PROOF
<1>1. /\ HoldsLastTask
      /\ ~AtLogin => BehindLogin
      /\ OthersQuiet
  BY DEF SessionInv
<1>2. /\ \A g \in Generation : TaskInOrder(g)' /\ Quiet(g)' = Quiet(g)
      /\ Posts(generation) = {} => Posts(generation)' = {}
      /\ \A i \in Posts(generation)' : i + 1 \in Posts(generation) /\ inbox'[i] = inbox[i + 1]
      /\ \A i \in 1..Len(inbox') : i + 1 \in 1..Len(inbox) /\ inbox'[i] = inbox[i + 1]
  BY LoopTakes
<1>4. HoldsLastTask'
  BY <1>1, <1>2 DEF HoldsLastTask
<1>5. ~AtLogin => BehindLogin'
  BY <1>1, <1>2 DEF BehindLogin
<1>6. OthersQuiet'
  BY <1>1, <1>2 DEF OthersQuiet
<1> QED
  BY <1>2, <1>4, <1>5, <1>6 DEF SessionInv

\* A task that has been let in opens the lobby if it is the last one started.
LEMMA ConnectedInv ==
  ASSUME SessionTypeOK, SessionInv, HandleConnected
  PROVE  SessionInv'
PROOF
<1>1. /\ ~stopped /\ inbox # <<>> /\ inbox' = Tail(inbox)
      /\ UNCHANGED <<generation, task, commands, stopped, wsTx>>
      /\ NextEvent.kind = "WsConnected"
  BY DEF HandleConnected, Take
<1>2. CASE ~Current
  BY <1>1, <1>2, LoopIgnores DEF HandleConnected, AtLogin
<1>3. CASE Current
  <2>1. identity' = generation /\ screen' = "lobby"
    BY <1>3 DEF HandleConnected, Current
  <2>2. /\ \A g \in Generation : TaskInOrder(g)' /\ Quiet(g)' = Quiet(g)
        /\ \A i \in Posts(generation)' : i + 1 \in Posts(generation) /\ inbox'[i] = inbox[i + 1]
        /\ \A i \in 1..Len(inbox') : i + 1 \in 1..Len(inbox) /\ inbox'[i] = inbox[i + 1]
        /\ 1 \in Posts(generation)
        /\ NextEvent = inbox[1] /\ NextEvent \in AppEvent
        /\ Posts(generation) \subseteq Nat \ {0}
    BY <1>1, <1>3, LoopTakes, PostsTaken DEF Current
  <2>3. generation \in Generation /\ inbox[1].kind = "WsConnected"
    BY <1>1, <1>3, <2>2 DEF AppEvent, Current, PollAnswer
  <2>4. AtLogin
    BY <1>1, <2>2, <2>3 DEF SessionInv, BehindLogin
  <2>5. wsTx = generation /\ generation # 0
    BY <1>1, <2>2, <2>3 DEF SessionInv, HoldsLastTask, Generation
  <2>6. TaskInOrder(generation)
    BY <1>1, <2>3 DEF SessionInv
  <2>7. task[generation].pc \in {"forward", "ended"}
    BY <2>2, <2>3, <2>6 DEF TaskInOrder, SessionTypeOK, TaskState
  <2>8. ASSUME NEW i \in Posts(generation)'
        PROVE  inbox'[i].kind \notin {"WsConnected", "AuthFailed"}
    <3>1. i + 1 \in Posts(generation) /\ inbox'[i] = inbox[i + 1] /\ i \in Nat /\ i # 0
      BY <2>2, <2>8, PostsTaken DEF Posts
    <3>2. inbox[i + 1].kind # "AuthFailed"
      BY <2>2, <2>6, <3>1 DEF TaskInOrder
    <3>3. inbox[i + 1].kind # "WsConnected"
      BY <2>2, <2>6, <3>1 DEF TaskInOrder
    <3> QED
      BY <3>1, <3>2, <3>3
  <2>9. BehindLogin'
    BY <1>1, <2>1, <2>5, <2>7, <2>8 DEF BehindLogin
  <2>10. HoldsLastTask'
    BY <1>1, <2>5 DEF HoldsLastTask
  <2>11. OthersQuiet'
    BY <1>1, <2>2, <2>4 DEF OthersQuiet, SessionInv
  <2> QED
    BY <1>1, <2>1, <2>2, <2>9, <2>10, <2>11 DEF SessionInv
<1> QED
  BY <1>2, <1>3

\* The end of the last task is the last of its events: nothing of it comes after the
\* login screen does.
LEMMA DisconnectedInv ==
  ASSUME SessionTypeOK, SessionInv, HandleDisconnected \/ HandleFailed
  PROVE  SessionInv'
PROOF
<1>1. /\ ~stopped /\ inbox # <<>> /\ inbox' = Tail(inbox)
      /\ UNCHANGED <<generation, task, commands, stopped, identity>>
      /\ NextEvent.kind \in {"WsDisconnected", "AuthFailed"}
  BY DEF HandleDisconnected, HandleFailed, Take
<1>2. CASE ~Current
  BY <1>1, <1>2, LoopIgnores DEF HandleDisconnected, HandleFailed, AtLogin
<1>3. CASE Current
  <2>1. wsTx' = 0 /\ screen' = "error"
    BY <1>3 DEF HandleDisconnected, HandleFailed
  <2>2. /\ \A g \in Generation : TaskInOrder(g)' /\ Quiet(g)' = Quiet(g)
        /\ \A i \in Posts(generation)' : i \in Nat /\ i + 1 \in Posts(generation)
        /\ \A i \in 1..Len(inbox') : i + 1 \in 1..Len(inbox) /\ inbox'[i] = inbox[i + 1]
        /\ 1 \in Posts(generation)
        /\ NextEvent = inbox[1] /\ NextEvent \in AppEvent
        /\ Posts(generation) \subseteq Nat \ {0}
    BY <1>1, <1>3, LoopTakes, PostsTaken DEF Current
  <2>3. generation \in Generation /\ inbox[1].kind \in {"WsDisconnected", "AuthFailed"}
    BY <1>1, <1>3, <2>2 DEF AppEvent, Current, PollAnswer
  <2>4. TaskInOrder(generation)
    BY <1>1, <2>3 DEF SessionInv
  <2>5. task[generation].pc = "ended" /\ \A j \in Posts(generation) : j <= 1
    BY <2>2, <2>3, <2>4 DEF TaskInOrder
  <2>6. Posts(generation)' = {}
    <3> SUFFICES ASSUME NEW i \in Posts(generation)' PROVE FALSE
      OBVIOUS
    <3>1. i \in Nat /\ i + 1 <= 1 /\ i \in 1..Len(inbox')
      BY <2>2, <2>5 DEF Posts
    <3> QED
      BY <3>1
  <2>7. HoldsLastTask'
    BY <1>1, <2>1, <2>5, <2>6 DEF HoldsLastTask
  <2>8. \A g \in Generation : Quiet(g)'
    BY <1>1, <2>2, <2>5 DEF SessionInv, OthersQuiet, Quiet
  <2>9. \A i \in 1..Len(inbox') : inbox'[i].kind \notin {"Snapshot", "Event"}
    <3> SUFFICES ASSUME NEW i \in 1..Len(inbox'), inbox'[i].kind \in {"Snapshot", "Event"}
                 PROVE  FALSE
      OBVIOUS
    <3>1. inbox'[i].from = generation
      BY <1>1, <2>2 DEF SessionInv, OthersQuiet
    <3> QED
      BY <1>1, <2>6, <3>1 DEF Posts
  <2>10. AtLogin'
    BY <2>1 DEF AtLogin
  <2> QED
    BY <1>1, <2>2, <2>7, <2>8, <2>9, <2>10 DEF SessionInv, OthersQuiet
<1> QED
  BY <1>2, <1>3

\* A snapshot leads from the lobby to the table, never away from the login screen.
LEMMA MessageInv ==
  ASSUME SessionTypeOK, SessionInv, HandleMessage
  PROVE  SessionInv'
PROOF
<1>1. /\ ~stopped /\ inbox # <<>> /\ inbox' = Tail(inbox)
      /\ UNCHANGED <<generation, task, commands, stopped, wsTx, identity>>
  BY DEF HandleMessage, Take
<1>2. NextEvent = inbox[1] /\ 1 \in 1..Len(inbox)
  BY <1>1, TakeType
<1>3. NextEvent.kind = "Snapshot" => ~AtLogin
  BY <1>1, <1>2 DEF SessionInv, OthersQuiet
<1>4. AtLogin' = AtLogin
  BY <1>3 DEF HandleMessage, AtLogin
<1> QED
  BY <1>1, <1>4, LoopIgnores

-----------------------------------------------------------------------------

\* A new login takes the next number, of which nothing has been heard, and gives up
\* the task before.
LEMMA EnterLoginInv ==
  ASSUME SessionTypeOK, SessionInv, EnterLogin
  PROVE  SessionInv'
PROOF
<1> PICK n \in Generation : n = generation + 1
  BY DEF EnterLogin, SessionTypeOK, Generation
<1>1. /\ ~stopped /\ AtLogin /\ generation < MaxLogins
      /\ generation' = n
      /\ wsTx' = generation' /\ screen' = "connecting"
      /\ UNCHANGED <<inbox, commands, stopped>>
  BY DEF EnterLogin, SessionTypeOK, Generation
<1>2. /\ \A g \in Generation : TaskInOrder(g)
      /\ OthersQuiet
  BY <1>1 DEF SessionInv
<1>3. /\ task'[n] = NewTask
      /\ \A g \in Generation \ {n} :
           \/ task'[g] = [task[g] EXCEPT !.aborted = TRUE] /\ g = generation
           \/ task'[g] = task[g]
  BY <1>1 DEF EnterLogin
<1>4. ASSUME NEW g \in Generation \ {n}
      PROVE  /\ task'[g].pc = task[g].pc /\ task'[g].joins = task[g].joins
             /\ task'[g].visited = task[g].visited
             /\ task'[g].aborted => task[g].aborted \/ g = generation
  BY <1>3 DEF SessionTypeOK, TaskState
<1>5. \A g : Posts(g)' = Posts(g)
  BY <1>1 DEF Posts
<1>6. generation \in Nat /\ \A g \in Generation : g \in Nat
  BY DEF SessionTypeOK, Generation
<1>7. ASSUME NEW g \in Generation \ {n}
      PROVE  TaskInOrder(g)' /\ Quiet(g)'
  <2>1. g <= generation <=> g <= n
    BY <1>1, <1>6
  <2>2. Quiet(g)
    BY <1>1, <1>2 DEF OthersQuiet
  <2>3. Quiet(g)'
    BY <1>1, <1>4, <2>2 DEF Quiet
  <2>4. task'[g].aborted => g <= n
    BY <1>2, <1>4, <1>6, <2>1 DEF TaskInOrder
  <2> QED
    BY <1>1, <1>2, <1>4, <1>5, <2>1, <2>2, <2>3, <2>4 DEF TaskInOrder
<1>8. TaskInOrder(n)' /\ Quiet(n)'
  <2>1. TaskInOrder(n) /\ Quiet(n) /\ ~(n <= generation)
    BY <1>1, <1>2, <1>6 DEF OthersQuiet
  <2>2. task[n].pc = "new" /\ Posts(n) = {}
    BY <2>1 DEF TaskInOrder
  <2>3. commands[n] = <<>>
    BY <2>1, <2>2 DEF Quiet
  <2>4. Quiet(n)'
    BY <1>1, <1>3, <2>3 DEF Quiet, NewTask
  <2> QED
    BY <1>1, <1>3, <1>5, <1>6, <2>2, <2>4 DEF TaskInOrder, NewTask
<1>9. \A g \in Generation : TaskInOrder(g)' /\ Quiet(g)'
  BY <1>7, <1>8
<1>10. HoldsLastTask'
  BY <1>1, <1>6 DEF HoldsLastTask
<1>11. AtLogin'
  BY <1>1 DEF AtLogin
<1>12. OthersQuiet'
  BY <1>1, <1>2, <1>9 DEF OthersQuiet
<1> QED
  BY <1>9, <1>10, <1>11, <1>12 DEF SessionInv

\* Keys that leave the connections alone.
LEMMA OtherKeysInv ==
  ASSUME SessionTypeOK, SessionInv, EnterTable \/ BackToLobby \/ Quit
  PROVE  SessionInv'
PROOF
<1>1. CASE Quit
  BY <1>1 DEF Quit, SessionInv
<1>2. CASE EnterTable \/ BackToLobby
  <2>1. /\ ~stopped /\ ~AtLogin /\ ~AtLogin'
        /\ UNCHANGED <<generation, wsTx, identity, stopped, inbox, task>>
    BY <1>2 DEF EnterTable, BackToLobby, AtLogin
  <2>2. \A g \in Generation : TaskInOrder(g)
    BY <2>1 DEF SessionInv
  <2>3. BehindLogin /\ OthersQuiet /\ HoldsLastTask
    BY <2>1 DEF SessionInv
  <2>4. ASSUME NEW g \in Generation \ {generation} PROVE commands'[g] = commands[g]
    BY <1>2, <2>3 DEF EnterTable, BackToLobby, Command, BehindLogin, SessionTypeOK
  <2>5. \A g : Posts(g)' = Posts(g)
    BY <2>1 DEF Posts
  <2>6. ASSUME NEW g \in Generation PROVE TaskInOrder(g)'
    <3>1. CASE g = generation
      BY <2>1, <2>2, <2>3, <2>5, <3>1 DEF TaskInOrder, BehindLogin
    <3>2. CASE g # generation
      BY <2>1, <2>2, <2>4, <2>5, <3>2, OrderOfOthers
    <3> QED
      BY <3>1, <3>2
  <2>7. HoldsLastTask'
    BY <2>1, <2>3, <2>5 DEF HoldsLastTask
  <2>8. BehindLogin'
    BY <2>1, <2>3, <2>5 DEF BehindLogin
  <2>9. OthersQuiet'
    BY <2>1, <2>3, <2>4 DEF OthersQuiet, Quiet
  <2> QED
    BY <2>6, <2>7, <2>8, <2>9 DEF SessionInv
<1> QED
  BY <1>1, <1>2

\* The answer of a poll is of no task.
LEMMA PollInv ==
  ASSUME SessionTypeOK, SessionInv, ~stopped, PollEnds
  PROVE  SessionInv'
PROOF
<1>1. PICK answer \in PollAnswer : Post(answer, 0)
  BY DEF PollEnds
<1>2. UNCHANGED <<generation, wsTx, identity, screen, stopped, task, commands>>
  BY DEF PollEnds, appVars
<1>3. [kind |-> answer, from |-> 0] \in AppEvent
  BY DEF AppEvent
<1>4. /\ \A g \in Generation : TaskInOrder(g)
      /\ HoldsLastTask
      /\ ~AtLogin => BehindLogin
      /\ OthersQuiet
  BY DEF SessionInv
<1>5. ASSUME NEW g, g # 0
      PROVE  Posts(g)' = Posts(g) /\ \A i \in Posts(g) : inbox'[i] = inbox[i]
  BY <1>1, <1>3, <1>5, PostsOfOthers
<1>6. ASSUME NEW g \in Generation PROVE TaskInOrder(g)' /\ Quiet(g)' = Quiet(g)
  <2>1. g # 0
    BY DEF Generation
  <2> QED
    BY <1>2, <1>4, <1>5, <2>1, OrderOfOthers
<1>7. HoldsLastTask'
  BY <1>2, <1>4, <1>5 DEF HoldsLastTask
<1>8. ~AtLogin => BehindLogin'
  BY <1>2, <1>4, <1>5 DEF BehindLogin
<1>9. AtLogin' = AtLogin
  BY <1>2 DEF AtLogin
<1>10. OthersQuiet'
  <2>1. /\ Len(inbox') = Len(inbox) + 1
        /\ \A i \in 1..Len(inbox) : inbox'[i] = inbox[i]
        /\ inbox'[Len(inbox) + 1] = [kind |-> answer, from |-> 0]
    BY <1>1, <1>3, PostType
  <2>2. Len(inbox) \in Nat
    BY DEF SessionTypeOK
  <2>3. ASSUME NEW i \in 1..Len(inbox'), inbox'[i].kind \in {"Snapshot", "Event"}
        PROVE  inbox'[i].from = generation /\ ~AtLogin
    <3>1. CASE i \in 1..Len(inbox)
      BY <1>4, <2>1, <2>3, <3>1 DEF OthersQuiet
    <3>2. CASE i = Len(inbox) + 1
      BY <2>1, <2>3, <3>2 DEF PollAnswer
    <3> QED
      BY <2>1, <2>2, <2>3, <3>1, <3>2
  <2> QED
    BY <1>2, <1>4, <1>6, <1>9, <2>3 DEF OthersQuiet
<1> QED
  BY <1>6, <1>7, <1>8, <1>9, <1>10 DEF SessionInv

\* The invariant is inductive.
LEMMA SessionInvStep ==
  ASSUME SessionTypeOK, SessionInv, [Next]_vars
  PROVE  SessionInv'
PROOF
<1>1. CASE stopped
  <2>1. stopped'
    BY <1>1 DEF Next, Keys, Loop, EnterLogin, EnterTable, BackToLobby, Quit, ApplyQueued,
                StartPoll, HandlePoll, HandleConnected, HandleDisconnected, HandleFailed,
                HandleMessage, Take, PollEnds, TaskStep, Connect, Fail, AuthOk,
                ForwardCommand, ForwardMessage, EndSession, Die, vars, appVars
  <2> QED
    BY <2>1 DEF SessionInv
<1>2. CASE ~stopped
  <2>1. CASE Keys
    BY <2>1, EnterLoginInv, OtherKeysInv DEF Keys
  <2>2. CASE ApplyQueued \/ StartPoll \/ UNCHANGED vars
    <3>1. UNCHANGED <<generation, wsTx, identity, screen, stopped, inbox, task, commands>>
      BY <2>2 DEF ApplyQueued, StartPoll, vars, appVars
    <3> QED
      BY <3>1 DEF SessionInv, TaskInOrder, HoldsLastTask, BehindLogin, OthersQuiet,
                  Posts, Quiet, AtLogin
  <2>3. CASE HandlePoll
    <3>1. /\ inbox # <<>> /\ inbox' = Tail(inbox)
          /\ UNCHANGED <<generation, task, commands, stopped, wsTx, identity, screen>>
      BY <2>3 DEF HandlePoll, Take
    <3> QED
      BY <1>2, <3>1, LoopIgnores DEF AtLogin
  <2>4. CASE HandleConnected
    BY <2>4, ConnectedInv
  <2>5. CASE HandleDisconnected \/ HandleFailed
    BY <2>5, DisconnectedInv
  <2>6. CASE HandleMessage
    BY <2>6, MessageInv
  <2>7. CASE PollEnds
    BY <1>2, <2>7, PollInv
  <2>8. ASSUME NEW g \in Generation, TaskStep(g) PROVE SessionInv'
    BY <1>2, <2>8, TaskStepInv
  <2> QED
    BY <2>1, <2>2, <2>3, <2>4, <2>5, <2>6, <2>7, <2>8 DEF Next, Loop
<1> QED
  BY <1>1, <1>2

-----------------------------------------------------------------------------
(***************************************************************************)
(* The theorems.                                                            *)
(***************************************************************************)

\* Nothing has been started, and nothing is in the channel.
LEMMA InitInv == Init => SessionTypeOK /\ SessionInv
PROOF
<1> SUFFICES ASSUME Init PROVE SessionTypeOK /\ SessionInv
  OBVIOUS
<1>1. /\ \A g \in Generation : task[g] = NotStarted /\ commands[g] = <<>>
      /\ \A g : Posts(g) = {}
  BY DEF Init, Posts
<1>2. NotStarted \in TaskState /\ NotStarted.pc = "new" /\ NotStarted.joins = 0
        /\ ~NotStarted.visited /\ ~NotStarted.aborted
  <2>1. NewTask.joins = 0 /\ ~NewTask.visited /\ ~NewTask.aborted
    BY DEF NewTask
  <2> QED
    BY <2>1, NewTaskType DEF NotStarted, TaskState
<1>3. SessionTypeOK
  <2>1. task \in [Generation -> TaskState]
    BY <1>2 DEF Init
  <2>2. events \in Seq(Generation) /\ inbox \in Seq(AppEvent) /\ Len(inbox) <= ChannelSize
    BY DEF Init
  <2>3. commands \in [Generation -> Seq({"JoinTable", "LeaveTable"})]
    BY DEF Init
  <2>4. atTable \in BOOLEAN /\ inFlight \in BOOLEAN /\ stopped \in BOOLEAN
    BY DEF Init
  <2>5. 0 \in 0..MaxLogins
    OBVIOUS
  <2>6. /\ generation \in 0..MaxLogins /\ wsTx \in 0..MaxLogins
        /\ identity \in 0..MaxLogins /\ polls \in Nat
    BY <2>5 DEF Init
  <2>7. screen \in Screen
    BY DEF Init, Screen
  <2> QED
    BY <2>1, <2>2, <2>3, <2>4, <2>6, <2>7 DEF SessionTypeOK
<1>4. \A g \in Generation : Quiet(g)
  BY <1>1, <1>2 DEF Quiet
<1>5. \A g \in Generation : TaskInOrder(g)
  BY <1>1, <1>2, <1>4 DEF TaskInOrder, Init, Generation
<1>6. AtLogin /\ HoldsLastTask /\ OthersQuiet
  BY <1>4 DEF Init, AtLogin, HoldsLastTask, OthersQuiet
<1> QED
  BY <1>3, <1>5, <1>6 DEF SessionInv

\* The inductive invariant holds in every reachable state.
LEMMA SessionInvariance == Spec => [](SessionTypeOK /\ SessionInv)
PROOF
<1>1. SessionTypeOK /\ SessionInv /\ [Next]_vars => (SessionTypeOK /\ SessionInv)'
  BY TypeStep, SessionInvStep
<1> QED
  BY InitInv, <1>1, PTL DEF Spec

\* Every variable keeps its type, the channel its capacity.
THEOREM SessionTypeCorrect == Spec => []SessionTypeOK
PROOF
  BY SessionInvariance, PTL

\* Lobby and table belong to the login last asked for.
THEOREM SessionIsCurrentHolds == Spec => []SessionIsCurrent
PROOF
<1>1. SessionInv => SessionIsCurrent
  BY DEF SessionInv, BehindLogin, SessionIsCurrent
<1> QED
  BY SessionInvariance, <1>1, PTL

\* No snapshot and no event of a session that was given up or lost is ever handled.
THEOREM NoStaleMessagesHolds == Spec => NoStaleMessages
PROOF
<1> DEFINE A == \A kind \in {"Snapshot", "Event"} :
                  inbox # <<>> /\ NextEvent.kind = kind /\ inbox' = Tail(inbox) =>
                    NextEvent.from = generation /\ ~AtLogin
<1>1. ASSUME SessionTypeOK, SessionInv, [Next]_vars PROVE [A]_vars
  <2> SUFFICES ASSUME inbox # <<>>, inbox' = Tail(inbox),
                      NextEvent.kind \in {"Snapshot", "Event"}
               PROVE  NextEvent.from = generation /\ ~AtLogin
    OBVIOUS
  <2>1. NextEvent = inbox[1] /\ 1 \in 1..Len(inbox) /\ Len(inbox') = Len(inbox) - 1
          /\ Len(inbox) \in Nat
    <3>1. /\ NextEvent = inbox[1]
          /\ Len(inbox) \in Nat \ {0}
          /\ Len(inbox') = Len(inbox) - 1
      BY <1>1, TakeType
    <3> QED
      BY <3>1
  <2>2. ~stopped
    <3> SUFFICES ASSUME stopped PROVE FALSE
      OBVIOUS
    <3>1. UNCHANGED inbox \/ \E e : inbox' = Append(inbox, e)
      BY <1>1 DEF Next, Keys, Loop, EnterLogin, EnterTable, BackToLobby, Quit, ApplyQueued,
           StartPoll, HandlePoll, HandleConnected, HandleDisconnected, HandleFailed,
           HandleMessage, Take, PollEnds, TaskStep, Connect, Fail, AuthOk, Post,
           ForwardCommand, ForwardMessage, EndSession, Die, vars, appVars
    <3>2. inbox \in Seq(AppEvent)
      BY <1>1 DEF SessionTypeOK
    <3>3. ASSUME NEW e PROVE Len(Append(inbox, e)) = Len(inbox) + 1
      <4>1. inbox \in Seq(AppEvent \cup {e})
        BY <3>2, SeqMonotonic
      <4> QED
        BY <4>1, AppendProperties
    <3>4. ASSUME NEW e, inbox' = Append(inbox, e) PROVE FALSE
      <4>1. Len(inbox') = Len(inbox) + 1
        BY <3>3, <3>4
      <4> QED
        BY <2>1, <4>1
    <3>5. ASSUME inbox' = inbox PROVE FALSE
      <4>1. Len(inbox') = Len(inbox)
        BY <3>5
      <4> QED
        BY <2>1, <4>1
    <3> QED
      BY <3>1, <3>4, <3>5
  <2> QED
    BY <1>1, <2>1, <2>2 DEF SessionInv, OthersQuiet
<1> QED
  BY <1>1, SessionInvariance, PTL DEF Spec, NoStaleMessages

-----------------------------------------------------------------------------
(***************************************************************************)
(* The polls.                                                               *)
(***************************************************************************)

\* The answers of polls that are in the channel.
Answers == {i \in 1..Len(inbox) : inbox[i].kind \in PollAnswer}

PollsInv ==
  /\ polls \in {0, 1}
  /\ \A i, j \in Answers : i = j
  /\ inFlight <=> polls = 1 \/ Answers # {}
  /\ polls = 1 => Answers = {}

\* What is posted is an answer or is not.
LEMMA AnswersPosted ==
  ASSUME SessionTypeOK,
         NEW kind, NEW g, [kind |-> kind, from |-> g] \in AppEvent, Post(kind, g)
  PROVE  Answers' = IF kind \in PollAnswer THEN Answers \cup {Len(inbox) + 1} ELSE Answers
PROOF
<1>1. /\ Len(inbox') = Len(inbox) + 1
      /\ \A i \in 1..Len(inbox) : inbox'[i] = inbox[i]
      /\ inbox'[Len(inbox) + 1] = [kind |-> kind, from |-> g]
  BY PostType
<1>2. Len(inbox) \in Nat
  BY DEF SessionTypeOK
<1>3. 1..Len(inbox') = 1..Len(inbox) \cup {Len(inbox) + 1}
  BY <1>1, <1>2
<1> QED
  BY <1>1, <1>3 DEF Answers

\* The loop takes something else than an answer, or the one answer there is.
LEMMA AnswersTaken ==
  ASSUME SessionTypeOK, PollsInv, inbox # <<>>, inbox' = Tail(inbox)
  PROVE  /\ NextEvent.kind \in PollAnswer => polls = 0 /\ Answers' = {}
         /\ NextEvent.kind \notin PollAnswer =>
              /\ \A i, j \in Answers' : i = j
              /\ Answers' = {} <=> Answers = {}
PROOF
<1>1. /\ NextEvent = inbox[1]
      /\ Len(inbox) \in Nat \ {0} /\ Len(inbox') = Len(inbox) - 1
      /\ \A i \in 1..Len(inbox') : i + 1 \in 1..Len(inbox) /\ inbox'[i] = inbox[i + 1]
  BY TakeType
<1>2. \A i \in Answers' : i \in Nat \ {0} /\ i + 1 \in Answers
  BY <1>1 DEF Answers
<1>3. CASE NextEvent.kind \in PollAnswer
  <2>1. 1 \in Answers
    BY <1>1, <1>3 DEF Answers
  <2>2. Answers' = {}
    <3> SUFFICES ASSUME NEW i \in Answers' PROVE FALSE
      OBVIOUS
    <3>1. i \in Nat \ {0} /\ i + 1 = 1
      BY <1>2, <2>1 DEF PollsInv
    <3> QED
      BY <3>1
  <2>3. polls = 0
    BY <2>1 DEF PollsInv
  <2> QED
    BY <1>3, <2>2, <2>3
<1>4. CASE NextEvent.kind \notin PollAnswer
  <2>1. ASSUME NEW i \in Answers', NEW j \in Answers' PROVE i = j
    <3>1. i \in Nat /\ j \in Nat /\ i + 1 = j + 1
      BY <1>2 DEF PollsInv
    <3> QED
      BY <3>1
  <2>2. ASSUME NEW i \in Answers PROVE Answers' # {}
    <3>1. i # 1 /\ i \in 1..Len(inbox)
      BY <1>1, <1>4 DEF Answers
    <3>2. i - 1 \in 1..Len(inbox') /\ (i - 1) + 1 = i
      BY <1>1, <3>1
    <3>3. inbox'[i - 1] = inbox[i]
      BY <1>1, <3>2
    <3> QED
      BY <3>2, <3>3 DEF Answers
  <2>3. Answers = {} => Answers' = {}
    BY <1>2
  <2> QED
    BY <1>4, <2>1, <2>2, <2>3
<1> QED
  BY <1>3, <1>4

\* One step.
LEMMA PollsStep ==
  ASSUME SessionTypeOK, PollsInv, [Next]_vars
  PROVE  PollsInv'
PROOF
<1>1. CASE UNCHANGED <<polls, inbox, inFlight>>
  BY <1>1 DEF PollsInv, Answers
<1>2. CASE StartPoll
  <2>1. Answers' = Answers
    BY <1>2 DEF StartPoll, Answers
  <2>2. ~inFlight /\ inFlight' = TRUE /\ polls' = polls + 1
    BY <1>2 DEF StartPoll
  <2>3. polls = 0 /\ Answers = {}
    BY <2>2 DEF PollsInv
  <2> QED
    BY <2>1, <2>2, <2>3 DEF PollsInv
<1>3. CASE HandlePoll
  <2>1. /\ inbox # <<>> /\ inbox' = Tail(inbox) /\ NextEvent.kind \in PollAnswer
        /\ polls' = polls /\ inFlight' = FALSE
    BY <1>3 DEF HandlePoll, Take
  <2>2. polls = 0 /\ Answers' = {}
    BY <2>1, AnswersTaken
  <2> QED
    BY <2>1, <2>2 DEF PollsInv
<1>4. CASE HandleConnected \/ HandleDisconnected \/ HandleFailed \/ HandleMessage
  <2>1. /\ inbox # <<>> /\ inbox' = Tail(inbox)
        /\ polls' = polls /\ inFlight' = inFlight
        /\ NextEvent.kind \notin PollAnswer
    BY <1>4 DEF HandleConnected, HandleDisconnected, HandleFailed, HandleMessage, Take,
                PollAnswer
  <2>2. /\ \A i, j \in Answers' : i = j
        /\ Answers' = {} <=> Answers = {}
    BY <2>1, AnswersTaken
  <2> QED
    BY <2>1, <2>2 DEF PollsInv
<1>5. CASE PollEnds
  <2>1. PICK answer \in PollAnswer : Post(answer, 0)
    BY <1>5 DEF PollEnds
  <2>2. [kind |-> answer, from |-> 0] \in AppEvent
    BY DEF AppEvent
  <2>3. Answers' = Answers \cup {Len(inbox) + 1}
    BY <2>1, <2>2, AnswersPosted
  <2>4. polls = 1 /\ polls' = 0 /\ inFlight' = inFlight
    BY <1>5 DEF PollEnds, PollsInv, appVars
  <2>5. Answers' = {Len(inbox) + 1} /\ inFlight
    BY <2>3, <2>4 DEF PollsInv
  <2> QED
    BY <2>4, <2>5 DEF PollsInv
<1>6. ASSUME NEW g \in Generation, TaskStep(g) PROVE PollsInv'
  <2>1. polls' = polls /\ inFlight' = inFlight
    BY <1>6 DEF TaskStep, Connect, Fail, AuthOk, ForwardCommand, ForwardMessage,
                EndSession, Die, appVars
  <2>2. UNCHANGED inbox \/ \E kind \in TaskEvent : Post(kind, g)
    BY <1>6 DEF TaskStep, Connect, Fail, AuthOk, ForwardCommand, ForwardMessage,
                EndSession, Die, TaskEvent, ServerMessages
  <2>3. ASSUME NEW kind \in TaskEvent, Post(kind, g) PROVE Answers' = Answers
    <3>1. [kind |-> kind, from |-> g] \in AppEvent /\ kind \notin PollAnswer
      BY DEF AppEvent, TaskEvent, PollAnswer
    <3> QED
      BY <2>3, <3>1, AnswersPosted
  <2>4. Answers' = Answers
    BY <2>2, <2>3 DEF Answers
  <2> QED
    BY <2>1, <2>4 DEF PollsInv
<1>7. UNCHANGED <<polls, inbox, inFlight>>
        \/ StartPoll \/ HandlePoll
        \/ HandleConnected \/ HandleDisconnected \/ HandleFailed \/ HandleMessage
        \/ PollEnds \/ \E g \in Generation : TaskStep(g)
  BY DEF Next, Keys, Loop, EnterLogin, EnterTable, BackToLobby, Quit, ApplyQueued,
         vars, appVars
<1> QED
  BY <1>1, <1>2, <1>3, <1>4, <1>5, <1>6, <1>7

\* A poll in flight has one answer, made or in the channel; no other is ever there.
THEOREM PollsAreCountedHolds == Spec => []PollsAreCounted
PROOF
<1>1. Init => PollsInv
  BY DEF Init, PollsInv, Answers
<1>2. PollsInv => PollsAreCounted
  BY DEF PollsInv, PollsAreCounted, Answers
<1> QED
  BY <1>1, <1>2, PollsStep, SessionTypeCorrect, PTL DEF Spec

================================================================================
