----------------------------- MODULE ClientSession -----------------------------
(***************************************************************************)
(* One run of the CLI: the application loop of cli/src/app/mod.rs, the      *)
(* WebSocket tasks that spawn_ws starts and aborts, the lobby polls, and    *)
(* the keys that lead from one screen to another (cli/src/app/keys.rs).     *)
(*                                                                         *)
(* Tasks and loop meet in one channel.  WsConnected, WsDisconnected and     *)
(* AuthFailed carry the generation of their task; a WsMessage does not: the *)
(* `from' it has here is history.  What a table screen shows is ClientView, *)
(* what the server does with a connection is Connections.                   *)
(***************************************************************************)
EXTENDS Integers, Sequences

CONSTANTS MaxLogins,    \* bound: how often Enter is pressed on the login screen
          MaxMessages,  \* bound: the server messages to one connection
          MaxJoins,     \* bound: the JoinTables of one connection yet to be answered
          ChannelSize   \* the capacity of the application's channel

ASSUME SizesAssumption ==
  /\ {MaxLogins, MaxMessages, MaxJoins} \subseteq Nat
  /\ ChannelSize \in Nat \ {0}

VARIABLES generation,  \* App::ws_generation
          wsTx,        \* the task whose command channel the App holds, 0 is None
          identity,    \* the login that App::player_id is from, 0 the one of App::new
          screen,      \* App::ui
          atTable,     \* current_table_id is Some
          events,      \* App::event_queue, of each event where it is from
          inbox,       \* the channel of AppEvents
          inFlight,    \* lobby_poll_in_flight
          polls,       \* the poll tasks that run
          task,        \* the WebSocket tasks
          commands,    \* what each task has yet to take from ws_cmd_rx
          stopped      \* should_quit

appVars == <<generation, wsTx, identity, screen, atTable, events, inFlight, stopped>>
vars == <<appVars, inbox, polls, task, commands>>

-----------------------------------------------------------------------------

Generation == 1..MaxLogins

\* Screen::Login with its status, or one of the others.
Screen == {"idle", "connecting", "error", "lobby", "table"}

AtLogin == screen \in {"idle", "connecting", "error"}

\* A task connects, waits for the answer to its Auth, and forwards; `joins' of its
\* JoinTables are unanswered, it has been at a table or not, `sent' messages have come.
TaskState ==
  [pc : {"new", "connect", "auth", "forward", "ended"}, aborted : BOOLEAN,
   joins : Nat, visited : BOOLEAN, sent : 0..MaxMessages]

NewTask ==
  [pc |-> "connect", aborted |-> FALSE, joins |-> 0, visited |-> FALSE, sent |-> 0]

NotStarted == [NewTask EXCEPT !.pc = "new"]

PollAnswer == {"LobbyRefreshed", "LobbyPollDone"}

\* What a task can post.
TaskEvent == {"WsConnected", "WsDisconnected", "AuthFailed", "Snapshot", "Event", "Balance"}

AppEvent == [kind : TaskEvent, from : Generation] \cup [kind : PollAnswer, from : {0}]

\* Mutant: a channel without bound.
PostUnbounded(kind, g) == inbox' = Append(inbox, [kind |-> kind, from |-> g])

\* send().await on the application's channel.
Post(kind, g) ==
  /\ Len(inbox) < ChannelSize
  /\ inbox' = Append(inbox, [kind |-> kind, from |-> g])

Command(c) ==
  commands' = IF wsTx = 0 THEN commands ELSE [commands EXCEPT ![wsTx] = Append(@, c)]

-----------------------------------------------------------------------------
(***************************************************************************)
(* The keys.                                                                *)
(***************************************************************************)

\* Enter, also while a connection is being made; spawn_ws aborts the task before
\* and drops its command channel.
EnterLogin ==
  /\ ~stopped /\ AtLogin
  /\ generation < MaxLogins
  /\ generation' = generation + 1
  /\ task' = [g \in Generation |->
       IF g = generation' THEN NewTask
       ELSE IF g = generation THEN [task[g] EXCEPT !.aborted = TRUE] ELSE task[g]]
  /\ wsTx' = generation'
  /\ screen' = "connecting"
  /\ UNCHANGED <<identity, atTable, events, inFlight, stopped, inbox, polls, commands>>

\* Enter on a joinable table: the lobby stays until the snapshot arrives.
EnterTable ==
  /\ ~stopped /\ screen = "lobby"
  /\ wsTx # 0 => Len(commands[wsTx]) + task[wsTx].joins < MaxJoins
  /\ atTable' = TRUE
  /\ Command("JoinTable")
  /\ UNCHANGED <<generation, wsTx, identity, screen, events, inFlight, stopped>>
  /\ UNCHANGED <<inbox, polls, task>>

\* `l' of somebody who watches.
BackToLobby ==
  /\ ~stopped /\ screen = "table"
  /\ IF atTable THEN Command("LeaveTable") ELSE UNCHANGED commands
  /\ atTable' = FALSE
  /\ screen' = "lobby"
  /\ UNCHANGED <<generation, wsTx, identity, events, inFlight, stopped, inbox, polls, task>>

\* Esc, or `q' outside the login screen: ws_tx is dropped.
Quit ==
  /\ ~stopped
  /\ stopped' = TRUE
  /\ wsTx' = 0
  /\ UNCHANGED <<generation, identity, screen, atTable, events, inFlight>>
  /\ UNCHANGED <<inbox, polls, task, commands>>

Keys == EnterLogin \/ EnterTable \/ BackToLobby \/ Quit

-----------------------------------------------------------------------------
(***************************************************************************)
(* The application loop.                                                    *)
(***************************************************************************)

\* One event of the queue is applied to the table screen, if there is one.
ApplyQueued ==
  /\ ~stopped
  /\ events # <<>>
  /\ events' = Tail(events)
  /\ UNCHANGED <<generation, wsTx, identity, screen, atTable, inFlight, stopped>>
  /\ UNCHANGED <<inbox, polls, task, commands>>

\* Mutant: whether the last poll is through is not looked at.
StartPollAnyway ==
  /\ ~stopped
  /\ screen = "lobby"
  /\ polls < 2
  /\ inFlight' = TRUE
  /\ polls' = polls + 1
  /\ UNCHANGED <<generation, wsTx, identity, screen, atTable, events, stopped>>
  /\ UNCHANGED <<inbox, task, commands>>

\* Every twelfth tick.
StartPoll ==
  /\ ~stopped
  /\ screen = "lobby"
  /\ ~inFlight
  /\ inFlight' = TRUE
  /\ polls' = polls + 1
  /\ UNCHANGED <<generation, wsTx, identity, screen, atTable, events, stopped>>
  /\ UNCHANGED <<inbox, task, commands>>

\* The next AppEvent, and whether it is of the task that counts.
NextEvent == Head(inbox)
Current == NextEvent.from = generation

Take(kinds) ==
  /\ ~stopped
  /\ inbox # <<>>
  /\ NextEvent.kind \in kinds
  /\ inbox' = Tail(inbox)
  /\ UNCHANGED <<generation, stopped, polls, task, commands>>

HandlePoll ==
  /\ Take(PollAnswer)
  /\ inFlight' = FALSE
  /\ UNCHANGED <<wsTx, identity, screen, atTable, events>>

\* Mutant: any task that has logged in opens the lobby.
HandleAnyConnected ==
  /\ Take({"WsConnected"})
  /\ identity' = NextEvent.from
  /\ screen' = "lobby"
  /\ UNCHANGED <<wsTx, atTable, events, inFlight>>

HandleConnected ==
  /\ Take({"WsConnected"})
  /\ IF Current THEN identity' = NextEvent.from /\ screen' = "lobby"
     ELSE UNCHANGED <<identity, screen>>
  /\ UNCHANGED <<wsTx, atTable, events, inFlight>>

\* Mutant: the end of any task is the end of the session.
HandleAnyDisconnected ==
  /\ Take({"WsDisconnected"})
  /\ wsTx' = 0
  /\ atTable' = FALSE
  /\ screen' = "error"
  /\ UNCHANGED <<identity, events, inFlight>>

HandleDisconnected ==
  /\ Take({"WsDisconnected"})
  /\ IF Current THEN wsTx' = 0 /\ atTable' = FALSE /\ screen' = "error"
     ELSE UNCHANGED <<wsTx, atTable, screen>>
  /\ UNCHANGED <<identity, events, inFlight>>

\* Mutant: the connection is dropped, and the login screen is not told.
HandleFailedSilently ==
  /\ Take({"AuthFailed"})
  /\ IF Current THEN wsTx' = 0 ELSE UNCHANGED wsTx
  /\ UNCHANGED <<identity, atTable, screen, events, inFlight>>

HandleFailed ==
  /\ Take({"AuthFailed"})
  /\ IF Current THEN wsTx' = 0 /\ screen' = "error" ELSE UNCHANGED <<wsTx, screen>>
  /\ UNCHANGED <<identity, atTable, events, inFlight>>

\* handle_ws_message, whatever the screen is.
HandleMessage ==
  /\ Take({"Snapshot", "Event", "Balance"})
  /\ \/ /\ NextEvent.kind = "Snapshot"
        /\ events' = <<>>
        /\ atTable' = TRUE
        /\ screen' = "table"
     \/ /\ NextEvent.kind = "Event"
        /\ events' = Append(events, NextEvent.from)
        /\ UNCHANGED <<atTable, screen>>
     \/ /\ NextEvent.kind = "Balance"
        /\ UNCHANGED <<atTable, screen, events>>
  /\ UNCHANGED <<wsTx, identity, inFlight>>

Loop ==
  \/ HandlePoll \/ HandleConnected \/ HandleDisconnected \/ HandleFailed
  \/ HandleMessage

-----------------------------------------------------------------------------
(***************************************************************************)
(* The tasks.                                                               *)
(***************************************************************************)

\* Mutant: a poll that fails says nothing.
PollEndsQuietly ==
  /\ polls > 0
  /\ polls' = polls - 1
  /\ Post("LobbyRefreshed", 0) \/ UNCHANGED inbox
  /\ UNCHANGED <<appVars, task, commands>>

\* The request has five seconds.
PollEnds ==
  /\ polls > 0
  /\ polls' = polls - 1
  /\ \E answer \in PollAnswer : Post(answer, 0)
  /\ UNCHANGED <<appVars, task, commands>>

Becomes(g, t) == task' = [task EXCEPT ![g] = t]

Goes(g, l) == Becomes(g, [task[g] EXCEPT !.pc = l])

\* connect_async and the sending of Auth succeed.
Connect(g) ==
  /\ task[g].pc = "connect"
  /\ Goes(g, "auth")
  /\ UNCHANGED <<appVars, inbox, polls, commands>>

\* They fail, the server refuses the password, or the connection breaks off.
Fail(g) ==
  /\ task[g].pc \in {"connect", "auth"}
  /\ Post("AuthFailed", g)
  /\ Goes(g, "ended")
  /\ UNCHANGED <<appVars, polls, commands>>

AuthOk(g) ==
  /\ task[g].pc = "auth"
  /\ Post("WsConnected", g)
  /\ Goes(g, "forward")
  /\ UNCHANGED <<appVars, polls, commands>>

ForwardCommand(g) ==
  /\ task[g].pc = "forward"
  /\ commands[g] # <<>>
  /\ commands' = [commands EXCEPT ![g] = Tail(@)]
  /\ Becomes(g, IF Head(commands[g]) = "JoinTable"
                THEN [task[g] EXCEPT !.joins = @ + 1] ELSE task[g])
  /\ UNCHANGED <<appVars, inbox, polls>>

\* The server answers a JoinTable with a snapshot or refuses it, sends the events of a
\* table from then on (those it has queued also after the visit, and all of them if it
\* refuses the LeaveTable), and after a login the balance.
ServerMessages(g) ==
  {k \in {"Snapshot", "Refusal", "Event", "Balance"} :
     /\ k \in {"Snapshot", "Refusal"} => task[g].joins > 0
     /\ k = "Event" => task[g].visited}

ForwardMessage(g) ==
  /\ task[g].pc = "forward"
  /\ task[g].sent < MaxMessages
  /\ \E k \in ServerMessages(g) :
       /\ IF k = "Refusal" THEN UNCHANGED inbox ELSE Post(k, g)
       /\ Becomes(g, [task[g] EXCEPT
            !.sent = @ + 1,
            !.joins = IF k \in {"Snapshot", "Refusal"} THEN @ - 1 ELSE @,
            !.visited = @ \/ k = "Snapshot"])
  /\ UNCHANGED <<appVars, polls, commands>>

\* The socket breaks, the server closes it, or the command channel is empty and
\* dropped and the task closes it.
EndSession(g) ==
  /\ task[g].pc = "forward"
  /\ Post("WsDisconnected", g)
  /\ Goes(g, "ended")
  /\ UNCHANGED <<appVars, polls, commands>>

\* An aborted task goes no further than to where it next waits.
Die(g) ==
  /\ task[g].aborted
  /\ task[g].pc # "ended"
  /\ Goes(g, "ended")
  /\ UNCHANGED <<appVars, inbox, polls, commands>>

TaskStep(g) ==
  \/ Connect(g) \/ Fail(g) \/ AuthOk(g)
  \/ ForwardCommand(g) \/ ForwardMessage(g) \/ EndSession(g) \/ Die(g)

\* A server that is reached answers a login one way or the other.
LoggingIn(g) == Connect(g) \/ Fail(g) \/ AuthOk(g) \/ Die(g)

-----------------------------------------------------------------------------

Init ==
  /\ generation = 0
  /\ wsTx = 0
  /\ identity = 0
  /\ screen = "idle"
  /\ atTable = FALSE
  /\ events = <<>>
  /\ inbox = <<>>
  /\ inFlight = FALSE
  /\ polls = 0
  /\ task = [g \in Generation |-> NotStarted]
  /\ commands = [g \in Generation |-> <<>>]
  /\ stopped = FALSE

Next ==
  \/ Keys \/ ApplyQueued \/ StartPoll \/ Loop
  \/ PollEnds
  \/ \E g \in Generation : TaskStep(g)

Spec == Init /\ [][Next]_vars

\* The loop receives while it runs, polls end within their five seconds, and a
\* connection that is being made is made or refused.  Nobody has to press a key, and
\* an established connection may last for ever.
Fairness ==
  /\ WF_vars(Loop)
  /\ WF_vars(PollEnds)
  /\ \A g \in Generation : WF_vars(LoggingIn(g))

FairSpec == Spec /\ Fairness

-----------------------------------------------------------------------------

SessionTypeOK ==
  /\ generation \in 0..MaxLogins
  /\ wsTx \in 0..MaxLogins
  /\ identity \in 0..MaxLogins
  /\ screen \in Screen
  /\ atTable \in BOOLEAN
  /\ events \in Seq(Generation)
  /\ inbox \in Seq(AppEvent) /\ Len(inbox) <= ChannelSize
  /\ inFlight \in BOOLEAN
  /\ polls \in Nat
  /\ task \in [Generation -> TaskState]
  /\ commands \in [Generation -> Seq({"JoinTable", "LeaveTable"})]
  /\ stopped \in BOOLEAN

\* Lobby and table belong to the login last asked for: it has succeeded, the player id
\* is the one it gave, and keys are sent over its connection; an earlier login, which
\* may still succeed after it was given up, opens nothing.
SessionIsCurrent ==
  ~AtLogin /\ ~stopped =>
    /\ identity = generation
    /\ wsTx = generation
    /\ task[generation].pc \in {"forward", "ended"}

\* A WsMessage does not say which connection it is from.  It need not: whatever the
\* client has given up or lost before, the snapshots and events it handles are those
\* of its current session, and never reach it on the login screen.
NoStaleMessages ==
  [][\A kind \in {"Snapshot", "Event"} :
       inbox # <<>> /\ NextEvent.kind = kind /\ inbox' = Tail(inbox) =>
         NextEvent.from = generation /\ ~AtLogin]_vars

\* mod.rs:84: "Exactly one of LobbyRefreshed or LobbyPollDone is always sent".  A poll
\* that is in flight is being made or its one answer is in the channel.
PollsAreCounted ==
  LET answers == {i \in 1..Len(inbox) : inbox[i].kind \in PollAnswer}
  IN /\ polls \in {0, 1}
     /\ \A i, j \in answers : i = j
     /\ inFlight <=> polls = 1 \/ answers # {}
     /\ polls = 1 => answers = {}

\* From some moment on no key is pressed any more.
NoMoreKeys == <>[][~Keys]_vars

\* A login comes to an end, however many were given up before it and whatever is
\* still in the channel: nobody is left looking at "Connecting".
LoginEnds == NoMoreKeys => <>[](screen # "connecting" \/ stopped)

==============================================================================
