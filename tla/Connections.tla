------------------------------ MODULE Connections ------------------------------
(***************************************************************************)
(* Players, their connections and the wallet they share: handle_socket of   *)
(* server/src/routes/ws.rs from the first Auth to the cleanup at the end,   *)
(* the authenticator, the wallet, and what several tables do to the wallet. *)
(* A user may have any number of connections, and nobody tells the server   *)
(* at once that one of them is dead.                                        *)
(*                                                                         *)
(* A user is its PlayerId, a password right or wrong.  A table is who is    *)
(* present, the balances it plays with, and rounds of one step (how a round *)
(* is played is GameEngine, why a stake is safe in the meantime             *)
(* TableActor).  The table's actor takes its commands one after the other:  *)
(* a connection that sends one waits for the answer.                        *)
(***************************************************************************)
EXTENDS Integers, FiniteSets

CONSTANTS Conn,            \* the connections
          User, NoUser,    \* the usernames, and none
          Table, NoTable,  \* the TableIds, and None
          Seeded,          \* SEED_ACCOUNTS
          NewPlayerChips,  \* NEW_PLAYER_CHIPS, which is also SEED_BALANCE
          Stake,           \* what a round costs or brings
          MaxChips         \* bound: who has more than that places no bet

ASSUME NamesAssumption == NoUser \notin User /\ NoTable \notin Table /\ Seeded \subseteq User

ASSUME AmountsAssumption ==
  /\ {NewPlayerChips, MaxChips} \subseteq Nat
  /\ Stake \in Nat \ {0}

VARIABLES registered,  \* the usernames of InMemoryAuthenticator::users
          wallet,      \* InMemoryWallet::balances
          pc,          \* where handle_socket is, for each connection
          user,        \* player_id
          current,     \* current_table
          target,      \* the table of the command being handled
          feed,        \* the table whose events fwd_abort's task forwards
          members,     \* everybody a table's GameState knows
          copy,        \* the balance of those in a seat, by table
          loading,     \* the player whose balance a table has yet to load
          toFlush,     \* the players whose balances a table has yet to write
          over,        \* the tables whose round is finished and not yet reset
          overlapped   \* history: users who had two connections at a time

connVars == <<pc, user, current, target, feed>>
tableVars == <<members, copy, loading, toFlush, over>>
vars == <<registered, wallet, connVars, tableVars, overlapped>>

-----------------------------------------------------------------------------

NoAccount == -1

NotSeated == -1

Location ==
  {"closed", "auth", "balance", "credit", "welcome", "idle", "leave", "join",
   "attach", "seating", "cleanup"}

Seated(t) == {u \in User : copy[t][u] # NotSeated}

\* The actor of a table answers when it is through with the last command.
Idle(t) == loading[t] = NoUser /\ toFlush[t] = {}

Goto(c, l) == pc' = [pc EXCEPT ![c] = l]

\* LeaveTable, refused when the table does not know the player.
LeaveAt(t, u) ==
  /\ members' = [members EXCEPT ![t] = @ \ {u}]
  /\ copy' = [copy EXCEPT ![t][u] = NotSeated]

\* fwd_abort.take() and abort().
StopFeed(c) ==
  /\ feed' = [feed EXCEPT ![c] = NoTable]

Close(c) ==
  /\ Goto(c, "closed")
  /\ user' = [user EXCEPT ![c] = NoUser]

-----------------------------------------------------------------------------
(***************************************************************************)
(* Logging in.                                                              *)
(***************************************************************************)

Open(c) ==
  /\ pc[c] = "closed"
  /\ Goto(c, "auth")
  /\ UNCHANGED <<registered, wallet, user, current, target, feed>>
  /\ UNCHANGED <<tableVars, overlapped>>

\* One lock covers the lookup and the registration of a new username.
Authenticate(c, u) ==
  /\ pc[c] = "auth"
  /\ registered' = registered \cup {u}
  /\ user' = [user EXCEPT ![c] = u]
  /\ Goto(c, "balance")
  /\ overlapped' = IF u \in {user[d] : d \in Conn} THEN overlapped \cup {u} ELSE overlapped
  /\ UNCHANGED <<wallet, current, target, feed, tableVars>>

\* A wrong password, or the socket closes.
Reject(c) ==
  /\ pc[c] = "auth"
  /\ Close(c)
  /\ UNCHANGED <<registered, wallet, current, target, feed, tableVars, overlapped>>

\* Mutant: whoever logs in is taken for new.
CheckNothing(c) ==
  /\ pc[c] = "balance"
  /\ Goto(c, "credit")
  /\ UNCHANGED <<registered, wallet, user, current, target, feed>>
  /\ UNCHANGED <<tableVars, overlapped>>

CheckAccount(c) ==
  /\ pc[c] = "balance"
  /\ Goto(c, IF wallet[user[c]] = NoAccount THEN "credit" ELSE "welcome")
  /\ UNCHANGED <<registered, wallet, user, current, target, feed>>
  /\ UNCHANGED <<tableVars, overlapped>>

\* or_insert(0), then the sum: credit does not ask whether the account is new.
Credit(c) ==
  /\ pc[c] = "credit"
  /\ wallet' = [wallet EXCEPT ![user[c]] = (IF @ = NoAccount THEN 0 ELSE @) + NewPlayerChips]
  /\ Goto(c, "welcome")
  /\ UNCHANGED <<registered, user, current, target, feed, tableVars, overlapped>>

\* AuthOk and the first Balance, or the socket is gone already.
Welcome(c) ==
  /\ pc[c] = "welcome"
  /\ \/ Close(c)
     \/ /\ Goto(c, "idle")
        /\ UNCHANGED user
  /\ UNCHANGED <<registered, wallet, current, target, feed, tableVars, overlapped>>

-----------------------------------------------------------------------------
(***************************************************************************)
(* The commands of a connection.                                            *)
(***************************************************************************)

\* Mutant: a connection that moves on stays at the table it comes from.
JoinTableToo(c, t) ==
  /\ pc[c] = "idle"
  /\ target' = [target EXCEPT ![c] = t]
  /\ Goto(c, "join")
  /\ StopFeed(c)
  /\ UNCHANGED <<registered, wallet, user, current, tableVars, overlapped>>

JoinTable(c, t) ==
  /\ pc[c] = "idle"
  /\ target' = [target EXCEPT ![c] = t]
  /\ Goto(c, IF current[c] = NoTable THEN "join" ELSE "leave")
  /\ StopFeed(c)
  /\ UNCHANGED <<registered, wallet, user, current, tableVars, overlapped>>

LeaveOldTable(c) ==
  /\ pc[c] = "leave"
  /\ Idle(current[c])
  /\ LeaveAt(current[c], user[c])
  /\ current' = [current EXCEPT ![c] = NoTable]
  /\ Goto(c, "join")
  /\ UNCHANGED <<registered, wallet, user, target, feed>>
  /\ UNCHANGED <<loading, toFlush, over, overlapped>>

\* Accepted without an event when the player is there already.
JoinAccepted(c) ==
  /\ pc[c] = "join"
  /\ Idle(target[c])
  /\ members' = [members EXCEPT ![target[c]] = @ \cup {user[c]}]
  /\ Goto(c, "attach")
  /\ UNCHANGED <<registered, wallet, user, current, target, feed>>
  /\ UNCHANGED <<copy, loading, toFlush, over, overlapped>>

\* As many observers as the table allows.
JoinRefused(c) ==
  /\ pc[c] = "join"
  /\ Idle(target[c])
  /\ user[c] \notin members[target[c]]
  /\ Goto(c, "idle")
  /\ target' = [target EXCEPT ![c] = NoTable]
  /\ UNCHANGED <<registered, wallet, user, current, feed, tableVars, overlapped>>

\* The snapshot is sent, which makes a new header, and the forwarder started.
Attach(c) ==
  /\ pc[c] = "attach"
  /\ Goto(c, "idle")
  /\ current' = [current EXCEPT ![c] = target[c]]
  /\ feed' = [feed EXCEPT ![c] = target[c]]
  /\ target' = [target EXCEPT ![c] = NoTable]
  /\ UNCHANGED <<registered, wallet, user, tableVars, overlapped>>

\* LeaveTable names its table, and is refused where the player is not; when it is
\* accepted, current_table is cleared whatever it was.
LeaveTable(c, t) ==
  /\ pc[c] = "idle"
  /\ Idle(t)
  /\ user[c] \in members[t]
  /\ LeaveAt(t, user[c])
  /\ current' = [current EXCEPT ![c] = NoTable]
  /\ StopFeed(c)
  /\ UNCHANGED <<registered, wallet, pc, user, target, loading, toFlush, over, overlapped>>

\* While bets are open: PlayerJoined.  (In the other phases the player is queued,
\* and remains one of the members without a balance.)
TakeSeat(c, t) ==
  /\ pc[c] = "idle"
  /\ Idle(t)
  /\ t \notin over
  /\ user[c] \in members[t] \ Seated(t)
  /\ copy' = [copy EXCEPT ![t][user[c]] = 0]
  /\ loading' = [loading EXCEPT ![t] = user[c]]
  /\ target' = [target EXCEPT ![c] = t]
  /\ Goto(c, "seating")
  /\ UNCHANGED <<registered, wallet, user, current, feed>>
  /\ UNCHANGED <<members, toFlush, over, overlapped>>

LeaveSeat(c, t) ==
  /\ pc[c] = "idle"
  /\ Idle(t)
  /\ user[c] \in Seated(t)
  /\ copy' = [copy EXCEPT ![t][user[c]] = NotSeated]
  /\ UNCHANGED <<registered, wallet, connVars, members, loading, toFlush, over, overlapped>>

\* Mutant: no LeaveTable on disconnect.
HangUp(c) ==
  /\ pc[c] = "idle"
  /\ Close(c)
  /\ StopFeed(c)
  /\ current' = [current EXCEPT ![c] = NoTable]
  /\ UNCHANGED <<registered, wallet, target, tableVars, overlapped>>

\* The server notices that the socket is closed, however late.
Disconnect(c) ==
  /\ pc[c] = "idle"
  /\ Goto(c, "cleanup")
  /\ StopFeed(c)
  /\ UNCHANGED <<registered, wallet, user, current, target, tableVars, overlapped>>

Cleanup(c) ==
  /\ pc[c] = "cleanup"
  /\ \/ current[c] = NoTable /\ UNCHANGED <<members, copy>>
     \/ current[c] # NoTable /\ Idle(current[c]) /\ LeaveAt(current[c], user[c])
  /\ current' = [current EXCEPT ![c] = NoTable]
  /\ Close(c)
  /\ UNCHANGED <<registered, wallet, target, feed, loading, toFlush, over, overlapped>>

-----------------------------------------------------------------------------
(***************************************************************************)
(* The tables.                                                              *)
(***************************************************************************)

LoadBalance(t) ==
  /\ loading[t] # NoUser
  /\ copy' = [copy EXCEPT ![t][loading[t]] = wallet[loading[t]]]
  /\ loading' = [loading EXCEPT ![t] = NoUser]
  /\ pc' = [c \in Conn |-> IF pc[c] = "seating" /\ target[c] = t THEN "idle" ELSE pc[c]]
  /\ target' = [c \in Conn |-> IF pc[c] = "seating" /\ target[c] = t THEN NoTable ELSE target[c]]
  /\ UNCHANGED <<registered, wallet, user, current, feed>>
  /\ UNCHANGED <<members, toFlush, over, overlapped>>

\* What becomes of a balance in a round: some bet nothing, some cannot, and beyond
\* the bound nobody does.
BalanceAfter(b, net) == IF b < Stake \/ b > MaxChips THEN b ELSE b + net

\* GameFinished goes to every forwarder before the wallet is written.
FinishRound(t) ==
  /\ Idle(t)
  /\ t \notin over
  /\ Seated(t) # {}
  /\ \E net \in [User -> {-Stake, 0, Stake}] :
       copy' = [copy EXCEPT ![t] = [u \in User |->
                  IF u \in Seated(t) THEN BalanceAfter(@[u], net[u]) ELSE NotSeated]]
  /\ toFlush' = [toFlush EXCEPT ![t] = Seated(t)]
  /\ over' = over \cup {t}
  /\ UNCHANGED <<registered, wallet, pc, user, current, target, feed>>
  /\ UNCHANGED <<members, loading, overlapped>>

\* Mutant: what the table does not owe is written, too.
FlushStale(t, u) ==
  /\ u \in toFlush[t]
  /\ wallet' = [wallet EXCEPT ![u] = copy[t][u] + Stake]
  /\ toFlush' = [toFlush EXCEPT ![t] = @ \ {u}]
  /\ UNCHANGED <<registered, connVars, members, copy, loading, over, overlapped>>

\* One set_balance of handle_game_finished.
FlushBalance(t, u) ==
  /\ u \in toFlush[t]
  /\ wallet' = [wallet EXCEPT ![u] = copy[t][u]]
  /\ toFlush' = [toFlush EXCEPT ![t] = @ \ {u}]
  /\ UNCHANGED <<registered, connVars, members, copy, loading, over, overlapped>>

\* Who is in no seat is forgotten.
ResetRound(t) ==
  /\ Idle(t)
  /\ t \in over
  /\ over' = over \ {t}
  /\ members' = [members EXCEPT ![t] = Seated(t)]
  /\ UNCHANGED <<registered, wallet, connVars, copy, loading, toFlush, overlapped>>

-----------------------------------------------------------------------------

Init ==
  /\ registered = Seeded
  /\ wallet = [u \in User |-> IF u \in Seeded THEN NewPlayerChips ELSE NoAccount]
  /\ pc = [c \in Conn |-> "closed"]
  /\ user = [c \in Conn |-> NoUser]
  /\ current = [c \in Conn |-> NoTable]
  /\ target = [c \in Conn |-> NoTable]
  /\ feed = [c \in Conn |-> NoTable]
  /\ members = [t \in Table |-> {}]
  /\ copy = [t \in Table |-> [u \in User |-> NotSeated]]
  /\ loading = [t \in Table |-> NoUser]
  /\ toFlush = [t \in Table |-> {}]
  /\ over = {}
  /\ overlapped = {}

\* What the client or the network does.
FromOutside(c) ==
  \/ Open(c) \/ Reject(c) \/ Disconnect(c)
  \/ \E u \in User : Authenticate(c, u)
  \/ \E t \in Table : JoinTable(c, t) \/ LeaveTable(c, t) \/ TakeSeat(c, t) \/ LeaveSeat(c, t)

\* What a connection then does by itself.
Handler(c) ==
  \/ CheckAccount(c) \/ Credit(c) \/ Welcome(c)
  \/ LeaveOldTable(c) \/ JoinAccepted(c) \/ JoinRefused(c) \/ Attach(c)
  \/ Cleanup(c)

Actor(t) == LoadBalance(t) \/ \E u \in User : FlushBalance(t, u)

Round(t) == FinishRound(t) \/ ResetRound(t)

Next ==
  \/ \E c \in Conn : FromOutside(c) \/ Handler(c)
  \/ \E t \in Table : Actor(t) \/ Round(t)

Spec == Init /\ [][Next]_vars

\* An actor is polled while it can go on.  The channel of its commands is a queue:
\* a command that waits is taken some time, whatever the table does in between.
Fairness ==
  /\ \A c \in Conn : SF_vars(Handler(c))
  /\ \A t \in Table : WF_vars(Actor(t))

FairSpec == Spec /\ Fairness

-----------------------------------------------------------------------------

ConnTypeOK ==
  /\ registered \in SUBSET User
  /\ wallet \in [User -> Nat \cup {NoAccount}]
  /\ pc \in [Conn -> Location]
  /\ \A c \in Conn :
       /\ user[c] = NoUser <=> pc[c] \in {"closed", "auth"}
       /\ target[c] # NoTable <=> pc[c] \in {"leave", "join", "attach", "seating"}
       /\ pc[c] = "leave" => current[c] # NoTable
       /\ pc[c] \in {"join", "attach"} => current[c] = NoTable
  /\ user \in [Conn -> User \cup {NoUser}]
  /\ current \in [Conn -> Table \cup {NoTable}]
  /\ target \in [Conn -> Table \cup {NoTable}]
  /\ feed \in [Conn -> Table \cup {NoTable}]
  /\ members \in [Table -> SUBSET User]
  /\ copy \in [Table -> [User -> Nat \cup {NotSeated}]]
  /\ loading \in [Table -> User \cup {NoUser}]
  /\ toFlush \in [Table -> SUBSET User]
  /\ over \in SUBSET Table
  /\ overlapped \in SUBSET User

\* The connections that are responsible for u being at table t.
Holders(t, u) ==
  {c \in Conn : user[c] = u /\ (current[c] = t \/ (pc[c] = "attach" /\ target[c] = t))}

\* Nobody haunts a table: a player who is at one has a connection that will take
\* him away from it when it ends, whatever was joined, left, refused or reset, and
\* wherever the connection broke.  Who had two connections at a time is excepted:
\* a LeaveTable of one for the table of the other makes it forget its own.
HeldByConnection ==
  \A t \in Table : \A u \in members[t] \ overlapped : Holders(t, u) # {}

\* A player with one connection at a time, old connections that are still being
\* cleaned up included, is in one seat at most, and the copy of the balance that is
\* played with there is the wallet's whenever the table is idle: no table writes
\* back a balance older than what another one has written.
CopyIsCurrent ==
  \A u \in User \ overlapped : \A t \in Table :
    u \in Seated(t) =>
      /\ \A s \in Table \ {t} : u \notin Seated(s)
      /\ loading[t] # u /\ u \notin toFlush[t] => copy[t][u] = wallet[u]

\* "Only seed chips for new players": the opening chips open an account and are
\* never added to one, provided that nobody logs in twice at the same moment.
CreditOpensAccount ==
  \A c \in Conn :
    pc[c] = "credit" /\ user[c] \notin overlapped => wallet[user[c]] = NoAccount

AtNoTable(u) == \A t \in Table : u \notin members[t]

\* No connection of u is left but such as are being cleaned up.
Gone(u) == \A c \in Conn : user[c] = u => pc[c] = "cleanup"

\* The seat of a player whose connection is lost comes free, however busy the table.
SeatsComeFree ==
  \A u \in User : Gone(u) /\ u \notin overlapped ~> AtNoTable(u) \/ ~Gone(u)

==============================================================================
