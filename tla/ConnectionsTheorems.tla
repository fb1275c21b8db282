-------------------------- MODULE ConnectionsTheorems --------------------------
(***************************************************************************)
(* Theorems about Connections, for any connections, users, tables and       *)
(* amounts: who is at a table is held there by a connection, no table       *)
(* writes back a balance that is out of date, and the opening chips open an *)
(* account; all of it for the users that never had two connections at a     *)
(* time.                                                                    *)
(*                                                                         *)
(* The three invariants are proved together, because each needs another: a  *)
(* new account is not written over because who is still logging in is at no *)
(* table, which is HeldByConnection; and the balance written back is the    *)
(* newest because one connection is at one table at most.                   *)
(***************************************************************************)
EXTENDS Connections, TLAPS

USE NamesAssumption, AmountsAssumption

\* Who has not been seen with two connections has one at most.
Single ==
  \A c, d \in Conn :
    user[c] = user[d] /\ user[c] # NoUser /\ c # d => user[c] \in overlapped

LoggingIn == {"closed", "auth", "balance", "credit", "welcome"}

\* Nobody is at a table before the login is complete.
LoginFirst == \A c \in Conn : pc[c] \in LoggingIn => current[c] = NoTable

\* Who is in a seat is known to the table, and the table owes balances to those in
\* a seat only, and to none while it loads one.
SeatsKnown ==
  \A t \in Table :
    /\ Seated(t) \subseteq members[t]
    /\ toFlush[t] \subseteq Seated(t)
    /\ loading[t] # NoUser => loading[t] \in Seated(t) /\ toFlush[t] = {}

\* Connection c keeps u at table t.
Holds(c, t, u) ==
  user[c] = u /\ (current[c] = t \/ (pc[c] = "attach" /\ target[c] = t))

Held ==
  \A t \in Table : \A u \in members[t] \ overlapped : \E c \in Conn : Holds(c, t, u)

\* The inductive invariant.
ConnInv ==
  /\ ConnTypeOK
  /\ Single
  /\ LoginFirst
  /\ SeatsKnown
  /\ Held
  /\ CopyIsCurrent
  /\ CreditOpensAccount

-----------------------------------------------------------------------------

\* Whatever connection of a player one looks at, it is the one that holds him.
LEMMA OnlyHolder ==
  ASSUME ConnInv, NEW c \in Conn, NEW t \in Table, user[c] \in members[t] \ overlapped
  PROVE  Holds(c, t, user[c])
PROOF
<1>1. PICK d \in Conn : Holds(d, t, user[c])
  BY DEF ConnInv, Held
<1>2. user[c] # NoUser
  BY DEF ConnInv, ConnTypeOK
<1>3. d = c
  BY <1>1, <1>2 DEF Holds, ConnInv, Single
<1> QED
  BY <1>1, <1>3

\* A player is held at one table at most.
LEMMA OneTable ==
  ASSUME ConnInv, NEW c \in Conn, NEW t \in Table, NEW s \in Table,
         user[c] \in members[t] \ overlapped, user[c] \in members[s]
  PROVE  s = t
PROOF
<1>1. Holds(c, t, user[c]) /\ Holds(c, s, user[c])
  BY OnlyHolder
<1>2. pc[c] = "attach" => current[c] = NoTable
  BY DEF ConnInv, ConnTypeOK
<1> QED
  BY <1>1, <1>2 DEF Holds

\* Who is still logging in is at no table.
LEMMA NowhereBeforeLogin ==
  ASSUME ConnInv, NEW c \in Conn, pc[c] \in LoggingIn, user[c] \notin overlapped,
         NEW t \in Table
  PROVE  user[c] \notin members[t] /\ user[c] \notin Seated(t)
PROOF
<1>1. current[c] = NoTable /\ pc[c] # "attach"
  BY DEF ConnInv, LoginFirst, LoggingIn
<1>2. user[c] \notin members[t]
  BY <1>1, OnlyHolder DEF Holds
<1> QED
  BY <1>2 DEF ConnInv, SeatsKnown

\* A new connection, or one that fails to log in.
LEMMA OpenInv ==
  ASSUME ConnInv, NEW c \in Conn, Open(c)
  PROVE  ConnInv'
PROOF
<1> USE DEF ConnInv, Open, Goto, tableVars
<1>1. ConnTypeOK'
  BY DEF ConnTypeOK, Location
<1>2. Single' /\ SeatsKnown'
  BY DEF Single, SeatsKnown, Seated
<1>3. LoginFirst'
  BY DEF LoginFirst, LoggingIn, ConnTypeOK
<1>4. Held'
  BY DEF Held, Holds, ConnTypeOK
<1>5. CopyIsCurrent'
  BY DEF CopyIsCurrent, Seated
<1>6. CreditOpensAccount'
  BY DEF CreditOpensAccount, ConnTypeOK
<1> QED
  BY <1>1, <1>2, <1>3, <1>4, <1>5, <1>6

\* A refused login ends the connection before it has done anything.
LEMMA RejectInv ==
  ASSUME ConnInv, NEW c \in Conn, Reject(c)
  PROVE  ConnInv'
PROOF
<1> USE DEF ConnInv, Reject, Close, Goto, tableVars
<1>1. ConnTypeOK'
  BY DEF ConnTypeOK, Location
<1>2. Single' /\ SeatsKnown'
  BY DEF Single, SeatsKnown, Seated, ConnTypeOK
<1>3. LoginFirst'
  BY DEF LoginFirst, LoggingIn, ConnTypeOK
<1>4. Held'
  BY DEF Held, Holds, ConnTypeOK
<1>5. CopyIsCurrent'
  BY DEF CopyIsCurrent, Seated
<1>6. CreditOpensAccount'
  BY DEF CreditOpensAccount, ConnTypeOK
<1> QED
  BY <1>1, <1>2, <1>3, <1>4, <1>5, <1>6

\* A second connection of a user is where the user is counted as overlapped.
LEMMA AuthenticateInv ==
  ASSUME ConnInv, NEW c \in Conn, NEW u \in User, Authenticate(c, u)
  PROVE  ConnInv'
PROOF
<1> USE DEF ConnInv, Authenticate, Goto, tableVars
<1>1. ConnTypeOK'
  BY DEF ConnTypeOK, Location
<1>2. Single'
  BY DEF Single, ConnTypeOK
<1>3. LoginFirst'
  BY DEF LoginFirst, LoggingIn, ConnTypeOK
<1>4. SeatsKnown'
  BY DEF SeatsKnown, Seated
<1>5. Held'
  <2>1. user[c] = NoUser /\ pc[c] = "auth" /\ overlapped \subseteq overlapped'
    BY DEF ConnTypeOK
  <2>2. ASSUME NEW d \in Conn, NEW t \in Table, NEW v \in User, Holds(d, t, v)
        PROVE  Holds(d, t, v)'
    BY <2>1, <2>2 DEF Holds, ConnTypeOK
  <2> QED
    BY <2>1, <2>2 DEF Held, ConnTypeOK
<1>6. CopyIsCurrent'
  BY DEF CopyIsCurrent, Seated
<1>7. CreditOpensAccount'
  BY DEF CreditOpensAccount, ConnTypeOK
<1> QED
  BY <1>1, <1>2, <1>3, <1>4, <1>5, <1>6, <1>7

\* The login looks up the account, and takes note of nothing but whether there is one.
LEMMA CheckAccountInv ==
  ASSUME ConnInv, NEW c \in Conn, CheckAccount(c)
  PROVE  ConnInv'
PROOF
<1> USE DEF ConnInv, CheckAccount, Goto, tableVars
<1>1. ConnTypeOK'
  BY DEF ConnTypeOK, Location
<1>2. Single' /\ SeatsKnown'
  BY DEF Single, SeatsKnown, Seated
<1>3. LoginFirst'
  BY DEF LoginFirst, LoggingIn, ConnTypeOK
<1>4. Held'
  BY DEF Held, Holds, ConnTypeOK
<1>5. CopyIsCurrent'
  BY DEF CopyIsCurrent, Seated
<1>6. CreditOpensAccount'
  BY DEF CreditOpensAccount, ConnTypeOK
<1> QED
  BY <1>1, <1>2, <1>3, <1>4, <1>5, <1>6

\* The account that is credited is played with at no table, and no other connection
\* is about to open it.
LEMMA CreditInv ==
  ASSUME ConnInv, NEW c \in Conn, Credit(c)
  PROVE  ConnInv'
PROOF
<1> USE DEF ConnInv, Credit, Goto, tableVars
<1>1. user[c] \in User /\ pc[c] \in LoggingIn
  BY DEF ConnTypeOK, LoggingIn
<1>2. \A u \in User : u # user[c] => wallet'[u] = wallet[u]
  BY DEF ConnTypeOK
<1>3. ConnTypeOK'
  <2>1. wallet' \in [User -> Nat \cup {NoAccount}]
    BY <1>1 DEF ConnTypeOK, NoAccount
  <2> QED
    BY <2>1 DEF ConnTypeOK, Location
<1>4. Single' /\ SeatsKnown'
  BY DEF Single, SeatsKnown, Seated
<1>5. LoginFirst'
  BY DEF LoginFirst, LoggingIn, ConnTypeOK
<1>6. Held'
  BY DEF Held, Holds, ConnTypeOK
<1>7. CopyIsCurrent'
  <2>1. ASSUME NEW t \in Table, user[c] \notin overlapped PROVE user[c] \notin Seated(t)
    BY <1>1, <2>1, NowhereBeforeLogin
  <2>2. \A t \in Table : Seated(t)' = Seated(t)
    BY DEF Seated
  <2> QED
    BY <1>2, <2>1, <2>2 DEF CopyIsCurrent
<1>8. CreditOpensAccount'
  BY <1>1, <1>2 DEF CreditOpensAccount, Single, ConnTypeOK
<1> QED
  BY <1>3, <1>4, <1>5, <1>6, <1>7, <1>8

\* The user is let in, or the socket is found closed.
LEMMA WelcomeInv ==
  ASSUME ConnInv, NEW c \in Conn, Welcome(c)
  PROVE  ConnInv'
PROOF
<1> USE DEF ConnInv, Welcome, Close, Goto, tableVars
<1>1. ConnTypeOK'
  BY DEF ConnTypeOK, Location
<1>2. Single' /\ SeatsKnown'
  BY DEF Single, SeatsKnown, Seated, ConnTypeOK
<1>3. LoginFirst'
  BY DEF LoginFirst, LoggingIn, ConnTypeOK
<1>4. Held'
  <2>1. current[c] = NoTable /\ pc[c] # "attach"
    BY DEF LoginFirst, LoggingIn
  <2> QED
    BY <2>1 DEF Held, Holds, ConnTypeOK
<1>5. CopyIsCurrent'
  BY DEF CopyIsCurrent, Seated
<1>6. CreditOpensAccount'
  BY DEF CreditOpensAccount, ConnTypeOK
<1> QED
  BY <1>1, <1>2, <1>3, <1>4, <1>5, <1>6

-----------------------------------------------------------------------------

\* Nothing is asked of a table yet.
LEMMA JoinTableInv ==
  ASSUME ConnInv, NEW c \in Conn, NEW t \in Table, JoinTable(c, t)
  PROVE  ConnInv'
PROOF
<1> USE DEF ConnInv, JoinTable, Goto, StopFeed, tableVars
<1>1. ConnTypeOK'
  BY DEF ConnTypeOK, Location
<1>2. Single' /\ SeatsKnown'
  BY DEF Single, SeatsKnown, Seated
<1>3. LoginFirst'
  BY DEF LoginFirst, LoggingIn, ConnTypeOK
<1>4. Held'
  BY DEF Held, Holds, ConnTypeOK
<1>5. CopyIsCurrent'
  BY DEF CopyIsCurrent, Seated
<1>6. CreditOpensAccount'
  BY DEF CreditOpensAccount, ConnTypeOK
<1> QED
  BY <1>1, <1>2, <1>3, <1>4, <1>5, <1>6

\* What LeaveTable does to a table, wherever it comes from: the table is idle, the
\* player is gone, and everybody else stays as before.
LEMMA LeavingTables ==
  ASSUME ConnInv, NEW t \in Table, NEW u \in User, Idle(t), LeaveAt(t, u),
         UNCHANGED <<wallet, loading, toFlush, over, overlapped>>
  PROVE  /\ members' \in [Table -> SUBSET User]
         /\ copy' \in [Table -> [User -> Nat \cup {NotSeated}]]
         /\ \A s \in Table : members'[s] = IF s = t THEN members[s] \ {u} ELSE members[s]
         /\ \A s \in Table : Seated(s)' = IF s = t THEN Seated(s) \ {u} ELSE Seated(s)
         /\ SeatsKnown' /\ CopyIsCurrent'
PROOF
<1> USE DEF ConnInv, LeaveAt
<1>1. /\ members' \in [Table -> SUBSET User]
      /\ copy' \in [Table -> [User -> Nat \cup {NotSeated}]]
      /\ \A s \in Table : members'[s] = IF s = t THEN members[s] \ {u} ELSE members[s]
  BY DEF ConnTypeOK
<1>2. /\ \A s \in Table, v \in User : copy'[s][v] = IF s = t /\ v = u THEN NotSeated ELSE copy[s][v]
  BY DEF ConnTypeOK
<1>3. \A s \in Table : Seated(s)' = IF s = t THEN Seated(s) \ {u} ELSE Seated(s)
  BY <1>2 DEF Seated
<1>4. SeatsKnown'
  BY <1>1, <1>3 DEF SeatsKnown, Idle
<1>5. CopyIsCurrent'
  BY <1>2, <1>3 DEF CopyIsCurrent
<1> QED
  BY <1>1, <1>3, <1>4, <1>5

\* The connection that asks a table to forget its player is the one that held him
\* there, if the player has no other.
LEMMA LeavingHolds ==
  ASSUME ConnInv, NEW c \in Conn, NEW t \in Table, user[c] \in User,
         pc[c] # "attach",
         user[c] \in members[t] \ overlapped => current[c] = t,
         current[c] = t \/ user[c] \in members[t],
         \A s \in Table : members'[s] = IF s = t THEN members[s] \ {user[c]} ELSE members[s],
         overlapped' = overlapped,
         \A d \in Conn \ {c} : UNCHANGED <<pc[d], user[d], current[d], target[d]>>
  PROVE  Held'
PROOF
<1> SUFFICES ASSUME NEW s \in Table, NEW v \in members'[s] \ overlapped
             PROVE  \E d \in Conn : Holds(d, s, v)'
  BY DEF Held
<1>1. v \in members[s] \ overlapped /\ (s = t => v # user[c])
  OBVIOUS
<1>2. PICK d \in Conn : Holds(d, s, v)
  BY <1>1 DEF ConnInv, Held
<1>3. d # c
  <2>1. ASSUME d = c PROVE FALSE
    <3>1. v = user[c] /\ s # t /\ current[c] = s
      BY <1>1, <1>2, <2>1 DEF Holds
    <3>2. user[c] \in members[t]
      BY <3>1
    <3> QED
      BY <1>1, <3>1, <3>2
  <2> QED
    BY <2>1
<1> QED
  BY <1>2, <1>3 DEF Holds

\* A connection that moves on leaves the table it is at.
LEMMA LeaveOldTableInv ==
  ASSUME ConnInv, NEW c \in Conn, LeaveOldTable(c)
  PROVE  ConnInv'
PROOF
<1> USE DEF ConnInv, LeaveOldTable, Goto
<1>1. user[c] \in User /\ current[c] \in Table
  BY DEF ConnTypeOK
<1>2. /\ members' \in [Table -> SUBSET User]
      /\ copy' \in [Table -> [User -> Nat \cup {NotSeated}]]
      /\ SeatsKnown' /\ CopyIsCurrent'
  BY <1>1, LeavingTables
<1>3. ConnTypeOK'
  BY <1>2 DEF ConnTypeOK, Location
<1>4. Single'
  BY DEF Single
<1>5. LoginFirst'
  BY DEF LoginFirst, LoggingIn, ConnTypeOK
<1>6. Held'
  <2>1. \A s \in Table : members'[s] = IF s = current[c] THEN members[s] \ {user[c]}
                                       ELSE members[s]
    BY <1>1, LeavingTables
  <2>2. \A d \in Conn \ {c} : UNCHANGED <<pc[d], user[d], current[d], target[d]>>
    BY DEF ConnTypeOK
  <2> QED
    BY <1>1, <2>1, <2>2, LeavingHolds
<1>7. CreditOpensAccount'
  BY DEF CreditOpensAccount, ConnTypeOK
<1> QED
  BY <1>2, <1>3, <1>4, <1>5, <1>6, <1>7

\* LeaveTable may name another table than the one the connection is at; a player
\* with one connection is not there.
LEMMA LeaveTableInv ==
  ASSUME ConnInv, NEW c \in Conn, NEW t \in Table, LeaveTable(c, t)
  PROVE  ConnInv'
PROOF
<1> USE DEF ConnInv, LeaveTable, StopFeed
<1>1. user[c] \in User /\ pc[c] = "idle"
  BY DEF ConnTypeOK
<1>2. /\ members' \in [Table -> SUBSET User]
      /\ copy' \in [Table -> [User -> Nat \cup {NotSeated}]]
      /\ SeatsKnown' /\ CopyIsCurrent'
  BY <1>1, LeavingTables
<1>3. ConnTypeOK'
  BY <1>1, <1>2 DEF ConnTypeOK
<1>4. Single'
  BY DEF Single
<1>5. LoginFirst'
  BY DEF LoginFirst, LoggingIn, ConnTypeOK
<1>6. Held'
  <2>1. \A s \in Table : members'[s] = IF s = t THEN members[s] \ {user[c]} ELSE members[s]
    BY <1>1, LeavingTables
  <2>2. \A d \in Conn \ {c} : UNCHANGED <<pc[d], user[d], current[d], target[d]>>
    BY DEF ConnTypeOK
  <2>3. user[c] \in members[t] \ overlapped => current[c] = t
    BY <1>1, OnlyHolder DEF Holds
  <2> QED
    BY <1>1, <2>1, <2>2, <2>3, LeavingHolds
<1>7. CreditOpensAccount'
  BY DEF CreditOpensAccount, ConnTypeOK
<1> QED
  BY <1>2, <1>3, <1>4, <1>5, <1>6, <1>7

\* The cleanup at the end of handle_socket.
LEMMA CleanupInv ==
  ASSUME ConnInv, NEW c \in Conn, Cleanup(c)
  PROVE  ConnInv'
PROOF
<1> USE DEF ConnInv, Cleanup, Close, Goto
<1>1. user[c] \in User /\ pc[c] = "cleanup"
  BY DEF ConnTypeOK
<1>2. \A d \in Conn \ {c} : UNCHANGED <<pc[d], user[d], current[d], target[d]>>
  BY DEF ConnTypeOK
<1>3. ASSUME current[c] = NoTable, UNCHANGED <<members, copy>>
      PROVE  /\ members' \in [Table -> SUBSET User]
             /\ copy' \in [Table -> [User -> Nat \cup {NotSeated}]]
             /\ SeatsKnown' /\ CopyIsCurrent' /\ Held'
  <2>1. SeatsKnown' /\ CopyIsCurrent'
    BY <1>3 DEF SeatsKnown, CopyIsCurrent, Seated
  <2>2. Held'
    BY <1>1, <1>2, <1>3 DEF Held, Holds
  <2> QED
    BY <1>3, <2>1, <2>2 DEF ConnTypeOK
<1>4. ASSUME current[c] # NoTable, Idle(current[c]), LeaveAt(current[c], user[c])
      PROVE  /\ members' \in [Table -> SUBSET User]
             /\ copy' \in [Table -> [User -> Nat \cup {NotSeated}]]
             /\ SeatsKnown' /\ CopyIsCurrent' /\ Held'
  <2>1. current[c] \in Table
    BY <1>4 DEF ConnTypeOK
  <2>2. /\ members' \in [Table -> SUBSET User]
        /\ copy' \in [Table -> [User -> Nat \cup {NotSeated}]]
        /\ SeatsKnown' /\ CopyIsCurrent'
        /\ \A s \in Table : members'[s] = IF s = current[c] THEN members[s] \ {user[c]}
                                          ELSE members[s]
    BY <1>1, <1>4, <2>1, LeavingTables
  <2>3. Held'
    BY <1>1, <1>2, <2>1, <2>2, LeavingHolds
  <2> QED
    BY <2>2, <2>3
<1>5. /\ members' \in [Table -> SUBSET User]
      /\ copy' \in [Table -> [User -> Nat \cup {NotSeated}]]
      /\ SeatsKnown' /\ CopyIsCurrent' /\ Held'
  BY <1>3, <1>4
<1>6. ConnTypeOK'
  BY <1>5 DEF ConnTypeOK, Location
<1>7. Single'
  BY DEF Single, ConnTypeOK
<1>8. LoginFirst'
  BY DEF LoginFirst, LoggingIn, ConnTypeOK
<1>9. CreditOpensAccount'
  BY DEF CreditOpensAccount, ConnTypeOK
<1> QED
  BY <1>5, <1>6, <1>7, <1>8, <1>9

-----------------------------------------------------------------------------

\* From the moment a table knows the player the connection holds him there.
LEMMA JoinAcceptedInv ==
  ASSUME ConnInv, NEW c \in Conn, JoinAccepted(c)
  PROVE  ConnInv'
PROOF
<1> USE DEF ConnInv, JoinAccepted, Goto
<1>1. user[c] \in User /\ target[c] \in Table /\ pc[c] = "join"
  BY DEF ConnTypeOK
<1>2. ConnTypeOK'
  BY <1>1 DEF ConnTypeOK, Location
<1>3. Single'
  BY DEF Single
<1>4. LoginFirst'
  BY DEF LoginFirst, LoggingIn, ConnTypeOK
<1>5. SeatsKnown'
  BY <1>1 DEF SeatsKnown, Seated, ConnTypeOK
<1>6. Held'
  <2>1. ASSUME NEW d \in Conn, NEW t \in Table, NEW u \in User, Holds(d, t, u)
        PROVE  Holds(d, t, u)'
    BY <1>1, <2>1 DEF Holds, ConnTypeOK
  <2>2. Holds(c, target[c], user[c])'
    BY <1>1 DEF Holds, ConnTypeOK
  <2> QED
    BY <1>1, <2>1, <2>2 DEF Held, ConnTypeOK
<1>7. CopyIsCurrent'
  BY DEF CopyIsCurrent, Seated
<1>8. CreditOpensAccount'
  BY DEF CreditOpensAccount, ConnTypeOK
<1> QED
  BY <1>2, <1>3, <1>4, <1>5, <1>6, <1>7, <1>8

\* A table that is full leaves the connection at no table.
LEMMA JoinRefusedInv ==
  ASSUME ConnInv, NEW c \in Conn, JoinRefused(c)
  PROVE  ConnInv'
PROOF
<1> USE DEF ConnInv, JoinRefused, Goto, tableVars
<1>1. ConnTypeOK'
  BY DEF ConnTypeOK, Location
<1>2. Single' /\ SeatsKnown'
  BY DEF Single, SeatsKnown, Seated
<1>3. LoginFirst'
  BY DEF LoginFirst, LoggingIn, ConnTypeOK
<1>4. Held'
  BY DEF Held, Holds, ConnTypeOK
<1>5. CopyIsCurrent'
  BY DEF CopyIsCurrent, Seated
<1>6. CreditOpensAccount'
  BY DEF CreditOpensAccount, ConnTypeOK
<1> QED
  BY <1>1, <1>2, <1>3, <1>4, <1>5, <1>6

\* The connection takes note of the table its player is at.
LEMMA AttachInv ==
  ASSUME ConnInv, NEW c \in Conn, Attach(c)
  PROVE  ConnInv'
PROOF
<1> USE DEF ConnInv, Attach, Goto, tableVars
<1>1. target[c] \in Table /\ current[c] = NoTable
  BY DEF ConnTypeOK
<1>2. ConnTypeOK'
  BY <1>1 DEF ConnTypeOK, Location
<1>3. Single' /\ SeatsKnown'
  BY DEF Single, SeatsKnown, Seated
<1>4. LoginFirst'
  BY DEF LoginFirst, LoggingIn, ConnTypeOK
<1>5. Held'
  <2>1. ASSUME NEW d \in Conn, NEW t \in Table, NEW u \in User, Holds(d, t, u)
        PROVE  Holds(d, t, u)'
    BY <1>1, <2>1 DEF Holds, ConnTypeOK
  <2> QED
    BY <2>1 DEF Held, ConnTypeOK
<1>6. CopyIsCurrent'
  BY DEF CopyIsCurrent, Seated
<1>7. CreditOpensAccount'
  BY DEF CreditOpensAccount, ConnTypeOK
<1> QED
  BY <1>2, <1>3, <1>4, <1>5, <1>6, <1>7

\* Who sits down has no seat elsewhere, because one connection is at one table.
LEMMA TakeSeatInv ==
  ASSUME ConnInv, NEW c \in Conn, NEW t \in Table, TakeSeat(c, t)
  PROVE  ConnInv'
PROOF
<1> USE DEF ConnInv, TakeSeat, Goto
<1>1. user[c] \in User /\ user[c] \in members[t]
  BY DEF ConnTypeOK
<1>2. \A s \in Table, v \in User : copy'[s][v] = IF s = t /\ v = user[c] THEN 0 ELSE copy[s][v]
  BY DEF ConnTypeOK
<1>3. \A s \in Table : Seated(s)' = IF s = t THEN Seated(s) \cup {user[c]} ELSE Seated(s)
  BY <1>1, <1>2 DEF Seated, NotSeated
<1>4. ConnTypeOK'
  <2>1. copy' \in [Table -> [User -> Nat \cup {NotSeated}]]
    BY DEF ConnTypeOK
  <2> QED
    BY <1>1, <2>1 DEF ConnTypeOK, Location
<1>5. Single'
  BY DEF Single
<1>6. LoginFirst'
  BY DEF LoginFirst, LoggingIn, ConnTypeOK
<1>7. SeatsKnown'
  BY <1>1, <1>3 DEF SeatsKnown, Idle, ConnTypeOK
<1>8. Held'
  BY DEF Held, Holds, ConnTypeOK
<1>9. CopyIsCurrent'
  <2>1. \A s \in Table : user[c] \notin overlapped /\ user[c] \in Seated(s) => s = t
    BY <1>1, OneTable DEF SeatsKnown
  <2>2. /\ loading' = [loading EXCEPT ![t] = user[c]]
        /\ UNCHANGED <<wallet, toFlush, overlapped>>
        /\ Idle(t) /\ user[c] \notin Seated(t)
    OBVIOUS
  <2>3. \A s \in Table : loading'[s] = IF s = t THEN user[c] ELSE loading[s]
    BY <2>2 DEF ConnTypeOK
  <2>4. \A s \in Table \ {t} : user[c] \notin overlapped => user[c] \notin Seated(s)
    BY <2>1
  <2> HIDE DEF ConnInv, TakeSeat, Goto
  <2>5. CopyIsCurrent
    BY DEF ConnInv
  <2>6. ASSUME NEW u \in User \ overlapped, NEW s \in Table, u \in Seated(s)'
        PROVE  /\ \A r \in Table \ {s} : u \notin Seated(r)'
               /\ loading'[s] # u /\ u \notin toFlush'[s] => copy'[s][u] = wallet'[u]
    <3>1. CASE u = user[c]
      BY <1>2, <1>3, <2>2, <2>3, <2>4, <2>6, <3>1
    <3>2. CASE u # user[c]
      BY <1>2, <1>3, <2>2, <2>3, <2>5, <2>6, <3>2 DEF CopyIsCurrent, Idle
    <3> QED
      BY <3>1, <3>2
  <2> QED
    BY <2>2, <2>6 DEF CopyIsCurrent
<1>10. CreditOpensAccount'
  BY DEF CreditOpensAccount, ConnTypeOK
<1> QED
  BY <1>4, <1>5, <1>6, <1>7, <1>8, <1>9, <1>10

\* Somebody at a table gives up the seat, and no more than the seat.
LEMMA LeaveSeatInv ==
  ASSUME ConnInv, NEW c \in Conn, NEW t \in Table, LeaveSeat(c, t)
  PROVE  ConnInv'
PROOF
<1> USE DEF ConnInv, LeaveSeat, connVars
<1>1. user[c] \in User
  BY DEF Seated
<1>2. \A s \in Table, v \in User :
        copy'[s][v] = IF s = t /\ v = user[c] THEN NotSeated ELSE copy[s][v]
  BY DEF ConnTypeOK
<1>3. \A s \in Table : Seated(s)' = IF s = t THEN Seated(s) \ {user[c]} ELSE Seated(s)
  BY <1>2 DEF Seated
<1>4. ConnTypeOK'
  <2>1. copy' \in [Table -> [User -> Nat \cup {NotSeated}]]
    BY DEF ConnTypeOK
  <2> QED
    BY <2>1 DEF ConnTypeOK
<1>5. Single' /\ LoginFirst'
  BY DEF Single, LoginFirst
<1>6. SeatsKnown'
  BY <1>3 DEF SeatsKnown, Idle
<1>7. Held'
  BY DEF Held, Holds
<1>8. CopyIsCurrent'
  BY <1>2, <1>3 DEF CopyIsCurrent
<1>9. CreditOpensAccount'
  BY DEF CreditOpensAccount
<1> QED
  BY <1>4, <1>5, <1>6, <1>7, <1>8, <1>9

\* A closed socket is noticed: the player is still held until the cleanup is done.
LEMMA DisconnectInv ==
  ASSUME ConnInv, NEW c \in Conn, Disconnect(c)
  PROVE  ConnInv'
PROOF
<1> USE DEF ConnInv, Disconnect, Goto, StopFeed, tableVars
<1>1. ConnTypeOK'
  BY DEF ConnTypeOK, Location
<1>2. Single' /\ SeatsKnown'
  BY DEF Single, SeatsKnown, Seated
<1>3. LoginFirst'
  BY DEF LoginFirst, LoggingIn, ConnTypeOK
<1>4. Held'
  BY DEF Held, Holds, ConnTypeOK
<1>5. CopyIsCurrent'
  BY DEF CopyIsCurrent, Seated
<1>6. CreditOpensAccount'
  BY DEF CreditOpensAccount, ConnTypeOK
<1> QED
  BY <1>1, <1>2, <1>3, <1>4, <1>5, <1>6

-----------------------------------------------------------------------------

\* A table loads what the wallet has.
LEMMA LoadBalanceInv ==
  ASSUME ConnInv, NEW t \in Table, LoadBalance(t)
  PROVE  ConnInv'
PROOF
<1> USE DEF ConnInv, LoadBalance
<1> DEFINE u == loading[t]
<1>1. u \in User /\ u \in Seated(t) /\ toFlush[t] = {} /\ wallet[u] \in Nat \cup {NotSeated}
  BY DEF SeatsKnown, ConnTypeOK, NotSeated, NoAccount
<1>2. \A s \in Table, v \in User :
        copy'[s][v] = IF s = t /\ v = u THEN wallet[u] ELSE copy[s][v]
  BY DEF ConnTypeOK
<1>3. \A s \in Table : loading'[s] = IF s = t THEN NoUser ELSE loading[s]
  BY DEF ConnTypeOK
<1>4. /\ UNCHANGED <<registered, wallet, user, current, members, toFlush, over, overlapped>>
      /\ \A c \in Conn : pc'[c] = IF pc[c] = "seating" /\ target[c] = t THEN "idle" ELSE pc[c]
      /\ \A c \in Conn : target'[c] = IF pc[c] = "seating" /\ target[c] = t THEN NoTable
                                      ELSE target[c]
  OBVIOUS
<1>5. \A s \in Table : /\ Seated(s)' \subseteq Seated(s)
                       /\ s # t => Seated(s)' = Seated(s)
  BY <1>1, <1>2 DEF Seated
<1>6. ConnTypeOK'
  <2>1. copy' \in [Table -> [User -> Nat \cup {NotSeated}]]
    BY <1>1 DEF ConnTypeOK
  <2> QED
    BY <2>1 DEF ConnTypeOK, Location
<1>7. Single'
  BY DEF Single
<1>8. LoginFirst'
  BY <1>4 DEF LoginFirst, LoggingIn
<1>9. SeatsKnown'
  BY <1>1, <1>3, <1>4, <1>5 DEF SeatsKnown
<1>10. Held'
  BY <1>4 DEF Held, Holds
<1>11. CopyIsCurrent'
  BY <1>1, <1>2, <1>3, <1>4, <1>5 DEF CopyIsCurrent
<1>12. CreditOpensAccount'
  BY <1>4 DEF CreditOpensAccount
<1> QED
  BY <1>6, <1>7, <1>8, <1>9, <1>10, <1>11, <1>12

\* Nobody's balance falls below zero, whoever loses.
LEMMA BalanceAfterType ==
  ASSUME NEW b \in Nat, NEW net \in {-Stake, 0, Stake}
  PROVE  BalanceAfter(b, net) \in Nat
PROOF
  BY DEF BalanceAfter

\* The round is over: the table owes the balance of everybody in a seat.
LEMMA FinishRoundInv ==
  ASSUME ConnInv, NEW t \in Table, FinishRound(t)
  PROVE  ConnInv'
PROOF
<1> USE DEF ConnInv
<1>1. PICK net \in [User -> {-Stake, 0, Stake}] :
        copy' = [copy EXCEPT ![t] = [u \in User |->
                   IF u \in Seated(t) THEN BalanceAfter(@[u], net[u]) ELSE NotSeated]]
  BY DEF FinishRound
<1>2. /\ Idle(t) /\ UNCHANGED <<registered, wallet, pc, user, current, target, feed,
                                members, loading, overlapped>>
      /\ over' = over \cup {t}
      /\ toFlush' = [toFlush EXCEPT ![t] = Seated(t)]
  BY DEF FinishRound
<1>3. \A v \in Seated(t) : v \in User /\ copy[t][v] \in Nat
  BY DEF Seated, ConnTypeOK
<1>4. \A v \in User : copy'[t][v] = IF v \in Seated(t) THEN BalanceAfter(copy[t][v], net[v])
                                    ELSE NotSeated
  BY <1>1 DEF ConnTypeOK
<1>5. \A v \in User : IF v \in Seated(t) THEN copy'[t][v] \in Nat
                      ELSE copy'[t][v] = NotSeated
  BY <1>3, <1>4, BalanceAfterType
<1>6. \A s \in Table : s # t => copy'[s] = copy[s]
  BY <1>1 DEF ConnTypeOK
<1>7. \A s \in Table : Seated(s)' = Seated(s)
  BY <1>5, <1>6 DEF Seated, NotSeated
<1>8. \A s \in Table : toFlush'[s] = IF s = t THEN Seated(t) ELSE toFlush[s]
  BY <1>2 DEF ConnTypeOK
<1>9. ConnTypeOK'
  <2>1. copy' \in [Table -> [User -> Nat \cup {NotSeated}]]
    <3>1. \A s \in Table : copy'[s] \in [User -> Nat \cup {NotSeated}]
      <4>1. copy'[t] \in [User -> Nat \cup {NotSeated}]
        <5>1. copy'[t] = [u \in User |-> IF u \in Seated(t)
                                         THEN BalanceAfter(copy[t][u], net[u]) ELSE NotSeated]
          BY <1>1 DEF ConnTypeOK
        <5> QED
          BY <1>5, <5>1
      <4> QED
        BY <1>6, <4>1 DEF ConnTypeOK
    <3>2. copy' = [s \in Table |-> copy'[s]]
      BY <1>1 DEF ConnTypeOK
    <3> QED
      BY <3>1, <3>2
  <2>2. toFlush' \in [Table -> SUBSET User]
    BY <1>2, <1>3 DEF ConnTypeOK
  <2> QED
    BY <1>2, <2>1, <2>2 DEF ConnTypeOK
<1>10. Single' /\ LoginFirst'
  BY <1>2 DEF Single, LoginFirst
<1>11. SeatsKnown'
  BY <1>2, <1>7, <1>8 DEF SeatsKnown, Idle
<1>12. Held'
  BY <1>2 DEF Held, Holds
<1>13. CopyIsCurrent'
  BY <1>2, <1>6, <1>7, <1>8 DEF CopyIsCurrent
<1>14. CreditOpensAccount'
  BY <1>2 DEF CreditOpensAccount
<1> QED
  BY <1>9, <1>10, <1>11, <1>12, <1>13, <1>14

\* What is written is the balance of somebody in a seat, and that is the only seat.
LEMMA FlushBalanceInv ==
  ASSUME ConnInv, NEW t \in Table, NEW u \in User, FlushBalance(t, u)
  PROVE  ConnInv'
PROOF
<1> USE DEF ConnInv, FlushBalance, connVars
<1>1. u \in Seated(t) /\ u \in members[t] /\ copy[t][u] \in Nat
  BY DEF SeatsKnown, Seated, ConnTypeOK
<1>2. \A v \in User : wallet'[v] = IF v = u THEN copy[t][u] ELSE wallet[v]
  BY DEF ConnTypeOK
<1>3. \A s \in Table : toFlush'[s] = IF s = t THEN toFlush[t] \ {u} ELSE toFlush[s]
  BY DEF ConnTypeOK
<1>4. \A s \in Table : Seated(s)' = Seated(s)
  BY DEF Seated
<1>5. ConnTypeOK'
  <2>1. wallet' \in [User -> Nat \cup {NoAccount}]
    BY <1>1 DEF ConnTypeOK
  <2> QED
    BY <2>1 DEF ConnTypeOK
<1>6. Single' /\ LoginFirst'
  BY DEF Single, LoginFirst
<1>7. SeatsKnown'
  BY <1>3, <1>4 DEF SeatsKnown
<1>8. Held'
  BY DEF Held, Holds
<1>9. CopyIsCurrent'
  BY <1>1, <1>2, <1>3, <1>4 DEF CopyIsCurrent
<1>10. CreditOpensAccount'
  <2>1. ASSUME NEW c \in Conn, pc[c] = "credit", user[c] \notin overlapped
        PROVE  user[c] # u /\ user[c] \in User
    <3>1. user[c] \notin members[t]
      BY <2>1, NowhereBeforeLogin DEF LoggingIn
    <3> QED
      BY <1>1, <2>1, <3>1 DEF ConnTypeOK
  <2> QED
    BY <1>2, <2>1 DEF CreditOpensAccount
<1> QED
  BY <1>5, <1>6, <1>7, <1>8, <1>9, <1>10

\* A new round forgets who is in no seat; those in a seat are held as before.
LEMMA ResetRoundInv ==
  ASSUME ConnInv, NEW t \in Table, ResetRound(t)
  PROVE  ConnInv'
PROOF
<1> USE DEF ConnInv, ResetRound, connVars
<1>1. \A s \in Table : members'[s] = IF s = t THEN Seated(t) ELSE members[s]
  BY DEF ConnTypeOK
<1>2. \A s \in Table : Seated(s)' = Seated(s) /\ Seated(s) \subseteq User
  BY DEF Seated
<1>3. ConnTypeOK'
  <2>1. members' \in [Table -> SUBSET User]
    BY <1>2 DEF ConnTypeOK
  <2> QED
    BY <2>1 DEF ConnTypeOK
<1>4. Single' /\ LoginFirst'
  BY DEF Single, LoginFirst
<1>5. SeatsKnown'
  BY <1>1, <1>2 DEF SeatsKnown
<1>6. Held'
  BY <1>1 DEF Held, Holds, SeatsKnown
<1>7. CopyIsCurrent'
  BY <1>2 DEF CopyIsCurrent
<1>8. CreditOpensAccount'
  BY DEF CreditOpensAccount
<1> QED
  BY <1>3, <1>4, <1>5, <1>6, <1>7, <1>8

-----------------------------------------------------------------------------

\* Nobody is connected and no table knows anybody.
LEMMA InitInv == Init => ConnInv
PROOF
<1> SUFFICES ASSUME Init PROVE ConnInv
  OBVIOUS
<1> USE DEF Init
<1>1. ConnTypeOK
  <2>1. wallet \in [User -> Nat \cup {NoAccount}]
    OBVIOUS
  <2>2. copy \in [Table -> [User -> Nat \cup {NotSeated}]]
    OBVIOUS
  <2> QED
    BY <2>1, <2>2 DEF ConnTypeOK, Location
<1>2. \A t \in Table : Seated(t) = {}
  BY DEF Seated
<1>3. Single /\ LoginFirst /\ Held
  BY DEF Single, LoginFirst, Held
<1>4. SeatsKnown
  BY <1>2 DEF SeatsKnown
<1>5. CopyIsCurrent /\ CreditOpensAccount
  BY <1>2 DEF CopyIsCurrent, CreditOpensAccount
<1> QED
  BY <1>1, <1>3, <1>4, <1>5 DEF ConnInv

\* A step that changes nothing keeps the invariant.
LEMMA StutterInv ==
  ASSUME ConnInv, UNCHANGED vars
  PROVE  ConnInv'
PROOF
<1> USE DEF ConnInv, vars, connVars, tableVars
<1>1. ConnTypeOK' /\ Single' /\ LoginFirst'
  BY DEF ConnTypeOK, Single, LoginFirst
<1>2. SeatsKnown' /\ CopyIsCurrent'
  BY DEF SeatsKnown, CopyIsCurrent, Seated
<1>3. Held' /\ CreditOpensAccount'
  BY DEF Held, Holds, CreditOpensAccount
<1> QED
  BY <1>1, <1>2, <1>3

\* Every step of a client, a connection or a table keeps the invariant.
LEMMA StepInv == ConnInv /\ [Next]_vars => ConnInv'
PROOF
<1> SUFFICES ASSUME ConnInv, [Next]_vars PROVE ConnInv'
  OBVIOUS
<1>1. ASSUME NEW c \in Conn, FromOutside(c) PROVE ConnInv'
  BY <1>1, OpenInv, RejectInv, DisconnectInv, AuthenticateInv, JoinTableInv, LeaveTableInv,
     TakeSeatInv, LeaveSeatInv
  DEF FromOutside
<1>2. ASSUME NEW c \in Conn, Handler(c) PROVE ConnInv'
  BY <1>2, CheckAccountInv, CreditInv, WelcomeInv, LeaveOldTableInv, JoinAcceptedInv,
     JoinRefusedInv, AttachInv, CleanupInv
  DEF Handler
<1>3. ASSUME NEW t \in Table, Actor(t) PROVE ConnInv'
  BY <1>3, LoadBalanceInv, FlushBalanceInv DEF Actor
<1>4. ASSUME NEW t \in Table, Round(t) PROVE ConnInv'
  BY <1>4, FinishRoundInv, ResetRoundInv DEF Round
<1>5. CASE UNCHANGED vars
  BY <1>5, StutterInv
<1> QED
  BY <1>1, <1>2, <1>3, <1>4, <1>5 DEF Next

\* ConnInv is an invariant, with and without fairness.
THEOREM Invariance == Spec => []ConnInv
PROOF
  BY InitInv, StepInv, PTL DEF Spec

\* Every variable keeps its type, and handle_socket has a player, a table or a target
\* exactly where it needs one.
THEOREM ConnTypeCorrect == Spec => []ConnTypeOK
PROOF
<1>1. ConnInv => ConnTypeOK
  BY DEF ConnInv
<1> QED
  BY <1>1, Invariance, PTL

\* No player haunts a table: with any number of users, connections and tables, who is
\* at a table, and has had one connection at a time (ws.rs:151-357, 526-568), has one whose
\* end will take him away.
THEOREM HeldByConnectionHolds == Spec => []HeldByConnection
PROOF
<1>1. ConnInv => HeldByConnection
  BY DEF ConnInv, Held, HeldByConnection, Holds, Holders
<1> QED
  BY <1>1, Invariance, PTL

\* No table plays with, or writes back (table_actor.rs:286-292), a balance that another one
\* has overtaken, unless the player has had two connections at a time.
THEOREM CopyIsCurrentHolds == Spec => []CopyIsCurrent
PROOF
<1>1. ConnInv => CopyIsCurrent
  BY DEF ConnInv
<1> QED
  BY <1>1, Invariance, PTL

\* The opening chips (ws.rs:57-63) open an account and are never added to one, unless the
\* user has had two connections at a time.
THEOREM CreditOpensAccountHolds == Spec => []CreditOpensAccount
PROOF
<1>1. ConnInv => CreditOpensAccount
  BY DEF ConnInv
<1> QED
  BY <1>1, Invariance, PTL

================================================================================
