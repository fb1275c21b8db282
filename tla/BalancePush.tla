------------------------------ MODULE BalancePush ------------------------------
(***************************************************************************)
(* The Balance messages of Connections: what the client's header shows, by  *)
(* the messages sent so far.  The connection sends one when a login is done *)
(* (routes/ws.rs:80), the forwarder sends one after each GameFinished       *)
(* (routes/ws.rs:340); the client makes a new header, without a balance,    *)
(* for each screen (cli/src/state/ui_state.rs).                             *)
(***************************************************************************)
EXTENDS Connections

VARIABLES news,  \* the forwarders that have sent GameFinished and are to read the wallet
          told   \* my_balance of the header

pushVars == <<vars, news, told>>

-----------------------------------------------------------------------------

Unknown == -1

\* The login's Balance; the snapshot, which makes a new screen; back to the lobby or
\* to the login screen.
Header(c) ==
  CASE pc[c] = "welcome" /\ pc'[c] = "idle" -> wallet[user[c]]
    [] feed[c] # feed'[c] \/ pc'[c] = "closed" -> Unknown
    [] OTHER -> told[c]

\* A connection moves; an aborted forwarder sends nothing any more.
ConnStep(c) ==
  /\ FromOutside(c) \/ Handler(c)
  /\ news' = IF feed'[c] = NoTable THEN news \ {c} ELSE news
  /\ told' = [told EXCEPT ![c] = Header(c)]

\* GameFinished is broadcast with the settlement, before the wallet is written.
GameFinished(t) ==
  /\ FinishRound(t)
  /\ news' = news \cup {c \in Conn : feed[c] = t}
  /\ UNCHANGED told

\* The forwarder reads the wallet once it has sent GameFinished.
TellBalance(c) ==
  /\ c \in news
  /\ news' = news \ {c}
  /\ told' = [told EXCEPT ![c] = wallet[user[c]]]
  /\ UNCHANGED vars

PushInit ==
  /\ Init
  /\ news = {}
  /\ told = [c \in Conn |-> Unknown]

PushNext ==
  \/ \E c \in Conn : ConnStep(c) \/ TellBalance(c)
  \/ \E t \in Table :
       \/ GameFinished(t)
       \/ (Actor(t) \/ ResetRound(t)) /\ UNCHANGED <<news, told>>

PushSpec == PushInit /\ [][PushNext]_pushVars

-----------------------------------------------------------------------------

\* ADR-0004, data flow of GameFinished: wallet.set_balance for each player, then the
\* Balance that updates the header.  Once everything about a round is written and
\* sent, a seated player who has been told a balance has been told the right one.
BalanceReconciled ==
  \A c \in Conn, t \in Table :
    /\ feed[c] = t /\ c \notin news
    /\ user[c] \in Seated(t) \ overlapped
    /\ Idle(t)
    => told[c] \in {Unknown, wallet[user[c]]}

==============================================================================
