-------------------------- MODULE ClientViewTheorems --------------------------
(***************************************************************************)
(* Theorems about ClientView, for any players, chips and cards: what the    *)
(* table does here is what GameEngine does, and a client that applies the   *)
(* events on their way shows the table as it is.                            *)
(*                                                                          *)
(* The argument.  Leads(u, q, v, T) is a walk: the events of q take the     *)
(* screen u to v, always inside T.  Every step of the table is Announced:   *)
(* whatever a screen shows, the events of the step take it along (Told),    *)
(* and one that is exact before is clean after them and gives nothing away  *)
(* in between (Heard).  So the invariant says that, while a forwarder sends *)
(* events on, a walk along the queue takes the client's screen to a right   *)
(* one, and a clean one if no event came twice.  A forwarder that is        *)
(* aborted leaves a part of the walk: the screen stops, but still gives     *)
(* nothing away.  What is held back for a client that joins it may already  *)
(* have seen in the snapshot: these events only Renew what is right.        *)
(***************************************************************************)
EXTENDS ClientView, GameEngineTheorems

USE PlayerAssumption, ClientAssumption


\* The events that say where somebody is.
MoveKinds ==
  {"ObserverJoined", "ObserverLeft", "PlayerAddedToWaitingList",
   "PlayerRemovedFromWaitingList", "PlayerJoined", "PlayerLeft"}

\* Those that begin or end a round, or pass the turn.
RoundKinds == {"GameStarted", "GameFinished", "PhaseChanged"}

\* Those about a card or a stake.
CardKinds ==
  {"PlayerPlacedBet", "PlayerDoubledDown", "PlayerCardDealt", "PlayerBust",
   "DealerCardDealt", "DealerHoleCardDealt", "DealerHoleCardRevealed"}

\* EventPayload, as far as the screen reads it.
Payload ==
  {e \in [kind : MoveKinds \cup RoundKinds \cup CardKinds, who : SUBSET Player, n : Nat,
          to : Phase] :
     /\ e.kind \in MoveKinds => \E p \in Player : e.who = {p}
     /\ e.kind \in {"PlayerCardDealt", "DealerCardDealt", "DealerHoleCardRevealed"} =>
          e.n \in Pip}

\* Nobody has two rows, and the client knows whether it only watches.
Tidy(s) == IsInjective(s.players) /\ (s.isObserver <=> Me \in s.observers)

\* What is behind a table screen.
Shown == {u \in UiState : u.screen.shown /\ Tidy(u.screen)}

\* An event about p has p as its subject.
LEMMA SubjectIs == ASSUME NEW e, NEW p, e.who = {p} PROVE Subject(e) = p
PROOF
  BY DEF Subject

\* A new row has no cards and no stake.
LEMMA RowType == EmptyRow \in Row /\ EmptyRow.bust = FALSE /\ EmptyRow.hand = EmptyHand /\ EmptyRow.bet = 0
PROOF
  BY EmptyHandType DEF EmptyRow, Row

\* RowsOf changes the rows it is asked to and nothing else.
LEMMA RowsOfType ==
  ASSUME NEW s \in TableState, NEW who, NEW row \in [Player -> Row]
  PROVE  /\ RowsOf(s, who, row) \in TableState
         /\ RowsOf(s, who, row) = [s EXCEPT !.row = RowsOf(s, who, row).row]
         /\ \A p \in Player : RowsOf(s, who, row).row[p] =
              IF p \in who /\ p \in Range(s.players) THEN row[p] ELSE s.row[p]
PROOF
<1> DEFINE r == [p \in Player |-> IF p \in who \cap Range(s.players) THEN row[p] ELSE s.row[p]]
<1>1. r \in [Player -> Row]
  BY DEF TableState
<1>2. RowsOf(s, who, row) = [s EXCEPT !.row = r]
  BY DEF RowsOf, TableState
<1> HIDE DEF r
<1>3. [s EXCEPT !.row = r] \in TableState
  BY <1>1 DEF TableState
<1>4. RowsOf(s, who, row).row = r
  BY <1>2 DEF TableState
<1> QED
  BY <1>2, <1>3, <1>4 DEF r

\* t is s after the event e, with which p moves.
Moved(s, e, p, t) ==
  /\ t.shown = s.shown /\ t.phase = s.phase /\ t.myTurn = s.myTurn /\ t.dealer = s.dealer
  /\ t.observers = IF e.kind = "ObserverJoined" THEN s.observers \cup {p}
                   ELSE IF e.kind \in {"ObserverLeft", "PlayerAddedToWaitingList", "PlayerJoined"}
                   THEN s.observers \ {p} ELSE s.observers
  /\ t.waiting = IF e.kind = "PlayerAddedToWaitingList" THEN s.waiting \cup {p}
                 ELSE IF e.kind \in {"PlayerRemovedFromWaitingList", "PlayerJoined"}
                 THEN s.waiting \ {p} ELSE s.waiting
  /\ t.players = IF e.kind = "PlayerJoined"
                 THEN IF p \in Range(s.players) THEN s.players ELSE Append(s.players, p)
                 ELSE IF e.kind = "PlayerLeft" THEN RemoveFirst(s.players, p) ELSE s.players
  /\ t.active = IF e.kind = "PlayerLeft" THEN s.active \ {p} ELSE s.active
  /\ t.row = IF e.kind = "PlayerLeft"
             THEN [q \in Player |-> IF q = p THEN EmptyRow ELSE s.row[q]] ELSE s.row

\* ApplyMove does what Moved says, and leaves the screen tidy.
LEMMA MoveEffect ==
  ASSUME NEW s \in TableState, Tidy(s), NEW e \in Payload, e.kind \in MoveKinds,
         NEW p \in Player, e.who = {p}, NEW t, t = ApplyMove(s, e)
  PROVE  /\ t \in TableState /\ Tidy(t) /\ Moved(s, e, p, t)
PROOF
<1>1. Subject(e) = p
  BY SubjectIs
<1>2. IsInjective(s.players) /\ s.players \in Seq(Player)
  BY DEF Tidy, TableState
<1>3. /\ RemoveFirst(s.players, p) \in Seq(Player) /\ IsInjective(RemoveFirst(s.players, p))
      /\ Append(s.players, p) \in Seq(Player)
      /\ p \notin Range(s.players) => IsInjective(Append(s.players, p))
  BY <1>2, RemoveFirstProperties, AppendElement
<1>4. [q \in Player |-> IF q = p THEN EmptyRow ELSE s.row[q]] \in [Player -> Row]
  BY RowType DEF TableState
<1> DEFINE Changed(o, w, ps) ==
             /\ t \in TableState /\ Tidy(t)
             /\ t.shown = s.shown /\ t.phase = s.phase /\ t.myTurn = s.myTurn
             /\ t.dealer = s.dealer /\ t.active = s.active /\ t.row = s.row
             /\ t.observers = o /\ t.waiting = w /\ t.players = ps
<1>0. ASSUME NEW o \in SUBSET Player, NEW w \in SUBSET Player, NEW ps \in Seq(Player),
             NEW b \in BOOLEAN, IsInjective(ps), b <=> Me \in o,
             t = [s EXCEPT !.observers = o, !.waiting = w, !.players = ps, !.isObserver = b]
      PROVE  Changed(o, w, ps)
  <2>1. /\ t \in TableState
        /\ t.shown = s.shown /\ t.phase = s.phase /\ t.myTurn = s.myTurn
        /\ t.dealer = s.dealer /\ t.active = s.active /\ t.row = s.row
        /\ t.observers = o /\ t.waiting = w /\ t.players = ps /\ t.isObserver = b
    BY <1>0 DEF TableState
  <2>2. Tidy(t)
    BY <1>0, <2>1 DEF Tidy
  <2> QED
    BY <2>1, <2>2
<1>5. CASE e.kind = "ObserverJoined"
  <2> DEFINE b == s.isObserver \/ Me \in {p} \ s.observers
             o == s.observers \cup {p}
             w == s.waiting
             ps == s.players
  <2>1. t = [s EXCEPT !.observers = o, !.waiting = w, !.players = ps, !.isObserver = b]
    BY <1>1, <1>5 DEF ApplyMove, TableState
  <2>2. o \in SUBSET Player /\ w \in SUBSET Player /\ b \in BOOLEAN
    BY DEF TableState
  <2>3. b <=> Me \in o
    BY DEF Tidy
  <2>4. ps \in Seq(Player) /\ IsInjective(ps)
    BY <1>2, <1>3
  <2>5. Changed(o, w, ps)
    <3> HIDE DEF o, w, ps, b, Changed
    <3> QED
      BY <2>1, <2>2, <2>3, <2>4, <1>0
  <2> QED
    BY <1>5, <2>5 DEF Moved
<1>6. CASE e.kind = "ObserverLeft"
  <2> DEFINE b == s.isObserver /\ Me \notin {p}
             o == s.observers \ {p}
             w == s.waiting
             ps == s.players
  <2>1. t = [s EXCEPT !.observers = o, !.waiting = w, !.players = ps, !.isObserver = b]
    BY <1>1, <1>6 DEF ApplyMove, TableState
  <2>2. o \in SUBSET Player /\ w \in SUBSET Player /\ b \in BOOLEAN
    BY DEF TableState
  <2>3. b <=> Me \in o
    BY DEF Tidy
  <2>4. ps \in Seq(Player) /\ IsInjective(ps)
    BY <1>2, <1>3
  <2>5. Changed(o, w, ps)
    <3> HIDE DEF o, w, ps, b, Changed
    <3> QED
      BY <2>1, <2>2, <2>3, <2>4, <1>0
  <2> QED
    BY <1>6, <2>5 DEF Moved
<1>7. CASE e.kind = "PlayerAddedToWaitingList"
  <2> DEFINE b == s.isObserver /\ Me \notin {p}
             o == s.observers \ {p}
             w == s.waiting \cup {p}
             ps == s.players
  <2>1. t = [s EXCEPT !.observers = o, !.waiting = w, !.players = ps, !.isObserver = b]
    BY <1>1, <1>7 DEF ApplyMove, TableState
  <2>2. o \in SUBSET Player /\ w \in SUBSET Player /\ b \in BOOLEAN
    BY DEF TableState
  <2>3. b <=> Me \in o
    BY DEF Tidy
  <2>4. ps \in Seq(Player) /\ IsInjective(ps)
    BY <1>2, <1>3
  <2>5. Changed(o, w, ps)
    <3> HIDE DEF o, w, ps, b, Changed
    <3> QED
      BY <2>1, <2>2, <2>3, <2>4, <1>0
  <2> QED
    BY <1>7, <2>5 DEF Moved
<1>8. CASE e.kind = "PlayerRemovedFromWaitingList"
  <2> DEFINE b == s.isObserver
             o == s.observers
             w == s.waiting \ {p}
             ps == s.players
  <2>1. t = [s EXCEPT !.observers = o, !.waiting = w, !.players = ps, !.isObserver = b]
    BY <1>1, <1>8 DEF ApplyMove, TableState
  <2>2. o \in SUBSET Player /\ w \in SUBSET Player /\ b \in BOOLEAN
    BY DEF TableState
  <2>3. b <=> Me \in o
    BY DEF Tidy
  <2>4. ps \in Seq(Player) /\ IsInjective(ps)
    BY <1>2, <1>3
  <2>5. Changed(o, w, ps)
    <3> HIDE DEF o, w, ps, b, Changed
    <3> QED
      BY <2>1, <2>2, <2>3, <2>4, <1>0
  <2> QED
    BY <1>8, <2>5 DEF Moved
<1>9. CASE e.kind = "PlayerJoined"
  <2> DEFINE b == s.isObserver /\ Me \notin {p}
             o == s.observers \ {p}
             w == s.waiting \ {p}
             ps == IF p \in Range(s.players) THEN s.players ELSE Append(s.players, p)
  <2>1. t = [s EXCEPT !.observers = o, !.waiting = w, !.players = ps, !.isObserver = b]
    BY <1>1, <1>9 DEF ApplyMove, TableState
  <2>2. o \in SUBSET Player /\ w \in SUBSET Player /\ b \in BOOLEAN
    BY DEF TableState
  <2>3. b <=> Me \in o
    BY DEF Tidy
  <2>4. ps \in Seq(Player) /\ IsInjective(ps)
    BY <1>2, <1>3
  <2>5. Changed(o, w, ps)
    <3> HIDE DEF o, w, ps, b, Changed
    <3> QED
      BY <2>1, <2>2, <2>3, <2>4, <1>0
  <2> QED
    BY <1>9, <2>5 DEF Moved
<1>10. CASE e.kind = "PlayerLeft"
  <2> DEFINE ps == RemoveFirst(s.players, p)
             r == [q \in Player |-> IF q = p THEN EmptyRow ELSE s.row[q]]
  <2>1. t = [s EXCEPT !.players = ps, !.active = @ \ {p}, !.row = r]
    BY <1>1, <1>10 DEF ApplyMove, TableState
  <2>2. /\ t \in TableState /\ t.players = ps /\ t.row = r /\ t.active = s.active \ {p}
        /\ t.shown = s.shown /\ t.phase = s.phase /\ t.myTurn = s.myTurn /\ t.dealer = s.dealer
        /\ t.observers = s.observers /\ t.waiting = s.waiting /\ t.isObserver = s.isObserver
    <3> HIDE DEF ps, r
    <3> QED
      BY <1>3, <1>4, <2>1 DEF TableState, ps, r
  <2> QED
    BY <1>3, <1>10, <2>2 DEF Tidy, Moved
<1> QED
  BY <1>5, <1>6, <1>7, <1>8, <1>9, <1>10 DEF MoveKinds

\* t is s after the event e about a card or a stake.
Marked(s, e, t) ==
  /\ t.shown = s.shown /\ t.phase = s.phase /\ t.myTurn = s.myTurn /\ t.active = s.active
  /\ t.observers = s.observers /\ t.waiting = s.waiting /\ t.players = s.players
  /\ t.dealer = IF e.kind = "DealerCardDealt" THEN Append(s.dealer, e.n)
                ELSE IF e.kind = "DealerHoleCardDealt" THEN Append(s.dealer, Hidden)
                ELSE IF e.kind = "DealerHoleCardRevealed"
                THEN [i \in DOMAIN s.dealer |-> IF i = 2 THEN e.n ELSE s.dealer[i]]
                ELSE s.dealer
  /\ \A p \in Player : t.row[p] =
       IF p \notin e.who \/ p \notin Range(s.players) THEN s.row[p]
       ELSE IF e.kind = "PlayerPlacedBet" THEN [s.row[p] EXCEPT !.bet = e.n]
       ELSE IF e.kind = "PlayerDoubledDown" THEN [s.row[p] EXCEPT !.bet = @ + e.n]
       ELSE IF e.kind = "PlayerCardDealt" THEN [s.row[p] EXCEPT !.hand = AddCard(@, e.n)]
       ELSE IF e.kind = "PlayerBust" THEN [s.row[p] EXCEPT !.bust = TRUE]
       ELSE s.row[p]

\* ApplyCard does what Marked says.
LEMMA CardEffect ==
  ASSUME NEW s \in TableState, Tidy(s), NEW e \in Payload, e.kind \in CardKinds,
         NEW t, t = ApplyCard(s, e)
  PROVE  /\ t \in TableState /\ Tidy(t) /\ Marked(s, e, t)
PROOF
<1>1. e.n \in Nat
  BY DEF Payload
<1>2. ASSUME NEW r \in [Player -> Row], t = RowsOf(s, e.who, r),
             e.kind \in {"PlayerPlacedBet", "PlayerDoubledDown", "PlayerCardDealt", "PlayerBust"},
             \A p \in Player : p \in e.who =>
               r[p] = IF e.kind = "PlayerPlacedBet" THEN [s.row[p] EXCEPT !.bet = e.n]
                      ELSE IF e.kind = "PlayerDoubledDown" THEN [s.row[p] EXCEPT !.bet = @ + e.n]
                      ELSE IF e.kind = "PlayerCardDealt" THEN [s.row[p] EXCEPT !.hand = AddCard(@, e.n)]
                      ELSE [s.row[p] EXCEPT !.bust = TRUE]
      PROVE  t \in TableState /\ Tidy(t) /\ Marked(s, e, t)
  <2>1. t \in TableState /\ t = [s EXCEPT !.row = t.row]
    BY <1>2, RowsOfType
  <2>2. \A p \in Player : t.row[p] = IF p \in e.who /\ p \in Range(s.players) THEN r[p] ELSE s.row[p]
    BY <1>2, RowsOfType
  <2>3. /\ t.shown = s.shown /\ t.phase = s.phase /\ t.myTurn = s.myTurn /\ t.active = s.active
        /\ t.observers = s.observers /\ t.waiting = s.waiting /\ t.players = s.players
        /\ t.dealer = s.dealer /\ t.isObserver = s.isObserver
    BY <2>1 DEF TableState
  <2>4. Tidy(t)
    BY <2>3 DEF Tidy
  <2> QED
    BY <1>2, <2>1, <2>2, <2>3, <2>4 DEF Marked
<1>3. CASE e.kind = "PlayerPlacedBet"
  <2> DEFINE r == [p \in Player |-> [s.row[p] EXCEPT !.bet = e.n]]
  <2>1. r \in [Player -> Row]
    BY <1>1 DEF TableState, Row
  <2>2. t = RowsOf(s, e.who, r)
    BY <1>3 DEF ApplyCard
  <2> QED
    BY <1>2, <1>3, <2>1, <2>2
<1>4. CASE e.kind = "PlayerDoubledDown"
  <2> DEFINE r == [p \in Player |-> [s.row[p] EXCEPT !.bet = @ + e.n]]
  <2>1. r \in [Player -> Row]
    <3>1. ASSUME NEW p \in Player PROVE [s.row[p] EXCEPT !.bet = @ + e.n] \in Row
      <4>1. s.row[p] \in Row
        BY DEF TableState
      <4>2. s.row[p].bet + e.n \in Nat
        BY <1>1, <4>1 DEF Row
      <4> QED
        BY <4>1, <4>2 DEF Row
    <3> QED
      BY <3>1
  <2>2. t = RowsOf(s, e.who, r)
    BY <1>4 DEF ApplyCard
  <2> QED
    BY <1>2, <1>4, <2>1, <2>2
<1>5. CASE e.kind = "PlayerCardDealt"
  <2> DEFINE r == [p \in Player |-> [s.row[p] EXCEPT !.hand = AddCard(@, e.n)]]
  <2>1. r \in [Player -> Row]
    <3>1. e.n \in Pip
      BY <1>5 DEF Payload
    <3>2. \A p \in Player : s.row[p] \in Row /\ AddCard(s.row[p].hand, e.n) \in Hand
      BY <3>1, AddCardType DEF TableState, Row
    <3> QED
      BY <3>2 DEF Row
  <2>2. t = RowsOf(s, e.who, r)
    BY <1>5 DEF ApplyCard
  <2> QED
    BY <1>2, <1>5, <2>1, <2>2
<1>6. CASE e.kind = "PlayerBust"
  <2> DEFINE r == [p \in Player |-> [s.row[p] EXCEPT !.bust = TRUE]]
  <2>1. r \in [Player -> Row]
    BY DEF TableState, Row
  <2>2. t = RowsOf(s, e.who, r)
    BY <1>6 DEF ApplyCard
  <2> QED
    BY <1>2, <1>6, <2>1, <2>2
<1>7. ASSUME NEW d \in Seq(Pip \cup {Hidden}), t = [s EXCEPT !.dealer = d]
      PROVE  /\ t \in TableState /\ Tidy(t)
             /\ t.shown = s.shown /\ t.phase = s.phase /\ t.myTurn = s.myTurn /\ t.active = s.active
             /\ t.observers = s.observers /\ t.waiting = s.waiting /\ t.players = s.players
             /\ t.dealer = d /\ t.row = s.row
  BY <1>7 DEF TableState, Tidy
<1>8. s.dealer \in Seq(Pip \cup {Hidden})
  BY DEF TableState
<1>9. CASE e.kind = "DealerCardDealt"
  <2>1. Append(s.dealer, e.n) \in Seq(Pip \cup {Hidden})
    BY <1>8, <1>9 DEF Payload
  <2>2. t = [s EXCEPT !.dealer = Append(s.dealer, e.n)]
    BY <1>9 DEF ApplyCard, TableState
  <2> QED
    BY <1>7, <1>9, <2>1, <2>2 DEF Marked
<1>10. CASE e.kind = "DealerHoleCardDealt"
  <2>1. Append(s.dealer, Hidden) \in Seq(Pip \cup {Hidden})
    BY <1>8
  <2>2. t = [s EXCEPT !.dealer = Append(s.dealer, Hidden)]
    BY <1>10 DEF ApplyCard, TableState
  <2> QED
    BY <1>7, <1>10, <2>1, <2>2 DEF Marked
<1>11. CASE e.kind = "DealerHoleCardRevealed"
  <2> DEFINE d == [i \in DOMAIN s.dealer |-> IF i = 2 THEN e.n ELSE s.dealer[i]]
  <2>1. d \in Seq(Pip \cup {Hidden})
    <3>1. e.n \in Pip
      BY <1>11 DEF Payload
    <3>2. Len(s.dealer) \in Nat /\ DOMAIN s.dealer = 1..Len(s.dealer)
      BY <1>8, LenProperties
    <3>3. d \in [1..Len(s.dealer) -> Pip \cup {Hidden}]
      BY <1>8, <3>1, <3>2, ElementOfSeq
    <3> HIDE DEF d
    <3> QED
      BY <3>2, <3>3, SeqDef
  <2>2. t = [s EXCEPT !.dealer = d]
    BY <1>11 DEF ApplyCard, TableState
  <2> HIDE DEF d
  <2>3. t.dealer = d
    BY <1>7, <2>1, <2>2
  <2> QED
    BY <1>7, <1>11, <2>1, <2>2 DEF d, Marked
<1> QED
  BY <1>3, <1>4, <1>5, <1>6, <1>9, <1>10, <1>11 DEF CardKinds

\* Every phase of the table is one of the screen's.
LEMMA GamePhaseType == \A ph \in Phase : GamePhaseOf(ph) \in GamePhase
PROOF
  BY DEF Phase, GamePhaseOf, GamePhase

\* The row of a new round, and of a settled one.
NewHand(r) == [bet |-> r.bet, hand |-> EmptyHand, bust |-> FALSE]

\* The same row without its stake.
Unstaked(r) == [r EXCEPT !.bet = 0]

\* These two empty the table of cards.
Clears(e) == e.kind = "GameStarted" \/ (e.kind = "PhaseChanged" /\ e.to = "WaitingForBets")

\* t is s after the event e about the round.
Turned(s, e, t) ==
  /\ t.observers = s.observers /\ t.waiting = s.waiting /\ t.players = s.players
  /\ t.phase = IF e.kind = "GameStarted" THEN "Dealing"
               ELSE IF e.kind = "GameFinished" THEN "Finished" ELSE GamePhaseOf(e.to)
  /\ e.kind # "PhaseChanged" => (t.myTurn <=> s.myTurn) /\ t.active = s.active
  /\ e.kind = "PhaseChanged" /\ e.to = "WaitingForBets" => ~t.myTurn /\ t.active = {}
  /\ e.kind = "PhaseChanged" /\ e.to # "WaitingForBets" =>
       (t.myTurn <=> Me \in e.who) /\ t.active = e.who \cap Range(s.players)
  /\ Clears(e) => t.dealer = <<>>
  /\ ~Clears(e) => t.dealer = s.dealer
  /\ \A p \in Player : t.row[p] =
       IF e.kind = "GameStarted" /\ p \in Range(s.players)
       THEN NewHand(s.row[p])
       ELSE IF e.kind = "GameFinished" /\ p \in e.who /\ p \in Range(s.players)
       THEN Unstaked(s.row[p])
       ELSE IF e.kind = "PhaseChanged" /\ e.to = "WaitingForBets" THEN EmptyRow
       ELSE s.row[p]

\* ApplyRound does what Turned says.
LEMMA RoundEffect ==
  ASSUME NEW s \in TableState, Tidy(s), NEW e \in Payload, e.kind \in RoundKinds,
         NEW t, t = ApplyRound(s, e)
  PROVE  /\ t \in TableState /\ Tidy(t) /\ t.shown = s.shown /\ Turned(s, e, t)
PROOF
<1>1. GamePhaseOf(e.to) \in GamePhase
  BY GamePhaseType DEF Payload
<1>2. CASE e.kind = "GameStarted"
  <2> DEFINE r == [p \in Player |-> [EmptyRow EXCEPT !.bet = s.row[p].bet]]
             x == RowsOf(s, Player, r)
  <2>1. r \in [Player -> Row]
    BY RowType DEF TableState, Row
  <2>2. t = [x EXCEPT !.dealer = <<>>, !.phase = "Dealing"]
    BY <1>2 DEF ApplyRound
  <2>3. x \in TableState /\ x = [s EXCEPT !.row = x.row]
    BY <2>1, RowsOfType
  <2>6. <<>> \in Seq(Pip \cup {Hidden}) /\ "Dealing" \in GamePhase
    BY DEF GamePhase
  <2> HIDE DEF x
  <2>7. t \in TableState
    BY <2>2, <2>3, <2>6 DEF TableState
  <2>4. /\ t \in TableState /\ t.shown = s.shown /\ t.isObserver = s.isObserver
        /\ t.observers = s.observers /\ t.waiting = s.waiting /\ t.players = s.players
        /\ t.phase = "Dealing" /\ t.myTurn = s.myTurn /\ t.active = s.active
        /\ t.dealer = <<>> /\ t.row = x.row
    BY <2>2, <2>3, <2>7 DEF TableState
  <2>5. Tidy(t)
    BY <2>4 DEF Tidy
  <2> DEFINE new == [p \in Player |-> NewHand(s.row[p])]
  <2>8. \A p \in Player : t.row[p] = IF p \in Range(s.players) THEN new[p] ELSE s.row[p]
    <3>1. \A p \in Player : r[p] = new[p]
      <4>1. \A p \in Player : r[p] = [bet |-> s.row[p].bet, hand |-> EmptyHand, bust |-> FALSE]
        BY DEF EmptyRow
      <4> HIDE DEF r
      <4> QED
        BY <4>1 DEF NewHand
    <3> HIDE DEF r, new
    <3>2. \A p \in Player : x.row[p] = IF p \in Player /\ p \in Range(s.players) THEN r[p] ELSE s.row[p]
      BY <2>1, RowsOfType DEF x
    <3> QED
      BY <2>4, <3>1, <3>2
  <2> HIDE DEF r
  <2>9. \A p \in Player : t.row[p] =
       IF e.kind = "GameStarted" /\ p \in Range(s.players)
       THEN NewHand(s.row[p])
       ELSE IF e.kind = "GameFinished" /\ p \in e.who /\ p \in Range(s.players)
       THEN Unstaked(s.row[p])
       ELSE IF e.kind = "PhaseChanged" /\ e.to = "WaitingForBets" THEN EmptyRow
       ELSE s.row[p]
    BY <1>2, <2>8
  <2>10. Turned(s, e, t)
    <3>1. t.phase = "Dealing" /\ t.dealer = <<>>
      BY <2>4
    <3>2. e.kind # "PhaseChanged"
      BY <1>2
    <3> QED
      <4>1. ~(e.kind = "PhaseChanged" /\ e.to = "WaitingForBets") /\ Clears(e)
        BY <1>2 DEF Clears
      <4>2. t.phase = IF e.kind = "GameStarted" THEN "Dealing"
               ELSE IF e.kind = "GameFinished" THEN "Finished" ELSE GamePhaseOf(e.to)
        BY <1>2, <3>1
      <4>3. t.myTurn <=> s.myTurn
        BY <2>4
      <4> QED
        BY <2>4, <2>9, <3>1, <3>2, <4>1, <4>2, <4>3 DEF Turned
  <2> QED
    BY <2>4, <2>5, <2>10
<1>3. CASE e.kind = "GameFinished"
  <2> DEFINE r == [p \in Player |-> [s.row[p] EXCEPT !.bet = 0]]
             x == RowsOf(s, e.who, r)
             b == x.result \/ Me \in e.who
  <2>1. r \in [Player -> Row]
    BY DEF TableState, Row
  <2>2. t = [x EXCEPT !.phase = "Finished", !.result = b]
    BY <1>3 DEF ApplyRound
  <2>3. x \in TableState /\ x = [s EXCEPT !.row = x.row] /\ b \in BOOLEAN
    BY <2>1, RowsOfType
  <2> HIDE DEF x, b
  <2>4. /\ t \in TableState /\ t.shown = s.shown /\ t.isObserver = s.isObserver
        /\ t.observers = s.observers /\ t.waiting = s.waiting /\ t.players = s.players
        /\ t.phase = "Finished" /\ t.myTurn = s.myTurn /\ t.active = s.active
        /\ t.dealer = s.dealer /\ t.row = x.row
    BY <2>2, <2>3 DEF TableState, GamePhase
  <2>5. Tidy(t)
    BY <2>4 DEF Tidy
  <2>8. \A p \in Player : t.row[p] =
          IF p \in e.who /\ p \in Range(s.players) THEN Unstaked(s.row[p]) ELSE s.row[p]
    BY <2>1, <2>4, RowsOfType DEF x, Unstaked
  <2> QED
    BY <1>3, <2>4, <2>5, <2>8 DEF Turned, Clears
<1>4. CASE e.kind = "PhaseChanged" /\ e.to # "WaitingForBets"
  <2> DEFINE b == Me \in e.who
             a == e.who \cap Range(s.players)
  <2>1. t = [s EXCEPT !.phase = GamePhaseOf(e.to), !.myTurn = b, !.active = a]
    BY <1>4 DEF ApplyRound
  <2>2. b \in BOOLEAN /\ a \in SUBSET Player
    BY DEF Payload
  <2> HIDE DEF b, a
  <2>4. /\ t \in TableState /\ t.shown = s.shown /\ t.isObserver = s.isObserver
        /\ t.observers = s.observers /\ t.waiting = s.waiting /\ t.players = s.players
        /\ t.phase = GamePhaseOf(e.to) /\ t.myTurn = b /\ t.active = a
        /\ t.dealer = s.dealer /\ t.row = s.row
    BY <1>1, <2>1, <2>2 DEF TableState
  <2>5. Tidy(t)
    BY <2>4 DEF Tidy
  <2> QED
    BY <1>4, <2>4, <2>5 DEF a, b, Turned, Clears
<1>5. CASE e.kind = "PhaseChanged" /\ e.to = "WaitingForBets"
  <2> DEFINE r == [p \in Player |-> EmptyRow]
  <2>1. t = [s EXCEPT !.phase = "Betting", !.myTurn = FALSE, !.active = {}, !.row = r, !.dealer = <<>>]
    BY <1>5 DEF ApplyRound
  <2>2. r \in [Player -> Row] /\ GamePhaseOf(e.to) = "Betting"
    BY <1>5, RowType DEF GamePhaseOf
  <2>3. <<>> \in Seq(Pip \cup {Hidden}) /\ "Betting" \in GamePhase
    BY DEF GamePhase
  <2> HIDE DEF r
  <2>6. t \in TableState
    BY <2>1, <2>2, <2>3 DEF TableState
  <2>4. /\ t \in TableState /\ t.shown = s.shown /\ t.isObserver = s.isObserver
        /\ t.observers = s.observers /\ t.waiting = s.waiting /\ t.players = s.players
        /\ t.phase = "Betting" /\ t.myTurn = FALSE /\ t.active = {}
        /\ t.dealer = <<>> /\ t.row = r
    BY <2>1, <2>2, <2>6 DEF TableState
  <2>5. Tidy(t)
    BY <2>4 DEF Tidy
  <2> QED
    BY <1>5, <2>2, <2>4, <2>5 DEF r, Turned, Clears
<1> QED
  BY <1>2, <1>3, <1>4, <1>5 DEF RoundKinds

\* Which arm an event takes.
LEMMA Arms ==
  ASSUME NEW s, NEW e \in Payload
  PROVE  /\ e.kind \in MoveKinds => Apply(s, e) = ApplyMove(s, e)
         /\ e.kind \in RoundKinds => Apply(s, e) = ApplyRound(s, e)
         /\ e.kind \in CardKinds => Apply(s, e) = ApplyCard(s, e)
PROOF
  BY DEF Apply, MoveKinds, RoundKinds, CardKinds

\* No event hides a screen or gives anybody two rows.
LEMMA ApplyType ==
  ASSUME NEW s \in TableState, Tidy(s), NEW e \in Payload
  PROVE  Apply(s, e) \in TableState /\ Tidy(Apply(s, e)) /\ Apply(s, e).shown = s.shown
PROOF
<1>1. CASE e.kind \in MoveKinds
  <2>1. PICK p \in Player : e.who = {p}
    BY <1>1 DEF Payload
  <2>2. Apply(s, e) = ApplyMove(s, e)
    BY <1>1, Arms
  <2> DEFINE t == Apply(s, e)
  <2> HIDE DEF t
  <2>3. t = ApplyMove(s, e)
    BY <2>2 DEF t
  <2>4. t \in TableState /\ Tidy(t) /\ Moved(s, e, p, t)
    BY <1>1, <2>1, <2>3, MoveEffect
  <2> QED
    BY <2>4 DEF t, Moved
<1>2. CASE e.kind \in RoundKinds
  <2> DEFINE t == Apply(s, e)
  <2>1. t = ApplyRound(s, e)
    BY <1>2, Arms
  <2> HIDE DEF t
  <2> QED
    BY <1>2, <2>1, RoundEffect DEF t
<1>3. CASE e.kind \in CardKinds
  <2> DEFINE t == Apply(s, e)
  <2>1. t = ApplyCard(s, e)
    BY <1>3, Arms
  <2> HIDE DEF t
  <2> QED
    BY <1>3, <2>1, CardEffect DEF t, Marked
<1> QED
  BY <1>1, <1>2, <1>3 DEF Payload

\* What an event does to a screen that is shown.
LEMMA EventEffect ==
  ASSUME NEW u \in Shown, NEW e \in Payload
  PROVE  /\ ApplyEvent(u, e) \in Shown
         /\ ApplyEvent(u, e).screen = Apply(u.screen, e)
         /\ e.kind # "PhaseChanged" => ApplyEvent(u, e).betting = u.betting
         /\ e.kind = "PhaseChanged" =>
              ApplyEvent(u, e).betting =
                (~Apply(u.screen, e).isObserver /\ e.to = "WaitingForBets")
PROOF
<1> DEFINE t == Apply(u.screen, e)
           v == [u EXCEPT !.screen = t]
           b == ~t.isObserver /\ e.to = "WaitingForBets"
<1>1. u.screen \in TableState /\ Tidy(u.screen) /\ u.screen.shown /\ u \in UiState
  BY DEF Shown, UiState
<1>2. t \in TableState /\ Tidy(t) /\ t.shown = u.screen.shown
  BY <1>1, ApplyType
<1>3. ApplyEvent(u, e) = SyncChrome(v, e)
  BY <1>1 DEF ApplyEvent, UiState
<1> HIDE DEF t
<1>4. v \in UiState /\ v.screen = t /\ v.betting = u.betting
  BY <1>1, <1>2 DEF UiState
<1>5. v \in Shown
  BY <1>1, <1>2, <1>4 DEF Shown
<1>6. CASE e.kind # "PhaseChanged"
  BY <1>3, <1>4, <1>5, <1>6 DEF SyncChrome, t
<1>7. CASE e.kind = "PhaseChanged"
  <2>1. SyncChrome(v, e) = [v EXCEPT !.betting = ~v.screen.isObserver /\ e.to = "WaitingForBets"]
    BY <1>7 DEF SyncChrome
  <2>2. SyncChrome(v, e) = [v EXCEPT !.betting = b]
    BY <1>4, <2>1
  <2>3. b \in BOOLEAN
    OBVIOUS
  <2> HIDE DEF b, v
  <2>4. /\ SyncChrome(v, e) \in UiState /\ SyncChrome(v, e).screen = t
        /\ SyncChrome(v, e).betting = b
    BY <1>4, <2>2, <2>3 DEF UiState
  <2> QED
    BY <1>1, <1>2, <1>3, <1>7, <2>4 DEF Shown, b, t
<1> QED
  BY <1>6, <1>7

\* The events of q take u to v and are never, on the way, outside T.
Leads(u, q, v, T) ==
  \E p \in [0..Len(q) -> T] :
    /\ p[0] = u
    /\ p[Len(q)] = v
    /\ \A k \in 1..Len(q) : p[k] = ApplyEvent(p[k - 1], q[k])

\* What u becomes when q has been applied: Settled is After(ui, queue).
After(u, q) == FoldLeft(ApplyEvent, u, q)

\* Applying q from u on is a walk.
LEMMA LeadsAfter ==
  ASSUME NEW u \in Shown, NEW q \in Seq(Payload)
  PROVE  Leads(u, q, After(u, q), Shown)
PROOF
<1> DEFINE n == Len(q)
           G == [xv \in (1..n) \X Shown |-> ApplyEvent(xv[2], q[xv[1]])]
           Eqn(g) == g = [T \in SUBSET (1..n) |->
                            IF T = {} THEN u ELSE ApplyEvent(g[T \ {Max(T)}], q[Max(T)])]
           h == CHOOSE g : Eqn(g)
<1>1. n \in Nat /\ DOMAIN q = 1..n
  BY LenProperties
<1>2. After(u, q) = h[1..n]
  BY <1>1 DEF After, FoldLeft, MapThenFoldSet
<1>3. \A x \in 1..n, v \in Shown : G[<<x, v>>] = ApplyEvent(v, q[x]) /\ G[<<x, v>>] \in Shown
  <2>1. \A x \in 1..n : q[x] \in Payload
    BY ElementOfSeq
  <2>2. \A x \in 1..n, v \in Shown : ApplyEvent(v, q[x]) \in Shown
    BY <2>1, EventEffect
  <2>3. \A x \in 1..n, v \in Shown : G[<<x, v>>] = ApplyEvent(v, q[x])
    OBVIOUS
  <2> QED
    BY <2>2, <2>3
<1>4. \A T \in SUBSET (1..n) : T # {} => Max(T) \in 1..n
  <2> HIDE DEF n
  <2> QED
    BY <1>1, MaxIsMember
<1>5. PICK g : g \in [SUBSET (1..n) -> Shown] /\ Recurs(g, G, n, Shown, u)
  <2> HIDE DEF n, G
  <2>1. Steps(G, n, Shown, u)
    BY <1>1, <1>3 DEF Steps
  <2> QED
    BY <2>1, RecursionOnIndices
<1>6. Eqn(g)
  <2>1. \A T \in SUBSET (1..n) : T # {} => g[T] = ApplyEvent(g[T \ {Max(T)}], q[Max(T)])
    <3> HIDE DEF n, G
    <3> QED
      BY <1>3, <1>4, <1>5 DEF Recurs
  <2> QED
    BY <1>5, <2>1 DEF Recurs
<1>7. Eqn(h)
  <2> HIDE DEF Eqn
  <2> QED
    BY <1>6
<1> HIDE DEF h
<1>8. /\ h[{}] = u
      /\ \A T \in SUBSET (1..n) : T # {} => h[T] = ApplyEvent(h[T \ {Max(T)}], q[Max(T)])
  BY <1>7
<1> HIDE DEF G, n
<1>9. PICK p : Walks(p, G, n, Shown, u) /\ h[1..n] = p[n]
  <2>1. Steps(G, n, Shown, u)
    BY <1>1, <1>3 DEF Steps
  <2>2. Recurs(h, G, n, Shown, u)
    BY <1>3, <1>4, <1>8 DEF Recurs
  <2> QED
    BY <2>1, <2>2, FoldWalk
<1>10. ASSUME NEW k \in 1..n PROVE p[k] = ApplyEvent(p[k - 1], q[k])
  <2>1. k - 1 \in 0..n
    BY <1>1
  <2> QED
    BY <1>3, <1>9, <2>1 DEF Walks
<1> QED
  BY <1>2, <1>9, <1>10 DEF Walks, Leads, n

\* There is one walk.
LEMMA LeadsOne ==
  ASSUME NEW u, NEW q, Len(q) \in Nat, NEW v, NEW w, NEW T, NEW R,
         Leads(u, q, v, T), Leads(u, q, w, R)
  PROVE  v = w
PROOF
<1> DEFINE n == Len(q)
           G == [xv \in (1..n) \X (T \cup R) |-> ApplyEvent(xv[2], q[xv[1]])]
<1>1. PICK p \in [0..n -> T] :
        p[0] = u /\ p[n] = v /\ \A k \in 1..n : p[k] = ApplyEvent(p[k - 1], q[k])
  BY DEF Leads
<1>2. PICK r \in [0..n -> R] :
        r[0] = u /\ r[n] = w /\ \A k \in 1..n : r[k] = ApplyEvent(r[k - 1], q[k])
  BY DEF Leads
<1>3. \A x \in 1..n, y \in T \cup R : G[<<x, y>>] = ApplyEvent(y, q[x])
  OBVIOUS
<1> HIDE DEF G, n
<1>4. n \in Nat
  BY DEF n
<1>5. \A k \in 1..n : k - 1 \in 0..n /\ p[k] = G[<<k, p[k - 1]>>]
  BY <1>1, <1>3, <1>4
<1>6. \A k \in 1..n : r[k] = G[<<k, r[k - 1]>>]
  BY <1>2, <1>3, <1>5
<1>8. Walks(p, G, n, T, u) /\ Walks(r, G, n, R, u)
  BY <1>1, <1>2, <1>5, <1>6 DEF Walks
<1>7. \A k \in 0..n : p[k] = r[k]
  BY <1>4, <1>8, WalksAgree
<1> QED
  BY <1>1, <1>2, <1>4, <1>7

\* No events lead nowhere else.
LEMMA LeadsEmpty ==
  ASSUME NEW T, NEW u \in T
  PROVE  Leads(u, <<>>, u, T)
PROOF
<1> DEFINE p == [k \in 0..0 |-> u]
<1>1. Len(<<>>) = 0 /\ 0..Len(<<>>) = 0..0 /\ 1..Len(<<>>) = {}
  OBVIOUS
<1>2. p \in [0..0 -> T] /\ p[0] = u
  OBVIOUS
<1> HIDE DEF p
<1> QED
  BY <1>1, <1>2 DEF Leads

\* Walks one after the other.
LEMMA LeadsThen ==
  ASSUME NEW u, NEW v, NEW w, NEW T, NEW q \in Seq(Payload), NEW r \in Seq(Payload),
         Leads(u, q, v, T), Leads(v, r, w, T)
  PROVE  Leads(u, Then(q, r), w, T)
PROOF
<1> DEFINE m == Len(q)
           n == Len(r)
           x == Then(q, r)
<1>1. PICK a \in [0..m -> T] :
        a[0] = u /\ a[m] = v /\ \A k \in 1..m : a[k] = ApplyEvent(a[k - 1], q[k])
  BY DEF Leads
<1>2. PICK b \in [0..n -> T] :
        b[0] = v /\ b[n] = w /\ \A k \in 1..n : b[k] = ApplyEvent(b[k - 1], r[k])
  BY DEF Leads
<1>3. m \in Nat /\ n \in Nat
  BY LenProperties
<1>4. /\ Len(x) = m + n
      /\ \A k \in 1..m : x[k] = q[k]
      /\ \A k \in 1..n : x[m + k] = r[k]
  <2>1. /\ Len(x) = m + n
        /\ \A k \in 1..(m + n) : x[k] = IF k <= m THEN q[k] ELSE r[k - m]
    BY ConcatProperties, Zenon DEF Then
  <2> HIDE DEF x, m, n
  <2>2. ASSUME NEW k \in 1..m PROVE x[k] = q[k]
    BY <1>3, <2>1
  <2>3. ASSUME NEW k \in 1..n PROVE x[m + k] = r[k]
    <3>1. m + k \in 1..(m + n) /\ ~(m + k <= m) /\ (m + k) - m = k
      BY <1>3
    <3> QED
      BY <2>1, <3>1
  <2> QED
    BY <2>1, <2>2, <2>3
<1> DEFINE p == [k \in 0..(m + n) |-> IF k <= m THEN a[k] ELSE b[k - m]]
<1>5. \A k \in 0..m : k \in 0..(m + n) /\ p[k] = a[k]
  <2> HIDE DEF m, n
  <2> QED
    BY <1>3
<1>6. ASSUME NEW k \in 0..n
      PROVE  m + k \in 0..(m + n) /\ p[m + k] = b[k]
  <2> HIDE DEF m, n
  <2>1. m + k \in 0..(m + n) /\ (m + k) - m = k
    BY <1>3
  <2>2. CASE k = 0
    <3>1. m + k = m /\ m \in 0..m
      BY <1>3, <2>2
    <3>2. p[m] = a[m]
      <4> HIDE DEF p
      <4> QED
        BY <1>5, <3>1
    <3> HIDE DEF p
    <3> QED
      BY <1>1, <1>2, <2>1, <2>2, <3>1, <3>2
  <2>3. CASE k # 0
    <3>1. ~(m + k <= m)
      BY <1>3, <2>3
    <3>2. p[m + k] = b[(m + k) - m]
      BY <2>1, <3>1
    <3> QED
      BY <2>1, <3>2
  <2> QED
    BY <2>2, <2>3
<1>7. p \in [0..(m + n) -> T]
  <2> HIDE DEF m, n
  <2>1. ASSUME NEW k \in 0..(m + n) PROVE (IF k <= m THEN a[k] ELSE b[k - m]) \in T
    <3>1. CASE k <= m
      <4>1. k \in 0..m
        BY <1>3, <3>1
      <4> QED
        BY <3>1, <4>1
    <3>2. CASE ~(k <= m)
      <4>1. k - m \in 0..n
        BY <1>3, <3>2
      <4> QED
        BY <3>2, <4>1
    <3> QED
      BY <3>1, <3>2
  <2> QED
    BY <2>1
<1> HIDE DEF p
<1>8. ASSUME NEW k \in 1..(m + n) PROVE p[k] = ApplyEvent(p[k - 1], x[k])
  <2> HIDE DEF m, n, x
  <2>1. CASE k <= m
    <3>1. k \in 0..m /\ k - 1 \in 0..m /\ k \in 1..m
      BY <1>3, <2>1
    <3> QED
      BY <1>1, <1>4, <1>5, <3>1
  <2>2. CASE ~(k <= m)
    <3> DEFINE j == k - m
    <3>1. j \in 0..n /\ j - 1 \in 0..n /\ j \in 1..n /\ m + j = k /\ m + (j - 1) = k - 1
      BY <1>3, <2>2
    <3> HIDE DEF j
    <3>2. p[m + j] = b[j] /\ p[m + (j - 1)] = b[j - 1] /\ x[m + j] = r[j]
      BY <1>4, <1>6, <3>1
    <3>3. b[j] = ApplyEvent(b[j - 1], r[j])
      BY <1>2, <3>1
    <3> QED
      BY <3>1, <3>2, <3>3
  <2> QED
    BY <2>1, <2>2
<1>9. p[0] = u /\ p[m + n] = w
  <2> HIDE DEF m, n
  <2>1. 0 \in 0..m /\ n \in 0..n
    BY <1>3
  <2> QED
    BY <1>1, <1>2, <1>5, <1>6, <2>1
<1>10. \E f \in [0..Len(x) -> T] :
         f[0] = u /\ f[Len(x)] = w /\ \A k \in 1..Len(x) : f[k] = ApplyEvent(f[k - 1], x[k])
  <2> HIDE DEF m, n, x
  <2> QED
    BY <1>4, <1>7, <1>8, <1>9
<1> QED
  BY <1>10 DEF Leads

\* One event more.
LEMMA LeadsEvent ==
  ASSUME NEW T, NEW u \in T, NEW e \in Payload, ApplyEvent(u, e) \in T
  PROVE  Leads(u, <<e>>, ApplyEvent(u, e), T)
PROOF
<1> DEFINE v == ApplyEvent(u, e)
           p == [k \in 0..1 |-> IF k = 0 THEN u ELSE v]
<1>1. Len(<<e>>) = 1 /\ <<e>>[1] = e
  OBVIOUS
<1>2. v \in T
  OBVIOUS
<1>3. p \in [0..1 -> T] /\ p[0] = u /\ p[1] = v
  <2> HIDE DEF v
  <2> QED
    BY <1>2
<1>4. \A k \in 1..1 : k = 1 /\ k - 1 = 0
  OBVIOUS
<1> HIDE DEF p
<1> QED
  BY <1>1, <1>3, <1>4 DEF Leads

\* A walk begins and ends inside.
LEMMA LeadsEnds ==
  ASSUME NEW u, NEW q \in Seq(Payload), NEW v, NEW T, Leads(u, q, v, T)
  PROVE  u \in T /\ v \in T
PROOF
<1>1. Len(q) \in Nat /\ 0 \in 0..Len(q) /\ Len(q) \in 0..Len(q)
  BY LenProperties
<1> QED
  BY <1>1 DEF Leads

\* The rest of a walk.
LEMMA LeadsTail ==
  ASSUME NEW u, NEW q \in Seq(Payload), q # <<>>, NEW v, NEW T, Leads(u, q, v, T)
  PROVE  /\ ApplyEvent(u, Head(q)) \in T
         /\ Leads(ApplyEvent(u, Head(q)), Tail(q), v, T)
PROOF
<1> DEFINE n == Len(q)
           r == Tail(q)
<1>1. PICK p \in [0..n -> T] :
        p[0] = u /\ p[n] = v /\ \A k \in 1..n : p[k] = ApplyEvent(p[k - 1], q[k])
  BY DEF Leads
<1>2. /\ n \in Nat /\ n # 0 /\ Head(q) = q[1] /\ Len(r) = n - 1
      /\ \A i \in 1..Len(r) : r[i] = q[i + 1]
  BY HeadTailProperties, LenProperties, EmptySeq
<1> DEFINE f == [k \in 0..(n - 1) |-> p[k + 1]]
<1> HIDE DEF n, r
<1>3. 1 \in 0..n /\ 1 \in 1..n /\ 1 - 1 = 0
  BY <1>2
<1>4. p[1] = ApplyEvent(u, Head(q)) /\ p[1] \in T
  BY <1>1, <1>2, <1>3
<1>5. \A k \in 0..(n - 1) : f[k] = p[k + 1] /\ k + 1 \in 0..n
  BY <1>2
<1>6. f \in [0..(n - 1) -> T]
  BY <1>5
<1> HIDE DEF f
<1>7. f[0] = p[1] /\ f[n - 1] = v
  <2>1. 0 \in 0..(n - 1) /\ 0 + 1 = 1 /\ n - 1 \in 0..(n - 1) /\ (n - 1) + 1 = n
    BY <1>2
  <2> QED
    BY <1>1, <1>5, <2>1
<1>8. ASSUME NEW k \in 1..(n - 1) PROVE f[k] = ApplyEvent(f[k - 1], r[k])
  <2>1. k \in 0..(n - 1) /\ k - 1 \in 0..(n - 1) /\ (k - 1) + 1 = k /\ k + 1 \in 1..n
        /\ (k + 1) - 1 = k
    BY <1>2
  <2>2. f[k] = p[k + 1] /\ f[k - 1] = p[k] /\ r[k] = q[k + 1]
    BY <1>2, <1>5, <2>1
  <2>3. p[k + 1] = ApplyEvent(p[k], q[k + 1])
    BY <1>1, <2>1
  <2> QED
    BY <2>2, <2>3
<1>9. Leads(p[1], r, v, T)
  BY <1>2, <1>6, <1>7, <1>8 DEF Leads
<1> QED
  BY <1>4, <1>9 DEF r

\* What holds of the n-th state on the way if every event keeps it up, holds at the end.
Upholds(S, q, T) ==
  \A k \in 1..Len(q) : \A w \in S[k - 1] : ApplyEvent(w, q[k]) \in S[k] \cap T

\* A walk whose events keep S up ends in the last of S.
LEMMA LeadsInduct ==
  ASSUME NEW q \in Seq(Payload), NEW S, NEW T, T \subseteq Shown, Upholds(S, q, T),
         NEW u \in S[0] \cap T
  PROVE  \E v \in S[Len(q)] : Leads(u, q, v, T)
PROOF
<1> DEFINE n == Len(q)
<1>1. n \in Nat
  BY LenProperties
<1>2. PICK p \in [0..n -> Shown] :
        p[0] = u /\ p[n] = After(u, q) /\ \A k \in 1..n : p[k] = ApplyEvent(p[k - 1], q[k])
  BY LeadsAfter DEF Leads
<1> DEFINE N == {k \in Nat : k \in 0..n => p[k] \in S[k] \cap T}
<1> HIDE DEF n
<1>3. 0 \in N
  BY <1>2
<1>4. ASSUME NEW k \in Nat, k \in N, k + 1 \in 0..n PROVE p[k + 1] \in S[k + 1] \cap T
  <2>1. k \in 0..n /\ k + 1 \in 1..n /\ (k + 1) - 1 = k
    BY <1>1, <1>4
  <2>2. p[k] \in S[(k + 1) - 1]
    BY <1>4, <2>1
  <2>3. p[k + 1] = ApplyEvent(p[k], q[k + 1])
    BY <1>2, <2>1
  <2>4. \A j \in 1..n : \A w \in S[j - 1] : ApplyEvent(w, q[j]) \in S[j] \cap T
    BY DEF Upholds, n
  <2> QED
    BY <2>1, <2>2, <2>3, <2>4
<1>5. ASSUME NEW k \in Nat, k \in N PROVE k + 1 \in N
  <2>1. k + 1 \in Nat
    OBVIOUS
  <2>2. k + 1 \in 0..n => p[k + 1] \in S[k + 1] \cap T
    BY <1>4, <1>5
  <2> QED
    BY <2>1, <2>2
<1>6. Nat \subseteq N
  <2> HIDE DEF N
  <2> QED
    BY <1>3, <1>5, NatInduct
<1>7. \A k \in 0..n : p[k] \in S[k] \cap T
  BY <1>1, <1>6
<1>8. p \in [0..n -> T] /\ p[n] \in S[n]
  BY <1>1, <1>7
<1> QED
  BY <1>2, <1>8 DEF Leads, n

\* Every command of the table is one of the engine's.
LEMMA CommandIsNext ==
  ASSUME NEW p \in Player
  PROVE  /\ Seating(p) => Next
         /\ Unseating(p) => Next
         /\ Playing(p) => Next
         /\ OthersCommand(p) => Next
         /\ JoinTable(p) => Next
         /\ LeaveTable(p) => Next
PROOF
<1>1. Membership(p) \/ Play(p) => Next
  BY DEF Next
<1>2. Seating(p) => Membership(p)
  BY DEF Seating, Membership
<1>3. Unseating(p) => Membership(p)
  BY DEF Unseating, Membership
<1>4. JoinTable(p) \/ LeaveTable(p) => Membership(p)
  BY DEF Membership
<1>5. Betting(p) \/ Hitting(p) \/ Standing(p) \/ Doubling(p) => Play(p)
  BY DEF Betting, Hitting, Standing, Doubling, Play
<1>6. Playing(p) => Play(p)
  BY <1>5 DEF Playing
<1> QED
  BY <1>1, <1>2, <1>3, <1>4, <1>6 DEF OthersCommand

\* The steps of a round are the engine's.
LEMMA RoundIsNext ==
  /\ Dealing => Next
  /\ DealerPlaying => Next
  /\ Settling => Next
  /\ StartingOver => Next
PROOF
<1>1. Deal \/ PlayHand \/ SettleRound \/ StartOver => Next
  BY DEF Next, DealerStep
<1> QED
  BY <1>1 DEF Dealing, Deal, DealerPlaying, Settling, StartingOver

\* A step of the client and its table is a step of the engine or changes nothing of it.
LEMMA EngineStep == [ViewNext]_allVars => [Next]_vars
PROOF
<1>1. UNCHANGED allVars => UNCHANGED vars
  BY DEF allVars
<1>2. Me \in Player
  BY DEF ClientAssumption
<1>3. Connection => [Next]_vars
  <2>1. JoinMe => Next
    BY <1>2, CommandIsNext DEF JoinMe
  <2>2. LeaveArrives \/ JoinArrives => [Next]_vars
    BY <1>2, CommandIsNext DEF LeaveArrives, JoinArrives
  <2>3. \/ Enter \/ Subscribe \/ JoinElsewhere \/ JoinRefused \/ TakeSnapshot \/ BackToLobby
        \/ StopForwarder \/ DismissResult \/ Tick
        => UNCHANGED vars
    BY DEF Enter, Subscribe, JoinElsewhere, JoinRefused, TakeSnapshot, BackToLobby,
           StopForwarder, DismissResult, Tick
  <2> QED
    BY <2>1, <2>2, <2>3 DEF Connection, Requests
<1>4. TableStep => Next
  <2>1. MyCommand \/ MyTimeout => Next
    <3>1. Standing(Me) => Playing(Me)
      BY DEF Playing
    <3> QED
      BY <1>2, <3>1, CommandIsNext DEF MyCommand, MyTimeout
  <2>2. (\E p \in Player \ {Me} : OthersCommand(p)) => Next
    BY CommandIsNext
  <2> QED
    BY <2>1, <2>2, RoundIsNext DEF TableStep
<1> QED
  BY <1>1, <1>3, <1>4 DEF ViewNext

\* The table of ClientView is a table of GameEngine.
THEOREM ViewImplementsEngine == ViewSpec => Spec
PROOF
<1>1. ViewInit => Init
  BY DEF ViewInit
<1> QED
  BY <1>1, EngineStep, PTL DEF ViewSpec, Spec

-----------------------------------------------------------------------------

\* Whoever has no seat has no stake.
Bare == \A p \in Player : p \notin Seated => player[p].bet = 0

\* The dealer's cards in the phases of a round.
DealerDealt ==
  /\ dealerCards \in Seq(Cards)
  /\ phase = "WaitingForBets" => dealerCards = <<>>
  /\ phase \in {"PlayerTurn", "DealerTurn"} => Len(dealerCards) = 2

\* What the snapshot and the events find at the table.
TableInv == IInv /\ Bare /\ DealerDealt

\* What there is to know of the table's people.
People ==
  /\ TypeOK
  /\ Seated \in SUBSET Player /\ Waiting \in SUBSET Player
  /\ IsInjective(players) /\ IsInjective(waiting)
  /\ Seated \cap Waiting = {} /\ observers \cap Seated = {} /\ observers \cap Waiting = {}
  /\ phase = "PlayerTurn" <=> turn # Nobody
  /\ turn # Nobody => turn \in Seated
  /\ \A p \in Player : player[p].bet \in Nat /\ player[p].hand \in Hand
  /\ \A p \in Player : player[p].bet = 0 => player[p].hand = EmptyHand

\* All that this proof needs of the engine's invariant.
LEMMA PeopleNow == IInv => People
PROOF
<1> SUFFICES ASSUME IInv PROVE People
  OBVIOUS
<1>1. TypeOK /\ OneStateEach /\ HandsInBounds /\ TurnIsPlayable
  BY DEF IInv
<1>2. Seated \in SUBSET Player /\ Waiting \in SUBSET Player
  BY <1>1, SetsType
<1> QED
  BY <1>1, <1>2 DEF TypeOK, OneStateEach, HandsInBounds, PlayerState, TurnIsPlayable, People

\* It holds after a step as well.
LEMMA PeopleThen == IInv' => People'
PROOF
  BY PeopleNow, PTL

\* The events as the screen finds them.
Plain == {"PlayerPlacedBet", "PlayerDoubledDown", "PlayerBust", "DealerHoleCardDealt",
          "GameStarted", "GameFinished"}

\* What Event makes is a payload with these fields.
LEMMA EventTypes ==
  ASSUME phase \in Phase, NEW who \in SUBSET Player, NEW n \in Nat
  PROVE  /\ \A kind \in Plain : Event(kind, who, n) \in Payload
         /\ n \in Pip => \A kind \in CardKinds : Event(kind, who, n) \in Payload
         /\ \A p \in Player : who = {p} => \A kind \in MoveKinds : Event(kind, who, n) \in Payload
         /\ \A kind : /\ Event(kind, who, n).kind = kind
                      /\ Event(kind, who, n).who = who
                      /\ Event(kind, who, n).n = n
PROOF
<1>1. ASSUME NEW kind \in MoveKinds \cup RoundKinds \cup CardKinds,
             kind \in MoveKinds => \E p \in Player : who = {p},
             kind \in {"PlayerCardDealt", "DealerCardDealt", "DealerHoleCardRevealed"} => n \in Pip
      PROVE  Event(kind, who, n) \in Payload
  BY <1>1 DEF Event, Payload
<1>2. \A kind \in Plain :
        /\ kind \in MoveKinds \cup RoundKinds \cup CardKinds
        /\ kind \notin MoveKinds
        /\ kind \notin {"PlayerCardDealt", "DealerCardDealt", "DealerHoleCardRevealed"}
  BY DEF Plain, MoveKinds, RoundKinds, CardKinds
<1>3. \A kind \in CardKinds : kind \notin MoveKinds
  BY DEF MoveKinds, CardKinds
<1>4. \A kind \in MoveKinds :
        kind \notin {"PlayerCardDealt", "DealerCardDealt", "DealerHoleCardRevealed"}
  BY DEF MoveKinds
<1> QED
  BY <1>1, <1>2, <1>3, <1>4 DEF Event

\* So is PhaseChanged, which names the next phase and who is on turn.
LEMMA PhaseChangedType ==
  ASSUME IInv'
  PROVE  /\ PhaseChanged \in Payload /\ PhaseChanged.kind = "PhaseChanged"
         /\ PhaseChanged.to = phase' /\ PhaseChanged.who = {turn'} \ {Nobody}
PROOF
<1>1. phase' \in Phase /\ {turn'} \ {Nobody} \in SUBSET Player
  BY PeopleThen DEF People, TypeOK
<1> QED
  BY <1>1 DEF PhaseChanged, Payload, MoveKinds, RoundKinds

\* The same people in the same places.
SamePlaces(s, t) ==
  t.players = s.players /\ t.observers = s.observers /\ t.waiting = s.waiting

\* And the same phase and turn.
Same(s, t) ==
  /\ SamePlaces(s, t)
  /\ t.phase = s.phase /\ (t.myTurn <=> s.myTurn) /\ t.active = s.active

\* On a screen that is shown a move does what Moved says, and leaves the bet widget alone.
LEMMA MoveOn ==
  ASSUME NEW u \in Shown, NEW e \in Payload, e.kind \in MoveKinds, NEW p \in Player, e.who = {p}
  PROVE  /\ ApplyEvent(u, e) \in Shown
         /\ ApplyEvent(u, e).betting = u.betting
         /\ Moved(u.screen, e, p, ApplyEvent(u, e).screen)
PROOF
<1> DEFINE t == Apply(u.screen, e)
<1>1. u.screen \in TableState /\ Tidy(u.screen)
  BY DEF Shown, UiState
<1>2. t = ApplyMove(u.screen, e)
  BY Arms
<1>3. e.kind # "PhaseChanged"
  BY DEF MoveKinds
<1> HIDE DEF t
<1>4. Moved(u.screen, e, p, t)
  BY <1>1, <1>2, MoveEffect
<1> QED
  BY <1>3, <1>4, EventEffect DEF t

\* A card or a stake does what Marked says, and leaves everybody in their place.
LEMMA CardOn ==
  ASSUME NEW u \in Shown, NEW e \in Payload, e.kind \in CardKinds
  PROVE  /\ ApplyEvent(u, e) \in Shown
         /\ ApplyEvent(u, e).betting = u.betting
         /\ Marked(u.screen, e, ApplyEvent(u, e).screen)
         /\ Same(u.screen, ApplyEvent(u, e).screen)
PROOF
<1> DEFINE t == Apply(u.screen, e)
<1>1. u.screen \in TableState /\ Tidy(u.screen)
  BY DEF Shown, UiState
<1>2. t = ApplyCard(u.screen, e)
  BY Arms
<1>3. e.kind # "PhaseChanged"
  BY DEF CardKinds
<1> HIDE DEF t
<1>4. Marked(u.screen, e, t)
  BY <1>1, <1>2, CardEffect
<1>5. Same(u.screen, t)
  BY <1>4 DEF Marked, Same, SamePlaces
<1> QED
  BY <1>3, <1>4, <1>5, EventEffect DEF t

\* An event about the round does what Turned says; only PhaseChanged touches the bet widget.
LEMMA RoundOn ==
  ASSUME NEW u \in Shown, NEW e \in Payload, e.kind \in RoundKinds
  PROVE  /\ ApplyEvent(u, e) \in Shown
         /\ e.kind # "PhaseChanged" => ApplyEvent(u, e).betting = u.betting
         /\ e.kind = "PhaseChanged" =>
              (ApplyEvent(u, e).betting
                 <=> Me \notin ApplyEvent(u, e).screen.observers /\ e.to = "WaitingForBets")
         /\ Turned(u.screen, e, ApplyEvent(u, e).screen)
         /\ SamePlaces(u.screen, ApplyEvent(u, e).screen)
PROOF
<1> DEFINE t == Apply(u.screen, e)
<1>1. u.screen \in TableState /\ Tidy(u.screen)
  BY DEF Shown, UiState
<1>2. t = ApplyRound(u.screen, e)
  BY Arms
<1> HIDE DEF t
<1>4. Turned(u.screen, e, t) /\ Tidy(t)
  BY <1>1, <1>2, RoundEffect
<1>5. SamePlaces(u.screen, t)
  BY <1>4 DEF Turned, SamePlaces
<1>6. t.isObserver <=> Me \in t.observers
  BY <1>4 DEF Tidy
<1> QED
  BY <1>4, <1>5, <1>6, EventEffect DEF t

-----------------------------------------------------------------------------
(***************************************************************************)
(* When a screen is right, piece by piece.                                  *)
(***************************************************************************)

\* The screen shows the phase of the round.
PhaseRight(s) == s.phase = GamePhaseOf(phase)

\* It shows the client's buttons when it is the client's turn.
TurnRight(s) == s.myTurn <=> turn = Me

\* It marks the row of the player on turn.
ActiveRight(s) == s.active = {turn} \cap Range(s.players)

\* It has a row for p when p has a seat.
SeatRight(s, p) == p \in Range(s.players) <=> p \in Seated

\* It lists p among the observers, whom a reset may have forgotten.
WatchRight(s, p) ==
  /\ p \in observers => p \in s.observers
  /\ p \in s.observers => p \in observers \cup forgotten

\* It lists p among those who wait, likewise.
QueueRight(s, p) ==
  /\ p \in Waiting => p \in s.waiting
  /\ p \in s.waiting => p \in Waiting \cup forgotten

\* All of it is right.
Right(s) ==
  /\ PhaseRight(s) /\ TurnRight(s) /\ ActiveRight(s)
  /\ \A p \in Player : SeatRight(s, p) /\ WatchRight(s, p) /\ QueueRight(s, p)

\* Where u is right s is.
Renews(u, s) ==
  /\ PhaseRight(u) => PhaseRight(s)
  /\ TurnRight(u) => TurnRight(s)
  /\ ActiveRight(u) => ActiveRight(s)
  /\ \A p \in Player :
       /\ SeatRight(u, p) => SeatRight(s, p)
       /\ WatchRight(u, p) => WatchRight(s, p)
       /\ QueueRight(u, p) => QueueRight(s, p)

\* Of every piece, the events of a step that take s to t set it to what it is now, or
\* the step leaves it alone and they do.
Carry(s, t) ==
  /\ PhaseRight(t)' \/ (phase' = phase /\ t.phase = s.phase)
  /\ TurnRight(t)' \/ (turn' = turn /\ (t.myTurn <=> s.myTurn))
  /\ ActiveRight(t)' \/ (turn' = turn /\ (ActiveRight(s) => ActiveRight(t)'))
  /\ \A p \in Player :
       /\ \/ SeatRight(t, p)'
          \/ (p \in Seated' <=> p \in Seated) /\ (p \in Range(t.players) <=> p \in Range(s.players))
       /\ \/ WatchRight(t, p)'
          \/ /\ p \in observers' <=> p \in observers
             /\ p \in forgotten' <=> p \in forgotten
             /\ p \in t.observers <=> p \in s.observers
       /\ \/ QueueRight(t, p)'
          \/ /\ p \in Waiting' <=> p \in Waiting
             /\ p \in forgotten' <=> p \in forgotten
             /\ p \in t.waiting <=> p \in s.waiting

\* Events that take a screen along leave it right if they find it right.
LEMMA CarryRight ==
  ASSUME NEW s, NEW t, Carry(s, t), Right(s)
  PROVE  Right(t)'
PROOF
<1>1. PhaseRight(t)' /\ TurnRight(t)' /\ ActiveRight(t)'
  BY DEF Carry, Right, PhaseRight, TurnRight, ActiveRight
<1>2. ASSUME NEW p \in Player
      PROVE  SeatRight(t, p)' /\ WatchRight(t, p)' /\ QueueRight(t, p)'
  <2>1. SeatRight(t, p)'
    BY DEF Carry, Right, SeatRight
  <2>2. WatchRight(t, p)'
    BY DEF Carry, Right, WatchRight
  <2>3. QueueRight(t, p)'
    BY DEF Carry, Right, QueueRight
  <2> QED
    BY <2>1, <2>2, <2>3
<1> QED
  BY <1>1, <1>2 DEF Right

\* And renew what the events before them renewed.
LEMMA CarryRenews ==
  ASSUME NEW u, NEW s, NEW t, Carry(s, t), Renews(u, s)
  PROVE  Renews(u, t)'
PROOF
<1>1. PhaseRight(u)' => PhaseRight(t)'
  BY DEF Carry, Renews, PhaseRight
<1>2. TurnRight(u)' => TurnRight(t)'
  BY DEF Carry, Renews, TurnRight
<1>3. ActiveRight(u)' => ActiveRight(t)'
  BY DEF Carry, Renews, ActiveRight
<1>4. ASSUME NEW p \in Player PROVE SeatRight(u, p)' => SeatRight(t, p)'
  BY DEF Carry, Renews, SeatRight
<1>5. ASSUME NEW p \in Player PROVE WatchRight(u, p)' => WatchRight(t, p)'
  BY DEF Carry, Renews, WatchRight
<1>6. ASSUME NEW p \in Player PROVE QueueRight(u, p)' => QueueRight(t, p)'
  BY DEF Carry, Renews, QueueRight
<1> QED
  BY <1>1, <1>2, <1>3, <1>4, <1>5, <1>6 DEF Renews

\* Whatever a screen shows that the events of a step find, they take it along.
Told(es) ==
  /\ es \in Seq(Payload)
  /\ \A w \in Shown : \E x : Leads(w, es, x, Shown) /\ Carry(w.screen, x.screen)

\* The events of q are of some kinds.
Kinds(q, K) == q \in Seq(Payload) /\ \A i \in 1..Len(q) : q[i].kind \in K

\* No events are of any kinds.
LEMMA KindsNone == ASSUME NEW K PROVE Kinds(<<>>, K)
PROOF
<1>1. Len(<<>>) = 0 /\ 1..0 = {} /\ <<>> \in Seq(Payload)
  OBVIOUS
<1> QED
  BY <1>1 DEF Kinds

\* One event is of its kind.
LEMMA KindsOne ==
  ASSUME NEW K, NEW e \in Payload, e.kind \in K
  PROVE  Kinds(<<e>>, K)
PROOF
<1>1. Len(<<e>>) = 1 /\ <<e>>[1] = e /\ <<e>> \in Seq(Payload)
  OBVIOUS
<1>2. \A i \in 1..1 : i = 1
  OBVIOUS
<1> QED
  BY <1>1, <1>2 DEF Kinds

\* Two lists of events of the same kinds are one.
LEMMA KindsThen ==
  ASSUME NEW K, NEW q, NEW r, Kinds(q, K), Kinds(r, K)
  PROVE  Kinds(Then(q, r), K)
PROOF
<1> DEFINE m == Len(q)
           n == Len(r)
           x == Then(q, r)
<1>1. q \in Seq(Payload) /\ r \in Seq(Payload) /\ m \in Nat /\ n \in Nat
  BY LenProperties DEF Kinds
<1>2. /\ x \in Seq(Payload) /\ Len(x) = m + n
      /\ \A k \in 1..(m + n) : x[k] = IF k <= m THEN q[k] ELSE r[k - m]
  BY ONLY <1>1, ConcatProperties, Zenon DEF Then, x, m, n
<1>3. ASSUME NEW k \in 1..(m + n) PROVE x[k].kind \in K
  <2>1. (\A i \in 1..m : q[i].kind \in K) /\ (\A i \in 1..n : r[i].kind \in K)
    BY DEF Kinds
  <2> HIDE DEF x, m, n
  <2>2. CASE k <= m
    <3>1. k \in 1..m
      BY <1>1, <2>2
    <3> QED
      BY <1>2, <2>1, <2>2, <3>1
  <2>3. CASE ~(k <= m)
    <3>1. k - m \in 1..n
      BY <1>1, <2>3
    <3> QED
      BY <1>2, <2>1, <2>3, <3>1
  <2> QED
    BY <2>2, <2>3
<1> HIDE DEF m, n
<1> QED
  BY <1>2, <1>3 DEF Kinds, x

\* A walk on which no event breaks what R compares with its start.
LEMMA LeadsKeeping ==
  ASSUME NEW q \in Seq(Payload), NEW S, NEW u \in S, S \subseteq Shown,
         \A i \in 1..Len(q) : \A w \in S : ApplyEvent(w, q[i]) \in S
  PROVE  \E v \in S : Leads(u, q, v, Shown)
PROOF
<1> DEFINE R == [k \in 0..Len(q) |-> S]
<1>1. Len(q) \in Nat
  BY LenProperties
<1>2. \A k \in 0..Len(q) : R[k] = S
  OBVIOUS
<1> HIDE DEF R
<1>3. Upholds(R, q, Shown)
  <2> SUFFICES ASSUME NEW k \in 1..Len(q), NEW w \in R[k - 1]
               PROVE  ApplyEvent(w, q[k]) \in R[k] \cap Shown
    BY DEF Upholds
  <2>1. k - 1 \in 0..Len(q) /\ k \in 0..Len(q)
    BY <1>1
  <2> QED
    BY <1>2, <2>1
<1>4. u \in R[0] \cap Shown
  <2>1. 0 \in 0..Len(q)
    BY <1>1
  <2> QED
    BY <1>2, <2>1
<1>5. PICK v \in R[Len(q)] : Leads(u, q, v, Shown)
  BY <1>3, <1>4, LeadsInduct
<1>6. Len(q) \in 0..Len(q)
  BY <1>1
<1> QED
  BY <1>2, <1>5, <1>6

\* Cards and stakes are about nobody's place and nobody's turn.
LEMMA CardsLead ==
  ASSUME NEW q, Kinds(q, CardKinds), NEW u \in Shown
  PROVE  \E v \in Shown : Leads(u, q, v, Shown) /\ Same(u.screen, v.screen)
PROOF
<1> DEFINE S == {v \in Shown : Same(u.screen, v.screen)}
<1>1. u \in S
  BY DEF Same, SamePlaces
<1>2. ASSUME NEW i \in 1..Len(q), NEW w \in S PROVE ApplyEvent(w, q[i]) \in S
  <2>1. q[i] \in Payload /\ q[i].kind \in CardKinds
    BY ElementOfSeq DEF Kinds
  <2>2. ApplyEvent(w, q[i]) \in Shown /\ Same(w.screen, ApplyEvent(w, q[i]).screen)
    BY <2>1, CardOn
  <2> QED
    BY <2>2 DEF Same, SamePlaces
<1>3. q \in Seq(Payload)
  BY DEF Kinds
<1> HIDE DEF S
<1>4. PICK v \in S : Leads(u, q, v, Shown)
  <2>1. S \subseteq Shown
    BY DEF S
  <2> QED
    BY <1>1, <1>2, <1>3, <2>1, LeadsKeeping
<1> QED
  BY <1>4 DEF S

\* The events of a round but for its changes of phase.
InRound == CardKinds \cup {"GameStarted", "GameFinished"}

\* Nor are the beginning and the end of a round about places.
LEMMA RoundLeads ==
  ASSUME NEW q, Kinds(q, InRound), NEW u \in Shown
  PROVE  \E v \in Shown : Leads(u, q, v, Shown) /\ SamePlaces(u.screen, v.screen)
PROOF
<1> DEFINE S == {v \in Shown : SamePlaces(u.screen, v.screen)}
<1>1. u \in S
  BY DEF SamePlaces
<1>2. ASSUME NEW i \in 1..Len(q), NEW w \in S PROVE ApplyEvent(w, q[i]) \in S
  <2>1. q[i] \in Payload /\ q[i].kind \in InRound
    BY ElementOfSeq DEF Kinds
  <2>2. ApplyEvent(w, q[i]) \in Shown /\ SamePlaces(w.screen, ApplyEvent(w, q[i]).screen)
    <3>1. CASE q[i].kind \in CardKinds
      BY <2>1, <3>1, CardOn DEF Same
    <3>2. CASE q[i].kind \in RoundKinds
      BY <2>1, <3>2, RoundOn
    <3> QED
      BY <2>1, <3>1, <3>2 DEF InRound, RoundKinds
  <2> QED
    BY <2>2 DEF SamePlaces
<1>3. q \in Seq(Payload)
  BY DEF Kinds
<1> HIDE DEF S
<1>4. PICK v \in S : Leads(u, q, v, Shown)
  <2>1. S \subseteq Shown
    BY DEF S
  <2> QED
    BY <1>1, <1>2, <1>3, <2>1, LeadsKeeping
<1> QED
  BY <1>4 DEF S

\* x is u with a change of phase applied.
Passes(u, x) == u \in Shown /\ x = ApplyEvent(u, PhaseChanged)

\* PhaseChanged sets the phase and the turn.
LEMMA PhaseOn ==
  ASSUME IInv', NEW u, NEW x, Passes(u, x)
  PROVE  /\ x \in Shown /\ SamePlaces(u.screen, x.screen)
         /\ PhaseRight(x.screen)' /\ TurnRight(x.screen)' /\ ActiveRight(x.screen)'
         /\ x.betting <=> Me \notin x.screen.observers /\ phase' = "WaitingForBets"
         /\ phase' = "WaitingForBets" =>
              x.screen.dealer = <<>> /\ \A p \in Player : x.screen.row[p] = EmptyRow
         /\ phase' # "WaitingForBets" =>
              x.screen.dealer = u.screen.dealer
              /\ \A p \in Player : x.screen.row[p] = u.screen.row[p]
PROOF
<1> DEFINE e == PhaseChanged
<1>1. /\ e \in Payload /\ e.kind = "PhaseChanged" /\ e.kind \in RoundKinds
      /\ e.to = phase' /\ e.who = {turn'} \ {Nobody}
  BY PhaseChangedType DEF RoundKinds
<1> HIDE DEF e
<1>2. u \in Shown /\ x = ApplyEvent(u, e)
  BY DEF e, Passes
<1>3. /\ x \in Shown /\ SamePlaces(u.screen, x.screen) /\ Turned(u.screen, e, x.screen)
      /\ x.betting <=> Me \notin x.screen.observers /\ e.to = "WaitingForBets"
  BY <1>1, <1>2, RoundOn
<1>4. PhaseRight(x.screen)'
  BY <1>1, <1>3 DEF Turned, PhaseRight
<1>5. /\ (phase' = "PlayerTurn" <=> turn' # Nobody) /\ Me # Nobody
      /\ turn' \in Player \cup {Nobody}
  BY PeopleThen DEF People, TypeOK
<1>6. x.screen.players = u.screen.players /\ Range(u.screen.players) \subseteq Player
  <2>1. u.screen.players \in Seq(Player)
    BY <1>2 DEF Shown, UiState, TableState
  <2> QED
    BY <1>3, <2>1, RangeType DEF SamePlaces
<1>7. TurnRight(x.screen)' /\ ActiveRight(x.screen)'
  <2>1. CASE phase' = "WaitingForBets"
    <3>1. turn' = Nobody /\ ~x.screen.myTurn /\ x.screen.active = {}
      BY <1>1, <1>3, <1>5, <2>1 DEF Turned
    <3>2. Nobody \notin Range(x.screen.players)
      BY <1>6
    <3> QED
      BY <1>5, <3>1, <3>2 DEF TurnRight, ActiveRight
  <2>2. CASE phase' # "WaitingForBets"
    <3>1. (x.screen.myTurn <=> Me \in e.who) /\ x.screen.active = e.who \cap Range(u.screen.players)
      BY <1>1, <1>3, <2>2 DEF Turned
    <3> QED
      BY <1>1, <1>5, <1>6, <3>1 DEF TurnRight, ActiveRight
  <2> QED
    BY <2>1, <2>2
<1>8. /\ phase' = "WaitingForBets" =>
           x.screen.dealer = <<>> /\ \A p \in Player : x.screen.row[p] = EmptyRow
      /\ phase' # "WaitingForBets" =>
           x.screen.dealer = u.screen.dealer
           /\ \A p \in Player : x.screen.row[p] = u.screen.row[p]
  BY <1>1, <1>3 DEF Turned, Clears
<1> QED
  BY <1>1, <1>3, <1>4, <1>7, <1>8

\* Nobody moves, and nobody is forgotten.
PlacesKept == UNCHANGED <<players, waiting, observers, forgotten>>

\* When nobody moves, at the table or on the screen, that takes every place along.
LEMMA PlacesCarry ==
  ASSUME PlacesKept, NEW s, NEW t, SamePlaces(s, t)
  PROVE  \A p \in Player :
           /\ (p \in Seated' <=> p \in Seated) /\ (p \in Range(t.players) <=> p \in Range(s.players))
           /\ p \in observers' <=> p \in observers
           /\ p \in Waiting' <=> p \in Waiting
           /\ p \in forgotten' <=> p \in forgotten
           /\ p \in t.observers <=> p \in s.observers
           /\ p \in t.waiting <=> p \in s.waiting
PROOF
  BY DEF PlacesKept, SamePlaces, Seated, Waiting

\* What ends with a change of phase.
LEMMA PassedTold ==
  ASSUME IInv', PlacesKept, NEW c, Kinds(c, InRound)
  PROVE  Told(Then(c, <<PhaseChanged>>))
PROOF
<1>1. PhaseChanged \in Payload /\ <<PhaseChanged>> \in Seq(Payload) /\ c \in Seq(Payload)
  <2>1. PhaseChanged \in Payload
    BY PhaseChangedType
  <2> QED
    BY <2>1 DEF Kinds
<1>2. Then(c, <<PhaseChanged>>) \in Seq(Payload)
  BY <1>1 DEF Then
<1>3. ASSUME NEW w \in Shown
      PROVE  \E x : Leads(w, Then(c, <<PhaseChanged>>), x, Shown) /\ Carry(w.screen, x.screen)
  <2>1. PICK v \in Shown : Leads(w, c, v, Shown) /\ SamePlaces(w.screen, v.screen)
    BY RoundLeads
  <2>0. PICK x : x = ApplyEvent(v, PhaseChanged) /\ Passes(v, x)
    BY DEF Passes
  <2>2. /\ x \in Shown /\ SamePlaces(v.screen, x.screen)
        /\ PhaseRight(x.screen)' /\ TurnRight(x.screen)' /\ ActiveRight(x.screen)'
    BY <2>0, PhaseOn
  <2>3. Leads(v, <<PhaseChanged>>, x, Shown)
    BY <1>1, <2>0, <2>2, LeadsEvent
  <2>4. Leads(w, Then(c, <<PhaseChanged>>), x, Shown)
    BY <1>1, <2>1, <2>3, LeadsThen
  <2>5. SamePlaces(w.screen, x.screen)
    BY <2>1, <2>2 DEF SamePlaces
  <2>6. Carry(w.screen, x.screen)
    BY <2>2, <2>5, PlacesCarry DEF Carry
  <2> QED
    BY <2>4, <2>6
<1> QED
  BY <1>2, <1>3 DEF Told

\* What changes neither phase nor turn.
LEMMA QuietTold ==
  ASSUME UNCHANGED <<phase, turn>>, PlacesKept, NEW c, Kinds(c, CardKinds)
  PROVE  Told(c)
PROOF
<1>1. c \in Seq(Payload)
  BY DEF Kinds
<1>2. ASSUME NEW w \in Shown
      PROVE  \E x : Leads(w, c, x, Shown) /\ Carry(w.screen, x.screen)
  <2>1. PICK x \in Shown : Leads(w, c, x, Shown) /\ Same(w.screen, x.screen)
    BY CardsLead
  <2>2. ActiveRight(w.screen) => ActiveRight(x.screen)'
    BY <2>1 DEF ActiveRight, Same, SamePlaces
  <2>3. Carry(w.screen, x.screen)
    BY <2>1, <2>2, PlacesCarry DEF Carry, Same
  <2> QED
    BY <2>1, <2>3
<1> QED
  BY <1>1, <1>2 DEF Told

\* What a player on turn does.
LEMMA HandedOnTold ==
  ASSUME IInv, IInv', PlacesKept, NEW p \in Player, turn = p, NEW c, Kinds(c, CardKinds)
  PROVE  Told(Then(c, HandedOn(p)))
PROOF
<1>1. CASE turn' = p
  <2>1. phase = "PlayerTurn" /\ phase' = "PlayerTurn"
    BY <1>1, PeopleNow, PeopleThen DEF People
  <2>2. Then(c, HandedOn(p)) = c
    <3>1. HandedOn(p) = <<>> /\ c \in Seq(Payload)
      BY <1>1 DEF HandedOn, Kinds
    <3> QED
      BY <3>1, Concats DEF Then
  <2> QED
    BY <1>1, <2>1, <2>2, QuietTold
<1>2. CASE turn' # p
  <2>1. HandedOn(p) = <<PhaseChanged>>
    BY <1>2 DEF HandedOn
  <2>2. Kinds(c, InRound)
    BY DEF Kinds, InRound
  <2> QED
    BY <2>1, <2>2, PassedTold
<1> QED
  BY <1>1, <1>2

\* Who comes to watch.
LEMMA Joins ==
  ASSUME IInv, NEW p \in Player, JoinTable(p)
  PROVE  /\ p \notin Present
         /\ observers' = observers \cup {p} /\ Seated' = Seated /\ Waiting' = Waiting
         /\ UNCHANGED <<phase, turn, players, waiting, player, dealer, dealt>>
PROOF
  BY DEF JoinTable, Seated, Waiting

\* Who takes a seat sits or queues.
LEMMA Sits ==
  ASSUME IInv, NEW p \in Player, NEW chips, TakeSeat(p, "any", chips)
  PROVE  /\ p \in observers /\ p \notin Seated /\ p \notin Waiting /\ turn # p
         /\ observers' = observers \ {p}
         /\ UNCHANGED <<phase, turn, dealer, dealt>>
         /\ \/ /\ p \in Seated' /\ Seated' = Seated \cup {p} /\ Waiting' = Waiting
               /\ players' = Append(players, p)
               /\ \E s : player' = [player EXCEPT ![p] = AtSeat(s, chips)]
            \/ /\ p \notin Seated' /\ Seated' = Seated /\ Waiting' = Waiting \cup {p}
               /\ players' = players
               /\ \E s : player' = [player EXCEPT ![p] = AtSeat(s, 0)]
PROOF
<1>1. People
  BY PeopleNow
<1>2. p \in observers
  BY DEF TakeSeat
<1>3. p \notin Seated /\ p \notin Waiting /\ turn # p
  BY <1>1, <1>2 DEF People
<1>4. players \in Seq(Player) /\ waiting \in Seq(Player)
  BY <1>1 DEF People, TypeOK
<1>5. PICK s : SitDown(p, s, chips) \/ QueueForSeat(p, s)
  BY DEF TakeSeat
<1>6. CASE SitDown(p, s, chips)
  <2>1. Seated' = Seated \cup {p}
    BY <1>4, <1>6, AppendElement DEF SitDown, Seated
  <2>2. Waiting' = Waiting
    BY <1>3, <1>4, <1>6, RemoveFirstAbsent DEF SitDown, Waiting
  <2> QED
    BY <1>2, <1>3, <1>6, <2>1, <2>2 DEF SitDown
<1>7. CASE QueueForSeat(p, s)
  <2>1. Waiting' = Waiting \cup {p}
    BY <1>4, <1>7, AppendElement DEF QueueForSeat, Waiting
  <2>2. Seated' = Seated
    BY <1>7 DEF QueueForSeat, Seated
  <2> QED
    BY <1>2, <1>3, <1>7, <2>1, <2>2 DEF QueueForSeat
<1> QED
  BY <1>5, <1>6, <1>7

\* Who gives up a seat or leaves the queue is in neither any more.
LEMMA Departs ==
  ASSUME IInv, NEW p \in Player, GiveUpSeat(p) \/ LeaveQueue(p)
  PROVE  /\ p \in Seated \cup Waiting /\ p \notin observers
         /\ Seated' = Seated \ {p} /\ Waiting' = Waiting \ {p}
         /\ players' = RemoveFirst(players, p)
         /\ turn # p => UNCHANGED <<phase, turn>>
         /\ turn = p => turn' = NextPlayerAfterLeave(p)
                        /\ phase' = IF turn' = Nobody THEN "DealerTurn" ELSE "PlayerTurn"
         /\ player' = [player EXCEPT ![p] = NoPlayer]
         /\ UNCHANGED <<dealer, dealt>>
PROOF
<1>1. People
  BY PeopleNow
<1>2. /\ players \in Seq(Player) /\ waiting \in Seq(Player)
      /\ IsInjective(players) /\ IsInjective(waiting)
  BY <1>1 DEF People, TypeOK
<1>3. Range(RemoveFirst(players, p)) = Seated \ {p} /\ Range(RemoveFirst(waiting, p)) = Waiting \ {p}
  BY <1>2, RemoveFirstProperties DEF Seated, Waiting
<1>4. CASE GiveUpSeat(p)
  <2>1. Seated' = Seated \ {p} /\ Waiting' = Waiting \ {p}
    BY <1>3, <1>4 DEF GiveUpSeat, Seated, Waiting
  <2>2. p \notin observers
    BY <1>1, <1>4 DEF People, GiveUpSeat
  <2> QED
    BY <1>4, <2>1, <2>2 DEF GiveUpSeat, PassTurnTo
<1>5. CASE LeaveQueue(p)
  <2>1. p \notin Seated /\ p \notin observers /\ turn # p
    BY <1>1, <1>5 DEF People, LeaveQueue
  <2>2. players' = RemoveFirst(players, p) /\ Seated' = Seated
    BY <1>2, <1>5, <2>1, RemoveFirstAbsent DEF LeaveQueue, Seated
  <2>3. Waiting' = Waiting \ {p}
    BY <1>3, <1>5 DEF LeaveQueue, Waiting
  <2> QED
    BY <1>5, <2>1, <2>2, <2>3 DEF LeaveQueue
<1> QED
  BY <1>4, <1>5

-----------------------------------------------------------------------------

\* Where everybody is on a screen.
Others(s, t, p) ==
  \A q \in Player \ {p} :
    /\ q \in Range(t.players) <=> q \in Range(s.players)
    /\ q \in t.observers <=> q \in s.observers
    /\ q \in t.waiting <=> q \in s.waiting

\* The events with which p moves, and what they do to a screen.
LEMMA MoveSets ==
  ASSUME NEW u \in Shown, NEW kind \in MoveKinds, NEW p \in Player, phase \in Phase,
         NEW x, x = ApplyEvent(u, Of(kind, p))
  PROVE  /\ Of(kind, p) \in Payload /\ x \in Shown /\ x.betting = u.betting
         /\ x.screen.phase = u.screen.phase /\ (x.screen.myTurn <=> u.screen.myTurn)
         /\ x.screen.dealer = u.screen.dealer
         /\ Others(u.screen, x.screen, p)
         /\ p \in x.screen.observers <=>
              \/ kind = "ObserverJoined"
              \/ /\ p \in u.screen.observers
                 /\ kind \notin {"ObserverLeft", "PlayerAddedToWaitingList", "PlayerJoined"}
         /\ p \in x.screen.waiting <=>
              \/ kind = "PlayerAddedToWaitingList"
              \/ /\ p \in u.screen.waiting
                 /\ kind \notin {"PlayerRemovedFromWaitingList", "PlayerJoined"}
         /\ p \in Range(x.screen.players) <=>
              \/ kind = "PlayerJoined"
              \/ p \in Range(u.screen.players) /\ kind # "PlayerLeft"
         /\ x.screen.active = IF kind = "PlayerLeft" THEN u.screen.active \ {p} ELSE u.screen.active
PROOF
<1> DEFINE e == Of(kind, p)
<1>1. e \in Payload /\ e.kind = kind /\ e.who = {p}
  BY EventTypes DEF Of
<1> HIDE DEF e
<1>2. x = ApplyEvent(u, e)
  BY DEF e
<1>3. x \in Shown /\ x.betting = u.betting /\ Moved(u.screen, e, p, x.screen)
  BY <1>1, <1>2, MoveOn
<1>4. u.screen.players \in Seq(Player) /\ IsInjective(u.screen.players)
  BY DEF Shown, UiState, TableState, Tidy
<1>5. Range(x.screen.players) =
        IF kind = "PlayerJoined" THEN Range(u.screen.players) \cup {p}
        ELSE IF kind = "PlayerLeft" THEN Range(u.screen.players) \ {p} ELSE Range(u.screen.players)
  <2>1. Range(Append(u.screen.players, p)) = Range(u.screen.players) \cup {p}
    BY <1>4, AppendElement
  <2>2. Range(RemoveFirst(u.screen.players, p)) = Range(u.screen.players) \ {p}
    BY <1>4, RemoveFirstProperties
  <2>3. CASE kind = "PlayerJoined"
    <3>1. CASE p \in Range(u.screen.players)
      BY <1>1, <1>3, <2>3, <3>1 DEF Moved
    <3>2. CASE p \notin Range(u.screen.players)
      BY <1>1, <1>3, <2>1, <2>3, <3>2 DEF Moved
    <3> QED
      BY <3>1, <3>2
  <2>4. CASE kind = "PlayerLeft"
    BY <1>1, <1>3, <2>2, <2>4 DEF Moved
  <2>5. CASE kind \notin {"PlayerJoined", "PlayerLeft"}
    BY <1>1, <1>3, <2>5 DEF Moved
  <2> QED
    BY <2>3, <2>4, <2>5
<1>6. /\ x.screen.phase = u.screen.phase /\ (x.screen.myTurn <=> u.screen.myTurn)
      /\ x.screen.dealer = u.screen.dealer
      /\ x.screen.active = IF kind = "PlayerLeft" THEN u.screen.active \ {p} ELSE u.screen.active
  BY <1>1, <1>3 DEF Moved
<1>7. /\ x.screen.observers =
           IF kind = "ObserverJoined" THEN u.screen.observers \cup {p}
           ELSE IF kind \in {"ObserverLeft", "PlayerAddedToWaitingList", "PlayerJoined"}
           THEN u.screen.observers \ {p} ELSE u.screen.observers
      /\ x.screen.waiting =
           IF kind = "PlayerAddedToWaitingList" THEN u.screen.waiting \cup {p}
           ELSE IF kind \in {"PlayerRemovedFromWaitingList", "PlayerJoined"}
           THEN u.screen.waiting \ {p} ELSE u.screen.waiting
  BY <1>1, <1>3 DEF Moved
<1>8. Others(u.screen, x.screen, p)
  BY <1>5, <1>7 DEF Others
<1>9. p \in x.screen.observers <=>
              \/ kind = "ObserverJoined"
              \/ /\ p \in u.screen.observers
                 /\ kind \notin {"ObserverLeft", "PlayerAddedToWaitingList", "PlayerJoined"}
  BY <1>7
<1>10. p \in x.screen.waiting <=>
              \/ kind = "PlayerAddedToWaitingList"
              \/ /\ p \in u.screen.waiting
                 /\ kind \notin {"PlayerRemovedFromWaitingList", "PlayerJoined"}
  BY <1>7
<1>11. p \in Range(x.screen.players) <=>
              \/ kind = "PlayerJoined"
              \/ p \in Range(u.screen.players) /\ kind # "PlayerLeft"
  BY <1>5
<1> QED
  BY <1>1, <1>3, <1>6, <1>8, <1>9, <1>10, <1>11 DEF e

\* One event that moves p as the table does, while p has not the turn.
LEMMA MoveTold ==
  ASSUME IInv, NEW p \in Player, NEW kind \in MoveKinds, turn # p,
         UNCHANGED <<phase, turn, forgotten>>,
         \A q \in Player \ {p} : /\ q \in Seated' <=> q \in Seated
                                 /\ q \in observers' <=> q \in observers
                                 /\ q \in Waiting' <=> q \in Waiting,
         p \in observers' <=>
           \/ kind = "ObserverJoined"
           \/ p \in observers /\ kind \notin {"ObserverLeft", "PlayerAddedToWaitingList", "PlayerJoined"},
         p \in Waiting' <=>
           \/ kind = "PlayerAddedToWaitingList"
           \/ p \in Waiting /\ kind \notin {"PlayerRemovedFromWaitingList", "PlayerJoined"},
         p \in Seated' <=>
           \/ kind = "PlayerJoined"
           \/ p \in Seated /\ kind # "PlayerLeft"
  PROVE  Told(<<Of(kind, p)>>)
PROOF
<1> DEFINE e == Of(kind, p)
<1>1. phase \in Phase
  BY PeopleNow DEF People, TypeOK
<1>2. e \in Payload /\ <<e>> \in Seq(Payload)
  <2>1. e \in Payload
    BY <1>1, EventTypes DEF Of
  <2> QED
    BY <2>1
<1>3. ASSUME NEW w \in Shown
      PROVE  \E x : Leads(w, <<e>>, x, Shown) /\ Carry(w.screen, x.screen)
  <2>1. PICK x : x = ApplyEvent(w, e)
    OBVIOUS
  <2> DEFINE s == w.screen
             t == x.screen
  <2>2. /\ x \in Shown /\ t.phase = s.phase /\ (t.myTurn <=> s.myTurn) /\ Others(s, t, p)
        /\ p \in t.observers <=>
             \/ kind = "ObserverJoined"
             \/ /\ p \in s.observers
                /\ kind \notin {"ObserverLeft", "PlayerAddedToWaitingList", "PlayerJoined"}
        /\ p \in t.waiting <=>
             \/ kind = "PlayerAddedToWaitingList"
             \/ p \in s.waiting /\ kind \notin {"PlayerRemovedFromWaitingList", "PlayerJoined"}
        /\ p \in Range(t.players) <=>
             \/ kind = "PlayerJoined"
             \/ p \in Range(s.players) /\ kind # "PlayerLeft"
        /\ t.active = IF kind = "PlayerLeft" THEN s.active \ {p} ELSE s.active
    BY <1>1, <2>1, MoveSets
  <2>3. Leads(w, <<e>>, x, Shown)
    BY <1>2, <2>1, <2>2, LeadsEvent
  <2>4. Range(s.players) \subseteq Player /\ Range(t.players) \subseteq Player
    <3>1. s.players \in Seq(Player) /\ t.players \in Seq(Player)
      BY <2>2 DEF Shown, UiState, TableState
    <3> QED
      BY <3>1, RangeType
  <2> HIDE DEF s, t, e
  <2>5. ActiveRight(s) => ActiveRight(t)
    <3>1. \A q \in Player \ {p} : q \in Range(t.players) <=> q \in Range(s.players)
      BY <2>2 DEF Others
    <3>2. kind = "PlayerLeft" => p \notin Range(t.players)
      BY <2>2
    <3>3. kind # "PlayerLeft" => {turn} \cap Range(t.players) = {turn} \cap Range(s.players)
      BY <2>2, <2>4, <3>1
    <3>4. kind = "PlayerLeft" =>
            {turn} \cap Range(t.players) = ({turn} \cap Range(s.players)) \ {p}
      BY <2>2, <2>4, <3>1, <3>2
    <3> QED
      BY <2>2, <3>3, <3>4 DEF ActiveRight
  <2>6. ActiveRight(s) => ActiveRight(t)'
    BY <2>5 DEF ActiveRight
  <2>7. ASSUME NEW q \in Player
        PROVE  /\ \/ SeatRight(t, q)'
                  \/ (q \in Seated' <=> q \in Seated)
                     /\ (q \in Range(t.players) <=> q \in Range(s.players))
               /\ \/ WatchRight(t, q)'
                  \/ /\ q \in observers' <=> q \in observers
                     /\ q \in forgotten' <=> q \in forgotten
                     /\ q \in t.observers <=> q \in s.observers
               /\ \/ QueueRight(t, q)'
                  \/ /\ q \in Waiting' <=> q \in Waiting
                     /\ q \in forgotten' <=> q \in forgotten
                     /\ q \in t.waiting <=> q \in s.waiting
    <3>1. CASE q # p
      BY <2>2, <3>1 DEF Others
    <3>2. CASE q = p
      BY <2>2, <3>2 DEF SeatRight, WatchRight, QueueRight
    <3> QED
      BY <3>1, <3>2
  <2>8. Carry(s, t)
    BY <2>2, <2>6, <2>7 DEF Carry
  <2> QED
    BY <2>3, <2>8 DEF s, t
<1> QED
  BY <1>2, <1>3 DEF Told

\* The event of joining the table takes every screen along.
LEMMA JoinTold ==
  ASSUME IInv, NEW p \in Player, JoinTable(p), forgotten' = forgotten
  PROVE  Told(<<Of("ObserverJoined", p)>>)
PROOF
<1>1. /\ observers' = observers \cup {p} /\ Seated' = Seated /\ Waiting' = Waiting
      /\ UNCHANGED <<phase, turn>> /\ p \notin Seated
  BY Joins DEF Present
<1>2. turn # p
  BY <1>1, PeopleNow DEF People
<1>3. "ObserverJoined" \in MoveKinds
  BY DEF MoveKinds
<1> QED
  BY <1>1, <1>2, <1>3, MoveTold

\* So does that of taking a seat or a place in the queue.
LEMMA SeatTold ==
  ASSUME IInv, NEW p \in Player, NEW chips, TakeSeat(p, "any", chips), forgotten' = forgotten
  PROVE  Told(<<Of(IF p \in Seated' THEN "PlayerJoined" ELSE "PlayerAddedToWaitingList", p)>>)
PROOF
<1>1. /\ turn # p /\ p \notin Waiting /\ p \notin Seated
      /\ observers' = observers \ {p} /\ UNCHANGED <<phase, turn>>
      /\ \/ p \in Seated' /\ Seated' = Seated \cup {p} /\ Waiting' = Waiting
         \/ p \notin Seated' /\ Seated' = Seated /\ Waiting' = Waiting \cup {p}
  BY Sits
<1>2. "PlayerJoined" \in MoveKinds /\ "PlayerAddedToWaitingList" \in MoveKinds
  BY DEF MoveKinds
<1>3. CASE p \in Seated'
  <2>1. Told(<<Of("PlayerJoined", p)>>)
    BY <1>1, <1>2, <1>3, MoveTold
  <2> QED
    BY <1>3, <2>1
<1>4. CASE p \notin Seated'
  <2>1. Told(<<Of("PlayerAddedToWaitingList", p)>>)
    BY <1>1, <1>2, <1>4, MoveTold
  <2> QED
    BY <1>4, <2>1
<1> QED
  BY <1>3, <1>4

-----------------------------------------------------------------------------

\* What the events of leaving do to a screen, whatever it showed.
Gone(s, t, p) ==
  /\ Others(s, t, p)
  /\ p \in t.observers <=> p \in s.observers /\ p \notin observers
  /\ p \in t.waiting <=> p \in s.waiting /\ p \notin Waiting
  /\ p \in Range(t.players) <=> p \in Range(s.players) /\ p \notin Seated
  /\ turn = p => PhaseRight(t)' /\ TurnRight(t)' /\ ActiveRight(t)'
  /\ turn # p => t.phase = s.phase /\ (t.myTurn <=> s.myTurn) /\ (ActiveRight(s) => ActiveRight(t))

\* The event with which p leaves is of this kind, and the turn passes on if it was on turn.
LeftIs(p, kind) ==
  /\ kind \in {"PlayerLeft", "ObserverLeft", "PlayerRemovedFromWaitingList"}
  /\ kind = "PlayerLeft" <=> p \in Seated
  /\ kind = "ObserverLeft" <=> p \in observers
  /\ kind = "PlayerRemovedFromWaitingList" <=> p \in Waiting
  /\ turn = p => Left(p) = Then(<<Of(kind, p)>>, <<PhaseChanged>>)
  /\ turn # p => Left(p) = <<Of(kind, p)>>

\* Left(p) is one event, and a change of phase when p was on turn.
LEMMA LeftEvents ==
  ASSUME IInv, IInv', NEW p \in Player, p \in Present
  PROVE  Left(p) \in Seq(Payload) /\ \E kind \in MoveKinds : LeftIs(p, kind)
PROOF
<1>1. /\ phase \in Phase /\ Seated \cap Waiting = {} /\ observers \cap Seated = {}
      /\ observers \cap Waiting = {} /\ (turn # Nobody => turn \in Seated)
  BY PeopleNow DEF People, TypeOK
<1>2. PICK kind \in {"PlayerLeft", "ObserverLeft", "PlayerRemovedFromWaitingList"} :
        /\ kind = "PlayerLeft" <=> p \in Seated
        /\ kind = "ObserverLeft" <=> p \in observers
        /\ kind = "PlayerRemovedFromWaitingList" <=> p \in Waiting
        /\ turn = p => Left(p) = Then(<<Of(kind, p)>>, <<PhaseChanged>>)
        /\ turn # p => Left(p) = <<Of(kind, p)>>
  <2>1. CASE p \in Seated
    <3> DEFINE a == <<Of("PlayerLeft", p)>>
               b == <<PhaseChanged>>
    <3>0. Left(p) = a \o (IF turn = p THEN b ELSE <<>>)
      <4>1. p \notin observers /\ p \notin Waiting
        BY <1>1, <2>1
      <4> QED
        BY <2>1, <4>1, Zenon DEF Left
    <3> HIDE DEF a, b
    <3>1. turn = p => Left(p) = a \o b
      BY <3>0
    <3>2. turn # p => Left(p) = a \o <<>>
      BY <3>0
    <3>3. <<Of("PlayerLeft", p)>> \o <<>> = <<Of("PlayerLeft", p)>>
      OBVIOUS
    <3> QED
      BY <1>1, <2>1, <3>1, <3>2, <3>3 DEF Then, a, b
  <2>2. CASE p \in observers
    BY <1>1, <2>2 DEF Left
  <2>3. CASE p \in Waiting
    BY <1>1, <2>3 DEF Left
  <2> QED
    BY <2>1, <2>2, <2>3 DEF Present
<1> DEFINE e == Of(kind, p)
<1>3. kind \in MoveKinds
  BY <1>2 DEF MoveKinds
<1>4. e \in Payload /\ <<e>> \in Seq(Payload)
  <2>1. e \in Payload
    BY <1>1, <1>3, EventTypes DEF Of
  <2> QED
    BY <2>1
<1>5. Left(p) \in Seq(Payload)
  <2>1. CASE turn # p
    BY <1>2, <1>4, <2>1
  <2>2. CASE turn = p
    <3> DEFINE b == <<PhaseChanged>>
    <3>1. b \in Seq(Payload)
      <4>1. PhaseChanged \in Payload
        BY PhaseChangedType
      <4> QED
        BY <4>1
    <3>2. Left(p) = <<e>> \o b
      BY <1>2, <2>2 DEF Then
    <3> HIDE DEF b, e
    <3> QED
      BY <1>4, <3>1, <3>2
  <2> QED
    BY <2>1, <2>2
<1> QED
  BY <1>2, <1>3, <1>5 DEF LeftIs

\* On any screen it removes p from where p was, and passes the turn on.
LEMMA LeftLeads ==
  ASSUME IInv, IInv', NEW p \in Player, p \in Present, NEW w \in Shown
  PROVE  \E x \in Shown : Leads(w, Left(p), x, Shown) /\ Gone(w.screen, x.screen, p)
PROOF
<1>1. phase \in Phase
  BY PeopleNow DEF People, TypeOK
<1>2. PICK kind \in MoveKinds : LeftIs(p, kind)
  BY LeftEvents
<1> DEFINE e == Of(kind, p)
<1>4. e \in Payload /\ <<e>> \in Seq(Payload)
  <2>1. e \in Payload
    BY <1>1, EventTypes DEF Of
  <2> QED
    BY <2>1
<1>5. PICK v : v = ApplyEvent(w, e)
  OBVIOUS
<1> DEFINE s == w.screen
           t == v.screen
<1>6. /\ v \in Shown /\ t.phase = s.phase /\ (t.myTurn <=> s.myTurn) /\ Others(s, t, p)
      /\ p \in t.observers <=>
           \/ kind = "ObserverJoined"
           \/ /\ p \in s.observers
              /\ kind \notin {"ObserverLeft", "PlayerAddedToWaitingList", "PlayerJoined"}
      /\ p \in t.waiting <=>
           \/ kind = "PlayerAddedToWaitingList"
           \/ p \in s.waiting /\ kind \notin {"PlayerRemovedFromWaitingList", "PlayerJoined"}
      /\ p \in Range(t.players) <=>
           \/ kind = "PlayerJoined"
           \/ p \in Range(s.players) /\ kind # "PlayerLeft"
      /\ t.active = IF kind = "PlayerLeft" THEN s.active \ {p} ELSE s.active
  BY <1>1, <1>5, MoveSets
<1>7. Leads(w, <<e>>, v, Shown)
  BY <1>4, <1>5, <1>6, LeadsEvent
<1>8. Range(s.players) \subseteq Player /\ Range(t.players) \subseteq Player
  <2>1. s.players \in Seq(Player) /\ t.players \in Seq(Player)
    BY <1>6 DEF Shown, UiState, TableState
  <2> QED
    BY <2>1, RangeType
<1> HIDE DEF s, t, e
<1>9. ActiveRight(s) => ActiveRight(t)
  <2>1. \A q \in Player \ {p} : q \in Range(t.players) <=> q \in Range(s.players)
    BY <1>6 DEF Others
  <2>2. CASE kind = "PlayerLeft"
    <3>1. p \notin Range(t.players)
      BY <1>6, <2>2
    <3>2. {turn} \cap Range(t.players) = ({turn} \cap Range(s.players)) \ {p}
      BY <1>8, <2>1, <3>1
    <3> QED
      BY <1>6, <2>2, <3>2 DEF ActiveRight
  <2>3. CASE kind # "PlayerLeft"
    <3>1. p \in Range(t.players) <=> p \in Range(s.players)
      BY <1>2, <1>6, <2>3 DEF LeftIs
    <3>2. {turn} \cap Range(t.players) = {turn} \cap Range(s.players)
      BY <1>8, <2>1, <3>1
    <3> QED
      BY <1>6, <2>3, <3>2 DEF ActiveRight
  <2> QED
    BY <2>2, <2>3
<1>10. /\ p \in t.observers <=> p \in s.observers /\ p \notin observers
       /\ p \in t.waiting <=> p \in s.waiting /\ p \notin Waiting
       /\ p \in Range(t.players) <=> p \in Range(s.players) /\ p \notin Seated
  BY <1>2, <1>6 DEF LeftIs
<1>11. CASE turn # p
  <2>1. Gone(s, t, p)
    BY <1>6, <1>9, <1>10, <1>11 DEF Gone
  <2> QED
    BY <1>2, <1>6, <1>7, <1>11, <2>1 DEF e, s, t, LeftIs
<1>12. CASE turn = p
  <2>1. PICK x : x = ApplyEvent(v, PhaseChanged) /\ Passes(v, x)
    BY <1>6 DEF Passes
  <2>2. /\ x \in Shown /\ SamePlaces(v.screen, x.screen)
        /\ PhaseRight(x.screen)' /\ TurnRight(x.screen)' /\ ActiveRight(x.screen)'
    BY <2>1, PhaseOn
  <2>3. PhaseChanged \in Payload /\ <<PhaseChanged>> \in Seq(Payload)
    <3>1. PhaseChanged \in Payload
      BY PhaseChangedType
    <3> QED
      BY <3>1
  <2>4. Leads(v, <<PhaseChanged>>, x, Shown)
    BY <1>6, <2>1, <2>2, <2>3, LeadsEvent
  <2>5. Leads(w, Left(p), x, Shown)
    BY <1>2, <1>4, <1>7, <1>12, <2>3, <2>4, LeadsThen DEF e, LeftIs
  <2>7. Gone(s, x.screen, p)
    <3>1. SamePlaces(t, x.screen)
      BY <2>2 DEF t
    <3> QED
      BY <1>6, <1>10, <1>12, <2>2, <3>1 DEF Gone, SamePlaces, Others
  <2> QED
    BY <2>2, <2>5, <2>7 DEF s
<1> QED
  BY <1>11, <1>12

\* Who leaves the table is nowhere any more.
LEMMA Leaves ==
  ASSUME IInv, NEW p \in Player, LeaveTable(p)
  PROVE  /\ p \in Present
         /\ Seated' = Seated \ {p} /\ Waiting' = Waiting \ {p} /\ observers' = observers \ {p}
         /\ turn # p => UNCHANGED <<phase, turn>>
PROOF
<1>1. CASE GiveUpSeat(p) \/ LeaveQueue(p)
  <2>1. observers' = observers \/ p \in observers
    BY DEF LeaveTable
  <2> QED
    BY <1>1, <2>1, Departs DEF LeaveTable, Present
<1>2. CASE ~(GiveUpSeat(p) \/ LeaveQueue(p))
  <2>1. /\ p \in observers /\ observers' = observers \ {p}
        /\ UNCHANGED <<phase, turn, players, waiting>>
    BY <1>2 DEF LeaveTable
  <2>2. p \notin Seated /\ p \notin Waiting
    BY <2>1, PeopleNow DEF People
  <2> QED
    BY <2>1, <2>2 DEF Seated, Waiting, Present
<1> QED
  BY <1>1, <1>2

\* The pieces for one person.
PieceCarry(s, t, q) ==
  /\ \/ SeatRight(t, q)'
     \/ (q \in Seated' <=> q \in Seated) /\ (q \in Range(t.players) <=> q \in Range(s.players))
  /\ \/ WatchRight(t, q)'
     \/ /\ q \in observers' <=> q \in observers
        /\ q \in forgotten' <=> q \in forgotten
        /\ q \in t.observers <=> q \in s.observers
  /\ \/ QueueRight(t, q)'
     \/ /\ q \in Waiting' <=> q \in Waiting
        /\ q \in forgotten' <=> q \in forgotten
        /\ q \in t.waiting <=> q \in s.waiting

\* The other pieces, when p comes or goes.
LEMMA TurnCarry ==
  ASSUME NEW s, NEW t, NEW p, turn # p => UNCHANGED <<phase, turn>>,
         turn = p => PhaseRight(t)' /\ TurnRight(t)' /\ ActiveRight(t)',
         turn # p =>
           t.phase = s.phase /\ (t.myTurn <=> s.myTurn) /\ (ActiveRight(s) => ActiveRight(t)),
         \A q \in Player : PieceCarry(s, t, q)
  PROVE  Carry(s, t)
PROOF
<1>1. /\ PhaseRight(t)' \/ (phase' = phase /\ t.phase = s.phase)
      /\ TurnRight(t)' \/ (turn' = turn /\ (t.myTurn <=> s.myTurn))
  OBVIOUS
<1>2. ActiveRight(t)' \/ (turn' = turn /\ (ActiveRight(s) => ActiveRight(t)'))
  <2>1. CASE turn = p
    BY <2>1
  <2>2. CASE turn # p
    BY <2>2 DEF ActiveRight
  <2> QED
    BY <2>1, <2>2
<1> QED
  BY <1>1, <1>2 DEF Carry, PieceCarry

\* Leaving the table takes every screen along.
LEMMA LeaveTold ==
  ASSUME IInv, IInv', NEW p \in Player, LeaveTable(p), forgotten' = forgotten
  PROVE  Told(Left(p))
PROOF
<1>1. /\ p \in Present
      /\ Seated' = Seated \ {p} /\ Waiting' = Waiting \ {p} /\ observers' = observers \ {p}
      /\ turn # p => UNCHANGED <<phase, turn>>
  BY Leaves
<1>2. ASSUME NEW w \in Shown
      PROVE  \E x : Leads(w, Left(p), x, Shown) /\ Carry(w.screen, x.screen)
  <2>1. PICK x \in Shown : Leads(w, Left(p), x, Shown) /\ Gone(w.screen, x.screen, p)
    BY <1>1, LeftLeads
  <2> DEFINE s == w.screen
             t == x.screen
  <2>2. Gone(s, t, p)
    BY <2>1
  <2> HIDE DEF s, t
  <2>3. ASSUME NEW q \in Player PROVE PieceCarry(s, t, q)
    <3>1. CASE q # p
      BY <1>1, <2>2, <3>1 DEF Gone, Others, PieceCarry
    <3>2. CASE q = p
      BY <1>1, <2>2, <3>2 DEF Gone, SeatRight, WatchRight, QueueRight, PieceCarry
    <3> QED
      BY <3>1, <3>2
  <2>6. Carry(s, t)
    BY <1>1, <2>2, <2>3, TurnCarry DEF Gone
  <2> QED
    BY <2>1, <2>6 DEF s, t
<1>3. Left(p) \in Seq(Payload)
  BY <1>1, LeftEvents
<1> QED
  BY <1>2, <1>3 DEF Told

\* Who goes back to watching is in nobody's way any more.
LEMMA Unseats ==
  ASSUME IInv, NEW p \in Player, LeaveSeat(p)
  PROVE  /\ p \in Present /\ p \notin observers
         /\ Seated' = Seated \ {p} /\ Waiting' = Waiting \ {p} /\ observers' = observers \cup {p}
         /\ turn # p => UNCHANGED <<phase, turn>>
PROOF
  BY Departs DEF LeaveSeat, Present

\* So does leaving a seat, after which the player watches.
LEMMA UnseatTold ==
  ASSUME IInv, IInv', NEW p \in Player, LeaveSeat(p), forgotten' = forgotten
  PROVE  Told(Then(Left(p), <<Of("ObserverJoined", p)>>))
PROOF
<1> DEFINE e == Of("ObserverJoined", p)
<1>1. /\ p \in Present /\ p \notin observers
      /\ Seated' = Seated \ {p} /\ Waiting' = Waiting \ {p} /\ observers' = observers \cup {p}
      /\ turn # p => UNCHANGED <<phase, turn>>
  BY Unseats
<1>2. phase \in Phase /\ "ObserverJoined" \in MoveKinds
  BY PeopleNow DEF People, TypeOK, MoveKinds
<1>3. e \in Payload /\ <<e>> \in Seq(Payload)
  <2>1. e \in Payload
    BY <1>2, EventTypes DEF Of
  <2> QED
    BY <2>1
<1>4. Left(p) \in Seq(Payload)
  BY <1>1, LeftEvents
<1>5. ASSUME NEW w \in Shown
      PROVE  \E x : Leads(w, Then(Left(p), <<e>>), x, Shown) /\ Carry(w.screen, x.screen)
  <2>1. PICK v \in Shown : Leads(w, Left(p), v, Shown) /\ Gone(w.screen, v.screen, p)
    BY <1>1, LeftLeads
  <2>2. PICK x : x = ApplyEvent(v, e)
    OBVIOUS
  <2> DEFINE s == w.screen
             m == v.screen
             t == x.screen
  <2>3. /\ x \in Shown /\ t.phase = m.phase /\ (t.myTurn <=> m.myTurn) /\ Others(m, t, p)
        /\ p \in t.observers
        /\ p \in t.waiting <=> p \in m.waiting
        /\ p \in Range(t.players) <=> p \in Range(m.players)
        /\ t.active = m.active
    <3>1. PICK kind \in MoveKinds : kind = "ObserverJoined" /\ e = Of(kind, p)
      BY <1>2
    <3> HIDE DEF e
    <3>2. x = ApplyEvent(v, Of(kind, p))
      BY <2>2, <3>1
    <3>3. phase \in Phase
      BY <1>2
    <3>4. /\ x \in Shown /\ t.phase = m.phase /\ (t.myTurn <=> m.myTurn) /\ Others(m, t, p)
          /\ p \in t.observers <=>
               \/ kind = "ObserverJoined"
               \/ /\ p \in m.observers
                  /\ kind \notin {"ObserverLeft", "PlayerAddedToWaitingList", "PlayerJoined"}
          /\ p \in t.waiting <=>
               \/ kind = "PlayerAddedToWaitingList"
               \/ p \in m.waiting /\ kind \notin {"PlayerRemovedFromWaitingList", "PlayerJoined"}
          /\ p \in Range(t.players) <=>
               \/ kind = "PlayerJoined"
               \/ p \in Range(m.players) /\ kind # "PlayerLeft"
          /\ t.active = IF kind = "PlayerLeft" THEN m.active \ {p} ELSE m.active
      BY ONLY p \in Player, v \in Shown, kind \in MoveKinds, <3>3, <3>2, MoveSets
    <3>5. /\ kind \notin {"ObserverLeft", "PlayerAddedToWaitingList", "PlayerJoined"}
          /\ kind \notin {"PlayerAddedToWaitingList", "PlayerRemovedFromWaitingList"}
          /\ kind # "PlayerJoined" /\ kind # "PlayerLeft"
      BY <3>1
    <3> HIDE DEF m, t
    <3> QED
      BY ONLY <3>1, <3>4, <3>5
  <2>4. Leads(w, Then(Left(p), <<e>>), x, Shown)
    <3>1. Leads(v, <<e>>, x, Shown)
      BY <1>3, <2>1, <2>2, <2>3, LeadsEvent
    <3> HIDE DEF e
    <3> QED
      BY <1>3, <1>4, <2>1, <3>1, LeadsThen
  <2>5. Gone(s, m, p)
    BY <2>1
  <2>6. Range(m.players) \subseteq Player /\ Range(t.players) \subseteq Player
    <3>1. m.players \in Seq(Player) /\ t.players \in Seq(Player)
      BY <2>1, <2>3 DEF Shown, UiState, TableState
    <3> QED
      BY <3>1, RangeType
  <2> HIDE DEF s, m, t, e
  <2>7. Range(t.players) = Range(m.players)
    BY <2>3, <2>6 DEF Others
  <2>8. ASSUME NEW q \in Player PROVE PieceCarry(s, t, q)
    <3>1. CASE q # p
      BY <1>1, <2>3, <2>5, <3>1 DEF Gone, Others, PieceCarry
    <3>2. CASE q = p
      BY <1>1, <2>3, <2>5, <3>2 DEF Gone, SeatRight, WatchRight, QueueRight, PieceCarry
    <3> QED
      BY <3>1, <3>2
  <2>9. /\ turn = p => PhaseRight(t)' /\ TurnRight(t)' /\ ActiveRight(t)'
        /\ turn # p =>
             t.phase = s.phase /\ (t.myTurn <=> s.myTurn) /\ (ActiveRight(s) => ActiveRight(t))
    BY <2>3, <2>5, <2>7 DEF Gone, PhaseRight, TurnRight, ActiveRight
  <2>10. Carry(s, t)
    BY <1>1, <2>8, <2>9, TurnCarry
  <2> QED
    BY <2>4, <2>10 DEF s, t
<1>6. Then(Left(p), <<e>>) \in Seq(Payload)
  <2> HIDE DEF e
  <2> QED
    BY <1>3, <1>4 DEF Then
<1> QED
  BY <1>5, <1>6 DEF Told

(***************************************************************************)
(* What a screen has that got every event once.                             *)
(***************************************************************************)

\* A row has its player's cards, and the stake until it is settled.
RowRight(r, p) ==
  /\ r.hand = player[p].hand
  /\ r.bust <=> IsBust(player[p].hand)
  /\ phase # "Finished" => r.bet = player[p].bet

\* The screen has the dealer's cards, the hole card hidden or not.
DealerRight(s) ==
  /\ Len(s.dealer) = Len(dealerCards)
  /\ \A i \in 1..Len(dealerCards) :
       \/ s.dealer[i] = dealerCards[i]
       \/ s.dealer[i] = Hidden /\ i = 2 /\ phase \in {"PlayerTurn", "DealerTurn"}

\* What no screen has that got an event twice: the order of the seats, cards and stakes.
Clean(w) ==
  /\ w.screen.players = players
  /\ DealerRight(w.screen)
  /\ \A p \in Player : RowRight(w.screen.row[p], p)
  /\ phase = "WaitingForBets" /\ Me \in Present => w.betting

\* Nothing but the up card is to be seen while somebody has still to play.
NoPeek(s) ==
  s.phase \in {"Dealing", "PlayerTurn"} =>
    \A i \in DOMAIN s.dealer : s.dealer[i] # Hidden => i = 1

\* The screens that give nothing away.
Discreet == {w \in Shown : NoPeek(w.screen)}

\* What the events of a step have to find.
Exact(w) ==
  /\ w \in Discreet /\ Right(w.screen) /\ Clean(w)
  /\ Me \in Present => Me \notin forgotten

\* They leave a screen as clean as they find it.
Heard(es) ==
  \A w : Exact(w) => \E x : Leads(w, es, x, Discreet) /\ Clean(x)'

\* A discreet screen is shown.
LEMMA DiscreetShown == Discreet \subseteq Shown
PROOF
  BY DEF Discreet

\* The table's cards and rows, as far as a move of p leaves them.
LEMMA RowKept ==
  ASSUME NEW r, NEW q, RowRight(r, q), phase' = "Finished" <=> phase = "Finished",
         player'[q].hand = player[q].hand, player'[q].bet = player[q].bet
  PROVE  RowRight(r, q)'
PROOF
  BY DEF RowRight

\* A step that leaves the dealer alone keeps the dealer's cards right.
LEMMA DealerKept ==
  ASSUME NEW s, NEW t, DealerRight(s), t.dealer = s.dealer, dealerCards' = dealerCards,
         phase \in {"PlayerTurn", "DealerTurn"} => phase' \in {"PlayerTurn", "DealerTurn"}
  PROVE  DealerRight(t)'
PROOF
  BY DEF DealerRight

\* Who has no seat has nothing in a row, either.
LEMMA RowlessIsBare ==
  ASSUME IInv, Bare, NEW p \in Player, p \notin Seated
  PROVE  player[p].bet = 0 /\ player[p].hand = EmptyHand
PROOF
  BY PeopleNow DEF People, Bare

\* One event that moves p, on a screen that has the table's rows.
LEMMA MoveRows ==
  ASSUME NEW u \in Discreet, NEW kind \in MoveKinds, NEW p \in Player, phase \in Phase,
         NEW x, x = ApplyEvent(u, Of(kind, p))
  PROVE  /\ x \in Discreet
         /\ x.screen.players =
              IF kind = "PlayerJoined"
              THEN IF p \in Range(u.screen.players) THEN u.screen.players
                   ELSE Append(u.screen.players, p)
              ELSE IF kind = "PlayerLeft" THEN RemoveFirst(u.screen.players, p)
              ELSE u.screen.players
         /\ kind # "PlayerLeft" => \A q \in Player : x.screen.row[q] = u.screen.row[q]
         /\ kind = "PlayerLeft" => x.screen.row[p] = EmptyRow
         /\ \A q \in Player \ {p} : x.screen.row[q] = u.screen.row[q]
PROOF
<1> DEFINE e == Of(kind, p)
<1>1. e \in Payload /\ e.kind = kind /\ e.who = {p}
  BY EventTypes DEF Of
<1> HIDE DEF e
<1>2. x = ApplyEvent(u, e) /\ u \in Shown
  BY DEF e, Discreet
<1>3. x \in Shown /\ Moved(u.screen, e, p, x.screen)
  BY <1>1, <1>2, MoveOn
<1>4. x \in Discreet
  BY <1>3 DEF Discreet, Moved, NoPeek
<1>5. /\ kind # "PlayerLeft" => \A q \in Player : x.screen.row[q] = u.screen.row[q]
      /\ kind = "PlayerLeft" => x.screen.row[p] = EmptyRow
      /\ \A q \in Player \ {p} : x.screen.row[q] = u.screen.row[q]
  <2>1. kind # "PlayerLeft" => x.screen.row = u.screen.row
    BY <1>1, <1>3 DEF Moved
  <2>2. kind = "PlayerLeft" =>
          x.screen.row = [q \in Player |-> IF q = p THEN EmptyRow ELSE u.screen.row[q]]
    BY <1>1, <1>3 DEF Moved
  <2> QED
    BY <2>1, <2>2
<1>6. x.screen.players =
        IF kind = "PlayerJoined"
        THEN IF p \in Range(u.screen.players) THEN u.screen.players
             ELSE Append(u.screen.players, p)
        ELSE IF kind = "PlayerLeft" THEN RemoveFirst(u.screen.players, p)
        ELSE u.screen.players
  BY <1>1, <1>3 DEF Moved
<1> QED
  BY <1>4, <1>5, <1>6

\* One event that moves p as the table does, who has no stake.
Moving(p, kind) ==
  /\ turn # p
  /\ UNCHANGED <<phase, turn, dealerCards>>
  /\ players' = IF kind = "PlayerJoined" THEN Append(players, p)
                ELSE IF kind = "PlayerLeft" THEN RemoveFirst(players, p) ELSE players
  /\ kind # "PlayerLeft" => p \notin Seated
  /\ \A q \in Player \ {p} : player'[q] = player[q]
  /\ player'[p].bet = 0 /\ player'[p].hand = EmptyHand
  /\ Me \in Present' => Me \in Present

\* The event of such a move keeps an exact screen clean.
LEMMA MovingClean ==
  ASSUME IInv, Bare, NEW p \in Player, NEW kind \in MoveKinds, Moving(p, kind),
         NEW w, Exact(w), NEW x, x = ApplyEvent(w, Of(kind, p))
  PROVE  x \in Discreet /\ Clean(x)' /\ Leads(w, <<Of(kind, p)>>, x, Discreet)
PROOF
<1>1. phase \in Phase
  BY PeopleNow DEF People, TypeOK
<1>2. w \in Discreet /\ w \in Shown /\ Right(w.screen) /\ Clean(w)
  BY DEF Exact, Discreet
<1> DEFINE s == w.screen
           t == x.screen
<1>3. /\ x \in Discreet
      /\ t.players =
           IF kind = "PlayerJoined"
           THEN IF p \in Range(s.players) THEN s.players ELSE Append(s.players, p)
           ELSE IF kind = "PlayerLeft" THEN RemoveFirst(s.players, p) ELSE s.players
      /\ kind # "PlayerLeft" => \A q \in Player : t.row[q] = s.row[q]
      /\ kind = "PlayerLeft" => t.row[p] = EmptyRow
      /\ \A q \in Player \ {p} : t.row[q] = s.row[q]
  BY <1>1, <1>2, MoveRows
<1>4. x.betting = w.betting /\ t.dealer = s.dealer
  BY <1>1, <1>2, MoveSets
<1>5. Leads(w, <<Of(kind, p)>>, x, Discreet)
  <2>1. Of(kind, p) \in Payload
    BY <1>1, EventTypes DEF Of
  <2> QED
    BY <1>2, <1>3, <2>1, LeadsEvent
<1>6. s.players = players /\ DealerRight(s)
      /\ (\A q \in Player : RowRight(s.row[q], q))
      /\ (phase = "WaitingForBets" /\ Me \in Present => w.betting)
  BY <1>2 DEF Clean
<1> HIDE DEF s, t
<1>7. t.players = players'
  BY <1>3, <1>6 DEF Moving, Seated
<1>8. DealerRight(t)'
  BY <1>4, <1>6, DealerKept DEF Moving
<1>9. ASSUME NEW q \in Player PROVE RowRight(t.row[q], q)'
  <2>1. CASE q # p
    <3>1. t.row[q] = s.row[q] /\ RowRight(s.row[q], q) /\ player'[q] = player[q] /\ phase' = phase
      BY <1>3, <1>6, <2>1 DEF Moving
    <3> QED
      BY <3>1, RowKept
  <2>2. CASE q = p /\ kind # "PlayerLeft"
    <3>1. player[p].bet = 0 /\ player[p].hand = EmptyHand
      BY <2>2, RowlessIsBare DEF Moving
    <3>2. t.row[p] = s.row[p] /\ RowRight(s.row[p], p) /\ phase' = phase
          /\ player'[p].hand = player[p].hand /\ player'[p].bet = player[p].bet
      BY <1>3, <1>6, <2>2, <3>1 DEF Moving
    <3>3. RowRight(t.row[p], p)'
      BY <3>2, RowKept
    <3> QED
      BY <2>2, <3>3
  <2>3. CASE q = p /\ kind = "PlayerLeft"
    <3>1. t.row[p] = EmptyRow /\ player'[p].bet = 0 /\ player'[p].hand = EmptyHand
      BY <1>3, <2>3 DEF Moving
    <3>2. RowRight(EmptyRow, p)'
      BY <3>1 DEF RowRight, EmptyRow, IsBust, EmptyHand
    <3> QED
      BY <2>3, <3>1, <3>2
  <2> QED
    BY <2>1, <2>2, <2>3
<1>10. phase' = "WaitingForBets" /\ Me \in Present' => x.betting
  BY <1>4, <1>6 DEF Moving
<1>11. Clean(x)'
  BY <1>7, <1>8, <1>9, <1>10 DEF Clean, t
<1> QED
  BY <1>3, <1>5, <1>11

\* So it is heard.
LEMMA MovingHeard ==
  ASSUME IInv, Bare, NEW p \in Player, NEW kind \in MoveKinds, Moving(p, kind)
  PROVE  Heard(<<Of(kind, p)>>)
PROOF
<1> SUFFICES ASSUME NEW w, Exact(w)
             PROVE  \E x : Leads(w, <<Of(kind, p)>>, x, Discreet) /\ Clean(x)'
  BY DEF Heard
<1>1. PICK x : x = ApplyEvent(w, Of(kind, p))
  OBVIOUS
<1> QED
  BY <1>1, MovingClean

\* Joining the table is heard.
LEMMA JoinHeard ==
  ASSUME IInv, Bare, NEW p \in Player \ {Me}, JoinTable(p), dealerCards' = dealerCards
  PROVE  Heard(<<Of("ObserverJoined", p)>>)
PROOF
<1>1. /\ p \notin Seated /\ p \notin Present
      /\ observers' = observers \cup {p} /\ Seated' = Seated /\ Waiting' = Waiting
      /\ UNCHANGED <<phase, turn, players, player>>
  BY Joins DEF Present
<1>2. turn # p /\ player[p].bet = 0 /\ player[p].hand = EmptyHand
  BY <1>1, PeopleNow, RowlessIsBare DEF People
<1>3. "ObserverJoined" \in MoveKinds
  BY DEF MoveKinds
<1>4. Moving(p, "ObserverJoined")
  BY <1>1, <1>2 DEF Moving, Present
<1> QED
  BY <1>3, <1>4, MovingHeard

\* Taking a seat is heard.
LEMMA SeatHeard ==
  ASSUME IInv, Bare, NEW p \in Player, NEW chips, TakeSeat(p, "any", chips),
         dealerCards' = dealerCards
  PROVE  Heard(<<Of(IF p \in Seated' THEN "PlayerJoined" ELSE "PlayerAddedToWaitingList", p)>>)
PROOF
<1>1. /\ p \in observers /\ p \notin Seated /\ p \notin Waiting /\ turn # p
      /\ observers' = observers \ {p}
      /\ UNCHANGED <<phase, turn>>
      /\ \/ /\ p \in Seated' /\ Seated' = Seated \cup {p} /\ Waiting' = Waiting
            /\ players' = Append(players, p)
            /\ \E s : player' = [player EXCEPT ![p] = AtSeat(s, chips)]
         \/ /\ p \notin Seated' /\ Seated' = Seated /\ Waiting' = Waiting \cup {p}
            /\ players' = players
            /\ \E s : player' = [player EXCEPT ![p] = AtSeat(s, 0)]
  BY Sits
<1>2. player \in [Player -> PlayerState]
  BY PeopleNow DEF People, TypeOK
<1>3. /\ \A q \in Player \ {p} : player'[q] = player[q]
      /\ player'[p].bet = 0 /\ player'[p].hand = EmptyHand
  <2>1. PICK s, c : player' = [player EXCEPT ![p] = AtSeat(s, c)]
    BY <1>1
  <2>2. AtSeat(s, c).bet = 0 /\ AtSeat(s, c).hand = EmptyHand
    BY DEF AtSeat
  <2> QED
    BY <1>2, <2>1, <2>2
<1>4. Me \in Present' => Me \in Present
  BY <1>1 DEF Present
<1>5. "PlayerJoined" \in MoveKinds /\ "PlayerAddedToWaitingList" \in MoveKinds
  BY DEF MoveKinds
<1>6. CASE p \in Seated'
  <2>1. Moving(p, "PlayerJoined")
    BY <1>1, <1>3, <1>4, <1>6 DEF Moving
  <2>2. Heard(<<Of("PlayerJoined", p)>>)
    BY <1>5, <2>1, MovingHeard
  <2> QED
    BY <1>6, <2>2
<1>7. CASE p \notin Seated'
  <2>1. Moving(p, "PlayerAddedToWaitingList")
    BY <1>1, <1>3, <1>4, <1>7 DEF Moving
  <2>2. Heard(<<Of("PlayerAddedToWaitingList", p)>>)
    BY <1>5, <2>1, MovingHeard
  <2> QED
    BY <1>7, <2>2
<1> QED
  BY <1>6, <1>7

\* p is gone, and with it what it had on the table.
Leaving(p) ==
  /\ p \in Present
  /\ players' = RemoveFirst(players, p)
  /\ \A q \in Player \ {p} : player'[q] = player[q]
  /\ player'[p].bet = 0 /\ player'[p].hand = EmptyHand
  /\ dealerCards' = dealerCards
  /\ turn # p => UNCHANGED <<phase, turn>>
  /\ turn = p => phase' \in {"PlayerTurn", "DealerTurn"}
  /\ Me \in Present' => Me \in Present

\* The events of leaving keep an exact screen clean.
LEMMA LeftClean ==
  ASSUME IInv, IInv', Bare, NEW p \in Player, Leaving(p), NEW w, Exact(w)
  PROVE  \E x \in Discreet : Leads(w, Left(p), x, Discreet) /\ Clean(x)'
PROOF
<1>1. PICK kind \in MoveKinds : LeftIs(p, kind)
  BY LeftEvents DEF Leaving
<1>2. /\ players \in Seq(Player) /\ phase \in Phase
      /\ turn # Nobody => turn \in Seated
      /\ phase = "PlayerTurn" <=> turn # Nobody
  BY PeopleNow DEF People, TypeOK
<1>3. kind # "PlayerJoined" /\ (kind = "PlayerLeft" <=> p \in Seated)
  BY <1>1 DEF LeftIs
<1>4. CASE turn # p
  <2>1. p \notin Seated => players' = players
    BY <1>2, RemoveFirstAbsent DEF Leaving, Seated
  <2>2. Moving(p, kind)
    BY <1>3, <1>4, <2>1 DEF Moving, Leaving
  <2>3. Left(p) = <<Of(kind, p)>>
    BY <1>1, <1>4 DEF LeftIs
  <2>4. PICK x : x = ApplyEvent(w, Of(kind, p))
    OBVIOUS
  <2> QED
    BY <2>2, <2>3, <2>4, MovingClean
<1>5. CASE turn = p
  <2>1. p \in Seated /\ kind = "PlayerLeft" /\ phase = "PlayerTurn"
    BY <1>2, <1>3, <1>5
  <2>2. /\ w \in Discreet /\ w \in Shown /\ PhaseRight(w.screen) /\ NoPeek(w.screen)
        /\ w.screen.players = players /\ DealerRight(w.screen)
        /\ \A q \in Player : RowRight(w.screen.row[q], q)
    BY DEF Exact, Discreet, Clean, Right
  <2>3. PICK v : v = ApplyEvent(w, Of(kind, p))
    OBVIOUS
  <2>4. /\ v \in Discreet /\ v \in Shown
        /\ v.screen.players = RemoveFirst(w.screen.players, p)
        /\ v.screen.row[p] = EmptyRow
        /\ \A q \in Player \ {p} : v.screen.row[q] = w.screen.row[q]
    BY <1>2, <2>1, <2>2, <2>3, MoveRows DEF Discreet
  <2>5. v.screen.dealer = w.screen.dealer
    BY <1>2, <2>2, <2>3, MoveSets
  <2>6. PICK x : x = ApplyEvent(v, PhaseChanged) /\ Passes(v, x)
    BY <2>4 DEF Passes
  <2>7. /\ x \in Shown /\ SamePlaces(v.screen, x.screen) /\ PhaseRight(x.screen)'
        /\ x.screen.dealer = v.screen.dealer
        /\ \A q \in Player : x.screen.row[q] = v.screen.row[q]
    BY <1>5, <2>6, PhaseOn DEF Leaving
  <2>8. x \in Discreet
    <3>1. w.screen.phase = "PlayerTurn"
      BY <2>1, <2>2 DEF PhaseRight, GamePhaseOf
    <3> QED
      BY <2>2, <2>5, <2>7, <3>1 DEF Discreet, NoPeek
  <2>9. Leads(w, Left(p), x, Discreet)
    <3> DEFINE a == <<Of(kind, p)>>
               b == <<PhaseChanged>>
    <3>1. Of(kind, p) \in Payload /\ PhaseChanged \in Payload
      BY <1>2, EventTypes, PhaseChangedType DEF Of
    <3>2. Leads(w, a, v, Discreet) /\ Leads(v, b, x, Discreet)
      BY <2>2, <2>3, <2>4, <2>6, <2>8, <3>1, LeadsEvent
    <3>3. a \in Seq(Payload) /\ b \in Seq(Payload) /\ Left(p) = Then(a, b)
      BY <1>1, <1>5, <3>1 DEF LeftIs
    <3> HIDE DEF a, b
    <3> QED
      BY <3>2, <3>3, LeadsThen
  <2>10. Clean(x)'
    <3>1. x.screen.players = players'
      BY <2>2, <2>4, <2>7 DEF SamePlaces, Leaving
    <3>2. DealerRight(x.screen)'
      <4>1. x.screen.dealer = w.screen.dealer
        BY <2>5, <2>7
      <4> QED
        BY <1>5, <2>1, <2>2, <4>1, DealerKept DEF Leaving
    <3>3. ASSUME NEW q \in Player PROVE RowRight(x.screen.row[q], q)'
      <4>1. CASE q # p
        <5>1. x.screen.row[q] = w.screen.row[q] /\ player'[q] = player[q]
          BY <2>4, <2>7, <4>1 DEF Leaving
        <5>2. RowRight(w.screen.row[q], q) /\ phase # "Finished" /\ phase' # "Finished"
          BY <1>5, <2>1, <2>2 DEF Leaving
        <5> QED
          BY <5>1, <5>2, RowKept
      <4>2. CASE q = p
        <5>1. x.screen.row[p] = EmptyRow /\ player'[p].bet = 0 /\ player'[p].hand = EmptyHand
          BY <2>4, <2>7 DEF Leaving
        <5>2. RowRight(EmptyRow, p)'
          BY <5>1 DEF RowRight, EmptyRow, IsBust, EmptyHand
        <5> QED
          BY <4>2, <5>1, <5>2
      <4> QED
        BY <4>1, <4>2
    <3>4. phase' # "WaitingForBets"
      BY <1>5 DEF Leaving
    <3> QED
      BY <3>1, <3>2, <3>3, <3>4 DEF Clean
  <2> QED
    BY <2>8, <2>9, <2>10
<1> QED
  BY <1>4, <1>5

\* LeaveTable is a way of leaving.
LEMMA LeavingTable ==
  ASSUME IInv, Bare, NEW p \in Player, LeaveTable(p), dealerCards' = dealerCards
  PROVE  Leaving(p)
PROOF
<1>1. /\ p \in Present
      /\ Seated' = Seated \ {p} /\ Waiting' = Waiting \ {p} /\ observers' = observers \ {p}
      /\ turn # p => UNCHANGED <<phase, turn>>
  BY Leaves
<1>2. players \in Seq(Player) /\ player \in [Player -> PlayerState] /\ Seated \cap observers = {}
      /\ (turn # Nobody => turn \in Seated)
  BY PeopleNow DEF People, TypeOK
<1>3. Me \in Present' => Me \in Present
  BY <1>1 DEF Present
<1>4. NoPlayer.bet = 0 /\ NoPlayer.hand = EmptyHand
  BY DEF NoPlayer, AtSeat
<1>5. CASE GiveUpSeat(p) \/ LeaveQueue(p)
  <2>1. /\ players' = RemoveFirst(players, p) /\ player' = [player EXCEPT ![p] = NoPlayer]
        /\ turn = p => phase' \in {"PlayerTurn", "DealerTurn"}
    BY <1>5, Departs
  <2> QED
    BY <1>1, <1>2, <1>3, <1>4, <2>1 DEF Leaving
<1>6. CASE ~(GiveUpSeat(p) \/ LeaveQueue(p))
  <2>1. p \in observers /\ players' = players /\ player' = player
    BY <1>6 DEF LeaveTable
  <2>2. p \notin Seated /\ turn # p
    BY <1>2, <2>1
  <2>3. players' = RemoveFirst(players, p)
    BY <1>2, <2>1, <2>2, RemoveFirstAbsent DEF Seated
  <2>4. player[p].bet = 0 /\ player[p].hand = EmptyHand
    BY <2>2, RowlessIsBare
  <2> QED
    BY <1>1, <1>3, <2>1, <2>2, <2>3, <2>4 DEF Leaving
<1> QED
  BY <1>5, <1>6

\* It is heard.
LEMMA LeaveHeard ==
  ASSUME IInv, IInv', Bare, NEW p \in Player, LeaveTable(p), dealerCards' = dealerCards
  PROVE  Heard(Left(p))
PROOF
<1>1. Leaving(p)
  BY LeavingTable
<1> QED
  BY <1>1, LeftClean DEF Heard

\* Nor does it touch the dealer's cards or the widget to bet with.
LEMMA MoveSilent ==
  ASSUME NEW u \in Discreet, NEW kind \in MoveKinds, NEW p \in Player, phase \in Phase,
         NEW x, x = ApplyEvent(u, Of(kind, p))
  PROVE  x.betting = u.betting /\ x.screen.dealer = u.screen.dealer
PROOF
<1>1. u \in Shown
  BY DEF Discreet
<1>2. /\ x.betting = u.betting
      /\ x.screen.dealer = u.screen.dealer
  BY <1>1, MoveSets
<1> QED
  BY <1>2

\* Somebody more who watches changes no row.
LEMMA WatchClean ==
  ASSUME phase \in Phase, NEW p \in Player, NEW v \in Discreet, Clean(v)',
         NEW kind \in MoveKinds,
         kind # "PlayerJoined", kind # "PlayerLeft",
         NEW x, x = ApplyEvent(v, Of(kind, p))
  PROVE  x \in Discreet /\ Clean(x)'
PROOF
<1>1. kind # "PlayerJoined" /\ kind # "PlayerLeft"
  OBVIOUS
<1>3. /\ x \in Discreet
      /\ x.screen.players =
           IF kind = "PlayerJoined"
           THEN IF p \in Range(v.screen.players) THEN v.screen.players
                ELSE Append(v.screen.players, p)
           ELSE IF kind = "PlayerLeft" THEN RemoveFirst(v.screen.players, p)
           ELSE v.screen.players
      /\ kind # "PlayerLeft" => \A q \in Player : x.screen.row[q] = v.screen.row[q]
  BY MoveRows
<1>4. x.betting = v.betting /\ x.screen.dealer = v.screen.dealer
  BY MoveSilent
<1>5. x.screen.players = v.screen.players /\ \A q \in Player : x.screen.row[q] = v.screen.row[q]
  BY <1>1, <1>3
<1> QED
  BY <1>3, <1>4, <1>5 DEF Clean, DealerRight

\* Leaving a seat is heard.
LEMMA UnseatHeard ==
  ASSUME IInv, IInv', Bare, NEW p \in Player, LeaveSeat(p), dealerCards' = dealerCards
  PROVE  Heard(Then(Left(p), <<Of("ObserverJoined", p)>>))
PROOF
<1>1. /\ p \in Present /\ p \notin observers
      /\ Seated' = Seated \ {p} /\ Waiting' = Waiting \ {p} /\ observers' = observers \cup {p}
      /\ turn # p => UNCHANGED <<phase, turn>>
  BY Unseats
<1>2. player \in [Player -> PlayerState] /\ phase \in Phase
  BY PeopleNow DEF People, TypeOK
<1>3. Leaving(p)
  <2>1. /\ players' = RemoveFirst(players, p) /\ player' = [player EXCEPT ![p] = NoPlayer]
        /\ turn = p => phase' \in {"PlayerTurn", "DealerTurn"}
    BY Departs DEF LeaveSeat
  <2>2. NoPlayer.bet = 0 /\ NoPlayer.hand = EmptyHand
    BY DEF NoPlayer, AtSeat
  <2>3. Me \in Present' => Me \in Present
    BY <1>1 DEF Present
  <2> QED
    BY <1>1, <1>2, <2>1, <2>2, <2>3 DEF Leaving
<1> SUFFICES ASSUME NEW w, Exact(w)
             PROVE  \E x : /\ Leads(w, Then(Left(p), <<Of("ObserverJoined", p)>>), x, Discreet)
                           /\ Clean(x)'
  BY DEF Heard
<1>4. PICK v \in Discreet : Leads(w, Left(p), v, Discreet) /\ Clean(v)'
  BY <1>3, LeftClean
<1>5. PICK x : x = ApplyEvent(v, Of("ObserverJoined", p))
  OBVIOUS
<1>6. x \in Discreet /\ Clean(x)'
  <2>1. PICK kind \in MoveKinds : kind = "ObserverJoined"
    BY DEF MoveKinds
  <2>2. x = ApplyEvent(v, Of(kind, p))
    BY <1>5, <2>1
  <2> QED
    BY <1>2, <1>4, <2>1, <2>2, WatchClean
<1> DEFINE e == Of("ObserverJoined", p)
<1>7. e \in Payload /\ <<e>> \in Seq(Payload) /\ Left(p) \in Seq(Payload)
  <2>1. e \in Payload
    BY <1>2, EventTypes DEF Of, MoveKinds
  <2> QED
    BY <1>1, <2>1, LeftEvents
<1>8. Leads(v, <<e>>, x, Discreet)
  BY <1>4, <1>5, <1>6, <1>7, LeadsEvent
<1> HIDE DEF e
<1>9. Leads(w, Then(Left(p), <<e>>), x, Discreet)
  BY <1>4, <1>7, <1>8, LeadsThen
<1> QED
  BY <1>6, <1>9 DEF e

\* The events about one player's row.
RowKinds == {"PlayerPlacedBet", "PlayerDoubledDown", "PlayerCardDealt", "PlayerBust"}

\* Nothing but a row is another one.
RowOnly(u, x, p) ==
  /\ x \in Discreet /\ x.betting = u.betting
  /\ x.screen.players = u.screen.players /\ x.screen.phase = u.screen.phase
  /\ x.screen.dealer = u.screen.dealer
  /\ \A q \in Player \ {p} : x.screen.row[q] = u.screen.row[q]

\* What an event about a row does to it.
LEMMA RowOn ==
  ASSUME NEW u \in Discreet, NEW p \in Player, p \in Range(u.screen.players),
         NEW e \in Payload, e.kind \in RowKinds, e.who = {p}, NEW x, x = ApplyEvent(u, e)
  PROVE  /\ RowOnly(u, x, p)
         /\ x.screen.row[p].hand = IF e.kind = "PlayerCardDealt"
                                   THEN AddCard(u.screen.row[p].hand, e.n)
                                   ELSE u.screen.row[p].hand
         /\ x.screen.row[p].bust <=> u.screen.row[p].bust \/ e.kind = "PlayerBust"
         /\ x.screen.row[p].bet = IF e.kind = "PlayerPlacedBet" THEN e.n
                                  ELSE IF e.kind = "PlayerDoubledDown"
                                  THEN u.screen.row[p].bet + e.n
                                  ELSE u.screen.row[p].bet
         /\ Leads(u, <<e>>, x, Discreet)
PROOF
<1>1. u \in Shown /\ e.kind \in CardKinds
  BY DEF Discreet, RowKinds, CardKinds
<1>2. x \in Shown /\ x.betting = u.betting /\ Marked(u.screen, e, x.screen)
      /\ Same(u.screen, x.screen)
  BY <1>1, CardOn
<1>3. x.screen.dealer = u.screen.dealer
  BY <1>2 DEF Marked, RowKinds
<1>4. x \in Discreet
  BY <1>2, <1>3 DEF Discreet, NoPeek, Same
<1>5. \A q \in Player \ {p} : x.screen.row[q] = u.screen.row[q]
  BY <1>2 DEF Marked
<1>6. u.screen.row[p] \in Row
  BY <1>1 DEF Shown, UiState, TableState
<1>7. x.screen.row[p] =
        IF e.kind = "PlayerPlacedBet" THEN [u.screen.row[p] EXCEPT !.bet = e.n]
        ELSE IF e.kind = "PlayerDoubledDown" THEN [u.screen.row[p] EXCEPT !.bet = @ + e.n]
        ELSE IF e.kind = "PlayerCardDealt" THEN [u.screen.row[p] EXCEPT !.hand = AddCard(@, e.n)]
        ELSE [u.screen.row[p] EXCEPT !.bust = TRUE]
  BY <1>2 DEF Marked, RowKinds
<1> DEFINE r == u.screen.row[p]
           n == x.screen.row[p]
<1>8. /\ n.hand = IF e.kind = "PlayerCardDealt" THEN AddCard(r.hand, e.n) ELSE r.hand
      /\ n.bust <=> r.bust \/ e.kind = "PlayerBust"
      /\ n.bet = IF e.kind = "PlayerPlacedBet" THEN e.n
                 ELSE IF e.kind = "PlayerDoubledDown" THEN r.bet + e.n
                 ELSE r.bet
  <2> HIDE DEF r, n
  <2>1. /\ r \in Row
        /\ n = IF e.kind = "PlayerPlacedBet" THEN [r EXCEPT !.bet = e.n]
               ELSE IF e.kind = "PlayerDoubledDown" THEN [r EXCEPT !.bet = @ + e.n]
               ELSE IF e.kind = "PlayerCardDealt" THEN [r EXCEPT !.hand = AddCard(@, e.n)]
               ELSE [r EXCEPT !.bust = TRUE]
    BY <1>6, <1>7 DEF r, n
  <2>2. CASE e.kind = "PlayerPlacedBet"
    BY <2>1, <2>2 DEF Row
  <2>3. CASE e.kind = "PlayerDoubledDown"
    BY <2>1, <2>3 DEF Row
  <2>4. CASE e.kind = "PlayerCardDealt"
    BY <2>1, <2>4 DEF Row
  <2>5. CASE e.kind = "PlayerBust"
    BY <2>1, <2>5 DEF Row
  <2> QED
    BY <2>2, <2>3, <2>4, <2>5 DEF RowKinds
<1>9. Leads(u, <<e>>, x, Discreet)
  BY <1>4, LeadsEvent
<1> HIDE DEF r, n
<1>10. RowOnly(u, x, p)
  BY <1>2, <1>3, <1>4, <1>5 DEF RowOnly, Same, SamePlaces
<1> QED
  BY <1>8, <1>9, <1>10 DEF r, n

\* What is said of a card that p drew.
Drawn(p, c) ==
  Then(<<Event("PlayerCardDealt", {p}, c)>>,
       IF IsBust(player'[p].hand) THEN <<Of("PlayerBust", p)>> ELSE <<>>)

\* These are cards.
LEMMA DrawnKinds ==
  ASSUME phase \in Phase, NEW p \in Player, NEW c \in Cards
  PROVE  Kinds(Drawn(p, c), CardKinds)
PROOF
<1> DEFINE e == Event("PlayerCardDealt", {p}, c)
           f == Of("PlayerBust", p)
           bust == IsBust(player'[p].hand)
           a == <<e>>
           b == IF bust THEN <<f>> ELSE <<>>
<1>1. /\ e \in Payload /\ e.kind = "PlayerCardDealt" /\ e.who = {p} /\ e.n = c
      /\ f \in Payload /\ f.kind = "PlayerBust" /\ f.who = {p}
  <2>1. c \in Pip /\ c \in Nat /\ {p} \in SUBSET Player /\ 0 \in Nat
    BY ShoeAssumption DEF Pip
  <2>2. e \in Payload /\ e.kind = "PlayerCardDealt" /\ e.who = {p} /\ e.n = c
    BY <2>1, EventTypes DEF CardKinds
  <2>3. f \in Payload /\ f.kind = "PlayerBust" /\ f.who = {p}
    BY <2>1, EventTypes DEF Of, Plain
  <2> QED
    BY <2>2, <2>3
<1>3. Drawn(p, c) = Then(a, b)
  BY DEF Drawn
<1>4. Kinds(a, CardKinds) /\ Kinds(b, CardKinds)
  <2>1. e.kind \in CardKinds /\ f.kind \in CardKinds
    BY <1>1 DEF CardKinds
  <2> HIDE DEF e, f, bust
  <2>2. Kinds(<<e>>, CardKinds) /\ Kinds(<<f>>, CardKinds) /\ Kinds(<<>>, CardKinds)
    BY <1>1, <2>1, KindsOne, KindsNone
  <2> QED
    BY <2>2
<1> HIDE DEF a, b
<1> QED
  BY <1>3, <1>4, KindsThen

\* They take a screen to what p has then.
LEMMA DrawLeads ==
  ASSUME phase \in Phase, NEW p \in Player, NEW c \in Cards,
         NEW u \in Discreet, p \in Range(u.screen.players), ~u.screen.row[p].bust
  PROVE  \E v \in Discreet :
           /\ Leads(u, Drawn(p, c), v, Discreet)
           /\ RowOnly(u, v, p)
           /\ v.screen.row[p].hand = AddCard(u.screen.row[p].hand, c)
           /\ v.screen.row[p].bust <=> IsBust(player'[p].hand)
           /\ v.screen.row[p].bet = u.screen.row[p].bet
PROOF
<1> DEFINE e == Event("PlayerCardDealt", {p}, c)
           f == Of("PlayerBust", p)
           bust == IsBust(player'[p].hand)
           a == <<e>>
           b == IF bust THEN <<f>> ELSE <<>>
<1>1. /\ e \in Payload /\ e.kind = "PlayerCardDealt" /\ e.who = {p} /\ e.n = c
      /\ f \in Payload /\ f.kind = "PlayerBust" /\ f.who = {p}
  <2>1. c \in Pip /\ c \in Nat /\ {p} \in SUBSET Player /\ 0 \in Nat
    BY ShoeAssumption DEF Pip
  <2>2. e \in Payload /\ e.kind = "PlayerCardDealt" /\ e.who = {p} /\ e.n = c
    BY <2>1, EventTypes DEF CardKinds
  <2>3. f \in Payload /\ f.kind = "PlayerBust" /\ f.who = {p}
    BY <2>1, EventTypes DEF Of, Plain
  <2> QED
    BY <2>2, <2>3
<1>2. a \in Seq(Payload) /\ <<f>> \in Seq(Payload) /\ <<>> \in Seq(Payload) /\ b \in Seq(Payload)
  BY <1>1
<1>3. Drawn(p, c) = Then(a, b)
  BY DEF Drawn
<1> HIDE DEF e, f, bust
<1>5. PICK x : x = ApplyEvent(u, e)
  OBVIOUS
<1>6. /\ RowOnly(u, x, p) /\ Leads(u, a, x, Discreet)
      /\ x.screen.row[p].hand = AddCard(u.screen.row[p].hand, c)
      /\ x.screen.row[p].bust <=> FALSE
      /\ x.screen.row[p].bet = u.screen.row[p].bet
  <2>1. e.kind \in RowKinds
    BY <1>1 DEF RowKinds
  <2>2. /\ RowOnly(u, x, p)
        /\ x.screen.row[p].hand = IF e.kind = "PlayerCardDealt"
                                  THEN AddCard(u.screen.row[p].hand, e.n)
                                  ELSE u.screen.row[p].hand
        /\ x.screen.row[p].bust <=> u.screen.row[p].bust \/ e.kind = "PlayerBust"
        /\ x.screen.row[p].bet = IF e.kind = "PlayerPlacedBet" THEN e.n
                                 ELSE IF e.kind = "PlayerDoubledDown"
                                 THEN u.screen.row[p].bet + e.n
                                 ELSE u.screen.row[p].bet
        /\ Leads(u, <<e>>, x, Discreet)
    BY <1>1, <1>5, <2>1, RowOn
  <2> QED
    BY <1>1, <2>2
<1>7. PICK v \in Discreet :
        /\ Leads(x, b, v, Discreet) /\ RowOnly(u, v, p)
        /\ v.screen.row[p].hand = AddCard(u.screen.row[p].hand, c)
        /\ v.screen.row[p].bust <=> bust
        /\ v.screen.row[p].bet = u.screen.row[p].bet
  <2>1. CASE bust
    <3>1. PICK y : y = ApplyEvent(x, f)
      OBVIOUS
    <3>2. x \in Discreet /\ p \in Range(x.screen.players) /\ f.kind \in RowKinds
      BY <1>1, <1>6 DEF RowOnly, RowKinds
    <3>3. /\ RowOnly(x, y, p)
          /\ y.screen.row[p].hand = IF f.kind = "PlayerCardDealt"
                                    THEN AddCard(x.screen.row[p].hand, f.n)
                                    ELSE x.screen.row[p].hand
          /\ y.screen.row[p].bust <=> x.screen.row[p].bust \/ f.kind = "PlayerBust"
          /\ y.screen.row[p].bet = IF f.kind = "PlayerPlacedBet" THEN f.n
                                   ELSE IF f.kind = "PlayerDoubledDown"
                                   THEN x.screen.row[p].bet + f.n
                                   ELSE x.screen.row[p].bet
          /\ Leads(x, <<f>>, y, Discreet)
      BY <1>1, <3>1, <3>2, RowOn
    <3>4. RowOnly(u, y, p) /\ y \in Discreet
      BY <1>6, <3>3 DEF RowOnly
    <3>5. b = <<f>>
      BY <2>1
    <3> HIDE DEF b
    <3> QED
      BY <1>1, <1>6, <2>1, <3>3, <3>4, <3>5
  <2>2. CASE ~bust
    <3>1. x \in Discreet
      BY <1>6 DEF RowOnly
    <3>2. Leads(x, <<>>, x, Discreet)
      BY <3>1, LeadsEmpty
    <3>3. b = <<>>
      BY <2>2
    <3> HIDE DEF b
    <3> QED
      BY <1>6, <2>2, <3>1, <3>2, <3>3
  <2> QED
    BY <2>1, <2>2
<1> HIDE DEF a, b
<1>8. Leads(u, Then(a, b), v, Discreet)
  BY <1>2, <1>6, <1>7, LeadsThen
<1> QED
  BY <1>3, <1>7, <1>8 DEF bust

\* The events of a step, which the screen may have to hear once or may hear again.
Announced == \E es : Emit(es) /\ Told(es) /\ Heard(es)

\* Who is on turn has cards and a stake.
LEMMA OnTurn ==
  ASSUME IInv, NEW p \in Player, turn = p
  PROVE  /\ p \in Seated /\ phase = "PlayerTurn" /\ phase \in Phase
         /\ ~IsBust(player[p].hand) /\ player \in [Player -> PlayerState]
         /\ player[p].bet \in Nat
PROOF
<1>1. TurnIsPlayable
  BY DEF IInv
<1>2. StillToPlay(p) /\ p \in Seated /\ phase = "PlayerTurn"
  BY <1>1 DEF TurnIsPlayable
<1>3. ~IsBust(player[p].hand)
  BY <1>2 DEF StillToPlay, PlayerFinished
<1> QED
  BY <1>2, <1>3, PeopleNow DEF People, TypeOK

\* A screen's row that has what the step gives p, and the others.
LEMMA StrokeRows ==
  ASSUME NEW p \in Player, NEW w, Clean(w), NEW v,
         \A q \in Player \ {p} : v.screen.row[q] = w.screen.row[q] /\ player'[q] = player[q],
         phase # "Finished", phase' # "Finished",
         v.screen.row[p].hand = player'[p].hand,
         v.screen.row[p].bust <=> IsBust(player'[p].hand),
         v.screen.row[p].bet = player'[p].bet
  PROVE  \A q \in Player : RowRight(v.screen.row[q], q)'
PROOF
<1> SUFFICES ASSUME NEW q \in Player PROVE RowRight(v.screen.row[q], q)'
  OBVIOUS
<1>1. CASE q # p
  <2>1. RowRight(w.screen.row[q], q) /\ v.screen.row[q] = w.screen.row[q] /\ player'[q] = player[q]
    BY <1>1 DEF Clean
  <2> QED
    BY <2>1, RowKept
<1>2. CASE q = p
  BY <1>2 DEF RowRight
<1> QED
  BY <1>1, <1>2

\* After the card the turn may pass on.
LEMMA HandedOnClean ==
  ASSUME IInv, IInv', NEW p \in Player, turn = p, phase' \in {"PlayerTurn", "DealerTurn"},
         UNCHANGED <<players, dealerCards>>, NEW c \in Seq(Payload),
         NEW w, Exact(w), NEW v \in Discreet, Leads(w, c, v, Discreet),
         v.screen.players = w.screen.players, v.screen.phase = w.screen.phase,
         v.screen.dealer = w.screen.dealer,
         \A q \in Player : RowRight(v.screen.row[q], q)'
  PROVE  \E x : Leads(w, Then(c, HandedOn(p)), x, Discreet) /\ Clean(x)'
PROOF
<1>1. w.screen.players = players /\ DealerRight(w.screen) /\ PhaseRight(w.screen)
  BY DEF Exact, Clean, Right
<1>2. phase = "PlayerTurn" /\ w.screen.phase = "PlayerTurn"
  BY <1>1, OnTurn DEF PhaseRight, GamePhaseOf
<1>3. ASSUME NEW x, x.screen.players = v.screen.players, x.screen.dealer = v.screen.dealer,
             \A q \in Player : x.screen.row[q] = v.screen.row[q]
      PROVE  Clean(x)'
  <2>1. DealerRight(x.screen)'
    <3>1. x.screen.dealer = w.screen.dealer
      BY <1>3
    <3> QED
      BY <1>1, <3>1, DealerKept
  <2>2. x.screen.players = players'
    BY <1>1, <1>3
  <2>3. \A q \in Player : RowRight(x.screen.row[q], q)'
    BY <1>3
  <2> QED
    BY <2>1, <2>2, <2>3 DEF Clean
<1>4. CASE turn' = p
  <2>1. Then(c, HandedOn(p)) = c
    <3>1. HandedOn(p) = <<>>
      BY <1>4 DEF HandedOn
    <3> QED
      BY <3>1, Concats DEF Then
  <2>2. Clean(v)'
    BY <1>3
  <2> QED
    BY <2>1, <2>2
<1>5. CASE turn' # p
  <2>1. PICK x : x = ApplyEvent(v, PhaseChanged) /\ Passes(v, x)
    BY DEF Passes, Discreet
  <2>2. /\ x \in Shown /\ SamePlaces(v.screen, x.screen)
        /\ x.screen.dealer = v.screen.dealer
        /\ \A q \in Player : x.screen.row[q] = v.screen.row[q]
    <3>1. phase' # "WaitingForBets"
      OBVIOUS
    <3> QED
      BY <2>1, <3>1, PhaseOn
  <2>3. x \in Discreet
    BY <1>2, <2>2 DEF Discreet, NoPeek
  <2>4. PhaseChanged \in Payload /\ <<PhaseChanged>> \in Seq(Payload)
    <3>1. PhaseChanged \in Payload
      BY PhaseChangedType
    <3> QED
      BY <3>1
  <2>5. Leads(v, <<PhaseChanged>>, x, Discreet)
    BY <2>1, <2>3, <2>4, LeadsEvent
  <2>6. Leads(w, Then(c, HandedOn(p)), x, Discreet)
    <3>1. HandedOn(p) = <<PhaseChanged>>
      BY <1>5 DEF HandedOn
    <3>2. Leads(w, Then(c, <<PhaseChanged>>), x, Discreet)
      BY <2>4, <2>5, LeadsThen
    <3> QED
      BY <3>1, <3>2
  <2>7. Clean(x)'
    BY <1>3, <2>2 DEF SamePlaces
  <2> QED
    BY <2>6, <2>7
<1> QED
  BY <1>4, <1>5

\* A bet is announced.
LEMMA BettingAnnounced ==
  ASSUME IInv, IInv', NEW p \in Player, Betting(p), UNCHANGED <<dealerCards, forgotten>>
  PROVE  Announced
PROOF
<1>1. PICK amount \in MinBet..MaxBet :
        PlaceBet(p, amount) /\ Emit(<<Event("PlayerPlacedBet", {p}, amount)>>)
  BY DEF Betting
<1> DEFINE e == Event("PlayerPlacedBet", {p}, amount)
<1>2. amount \in Nat /\ phase \in Phase /\ player \in [Player -> PlayerState]
  BY SettingsAssumption, PeopleNow DEF People, TypeOK
<1>3. e \in Payload /\ e.kind = "PlayerPlacedBet" /\ e.who = {p} /\ e.n = amount
  BY <1>2, EventTypes DEF Plain
<1>4. /\ p \in Seated /\ phase = "WaitingForBets"
      /\ UNCHANGED <<phase, turn, players, waiting, observers>>
      /\ \A q \in Player \ {p} : player'[q] = player[q]
      /\ player'[p].hand = player[p].hand /\ player'[p].bet = amount
  <2>1. /\ p \in Seated /\ phase = "WaitingForBets"
        /\ UNCHANGED <<phase, turn, players, waiting, observers>>
        /\ player' = [player EXCEPT ![p].balance = @ - amount, ![p].bet = amount]
    BY <1>1 DEF PlaceBet, SaturatingSub
  <2>2. player[p] \in PlayerState
    BY <1>2
  <2> QED
    BY <1>2, <2>1, <2>2 DEF PlayerState
<1> HIDE DEF e
<1>5. Told(<<e>>)
  <2>1. e.kind \in CardKinds
    BY <1>3 DEF CardKinds
  <2>2. Kinds(<<e>>, CardKinds)
    BY <1>3, <2>1, KindsOne
  <2> QED
    BY <1>4, <2>2, QuietTold DEF PlacesKept
<1>6. Heard(<<e>>)
  <2> SUFFICES ASSUME NEW w, Exact(w)
               PROVE  \E x : Leads(w, <<e>>, x, Discreet) /\ Clean(x)'
    BY DEF Heard
  <2>1. /\ w \in Discreet /\ Clean(w) /\ w.screen.players = players /\ DealerRight(w.screen)
        /\ RowRight(w.screen.row[p], p)
        /\ (phase = "WaitingForBets" /\ Me \in Present => w.betting)
    BY DEF Exact, Clean
  <2>2. PICK x : x = ApplyEvent(w, e)
    OBVIOUS
  <2>3. /\ RowOnly(w, x, p) /\ Leads(w, <<e>>, x, Discreet)
        /\ x.screen.row[p].hand = w.screen.row[p].hand
        /\ x.screen.row[p].bust <=> w.screen.row[p].bust
        /\ x.screen.row[p].bet = amount
    <3>1. p \in Range(w.screen.players) /\ e.kind \in RowKinds
      BY <1>3, <1>4, <2>1 DEF Seated, RowKinds
    <3>2. /\ RowOnly(w, x, p)
          /\ x.screen.row[p].hand = IF e.kind = "PlayerCardDealt"
                                    THEN AddCard(w.screen.row[p].hand, e.n)
                                    ELSE w.screen.row[p].hand
          /\ x.screen.row[p].bust <=> w.screen.row[p].bust \/ e.kind = "PlayerBust"
          /\ x.screen.row[p].bet = IF e.kind = "PlayerPlacedBet" THEN e.n
                                   ELSE IF e.kind = "PlayerDoubledDown"
                                   THEN w.screen.row[p].bet + e.n
                                   ELSE w.screen.row[p].bet
          /\ Leads(w, <<e>>, x, Discreet)
      BY <1>3, <2>1, <2>2, <3>1, RowOn
    <3> QED
      BY <1>3, <3>2
  <2>4. \A q \in Player : RowRight(x.screen.row[q], q)'
    <3>1. \A q \in Player \ {p} : x.screen.row[q] = w.screen.row[q] /\ player'[q] = player[q]
      BY <1>4, <2>3 DEF RowOnly
    <3>2. /\ x.screen.row[p].hand = player'[p].hand
          /\ x.screen.row[p].bust <=> IsBust(player'[p].hand)
          /\ x.screen.row[p].bet = player'[p].bet
      BY <1>4, <2>1, <2>3 DEF RowRight
    <3> QED
      BY <1>4, <2>1, <3>1, <3>2, StrokeRows
  <2>5. DealerRight(x.screen)'
    BY <1>4, <2>1, <2>3, DealerKept DEF RowOnly
  <2>6. Clean(x)'
    BY <1>4, <2>1, <2>3, <2>4, <2>5 DEF Clean, RowOnly, Present, Seated, Waiting
  <2> QED
    BY <2>3, <2>6
<1> QED
  BY <1>1, <1>5, <1>6 DEF Announced, e

\* Standing is announced.
LEMMA StandingAnnounced ==
  ASSUME IInv, IInv', NEW p \in Player, Standing(p), UNCHANGED <<dealerCards, forgotten>>
  PROVE  Announced
PROOF
<1>1. Stand(p) /\ Emit(HandedOn(p))
  BY DEF Standing
<1>2. turn = p
  BY <1>1 DEF Stand
<1>3. p \in Seated /\ phase = "PlayerTurn" /\ player \in [Player -> PlayerState]
  BY <1>2, OnTurn
<1>4. /\ UNCHANGED <<players, waiting, observers>> /\ phase' \in {"PlayerTurn", "DealerTurn"}
      /\ \A q \in Player \ {p} : player'[q] = player[q]
      /\ player'[p].hand = player[p].hand /\ player'[p].bet = player[p].bet
  <2>1. /\ UNCHANGED <<players, waiting, observers>> /\ phase' \in {"PlayerTurn", "DealerTurn"}
        /\ player' = [player EXCEPT ![p].decision = "Stand"]
    BY <1>1 DEF Stand, PassTurnTo
  <2>2. player[p] \in PlayerState
    BY <1>3
  <2> QED
    BY <1>3, <2>1, <2>2 DEF PlayerState
<1>5. Kinds(<<>>, CardKinds) /\ <<>> \in Seq(Payload)
  BY KindsNone
<1>6. Told(Then(<<>>, HandedOn(p)))
  BY <1>2, <1>4, <1>5, HandedOnTold DEF PlacesKept
<1>7. Heard(Then(<<>>, HandedOn(p)))
  <2> SUFFICES ASSUME NEW w, Exact(w)
               PROVE  \E x : Leads(w, Then(<<>>, HandedOn(p)), x, Discreet) /\ Clean(x)'
    BY DEF Heard
  <2>1. w \in Discreet /\ Clean(w) /\ RowRight(w.screen.row[p], p)
    BY DEF Exact, Clean
  <2>2. Leads(w, <<>>, w, Discreet)
    BY <2>1, LeadsEmpty
  <2>3. \A q \in Player : RowRight(w.screen.row[q], q)'
    <3>1. /\ w.screen.row[p].hand = player'[p].hand
          /\ w.screen.row[p].bust <=> IsBust(player'[p].hand)
          /\ w.screen.row[p].bet = player'[p].bet
      BY <1>3, <1>4, <2>1 DEF RowRight
    <3>2. phase # "Finished" /\ phase' # "Finished"
      BY <1>3, <1>4
    <3> QED
      BY <1>4, <2>1, <3>1, <3>2, StrokeRows
  <2> QED
    BY <1>2, <1>4, <1>5, <2>1, <2>2, <2>3, HandedOnClean
<1>8. Then(<<>>, HandedOn(p)) = HandedOn(p)
  <2>1. HandedOn(p) \in Seq(Payload)
    <3>1. PhaseChanged \in Payload
      BY PhaseChangedType
    <3>2. <<PhaseChanged>> \in Seq(Payload) /\ <<>> \in Seq(Payload)
      BY <3>1
    <3> QED
      BY <3>2 DEF HandedOn
  <2> QED
    BY <2>1, Concats DEF Then
<1>9. Told(HandedOn(p)) /\ Heard(HandedOn(p))
  BY <1>6, <1>7, <1>8
<1> QED
  BY <1>1, <1>9 DEF Announced

\* What p draws and, it may be, adds to the stake first, is heard.
LEMMA DrawHeard ==
  ASSUME IInv, IInv', NEW p \in Player, turn = p, NEW c \in Cards,
         phase' \in {"PlayerTurn", "DealerTurn"},
         UNCHANGED <<players, waiting, observers, dealerCards, forgotten>>,
         \A q \in Player \ {p} : player'[q] = player[q],
         player'[p].hand = AddCard(player[p].hand, c),
         NEW a, Kinds(a, CardKinds),
         \A w : Exact(w) =>
           \E u \in Discreet :
             /\ Leads(w, a, u, Discreet) /\ RowOnly(w, u, p)
             /\ u.screen.row[p].hand = w.screen.row[p].hand
             /\ u.screen.row[p].bust <=> w.screen.row[p].bust
             /\ u.screen.row[p].bet = player'[p].bet
  PROVE  /\ Told(Then(Then(a, Drawn(p, c)), HandedOn(p)))
         /\ Heard(Then(Then(a, Drawn(p, c)), HandedOn(p)))
PROOF
<1>1. p \in Seated /\ phase = "PlayerTurn" /\ phase \in Phase /\ ~IsBust(player[p].hand)
  BY OnTurn
<1> DEFINE d == Drawn(p, c)
<1>2. ASSUME NEW u \in Discreet, p \in Range(u.screen.players), ~u.screen.row[p].bust
      PROVE  \E v \in Discreet :
                  /\ Leads(u, d, v, Discreet)
                  /\ RowOnly(u, v, p)
                  /\ v.screen.row[p].hand = AddCard(u.screen.row[p].hand, c)
                  /\ v.screen.row[p].bust <=> IsBust(player'[p].hand)
                  /\ v.screen.row[p].bet = u.screen.row[p].bet
  BY <1>1, <1>2, DrawLeads
<1>3. Kinds(d, CardKinds)
  BY <1>1, DrawnKinds
<1> HIDE DEF d
<1>4. Kinds(Then(a, d), CardKinds) /\ a \in Seq(Payload) /\ d \in Seq(Payload)
      /\ Then(a, d) \in Seq(Payload)
  BY <1>3, KindsThen DEF Kinds
<1>5. Told(Then(Then(a, d), HandedOn(p)))
  BY <1>4, HandedOnTold DEF PlacesKept
<1>6. Heard(Then(Then(a, d), HandedOn(p)))
  <2> SUFFICES ASSUME NEW w, Exact(w)
               PROVE  \E x : Leads(w, Then(Then(a, d), HandedOn(p)), x, Discreet) /\ Clean(x)'
    BY DEF Heard
  <2>1. /\ w \in Discreet /\ Clean(w) /\ RowRight(w.screen.row[p], p)
        /\ w.screen.players = players
    BY DEF Exact, Clean
  <2>2. PICK u \in Discreet :
             /\ Leads(w, a, u, Discreet) /\ RowOnly(w, u, p)
             /\ u.screen.row[p].hand = w.screen.row[p].hand
             /\ u.screen.row[p].bust <=> w.screen.row[p].bust
             /\ u.screen.row[p].bet = player'[p].bet
    OBVIOUS
  <2>3. p \in Range(u.screen.players) /\ ~u.screen.row[p].bust
        /\ u.screen.row[p].hand = player[p].hand
    BY <1>1, <2>1, <2>2 DEF RowOnly, RowRight, Seated
  <2>4. PICK v \in Discreet :
                  /\ Leads(u, d, v, Discreet)
                  /\ RowOnly(u, v, p)
                  /\ v.screen.row[p].hand = AddCard(u.screen.row[p].hand, c)
                  /\ v.screen.row[p].bust <=> IsBust(player'[p].hand)
                  /\ v.screen.row[p].bet = u.screen.row[p].bet
    BY <1>2, <2>3
  <2>5. Leads(w, Then(a, d), v, Discreet)
    BY <1>4, <2>2, <2>4, LeadsThen
  <2>6. RowOnly(w, v, p)
    BY <2>2, <2>4 DEF RowOnly
  <2>7. \A q \in Player : RowRight(v.screen.row[q], q)'
    <3>1. /\ v.screen.row[p].hand = player'[p].hand
          /\ v.screen.row[p].bust <=> IsBust(player'[p].hand)
          /\ v.screen.row[p].bet = player'[p].bet
      BY <2>2, <2>3, <2>4
    <3>2. phase # "Finished" /\ phase' # "Finished"
      BY <1>1
    <3>3. \A q \in Player \ {p} : v.screen.row[q] = w.screen.row[q] /\ player'[q] = player[q]
      BY <2>6 DEF RowOnly
    <3> QED
      BY <2>1, <3>1, <3>2, <3>3, StrokeRows
  <2>8. /\ v.screen.players = w.screen.players /\ v.screen.phase = w.screen.phase
        /\ v.screen.dealer = w.screen.dealer
    BY <2>6 DEF RowOnly
  <2> QED
    BY <1>4, <2>5, <2>7, <2>8, HandedOnClean
<1> QED
  BY <1>5, <1>6 DEF d

\* Two elements one after the other.
LEMMA PairIs ==
  ASSUME NEW S, NEW e \in S, NEW f \in S
  PROVE  <<e, f>> = <<e>> \o <<f>>
PROOF
<1> DEFINE x == <<e>>
           y == <<f>>
           z == <<e, f>>
           w == Then(x, y)
<1>1. x \in Seq(S) /\ Len(x) = 1 /\ x[1] = e /\ y \in Seq(S) /\ Len(y) = 1 /\ y[1] = f
  OBVIOUS
<1>2. z \in Seq(S) /\ Len(z) = 2 /\ z[1] = e /\ z[2] = f
  OBVIOUS
<1> HIDE DEF x, y, z
<1>3. /\ w \in Seq(S) /\ Len(w) = Len(x) + Len(y)
      /\ \A i \in 1..(Len(x) + Len(y)) : w[i] = IF i <= Len(x) THEN x[i] ELSE y[i - Len(x)]
  BY ONLY <1>1, ConcatProperties, Zenon DEF Then
<1> HIDE DEF w
<1>4. Len(w) = 2 /\ w[1] = e /\ w[2] = f
  BY <1>1, <1>3
<1>5. \A i \in 1..Len(w) : w[i] = z[i]
  BY <1>2, <1>4
<1>6. w = z
  BY <1>2, <1>3, <1>4, <1>5, SeqEqual
<1> QED
  BY <1>6 DEF w, x, y, z, Then

\* So is a hit, with the card and, it may be, the bust and the next turn.
LEMMA HittingAnnounced ==
  ASSUME IInv, IInv', NEW p \in Player, Hitting(p), UNCHANGED <<dealerCards, forgotten>>
  PROVE  Announced
PROOF
<1>1. PICK c \in Cards :
        Hit(p, c) /\ Emit(<<Event("PlayerCardDealt", {p}, c)>>
              \o (IF IsBust(player'[p].hand) THEN <<Of("PlayerBust", p)>> ELSE <<>>)
              \o HandedOn(p))
  BY DEF Hitting
<1>2. Emit(Then(Drawn(p, c), HandedOn(p)))
  BY <1>1 DEF Then, Drawn
<1>3. turn = p
  BY <1>1 DEF Hit
<1>4. phase = "PlayerTurn" /\ player \in [Player -> PlayerState] /\ phase \in Phase
  BY <1>3, OnTurn
<1>5. /\ UNCHANGED <<players, waiting, observers>> /\ phase' \in {"PlayerTurn", "DealerTurn"}
      /\ \A q \in Player \ {p} : player'[q] = player[q]
      /\ player'[p].hand = AddCard(player[p].hand, c) /\ player'[p].bet = player[p].bet
  <2>1. UNCHANGED <<players, waiting, observers>>
    BY <1>1 DEF Hit
  <2>2. phase' \in {"PlayerTurn", "DealerTurn"}
    BY <1>1, <1>4 DEF Hit, PassTurnTo
  <2> DEFINE new == AddCard(player[p].hand, c)
  <2>3. \/ player' = [player EXCEPT ![p].hand = new]
        \/ player' = [player EXCEPT ![p].hand = new, ![p].decision = "Stand"]
    BY <1>1, Zenon DEF Hit
  <2> HIDE DEF new
  <2>4. player[p] \in PlayerState
    BY <1>4
  <2>5. /\ \A q \in Player \ {p} : player'[q] = player[q]
        /\ player'[p].hand = new /\ player'[p].bet = player[p].bet
    BY <1>4, <2>3, <2>4 DEF PlayerState
  <2> QED
    BY <2>1, <2>2, <2>5 DEF new
<1>6. Kinds(<<>>, CardKinds)
  BY KindsNone
<1>7. ASSUME NEW w, Exact(w)
      PROVE  \E u \in Discreet :
             /\ Leads(w, <<>>, u, Discreet) /\ RowOnly(w, u, p)
             /\ u.screen.row[p].hand = w.screen.row[p].hand
             /\ u.screen.row[p].bust <=> w.screen.row[p].bust
             /\ u.screen.row[p].bet = player'[p].bet
  <2>1. w \in Discreet /\ RowRight(w.screen.row[p], p)
    BY <1>7 DEF Exact, Clean
  <2>2. w.screen.row[p].bet = player'[p].bet
    BY <1>4, <1>5, <2>1 DEF RowRight
  <2>3. Leads(w, <<>>, w, Discreet)
    BY <2>1, LeadsEmpty
  <2>4. RowOnly(w, w, p)
    BY <2>1 DEF RowOnly
  <2> QED
    BY <2>1, <2>2, <2>3, <2>4
<1>8. /\ Told(Then(Then(<<>>, Drawn(p, c)), HandedOn(p)))
      /\ Heard(Then(Then(<<>>, Drawn(p, c)), HandedOn(p)))
  BY <1>3, <1>5, <1>6, <1>7, DrawHeard
<1>9. Then(<<>>, Drawn(p, c)) = Drawn(p, c)
  <2>1. Drawn(p, c) \in Seq(Payload)
    BY <1>4, DrawnKinds DEF Kinds
  <2> QED
    BY <2>1, Concats DEF Then
<1> QED
  BY <1>2, <1>8, <1>9 DEF Announced

\* So is doubling down, which adds to the stake first.
LEMMA DoublingAnnounced ==
  ASSUME IInv, IInv', NEW p \in Player, Doubling(p), UNCHANGED <<dealerCards, forgotten>>
  PROVE  Announced
PROOF
<1>1. PICK c \in Cards :
        DoubleDown(p, c)
        /\ Emit(<<Event("PlayerDoubledDown", {p}, player[p].bet), Event("PlayerCardDealt", {p}, c)>>
              \o (IF IsBust(player'[p].hand) THEN <<Of("PlayerBust", p)>> ELSE <<>>)
              \o HandedOn(p))
  BY DEF Doubling
<1>3. turn = p
  BY <1>1 DEF DoubleDown, SaturatingSub
<1>4. phase = "PlayerTurn" /\ player \in [Player -> PlayerState] /\ phase \in Phase
      /\ player[p].bet \in Nat /\ p \in Seated
  BY <1>3, OnTurn
<1>5. /\ UNCHANGED <<players, waiting, observers>> /\ phase' \in {"PlayerTurn", "DealerTurn"}
      /\ \A q \in Player \ {p} : player'[q] = player[q]
      /\ player'[p].hand = AddCard(player[p].hand, c)
      /\ player'[p].bet = player[p].bet + player[p].bet
  <2> DEFINE stake == player[p].bet
  <2>1. /\ UNCHANGED <<players, waiting, observers>> /\ phase' \in {"PlayerTurn", "DealerTurn"}
        /\ player' = [player EXCEPT ![p].balance = @ - stake,
                              ![p].bet = @ + stake,
                              ![p].hand = AddCard(@, c),
                              ![p].decision = "Double"]
    BY <1>1 DEF DoubleDown, SaturatingSub, PassTurnTo
  <2>2. player[p] \in PlayerState
    BY <1>4
  <2> QED
    BY <1>4, <2>1, <2>2 DEF PlayerState
<1> DEFINE e == Event("PlayerDoubledDown", {p}, player[p].bet)
           f == Event("PlayerCardDealt", {p}, c)
           b == IF IsBust(player'[p].hand) THEN <<Of("PlayerBust", p)>> ELSE <<>>
           x == <<e>>
           y == <<f>>
           h == HandedOn(p)
<1>6. /\ e \in Payload /\ e.kind = "PlayerDoubledDown" /\ e.who = {p} /\ e.n = player[p].bet
      /\ f \in Payload /\ Of("PlayerBust", p) \in Payload
  <2>1. c \in Pip /\ c \in Nat /\ {p} \in SUBSET Player /\ 0 \in Nat
    BY ShoeAssumption DEF Pip
  <2>2. e \in Payload /\ e.kind = "PlayerDoubledDown" /\ e.who = {p} /\ e.n = player[p].bet
    BY <1>4, <2>1, EventTypes DEF Plain
  <2>3. f \in Payload
    BY <1>4, <2>1, EventTypes DEF CardKinds
  <2>4. Of("PlayerBust", p) \in Payload
    BY <1>4, <2>1, EventTypes DEF Of, Plain
  <2> QED
    BY <2>2, <2>3, <2>4
<1>7. x \in Seq(Payload) /\ y \in Seq(Payload) /\ b \in Seq(Payload)
  <2>1. <<Of("PlayerBust", p)>> \in Seq(Payload) /\ <<>> \in Seq(Payload)
    BY <1>6
  <2> HIDE DEF e, f
  <2> QED
    BY <1>6, <2>1
<1>8. Drawn(p, c) = Then(y, b)
  BY DEF Drawn
<1>9. Emit(Then(Then(x, Drawn(p, c)), h))
  <2>1. Emit((<<e, f>> \o b) \o h)
    BY <1>1
  <2>2. <<e, f>> = x \o y
    <3> HIDE DEF e, f
    <3> QED
      BY <1>6, PairIs
  <2> HIDE DEF x, y, b, e, f, h
  <2>3. (x \o y) \o b = x \o (y \o b)
    BY <1>7, Concats
  <2> QED
    BY <1>8, <2>1, <2>2, <2>3 DEF Then
<1>10. Kinds(x, CardKinds)
  <2>1. e.kind \in CardKinds
    BY <1>6 DEF CardKinds
  <2> HIDE DEF e
  <2> QED
    BY <1>6, <2>1, KindsOne
<1> HIDE DEF e, f, b, y, h
<1>11. ASSUME NEW w, Exact(w)
      PROVE  \E u \in Discreet :
             /\ Leads(w, x, u, Discreet) /\ RowOnly(w, u, p)
             /\ u.screen.row[p].hand = w.screen.row[p].hand
             /\ u.screen.row[p].bust <=> w.screen.row[p].bust
             /\ u.screen.row[p].bet = player'[p].bet
  <2>1. w \in Discreet /\ RowRight(w.screen.row[p], p) /\ w.screen.players = players
    BY <1>11 DEF Exact, Clean
  <2>2. w.screen.row[p].bet = player[p].bet
    BY <1>4, <2>1 DEF RowRight
  <2>3. PICK u : u = ApplyEvent(w, e)
    OBVIOUS
  <2>4. p \in Range(w.screen.players) /\ e.kind \in RowKinds
    BY <1>4, <1>6, <2>1 DEF Seated, RowKinds
  <2>5. /\ RowOnly(w, u, p)
        /\ u.screen.row[p].hand = IF e.kind = "PlayerCardDealt"
                                  THEN AddCard(w.screen.row[p].hand, e.n)
                                  ELSE w.screen.row[p].hand
        /\ u.screen.row[p].bust <=> w.screen.row[p].bust \/ e.kind = "PlayerBust"
        /\ u.screen.row[p].bet = IF e.kind = "PlayerPlacedBet" THEN e.n
                                 ELSE IF e.kind = "PlayerDoubledDown"
                                 THEN w.screen.row[p].bet + e.n
                                 ELSE w.screen.row[p].bet
        /\ Leads(w, <<e>>, u, Discreet)
    BY <1>6, <2>1, <2>3, <2>4, RowOn
  <2>6. u \in Discreet
    BY <2>5 DEF RowOnly
  <2> QED
    BY <1>5, <1>6, <2>2, <2>5, <2>6 DEF x
<1> HIDE DEF x
<1>12. /\ Told(Then(Then(x, Drawn(p, c)), HandedOn(p)))
      /\ Heard(Then(Then(x, Drawn(p, c)), HandedOn(p)))
  BY <1>3, <1>5, <1>10, <1>11, DrawHeard
<1> QED
  BY <1>9, <1>12 DEF Announced, h

\* The cards of round i, one for every bettor.
LEMMA RoundIs ==
  ASSUME IInv, NEW b \in BySeat, NEW deal \in [Bettors -> Cards \X Cards], NEW i \in {1, 2}
  PROVE  /\ Kinds(Round(b, deal, i), CardKinds)
         /\ Len(Round(b, deal, i)) \in Nat
         /\ \A k \in 1..Len(Round(b, deal, i)) :
              /\ b[k] \in Bettors /\ deal[b[k]][i] \in Cards
              /\ Round(b, deal, i)[k] \in Payload
              /\ Round(b, deal, i)[k].kind = "PlayerCardDealt"
              /\ Round(b, deal, i)[k].who = {b[k]}
              /\ Round(b, deal, i)[k].n = deal[b[k]][i]
         /\ \A k \in 1..Len(Round(b, deal, i)) : \A j \in 1..(k - 1) : b[j] # b[k]
         /\ \A p \in Bettors : \E k \in 1..Len(Round(b, deal, i)) : b[k] = p
PROOF
<1> DEFINE n == Cardinality(Bettors)
           r == Round(b, deal, i)
<1>1. n \in Nat /\ Bettors \subseteq Player
  <2>1. n \in Nat
    BY BettorsFinite DEF IInv
  <2>2. Bettors \subseteq Seated /\ Seated \subseteq Player
    BY PeopleNow DEF People, Bettors
  <2> QED
    BY <2>1, <2>2
<1>2. /\ b \in [1..n -> Bettors] /\ Range(b) = Bettors
      /\ \A j \in DOMAIN b : \A k \in 1..(j - 1) : player[b[k]].seat < player[b[j]].seat
  BY DEF BySeat
<1>3. phase \in Phase /\ player \in [Player -> PlayerState]
  BY PeopleNow DEF People, TypeOK
<1> HIDE DEF n
<1>4. ASSUME NEW k \in 1..n
      PROVE  /\ b[k] \in Bettors /\ deal[b[k]][i] \in Cards
             /\ r[k] \in Payload /\ r[k].kind = "PlayerCardDealt" /\ r[k].who = {b[k]}
             /\ r[k].n = deal[b[k]][i]
  <2>1. b[k] \in Bettors /\ deal[b[k]] \in Cards \X Cards
    BY <1>2
  <2> DEFINE p == b[k]
             c == deal[p][i]
  <2>2. c \in Cards
    BY <2>1
  <2>3. r[k] = Event("PlayerCardDealt", {p}, c)
    BY <1>2 DEF Round
  <2> HIDE DEF p, c, r
  <2>4. c \in Pip /\ c \in Nat /\ {p} \in SUBSET Player
    BY <1>1, <2>1, <2>2, ShoeAssumption DEF Pip, p
  <2>5. /\ Event("PlayerCardDealt", {p}, c) \in Payload
        /\ Event("PlayerCardDealt", {p}, c).kind = "PlayerCardDealt"
        /\ Event("PlayerCardDealt", {p}, c).who = {p}
        /\ Event("PlayerCardDealt", {p}, c).n = c
    BY <1>3, <2>4, EventTypes DEF CardKinds
  <2> QED
    BY <2>1, <2>2, <2>3, <2>5 DEF p, c
<1>5. r \in Seq(Payload) /\ Len(r) = n
  <2>1. DOMAIN r = 1..n
    BY <1>2 DEF Round
  <2>2. r \in [1..n -> Payload]
    <3>1. r = [k \in 1..n |-> r[k]]
      BY <1>2 DEF Round
    <3> HIDE DEF r
    <3> QED
      BY <1>4, <3>1
  <2> HIDE DEF r
  <2> QED
    BY <1>1, <2>1, <2>2, SeqDef, LenProperties
<1>6. Kinds(r, CardKinds)
  <2>1. "PlayerCardDealt" \in CardKinds
    BY DEF CardKinds
  <2> HIDE DEF r
  <2> QED
    BY <1>4, <1>5, <2>1 DEF Kinds
<1>7. \A k \in 1..n : \A j \in 1..(k - 1) : b[j] # b[k]
  <2> SUFFICES ASSUME NEW k \in 1..n, NEW j \in 1..(k - 1), b[j] = b[k] PROVE FALSE
    OBVIOUS
  <2>1. player[b[j]].seat < player[b[k]].seat
    BY <1>2
  <2>2. player[b[k]].seat \in Nat
    <3>1. b[k] \in Player
      BY <1>1, <1>2
    <3>2. player[b[k]] \in PlayerState
      BY <1>3, <3>1
    <3> QED
      BY <3>2, SettingsAssumption DEF PlayerState
  <2> QED
    BY <2>1, <2>2
<1>8. \A p \in Bettors : \E k \in 1..n : b[k] = p
  BY <1>2 DEF Range
<1> HIDE DEF r
<1> QED
  BY <1>1, <1>4, <1>5, <1>6, <1>7, <1>8 DEF r

\* A screen on which cards have been dealt.
Dealt(v, H, d) ==
  /\ v \in Discreet /\ v.screen.players = players /\ v.screen.phase = "Dealing"
  /\ v.screen.dealer = d
  /\ \A p \in Player : /\ v.screen.row[p].hand = H[p] /\ ~v.screen.row[p].bust
                       /\ v.screen.row[p].bet = player[p].bet

\* The hands after one round more.
More(H, deal, i) ==
  [p \in Player |-> IF p \in Bettors THEN AddCard(H[p], deal[p][i]) ELSE H[p]]

\* Every round of the deal gives every bettor a card.
LEMMA RoundDealt ==
  ASSUME IInv, NEW b \in BySeat, NEW deal \in [Bettors -> Cards \X Cards], NEW i \in {1, 2},
         NEW H, NEW d, NEW v, Dealt(v, H, d)
  PROVE  \E x : Leads(v, Round(b, deal, i), x, Discreet) /\ Dealt(x, More(H, deal, i), d)
PROOF
<1> DEFINE r == Round(b, deal, i)
           n == Len(r)
           G == [k \in 0..n |-> [p \in Player |->
                   IF \E j \in 1..k : b[j] = p THEN AddCard(H[p], deal[p][i]) ELSE H[p]]]
           S == [k \in 0..n |-> {x \in Discreet : Dealt(x, G[k], d)}]
<1>1. /\ r \in Seq(Payload) /\ n \in Nat
      /\ \A k \in 1..n :
              /\ b[k] \in Bettors /\ deal[b[k]][i] \in Cards
              /\ r[k] \in Payload /\ r[k].kind = "PlayerCardDealt" /\ r[k].who = {b[k]}
              /\ r[k].n = deal[b[k]][i]
      /\ \A k \in 1..n : \A j \in 1..(k - 1) : b[j] # b[k]
      /\ \A p \in Bettors : \E k \in 1..n : b[k] = p
  BY RoundIs DEF Kinds
<1>2. Bettors \subseteq Player /\ Bettors \subseteq Range(players)
  BY PeopleNow DEF People, Bettors, Seated
<1> HIDE DEF r, n
<1>3. \A k \in 0..n : \A p \in Player :
        G[k][p] = IF \E j \in 1..k : b[j] = p THEN AddCard(H[p], deal[p][i]) ELSE H[p]
  OBVIOUS
<1> HIDE DEF G
<1>4. \A k \in 0..n : S[k] = {x \in Discreet : Dealt(x, G[k], d)}
  OBVIOUS
<1> HIDE DEF S
<1>5. ASSUME NEW k \in 1..n, NEW w \in S[k - 1]
      PROVE  ApplyEvent(w, r[k]) \in S[k] \cap Discreet
  <2>1. k - 1 \in 0..n /\ k \in 0..n /\ 1..k = 1..(k - 1) \cup {k}
    BY <1>1
  <2>2. w \in Discreet /\ Dealt(w, G[k - 1], d)
    BY <1>4, <2>1
  <2>3. PICK x : x = ApplyEvent(w, r[k])
    OBVIOUS
  <2>4. PICK p \in Player : p = b[k] /\ p \in Range(w.screen.players)
    BY <1>1, <1>2, <2>2 DEF Dealt
  <2>5. PICK e \in Payload : e = r[k] /\ e.kind = "PlayerCardDealt" /\ e.who = {p}
                             /\ e.n = deal[p][i]
    BY <1>1, <2>4
  <2>6. /\ RowOnly(w, x, p)
        /\ x.screen.row[p].hand = IF e.kind = "PlayerCardDealt"
                                  THEN AddCard(w.screen.row[p].hand, e.n)
                                  ELSE w.screen.row[p].hand
        /\ x.screen.row[p].bust <=> w.screen.row[p].bust \/ e.kind = "PlayerBust"
        /\ x.screen.row[p].bet = IF e.kind = "PlayerPlacedBet" THEN e.n
                                 ELSE IF e.kind = "PlayerDoubledDown"
                                 THEN w.screen.row[p].bet + e.n
                                 ELSE w.screen.row[p].bet
        /\ Leads(w, <<e>>, x, Discreet)
    <3>1. e.kind \in RowKinds /\ x = ApplyEvent(w, e)
      BY <2>3, <2>5 DEF RowKinds
    <3> QED
      BY <2>2, <2>4, <2>5, <3>1, RowOn
  <2>7. ASSUME NEW q \in Player
        PROVE  /\ x.screen.row[q].hand = G[k][q] /\ ~x.screen.row[q].bust
               /\ x.screen.row[q].bet = player[q].bet
    <3>1. CASE q = p
      <4>1. ~(\E j \in 1..(k - 1) : b[j] = p) /\ (\E j \in 1..k : b[j] = p)
        BY <1>1, <2>1, <2>4
      <4>2. G[k - 1][p] = H[p] /\ G[k][p] = AddCard(H[p], deal[p][i])
        BY <1>3, <2>1, <4>1
      <4> QED
        BY <2>2, <2>5, <2>6, <3>1, <4>2 DEF Dealt
    <3>2. CASE q # p
      <4>1. (\E j \in 1..(k - 1) : b[j] = q) <=> (\E j \in 1..k : b[j] = q)
        BY <2>1, <2>4, <3>2
      <4>2. G[k - 1][q] = G[k][q]
        BY <1>3, <2>1, <4>1
      <4> QED
        BY <2>2, <2>6, <3>2, <4>2 DEF Dealt, RowOnly
    <3> QED
      BY <3>1, <3>2
  <2>8. Dealt(x, G[k], d) /\ x \in Discreet
    BY <2>2, <2>6, <2>7 DEF Dealt, RowOnly
  <2> QED
    BY <1>4, <2>1, <2>3, <2>8
<1>6. Upholds(S, r, Discreet)
  BY <1>5 DEF Upholds, n
<1>7. v \in S[0] \cap Discreet
  <2>1. 0 \in 0..n /\ 1..0 = {}
    BY <1>1
  <2>2. \A p \in Player : G[0][p] = H[p]
    BY <1>3, <2>1
  <2>3. Dealt(v, G[0], d) /\ v \in Discreet
    BY <2>2 DEF Dealt
  <2> QED
    BY <1>4, <2>1, <2>3
<1>8. PICK x \in S[n] : Leads(v, r, x, Discreet)
  BY <1>1, <1>6, <1>7, DiscreetShown, LeadsInduct DEF n
<1>9. Dealt(x, G[n], d)
  <2>1. n \in 0..n
    BY <1>1
  <2> QED
    BY <1>4, <1>8, <2>1
<1>10. \A p \in Player : G[n][p] = More(H, deal, i)[p]
  <2> SUFFICES ASSUME NEW p \in Player PROVE G[n][p] = More(H, deal, i)[p]
    OBVIOUS
  <2>1. n \in 0..n /\ (p \in Bettors <=> \E j \in 1..n : b[j] = p)
    BY <1>1
  <2> QED
    BY <1>3, <2>1 DEF More
<1>11. Dealt(x, More(H, deal, i), d)
  BY <1>9, <1>10 DEF Dealt
<1> QED
  BY <1>8, <1>11 DEF r

\* Nobody has a card.
EmptyHands == [p \in Player |-> EmptyHand]

\* The deal begins with clean rows.
LEMMA StartDealt ==
  ASSUME IInv, phase = "WaitingForBets", NEW w, Exact(w), NEW e \in Payload,
         e.kind = "GameStarted", NEW x, x = ApplyEvent(w, e)
  PROVE  Dealt(x, EmptyHands, <<>>) /\ Leads(w, <<e>>, x, Discreet)
PROOF
<1>1. /\ w \in Discreet /\ w \in Shown /\ w.screen.players = players
      /\ \A p \in Player : RowRight(w.screen.row[p], p)
  BY DEF Exact, Clean, Discreet
<1>2. e.kind \in RoundKinds /\ Clears(e)
  BY DEF RoundKinds, Clears
<1>3. x \in Shown /\ Turned(w.screen, e, x.screen) /\ SamePlaces(w.screen, x.screen)
  BY <1>1, <1>2, RoundOn
<1>4. x.screen.phase = "Dealing" /\ x.screen.dealer = <<>>
      /\ \A p \in Player : x.screen.row[p] =
           IF p \in Range(w.screen.players) THEN NewHand(w.screen.row[p]) ELSE w.screen.row[p]
  BY <1>2, <1>3 DEF Turned
<1>5. x \in Discreet
  <2>1. DOMAIN <<>> = {}
    OBVIOUS
  <2> QED
    BY <1>3, <1>4, <2>1 DEF Discreet, NoPeek
<1>6. ASSUME NEW p \in Player
      PROVE  /\ x.screen.row[p].hand = EmptyHands[p] /\ ~x.screen.row[p].bust
             /\ x.screen.row[p].bet = player[p].bet
  <2>1. player[p].hand = EmptyHand /\ EmptyHands[p] = EmptyHand /\ ~IsBust(EmptyHand)
    BY DEF IInv, RoundStartsClean, EmptyHands, IsBust, EmptyHand
  <2>2. /\ w.screen.row[p].hand = EmptyHand /\ ~w.screen.row[p].bust
        /\ w.screen.row[p].bet = player[p].bet
    BY <1>1, <2>1 DEF RowRight
  <2>3. /\ NewHand(w.screen.row[p]).hand = EmptyHand /\ ~NewHand(w.screen.row[p]).bust
        /\ NewHand(w.screen.row[p]).bet = w.screen.row[p].bet
    BY DEF NewHand
  <2> QED
    BY <1>4, <2>1, <2>2, <2>3
<1>7. Leads(w, <<e>>, x, Discreet)
  BY <1>1, <1>5, LeadsEvent
<1> QED
  BY <1>1, <1>3, <1>4, <1>5, <1>6, <1>7 DEF Dealt, SamePlaces

\* A card for the dealer.
DealerDraws(e, d, g) ==
  /\ e.kind \in {"DealerCardDealt", "DealerHoleCardDealt"}
  /\ g = Append(d, IF e.kind = "DealerCardDealt" THEN e.n ELSE Hidden)
  /\ \A i \in DOMAIN g : g[i] # Hidden => i = 1

\* A card for the dealer leaves everybody's hand on the screen.
LEMMA UpDealt ==
  ASSUME NEW H, NEW d, NEW v, Dealt(v, H, d), NEW e \in Payload, NEW g, DealerDraws(e, d, g),
         NEW x, x = ApplyEvent(v, e)
  PROVE  Dealt(x, H, g) /\ Leads(v, <<e>>, x, Discreet)
PROOF
<1>0. /\ e.kind \in {"DealerCardDealt", "DealerHoleCardDealt"}
      /\ \A i \in DOMAIN g : g[i] # Hidden => i = 1
      /\ g = Append(d, IF e.kind = "DealerCardDealt" THEN e.n ELSE Hidden)
  BY DEF DealerDraws
<1>1. v \in Discreet /\ v \in Shown /\ v.screen.dealer = d
  BY DEF Dealt, Discreet
<1>2. e.kind \in CardKinds
  BY <1>0 DEF CardKinds
<1>3. x \in Shown /\ Marked(v.screen, e, x.screen) /\ Same(v.screen, x.screen)
  BY <1>1, <1>2, CardOn
<1>4. x.screen.dealer = g
  BY <1>0, <1>1, <1>3 DEF Marked
<1>5. \A p \in Player : x.screen.row[p] = v.screen.row[p]
  <2>1. e.kind \notin {"PlayerPlacedBet", "PlayerDoubledDown", "PlayerCardDealt", "PlayerBust"}
    BY <1>0
  <2> QED
    BY <1>3, <2>1 DEF Marked
<1>6. x \in Discreet
  BY <1>0, <1>3, <1>4 DEF Discreet, NoPeek
<1>7. Leads(v, <<e>>, x, Discreet)
  BY <1>1, <1>6, LeadsEvent
<1> QED
  BY <1>3, <1>4, <1>5, <1>6, <1>7 DEF Dealt, Same, SamePlaces

\* Everything a deal says before the turn begins.
Deals(b, deal, up) ==
  Then(Then(Then(Then(<<Dealers("GameStarted", 0)>>,
                      Round(b, deal, 1)), <<Dealers("DealerCardDealt", up)>>),
            Round(b, deal, 2)), <<Dealers("DealerHoleCardDealt", 0)>>)

\* The dealer's events are payloads.
LEMMA DealerEvents ==
  ASSUME phase \in Phase, NEW c \in Cards
  PROVE  /\ Dealers("GameStarted", 0) \in Payload
         /\ Dealers("GameStarted", 0).kind = "GameStarted"
         /\ Dealers("DealerCardDealt", c) \in Payload
         /\ Dealers("DealerCardDealt", c).kind = "DealerCardDealt"
         /\ Dealers("DealerCardDealt", c).n = c
         /\ Dealers("DealerHoleCardDealt", 0) \in Payload
         /\ Dealers("DealerHoleCardDealt", 0).kind = "DealerHoleCardDealt"
         /\ Dealers("DealerHoleCardRevealed", c) \in Payload
         /\ Dealers("DealerHoleCardRevealed", c).kind = "DealerHoleCardRevealed"
         /\ Dealers("DealerHoleCardRevealed", c).n = c
PROOF
<1>1. c \in Pip /\ c \in Nat /\ {} \in SUBSET Player /\ 0 \in Nat
  BY ShoeAssumption DEF Pip
<1>2. "GameStarted" \in Plain /\ "DealerHoleCardDealt" \in Plain
      /\ "DealerCardDealt" \in CardKinds /\ "DealerHoleCardRevealed" \in CardKinds
  BY DEF Plain, CardKinds
<1>3. /\ Dealers("GameStarted", 0) \in Payload
      /\ Dealers("DealerHoleCardDealt", 0) \in Payload
  BY <1>1, <1>2, EventTypes DEF Dealers
<1>4. /\ Dealers("DealerCardDealt", c) \in Payload
      /\ Dealers("DealerHoleCardRevealed", c) \in Payload
  BY <1>1, <1>2, EventTypes DEF Dealers
<1> QED
  BY <1>3, <1>4 DEF Dealers, Event

\* Up to the change of phase, a deal has only events of a round.
LEMMA DealsTypes ==
  ASSUME IInv, NEW b \in BySeat, NEW deal \in [Bettors -> Cards \X Cards], NEW up \in Cards
  PROVE  Kinds(Deals(b, deal, up), InRound)
PROOF
<1>1. phase \in Phase
  BY PeopleNow DEF People, TypeOK
<1> DEFINE gs == Dealers("GameStarted", 0)
           dc == Dealers("DealerCardDealt", up)
           hc == Dealers("DealerHoleCardDealt", 0)
           r1 == Round(b, deal, 1)
           r2 == Round(b, deal, 2)
<1>2. /\ gs \in Payload /\ gs.kind \in InRound
      /\ dc \in Payload /\ dc.kind \in InRound
      /\ hc \in Payload /\ hc.kind \in InRound
  <2>1. "GameStarted" \in InRound /\ "DealerCardDealt" \in InRound
        /\ "DealerHoleCardDealt" \in InRound
    BY DEF InRound, CardKinds
  <2> QED
    BY <1>1, <2>1, DealerEvents
<1>3. Kinds(r1, CardKinds) /\ Kinds(r2, CardKinds)
  <2>1. 1 \in {1, 2} /\ 2 \in {1, 2}
    OBVIOUS
  <2> QED
    BY <2>1, RoundIs
<1>4. Kinds(r1, InRound) /\ Kinds(r2, InRound)
  BY <1>3 DEF Kinds, InRound
<1>5. Deals(b, deal, up) = Then(Then(Then(Then(<<gs>>, r1), <<dc>>), r2), <<hc>>)
  BY DEF Deals
<1> HIDE DEF gs, dc, hc, r1, r2
<1>6. Kinds(<<gs>>, InRound) /\ Kinds(<<dc>>, InRound) /\ Kinds(<<hc>>, InRound)
  BY <1>2, KindsOne
<1>7. Kinds(Then(<<gs>>, r1), InRound)
  BY <1>4, <1>6, KindsThen
<1>8. Kinds(Then(Then(<<gs>>, r1), <<dc>>), InRound)
  BY <1>6, <1>7, KindsThen
<1>9. Kinds(Then(Then(Then(<<gs>>, r1), <<dc>>), r2), InRound)
  BY <1>4, <1>8, KindsThen
<1> QED
  BY <1>5, <1>6, <1>9, KindsThen

\* The dealer's first card, and a hidden one.
LEMMA TwoCardsDown ==
  ASSUME NEW c \in Nat, NEW d, d = Append(<<>>, c), NEW g, g = Append(d, Hidden)
  PROVE  /\ DOMAIN d = 1..1 /\ Len(d) = 1 /\ d[1] = c
         /\ DOMAIN g = 1..2 /\ Len(g) = 2 /\ g[1] = c /\ g[2] = Hidden
PROOF
<1> DEFINE z == <<>>
<1>1. z \in Seq(Nat) /\ Len(z) = 0
  OBVIOUS
<1>2. Hidden \in Nat
  BY DEF Hidden
<1> HIDE DEF z
<1>3. d \in Seq(Nat) /\ Len(d) = Len(z) + 1 /\ d[Len(z) + 1] = c
  <2>1. d = Append(z, c)
    BY DEF z
  <2> QED
    BY ONLY <1>1, <2>1, c \in Nat, AppendProperties
<1>4. Len(d) = 1 /\ d[1] = c
  BY <1>1, <1>3
<1>5. g \in Seq(Nat) /\ Len(g) = Len(d) + 1 /\ g[Len(d) + 1] = Hidden
      /\ \A i \in 1..Len(d) : g[i] = d[i]
  BY ONLY <1>2, <1>3, g = Append(d, Hidden), AppendProperties
<1>6. Len(g) = 2 /\ g[2] = Hidden /\ g[1] = c
  BY <1>4, <1>5
<1>7. DOMAIN d = 1..Len(d) /\ DOMAIN g = 1..Len(g)
  BY <1>3, <1>5, LenProperties
<1> QED
  BY <1>4, <1>6, <1>7

\* Both rounds of it.
TwoRounds(deal) == More(More(EmptyHands, deal, 1), deal, 2)

\* They take a screen to one with two cards for everybody and the hole card hidden.
LEMMA DealsLead ==
  ASSUME IInv, phase = "WaitingForBets", NEW b \in BySeat,
         NEW deal \in [Bettors -> Cards \X Cards], NEW up \in Cards, NEW w, Exact(w)
  PROVE  \E x : /\ Leads(w, Deals(b, deal, up), x, Discreet)
                /\ Dealt(x, TwoRounds(deal), Append(Append(<<>>, up), Hidden))
PROOF
<1>1. phase \in Phase
  BY PeopleNow DEF People, TypeOK
<1> DEFINE gs == Dealers("GameStarted", 0)
           dc == Dealers("DealerCardDealt", up)
           hc == Dealers("DealerHoleCardDealt", 0)
           r1 == Round(b, deal, 1)
           r2 == Round(b, deal, 2)
           H1 == More(EmptyHands, deal, 1)
           H2 == More(H1, deal, 2)
           d0 == <<>>
           d1 == Append(d0, up)
           d2 == Append(d1, Hidden)
<1>2. /\ gs \in Payload /\ gs.kind = "GameStarted"
      /\ dc \in Payload /\ dc.kind = "DealerCardDealt" /\ dc.n = up
      /\ hc \in Payload /\ hc.kind = "DealerHoleCardDealt"
  BY <1>1, DealerEvents
<1>3. r1 \in Seq(Payload) /\ r2 \in Seq(Payload)
  <2>1. 1 \in {1, 2} /\ 2 \in {1, 2}
    OBVIOUS
  <2>2. Kinds(r1, CardKinds) /\ Kinds(r2, CardKinds)
    BY <2>1, RoundIs
  <2> HIDE DEF r1, r2
  <2> QED
    BY <2>2 DEF Kinds
<1>4. /\ \A i \in DOMAIN d1 : d1[i] # Hidden => i = 1
      /\ \A i \in DOMAIN d2 : d2[i] # Hidden => i = 1
  <2>1. d1 = Append(<<>>, up) /\ d2 = Append(d1, Hidden) /\ up \in Nat
    BY ShoeAssumption DEF Pip
  <2> HIDE DEF d1, d2
  <2>2. DOMAIN d1 = 1..1 /\ DOMAIN d2 = 1..2 /\ d2[2] = Hidden
    BY <2>1, TwoCardsDown
  <2> QED
    BY <2>2
<1>5. Deals(b, deal, up) = Then(Then(Then(Then(<<gs>>, r1), <<dc>>), r2), <<hc>>)
  BY DEF Deals
<1>6. d0 = <<>> /\ d1 = Append(d0, up) /\ d2 = Append(d1, Hidden)
      /\ H1 = More(EmptyHands, deal, 1) /\ H2 = More(H1, deal, 2)
  OBVIOUS
<1>12. <<gs>> \in Seq(Payload) /\ <<dc>> \in Seq(Payload) /\ <<hc>> \in Seq(Payload)
  <2> HIDE DEF gs, dc, hc
  <2> QED
    BY <1>2
<1> DEFINE q1 == <<gs>>
           q3 == <<dc>>
           q5 == <<hc>>
<1>13. q1 = <<gs>> /\ q3 = <<dc>> /\ q5 = <<hc>>
  OBVIOUS
<1> HIDE DEF gs, dc, hc, r1, r2, H1, H2, d0, d1, d2, q1, q3, q5
<1>7. PICK v1 : Dealt(v1, EmptyHands, d0) /\ Leads(w, q1, v1, Discreet)
  <2>1. PICK v1 : v1 = ApplyEvent(w, gs)
    OBVIOUS
  <2> QED
    BY <1>2, <1>6, <1>13, <2>1, StartDealt
<1>8. PICK v2 : Dealt(v2, H1, d0) /\ Leads(v1, r1, v2, Discreet)
  <2>1. \A i \in {1, 2} : \E x : Leads(v1, Round(b, deal, i), x, Discreet)
                                 /\ Dealt(x, More(EmptyHands, deal, i), d0)
    BY <1>7, RoundDealt
  <2> QED
    BY <1>6, <2>1 DEF r1
<1>9. PICK v3 : Dealt(v3, H1, d1) /\ Leads(v2, q3, v3, Discreet)
  <2>1. PICK v3 : v3 = ApplyEvent(v2, dc)
    OBVIOUS
  <2>2. DealerDraws(dc, d0, d1)
    BY <1>2, <1>4, <1>6 DEF DealerDraws
  <2> QED
    BY <1>2, <1>8, <1>13, <2>1, <2>2, UpDealt
<1>10. PICK v4 : Dealt(v4, H2, d1) /\ Leads(v3, r2, v4, Discreet)
  <2>1. \A i \in {1, 2} : \E x : Leads(v3, Round(b, deal, i), x, Discreet)
                                 /\ Dealt(x, More(H1, deal, i), d1)
    BY <1>9, RoundDealt
  <2> QED
    BY <1>6, <2>1 DEF r2
<1>11. PICK v5 : Dealt(v5, H2, d2) /\ Leads(v4, q5, v5, Discreet)
  <2>1. PICK v5 : v5 = ApplyEvent(v4, hc)
    OBVIOUS
  <2>2. DealerDraws(hc, d1, d2)
    BY <1>2, <1>4, <1>6 DEF DealerDraws
  <2> QED
    BY <1>2, <1>10, <1>13, <2>1, <2>2, UpDealt
<1>14. q1 \in Seq(Payload) /\ q3 \in Seq(Payload) /\ q5 \in Seq(Payload)
  BY <1>12, <1>13
<1>15. Leads(w, Then(q1, r1), v2, Discreet) /\ Then(q1, r1) \in Seq(Payload)
  BY <1>3, <1>7, <1>8, <1>14, LeadsThen, ThenAssoc
<1>16. Leads(w, Then(Then(q1, r1), q3), v3, Discreet) /\ Then(Then(q1, r1), q3) \in Seq(Payload)
  BY <1>9, <1>14, <1>15, LeadsThen, ThenAssoc
<1>17. /\ Leads(w, Then(Then(Then(q1, r1), q3), r2), v4, Discreet)
       /\ Then(Then(Then(q1, r1), q3), r2) \in Seq(Payload)
  BY <1>3, <1>10, <1>16, LeadsThen, ThenAssoc
<1>18. Leads(w, Then(Then(Then(Then(q1, r1), q3), r2), q5), v5, Discreet)
  BY <1>11, <1>14, <1>17, LeadsThen
<1> QED
  BY <1>5, <1>6, <1>11, <1>13, <1>18 DEF TwoRounds

\* A screen that is right but for the phase that is to come.
Ready(v) ==
  /\ v \in Discreet /\ v.screen.players = players'
  /\ DealerRight(v.screen)'
  /\ \A q \in Player : RowRight(v.screen.row[q], q)'
  /\ phase' = "PlayerTurn" =>
       \A i \in DOMAIN v.screen.dealer : v.screen.dealer[i] # Hidden => i = 1

\* PhaseChanged completes it.
LEMMA ReadyHeard ==
  ASSUME IInv', phase' # "WaitingForBets", NEW c \in Seq(Payload),
         \A w : Exact(w) => \E v : Leads(w, c, v, Discreet) /\ Ready(v)
  PROVE  Heard(Then(c, <<PhaseChanged>>))
PROOF
<1>1. PhaseChanged \in Payload
  BY PhaseChangedType
<1>2. <<PhaseChanged>> \in Seq(Payload)
  BY <1>1
<1> SUFFICES ASSUME NEW w, Exact(w)
             PROVE  \E x : Leads(w, Then(c, <<PhaseChanged>>), x, Discreet) /\ Clean(x)'
  BY DEF Heard
<1>3. PICK v : Leads(w, c, v, Discreet) /\ Ready(v)
  OBVIOUS
<1>4. PICK x : x = ApplyEvent(v, PhaseChanged)
  OBVIOUS
<1>5. Passes(v, x)
  BY <1>3, <1>4 DEF Passes, Ready, Discreet
<1>6. /\ x \in Shown /\ SamePlaces(v.screen, x.screen) /\ PhaseRight(x.screen)'
      /\ x.screen.dealer = v.screen.dealer
      /\ \A p \in Player : x.screen.row[p] = v.screen.row[p]
  BY <1>5, PhaseOn
<1>7. x \in Discreet
  <2>1. x.screen.phase = GamePhaseOf(phase')
    BY <1>6 DEF PhaseRight
  <2>2. x.screen.phase \in {"Dealing", "PlayerTurn"} => phase' = "PlayerTurn"
    <3>1. People'
      BY PeopleThen
    <3> QED
      BY <2>1, <3>1 DEF People, TypeOK, Phase, GamePhaseOf
  <2> QED
    BY <1>3, <1>6, <2>2 DEF Discreet, NoPeek, Ready
<1>8. Leads(v, <<PhaseChanged>>, x, Discreet)
  BY <1>1, <1>3, <1>4, <1>7, LeadsEvent DEF Ready
<1>9. Leads(w, Then(c, <<PhaseChanged>>), x, Discreet)
  BY <1>2, <1>3, <1>8, LeadsThen
<1>10. Clean(x)'
  <2>1. x.screen.players = players' /\ \A q \in Player : RowRight(x.screen.row[q], q)'
    BY <1>3, <1>6 DEF SamePlaces, Ready
  <2>2. DealerRight(x.screen)'
    BY <1>3, <1>6 DEF DealerRight, Ready
  <2> QED
    BY <2>1, <2>2 DEF Clean
<1> QED
  BY <1>9, <1>10

\* The hands a deal gives.
LEMMA DealtHands ==
  ASSUME IInv, NEW deal \in [Bettors -> Cards \X Cards], NEW up \in Cards, NEW hole \in Cards,
         DealInitialCards(deal, up, hole), NEW p \in Player
  PROVE  /\ player'[p].hand = TwoRounds(deal)[p]
         /\ player'[p].bet = player[p].bet
         /\ ~IsBust(player'[p].hand)
PROOF
<1>1. player[p].hand = EmptyHand /\ player[p] \in PlayerState /\ phase = "WaitingForBets"
  BY DEF IInv, RoundStartsClean, TypeOK, DealInitialCards
<1>2. EmptyHands[p] = EmptyHand
  BY DEF EmptyHands
<1>3. Cards \subseteq Pip
  BY ShoeAssumption
<1>4. CASE p \in Bettors
  <2>1. deal[p][1] \in Pip /\ deal[p][2] \in Pip
    BY <1>3, <1>4
  <2>2. TwoRounds(deal)[p] = TwoCards(deal[p][1], deal[p][2])
    BY <1>2, <1>4 DEF TwoRounds, More, TwoCards
  <2> DEFINE new == TwoCards(deal[p][1], deal[p][2])
  <2>3. new \in Hand /\ new.hard \in 0..20
    <3>1. PICK a \in Pip, e \in Pip : a = deal[p][1] /\ e = deal[p][2]
      BY <2>1
    <3>2. TwoCards(a, e) \in Hand /\ TwoCards(a, e).hard = a + e
      BY TwoCardsType
    <3>3. a + e \in 0..20
      BY DEF Pip
    <3> QED
      BY <3>1, <3>2, <3>3
  <2>7. ~IsBust(new)
    BY <2>3 DEF IsBust
  <2>4. player'[p] = [player[p] EXCEPT !.hand =
                         AddCard(AddCard(player[p].hand, deal[p][1]), deal[p][2])]
    BY <1>1, <1>4 DEF DealInitialCards, PlayerState
  <2>5. player'[p] = [player[p] EXCEPT !.hand = new]
    BY <1>1, <2>4 DEF TwoCards
  <2> HIDE DEF new
  <2>6. player'[p].hand = new /\ player'[p].bet = player[p].bet
    BY <1>1, <2>5 DEF PlayerState
  <2> QED
    BY <2>2, <2>6, <2>7 DEF new
<1>5. CASE p \notin Bettors
  <2>1. player'[p] = player[p] /\ TwoRounds(deal)[p] = EmptyHand
    BY <1>2, <1>5 DEF DealInitialCards, TwoRounds, More
  <2>2. ~IsBust(EmptyHand)
    BY DEF IsBust, EmptyHand
  <2> QED
    BY <1>1, <2>1, <2>2
<1> QED
  BY <1>4, <1>5

\* A deal is announced.
LEMMA DealingAnnounced ==
  ASSUME IInv, IInv', Dealing, forgotten' = forgotten
  PROVE  Announced
PROOF
<1>1. PICK b \in BySeat, deal \in [Bettors -> Cards \X Cards], up \in Cards, hole \in Cards :
        /\ DealInitialCards(deal, up, hole)
        /\ dealerCards' = <<up, hole>>
        /\ Emit(Then(Deals(b, deal, up), <<PhaseChanged>>))
  BY DEF Dealing, Then, Deals
<1> DEFINE c == Deals(b, deal, up)
           d == Append(Append(<<>>, up), Hidden)
<1>2. Kinds(c, InRound) /\ c \in Seq(Payload)
  BY DealsTypes DEF Kinds
<1>3. phase = "WaitingForBets" /\ UNCHANGED <<players, waiting, observers>>
      /\ phase' = "PlayerTurn"
  <2>1. PICK first \in Bettors : PassTurnTo(first)
    BY <1>1 DEF DealInitialCards
  <2>2. first # Nobody
    BY PeopleNow DEF People, Bettors
  <2> QED
    BY <1>1, <2>1, <2>2 DEF DealInitialCards, PassTurnTo
<1>4. /\ DOMAIN d = 1..2 /\ Len(d) = 2 /\ d[1] = up /\ d[2] = Hidden
  <2>1. up \in Nat
    BY ShoeAssumption DEF Pip
  <2> QED
    BY <2>1, TwoCardsDown
<1> HIDE DEF c, d
<1>5. Told(Then(c, <<PhaseChanged>>))
  BY <1>2, <1>3, PassedTold DEF PlacesKept
<1>6. ASSUME NEW w, Exact(w)
      PROVE  \E v : Leads(w, c, v, Discreet) /\ Ready(v)
  <2>1. PICK v : Leads(w, c, v, Discreet) /\ Dealt(v, TwoRounds(deal), d)
    BY <1>3, <1>6, DealsLead DEF c, d
  <2>2. v \in Discreet /\ v.screen.players = players'
    BY <1>3, <2>1 DEF Dealt
  <2>3. DealerRight(v.screen)'
    <3>1. v.screen.dealer = d
      BY <2>1 DEF Dealt
    <3>2. Len(dealerCards') = 2 /\ dealerCards'[1] = up
      BY <1>1
    <3>3. \A i \in 1..2 : i = 1 \/ i = 2
      OBVIOUS
    <3> QED
      BY <1>3, <1>4, <3>1, <3>2, <3>3 DEF DealerRight
  <2>4. \A q \in Player : RowRight(v.screen.row[q], q)'
    <3> SUFFICES ASSUME NEW q \in Player PROVE RowRight(v.screen.row[q], q)'
      OBVIOUS
    <3>1. /\ player'[q].hand = TwoRounds(deal)[q] /\ player'[q].bet = player[q].bet
          /\ ~IsBust(player'[q].hand)
      BY <1>1, DealtHands
    <3>2. /\ v.screen.row[q].hand = TwoRounds(deal)[q] /\ ~v.screen.row[q].bust
          /\ v.screen.row[q].bet = player[q].bet
      BY <2>1 DEF Dealt
    <3> QED
      BY <1>3, <3>1, <3>2 DEF RowRight
  <2>5. \A i \in DOMAIN v.screen.dealer : v.screen.dealer[i] # Hidden => i = 1
    BY <1>4, <2>1 DEF Dealt
  <2> QED
    BY <2>1, <2>2, <2>3, <2>4, <2>5 DEF Ready
<1>7. Heard(Then(c, <<PhaseChanged>>))
  BY <1>2, <1>3, <1>6, ReadyHeard
<1> QED
  BY <1>1, <1>5, <1>7 DEF Announced, c

\* The dealer plays, and the first k cards of D lie open.
Open(v, D, k) ==
  /\ v \in Discreet /\ v.screen.players = players /\ v.screen.phase = "DealerTurn"
  /\ \A q \in Player : RowRight(v.screen.row[q], q)
  /\ Len(v.screen.dealer) = k
  /\ \A i \in 1..k : v.screen.dealer[i] = D[i]

\* One more of them.
LEMMA OpenedOne ==
  ASSUME NEW D, NEW k \in Nat, NEW v, Open(v, D, k), NEW e \in Payload,
         e.kind \in {"DealerCardDealt"}, e.n = D[k + 1], NEW x, x = ApplyEvent(v, e)
  PROVE  Open(x, D, k + 1)
PROOF
<1>1. v \in Shown /\ v.screen.dealer \in Seq(Pip \cup {Hidden}) /\ Len(v.screen.dealer) = k
      /\ \A i \in 1..k : v.screen.dealer[i] = D[i]
  BY DEF Open, Discreet, Shown, UiState, TableState
<1>2. e.kind \in CardKinds /\ e.n \in Pip \cup {Hidden} /\ e.kind = "DealerCardDealt"
  BY DEF CardKinds, Payload
<1>3. x \in Shown /\ Marked(v.screen, e, x.screen) /\ Same(v.screen, x.screen)
  BY <1>1, <1>2, CardOn
<1>4. x.screen.dealer = Append(v.screen.dealer, e.n)
  BY <1>2, <1>3 DEF Marked
<1>5. Len(x.screen.dealer) = k + 1 /\ \A i \in 1..(k + 1) : x.screen.dealer[i] = D[i]
  <2> DEFINE g == v.screen.dealer
             h == x.screen.dealer
             c == e.n
  <2>1. g \in Seq(Pip \cup {Hidden}) /\ c \in Pip \cup {Hidden} /\ h = Append(g, c)
        /\ Len(g) = k /\ c = D[k + 1] /\ \A i \in 1..k : g[i] = D[i]
    BY <1>1, <1>2, <1>4
  <2> HIDE DEF g, h, c
  <2>2. Len(h) = Len(g) + 1 /\ h[Len(g) + 1] = c /\ \A i \in 1..Len(g) : h[i] = g[i]
    BY ONLY <2>1, AppendProperties
  <2>3. Len(h) = k + 1 /\ \A i \in 1..(k + 1) : h[i] = D[i]
    BY <2>1, <2>2
  <2> QED
    BY <2>3 DEF h
<1>6. x.screen.players = players /\ x.screen.phase = "DealerTurn"
  BY <1>3 DEF Open, Same, SamePlaces
<1>7. x \in Discreet
  BY <1>3, <1>6 DEF Discreet, NoPeek
<1>8. \A q \in Player : x.screen.row[q] = v.screen.row[q]
  BY <1>2, <1>3 DEF Marked
<1> QED
  BY <1>5, <1>6, <1>7, <1>8 DEF Open

\* The hole card is turned.
LEMMA HoleOpened ==
  ASSUME IInv, DealerDealt, phase = "DealerTurn", NEW w, Exact(w), NEW e \in Payload,
         e.kind \in {"DealerHoleCardRevealed"}, e.n = dealerCards[2],
         NEW x, x = ApplyEvent(w, e)
  PROVE  Open(x, dealerCards, 2) /\ Leads(w, <<e>>, x, Discreet)
PROOF
<1>1. /\ w \in Discreet /\ w \in Shown /\ w.screen.players = players
      /\ w.screen.phase = "DealerTurn" /\ DealerRight(w.screen)
      /\ w.screen.dealer \in Seq(Pip \cup {Hidden})
      /\ \A q \in Player : RowRight(w.screen.row[q], q)
  BY DEF Exact, Clean, Discreet, Right, PhaseRight, GamePhaseOf, Shown, UiState, TableState
<1>2. e.kind \in CardKinds /\ e.kind = "DealerHoleCardRevealed"
  BY DEF CardKinds
<1>3. x \in Shown /\ Marked(w.screen, e, x.screen) /\ Same(w.screen, x.screen)
  BY <1>1, <1>2, CardOn
<1>4. x.screen.dealer = [i \in DOMAIN w.screen.dealer |-> IF i = 2 THEN e.n ELSE w.screen.dealer[i]]
  BY <1>2, <1>3 DEF Marked
<1>5. Len(dealerCards) = 2 /\ Len(w.screen.dealer) = 2 /\ DOMAIN w.screen.dealer = 1..2
  <2>1. Len(dealerCards) = 2
    BY DEF DealerDealt
  <2>2. Len(w.screen.dealer) = 2
    BY <1>1, <2>1 DEF DealerRight
  <2> QED
    BY <1>1, <2>1, <2>2, LenProperties
<1>6. w.screen.dealer[1] = dealerCards[1]
  BY <1>1, <1>5 DEF DealerRight
<1>7. Len(x.screen.dealer) = 2 /\ x.screen.dealer[1] = dealerCards[1]
      /\ x.screen.dealer[2] = dealerCards[2]
  <2>1. x.screen.dealer \in Seq(Pip \cup {Hidden})
    BY <1>3 DEF Shown, UiState, TableState
  <2> QED
    BY <1>4, <1>5, <1>6, <2>1
<1>8. x.screen.players = players /\ x.screen.phase = "DealerTurn"
  BY <1>1, <1>3 DEF Same, SamePlaces
<1>9. x \in Discreet
  BY <1>3, <1>8 DEF Discreet, NoPeek
<1>10. \A q \in Player : x.screen.row[q] = w.screen.row[q]
  BY <1>2, <1>3 DEF Marked
<1>11. Leads(w, <<e>>, x, Discreet)
  BY <1>1, <1>9, LeadsEvent
<1>12. \A i \in 1..2 : i = 1 \/ i = 2
  OBVIOUS
<1>13. Open(x, dealerCards, 2)
  BY <1>1, <1>7, <1>8, <1>9, <1>10, <1>12 DEF Open
<1> QED
  BY <1>11, <1>13

\* What the dealer draws, card by card.
DrawsOf(drawn) == [k \in DOMAIN drawn |-> Dealers("DealerCardDealt", drawn[k])]

\* They are as many events as cards.
LEMMA DrawsAre ==
  ASSUME phase \in Phase, NEW drawn \in Seq(Cards)
  PROVE  /\ Kinds(DrawsOf(drawn), {"DealerCardDealt"}) /\ Len(DrawsOf(drawn)) = Len(drawn)
         /\ \A k \in 1..Len(drawn) :
              /\ DrawsOf(drawn)[k] \in Payload /\ DrawsOf(drawn)[k].n = drawn[k]
              /\ DrawsOf(drawn)[k].kind = "DealerCardDealt"
PROOF
<1> DEFINE r == DrawsOf(drawn)
<1>1. DOMAIN r = 1..Len(drawn) /\ Len(drawn) \in Nat
      /\ \A k \in 1..Len(drawn) : r[k] = Dealers("DealerCardDealt", drawn[k]) /\ drawn[k] \in Cards
  BY DEF DrawsOf
<1>2. \A k \in 1..Len(drawn) : /\ r[k] \in Payload /\ r[k].n = drawn[k]
                               /\ r[k].kind = "DealerCardDealt"
  BY <1>1, DealerEvents
<1>3. r = [k \in 1..Len(drawn) |-> r[k]]
  BY DEF DrawsOf
<1> HIDE DEF r
<1>4. r \in Seq(Payload) /\ Len(r) = Len(drawn)
  BY <1>1, <1>2, <1>3
<1> QED
  BY <1>2, <1>4 DEF Kinds, r

\* They open the rest of the dealer's cards.
LEMMA DrawsOpen ==
  ASSUME phase \in Phase, NEW drawn \in Seq(Cards), NEW D, NEW h \in Nat,
         \A k \in 1..Len(drawn) : D[h + k] = drawn[k],
         NEW v, Open(v, D, h)
  PROVE  \E x : Leads(v, DrawsOf(drawn), x, Discreet) /\ Open(x, D, h + Len(drawn))
PROOF
<1> DEFINE r == DrawsOf(drawn)
           n == Len(r)
           S == [k \in 0..n |-> {w \in Discreet : Open(w, D, h + k)}]
<1>1. /\ r \in Seq(Payload) /\ n = Len(drawn) /\ n \in Nat
      /\ \A k \in 1..n : r[k] \in Payload /\ r[k].n = drawn[k] /\ r[k].kind = "DealerCardDealt"
  <2>1. r \in Seq(Payload) /\ n = Len(drawn)
    BY DrawsAre DEF Kinds
  <2>2. n \in Nat
    BY <2>1
  <2> QED
    BY <2>1, <2>2, DrawsAre
<1>2. \A k \in 0..n : S[k] = {w \in Discreet : Open(w, D, h + k)}
  OBVIOUS
<1>5. n = Len(r)
  OBVIOUS
<1> HIDE DEF r, n, S
<1>3. Upholds(S, r, Discreet)
  <2> SUFFICES ASSUME NEW k \in 1..n, NEW w \in S[k - 1]
               PROVE  ApplyEvent(w, r[k]) \in S[k] \cap Discreet
    BY <1>5 DEF Upholds
  <2>1. k \in Nat /\ k - 1 \in 0..n /\ k \in 0..n /\ h + (k - 1) \in Nat
        /\ h + (k - 1) + 1 = h + k
    BY <1>1
  <2>2. Open(w, D, h + (k - 1))
    BY <1>2, <2>1
  <2>3. PICK j : j = h + (k - 1)
    OBVIOUS
  <2>4. j \in Nat /\ j + 1 = h + k /\ Open(w, D, j)
    BY <2>1, <2>2, <2>3
  <2>5. PICK e \in Payload : e = r[k] /\ e.kind \in {"DealerCardDealt"} /\ e.n = D[j + 1]
    BY <1>1, <2>4
  <2>6. PICK x : x = ApplyEvent(w, e)
    OBVIOUS
  <2>7. Open(x, D, j + 1)
    BY <2>4, <2>5, <2>6, OpenedOne
  <2>8. x \in Discreet /\ Open(x, D, h + k)
    BY <2>4, <2>7 DEF Open
  <2> QED
    BY <1>2, <2>1, <2>5, <2>6, <2>8
<1>4. v \in S[0] \cap Discreet
  <2>1. 0 \in 0..n /\ h + 0 = h /\ v \in Discreet
    BY <1>1 DEF Open
  <2> QED
    BY <1>2, <2>1
<1>6. PICK x \in S[n] : Leads(v, r, x, Discreet)
  BY <1>1, <1>3, <1>4, <1>5, DiscreetShown, LeadsInduct
<1>7. Open(x, D, h + n)
  <2>1. n \in 0..n
    BY <1>1
  <2> QED
    BY <1>2, <1>6, <2>1
<1> QED
  BY <1>1, <1>6, <1>7 DEF r

\* The first cards of a longer hand.
LEMMA OpenLonger ==
  ASSUME NEW v, NEW D, NEW G, NEW k, Open(v, D, k), \A i \in 1..k : G[i] = D[i]
  PROVE  Open(v, G, k)
PROOF
  BY DEF Open

\* The dealer's hand is announced.
LEMMA DealerAnnounced ==
  ASSUME IInv, IInv', DealerDealt, DealerPlaying, forgotten' = forgotten
  PROVE  Announced
PROOF
<1>1. PICK drawn \in Draws :
        /\ dealerCards' = dealerCards \o drawn
        /\ Emit(Then(Then(<<Dealers("DealerHoleCardRevealed", dealerCards[2])>>, DrawsOf(drawn)),
                     <<PhaseChanged>>))
  BY DEF DealerPlaying, Then, DrawsOf
<1>2. /\ phase = "DealerTurn" /\ phase' = "Payouts" /\ phase \in Phase
      /\ UNCHANGED <<players, waiting, observers, player>>
      /\ dealer' \in DealerHands(dealer, Cards)
  BY PeopleNow DEF People, TypeOK, DealerPlaying, PlayHand
<1>3. dealerCards \in Seq(Cards) /\ Len(dealerCards) = 2 /\ dealerCards[2] \in Cards
  <2>1. dealerCards \in Seq(Cards) /\ Len(dealerCards) = 2
    BY <1>2 DEF DealerDealt
  <2> QED
    BY <2>1
<1>4. drawn \in Seq(Cards)
  <2>1. Cards \in SUBSET Pip /\ dealer \in Hand
    BY ShoeAssumption, PeopleNow DEF People, TypeOK
  <2>2. dealer' \in Hand /\ dealer'.cards >= dealer.cards
    BY <1>2, <2>1, DealerHandsType
  <2>3. dealer'.cards - dealer.cards \in Nat
    BY <2>1, <2>2 DEF Hand
  <2>4. drawn \in [1..(dealer'.cards - dealer.cards) -> Cards]
    BY <1>1 DEF Draws
  <2> QED
    BY <2>3, <2>4
<1> DEFINE rv == Dealers("DealerHoleCardRevealed", dealerCards[2])
           es == DrawsOf(drawn)
           c == Then(<<rv>>, es)
<1>5. /\ rv \in Payload /\ rv.kind = "DealerHoleCardRevealed" /\ rv.n = dealerCards[2]
  <2>1. \A k \in Cards : /\ Dealers("DealerHoleCardRevealed", k) \in Payload
                         /\ Dealers("DealerHoleCardRevealed", k).kind = "DealerHoleCardRevealed"
                         /\ Dealers("DealerHoleCardRevealed", k).n = k
    BY <1>2, DealerEvents
  <2> QED
    BY <1>3, <2>1
<1>6. Kinds(es, {"DealerCardDealt"})
  BY <1>2, <1>4, DrawsAre
<1> HIDE DEF rv, es
<1>7. Kinds(c, InRound) /\ c \in Seq(Payload) /\ es \in Seq(Payload) /\ <<rv>> \in Seq(Payload)
  <2>1. "DealerHoleCardRevealed" \in InRound /\ "DealerCardDealt" \in InRound
    BY DEF InRound, CardKinds
  <2>2. Kinds(es, InRound)
    BY <1>6, <2>1 DEF Kinds
  <2>3. Kinds(<<rv>>, InRound)
    BY <1>5, <2>1, KindsOne
  <2>4. Kinds(c, InRound)
    BY <2>2, <2>3, KindsThen
  <2> QED
    BY <2>2, <2>3, <2>4 DEF Kinds
<1>8. Told(Then(c, <<PhaseChanged>>))
  BY <1>2, <1>7, PassedTold DEF PlacesKept
<1> DEFINE D == dealerCards \o drawn
           n == Len(drawn)
<1>9. /\ D = dealerCards' /\ Len(D) = 2 + n /\ n \in Nat
      /\ \A i \in 1..2 : D[i] = dealerCards[i]
      /\ \A k \in 1..n : D[2 + k] = drawn[k]
  <2> DEFINE a == dealerCards
             G == a \o drawn
  <2>1. a \in Seq(Cards) /\ Len(a) = 2 /\ n \in Nat
    BY <1>3, <1>4
  <2>2. Len(G) = Len(a) + Len(drawn)
        /\ \A i \in 1..(Len(a) + Len(drawn)) :
             G[i] = IF i <= Len(a) THEN a[i] ELSE drawn[i - Len(a)]
    BY ONLY <1>4, <2>1, ConcatProperties
  <2>6. D = G
    OBVIOUS
  <2> HIDE DEF a, G, D
  <2>3. \A i \in 1..2 : G[i] = a[i]
    BY <2>1, <2>2
  <2>4. \A k \in 1..n : G[2 + k] = drawn[k]
    <3> SUFFICES ASSUME NEW k \in 1..n PROVE G[2 + k] = drawn[k]
      OBVIOUS
    <3>1. 2 + k \in 1..(Len(a) + Len(drawn)) /\ ~(2 + k <= Len(a)) /\ (2 + k) - Len(a) = k
      BY <2>1
    <3> QED
      BY <2>2, <3>1
  <2>5. dealerCards' = D /\ Len(G) = 2 + n
    BY <1>1, <2>1, <2>2 DEF D
  <2> QED
    BY <2>3, <2>4, <2>5, <2>6 DEF a
<1> HIDE DEF D, c
<1>10. ASSUME NEW w, Exact(w)
       PROVE  \E v : Leads(w, c, v, Discreet) /\ Ready(v)
  <2>1. PICK x : x = ApplyEvent(w, rv)
    OBVIOUS
  <2>2. PICK e \in Payload : e = rv /\ e.kind \in {"DealerHoleCardRevealed"}
                             /\ e.n = dealerCards[2] /\ x = ApplyEvent(w, e)
    BY <1>5, <2>1
  <2>3. Open(x, dealerCards, 2) /\ Leads(w, <<e>>, x, Discreet)
    BY <1>2, <1>10, <2>2, HoleOpened
  <2>4. Open(x, D, 2) /\ Leads(w, <<rv>>, x, Discreet)
    BY <1>9, <2>2, <2>3, OpenLonger
  <2>5. PICK v : Leads(x, es, v, Discreet) /\ Open(v, D, 2 + n)
    BY <1>2, <1>4, <1>9, <2>4, DrawsOpen DEF es
  <2>6. Leads(w, c, v, Discreet)
    BY <1>7, <2>4, <2>5, LeadsThen DEF c
  <2>7. DealerRight(v.screen)'
    BY <1>9, <2>5 DEF Open, DealerRight
  <2>8. \A q \in Player : RowRight(v.screen.row[q], q)'
    <3> SUFFICES ASSUME NEW q \in Player PROVE RowRight(v.screen.row[q], q)'
      OBVIOUS
    <3>1. RowRight(v.screen.row[q], q)
      BY <2>5 DEF Open
    <3> QED
      BY <1>2, <3>1, RowKept
  <2> QED
    BY <1>2, <2>5, <2>6, <2>7, <2>8 DEF Ready, Open
<1>11. Heard(Then(c, <<PhaseChanged>>))
  BY <1>2, <1>7, <1>10, ReadyHeard
<1> QED
  BY <1>1, <1>8, <1>11 DEF Announced, c, rv, es

\* So is the end of a round.
LEMMA SettlingAnnounced ==
  ASSUME IInv, IInv', Bare, Settling, UNCHANGED <<dealerCards, forgotten>>
  PROVE  Announced
PROOF
<1> DEFINE e == Event("GameFinished", Bettors, 0)
<1>1. /\ phase = "Payouts" /\ phase' = "Finished" /\ phase \in Phase
      /\ UNCHANGED <<turn, players, waiting, observers>>
      /\ Emit(<<e, PhaseChanged>>)
      /\ player \in [Player -> PlayerState]
  BY PeopleNow DEF People, TypeOK, Settling, SettleRound
<1>2. \A q \in Player : player'[q].hand = player[q].hand /\ player'[q].bet = player[q].bet
  <2> SUFFICES ASSUME NEW q \in Player
               PROVE  player'[q].hand = player[q].hand /\ player'[q].bet = player[q].bet
    OBVIOUS
  <2>1. player[q] \in PlayerState
    BY <1>1
  <2>2. \/ player'[q] = player[q]
        \/ \E b : player'[q] = [player[q] EXCEPT !.balance = b]
    BY DEF Settling, SettleRound
  <2> QED
    BY <2>1, <2>2 DEF PlayerState
<1>3. /\ e \in Payload /\ e.kind = "GameFinished" /\ e.who = Bettors
  <2>1. Bettors \in SUBSET Player /\ 0 \in Nat
    BY PeopleNow DEF People, Bettors
  <2> QED
    BY <1>1, <2>1, EventTypes DEF Plain
<1> HIDE DEF e
<1>4. <<e, PhaseChanged>> = Then(<<e>>, <<PhaseChanged>>)
  BY <1>3, PhaseChangedType, PairIs DEF Then
<1>5. Kinds(<<e>>, InRound) /\ <<e>> \in Seq(Payload)
  BY <1>3, KindsOne DEF InRound, Kinds
<1>6. Told(Then(<<e>>, <<PhaseChanged>>))
  BY <1>1, <1>5, PassedTold DEF PlacesKept
<1>7. ASSUME NEW w, Exact(w)
      PROVE  \E v : Leads(w, <<e>>, v, Discreet) /\ Ready(v)
  <2>1. PICK v : v = ApplyEvent(w, e)
    OBVIOUS
  <2>2. /\ w \in Discreet /\ w \in Shown /\ w.screen.players = players
        /\ DealerRight(w.screen)
        /\ \A q \in Player : RowRight(w.screen.row[q], q)
    BY <1>7 DEF Exact, Clean, Discreet
  <2>3. v \in Shown /\ Turned(w.screen, e, v.screen) /\ SamePlaces(w.screen, v.screen)
    BY <1>3, <2>1, <2>2, RoundOn DEF RoundKinds
  <2>4. /\ v.screen.phase = "Finished" /\ v.screen.dealer = w.screen.dealer
        /\ v.screen.players = players'
        /\ \A q \in Player : v.screen.row[q] =
             IF q \in Bettors /\ q \in Range(w.screen.players)
             THEN Unstaked(w.screen.row[q]) ELSE w.screen.row[q]
    BY <1>1, <1>3, <2>2, <2>3 DEF Turned, Clears, SamePlaces
  <2>5. v \in Discreet
    BY <2>3, <2>4 DEF Discreet, NoPeek
  <2>6. Leads(w, <<e>>, v, Discreet)
    BY <1>3, <2>1, <2>2, <2>5, LeadsEvent
  <2>7. DealerRight(v.screen)'
    BY <1>1, <2>2, <2>4, DealerKept
  <2>8. \A q \in Player : RowRight(v.screen.row[q], q)'
    <3> SUFFICES ASSUME NEW q \in Player PROVE RowRight(v.screen.row[q], q)'
      OBVIOUS
    <3>1. RowRight(w.screen.row[q], q)
      BY <2>2
    <3>2. CASE q \in Bettors
      <4>1. v.screen.row[q] = Unstaked(w.screen.row[q])
        BY <2>2, <2>4, <3>2 DEF Bettors, Seated
      <4>2. w.screen.row[q] \in Row
        BY <2>2 DEF Shown, UiState, TableState
      <4>3. /\ Unstaked(w.screen.row[q]).hand = w.screen.row[q].hand
            /\ Unstaked(w.screen.row[q]).bust <=> w.screen.row[q].bust
            /\ Unstaked(w.screen.row[q]).bet = 0
        BY <4>2 DEF Unstaked, Row
      <4> QED
        BY <1>1, <1>2, <3>1, <4>1, <4>3 DEF RowRight
    <3>3. CASE q \notin Bettors
      <4>1. v.screen.row[q] = w.screen.row[q]
        BY <2>4, <3>3
      <4>2. player[q].bet = 0
        BY <3>3 DEF Bettors, Bare
      <4> QED
        BY <1>1, <1>2, <3>1, <4>1, <4>2 DEF RowRight
    <3> QED
      BY <3>2, <3>3
  <2> QED
    BY <1>1, <2>4, <2>5, <2>6, <2>7, <2>8 DEF Ready
<1>8. Heard(Then(<<e>>, <<PhaseChanged>>))
  BY <1>1, <1>5, <1>7, ReadyHeard
<1> QED
  BY <1>1, <1>4, <1>6, <1>8 DEF Announced

\* And the beginning of the next, which is all that is said of those it drops.
LEMMA StartingOverAnnounced ==
  ASSUME IInv, IInv', StartingOver
  PROVE  Announced
PROOF
<1>1. /\ phase' = "WaitingForBets" /\ players' = players /\ waiting' = <<>> /\ observers' = {}
      /\ player' = [p \in Player |->
           IF p \in Seated THEN AtSeat(player[p].seat, player[p].balance) ELSE NoPlayer]
      /\ dealerCards' = <<>> /\ forgotten' = forgotten \cup Waiting \cup observers
      /\ Emit(<<PhaseChanged>>)
  BY DEF StartingOver, StartOver, NewRound
<1>2. Seated' = Seated /\ Waiting' = {}
  BY <1>1 DEF Seated, Waiting, Range
<1>3. PhaseChanged \in Payload /\ <<PhaseChanged>> \in Seq(Payload)
  <2>1. PhaseChanged \in Payload
    BY PhaseChangedType
  <2> QED
    BY <2>1
<1>4. ASSUME NEW w \in Shown
      PROVE  \E x : Leads(w, <<PhaseChanged>>, x, Shown) /\ Carry(w.screen, x.screen)
  <2>1. PICK x : x = ApplyEvent(w, PhaseChanged) /\ Passes(w, x)
    BY DEF Passes
  <2>2. /\ x \in Shown /\ SamePlaces(w.screen, x.screen)
        /\ PhaseRight(x.screen)' /\ TurnRight(x.screen)' /\ ActiveRight(x.screen)'
    BY <2>1, PhaseOn
  <2>3. Leads(w, <<PhaseChanged>>, x, Shown)
    BY <1>3, <2>1, <2>2, LeadsEvent
  <2>4. ASSUME NEW p \in Player
        PROVE  /\ \/ SeatRight(x.screen, p)'
                  \/ /\ p \in Seated' <=> p \in Seated
                     /\ p \in Range(x.screen.players) <=> p \in Range(w.screen.players)
               /\ \/ WatchRight(x.screen, p)'
                  \/ /\ p \in observers' <=> p \in observers
                     /\ p \in forgotten' <=> p \in forgotten
                     /\ p \in x.screen.observers <=> p \in w.screen.observers
               /\ \/ QueueRight(x.screen, p)'
                  \/ /\ p \in Waiting' <=> p \in Waiting
                     /\ p \in forgotten' <=> p \in forgotten
                     /\ p \in x.screen.waiting <=> p \in w.screen.waiting
    BY <1>1, <1>2, <2>2 DEF SamePlaces, WatchRight, QueueRight
  <2>5. Carry(w.screen, x.screen)
    BY <2>2, <2>4 DEF Carry
  <2> QED
    BY <2>3, <2>5
<1>5. Told(<<PhaseChanged>>)
  BY <1>3, <1>4 DEF Told
<1>6. ASSUME NEW w, Exact(w)
      PROVE  \E x : Leads(w, <<PhaseChanged>>, x, Discreet) /\ Clean(x)'
  <2>1. PICK x : x = ApplyEvent(w, PhaseChanged)
    OBVIOUS
  <2>2. w \in Discreet /\ Passes(w, x) /\ w.screen.players = players
    BY <1>6, <2>1 DEF Exact, Passes, Discreet, Clean
  <2>3. /\ x \in Shown /\ SamePlaces(w.screen, x.screen) /\ PhaseRight(x.screen)'
        /\ x.betting <=> Me \notin x.screen.observers
        /\ x.screen.dealer = <<>> /\ \A p \in Player : x.screen.row[p] = EmptyRow
    BY <1>1, <2>2, PhaseOn
  <2>4. x \in Discreet
    BY <2>3 DEF Discreet, NoPeek
  <2>5. Leads(w, <<PhaseChanged>>, x, Discreet)
    BY <1>3, <2>1, <2>2, <2>4, LeadsEvent
  <2>6. DealerRight(x.screen)'
    <3>1. Len(<<>>) = 0 /\ 1..0 = {}
      OBVIOUS
    <3> QED
      BY <1>1, <2>3, <3>1 DEF DealerRight
  <2>7. \A p \in Player : RowRight(x.screen.row[p], p)'
    <3> SUFFICES ASSUME NEW p \in Player PROVE RowRight(EmptyRow, p)'
      BY <2>3
    <3>1. player'[p].hand = EmptyHand /\ player'[p].bet = 0
      BY <1>1 DEF AtSeat, NoPlayer
    <3>2. ~IsBust(EmptyHand)
      BY DEF IsBust, EmptyHand
    <3> QED
      BY <1>1, <3>1, <3>2, RowType DEF RowRight
  <2>8. Me \in Present' => x.betting
    <3> SUFFICES ASSUME Me \in Present' PROVE x.betting
      OBVIOUS
    <3>1. Me \in Seated /\ Me \notin observers /\ Me \in Present
      BY <1>1, <1>2, PeopleNow DEF Present, People
    <3>2. Me \notin w.screen.observers
      BY <1>6, <3>1 DEF Exact, Right, WatchRight
    <3> QED
      BY <2>3, <3>2 DEF SamePlaces
  <2>9. Clean(x)'
    BY <1>1, <2>2, <2>3, <2>6, <2>7, <2>8 DEF Clean, SamePlaces
  <2> QED
    BY <2>5, <2>9
<1>7. Heard(<<PhaseChanged>>)
  BY <1>6 DEF Heard
<1> QED
  BY <1>1, <1>5, <1>7 DEF Announced

\* A member or a player changes no other phase than that of a turn.
LEMMA PhaseMoves ==
  ASSUME IInv, NEW p \in Player, Membership(p) \/ Play(p)
  PROVE  phase' = phase \/ (phase = "PlayerTurn" /\ phase' \in {"PlayerTurn", "DealerTurn"})
PROOF
<1>1. turn = p => phase = "PlayerTurn"
  BY PeopleNow DEF People
<1>2. CASE Membership(p)
  <2>1. ASSUME GiveUpSeat(p) \/ LeaveQueue(p)
        PROVE  phase' = phase \/ (phase = "PlayerTurn" /\ phase' \in {"PlayerTurn", "DealerTurn"})
    BY <1>1, <2>1 DEF GiveUpSeat, LeaveQueue, PassTurnTo
  <2>2. ASSUME NEW want, NEW chips, TakeSeat(p, want, chips)
        PROVE  phase' = phase
    BY <2>2 DEF TakeSeat, SitDown, QueueForSeat
  <2> QED
    BY <1>2, <2>1, <2>2 DEF Membership, JoinTable, LeaveSeat, LeaveTable
<1>3. CASE Play(p)
  <2>1. ASSUME NEW amount, PlaceBet(p, amount)
        PROVE  phase' = phase
    BY <2>1 DEF PlaceBet, SaturatingSub
  <2>2. ASSUME NEW c, Hit(p, c) \/ DoubleDown(p, c)
        PROVE  phase' = phase \/ (phase = "PlayerTurn" /\ phase' \in {"PlayerTurn", "DealerTurn"})
    BY <1>1, <2>2 DEF Hit, DoubleDown, SaturatingSub, PassTurnTo
  <2>3. ASSUME Stand(p)
        PROVE  phase' = phase \/ (phase = "PlayerTurn" /\ phase' \in {"PlayerTurn", "DealerTurn"})
    BY <1>1, <2>3 DEF Stand, PassTurnTo
  <2> QED
    BY <1>3, <2>1, <2>2, <2>3 DEF Play
<1> QED
  BY <1>2, <1>3

\* Who plays has a seat, and nobody else's stake changes.
LEMMA PlayStakes ==
  ASSUME IInv, NEW p \in Player, Play(p)
  PROVE  /\ p \in Seated /\ players' = players
         /\ \A q \in Player \ {p} : player'[q] = player[q]
PROOF
<1>1. turn = p => p \in Seated
  BY PeopleNow DEF People
<1>2. ASSUME NEW c, Hit(p, c)
      PROVE  p \in Seated /\ players' = players /\ \A q \in Player \ {p} : player'[q] = player[q]
  <2>1. \E x : player' = [player EXCEPT ![p] = x]
    BY <1>2 DEF Hit
  <2> QED
    BY <1>2, <2>1, PeopleNow DEF Hit, People, TypeOK
<1>3. ASSUME NEW c, DoubleDown(p, c)
      PROVE  p \in Seated /\ players' = players /\ \A q \in Player \ {p} : player'[q] = player[q]
  <2>1. \E x : player' = [player EXCEPT ![p] = x]
    BY <1>3 DEF DoubleDown, SaturatingSub
  <2> QED
    BY <1>3, <2>1, PeopleNow DEF DoubleDown, SaturatingSub, People, TypeOK
<1>4. ASSUME NEW amount, PlaceBet(p, amount)
      PROVE  p \in Seated /\ players' = players /\ \A q \in Player \ {p} : player'[q] = player[q]
  BY <1>4, PeopleNow DEF PlaceBet, SaturatingSub, People, TypeOK
<1>5. ASSUME Stand(p)
      PROVE  p \in Seated /\ players' = players /\ \A q \in Player \ {p} : player'[q] = player[q]
  BY <1>1, <1>5, PeopleNow DEF Stand, People, TypeOK
<1> QED
  BY <1>2, <1>3, <1>4, <1>5 DEF Play

\* Nobody without a seat has a stake.
LEMMA BareStep ==
  ASSUME IInv, Bare, [Next]_vars
  PROVE  Bare'
PROOF
<1>1. player \in [Player -> PlayerState] /\ Seated \in SUBSET Player
  BY PeopleNow DEF People, TypeOK
<1>2. ASSUME NEW p \in Player, Membership(p)
      PROVE  Bare'
  <2>1. ASSUME GiveUpSeat(p) \/ LeaveQueue(p)
        PROVE  Bare'
    <3>1. Seated' = Seated \ {p} /\ player' = [player EXCEPT ![p] = NoPlayer]
      BY <2>1, Departs
    <3>2. NoPlayer.bet = 0
      BY DEF NoPlayer, AtSeat
    <3> QED
      BY <1>1, <3>1, <3>2 DEF Bare
  <2>2. ASSUME NEW want, NEW chips, TakeSeat(p, want, chips)
        PROVE  Bare'
    <3>1. PICK s : SitDown(p, s, chips) \/ QueueForSeat(p, s)
      BY <2>2 DEF TakeSeat
    <3>2. \E b : player' = [player EXCEPT ![p] = AtSeat(s, b)]
      BY <3>1 DEF SitDown, QueueForSeat
    <3>3. \A b : AtSeat(s, b).bet = 0
      BY DEF AtSeat
    <3>4. Seated \subseteq Seated'
      <4>1. CASE players' = players
        BY <4>1 DEF Seated
      <4>2. CASE players' = Append(players, p)
        BY <4>2, PeopleNow, AppendElement DEF People, TypeOK, Seated
      <4> QED
        BY <3>1, <4>1, <4>2 DEF SitDown, QueueForSeat
    <3> QED
      BY <1>1, <3>2, <3>3, <3>4 DEF Bare
  <2>3. ASSUME UNCHANGED <<players, player>>
        PROVE  Bare'
    BY <2>3 DEF Bare, Seated
  <2> QED
    BY <1>2, <2>1, <2>2, <2>3 DEF Membership, JoinTable, LeaveSeat, LeaveTable
<1>3. ASSUME NEW p \in Player, Play(p)
      PROVE  Bare'
  BY <1>3, PlayStakes DEF Bare, Seated
<1>4. CASE Deal
  BY <1>4, DealStakes DEF Bare, Seated
<1>5. CASE PlayHand
  BY <1>5 DEF PlayHand, Bare, Seated
<1>6. CASE SettleRound
  <2> SUFFICES ASSUME NEW p \in Player, p \notin Seated' PROVE player'[p].bet = 0
    BY DEF Bare
  <2>1. p \notin Seated
    BY <1>6 DEF SettleRound, Seated
  <2>2. player'[p] = player[p]
    BY <1>6, <2>1 DEF SettleRound, Bettors
  <2> QED
    BY <2>1, <2>2 DEF Bare
<1>7. CASE StartOver
  <2>1. \A p \in Player : player'[p].bet = 0
    BY <1>7 DEF StartOver, NewRound, AtSeat, NoPlayer
  <2> QED
    BY <2>1 DEF Bare
<1>8. CASE UNCHANGED vars
  BY <1>8 DEF vars, Bare, Seated
<1> QED
  BY <1>2, <1>3, <1>4, <1>5, <1>6, <1>7, <1>8 DEF Next, DealerStep

\* Taking a seat is announced.
LEMMA SeatingAnnounced ==
  ASSUME IInv, Bare, NEW p \in Player, Seating(p), UNCHANGED <<dealerCards, forgotten>>
  PROVE  Announced
PROOF
<1>1. PICK chips : TakeSeat(p, "any", chips)
  BY DEF Seating
<1> DEFINE es == <<Of(IF p \in Seated' THEN "PlayerJoined" ELSE "PlayerAddedToWaitingList", p)>>
<1>2. Emit(es)
  BY DEF Seating
<1>3. Told(es) /\ Heard(es)
  BY <1>1, SeatTold, SeatHeard
<1> HIDE DEF es
<1> QED
  BY <1>2, <1>3 DEF Announced

\* Leaving it is announced.
LEMMA UnseatingAnnounced ==
  ASSUME IInv, IInv', Bare, NEW p \in Player, Unseating(p), UNCHANGED <<dealerCards, forgotten>>
  PROVE  Announced
PROOF
<1> DEFINE es == Then(Left(p), <<Of("ObserverJoined", p)>>)
<1>1. LeaveSeat(p) /\ Emit(es)
  BY DEF Unseating, Then
<1>2. Told(es) /\ Heard(es)
  BY <1>1, UnseatTold, UnseatHeard
<1> HIDE DEF es
<1> QED
  BY <1>1, <1>2 DEF Announced

\* Leaving the table is announced.
LEMMA LeavingAnnounced ==
  ASSUME IInv, IInv', Bare, NEW p \in Player, LeaveTable(p), Emit(Left(p)),
         UNCHANGED <<dealerCards, forgotten>>
  PROVE  Announced
PROOF
<1>1. Told(Left(p)) /\ Heard(Left(p))
  BY LeaveTold, LeaveHeard
<1> QED
  BY <1>1 DEF Announced

\* So is joining it, to the clients that are there.
LEMMA JoiningAnnounced ==
  ASSUME IInv, IInv', Bare, NEW p \in Player \ {Me}, JoinTable(p),
         Emit(<<Of("ObserverJoined", p)>>), UNCHANGED <<dealerCards, forgotten>>
  PROVE  Announced
PROOF
<1>1. Told(<<Of("ObserverJoined", p)>>) /\ Heard(<<Of("ObserverJoined", p)>>)
  BY JoinTold, JoinHeard
<1> QED
  BY <1>1 DEF Announced

\* What a player does on its turn is announced.
LEMMA PlayingAnnounced ==
  ASSUME IInv, IInv', NEW p \in Player, Playing(p), UNCHANGED <<dealerCards, forgotten>>
  PROVE  Announced
PROOF
  BY BettingAnnounced, HittingAnnounced, StandingAnnounced, DoublingAnnounced DEF Playing

\* Every step of the table is announced, and is none of the client's.
LEMMA TableAnnounced ==
  ASSUME TableInv, IInv', TableStep
  PROVE  Announced /\ UNCHANGED <<sent, feed, ui, mixed>>
PROOF
<1>1. IInv /\ Bare /\ DealerDealt
  BY DEF TableInv
<1>2. ASSUME UNCHANGED <<dealerCards, forgotten>>, MyCommand
      PROVE  Announced
  BY <1>1, <1>2, SeatingAnnounced, UnseatingAnnounced, PlayingAnnounced DEF MyCommand
<1>3. ASSUME UNCHANGED <<dealerCards, forgotten>>, MyTimeout
      PROVE  Announced
  BY <1>1, <1>3, StandingAnnounced DEF MyTimeout
<1>4. ASSUME UNCHANGED <<dealerCards, forgotten>>, NEW p \in Player \ {Me}, OthersCommand(p)
      PROVE  Announced
  BY <1>1, <1>4, SeatingAnnounced, UnseatingAnnounced, PlayingAnnounced, JoiningAnnounced,
     LeavingAnnounced DEF OthersCommand
<1>5. ASSUME Dealing \/ DealerPlaying, UNCHANGED forgotten
      PROVE  Announced
  BY <1>1, <1>5, DealingAnnounced, DealerAnnounced
<1>6. ASSUME Settling, UNCHANGED <<dealerCards, forgotten>>
      PROVE  Announced
  BY <1>1, <1>6, SettlingAnnounced
<1>7. ASSUME StartingOver
      PROVE  Announced
  BY <1>1, <1>7, StartingOverAnnounced
<1>8. \/ UNCHANGED <<dealerCards, forgotten>> /\ MyCommand
      \/ UNCHANGED <<dealerCards, forgotten>> /\ MyTimeout
      \/ UNCHANGED <<dealerCards, forgotten>> /\ \E p \in Player \ {Me} : OthersCommand(p)
      \/ (Dealing \/ DealerPlaying) /\ UNCHANGED forgotten
      \/ Settling /\ UNCHANGED <<dealerCards, forgotten>>
      \/ StartingOver
  BY DEF TableStep
<1>9. UNCHANGED <<sent, feed, ui, mixed>>
  BY DEF TableStep
<1>10. Announced
  BY ONLY <1>2, <1>3, <1>4, <1>5, <1>6, <1>7, <1>8
<1> QED
  BY <1>9, <1>10

\* What the dealer draws is cards.
LEMMA DrawsType ==
  ASSUME IInv, PlayHand, NEW drawn \in Draws
  PROVE  drawn \in Seq(Cards)
PROOF
<1>1. Cards \in SUBSET Pip /\ dealer \in Hand
  BY ShoeAssumption, PeopleNow DEF People, TypeOK
<1>2. dealer' \in DealerHands(dealer, Cards)
  BY DEF PlayHand
<1>3. dealer' \in Hand /\ dealer'.cards >= dealer.cards
  BY <1>1, <1>2, DealerHandsType
<1>4. dealer'.cards - dealer.cards \in Nat
  BY <1>1, <1>3 DEF Hand
<1>5. drawn \in [1..(dealer'.cards - dealer.cards) -> Cards]
  BY DEF Draws
<1> QED
  BY <1>4, <1>5

\* The dealer has two cards while a turn is on, and none before a deal.
LEMMA DealtStep ==
  ASSUME TableInv, ViewNext
  PROVE  DealerDealt'
PROOF
<1>1. IInv /\ DealerDealt /\ phase \in Phase
  BY PeopleNow DEF TableInv, People, TypeOK
<1>2. ASSUME UNCHANGED dealerCards, NEW p \in Player, Membership(p) \/ Play(p)
      PROVE  DealerDealt'
  <2>1. phase' = phase \/ (phase = "PlayerTurn" /\ phase' \in {"PlayerTurn", "DealerTurn"})
    BY <1>1, <1>2, PhaseMoves
  <2> QED
    BY <1>1, <1>2, <2>1 DEF DealerDealt
<1>3. ASSUME UNCHANGED <<dealerCards, phase>>
      PROVE  DealerDealt'
  BY <1>1, <1>3 DEF DealerDealt
<1>4. ASSUME Connection
      PROVE  DealerDealt'
  <2>1. UNCHANGED <<dealerCards, vars>> \/ (UNCHANGED dealerCards /\ Membership(Me))
    <3>1. JoinMe \/ LeaveArrives \/ JoinArrives => UNCHANGED dealerCards
      BY DEF JoinMe, LeaveArrives, JoinArrives
    <3>2. JoinMe \/ LeaveArrives \/ JoinArrives => UNCHANGED vars \/ Membership(Me)
      BY DEF JoinMe, LeaveArrives, JoinArrives, Membership
    <3>3. \/ Enter \/ Subscribe \/ JoinElsewhere \/ JoinRefused \/ TakeSnapshot \/ BackToLobby
          \/ StopForwarder \/ DismissResult \/ Tick
          => UNCHANGED <<dealerCards, vars>>
      BY DEF Enter, Subscribe, JoinElsewhere, JoinRefused, TakeSnapshot, BackToLobby,
             StopForwarder, DismissResult, Tick
    <3> QED
      BY <1>4, <3>1, <3>2, <3>3 DEF Connection, Requests
  <2> QED
    BY <1>2, <1>3, <2>1 DEF vars
<1>5. ASSUME UNCHANGED dealerCards,
             MyCommand \/ MyTimeout \/ \E p \in Player \ {Me} : OthersCommand(p)
      PROVE  DealerDealt'
  <2>1. ASSUME NEW p \in Player, Seating(p) \/ Unseating(p) \/ Playing(p) \/ OthersCommand(p)
        PROVE  Membership(p) \/ Play(p)
    BY <2>1 DEF OthersCommand, Seating, Unseating, Playing, Betting, Hitting, Standing, Doubling,
                Membership, Play
  <2>2. MyCommand \/ MyTimeout => Membership(Me) \/ Play(Me)
    BY <2>1 DEF MyCommand, MyTimeout, Playing
  <2> QED
    BY <1>2, <1>5, <2>1, <2>2
<1>6. ASSUME Dealing
      PROVE  DealerDealt'
  <2>1. PICK up \in Cards, hole \in Cards : dealerCards' = <<up, hole>>
    BY <1>6 DEF Dealing
  <2>2. phase' = "PlayerTurn"
    BY <1>1, <1>6, DealStakes DEF Dealing, Deal
  <2>3. <<up, hole>> \in Seq(Cards) /\ Len(<<up, hole>>) = 2
    OBVIOUS
  <2> QED
    BY <2>1, <2>2, <2>3 DEF DealerDealt
<1>7. ASSUME DealerPlaying
      PROVE  DealerDealt'
  <2>1. PlayHand /\ \E drawn \in Draws : dealerCards' = dealerCards \o drawn
    BY <1>7 DEF DealerPlaying
  <2>2. PICK drawn \in Draws : dealerCards' = dealerCards \o drawn
    BY <2>1
  <2>3. drawn \in Seq(Cards) /\ dealerCards \in Seq(Cards) /\ phase' = "Payouts"
    BY <1>1, <2>1, DrawsType DEF DealerDealt, PlayHand
  <2>4. dealerCards' \in Seq(Cards)
    BY ONLY <2>2, <2>3, ConcatProperties
  <2> QED
    BY <2>3, <2>4 DEF DealerDealt
<1>8. ASSUME Settling, UNCHANGED dealerCards
      PROVE  DealerDealt'
  <2>1. phase' = "Finished"
    BY <1>8 DEF Settling, SettleRound
  <2> QED
    BY <1>1, <1>8, <2>1 DEF DealerDealt
<1>9. ASSUME StartingOver
      PROVE  DealerDealt'
  <2>1. phase' = "WaitingForBets" /\ dealerCards' = <<>> /\ <<>> \in Seq(Cards)
    BY <1>9 DEF StartingOver, StartOver, NewRound
  <2> QED
    BY <2>1 DEF DealerDealt
<1>10. TableStep =>
         \/ /\ UNCHANGED dealerCards
            /\ MyCommand \/ MyTimeout \/ \E p \in Player \ {Me} : OthersCommand(p)
         \/ Dealing \/ DealerPlaying
         \/ Settling /\ UNCHANGED dealerCards
         \/ StartingOver
  BY DEF TableStep
<1>11. Connection \/ TableStep
  BY DEF ViewNext
<1> QED
  BY ONLY <1>4, <1>5, <1>6, <1>7, <1>8, <1>9, <1>10, <1>11

\* No step breaks what is known of the table.
LEMMA TableInvStep == TableInv /\ [ViewNext]_allVars => TableInv'
PROOF
<1> SUFFICES ASSUME TableInv, [ViewNext]_allVars PROVE TableInv'
  OBVIOUS
<1>1. IInv /\ Bare /\ DealerDealt
  BY DEF TableInv
<1>2. [Next]_vars
  BY EngineStep
<1>3. IInv' /\ Bare'
  BY <1>1, <1>2, StepInv, BareStep
<1>4. DealerDealt'
  <2>1. CASE ViewNext
    BY <2>1, DealtStep
  <2>2. CASE UNCHANGED allVars
    BY <1>1, <2>2 DEF allVars, vars, viewVars, DealerDealt
  <2> QED
    BY <2>1, <2>2
<1> QED
  BY <1>3, <1>4 DEF TableInv

\* An empty table begins with it.
LEMMA TableInvInit == ViewInit => TableInv
PROOF
<1> SUFFICES ASSUME ViewInit PROVE TableInv
  OBVIOUS
<1>1. IInv
  BY InitInv DEF ViewInit
<1>2. Bare
  BY DEF ViewInit, Init, Bare, NoPlayer, AtSeat
<1>3. phase = "WaitingForBets" /\ dealerCards = <<>> /\ <<>> \in Seq(Cards)
  BY DEF ViewInit, Init
<1> QED
  BY <1>1, <1>2, <1>3 DEF TableInv, DealerDealt

\* The same but for the result, which no event reads.
Twin(u, w) ==
  /\ u \in Shown /\ w \in Shown
  /\ Same(u.screen, w.screen) /\ w.screen.dealer = u.screen.dealer
  /\ \A p \in Player : w.screen.row[p] = u.screen.row[p]
  /\ w.betting <=> u.betting

\* A move leaves twins twins.
LEMMA TwinMoves ==
  ASSUME NEW u, NEW w, Twin(u, w), NEW e \in Payload, e.kind \in MoveKinds,
         NEW x, x = ApplyEvent(u, e), NEW y, y = ApplyEvent(w, e)
  PROVE  Twin(x, y)
PROOF
<1>1. PICK p \in Player : e.who = {p}
  BY DEF Payload
<1>2. u \in Shown /\ w \in Shown
  BY DEF Twin
<1>3. /\ x \in Shown /\ x.betting = u.betting /\ Moved(u.screen, e, p, x.screen)
      /\ y \in Shown /\ y.betting = w.betting /\ Moved(w.screen, e, p, y.screen)
  BY <1>1, <1>2, MoveOn
<1>4. Same(x.screen, y.screen) /\ y.screen.dealer = x.screen.dealer
  BY <1>3 DEF Twin, Moved, Same, SamePlaces
<1>5. \A q \in Player : y.screen.row[q] = x.screen.row[q]
  BY <1>3 DEF Twin, Moved
<1>6. y.betting <=> x.betting
  BY <1>3 DEF Twin
<1> QED
  BY <1>3, <1>4, <1>5, <1>6 DEF Twin

\* What a card or a stake makes of the row r of q.
RowAfter(r, e, q, seated) ==
  IF q \notin e.who \/ q \notin Range(seated) THEN r
  ELSE IF e.kind = "PlayerPlacedBet" THEN [r EXCEPT !.bet = e.n]
  ELSE IF e.kind = "PlayerDoubledDown" THEN [r EXCEPT !.bet = @ + e.n]
  ELSE IF e.kind = "PlayerCardDealt" THEN [r EXCEPT !.hand = AddCard(@, e.n)]
  ELSE IF e.kind = "PlayerBust" THEN [r EXCEPT !.bust = TRUE]
  ELSE r

\* This is what Marked says of a row.
LEMMA MarkedRow ==
  ASSUME NEW s, NEW e, NEW t, Marked(s, e, t), NEW q \in Player
  PROVE  t.row[q] = RowAfter(s.row[q], e, q, s.players)
PROOF
  BY DEF Marked, RowAfter

\* A card or a stake leaves twins twins.
LEMMA TwinCards ==
  ASSUME NEW u, NEW w, Twin(u, w), NEW e \in Payload, e.kind \in CardKinds,
         NEW x, x = ApplyEvent(u, e), NEW y, y = ApplyEvent(w, e)
  PROVE  Twin(x, y)
PROOF
<1>1. u \in Shown /\ w \in Shown
  BY DEF Twin
<1>2. /\ x \in Shown /\ x.betting = u.betting /\ Marked(u.screen, e, x.screen)
      /\ y \in Shown /\ y.betting = w.betting /\ Marked(w.screen, e, y.screen)
      /\ Same(u.screen, x.screen) /\ Same(w.screen, y.screen)
  BY <1>1, CardOn
<1>3. Same(x.screen, y.screen)
  BY <1>2 DEF Twin, Same, SamePlaces
<1>4. y.screen.dealer = x.screen.dealer
  BY <1>2 DEF Twin, Marked
<1>5. \A q \in Player : y.screen.row[q] = x.screen.row[q]
  <2>1. \A q \in Player :
          /\ x.screen.row[q] = RowAfter(u.screen.row[q], e, q, u.screen.players)
          /\ y.screen.row[q] = RowAfter(w.screen.row[q], e, q, w.screen.players)
          /\ w.screen.row[q] = u.screen.row[q] /\ w.screen.players = u.screen.players
    BY <1>2, MarkedRow DEF Twin, Same, SamePlaces
  <2> QED
    BY <2>1
<1>6. y.betting <=> x.betting
  BY <1>2 DEF Twin
<1> QED
  BY <1>2, <1>3, <1>4, <1>5, <1>6 DEF Twin

\* So does an event about the round, PhaseChanged with its bet widget included.
LEMMA TwinRounds ==
  ASSUME NEW u, NEW w, Twin(u, w), NEW e \in Payload, e.kind \in RoundKinds,
         NEW x, x = ApplyEvent(u, e), NEW y, y = ApplyEvent(w, e)
  PROVE  Twin(x, y)
PROOF
<1>1. u \in Shown /\ w \in Shown
  BY DEF Twin
<1>2. /\ x \in Shown /\ Turned(u.screen, e, x.screen) /\ SamePlaces(u.screen, x.screen)
      /\ y \in Shown /\ Turned(w.screen, e, y.screen) /\ SamePlaces(w.screen, y.screen)
      /\ e.kind # "PhaseChanged" => x.betting = u.betting /\ y.betting = w.betting
      /\ e.kind = "PhaseChanged" =>
           /\ x.betting <=> Me \notin x.screen.observers /\ e.to = "WaitingForBets"
           /\ y.betting <=> Me \notin y.screen.observers /\ e.to = "WaitingForBets"
  BY <1>1, RoundOn
<1>3. SamePlaces(x.screen, y.screen)
  BY <1>2 DEF Twin, Same, SamePlaces
<1>4. Same(x.screen, y.screen) /\ y.screen.dealer = x.screen.dealer
  BY <1>2, <1>3 DEF Twin, Same, SamePlaces, Turned
<1>5. \A q \in Player : y.screen.row[q] = x.screen.row[q]
  BY <1>2 DEF Twin, Turned, Same, SamePlaces
<1>6. y.betting <=> x.betting
  BY <1>2, <1>3 DEF Twin, SamePlaces
<1> QED
  BY <1>2, <1>4, <1>5, <1>6 DEF Twin

\* Twins that hear the same stay twins.
LEMMA TwinsLead ==
  ASSUME NEW q \in Seq(Payload), NEW T \in {Shown, Discreet}, NEW u, NEW v, Leads(u, q, v, T),
         NEW w, Twin(u, w)
  PROVE  \E x : Leads(w, q, x, T) /\ Twin(v, x)
PROOF
<1> DEFINE n == Len(q)
<1>1. PICK f \in [0..n -> T] : /\ f[0] = u /\ f[n] = v
                               /\ \A k \in 1..n : f[k] = ApplyEvent(f[k - 1], q[k])
  BY DEF Leads
<1> DEFINE S == [k \in 0..n |-> {x \in T : Twin(f[k], x)}]
<1>2. n \in Nat /\ \A k \in 1..n : q[k] \in Payload
  OBVIOUS
<1>3. T \subseteq Shown
  BY DiscreetShown
<1>4. \A k \in 0..n : S[k] = {x \in T : Twin(f[k], x)}
  OBVIOUS
<1>0. n = Len(q)
  OBVIOUS
<1>5. ASSUME NEW a \in T, NEW b, Twin(a, b)
      PROVE  b \in T
  BY <1>5 DEF Twin, Discreet, NoPeek, Same
<1> HIDE DEF S, n
<1>6. Upholds(S, q, T)
  <2> SUFFICES ASSUME NEW k \in 1..n, NEW x \in S[k - 1]
               PROVE  ApplyEvent(x, q[k]) \in S[k] \cap T
    BY <1>0 DEF Upholds
  <2>1. k - 1 \in 0..n /\ k \in 0..n /\ q[k] \in Payload
    BY <1>2
  <2>2. Twin(f[k - 1], x) /\ f[k] = ApplyEvent(f[k - 1], q[k]) /\ f[k] \in T
    BY <1>1, <1>4, <2>1
  <2>3. PICK y : y = ApplyEvent(x, q[k])
    OBVIOUS
  <2>4. q[k].kind \in MoveKinds \/ q[k].kind \in CardKinds \/ q[k].kind \in RoundKinds
    BY <2>1 DEF Payload
  <2>5. Twin(f[k], y)
    BY <2>1, <2>2, <2>3, <2>4, TwinMoves, TwinCards, TwinRounds
  <2>6. y \in T
    BY <1>5, <2>2, <2>5
  <2> QED
    BY <1>4, <2>1, <2>3, <2>5, <2>6
<1>7. w \in S[0] \cap T
  <2>1. 0 \in 0..n /\ u \in T
    BY <1>1, <1>2
  <2> QED
    BY <1>1, <1>4, <1>5, <2>1
<1>8. PICK x \in S[Len(q)] : Leads(w, q, x, T)
  BY <1>3, <1>6, <1>7, LeadsInduct
<1>9. n \in 0..n
  BY <1>2
<1> QED
  BY <1>0, <1>1, <1>4, <1>8, <1>9

\* A twin is as right and as clean.
LEMMA TwinRight ==
  ASSUME NEW u, NEW w, Twin(u, w)
  PROVE  /\ Right(u.screen) => Right(w.screen)
         /\ Clean(u) => Clean(w)
PROOF
<1>1. Right(u.screen) => Right(w.screen)
  BY DEF Twin, Same, SamePlaces, Right, PhaseRight, TurnRight, ActiveRight, SeatRight, WatchRight,
         QueueRight
<1>2. Clean(u) => Clean(w)
  BY DEF Twin, Same, SamePlaces, Clean, DealerRight
<1> QED
  BY <1>1, <1>2

\* The snapshot is a screen.
LEMMA SnapshotType ==
  ASSUME TableInv
  PROVE  /\ SnapshotUi \in Shown
         /\ SnapshotUi.screen.phase = GamePhaseOf(phase)
         /\ (SnapshotUi.screen.myTurn <=> turn = Me)
         /\ SnapshotUi.screen.players = players /\ SnapshotUi.screen.observers = observers
         /\ SnapshotUi.screen.waiting = Waiting
         /\ SnapshotUi.screen.dealer = DealerSnapshot
         /\ SnapshotUi.screen.active = {turn} \ {Nobody}
         /\ \A p \in Player : /\ SnapshotUi.screen.row[p].hand = player[p].hand
                              /\ SnapshotUi.screen.row[p].bust <=> IsBust(player[p].hand)
                              /\ SnapshotUi.screen.row[p].bet = player[p].bet
         /\ SnapshotUi.betting <=> phase = "WaitingForBets"
PROOF
<1>1. /\ phase \in Phase /\ players \in Seq(Player) /\ observers \in SUBSET Player
      /\ Waiting \in SUBSET Player /\ turn \in Player \cup {Nobody} /\ IsInjective(players)
      /\ \A p \in Player : player[p].bet \in Nat /\ player[p].hand \in Hand
      /\ dealerCards \in Seq(Cards)
  BY PeopleNow DEF TableInv, People, TypeOK, DealerDealt
<1> DEFINE rows == [p \in Player |->
                      [bet |-> player[p].bet, hand |-> player[p].hand,
                       bust |-> IsBust(player[p].hand)]]
           ph == GamePhaseOf(phase)
           d == DealerSnapshot
           act == {turn} \ {Nobody}
           my == (turn = Me)
           obs == (Me \in observers)
           bets == (phase = "WaitingForBets")
<1>2. rows \in [Player -> Row]
  <2>1. \A p \in Player : IsBust(player[p].hand) \in BOOLEAN
    BY DEF IsBust
  <2> QED
    BY <1>1, <2>1 DEF Row
<1>3. d \in Seq(Pip \cup {Hidden})
  <2>1. Cards \subseteq Pip /\ dealerCards \in [1..Len(dealerCards) -> Cards]
        /\ Len(dealerCards) \in Nat /\ DOMAIN dealerCards = 1..Len(dealerCards)
    BY <1>1, ShoeAssumption, LenProperties
  <2>2. d \in [1..Len(dealerCards) -> Pip \cup {Hidden}]
    BY <2>1 DEF DealerSnapshot
  <2> HIDE DEF d
  <2> QED
    BY <2>1, <2>2
<1>4. ph \in GamePhase
  BY <1>1, GamePhaseType
<1>5. act \in SUBSET Player /\ my \in BOOLEAN /\ obs \in BOOLEAN /\ bets \in BOOLEAN
  BY <1>1
<1>6. SnapshotUi =
        [screen |-> [shown |-> TRUE, phase |-> ph, players |-> players, row |-> rows,
                     observers |-> observers, waiting |-> Waiting, dealer |-> d,
                     active |-> act, myTurn |-> my, isObserver |-> obs, result |-> FALSE],
         betting |-> bets]
  BY DEF SnapshotUi
<1>7. \A p \in Player : /\ rows[p].hand = player[p].hand
                        /\ rows[p].bust <=> IsBust(player[p].hand)
                        /\ rows[p].bet = player[p].bet
  OBVIOUS
<1>8. obs <=> Me \in observers
  OBVIOUS
<1>9. (my <=> turn = Me) /\ (bets <=> phase = "WaitingForBets")
  OBVIOUS
<1> HIDE DEF rows, ph, d, act, my, obs, bets
<1>10. SnapshotUi.screen \in TableState /\ SnapshotUi.betting \in BOOLEAN
  BY <1>1, <1>2, <1>3, <1>4, <1>5, <1>6 DEF TableState
<1>11. SnapshotUi \in UiState
  BY <1>6, <1>10 DEF UiState
<1>12. Tidy(SnapshotUi.screen)
  BY <1>1, <1>6, <1>8 DEF Tidy
<1>13. SnapshotUi \in Shown
  BY <1>6, <1>11, <1>12 DEF Shown
<1> QED
  BY <1>6, <1>7, <1>9, <1>13 DEF ph, d, act

\* It is right, clean and discreet.
LEMMA SnapshotRight ==
  ASSUME TableInv
  PROVE  Right(SnapshotUi.screen) /\ Clean(SnapshotUi) /\ SnapshotUi \in Discreet
PROOF
<1> DEFINE u == SnapshotUi
<1>1. /\ u \in Shown /\ u.screen.phase = GamePhaseOf(phase) /\ (u.screen.myTurn <=> turn = Me)
      /\ u.screen.players = players /\ u.screen.observers = observers
      /\ u.screen.waiting = Waiting /\ u.screen.dealer = DealerSnapshot
      /\ u.screen.active = {turn} \ {Nobody}
      /\ \A p \in Player : RowRight(u.screen.row[p], p)
      /\ u.betting <=> phase = "WaitingForBets"
  BY SnapshotType DEF RowRight
<1>2. /\ turn # Nobody => turn \in Seated
      /\ Seated \in SUBSET Player /\ phase \in Phase
      /\ dealerCards \in Seq(Cards)
      /\ phase = "PlayerTurn" => Len(dealerCards) = 2
  BY PeopleNow DEF TableInv, People, TypeOK, DealerDealt
<1>3. DOMAIN dealerCards = 1..Len(dealerCards) /\ Len(dealerCards) \in Nat
  BY <1>2, LenProperties
<1> HIDE DEF u
<1>4. ActiveRight(u.screen)
  BY <1>1, <1>2 DEF ActiveRight, Seated
<1>5. Right(u.screen)
  BY <1>1, <1>4 DEF Right, PhaseRight, TurnRight, SeatRight, WatchRight, QueueRight, Seated
<1>6. /\ DOMAIN DealerSnapshot = 1..Len(dealerCards)
      /\ \A i \in 1..Len(dealerCards) :
           DealerSnapshot[i] = IF i = 2 /\ phase = "PlayerTurn" THEN Hidden ELSE dealerCards[i]
  BY <1>3 DEF DealerSnapshot
<1>7. Len(u.screen.dealer) = Len(dealerCards)
  <2>1. u.screen.dealer \in Seq(Pip \cup {Hidden})
    BY <1>1 DEF Shown, UiState, TableState
  <2> DEFINE g == u.screen.dealer
             n == Len(dealerCards)
             m == Len(g)
  <2>2. g \in Seq(Pip \cup {Hidden}) /\ DOMAIN g = 1..n /\ n \in Nat
    BY <1>1, <1>3, <1>6, <2>1
  <2>3. DOMAIN g = 1..m /\ m \in Nat
    BY <2>2, LenProperties
  <2> HIDE DEF g, n, m
  <2>4. m = n
    BY <2>2, <2>3
  <2> QED
    BY <2>4 DEF g, n, m
<1>8. DealerRight(u.screen)
  BY <1>1, <1>6, <1>7 DEF DealerRight
<1>9. Clean(u)
  BY <1>1, <1>8 DEF Clean
<1>10. NoPeek(u.screen)
  <2> SUFFICES ASSUME u.screen.phase \in {"Dealing", "PlayerTurn"},
                      NEW i \in DOMAIN u.screen.dealer, u.screen.dealer[i] # Hidden
               PROVE  i = 1
    BY DEF NoPeek
  <2>1. phase = "PlayerTurn"
    BY <1>1, <1>2 DEF Phase, GamePhaseOf
  <2>2. i \in 1..2
    BY <1>1, <1>2, <1>6, <2>1
  <2> QED
    BY <1>1, <1>2, <1>6, <2>1, <2>2
<1> QED
  BY <1>1, <1>5, <1>9, <1>10 DEF Discreet, u

(***************************************************************************)
(* The inductive invariant.                                                 *)
(***************************************************************************)

\* The client has subscribed and its events are held back.
Joining == feed \in {"subscribed", "joined"}

\* The types, and what a screen of the table is like.
Connected ==
  /\ sent \in Seq({"join", "leave"})
  /\ feed \in {"off", "left", "subscribed", "joined", "on", "leaving"}
  /\ mixed \in {"clean", "repeated", "stale"} /\ forgotten \in SUBSET Player
  /\ queue \in Seq(Payload) /\ held \in Seq(Payload) /\ ui \in UiState
  /\ ui.screen.shown => ui \in Shown

\* Whoever is at the table is followed, and whoever has a seat has had the snapshot.
Attended ==
  /\ Me \in Present => feed \in {"joined", "on"}
  /\ Me \in Seated => feed = "on"

\* While events are sent on, what is on its way takes the screen to where the table is.
ScreenRight ==
  Forwarding /\ ui.screen.shown /\ mixed # "stale" =>
    \E x : Leads(ui, queue, x, Shown) /\ Right(x.screen)

\* If no event came twice it also takes it to a clean one.
ScreenClean ==
  Forwarding /\ ui.screen.shown /\ mixed = "clean" =>
    /\ \E x : Leads(ui, queue, x, Discreet) /\ Clean(x)
    /\ Me \in Present => Me \notin forgotten

\* Nor does it ever pass an indiscreet one, although the screen may have stopped.
ScreenDiscreet ==
  ui.screen.shown /\ mixed = "clean" => \E x : Leads(ui, queue, x, Discreet)

\* What is held back does no harm to any screen that is right.
HeldRenews ==
  Joining => \A u \in Shown : \E x : Leads(u, held, x, Shown) /\ Renews(u.screen, x.screen)

\* It has every change of phase since the client subscribed.
HeldQuiet ==
  Joining /\ (\A i \in 1..Len(held) : held[i].kind # "PhaseChanged") => forgotten = {}

\* The inductive invariant.
ViewInv ==
  /\ TableInv /\ Connected /\ Attended
  /\ ScreenRight /\ ScreenClean /\ ScreenDiscreet
  /\ HeldRenews /\ HeldQuiet

\* The first events of a walk are a walk.
LEMMA LeadsPart ==
  ASSUME NEW u, NEW q \in Seq(Payload), NEW v, NEW T, Leads(u, q, v, T), NEW k \in 0..Len(q)
  PROVE  \E x : Leads(u, SubSeq(q, 1, k), x, T)
PROOF
<1> DEFINE n == Len(q)
           r == SubSeq(q, 1, k)
<1>1. PICK p \in [0..n -> T] :
        p[0] = u /\ p[n] = v /\ \A j \in 1..n : p[j] = ApplyEvent(p[j - 1], q[j])
  BY DEF Leads
<1>2. n \in Nat /\ k \in 0..n
  BY LenProperties
<1>3. Len(r) = k /\ \A j \in 1..k : r[j] = q[j]
  <2>1. k \in Int /\ 1 \in Int /\ (\A j \in 1..k : q[j] \in Payload)
    BY <1>2, ElementOfSeq
  <2>2. /\ Len(r) = IF 1 <= k THEN k - 1 + 1 ELSE 0
        /\ \A j \in 1..(k - 1 + 1) : r[j] = q[1 + j - 1]
    BY <2>1, SubSeqProperties
  <2> QED
    BY <1>2, <2>2
<1> DEFINE f == [j \in 0..k |-> p[j]]
<1> HIDE DEF n, r
<1>4. \A j \in 0..k : f[j] = p[j] /\ j \in 0..n
  BY <1>2
<1>5. f \in [0..k -> T]
  BY <1>4
<1> HIDE DEF f
<1>6. 0 \in 0..k /\ k \in 0..k
  BY <1>2
<1>7. ASSUME NEW j \in 1..k PROVE f[j] = ApplyEvent(f[j - 1], r[j])
  <2>1. j \in 0..k /\ j - 1 \in 0..k /\ j \in 1..n
    BY <1>2
  <2> QED
    BY <1>1, <1>3, <1>4, <2>1
<1>8. Leads(u, r, p[k], T)
  BY <1>1, <1>3, <1>4, <1>5, <1>6, <1>7 DEF Leads
<1> QED
  BY <1>8 DEF r

\* What an aborted forwarder has sent on is still a walk.
LEMMA AbortKeeps ==
  ASSUME queue \in Seq(Payload), NEW es \in Seq(Payload), Abort(es)
  PROVE  /\ queue' \in Seq(Payload)
         /\ \A u, v, T : Leads(u, Then(queue, es), v, T) => \E x : Leads(u, queue', x, T)
PROOF
<1>1. PICK q \in Seq(Payload) : q = Then(queue, es)
  BY ThenAssoc
<1>2. PICK k \in 0..Len(q) : queue' = SubSeq(q, 1, k)
  BY <1>1 DEF Abort, Then
<1>3. SubSeq(q, 1, k) \in Seq(Payload)
  <2>1. k \in Int /\ 1 \in Int /\ (\A j \in 1..k : q[j] \in Payload)
    BY ElementOfSeq, LenProperties
  <2> QED
    BY <2>1, SubSeqProperties
<1>4. ASSUME NEW u, NEW v, NEW T, Leads(u, Then(queue, es), v, T)
      PROVE  \E x : Leads(u, queue', x, T)
  <2>1. Leads(u, q, v, T)
    BY <1>1, <1>4
  <2> QED
    BY <1>2, <2>1, LeadsPart
<1> QED
  BY <1>2, <1>3, <1>4

\* Who comes to the table is the one who joins it, no reset is about the others, and only
\* who is at the table sits down, once the server has answered what was sent before.
LEMMA MeKept ==
  ASSUME TableInv, TableStep
  PROVE  /\ Me \in Present' => Me \in Present
         /\ Me \in Present' /\ Me \in forgotten' => Me \in forgotten
         /\ Me \in Seated' => Me \in Seated \/ (Me \in Present /\ feed \in {"off", "on"})
PROOF
<1>1. IInv /\ Me \in Player
  BY DEF TableInv
<1>2. ASSUME NEW p \in Player, Seating(p) \/ Unseating(p) \/ Playing(p)
      PROVE  /\ Me \in Present' => Me \in Present
             /\ Me \in Seated' => Me \in Seated \/ p = Me
  <2>1. CASE Seating(p)
    <3>1. PICK chips : TakeSeat(p, "any", chips)
      BY <2>1 DEF Seating
    <3> QED
      BY <1>1, <3>1, Sits DEF Present
  <2>2. CASE Unseating(p)
    BY <1>1, <2>2, Unseats DEF Unseating, Present
  <2>3. CASE Playing(p)
    BY <2>3 DEF Playing, Betting, Hitting, Standing, Doubling, PlaceBet, SaturatingSub, Hit, Stand, DoubleDown,
                Present, Seated, Waiting
  <2> QED
    BY <1>2, <2>1, <2>2, <2>3
<1>3. ASSUME NEW p \in Player \ {Me}, OthersCommand(p)
      PROVE  (Me \in Present' => Me \in Present) /\ (Me \in Seated' => Me \in Seated)
  <2>1. CASE JoinTable(p)
    BY <1>1, <2>1, Joins DEF Present
  <2>2. CASE LeaveTable(p)
    BY <1>1, <2>2, Leaves DEF Present
  <2> QED
    BY <1>2, <1>3, <2>1, <2>2 DEF OthersCommand
<1> DEFINE Kept == /\ Me \in Present' => Me \in Present
                   /\ Me \in Present' /\ Me \in forgotten' => Me \in forgotten
                   /\ Me \in Seated' => Me \in Seated \/ (Me \in Present /\ feed \in {"off", "on"})
<1>4. ASSUME UNCHANGED forgotten,
             MyCommand \/ MyTimeout \/ \E p \in Player \ {Me} : OthersCommand(p)
      PROVE  Kept
  <2>1. Me \in Seated' => Me \in Present'
    BY DEF Present
  <2>2. CASE MyCommand
    BY <1>1, <1>2, <1>4, <2>1, <2>2 DEF MyCommand
  <2>3. CASE MyTimeout
    <3>1. UNCHANGED <<players, waiting, observers>>
      BY <2>3 DEF MyTimeout, Standing, Stand
    <3> QED
      BY <1>4, <3>1 DEF Present, Seated, Waiting
  <2>4. CASE \E p \in Player \ {Me} : OthersCommand(p)
    BY <1>3, <1>4, <2>4
  <2> QED
    BY <1>4, <2>2, <2>3, <2>4
<1>5. ASSUME UNCHANGED forgotten, Dealing \/ DealerPlaying \/ Settling
      PROVE  Kept
  <2>1. UNCHANGED <<players, waiting, observers>>
    BY <1>5 DEF Dealing, DealInitialCards, DealerPlaying, PlayHand, Settling, SettleRound
  <2> QED
    BY <1>5, <2>1 DEF Present, Seated, Waiting
<1>6. ASSUME StartingOver
      PROVE  Kept
  <2>1. /\ players' = players /\ waiting' = <<>> /\ observers' = {}
        /\ forgotten' = forgotten \cup Waiting \cup observers
    BY <1>6 DEF StartingOver, StartOver, NewRound
  <2>2. Seated' = Seated /\ Waiting' = {}
    BY <2>1 DEF Seated, Waiting, Range
  <2>3. Me \in Seated => Me \notin Waiting /\ Me \notin observers
    BY <1>1, PeopleNow DEF People
  <2> QED
    BY <2>1, <2>2, <2>3 DEF Present
<1>7. \/ /\ UNCHANGED forgotten
         /\ MyCommand \/ MyTimeout \/ \E p \in Player \ {Me} : OthersCommand(p)
      \/ UNCHANGED forgotten /\ (Dealing \/ DealerPlaying \/ Settling)
      \/ StartingOver
  BY DEF TableStep
<1> HIDE DEF Kept
<1>8. Kept
  BY ONLY <1>4, <1>5, <1>6, <1>7
<1> QED
  BY <1>8 DEF Kept

\* A clean screen is an exact one.
LEMMA CleanIsExact ==
  ASSUME TableInv, Connected, ScreenRight, ScreenClean, Forwarding, ui.screen.shown,
         mixed = "clean"
  PROVE  \E w : Exact(w) /\ Leads(ui, queue, w, Discreet)
PROOF
<1>1. queue \in Seq(Payload) /\ Len(queue) \in Nat
  BY DEF Connected
<1>2. PICK w : Leads(ui, queue, w, Discreet) /\ Clean(w)
  BY DEF ScreenClean
<1>3. PICK v : Leads(ui, queue, v, Shown) /\ Right(v.screen)
  BY DEF ScreenRight
<1>4. w = v
  BY <1>1, <1>2, <1>3, LeadsOne
<1>5. w \in Discreet
  BY <1>1, <1>2, LeadsEnds
<1> QED
  BY <1>2, <1>3, <1>4, <1>5 DEF Exact, ScreenClean

\* What the table announces.
LEMMA AnnouncedRight ==
  ASSUME Connected, ScreenRight, Announced, ui' = ui, mixed' = mixed, Forwarding' => Forwarding
  PROVE  ScreenRight'
PROOF
<1> SUFFICES ASSUME Forwarding, ui.screen.shown, mixed # "stale"
             PROVE  \E x : Leads(ui, queue', x, Shown) /\ Right(x.screen)'
  BY DEF ScreenRight
<1>1. PICK es : Emit(es) /\ Told(es)
  BY DEF Announced
<1>2. queue \in Seq(Payload) /\ es \in Seq(Payload) /\ queue' = Then(queue, es)
  BY <1>1 DEF Connected, Told, Emit, Then
<1>3. PICK w : Leads(ui, queue, w, Shown) /\ Right(w.screen)
  BY DEF ScreenRight
<1>4. w \in Shown
  BY <1>2, <1>3, LeadsEnds
<1>5. PICK x : Leads(w, es, x, Shown) /\ Carry(w.screen, x.screen)
  BY <1>1, <1>4 DEF Told
<1>6. Leads(ui, queue', x, Shown)
  BY <1>2, <1>3, <1>5, LeadsThen
<1>7. Right(x.screen)'
  BY <1>3, <1>5, CarryRight
<1> QED
  BY <1>6, <1>7

\* What the table announces keeps a clean screen clean.
LEMMA AnnouncedClean ==
  ASSUME TableInv, Connected, ScreenRight, ScreenClean, Announced, ui' = ui, mixed' = mixed,
         Forwarding, ui.screen.shown, mixed = "clean"
  PROVE  \E x : Leads(ui, queue', x, Discreet) /\ Clean(x)'
PROOF
<1>1. PICK es : Emit(es) /\ Told(es) /\ Heard(es)
  BY DEF Announced
<1>2. queue \in Seq(Payload) /\ es \in Seq(Payload) /\ queue' = Then(queue, es)
  BY <1>1 DEF Connected, Told, Emit, Then
<1>3. PICK w : Exact(w) /\ Leads(ui, queue, w, Discreet)
  BY CleanIsExact
<1>4. PICK x : Leads(w, es, x, Discreet) /\ Clean(x)'
  BY <1>1, <1>3 DEF Heard
<1>5. Leads(ui, queue', x, Discreet)
  BY <1>2, <1>3, <1>4, LeadsThen
<1> QED
  BY <1>4, <1>5

\* Also used when the client joins.
LEMMA ToldRenews ==
  ASSUME held \in Seq(Payload), Joining, HeldRenews, NEW es, Told(es), held' = Then(held, es)
  PROVE  \A u \in Shown : \E x : Leads(u, held', x, Shown) /\ Renews(u.screen, x.screen)'
PROOF
<1> SUFFICES ASSUME NEW u \in Shown
             PROVE  \E x : Leads(u, held', x, Shown) /\ Renews(u.screen, x.screen)'
  OBVIOUS
<1>1. PICK w : Leads(u, held, w, Shown) /\ Renews(u.screen, w.screen)
  BY DEF HeldRenews
<1>2. es \in Seq(Payload) /\ w \in Shown
  BY <1>1, LeadsEnds DEF Told
<1>3. PICK x : Leads(w, es, x, Shown) /\ Carry(w.screen, x.screen)
  BY <1>2 DEF Told
<1>4. Leads(u, held', x, Shown)
  BY <1>1, <1>2, <1>3, LeadsThen
<1>5. Renews(u.screen, x.screen)'
  BY <1>1, <1>3, CarryRenews
<1> QED
  BY <1>4, <1>5

\* Nor does it lose a change of phase.
LEMMA LongerQuiet ==
  ASSUME NEW a \in Seq(Payload), NEW b \in Seq(Payload),
         \A i \in 1..Len(Then(a, b)) : Then(a, b)[i].kind # "PhaseChanged"
  PROVE  /\ \A i \in 1..Len(a) : a[i].kind # "PhaseChanged"
         /\ \A i \in 1..Len(b) : b[i].kind # "PhaseChanged"
PROOF
<1> DEFINE c == a \o b
<1>1. /\ Len(c) = Len(a) + Len(b)
      /\ \A i \in 1..(Len(a) + Len(b)) : c[i] = IF i <= Len(a) THEN a[i] ELSE b[i - Len(a)]
  BY ONLY a \in Seq(Payload), b \in Seq(Payload), ConcatProperties
<1>2. Len(a) \in Nat /\ Len(b) \in Nat
  OBVIOUS
<1>3. \A i \in 1..Len(c) : c[i].kind # "PhaseChanged"
  BY DEF Then
<1> HIDE DEF c
<1>4. ASSUME NEW i \in 1..Len(a) PROVE a[i].kind # "PhaseChanged"
  <2>1. i \in 1..(Len(a) + Len(b)) /\ i <= Len(a)
    BY <1>2
  <2> QED
    BY <1>1, <1>3, <2>1
<1>5. ASSUME NEW i \in 1..Len(b) PROVE b[i].kind # "PhaseChanged"
  <2>1. Len(a) + i \in 1..(Len(a) + Len(b)) /\ ~(Len(a) + i <= Len(a)) /\ (Len(a) + i) - Len(a) = i
    BY <1>2
  <2>2. c[Len(a) + i] = b[i]
    BY <1>1, <2>1
  <2> QED
    BY <1>1, <1>3, <2>1, <2>2
<1> QED
  BY <1>4, <1>5

\* Away from the table there is little to keep.
LEMMA Away ==
  ASSUME feed' \in {"off", "left"}
  PROVE  ScreenRight' /\ ScreenClean' /\ HeldRenews' /\ HeldQuiet'
PROOF
  BY DEF ScreenRight, ScreenClean, HeldRenews, HeldQuiet, Forwarding, Joining

\* What the table does keeps the invariant.
LEMMA TableKeeps ==
  ASSUME ViewInv, TableInv', TableStep
  PROVE  ViewInv'
PROOF
<1>1. /\ TableInv /\ Connected /\ Attended /\ ScreenRight /\ ScreenClean /\ ScreenDiscreet
      /\ HeldRenews /\ HeldQuiet
  BY DEF ViewInv
<1>2. Announced /\ UNCHANGED <<sent, feed, ui, mixed>>
  BY <1>1, TableAnnounced DEF TableInv
<1>3. PICK es : Emit(es) /\ Told(es)
  BY <1>2 DEF Announced
<1>4. es \in Seq(Payload) /\ queue \in Seq(Payload) /\ held \in Seq(Payload)
  BY <1>1, <1>3 DEF Told, Connected
<1>5. Then(queue, es) \in Seq(Payload) /\ Then(held, es) \in Seq(Payload)
  BY <1>4, ThenAssoc
<1>6. queue' \in Seq(Payload) /\ held' \in Seq(Payload)
  BY <1>3, <1>4, <1>5 DEF Emit, Then
<1>7. forgotten' \in SUBSET Player
  <2>1. forgotten' = forgotten \/ forgotten' = forgotten \cup Waiting \cup observers
    BY DEF TableStep, StartingOver
  <2>2. Waiting \in SUBSET Player /\ observers \in SUBSET Player /\ forgotten \in SUBSET Player
    BY <1>1, PeopleNow DEF TableInv, People, TypeOK, Connected
  <2> QED
    BY <2>1, <2>2
<1>8. Connected'
  BY <1>1, <1>2, <1>6, <1>7 DEF Connected
<1>9. Forwarding' <=> Forwarding
  BY <1>2 DEF Forwarding
<1>10. ScreenRight'
  BY <1>1, <1>2, <1>9, AnnouncedRight
<1>11. ScreenClean'
  <2>1. Forwarding /\ ui.screen.shown /\ mixed = "clean" => (Me \in Present' => Me \notin forgotten')
    BY <1>1, MeKept DEF ScreenClean
  <2>2. Forwarding /\ ui.screen.shown /\ mixed = "clean" =>
          \E x : Leads(ui, queue', x, Discreet) /\ Clean(x)'
    BY <1>1, <1>2, AnnouncedClean
  <2> QED
    BY <1>2, <1>9, <2>1, <2>2 DEF ScreenClean
<1>12. ScreenDiscreet'
  <2>1. CASE Forwarding
    BY <1>9, <1>11, <2>1 DEF ScreenDiscreet, ScreenClean
  <2>2. CASE ~Forwarding
    <3>1. queue' = queue
      BY <1>3, <2>2 DEF Emit
    <3> QED
      BY <1>1, <1>2, <3>1 DEF ScreenDiscreet
  <2> QED
    BY <2>1, <2>2
<1>13. Attended'
  <2>1. Me \in Seated' => Me \in Seated \/ (Me \in Present /\ feed \in {"off", "on"})
    BY <1>1, MeKept
  <2>2. Me \in Present' => Me \in Present
    BY <1>1, MeKept
  <2> QED
    BY <1>1, <1>2, <2>1, <2>2 DEF Attended
<1>14. HeldRenews'
  <2> SUFFICES ASSUME Joining
               PROVE  \A u \in Shown : \E x : Leads(u, held', x, Shown) /\ Renews(u.screen, x.screen)'
    BY <1>2 DEF HeldRenews, Joining
  <2>1. held' = Then(held, es)
    BY <1>3 DEF Emit, Joining, Then
  <2> QED
    BY <1>1, <1>3, <1>4, <2>1, ToldRenews
<1>15. HeldQuiet'
  <2> SUFFICES ASSUME Joining, \A i \in 1..Len(held') : held'[i].kind # "PhaseChanged"
               PROVE  forgotten' = {}
    BY <1>2 DEF HeldQuiet, Joining
  <2>1. CASE StartingOver
    <3>1. held' = Then(held, <<PhaseChanged>>)
      BY <2>1 DEF StartingOver, Emit, Joining, Then
    <3>2. PhaseChanged \in Payload /\ PhaseChanged.kind = "PhaseChanged"
      BY PhaseChangedType DEF TableInv
    <3> DEFINE b == <<PhaseChanged>>
    <3>3. b \in Seq(Payload) /\ Len(b) = 1 /\ b[1].kind = "PhaseChanged"
      BY <3>2
    <3> HIDE DEF b
    <3>4. \A i \in 1..Len(b) : b[i].kind # "PhaseChanged"
      BY <1>4, <3>1, <3>3, LongerQuiet DEF b
    <3> QED
      BY <3>3, <3>4
  <2>2. CASE forgotten' = forgotten
    <3>1. held' = Then(held, es)
      BY <1>3 DEF Emit, Joining, Then
    <3>2. \A i \in 1..Len(held) : held[i].kind # "PhaseChanged"
      BY <1>4, <3>1, LongerQuiet
    <3> QED
      BY <1>1, <2>2, <3>2 DEF HeldQuiet
  <2> QED
    BY <2>1, <2>2 DEF TableStep
<1> QED
  BY <1>8, <1>10, <1>11, <1>12, <1>13, <1>14, <1>15 DEF ViewInv

\* Where everybody is depends on the table alone.
LEMMA StillThere == ASSUME UNCHANGED vars PROVE Present' = Present /\ Seated' = Seated
PROOF
  BY DEF vars, Present, Seated, Waiting

\* What is right and clean depends on the table alone.
LEMMA StillRight ==
  ASSUME UNCHANGED <<vars, dealerCards, forgotten>>
  PROVE  /\ \A s : Right(s) => Right(s)'
         /\ \A w : Clean(w) => Clean(w)'
         /\ \A u, s : Renews(u, s) => Renews(u, s)'
PROOF
<1>1. /\ UNCHANGED <<phase, turn, players, waiting, observers, player>>
      /\ UNCHANGED <<dealerCards, forgotten>>
      /\ Seated' = Seated /\ Waiting' = Waiting
  BY DEF vars, Seated, Waiting
<1>2. ASSUME NEW s
      PROVE  /\ PhaseRight(s)' <=> PhaseRight(s)
             /\ TurnRight(s)' <=> TurnRight(s)
             /\ ActiveRight(s)' <=> ActiveRight(s)
             /\ \A p \in Player : /\ SeatRight(s, p)' <=> SeatRight(s, p)
                                  /\ WatchRight(s, p)' <=> WatchRight(s, p)
                                  /\ QueueRight(s, p)' <=> QueueRight(s, p)
  BY <1>1 DEF PhaseRight, TurnRight, ActiveRight, SeatRight, WatchRight, QueueRight
<1>3. \A s : Right(s) => Right(s)'
  BY <1>2 DEF Right
<1>4. \A u, s : Renews(u, s) => Renews(u, s)'
  BY <1>2 DEF Renews
<1>5. \A w : Clean(w) => Clean(w)'
  BY <1>1 DEF Clean, DealerRight, RowRight, Present
<1> QED
  BY <1>3, <1>4, <1>5

\* To press Enter changes nothing yet.
LEMMA EnterKeeps ==
  ASSUME ViewInv, TableInv', Enter
  PROVE  ViewInv'
PROOF
<1>1. /\ Connected /\ Attended /\ ~ui.screen.shown /\ HeldRenews /\ HeldQuiet
      /\ sent' = Append(sent, "join")
      /\ UNCHANGED <<vars, dealerCards, feed, held, queue, ui, mixed, forgotten>>
  BY DEF ViewInv, Enter
<1>2. sent' \in Seq({"join", "leave"})
  <2>1. sent \in Seq({"join", "leave"}) /\ "join" \in {"join", "leave"}
    BY <1>1 DEF Connected
  <2> QED
    BY <1>1, <2>1, AppendProperties
<1>3. Connected'
  BY <1>1, <1>2 DEF Connected
<1>4. Attended'
  BY <1>1, StillThere DEF Attended
<1>5. ScreenRight' /\ ScreenClean' /\ ScreenDiscreet'
  BY <1>1 DEF ScreenRight, ScreenClean, ScreenDiscreet
<1>6. HeldRenews' /\ HeldQuiet'
  BY <1>1, StillRight DEF HeldRenews, HeldQuiet, Joining
<1> QED
  BY <1>3, <1>4, <1>5, <1>6 DEF ViewInv

\* What the server takes up is no longer on its way.
LEMMA SentType ==
  ASSUME Connected, NEW message, Arrives(message)
  PROVE  sent' \in Seq({"join", "leave"})
PROOF
<1>1. sent \in Seq({"join", "leave"}) /\ sent # <<>> /\ sent' = Tail(sent)
  BY DEF Connected, Arrives
<1> QED
  BY <1>1, HeadTailProperties

\* A JoinTable that arrives keeps it: the visit ends, and the screen stops on its walk.
LEMMA JoinArrivesKeeps ==
  ASSUME ViewInv, TableInv', JoinArrives
  PROVE  ViewInv'
PROOF
<1>1. /\ TableInv /\ Connected /\ Attended /\ ScreenRight /\ ScreenClean /\ ScreenDiscreet
  BY DEF ViewInv
<1>2. /\ Arrives("join") /\ feed' = "left" /\ feed \in {"off", "on"}
      /\ UNCHANGED <<dealerCards, held, ui, mixed, forgotten>>
  BY DEF JoinArrives, Arrives
<1>3. sent' \in Seq({"join", "leave"})
  BY <1>1, <1>2, SentType
<1> DEFINE Stops == /\ Me \notin Present'
                    /\ queue' \in Seq(Payload)
                    /\ ui.screen.shown /\ mixed = "clean" =>
                         \E x : Leads(ui, queue', x, Discreet)
<1>4. ASSUME LeaveTable(Me) /\ Abort(Left(Me)) /\ feed = "on"
      PROVE  Stops
  <2>1. /\ Me \in Present /\ Me \notin Seated' /\ Me \notin Waiting' /\ Me \notin observers'
        /\ Heard(Left(Me)) /\ Told(Left(Me))
    BY <1>1, <1>2, <1>4, Leaves, LeaveHeard, LeaveTold DEF TableInv
  <2>2. queue \in Seq(Payload) /\ Left(Me) \in Seq(Payload)
    BY <1>1, <2>1 DEF Connected, Told
  <2>3. /\ queue' \in Seq(Payload)
        /\ \A u, v, T : Leads(u, Then(queue, Left(Me)), v, T) => \E x : Leads(u, queue', x, T)
    BY <1>4, <2>2, AbortKeeps
  <2>4. ASSUME ui.screen.shown, mixed = "clean"
        PROVE  \E x : Leads(ui, queue', x, Discreet)
    <3>1. PICK w : Exact(w) /\ Leads(ui, queue, w, Discreet)
      BY <1>1, <1>4, <2>4, CleanIsExact DEF Forwarding
    <3>2. PICK x : Leads(w, Left(Me), x, Discreet)
      BY <2>1, <3>1 DEF Heard
    <3>3. Leads(ui, Then(queue, Left(Me)), x, Discreet)
      BY <2>2, <3>1, <3>2, LeadsThen
    <3> QED
      BY <2>3, <3>3
  <2> QED
    BY <2>1, <2>3, <2>4 DEF Present
<1>5. ASSUME Me \notin Present /\ Abort(<<>>) /\ UNCHANGED vars
      PROVE  Stops
  <2>1. queue \in Seq(Payload) /\ <<>> \in Seq(Payload) /\ Then(queue, <<>>) = queue
    BY <1>1, Concats DEF Connected, Then
  <2>2. /\ queue' \in Seq(Payload)
        /\ \A u, v, T : Leads(u, queue, v, T) => \E x : Leads(u, queue', x, T)
    BY <1>5, <2>1, AbortKeeps
  <2>3. Me \notin Present'
    BY <1>5, StillThere
  <2> QED
    BY <1>1, <2>2, <2>3 DEF ScreenDiscreet
<1>6. ASSUME feed = "off" /\ UNCHANGED <<vars, queue>>
      PROVE  Stops
  <2>1. Me \notin Present'
    BY <1>1, <1>6, StillThere DEF Attended
  <2> QED
    BY <1>1, <1>6, <2>1 DEF Connected, ScreenDiscreet
<1>7. Stops
  BY <1>4, <1>5, <1>6 DEF JoinArrives
<1>8. Connected'
  BY <1>1, <1>2, <1>3, <1>7 DEF Connected
<1>9. Attended'
  BY <1>7 DEF Attended, Present
<1>10. ScreenDiscreet'
  BY <1>2, <1>7 DEF ScreenDiscreet
<1> QED
  BY <1>2, <1>8, <1>9, <1>10, Away DEF ViewInv

\* Away from the table, or on the way to it, the client is nowhere.
LEMMA NotThere ==
  ASSUME Attended, feed \notin {"joined", "on"}
  PROVE  Me \notin Present /\ Me \notin Seated
PROOF
  BY DEF Attended, Present

\* To subscribe keeps the invariant: nothing is held back yet.
LEMMA SubscribeKeeps ==
  ASSUME ViewInv, TableInv', Subscribe
  PROVE  ViewInv'
PROOF
<1>1. Connected /\ Attended /\ ScreenDiscreet
  BY DEF ViewInv
<1>2. /\ feed = "left" /\ feed' = "subscribed" /\ held' = <<>> /\ forgotten' = {}
      /\ UNCHANGED <<vars, dealerCards, sent, queue, ui, mixed>>
  BY DEF Subscribe
<1>3. Connected'
  <2>1. <<>> \in Seq(Payload) /\ {} \in SUBSET Player
    OBVIOUS
  <2> QED
    BY <1>1, <1>2, <2>1 DEF Connected
<1>4. Attended'
  BY <1>1, <1>2, NotThere, StillThere DEF Attended
<1>5. ScreenRight' /\ ScreenClean'
  BY <1>2 DEF ScreenRight, ScreenClean, Forwarding
<1>6. ScreenDiscreet'
  BY <1>1, <1>2 DEF ScreenDiscreet
<1>7. HeldRenews'
  <2>1. \A u \in Shown : Leads(u, <<>>, u, Shown)
    BY LeadsEmpty
  <2>2. \A u \in Shown : Renews(u.screen, u.screen)'
    BY DEF Renews
  <2> QED
    BY <1>2, <2>1, <2>2 DEF HeldRenews
<1>8. HeldQuiet'
  BY <1>2 DEF HeldQuiet
<1> QED
  BY <1>3, <1>4, <1>5, <1>6, <1>7, <1>8 DEF ViewInv

\* To join the table keeps it: the client hears of itself, later.
LEMMA JoinMeKeeps ==
  ASSUME ViewInv, TableInv', JoinMe
  PROVE  ViewInv'
PROOF
<1>1. TableInv /\ Connected /\ Attended /\ ScreenDiscreet /\ HeldRenews /\ HeldQuiet
  BY DEF ViewInv
<1> DEFINE es == <<Of("ObserverJoined", Me)>>
<1>2. /\ feed = "subscribed" /\ feed' = "joined" /\ Emit(es) /\ JoinTable(Me)
      /\ UNCHANGED <<sent, ui, mixed, forgotten>>
  BY DEF JoinMe
<1>3. Told(es)
  BY <1>1, <1>2, JoinTold DEF TableInv
<1> HIDE DEF es
<1>4. Joining /\ ~Forwarding /\ ~Forwarding'
  BY <1>2 DEF Joining, Forwarding
<1>5. es \in Seq(Payload) /\ held \in Seq(Payload) /\ queue' = queue /\ held' = Then(held, es)
  BY <1>1, <1>2, <1>3, <1>4 DEF Told, Connected, Emit, Joining, Then
<1>6. held' \in Seq(Payload)
  BY <1>5, ThenAssoc
<1>7. Connected'
  BY <1>1, <1>2, <1>5, <1>6 DEF Connected
<1>8. ScreenRight' /\ ScreenClean'
  BY <1>4 DEF ScreenRight, ScreenClean
<1>9. ScreenDiscreet'
  BY <1>1, <1>2, <1>5 DEF ScreenDiscreet
<1>10. Attended'
  <2>1. Me \notin Seated
    BY <1>1, <1>2, NotThere
  <2>2. Seated' = Seated
    BY <1>1, <1>2, Joins DEF TableInv
  <2> QED
    BY <1>2, <2>1, <2>2 DEF Attended
<1>11. HeldRenews'
  <2>1. \A u \in Shown : \E x : Leads(u, held', x, Shown) /\ Renews(u.screen, x.screen)'
    BY <1>1, <1>3, <1>4, <1>5, ToldRenews
  <2> QED
    BY <2>1 DEF HeldRenews
<1>12. HeldQuiet'
  BY <1>1, <1>2, <1>4, <1>5, LongerQuiet DEF HeldQuiet
<1> QED
  BY <1>7, <1>8, <1>9, <1>10, <1>11, <1>12 DEF ViewInv

\* A refused join keeps it: a screen of the visit before stays as it is.
LEMMA JoinRefusedKeeps ==
  ASSUME ViewInv, TableInv', JoinRefused
  PROVE  ViewInv'
PROOF
<1>1. Connected /\ Attended /\ ScreenDiscreet
  BY DEF ViewInv
<1>2. /\ feed = "subscribed" /\ feed' = "off" /\ held' = <<>>
      /\ UNCHANGED <<vars, dealerCards, sent, queue, ui, mixed, forgotten>>
  BY DEF JoinRefused
<1>3. Connected'
  <2>1. <<>> \in Seq(Payload)
    OBVIOUS
  <2> QED
    BY <1>1, <1>2, <2>1 DEF Connected
<1>4. Attended'
  BY <1>1, <1>2, NotThere, StillThere DEF Attended
<1>5. ScreenDiscreet'
  BY <1>1, <1>2 DEF ScreenDiscreet
<1> QED
  BY <1>2, <1>3, <1>4, <1>5, Away DEF ViewInv

\* There is no table in the lobby.
LEMMA LobbyType == LobbyUi \in UiState /\ ~LobbyUi.screen.shown /\ <<>> \in Seq(Payload)
PROOF
<1>1. [p \in Player |-> EmptyRow] \in [Player -> Row]
  BY RowType
<1>2. <<>> \in Seq(Player) /\ <<>> \in Seq(Pip \cup {Hidden}) /\ <<>> \in Seq(Payload)
  OBVIOUS
<1>3. NoTable \in TableState
  BY <1>1, <1>2 DEF NoTable, TableState, GamePhase
<1> QED
  BY <1>2, <1>3 DEF LobbyUi, UiState, NoTable

\* To be refused by another table, or to be shown it, keeps it.
LEMMA JoinElsewhereKeeps ==
  ASSUME ViewInv, TableInv', JoinElsewhere
  PROVE  ViewInv'
PROOF
<1>1. Connected /\ Attended /\ ScreenDiscreet
  BY DEF ViewInv
<1>2. /\ feed = "left" /\ feed' = "off" /\ (ui' = ui \/ ui' = LobbyUi)
      /\ UNCHANGED <<vars, dealerCards, sent, held, queue, mixed, forgotten>>
  BY DEF JoinElsewhere
<1>3. LobbyUi \in UiState /\ ~LobbyUi.screen.shown
  BY LobbyType
<1>4. Connected'
  BY <1>1, <1>2, <1>3 DEF Connected
<1>5. Attended'
  BY <1>1, <1>2, NotThere, StillThere DEF Attended
<1>6. ScreenDiscreet'
  BY <1>1, <1>2, <1>3 DEF ScreenDiscreet
<1> QED
  BY <1>2, <1>4, <1>5, <1>6, Away DEF ViewInv

\* To go back to the lobby keeps it.
LEMMA BackToLobbyKeeps ==
  ASSUME ViewInv, TableInv', BackToLobby
  PROVE  ViewInv'
PROOF
<1>1. Connected /\ Attended /\ HeldRenews /\ HeldQuiet
  BY DEF ViewInv
<1>2. /\ ui' = LobbyUi /\ sent' = Append(sent, "leave")
      /\ UNCHANGED <<vars, dealerCards, feed, held, queue, mixed, forgotten>>
  BY DEF BackToLobby
<1>3. LobbyUi \in UiState /\ ~LobbyUi.screen.shown
  BY LobbyType
<1>4. sent' \in Seq({"join", "leave"})
  <2>1. sent \in Seq({"join", "leave"}) /\ "leave" \in {"join", "leave"}
    BY <1>1 DEF Connected
  <2> QED
    BY <1>2, <2>1, AppendProperties
<1>5. Connected'
  BY <1>1, <1>2, <1>3, <1>4 DEF Connected
<1>6. Attended'
  BY <1>1, <1>2, StillThere DEF Attended
<1>7. ScreenRight' /\ ScreenClean' /\ ScreenDiscreet'
  BY <1>2, <1>3 DEF ScreenRight, ScreenClean, ScreenDiscreet
<1>8. HeldRenews' /\ HeldQuiet'
  BY <1>1, <1>2, StillRight DEF HeldRenews, HeldQuiet, Joining
<1> QED
  BY <1>5, <1>6, <1>7, <1>8 DEF ViewInv

\* That the leave arrives keeps it: a screen that is shown again hears of it.
LEMMA LeaveArrivesKeeps ==
  ASSUME ViewInv, TableInv', LeaveArrives
  PROVE  ViewInv'
PROOF
<1>1. /\ TableInv /\ Connected /\ Attended /\ ScreenRight /\ ScreenClean /\ ScreenDiscreet
      /\ HeldRenews /\ HeldQuiet
  BY DEF ViewInv
<1>2. /\ Arrives("leave") /\ feed \in {"off", "on"}
      /\ UNCHANGED <<dealerCards, ui, mixed, forgotten>>
  BY DEF LeaveArrives, Arrives
<1>3. sent' \in Seq({"join", "leave"})
  BY <1>1, <1>2, SentType
<1>4. CASE LeaveTable(Me) /\ feed' = "leaving" /\ Emit(Left(Me))
  <2>1. /\ Me \in Present /\ Me \notin Seated' /\ Me \notin Waiting' /\ Me \notin observers'
    BY <1>1, <1>4, Leaves DEF TableInv
  <2>2. feed = "on" /\ Forwarding /\ Forwarding' /\ ~Joining'
    BY <1>1, <1>2, <1>4, <2>1 DEF Attended, Forwarding, Joining
  <2>3. Announced
    BY <1>1, <1>2, <1>4, LeavingAnnounced DEF TableInv
  <2>4. queue' \in Seq(Payload) /\ held' \in Seq(Payload)
    <3>1. PICK es : Emit(es) /\ Told(es)
      BY <2>3 DEF Announced
    <3>2. es \in Seq(Payload) /\ queue' = Then(queue, es) /\ held' = held
      BY <2>2, <3>1 DEF Emit, Told, Then
    <3> QED
      BY <1>1, <3>2, ThenAssoc DEF Connected
  <2>5. Connected'
    BY <1>1, <1>2, <1>3, <1>4, <2>4 DEF Connected
  <2>6. Attended'
    BY <2>1 DEF Attended, Present
  <2>7. ScreenRight'
    BY <1>1, <1>2, <2>2, <2>3, AnnouncedRight
  <2>8. ui.screen.shown /\ mixed = "clean" => \E x : Leads(ui, queue', x, Discreet) /\ Clean(x)'
    BY <1>1, <1>2, <2>2, <2>3, AnnouncedClean
  <2>9. ScreenClean' /\ ScreenDiscreet'
    BY <1>2, <2>1, <2>8 DEF ScreenClean, ScreenDiscreet, Present
  <2> QED
    BY <2>2, <2>5, <2>6, <2>7, <2>9 DEF ViewInv, HeldRenews, HeldQuiet
<1>5. CASE UNCHANGED <<vars, feed, held, queue>>
  <2>1. Connected' /\ HeldQuiet'
    BY <1>1, <1>2, <1>3, <1>5 DEF Connected, HeldQuiet, Joining
  <2>2. Attended'
    BY <1>1, <1>5, StillThere DEF Attended
  <2>3. ScreenRight' /\ HeldRenews'
    BY <1>1, <1>2, <1>5, StillRight DEF ScreenRight, HeldRenews, Joining, Forwarding
  <2>4. ScreenClean' /\ ScreenDiscreet'
    BY <1>1, <1>2, <1>5, StillRight, StillThere DEF ScreenClean, ScreenDiscreet, Forwarding
  <2> QED
    BY <2>1, <2>2, <2>3, <2>4 DEF ViewInv
<1> QED
  BY <1>4, <1>5 DEF LeaveArrives

\* That the forwarder stops keeps it: what it has sent on is a walk.
LEMMA StopForwarderKeeps ==
  ASSUME ViewInv, TableInv', StopForwarder
  PROVE  ViewInv'
PROOF
<1>1. Connected /\ Attended /\ ScreenDiscreet
  BY DEF ViewInv
<1>2. /\ feed = "leaving" /\ feed' = "off" /\ Abort(<<>>)
      /\ UNCHANGED <<vars, dealerCards, sent, held, ui, mixed, forgotten>>
  BY DEF StopForwarder
<1>3. queue \in Seq(Payload) /\ <<>> \in Seq(Payload) /\ Then(queue, <<>>) = queue
  BY <1>1, Concats DEF Connected, Then
<1>4. /\ queue' \in Seq(Payload)
      /\ \A u, v, T : Leads(u, queue, v, T) => \E x : Leads(u, queue', x, T)
  BY <1>2, <1>3, AbortKeeps
<1>5. Connected'
  BY <1>1, <1>2, <1>4 DEF Connected
<1>6. Attended'
  BY <1>1, <1>2, NotThere, StillThere DEF Attended
<1>7. ScreenDiscreet'
  BY <1>1, <1>2, <1>4 DEF ScreenDiscreet
<1> QED
  BY <1>2, <1>5, <1>6, <1>7, Away DEF ViewInv

\* The snapshot knows of the client already: to hear of it once more is nothing new.
LEMMA SnapshotAgain ==
  ASSUME TableInv, NEW kind \in MoveKinds, kind \notin {"PlayerJoined", "PlayerLeft"},
         NEW x, x = ApplyEvent(SnapshotUi, Of(kind, Me))
  PROVE  Leads(SnapshotUi, <<Of(kind, Me)>>, x, Discreet) /\ Clean(x)
PROOF
<1> DEFINE v == SnapshotUi
<1>1. v \in Discreet /\ Clean(v) /\ phase \in Phase
  BY SnapshotRight, PeopleNow DEF TableInv, People, TypeOK
<1>2. x = ApplyEvent(v, Of(kind, Me)) /\ Me \in Player
  OBVIOUS
<1> HIDE DEF v
<1>3. /\ x \in Discreet /\ x.screen.players = v.screen.players
      /\ \A q \in Player : x.screen.row[q] = v.screen.row[q]
  BY <1>1, <1>2, MoveRows
<1>4. x.betting = v.betting /\ x.screen.dealer = v.screen.dealer
  BY <1>1, <1>2, MoveSilent
<1>5. Clean(x)
  BY <1>1, <1>3, <1>4 DEF Clean, DealerRight
<1>6. Of(kind, Me) \in Payload
  BY <1>1, EventTypes DEF Of
<1>7. Leads(v, <<Of(kind, Me)>>, x, Discreet)
  BY <1>1, <1>2, <1>3, <1>6, LeadsEvent
<1> QED
  BY <1>5, <1>7 DEF v

\* The snapshot keeps it: it is right, and what was held back renews it.
LEMMA TakeSnapshotKeeps ==
  ASSUME ViewInv, TableInv', TakeSnapshot
  PROVE  ViewInv'
PROOF
<1>1. TableInv /\ Connected /\ Attended /\ HeldRenews /\ HeldQuiet
  BY DEF ViewInv
<1>2. PICK k \in 0..Len(queue) :
        LET old == SubSeq(queue, k + 1, Len(queue)) IN
        /\ queue' = old \o held
        /\ mixed' = IF old # <<>> THEN "stale"
                    ELSE IF held = <<Of("ObserverJoined", Me)>> THEN "clean" ELSE "repeated"
  BY DEF TakeSnapshot
<1> DEFINE old == SubSeq(queue, k + 1, Len(queue))
<1>3. /\ feed = "joined" /\ feed' = "on" /\ ui' = SnapshotUi /\ held' = <<>>
      /\ UNCHANGED <<vars, dealerCards, sent, forgotten>>
  BY DEF TakeSnapshot
<1>4. /\ queue' = Then(old, held)
      /\ mixed' = IF old # <<>> THEN "stale"
                  ELSE IF held = <<Of("ObserverJoined", Me)>> THEN "clean" ELSE "repeated"
  BY <1>2 DEF Then
<1>5. old \in Seq(Payload) /\ held \in Seq(Payload)
  <2>1. queue \in Seq(Payload)
    BY <1>1 DEF Connected
  <2>2. \A i \in (k + 1)..Len(queue) : queue[i] \in Payload
    BY <2>1
  <2>3. k + 1 \in Nat /\ Len(queue) \in Nat
    BY <2>1
  <2>4. old \in Seq(Payload)
    BY <2>1, <2>2, <2>3
  <2> QED
    BY <1>1, <2>4 DEF Connected
<1> HIDE DEF old
<1>6. SnapshotUi \in Shown /\ SnapshotUi.screen.shown /\ SnapshotUi \in UiState
  BY <1>1, SnapshotType DEF Shown
<1>7. Joining /\ ~Joining'
  BY <1>3 DEF Joining
<1>8. queue' \in Seq(Payload) /\ <<>> \in Seq(Payload)
  BY <1>4, <1>5, ThenAssoc
<1>9. Connected'
  BY <1>1, <1>3, <1>4, <1>6, <1>7, <1>8 DEF Connected
<1>10. ASSUME mixed' # "stale"
       PROVE  queue' = held
  <2>1. old = <<>>
    BY <1>4, <1>10
  <2> QED
    BY <1>4, <1>5, <2>1, Concats DEF Then
<1>11. ScreenRight'
  <2> SUFFICES ASSUME mixed' # "stale"
               PROVE  \E x : Leads(SnapshotUi, queue', x, Shown) /\ Right(x.screen)'
    BY <1>3 DEF ScreenRight
  <2>1. PICK x : Leads(SnapshotUi, held, x, Shown) /\ Renews(SnapshotUi.screen, x.screen)
    BY <1>1, <1>6, <1>7 DEF HeldRenews
  <2>2. Right(x.screen)
    BY <1>1, <2>1, SnapshotRight DEF Right, Renews
  <2>3. Right(x.screen)'
    BY <1>3, <2>2, StillRight
  <2> QED
    BY <1>10, <2>1, <2>3
<1>12. ScreenClean'
  <2> SUFFICES ASSUME mixed' = "clean"
               PROVE  /\ \E x : Leads(SnapshotUi, queue', x, Discreet) /\ Clean(x)'
                      /\ Me \notin forgotten'
    BY <1>3 DEF ScreenClean
  <2>1. queue' = held
    BY <1>10
  <2>2. held = <<Of("ObserverJoined", Me)>>
    BY <1>4
  <2>3. PICK kind \in MoveKinds : kind = "ObserverJoined"
    BY DEF MoveKinds
  <2>4. PICK x : x = ApplyEvent(SnapshotUi, Of(kind, Me))
    OBVIOUS
  <2>5. Leads(SnapshotUi, <<Of(kind, Me)>>, x, Discreet) /\ Clean(x)
    BY <1>1, <2>3, <2>4, SnapshotAgain
  <2>6. Clean(x)'
    BY <1>3, <2>5, StillRight
  <2>7. forgotten = {}
    <3>1. Of("ObserverJoined", Me).kind = "ObserverJoined"
      BY DEF Of, Event
    <3>2. Len(held) = 1 /\ held[1].kind = "ObserverJoined"
      BY <2>2, <3>1
    <3>3. \A i \in 1..Len(held) : held[i].kind # "PhaseChanged"
      BY <3>2
    <3> QED
      BY <1>1, <1>7, <3>3 DEF HeldQuiet
  <2> QED
    BY <1>3, <2>1, <2>2, <2>3, <2>5, <2>6, <2>7
<1>13. ScreenDiscreet'
  <2>1. mixed' = "clean" => \E x : Leads(SnapshotUi, queue', x, Discreet)
    BY <1>3, <1>6, <1>12 DEF ScreenClean, Forwarding
  <2> QED
    BY <1>3, <2>1 DEF ScreenDiscreet
<1>14. Attended'
  BY <1>3 DEF Attended
<1> QED
  BY <1>7, <1>9, <1>11, <1>12, <1>13, <1>14 DEF ViewInv, HeldRenews, HeldQuiet

\* To dismiss the result keeps it: no event reads it.
LEMMA DismissResultKeeps ==
  ASSUME ViewInv, TableInv', DismissResult
  PROVE  ViewInv'
PROOF
<1>1. /\ TableInv /\ Connected /\ Attended /\ ScreenRight /\ ScreenClean /\ ScreenDiscreet
      /\ HeldRenews /\ HeldQuiet
  BY DEF ViewInv
<1>2. /\ ui' = [ui EXCEPT !.screen.result = FALSE]
      /\ UNCHANGED <<vars, dealerCards, sent, feed, held, queue, mixed, forgotten>>
  BY DEF DismissResult, feedVars
<1>3. ui \in UiState /\ queue \in Seq(Payload)
  BY <1>1 DEF Connected
<1>4. ui'.screen = [ui.screen EXCEPT !.result = FALSE] /\ ui'.betting = ui.betting
      /\ ui' \in UiState
  BY <1>2, <1>3 DEF UiState, TableState
<1>5. /\ ui'.screen.shown = ui.screen.shown
      /\ Same(ui.screen, ui'.screen) /\ ui'.screen.dealer = ui.screen.dealer
      /\ ui'.screen.row = ui.screen.row
      /\ ui'.screen.isObserver = ui.screen.isObserver
  BY <1>3, <1>4 DEF UiState, TableState, Same, SamePlaces
<1>6. ASSUME ui.screen.shown
      PROVE  ui' \in Shown /\ Twin(ui, ui')
  <2>1. ui \in Shown
    BY <1>1, <1>6 DEF Connected
  <2>2. Tidy(ui'.screen)
    BY <1>5, <2>1 DEF Shown, Tidy, Same, SamePlaces
  <2>3. ui' \in Shown
    BY <1>4, <1>5, <1>6, <2>2 DEF Shown
  <2> QED
    BY <1>4, <1>5, <2>1, <2>3 DEF Twin
<1>7. PICK w : w = ui'
  OBVIOUS
<1>8. Connected'
  BY <1>1, <1>2, <1>4, <1>5, <1>6 DEF Connected
<1>9. ScreenRight'
  <2> SUFFICES ASSUME Forwarding, ui.screen.shown, mixed # "stale"
               PROVE  \E x : Leads(w, queue, x, Shown) /\ Right(x.screen)'
    BY <1>2, <1>5, <1>7 DEF ScreenRight, Forwarding
  <2>1. PICK v : Leads(ui, queue, v, Shown) /\ Right(v.screen)
    BY <1>1 DEF ScreenRight
  <2>2. PICK x : Leads(w, queue, x, Shown) /\ Twin(v, x)
    BY <1>3, <1>6, <1>7, <2>1, TwinsLead
  <2>3. Right(x.screen)'
    BY <1>2, <2>1, <2>2, TwinRight, StillRight
  <2> QED
    BY <2>2, <2>3
<1>10. ScreenClean'
  <2> SUFFICES ASSUME Forwarding, ui.screen.shown, mixed = "clean"
               PROVE  /\ \E x : Leads(w, queue, x, Discreet) /\ Clean(x)'
                      /\ Me \in Present' => Me \notin forgotten'
    BY <1>2, <1>5, <1>7 DEF ScreenClean, Forwarding
  <2>1. PICK v : Leads(ui, queue, v, Discreet) /\ Clean(v)
    BY <1>1 DEF ScreenClean
  <2>2. PICK x : Leads(w, queue, x, Discreet) /\ Twin(v, x)
    BY <1>3, <1>6, <1>7, <2>1, TwinsLead
  <2>3. Clean(x)'
    BY <1>2, <2>1, <2>2, TwinRight, StillRight
  <2>4. Me \in Present' => Me \notin forgotten'
    BY <1>1, <1>2 DEF ScreenClean, vars, Present, Seated, Waiting
  <2> QED
    BY <2>2, <2>3, <2>4
<1>11. HeldRenews'
  BY <1>1, <1>2, StillRight DEF HeldRenews, Joining
<1>12. HeldQuiet'
  BY <1>1, <1>2 DEF HeldQuiet, Joining
<1>13. ScreenDiscreet'
  <2> SUFFICES ASSUME ui.screen.shown, mixed = "clean"
               PROVE  \E x : Leads(w, queue, x, Discreet)
    BY <1>2, <1>5, <1>7 DEF ScreenDiscreet
  <2>1. PICK v : Leads(ui, queue, v, Discreet)
    BY <1>1 DEF ScreenDiscreet
  <2> QED
    BY <1>3, <1>6, <1>7, <2>1, TwinsLead
<1>14. Attended'
  BY <1>1, <1>2, StillThere DEF Attended
<1> QED
  BY <1>8, <1>9, <1>10, <1>11, <1>12, <1>13, <1>14 DEF ViewInv

\* One event applied keeps it: the screen is one step further on its walk.
LEMMA TickKeeps ==
  ASSUME ViewInv, TableInv', Tick
  PROVE  ViewInv'
PROOF
<1>1. /\ TableInv /\ Connected /\ Attended /\ ScreenRight /\ ScreenClean /\ ScreenDiscreet
      /\ HeldRenews /\ HeldQuiet
  BY DEF ViewInv
<1>2. /\ queue # <<>> /\ ui' = ApplyEvent(ui, Head(queue)) /\ queue' = Tail(queue)
      /\ UNCHANGED <<vars, dealerCards, sent, feed, held, mixed, forgotten>>
  BY DEF Tick
<1>3. queue \in Seq(Payload) /\ ui \in UiState
  BY <1>1 DEF Connected
<1>4. Head(queue) \in Payload /\ Tail(queue) \in Seq(Payload)
  BY <1>2, <1>3
<1>5. PICK e \in Payload : e = Head(queue)
  BY <1>4
<1>6. PICK x : x = ApplyEvent(ui, e)
  OBVIOUS
<1>7. ui' = x
  BY <1>2, <1>5, <1>6
<1>8. ASSUME ui.screen.shown
      PROVE  x \in Shown
  <2>1. ui \in Shown
    BY <1>1, <1>8 DEF Connected
  <2> QED
    BY <1>6, <2>1, EventEffect
<1>9. ASSUME ~ui.screen.shown
      PROVE  x \in UiState /\ x.screen = ui.screen
  <2>1. x = SyncChrome(ui, e)
    BY <1>6, <1>9 DEF ApplyEvent
  <2>2. (~ui.screen.isObserver /\ e.to = "WaitingForBets") \in BOOLEAN
    OBVIOUS
  <2> QED
    BY <1>3, <2>1, <2>2 DEF SyncChrome, UiState
<1>10. x.screen.shown => ui.screen.shown
  BY <1>9
<1>11. Connected'
  BY <1>1, <1>2, <1>4, <1>7, <1>8, <1>9, <1>10 DEF Connected, Shown
<1>12. ScreenRight'
  <2> SUFFICES ASSUME Forwarding, ui.screen.shown, mixed # "stale"
               PROVE  \E v : Leads(x, Tail(queue), v, Shown) /\ Right(v.screen)'
    BY <1>2, <1>7, <1>10 DEF ScreenRight, Forwarding
  <2>1. PICK v : Leads(ui, queue, v, Shown) /\ Right(v.screen)
    BY <1>1 DEF ScreenRight
  <2>2. Leads(x, Tail(queue), v, Shown)
    BY <1>2, <1>3, <1>5, <1>6, <2>1, LeadsTail
  <2>3. Right(v.screen)'
    BY <1>2, <2>1, StillRight
  <2> QED
    BY <2>2, <2>3
<1>13. ScreenClean'
  <2> SUFFICES ASSUME Forwarding, ui.screen.shown, mixed = "clean"
               PROVE  /\ \E v : Leads(x, Tail(queue), v, Discreet) /\ Clean(v)'
                      /\ Me \in Present' => Me \notin forgotten'
    BY <1>2, <1>7, <1>10 DEF ScreenClean, Forwarding
  <2>1. PICK v : Leads(ui, queue, v, Discreet) /\ Clean(v)
    BY <1>1 DEF ScreenClean
  <2>2. Leads(x, Tail(queue), v, Discreet)
    BY <1>2, <1>3, <1>5, <1>6, <2>1, LeadsTail
  <2>3. Clean(v)'
    BY <1>2, <2>1, StillRight
  <2>4. Me \in Present' => Me \notin forgotten'
    BY <1>1, <1>2 DEF ScreenClean, vars, Present, Seated, Waiting
  <2> QED
    BY <2>2, <2>3, <2>4
<1>14. HeldRenews'
  BY <1>1, <1>2, StillRight DEF HeldRenews, Joining
<1>15. HeldQuiet'
  BY <1>1, <1>2 DEF HeldQuiet, Joining
<1>16. ScreenDiscreet'
  <2> SUFFICES ASSUME ui.screen.shown, mixed = "clean"
               PROVE  \E v : Leads(x, Tail(queue), v, Discreet)
    BY <1>2, <1>7, <1>10 DEF ScreenDiscreet
  <2>1. PICK v : Leads(ui, queue, v, Discreet)
    BY <1>1 DEF ScreenDiscreet
  <2> QED
    BY <1>2, <1>3, <1>5, <1>6, <2>1, LeadsTail
<1>17. Attended'
  BY <1>1, <1>2, StillThere DEF Attended
<1> QED
  BY <1>11, <1>12, <1>13, <1>14, <1>15, <1>16, <1>17 DEF ViewInv

\* A step that changes nothing keeps it.
LEMMA ViewStill ==
  ASSUME ViewInv, TableInv', UNCHANGED allVars
  PROVE  ViewInv'
PROOF
<1>1. UNCHANGED <<vars, dealerCards, sent, feed, held, queue, ui, mixed, forgotten>>
  BY DEF allVars, viewVars, feedVars
<1>2. Connected' /\ HeldQuiet'
  BY <1>1 DEF ViewInv, Connected, HeldQuiet, Joining
<1>3. ScreenRight' /\ HeldRenews'
  BY <1>1, StillRight DEF ViewInv, ScreenRight, HeldRenews, Joining, Forwarding
<1>4. ScreenClean' /\ ScreenDiscreet'
  BY <1>1, StillRight, StillThere DEF ViewInv, ScreenClean, ScreenDiscreet, Forwarding
<1>5. Attended'
  BY <1>1, StillThere DEF ViewInv, Attended
<1> QED
  BY <1>2, <1>3, <1>4, <1>5 DEF ViewInv

\* Every step keeps the invariant.
LEMMA ViewStep == ViewInv /\ [ViewNext]_allVars => ViewInv'
PROOF
<1> SUFFICES ASSUME ViewInv, [ViewNext]_allVars PROVE ViewInv'
  OBVIOUS
<1>1. TableInv'
  BY TableInvStep DEF ViewInv
<1>2. CASE TableStep
  BY <1>1, <1>2, TableKeeps
<1>3. CASE Connection
  <2>1. CASE Requests
    BY <1>1, <2>1, EnterKeeps, JoinArrivesKeeps, SubscribeKeeps, JoinElsewhereKeeps, JoinMeKeeps,
       JoinRefusedKeeps, TakeSnapshotKeeps, BackToLobbyKeeps, LeaveArrivesKeeps,
       StopForwarderKeeps DEF Requests
  <2> QED
    BY <1>1, <1>3, <2>1, DismissResultKeeps, TickKeeps DEF Connection
<1>4. CASE UNCHANGED allVars
  BY <1>1, <1>4, ViewStill
<1> QED
  BY <1>2, <1>3, <1>4 DEF ViewNext

\* It holds initially.
LEMMA ViewStart == ViewInit => ViewInv
PROOF
<1> SUFFICES ASSUME ViewInit PROVE ViewInv
  OBVIOUS
<1>1. TableInv
  BY TableInvInit
<1>2. /\ feed = "off" /\ sent = <<>> /\ held = <<>> /\ queue = <<>> /\ ui = LobbyUi
      /\ mixed = "clean" /\ forgotten = {}
  BY DEF ViewInit
<1>3. LobbyUi \in UiState /\ ~LobbyUi.screen.shown /\ <<>> \in Seq(Payload)
  BY LobbyType
<1>4. Connected
  <2>1. <<>> \in Seq({"join", "leave"}) /\ {} \in SUBSET Player
    OBVIOUS
  <2> QED
    BY <1>2, <1>3, <2>1 DEF Connected
<1>5. ScreenRight /\ ScreenClean /\ ScreenDiscreet /\ HeldRenews /\ HeldQuiet
  BY <1>2, <1>3 DEF ScreenRight, ScreenClean, ScreenDiscreet, HeldRenews, HeldQuiet, Joining
<1>6. Attended
  <2>1. Seated = {} /\ Waiting = {} /\ observers = {}
    BY DEF ViewInit, Init, Seated, Waiting, Range
  <2> QED
    BY <2>1 DEF Attended, Present
<1> QED
  BY <1>1, <1>4, <1>5, <1>6 DEF ViewInv

\* However Enter, `l', commands, ticks and what the server makes of them interleave, a second
\* JoinTable and a refused one included, the inductive invariant holds (ws.rs, mod.rs).
THEOREM ViewInvariance == ViewSpec => []ViewInv
PROOF
<1> QED
  BY ViewStart, ViewStep, PTL DEF ViewSpec

\* Every variable of the view has its type: no event takes a screen to one that the CLI could not
\* show (apply_event_payload in cli/src/app/mod.rs).
THEOREM ViewTypeCorrect == ViewSpec => []ViewTypeOK
PROOF
<1>1. ViewInv => ViewTypeOK
  BY PeopleNow DEF ViewInv, TableInv, People, DealerDealt, Connected, ViewTypeOK
<1> QED
  BY <1>1, ViewInvariance, PTL

\* No moment of a second JoinTable, of a refusal or of a LeaveTable leaves the player at a table
\* that nothing is sent on from (ws.rs, the JoinTable and LeaveTable arms).
THEOREM PlayersAreFedHolds == ViewSpec => []PlayersAreFed
PROOF
<1>1. ViewInv => PlayersAreFed
  BY DEF ViewInv, Attended, PlayersAreFed
<1> QED
  BY <1>1, ViewInvariance, PTL

\* What is on its way leads where Settled says.
LEMMA SettledIs ==
  ASSUME Connected, ui.screen.shown, NEW x, NEW T, Leads(ui, queue, x, T)
  PROVE  Settled = x /\ (T \subseteq Shown => x \in T)
PROOF
<1>1. ui \in Shown /\ queue \in Seq(Payload) /\ Len(queue) \in Nat
  BY DEF Connected
<1>2. Leads(ui, queue, After(ui, queue), Shown)
  BY <1>1, LeadsAfter
<1>3. After(ui, queue) = x
  BY <1>1, <1>2, LeadsOne
<1>4. x \in T
  BY <1>1, LeadsEnds
<1> QED
  BY <1>3, <1>4 DEF Settled, After

\* While a forwarder sends events on, also after a second JoinTable: once those on their way have
\* been applied, the screen shows the phase, whose turn it is, who sits, who watches and who waits
\* as the table has them; in the order of the seats if no event came twice (apply_event_payload
\* in cli/src/app/mod.rs).
THEOREM TableShownHolds == ViewSpec => []TableShown
PROOF
<1>1. ViewInv => TableShown
  <2> SUFFICES ASSUME ViewInv, feed = "on", ui.screen.shown, mixed # "stale",
                      NEW s, s = Settled.screen
               PROVE  /\ s.phase = GamePhaseOf(phase)
                      /\ s.active = {turn} \ {Nobody}
                      /\ s.myTurn <=> turn = Me
                      /\ Range(s.players) = Seated
                      /\ mixed = "clean" => s.players = players
                      /\ SamePeople(s.observers, observers)
                      /\ SamePeople(s.waiting, Waiting)
                      /\ SamePeople({p \in {Me} : s.isObserver}, observers \cap {Me})
    BY DEF TableShown
  <2>1. IInv /\ Connected /\ ScreenRight /\ ScreenClean /\ Forwarding
    BY DEF ViewInv, TableInv, Forwarding
  <2>2. PICK x : Leads(ui, queue, x, Shown) /\ Right(x.screen)
    BY <2>1 DEF ScreenRight
  <2>3. s = x.screen /\ x \in Shown
    BY <2>1, <2>2, SettledIs
  <2>4. /\ s \in TableState /\ (s.isObserver <=> Me \in s.observers)
        /\ s.observers \in SUBSET Player /\ s.waiting \in SUBSET Player
        /\ s.players \in Seq(Player)
    BY <2>3 DEF Shown, UiState, TableState, Tidy
  <2>5. Range(s.players) \subseteq Player
    BY <2>4, RangeType
  <2>6. /\ Seated \in SUBSET Player /\ Waiting \in SUBSET Player /\ observers \in SUBSET Player
        /\ turn # Nobody => turn \in Seated
    BY <2>1, PeopleNow DEF People, TypeOK
  <2>7. Range(s.players) = Seated
    BY <2>2, <2>3, <2>5, <2>6 DEF Right, SeatRight
  <2>8. s.active = {turn} \ {Nobody}
    BY <2>2, <2>3, <2>6, <2>7 DEF Right, ActiveRight
  <2>9. s.phase = GamePhaseOf(phase) /\ (s.myTurn <=> turn = Me)
    BY <2>2, <2>3 DEF Right, PhaseRight, TurnRight
  <2>10. /\ SamePeople(s.observers, observers) /\ SamePeople(s.waiting, Waiting)
         /\ SamePeople({p \in {Me} : s.isObserver}, observers \cap {Me})
    <3>1. \A p \in Player : WatchRight(s, p) /\ QueueRight(s, p)
      BY <2>2, <2>3 DEF Right
    <3> QED
      BY <2>4, <2>6, <3>1 DEF WatchRight, QueueRight, SamePeople
  <2>11. mixed = "clean" => s.players = players
    <3> SUFFICES ASSUME mixed = "clean" PROVE s.players = players
      OBVIOUS
    <3>1. PICK y : Leads(ui, queue, y, Discreet) /\ Clean(y)
      BY <2>1 DEF ScreenClean
    <3>2. s = y.screen
      BY <2>1, <3>1, SettledIs
    <3> QED
      BY <3>1, <3>2 DEF Clean
  <2> QED
    BY <2>7, <2>8, <2>9, <2>10, <2>11
<1> QED
  BY <1>1, ViewInvariance, PTL

\* So it does, while a forwarder sends events on, with every player's cards, bust mark and stake,
\* and with the dealer's cards, where the hole card may still be hidden (no event came twice).
THEOREM CardsShownHolds == ViewSpec => []CardsShown
PROOF
<1>1. ViewInv => CardsShown
  <2> SUFFICES ASSUME ViewInv, feed = "on", ui.screen.shown, mixed = "clean",
                      NEW s, s = Settled.screen
               PROVE  /\ Len(s.dealer) = Len(dealerCards)
                      /\ \A i \in DOMAIN dealerCards :
                           \/ s.dealer[i] = dealerCards[i]
                           \/ s.dealer[i] = Hidden /\ i = 2 /\ phase \in {"PlayerTurn", "DealerTurn"}
                      /\ \A p \in Seated :
                           /\ s.row[p].hand = player[p].hand
                           /\ s.row[p].bust <=> IsBust(player[p].hand)
                           /\ phase # "Finished" => s.row[p].bet = player[p].bet
    BY DEF CardsShown
  <2>1. IInv /\ Connected /\ ScreenClean /\ Forwarding /\ dealerCards \in Seq(Cards)
    BY DEF ViewInv, TableInv, DealerDealt, Forwarding
  <2>2. PICK y : Leads(ui, queue, y, Discreet) /\ Clean(y)
    BY <2>1 DEF ScreenClean
  <2>3. s = y.screen
    BY <2>1, <2>2, SettledIs
  <2>4. Seated \in SUBSET Player /\ DOMAIN dealerCards = 1..Len(dealerCards)
    BY <2>1, PeopleNow, LenProperties DEF People
  <2> QED
    BY <2>2, <2>3, <2>4 DEF Clean, DealerRight, RowRight
<1> QED
  BY <1>1, ViewInvariance, PTL

\* While, as far as it knows, cards are dealt and players play, a screen that got every event once
\* shows no more of the dealer than the up card, after any event, whatever is still on its way, and
\* although nothing may follow any more (apply_event_payload, GameStateSnapshot::from_state).
THEOREM HoleCardHiddenHolds == ViewSpec => []HoleCardHidden
PROOF
<1>1. ViewInv => HoleCardHidden
  <2> SUFFICES ASSUME ViewInv, ui.screen.shown, mixed = "clean"
               PROVE  NoPeek(ui.screen)
    BY DEF HoleCardHidden, NoPeek
  <2>1. queue \in Seq(Payload) /\ ScreenDiscreet
    BY DEF ViewInv, Connected
  <2>2. PICK y : Leads(ui, queue, y, Discreet)
    BY <2>1 DEF ScreenDiscreet
  <2>3. ui \in Discreet
    BY <2>1, <2>2, LeadsEnds
  <2> QED
    BY <2>3 DEF Discreet
<1> QED
  BY <1>1, ViewInvariance, PTL

\* When bets are open and every event has been applied, a seated client has the widget to bet with,
\* also one that joined twice (sync_ui_chrome, UiState::from_table_state).
THEOREM SeatedCanBetHolds == ViewSpec => []SeatedCanBet
PROOF
<1>1. ViewInv => SeatedCanBet
  <2> SUFFICES ASSUME ViewInv, ui.screen.shown, mixed = "clean", phase = "WaitingForBets",
                      Me \in Seated
               PROVE  Settled.betting
    BY DEF SeatedCanBet
  <2>1. Connected /\ ScreenClean /\ Forwarding
    BY DEF ViewInv, Attended, Forwarding
  <2>2. PICK y : Leads(ui, queue, y, Discreet) /\ Clean(y)
    BY <2>1 DEF ScreenClean
  <2>3. Settled = y
    BY <2>1, <2>2, SettledIs
  <2> QED
    BY <2>2, <2>3 DEF Clean, Present
<1> QED
  BY <1>1, ViewInvariance, PTL

==============================================================================
