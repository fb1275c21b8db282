------------------------- MODULE HandReferenceTheorems -------------------------
(***************************************************************************)
(* That the arithmetic of Hands follows the rules of the game, for any      *)
(* cards, hands of any length and any bet.  RefInv says what the engine's   *)
(* running Hand knows of the cards; that is all the total depends on, since *)
(* two aces at 11 are 22 already.                                           *)
(***************************************************************************)
EXTENDS HandReference, OperatorLemmas

\* The greatest of a set of numbers, for whoever knows which it is.
LEMMA MaxIs ==
  ASSUME NEW S \in SUBSET Int, NEW x \in S, \A y \in S : y <= x
  PROVE  Max(S) = x
PROOF
<1>1. \A z \in S : (\A y \in S : z >= y) => z = x
  OBVIOUS
<1>2. x \in S /\ \A y \in S : x >= y
  OBVIOUS
<1> QED
  BY <1>1, <1>2 DEF Max

\* The least of a set of numbers, likewise.
LEMMA MinIs ==
  ASSUME NEW S \in SUBSET Int, NEW x \in S, \A y \in S : x <= y
  PROVE  Min(S) = x
PROOF
<1>1. \A z \in S : (\A y \in S : z <= y) => z = x
  OBVIOUS
<1>2. x \in S /\ \A y \in S : x <= y
  OBVIOUS
<1> QED
  BY <1>1, <1>2 DEF Min

-----------------------------------------------------------------------------

\* The total of the cards with every ace at 1.
Hard(cards) == FoldSeq(+, 0, cards)

\* No cards have no total and no ace.
LEMMA NoCards == Hard(<<>>) = 0 /\ Aces(<<>>) = 0
PROOF
<1>1. Hard(<<>>) = SumFunctionOnSet(<<>>, {})
  <2>1. DOMAIN <<>> = {}
    OBVIOUS
  <2>2. Hard(<<>>) = SumFunctionOnSet(<<>>, DOMAIN <<>>)
    BY DEF Hard, FoldSeq, FoldFunction, SumFunctionOnSet
  <2> QED
    BY <2>1, <2>2
<1>2. {i \in DOMAIN <<>> : <<>>[i] = 1} = {}
  OBVIOUS
<1> QED
  BY <1>1, <1>2, SumEmpty, FS_EmptySet DEF Aces

\* One card more adds its pips, and one ace if it is one.
LEMMA OneCardMore ==
  ASSUME NEW s \in Seq(Pip), NEW c \in Pip
  PROVE  /\ Hard(s) \in Nat /\ Aces(s) \in Nat
         /\ Hard(Append(s, c)) = Hard(s) + c
         /\ Aces(Append(s, c)) = Aces(s) + (IF c = 1 THEN 1 ELSE 0)
PROOF
<1> DEFINE t == Append(s, c)
           n == Len(s)
           A == {i \in 1..n : s[i] = 1}
<1>1. /\ n \in Nat /\ DOMAIN s = 1..n /\ DOMAIN t = 1..(n + 1)
      /\ t[n + 1] = c /\ \A i \in 1..n : t[i] = s[i] /\ s[i] \in Pip
  BY AppendProperties, LenProperties, ElementOfSeq
<1>2. Hard(s) = SumFunctionOnSet(s, 1..n) /\ Hard(t) = SumFunctionOnSet(t, 1..(n + 1))
  <2> HIDE DEF t, n
  <2> QED
    BY <1>1 DEF Hard, FoldSeq, FoldFunction, SumFunctionOnSet
<1>3. /\ IsFiniteSet(1..n) /\ IsFiniteSet(1..(n + 1))
      /\ (1..(n + 1)) \ {n + 1} = 1..n /\ n + 1 \in 1..(n + 1)
  <2>1. n \in Int /\ n + 1 \in Int /\ 1 \in Int
    BY <1>1
  <2> HIDE DEF n
  <2>2. IsFiniteSet(1..n) /\ IsFiniteSet(1..(n + 1))
    BY <2>1, FS_Interval
  <2> QED
    BY <1>1, <2>2
<1>4. /\ \A i \in 1..(n + 1) : t[i] \in Nat
      /\ \A i \in 1..n : s[i] \in Nat /\ t[i] = s[i]
  BY <1>1 DEF Pip
<1>5. Aces(s) = Cardinality(A) /\ IsFiniteSet(A) /\ Cardinality(A) \in Nat
  BY <1>1, <1>3, FS_Subset, FS_CardinalityType DEF Aces
<1>6. Aces(t) = Cardinality(IF c = 1 THEN A \cup {n + 1} ELSE A)
  <2>1. {i \in 1..(n + 1) : t[i] = 1} = IF c = 1 THEN A \cup {n + 1} ELSE A
    <3> HIDE DEF t, n
    <3> QED
      BY <1>1, <1>3
  <2> QED
    BY <1>1, <2>1 DEF Aces
<1>7. n + 1 \notin A
  BY <1>1
<1> HIDE DEF t, n, A
<1>8. Hard(t) = c + Hard(s) /\ Hard(s) \in Nat
  <2>1. SumFunctionOnSet(t, 1..(n + 1)) = t[n + 1] + SumFunctionOnSet(t, 1..n)
    <3>1. ASSUME NEW S, IsFiniteSet(S), \A x \in S : t[x] \in Nat, NEW e \in S
          PROVE  SumFunctionOnSet(t, S) = t[e] + SumFunctionOnSet(t, S \ {e})
      BY <3>1, SumTakeOut
    <3>2. SumFunctionOnSet(t, 1..(n + 1)) =
            t[n + 1] + SumFunctionOnSet(t, (1..(n + 1)) \ {n + 1})
      BY <1>3, <1>4, <3>1
    <3> QED
      BY <1>3, <3>2
  <2>2. SumFunctionOnSet(t, 1..n) = SumFunctionOnSet(s, 1..n)
    BY <1>3, <1>4, SumEqual
  <2>3. SumFunctionOnSet(s, 1..n) \in Nat
    BY <1>3, <1>4, SumType
  <2> QED
    BY <1>1, <1>2, <2>1, <2>2, <2>3
<1>9. Aces(t) = Aces(s) + (IF c = 1 THEN 1 ELSE 0)
  <2>1. Cardinality(A \cup {n + 1}) = Cardinality(A) + 1
    BY <1>5, <1>7, FS_AddElement
  <2> QED
    BY <1>5, <1>6, <2>1
<1> QED
  BY <1>5, <1>8, <1>9 DEF t, Pip

-----------------------------------------------------------------------------

\* What the engine's Hand knows of the cards.
Summarises(hand, cards) ==
  /\ cards \in Seq(Pip)
  /\ hand \in Hand
  /\ hand.cards = Len(cards)
  /\ hand.hard = Hard(cards)
  /\ hand.ace <=> Aces(cards) > 0
  /\ Aces(cards) \in Nat /\ Aces(cards) <= Hard(cards)
  /\ Len(cards) <= Hard(cards)

\* The dealer's first cards.
FirstCards(hand, cards) ==
  /\ Len(cards) = 0 => hand = EmptyHand
  /\ Len(cards) = 1 => \E c \in Pip : hand = AddCard(EmptyHand, c)
  /\ Len(cards) = 2 => \E c, d \in Pip : hand = TwoCards(c, d)

RefInv ==
  /\ Summarises(myHand, mine)
  /\ Summarises(theirHand, theirs)
  /\ FirstCards(theirHand, theirs)

\* Hand::add_card keeps what the hand knows.
LEMMA SummarisesNext ==
  ASSUME NEW h, NEW s, Summarises(h, s), NEW c \in Pip
  PROVE  Summarises(AddCard(h, c), Append(s, c))
PROOF
<1> DEFINE t == Append(s, c)
           k == AddCard(h, c)
<1>1. s \in Seq(Pip) /\ h \in Hand /\ c \in 1..10
  BY DEF Summarises, Pip
<1>2. t \in Seq(Pip) /\ Len(t) = Len(s) + 1
  BY <1>1, AppendProperties
<1>3. /\ Hard(s) \in Nat /\ Aces(s) \in Nat
      /\ Hard(t) = Hard(s) + c
      /\ Aces(t) = Aces(s) + (IF c = 1 THEN 1 ELSE 0)
  BY <1>1, OneCardMore
<1>4. k \in Hand /\ k.cards = h.cards + 1 /\ k.hard = h.hard + c /\ (k.ace <=> h.ace \/ c = 1)
  BY <1>1, AddCardType
<1> HIDE DEF t, k
<1>5. /\ h.cards = Len(s) /\ h.hard = Hard(s) /\ (h.ace <=> Aces(s) > 0)
      /\ Aces(s) <= Hard(s)
  BY DEF Summarises
<1>6. Aces(t) \in Nat /\ Aces(t) <= Hard(t) /\ (k.ace <=> Aces(t) > 0)
  BY <1>1, <1>3, <1>4, <1>5
<1>7. Len(s) \in Nat /\ Len(s) <= Hard(s)
  BY <1>1, LenProperties DEF Summarises
<1>8. Len(t) <= Hard(t)
  BY <1>1, <1>2, <1>3, <1>7
<1> QED
  BY <1>2, <1>3, <1>4, <1>5, <1>6, <1>8 DEF Summarises, t, k

\* RefInv holds of no cards and is kept by a card for either.
LEMMA RefInvariant == Spec => []RefInv
PROOF
<1>1. Init => RefInv
  BY NoCards, EmptyHandType DEF Init, RefInv, Summarises, FirstCards, EmptyHand
<1>2. RefInv /\ [Next]_vars => RefInv'
  <2>1. SUFFICES ASSUME RefInv, [Next]_vars PROVE RefInv'
    OBVIOUS
  <2>2. ASSUME NEW c \in Cards, DealToPlayer(c)
        PROVE  RefInv'
    BY <2>1, <2>2, CardsAssumption, SummarisesNext DEF DealToPlayer, RefInv
  <2>3. ASSUME NEW c \in Cards, DealToDealer(c)
        PROVE  RefInv'
    <3>1. c \in Pip /\ theirs \in Seq(Pip) /\ Len(theirs) \in Nat
      BY <2>1, CardsAssumption, LenProperties DEF RefInv, Summarises
    <3>2. Summarises(theirHand, theirs)'
      BY <2>1, <2>3, <3>1, SummarisesNext DEF DealToDealer, RefInv
    <3>3. Len(theirs') = Len(theirs) + 1
      BY <2>3, <3>1, AppendProperties DEF DealToDealer
    <3>4. FirstCards(theirHand, theirs)'
      <4>1. FirstCards(theirHand, theirs) /\ theirHand' = AddCard(theirHand, c)
        BY <2>1, <2>3 DEF DealToDealer, RefInv
      <4>2. CASE Len(theirs) = 0
        <5>1. theirHand' = AddCard(EmptyHand, c) /\ Len(theirs') = 1
          BY <3>3, <4>1, <4>2 DEF FirstCards
        <5> QED
          BY <3>1, <5>1 DEF FirstCards
      <4>3. CASE Len(theirs) = 1
        <5>1. PICK d \in Pip : theirHand = AddCard(EmptyHand, d)
          BY <4>1, <4>3 DEF FirstCards
        <5>2. theirHand' = TwoCards(d, c)
          BY <4>1, <5>1 DEF TwoCards
        <5> QED
          BY <3>1, <3>3, <4>3, <5>2 DEF FirstCards
      <4>4. CASE Len(theirs) > 1
        BY <3>1, <3>3, <4>4 DEF FirstCards
      <4>5. \A n \in Nat : n = 0 \/ n = 1 \/ n > 1
        OBVIOUS
      <4>6. Len(theirs) \in Nat
        BY <3>1
      <4> QED
        BY <4>2, <4>3, <4>4, <4>5, <4>6, Zenon
    <3> QED
      BY <2>1, <2>3, <3>2, <3>4 DEF DealToDealer, RefInv
  <2>4. CASE UNCHANGED vars
    BY <2>1, <2>4 DEF vars, RefInv
  <2> QED
    BY <2>1, <2>2, <2>3, <2>4 DEF Next
<1> QED
  BY <1>1, <1>2, PTL DEF Spec

-----------------------------------------------------------------------------

\* Among all the ways to count the aces the best is none or one at 11, whichever the
\* engine takes.
LEMMA TotalIs ==
  ASSUME NEW h, NEW s, Summarises(h, s)
  PROVE  /\ TotalByRules(s) = BestValue(h)
         /\ IsBust(h) <=> BestValue(h) > 21
         /\ BestValue(h) \in Nat
         /\ h.hard >= 1 => BestValue(h) >= 1
PROOF
<1> DEFINE T == Hard(s)
           A == Aces(s)
           ways == {T + 10 * k : k \in 0..A}
           good == {t \in ways : t <= 21}
<1>1. /\ T \in Nat /\ A \in Nat /\ A <= T /\ h.hard = T /\ (h.ace <=> A > 0)
  BY DEF Summarises, Hand
<1>2. TotalByRules(s) = IF good = {} THEN Min(ways) ELSE Max(good)
  BY DEF TotalByRules, Hard
<1> HIDE DEF T, A
<1>3. ways \in SUBSET Int /\ good \in SUBSET Int
  BY <1>1
<1>4. T \in ways /\ \A t \in ways : t >= T
  <2>1. 0 \in 0..A /\ T = T + 10 * 0
    BY <1>1
  <2> QED
    BY <1>1, <2>1
<1>5. BestValue(h) = IF A > 0 /\ T + 10 <= 21 THEN T + 10 ELSE T
  BY <1>1 DEF BestValue, IsSoft
<1>6. CASE T > 21
  <2>1. good = {}
    BY <1>1, <1>4, <1>6
  <2>2. Min(ways) = T
    <3> HIDE DEF ways
    <3> QED
      BY <1>3, <1>4, MinIs
  <2> QED
    BY <1>1, <1>2, <1>5, <1>6, <2>1, <2>2 DEF IsBust
<1>7. CASE T <= 21 /\ A > 0 /\ T + 10 <= 21
  <2>1. T + 10 \in good
    <3>1. 1 \in 0..A /\ T + 10 = T + 10 * 1
      BY <1>1, <1>7
    <3>2. T + 10 \in ways
      BY <3>1
    <3> QED
      BY <1>7, <3>2
  <2>2. \A t \in good : t <= T + 10
    <3>1. ASSUME NEW k \in 0..A, T + 10 * k <= 21
          PROVE  T + 10 * k <= T + 10
      <4>1. k \in Nat /\ k <= A
        BY <1>1
      <4>2. ~(k >= 2)
        BY <1>1, <3>1, <4>1
      <4> QED
        BY <1>1, <4>1, <4>2
    <3> QED
      BY <3>1
  <2>3. Max(good) = T + 10
    <3> HIDE DEF good
    <3> QED
      BY <1>3, <2>1, <2>2, MaxIs
  <2> QED
    BY <1>1, <1>2, <1>5, <1>7, <2>1, <2>3 DEF IsBust
<1>8. CASE T <= 21 /\ ~(A > 0 /\ T + 10 <= 21)
  <2>1. T \in good
    BY <1>4, <1>8
  <2>2. \A t \in good : t <= T
    <3>1. ASSUME NEW k \in 0..A, T + 10 * k <= 21
          PROVE  T + 10 * k <= T
      <4>1. k \in Nat /\ k <= A
        BY <1>1
      <4>2. ~(k >= 1)
        BY <1>1, <1>8, <3>1, <4>1
      <4> QED
        BY <1>1, <4>1, <4>2
    <3> QED
      BY <3>1
  <2>3. Max(good) = T
    <3> HIDE DEF good
    <3> QED
      BY <1>3, <2>1, <2>2, MaxIs
  <2> QED
    BY <1>1, <1>2, <1>5, <1>8, <2>1, <2>3 DEF IsBust
<1> QED
  BY <1>1, <1>6, <1>7, <1>8

\* The client, which takes aces down from 11 one by one, stops where the engine does.
LEMMA ClientValueIs ==
  ASSUME NEW h, NEW s, Summarises(h, s)
  PROVE  ClientValue(s) = BestValue(h)
PROOF
<1> DEFINE T == Hard(s)
           A == Aces(s)
           total == T + 10 * A
           taken == {k \in 0..A : total - 10 * k <= 21} \cup {A}
<1>1. /\ T \in Nat /\ A \in Nat /\ A <= T /\ h.hard = T /\ (h.ace <=> A > 0)
  BY DEF Summarises, Hand
<1>2. ClientValue(s) = total - 10 * Min(taken)
  BY DEF ClientValue, Hard
<1> HIDE DEF T, A
<1>3. taken \in SUBSET Int
  BY <1>1
<1>4. BestValue(h) = IF A > 0 /\ T + 10 <= 21 THEN T + 10 ELSE T
  BY <1>1 DEF BestValue, IsSoft
<1>5. CASE A > 0 /\ T + 10 <= 21
  <2>1. A - 1 \in taken
    BY <1>1, <1>5
  <2>2. ASSUME NEW k \in taken
        PROVE  A - 1 <= k
    <3>1. k \in 0..A /\ (k = A \/ total - 10 * k <= 21)
      BY <1>1
    <3> QED
      BY <1>1, <1>5, <3>1
  <2>3. Min(taken) = A - 1
    <3> HIDE DEF taken
    <3> QED
      BY <1>3, <2>1, <2>2, MinIs
  <2> HIDE DEF taken
  <2> QED
    BY <1>1, <1>2, <1>4, <1>5, <2>3
<1>6. CASE ~(A > 0 /\ T + 10 <= 21)
  <2>1. A \in taken
    OBVIOUS
  <2>2. ASSUME NEW k \in taken
        PROVE  A <= k
    <3>1. k \in 0..A /\ (k = A \/ total - 10 * k <= 21)
      BY <1>1
    <3> QED
      BY <1>1, <1>6, <3>1
  <2>3. Min(taken) = A
    <3> HIDE DEF taken
    <3> QED
      BY <1>3, <2>1, <2>2, MinIs
  <2> HIDE DEF taken
  <2> QED
    BY <1>1, <1>2, <1>4, <1>6, <2>3
<1> QED
  BY <1>5, <1>6

\* Hand::value gives the best total there is, of any cards.
THEOREM EngineTotalIsBestHolds == Spec => []EngineTotalIsBest
PROOF
<1>1. RefInv => EngineTotalIsBest
  BY TotalIs DEF RefInv, EngineTotalIsBest
<1> QED
  BY <1>1, RefInvariant, PTL

\* The client shows the total the engine plays by, of any cards.
THEOREM ClientShowsEngineTotalHolds == Spec => []ClientShowsEngineTotal
PROOF
<1>1. RefInv => ClientShowsEngineTotal
  BY ClientValueIs DEF RefInv, ClientShowsEngineTotal
<1> QED
  BY <1>1, RefInvariant, PTL

-----------------------------------------------------------------------------

\* Three halves of a bet, rounded down, are the bet and its half rounded down.
LEMMA ThreeHalves ==
  ASSUME NEW b \in Nat
  PROVE  (3 * b) \div 2 = b + b \div 2
PROOF
  OBVIOUS

\* settle_player and the payout give the gain of the rules for any bet, not only those
\* that the run tries.
LEMMA SettlementOfAnyBet ==
  ASSUME Summarises(myHand, mine), Summarises(theirHand, theirs),
         Len(mine) >= 2, Len(theirs) >= 2, NEW b \in Nat
  PROVE  Payout(b, SettlePlayer(myHand, theirHand)) - b = GainByRules(b)
PROOF
<1> DEFINE x == BestValue(myHand)
           y == BestValue(theirHand)
           bjx == IsNaturalBlackjack(myHand)
           bjy == IsNaturalBlackjack(theirHand)
           me == Strength(mine)
           you == Strength(theirs)
<1>1. /\ TotalByRules(mine) = x /\ (IsBust(myHand) <=> x > 21) /\ x \in Nat
      /\ TotalByRules(theirs) = y /\ (IsBust(theirHand) <=> y > 21) /\ y \in Nat
      /\ myHand.hard >= 1 => x >= 1
      /\ theirHand.hard >= 1 => y >= 1
  BY TotalIs
<1>2. x >= 1 /\ y >= 1
  BY <1>1, LenProperties DEF Summarises, Hand
<1>3. (bjx <=> Len(mine) = 2 /\ x = 21) /\ (bjy <=> Len(theirs) = 2 /\ y = 21)
  BY DEF IsNaturalBlackjack, Summarises
<1>4. /\ me = IF x > 21 THEN 0 ELSE IF bjx THEN 22 ELSE x
      /\ you = IF y > 21 THEN 0 ELSE IF bjy THEN 22 ELSE y
  BY <1>1, <1>3 DEF Strength
<1>5. b \div 2 \in Nat /\ (3 * b) \div 2 = b + b \div 2
  BY ThreeHalves
<1> DEFINE out == SettlePlayer(myHand, theirHand)
<1>6. out = IF x > 21 THEN "Bust"
            ELSE IF bjx THEN (IF bjy THEN "Push" ELSE "Blackjack")
            ELSE IF bjy THEN "Lost"
            ELSE IF y > 21 \/ x > y THEN "Won"
            ELSE IF x = y THEN "Push" ELSE "Lost"
  BY <1>1 DEF SettlePlayer
<1>7. GainByRules(b) =
        IF me = 0 \/ me < you THEN -b
        ELSE IF me = you THEN 0
        ELSE IF me = 22 THEN (3 * b) \div 2 ELSE b
  <2> HIDE DEF me, you
  <2>1. me \in Nat /\ you \in Nat
    BY <1>1, <1>4 DEF me, you
  <2> QED
    BY <2>1 DEF GainByRules, me, you
<1>8. Payout(b, out) = IF out \in {"Bust", "Lost"} THEN 0
                       ELSE IF out = "Push" THEN b
                       ELSE IF out = "Won" THEN b * 2
                       ELSE b * 2 + b \div 2
  <2>1. out \in Outcomes
    BY <1>6 DEF Outcomes
  <2> HIDE DEF out
  <2> QED
    BY <2>1 DEF Payout, Outcomes
<1>9. (bjx => x = 21) /\ (bjy => y = 21)
  BY <1>3
<1>0. out = "Bust" \/ out = "Blackjack" \/ out = "Push" \/ out = "Won" \/ out = "Lost"
  BY <1>6
<1> HIDE DEF x, y, bjx, bjy, me, you, out
<1> DEFINE half == b \div 2
<1> HIDE DEF half
<1>10. half \in Nat /\ (3 * b) \div 2 = b + half
  BY <1>5 DEF half
<1> SUFFICES Payout(b, out) - b = GainByRules(b)
  BY DEF out
<1>11. CASE out = "Bust"
  BY <1>1, <1>4, <1>6, <1>7, <1>8, <1>11
<1>12. CASE out = "Blackjack"
  <2>1. me = 22 /\ you < 22
    BY <1>1, <1>4, <1>6, <1>9, <1>12
  <2>2. Payout(b, out) = b * 2 + half
    BY <1>8, <1>12 DEF half
  <2>3. GainByRules(b) = b + half
    BY <1>1, <1>4, <1>7, <1>10, <2>1
  <2> QED
    BY <1>10, <2>2, <2>3
<1>13. CASE out = "Push"
  <2>1. me = you /\ me # 0
    BY <1>1, <1>2, <1>4, <1>6, <1>9, <1>13
  <2> QED
    BY <1>1, <1>4, <1>7, <1>8, <1>13, <2>1
<1>14. CASE out = "Won"
  <2>1. me > you /\ me # 22 /\ me # 0 /\ me \in Nat /\ you \in Nat
    BY <1>1, <1>2, <1>4, <1>6, <1>9, <1>14
  <2> QED
    BY <1>7, <1>8, <1>14, <2>1
<1>15. CASE out = "Lost"
  <2>1. me < you /\ me \in Nat /\ you \in Nat
    BY <1>1, <1>2, <1>4, <1>6, <1>9, <1>15
  <2> QED
    BY <1>7, <1>8, <1>15, <2>1
<1> QED
  BY <1>0, <1>11, <1>12, <1>13, <1>14, <1>15

\* The order of the tests in settle_player and the integer division of the payout give
\* the gain of the rules, of any two hands.
THEOREM SettlementFollowsRulesHolds == Spec => []SettlementFollowsRules
PROOF
<1>1. RefInv => SettlementFollowsRules
  <2>1. SUFFICES ASSUME RefInv, Len(mine) >= 2, Len(theirs) >= 2, NEW b \in 1..4
                 PROVE  Payout(b, SettlePlayer(myHand, theirHand)) - b = GainByRules(b)
    BY DEF SettlementFollowsRules
  <2>2. b \in Nat
    OBVIOUS
  <2> QED
    BY <2>1, <2>2, SettlementOfAnyBet DEF RefInv
<1> QED
  BY <1>1, RefInvariant, PTL

\* Whatever two cards the dealer starts with and whatever the shoe holds, the dealer's
\* loop ends on 17 or more within the turns DealerHands allows.
THEOREM DrawLoopEndsHolds == Spec => []DrawLoopEnds
PROOF
<1>1. RefInv => DrawLoopEnds
  <2>1. SUFFICES ASSUME RefInv, Len(theirs) = 2, NEW h \in DealerHands(theirHand, Pip)
                 PROVE  BestValue(h) >= 17
    BY DEF DrawLoopEnds
  <2>2. PICK c \in Pip, d \in Pip : theirHand = TwoCards(c, d)
    BY <2>1 DEF RefInv, FirstCards
  <2> QED
    BY <2>1, <2>2, DealerLoopEnds
<1> QED
  BY <1>1, RefInvariant, PTL

================================================================================
