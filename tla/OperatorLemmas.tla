---------------------------- MODULE OperatorLemmas ----------------------------
(***************************************************************************)
(* Facts about operators, which the proofs about the components cite: what  *)
(* the helpers on sequences, sets of numbers and sums, taken from the       *)
(* community modules, return, and what the operators of Hands do with every *)
(* hand and every set of cards, the dealer's loop among them.               *)
(***************************************************************************)
EXTENDS Hands, Sequences, FiniteSets, SequencesExt, SequenceTheorems,
        FiniteSetTheorems, WellFoundedInduction, TLAPS

\* Min(S) is the least element of a non-empty set of numbers S.
LEMMA MinIsLeast ==
  ASSUME NEW S \in SUBSET Nat, S # {}
  PROVE  /\ Min(S) \in S
         /\ \A x \in S : Min(S) <= x
PROOF
<1>1. IsWellFoundedOn(OpToRel(<, Nat), Nat)
  BY NatLessThanWellFounded
<1>2. PICK x \in S : \A y \in S : ~(<<y, x>> \in OpToRel(<, Nat))
  BY <1>1, WFMin
<1>3. \A y \in S : y \in Nat /\ x \in Nat /\ ~(y < x)
  BY <1>2 DEF OpToRel
<1>4. \A y \in S : x <= y
  BY <1>3
<1> QED
  BY <1>4 DEF Min

\* RemoveAt closes the gap at position k.
LEMMA RemoveAtProperties ==
  ASSUME NEW S, NEW s \in Seq(S), NEW k \in 1..Len(s)
  PROVE  LET r == RemoveAt(s, k) IN
         /\ r \in Seq(S)
         /\ Len(r) = Len(s) - 1
         /\ \A i \in 1..Len(r) : r[i] = IF i < k THEN s[i] ELSE s[i + 1]
PROOF
<1> DEFINE front == SubSeq(s, 1, k - 1)
           back  == SubSeq(s, k + 1, Len(s))
<1>1. Len(s) \in Nat /\ k \in Nat /\ 1 <= k /\ k <= Len(s)
  BY LenProperties
<1>2. /\ front \in Seq(S)
      /\ Len(front) = k - 1
      /\ \A i \in 1..(k - 1) : front[i] = s[i]
  BY <1>1, SubSeqProperties
<1>3. /\ back \in Seq(S)
      /\ Len(back) = Len(s) - k
      /\ \A i \in 1..(Len(s) - k) : back[i] = s[k + i]
  BY <1>1, SubSeqProperties
<1>4. /\ front \o back \in Seq(S)
      /\ Len(front \o back) = Len(front) + Len(back)
      /\ \A i \in 1..(Len(front) + Len(back)) :
           (front \o back)[i] = IF i <= Len(front) THEN front[i] ELSE back[i - Len(front)]
  BY <1>2, <1>3, ConcatProperties
<1> HIDE DEF front, back
<1>5. RemoveAt(s, k) = front \o back
  BY DEF RemoveAt, front, back
<1>6. \A i \in 1..(Len(s) - 1) : (front \o back)[i] = IF i < k THEN s[i] ELSE s[i + 1]
  BY <1>1, <1>2, <1>3, <1>4
<1>7. Len(front \o back) = Len(s) - 1
  BY <1>1, <1>2, <1>3, <1>4
<1> QED
  BY <1>4, <1>5, <1>6, <1>7

\* RemoveFirst takes one occurrence of e away, when there is one.
LEMMA RemoveFirstIsRemoveAt ==
  ASSUME NEW S, NEW s \in Seq(S), NEW e \in Range(s)
  PROVE  \E k \in 1..Len(s) : s[k] = e /\ RemoveFirst(s, e) = RemoveAt(s, k)
PROOF
<1> DEFINE I == {i \in 1..Len(s) : s[i] = e}
<1>1. I # {} /\ I \in SUBSET Nat
  BY LenProperties DEF Range
<1>2. Min(I) \in I
  BY <1>1, MinIsLeast
<1>3. RemoveFirst(s, e) = RemoveAt(s, Min(I))
  BY <1>1 DEF RemoveFirst, SelectInSeq
<1> QED
  BY <1>2, <1>3

\* RemoveFirst leaves a sequence alone that lacks e.
LEMMA RemoveFirstAbsent ==
  ASSUME NEW S, NEW s \in Seq(S), NEW e, e \notin Range(s)
  PROVE  RemoveFirst(s, e) = s
PROOF
  BY LenProperties DEF RemoveFirst, Range

\* In a sequence without repetition nothing of e is left, the other elements are,
\* and there is still no repetition.
LEMMA RemoveFirstProperties ==
  ASSUME NEW S, NEW s \in Seq(S), NEW e, IsInjective(s)
  PROVE  /\ RemoveFirst(s, e) \in Seq(S)
         /\ Range(RemoveFirst(s, e)) = Range(s) \ {e}
         /\ IsInjective(RemoveFirst(s, e))
PROOF
<1>1. CASE e \notin Range(s)
  BY <1>1, RemoveFirstAbsent
<1>2. CASE e \in Range(s)
  <2>1. PICK k \in 1..Len(s) : s[k] = e /\ RemoveFirst(s, e) = RemoveAt(s, k)
    BY <1>2, RemoveFirstIsRemoveAt
  <2> DEFINE r == RemoveAt(s, k)
  <2>2. /\ r \in Seq(S)
        /\ Len(r) = Len(s) - 1
        /\ \A i \in 1..Len(r) : r[i] = IF i < k THEN s[i] ELSE s[i + 1]
    BY RemoveAtProperties
  <2>3. DOMAIN r = 1..Len(r) /\ DOMAIN s = 1..Len(s) /\ Len(s) \in Nat /\ k \in Nat
    BY <2>2, LenProperties
  <2> HIDE DEF r
  <2>4. \A i, j \in 1..Len(s) : s[i] = s[j] => i = j
    BY <2>3 DEF IsInjective
  <2>5. \A i, j \in 1..Len(r) : r[i] = r[j] => i = j
    <3>1. TAKE i, j \in 1..Len(r)
    <3>2. HAVE r[i] = r[j]
    <3> DEFINE up(n) == IF n < k THEN n ELSE n + 1
    <3>3. up(i) \in 1..Len(s) /\ up(j) \in 1..Len(s) /\ r[i] = s[up(i)] /\ r[j] = s[up(j)]
      BY <2>2, <2>3
    <3>4. up(i) = up(j)
      BY <3>2, <3>3, <2>4
    <3> QED
      BY <3>4, <2>2, <2>3
  <2>6. Range(r) \subseteq Range(s) \ {e}
    <3>1. SUFFICES ASSUME NEW i \in 1..Len(r)
                   PROVE  r[i] \in Range(s) \ {e}
      BY <2>3 DEF Range
    <3> DEFINE j == IF i < k THEN i ELSE i + 1
    <3>2. j \in 1..Len(s) /\ r[i] = s[j] /\ j # k
      BY <2>2, <2>3
    <3> QED
      BY <3>2, <2>1, <2>3, <2>4 DEF Range
  <2>7. Range(s) \ {e} \subseteq Range(r)
    <3>1. SUFFICES ASSUME NEW j \in 1..Len(s), s[j] # e
                   PROVE  s[j] \in Range(r)
      BY <2>3 DEF Range
    <3> DEFINE i == IF j < k THEN j ELSE j - 1
    <3>2. j # k
      BY <2>1, <3>1
    <3>3. i \in 1..Len(r) /\ r[i] = s[j]
      BY <2>2, <2>3, <3>2
    <3> QED
      BY <3>3, <2>3 DEF Range
  <2>8. IsInjective(r)
    BY <2>3, <2>5 DEF IsInjective
  <2> QED
    BY <2>1, <2>2, <2>6, <2>7, <2>8 DEF r
<1> QED
  BY <1>1, <1>2

\* Append adds its element and, to a sequence that lacks it, no repetition.
LEMMA AppendElement ==
  ASSUME NEW S, NEW s \in Seq(S), NEW e \in S
  PROVE  /\ Append(s, e) \in Seq(S)
         /\ Range(Append(s, e)) = Range(s) \cup {e}
         /\ IsInjective(s) /\ e \notin Range(s) => IsInjective(Append(s, e))
PROOF
<1> DEFINE a == Append(s, e)
<1>1. /\ a \in Seq(S)
      /\ Len(a) = Len(s) + 1
      /\ \A i \in 1..Len(s) : a[i] = s[i]
      /\ a[Len(s) + 1] = e
  BY AppendProperties
<1>2. /\ DOMAIN s = 1..Len(s) /\ DOMAIN a = 1..(Len(s) + 1)
      /\ Len(s) \in Nat
      /\ 1..(Len(s) + 1) = 1..Len(s) \cup {Len(s) + 1}
  BY <1>1, LenProperties
<1> HIDE DEF a
<1>3. Range(a) = Range(s) \cup {e}
  BY <1>1, <1>2 DEF Range
<1>4. ASSUME IsInjective(s), e \notin Range(s)
      PROVE  IsInjective(a)
  <2>1. \A i \in 1..Len(s) : s[i] # e
    BY <1>2, <1>4 DEF Range
  <2>2. \A i, j \in 1..Len(s) : s[i] = s[j] => i = j
    BY <1>2, <1>4 DEF IsInjective
  <2> QED
    BY <1>1, <1>2, <2>1, <2>2 DEF IsInjective
<1> QED
  BY <1>1, <1>3, <1>4 DEF a

\* The elements of a sequence over S are in S.
LEMMA RangeType ==
  ASSUME NEW S, NEW s \in Seq(S)
  PROVE  Range(s) \subseteq S
PROOF
  BY LenProperties, ElementOfSeq DEF Range

-----------------------------------------------------------------------------

\* A set that holds 0, and with every number the next, holds them all.
LEMMA NatInduct ==
  ASSUME NEW T, 0 \in T, \A n \in Nat : n \in T => n + 1 \in T
  PROVE  Nat \subseteq T
PROOF
<1> DEFINE Out == Nat \ T
<1> SUFFICES ASSUME Out # {} PROVE FALSE
  OBVIOUS
<1>1. IsWellFoundedOn(OpToRel(<, Nat), Nat)
  BY NatLessThanWellFounded
<1>2. PICK x \in Out : \A y \in Out : ~(<<y, x>> \in OpToRel(<, Nat))
  BY <1>1, WFMin
<1>3. \A y \in Out : ~(y < x)
  BY <1>2 DEF OpToRel
<1>4. x # 0
  OBVIOUS
<1>5. x - 1 \in Nat /\ x - 1 < x
  BY <1>4
<1>6. x - 1 \in T
  BY <1>3, <1>5
<1> QED
  BY <1>5, <1>6

\* The last index of a prefix of 1..n, and what comes before it.
LEMMA MaxOfPrefix ==
  ASSUME NEW k \in Nat \ {0}
  PROVE  /\ Max(1..k) = k
         /\ (1..k) \ {k} = 1..(k - 1)
PROOF
<1>1. k \in 1..k /\ \A y \in 1..k : y <= k
  OBVIOUS
<1>2. \A x \in 1..k : (\A y \in 1..k : x >= y) => x = k
  OBVIOUS
<1>3. Max(1..k) = k
  BY <1>1, <1>2 DEF Max
<1> QED
  BY <1>3

\* Max(T) is in T, for a non-empty set of indices.
LEMMA MaxIsMember ==
  ASSUME NEW n \in Nat, NEW T \in SUBSET (1..n), T # {}
  PROVE  Max(T) \in T
PROOF
<1> DEFINE Room == {n - x : x \in T}
<1>1. Room \in SUBSET Nat /\ Room # {}
  <2>1. \A x \in T : n - x \in Nat
    OBVIOUS
  <2> QED
    BY <2>1
<1>2. IsWellFoundedOn(OpToRel(<, Nat), Nat)
  BY NatLessThanWellFounded
<1>3. PICK r \in Room : \A s \in Room : ~(<<s, r>> \in OpToRel(<, Nat))
  BY <1>1, <1>2, WFMin
<1>4. \A s \in Room : ~(s < r)
  BY <1>1, <1>3 DEF OpToRel
<1>5. PICK x \in T : r = n - x
  OBVIOUS
<1>6. \A y \in T : x >= y
  <2>1. TAKE y \in T
  <2>2. ~(n - y < n - x)
    BY <1>4, <1>5
  <2> QED
    BY <2>2
<1> QED
  BY <1>6 DEF Max

\* Induction over the subsets of a finite set: a collection that holds the empty set,
\* and holds any other as soon as it holds that set without some element of it,
\* holds them all.
LEMMA SubsetInduct ==
  ASSUME NEW S, IsFiniteSet(S), NEW Q, {} \in Q,
         \A T \in SUBSET S : T # {} => \E x \in T : T \ {x} \in Q => T \in Q
  PROVE  SUBSET S \subseteq Q
PROOF
<1> DEFINE N == {n \in Nat : \A T \in SUBSET S : Cardinality(T) = n => T \in Q}
<1>1. \A T \in SUBSET S : IsFiniteSet(T) /\ Cardinality(T) \in Nat
  BY FS_Subset, FS_CardinalityType
<1>2. 0 \in N
  BY <1>1, FS_EmptySet
<1>3. ASSUME NEW n \in Nat, n \in N, NEW T \in SUBSET S, Cardinality(T) = n + 1
      PROVE  T \in Q
  <2>1. T # {}
    BY <1>1, <1>3, FS_EmptySet
  <2>2. PICK x \in T : T \ {x} \in Q => T \in Q
    BY <2>1
  <2>3. T \ {x} \in SUBSET S /\ Cardinality(T \ {x}) = n
    <3>1. IsFiniteSet(T) /\ Cardinality(T) \in Nat
      BY <1>1
    <3>2. Cardinality(T \ {x}) = Cardinality(T) - 1
      BY <3>1, FS_RemoveElement
    <3> QED
      BY <1>3, <3>2
  <2> QED
    BY <1>3, <2>2, <2>3
<1>4. \A n \in Nat : n \in N => n + 1 \in N
  BY <1>3
<1>5. Nat \subseteq N
  <2> HIDE DEF N
  <2> QED
    BY <1>2, <1>4, NatInduct
<1> QED
  BY <1>1, <1>5

\* A recursion over the subsets of the finite set S, with values in V: from a set to
\* that set without the element ch chooses, and from base for the empty set.
IsRecursion(S, V, base, ch, G) ==
  /\ IsFiniteSet(S)
  /\ base \in V
  /\ \A T \in SUBSET S : T # {} => ch[T] \in T
  /\ \A x \in S, v \in V : G[<<x, v>>] \in V

\* A function that follows it.
Follows(g, S, V, base, ch, G) ==
  /\ g \in [SUBSET S -> V]
  /\ \A T \in SUBSET S :
       g[T] = IF T = {} THEN base ELSE G[<<ch[T], g[T \ {ch[T]}]>>]

\* Such a recursion defines a function: the recursive functions of Folds are of this
\* form.
LEMMA RecursionOnSets ==
  ASSUME NEW S, NEW V, NEW base, NEW ch, NEW G, IsRecursion(S, V, base, ch, G)
  PROVE  \E g : Follows(g, S, V, base, ch, G)
PROOF
<1>0. /\ IsFiniteSet(S)
      /\ base \in V
      /\ \A T \in SUBSET S : T # {} => ch[T] \in T
      /\ \A x \in S, v \in V : G[<<x, v>>] \in V
  BY DEF IsRecursion
<1> DEFINE Step(g, T) == IF T = {} THEN base ELSE G[<<ch[T], g[T \ {ch[T]}]>>]
           UpTo(n) == \E g \in [SUBSET S -> V] : \A T \in SUBSET S :
                        Cardinality(T) <= n => g[T] = Step(g, T)
           N == {n \in Nat : UpTo(n)}
<1>1. \A T \in SUBSET S : IsFiniteSet(T) /\ Cardinality(T) \in Nat
  BY <1>0, FS_Subset, FS_CardinalityType
<1>2. UpTo(0)
  <2> DEFINE g == [T \in SUBSET S |-> base]
  <2>1. \A T \in SUBSET S : Cardinality(T) <= 0 => T = {}
    BY <1>1, FS_EmptySet
  <2>2. g \in [SUBSET S -> V] /\ \A T \in SUBSET S : Cardinality(T) <= 0 => g[T] = Step(g, T)
    BY <1>0, <2>1
  <2> QED
    BY <2>2
<1>3. ASSUME NEW n \in Nat, UpTo(n)
      PROVE  UpTo(n + 1)
  <2>1. PICK g \in [SUBSET S -> V] : \A T \in SUBSET S : Cardinality(T) <= n => g[T] = Step(g, T)
    BY <1>3
  <2> DEFINE h == [T \in SUBSET S |-> Step(g, T)]
  <2>2. h \in [SUBSET S -> V]
    BY <1>0
  <2>3. ASSUME NEW T \in SUBSET S, Cardinality(T) <= n + 1
        PROVE  h[T] = Step(h, T)
    <3>1. CASE T = {}
      BY <3>1
    <3>2. CASE T # {}
      <4> DEFINE U == T \ {ch[T]}
      <4>1. U \in SUBSET S /\ Cardinality(U) = Cardinality(T) - 1
        BY <1>0, <1>1, <3>2, FS_RemoveElement
      <4>2. Cardinality(U) <= n
        <5> HIDE DEF U
        <5> QED
          BY <1>1, <2>3, <4>1
      <4>3. g[U] = Step(g, U)
        <5> HIDE DEF U, Step
        <5> QED
          BY <2>1, <4>1, <4>2
      <4>4. h[U] = g[U]
        BY <4>1, <4>3
      <4> QED
        BY <3>2, <4>1, <4>4
    <3> QED
      BY <3>1, <3>2
  <2> HIDE DEF h
  <2> QED
    BY <2>2, <2>3
<1> HIDE DEF UpTo
<1>4. Nat \subseteq N
  <2>1. 0 \in N /\ \A n \in Nat : n \in N => n + 1 \in N
    BY <1>2, <1>3
  <2> HIDE DEF N
  <2> QED
    BY <2>1, NatInduct
<1>5. UpTo(Cardinality(S))
  BY <1>1, <1>4
<1>6. PICK g \in [SUBSET S -> V] : \A T \in SUBSET S : Cardinality(T) <= Cardinality(S) => g[T] = Step(g, T)
  BY <1>5 DEF UpTo
<1>7. \A T \in SUBSET S : Cardinality(T) <= Cardinality(S)
  BY <1>0, FS_Subset
<1> QED
  BY <1>6, <1>7 DEF Follows

\* Steps 1 to n of G lead from values in V, base among them, to values in V.
Steps(G, n, V, base) ==
  n \in Nat /\ base \in V /\ \A k \in 1..n, v \in V : G[<<k, v>>] \in V

\* A walk through them from base on.
Walks(p, G, n, V, base) ==
  /\ p \in [0..n -> V]
  /\ p[0] = base
  /\ \A k \in 1..n : p[k] = G[<<k, p[k - 1]>>]

\* Two walks from the same start that take the same steps agree.
LEMMA WalksAgree ==
  ASSUME NEW n \in Nat, NEW p, NEW q, NEW G, NEW V, NEW W, NEW base,
         Walks(p, G, n, V, base), Walks(q, G, n, W, base)
  PROVE  \A k \in 0..n : p[k] = q[k]
PROOF
<1> DEFINE N == {k \in Nat : k \in 0..n => p[k] = q[k]}
<1>0. /\ p[0] = q[0]
      /\ \A k \in 1..n : p[k] = G[<<k, p[k - 1]>>] /\ q[k] = G[<<k, q[k - 1]>>]
  BY DEF Walks
<1>1. 0 \in N
  BY <1>0
<1>2. ASSUME NEW k \in Nat, k \in N, k + 1 \in 0..n
      PROVE  p[k + 1] = q[k + 1]
  <2>1. k \in 0..n /\ k + 1 \in 1..n /\ (k + 1) - 1 = k
    BY <1>2
  <2>2. p[k] = q[k]
    BY <1>2, <2>1
  <2>3. p[k + 1] = G[<<k + 1, p[(k + 1) - 1]>>] /\ q[k + 1] = G[<<k + 1, q[(k + 1) - 1]>>]
    BY <1>0, <2>1
  <2> QED
    BY <2>1, <2>2, <2>3
<1>3. ASSUME NEW k \in Nat, k \in N
      PROVE  k + 1 \in N
  <2>1. k + 1 \in Nat
    OBVIOUS
  <2>2. k + 1 \in 0..n => p[k + 1] = q[k + 1]
    BY <1>2, <1>3
  <2> QED
    BY <2>1, <2>2
<1>4. Nat \subseteq N
  <2> HIDE DEF N
  <2> QED
    BY <1>1, <1>3, NatInduct
<1> QED
  BY <1>4

\* A recursion over the sets of indices up to n, largest first, as far as its values
\* are known to be in V.
Recurs(g, G, n, V, base) ==
  /\ g[{}] = base
  /\ \A T \in SUBSET (1..n) : T # {} /\ g[T \ {Max(T)}] \in V =>
       g[T] = G[<<Max(T), g[T \ {Max(T)}]>>]

\* A recursion over the sets of indices up to n, largest first, has a solution: the
\* function that FoldLeft chooses exists.
LEMMA RecursionOnIndices ==
  ASSUME NEW n, NEW V, NEW base, NEW G, Steps(G, n, V, base)
  PROVE  \E g : g \in [SUBSET (1..n) -> V] /\ Recurs(g, G, n, V, base)
PROOF
<1> DEFINE S == 1..n
           ch == [T \in SUBSET S |-> Max(T)]
<1>1. IsFiniteSet(S) /\ n \in Nat
  BY FS_Interval DEF Steps
<1>2. \A T \in SUBSET S : T # {} => ch[T] \in T
  BY <1>1, MaxIsMember
<1>3. \A T \in SUBSET S : ch[T] = Max(T)
  OBVIOUS
<1>4. PICK g : Follows(g, S, V, base, ch, G)
  <2>1. IsRecursion(S, V, base, ch, G)
    BY <1>1, <1>2 DEF IsRecursion, Steps
  <2> HIDE DEF S, ch
  <2> QED
    BY <2>1, RecursionOnSets
<1> HIDE DEF ch
<1> QED
  BY <1>3, <1>4 DEF Follows, Recurs

\* FoldLeft walks the prefixes of a sequence of n elements: what such a recursion makes
\* of 1..n is where a walk through steps 1, 2, ... n ends.  That the recursion takes
\* step G need be known only from values in V on.
LEMMA FoldWalk ==
  ASSUME NEW n, NEW V, NEW base, NEW G, Steps(G, n, V, base),
         NEW g, Recurs(g, G, n, V, base)
  PROVE  \E p : Walks(p, G, n, V, base) /\ g[1..n] = p[n]
PROOF
<1>0. /\ n \in Nat /\ base \in V /\ \A k \in 1..n, v \in V : G[<<k, v>>] \in V
      /\ g[{}] = base
      /\ \A T \in SUBSET (1..n) : T # {} /\ g[T \ {Max(T)}] \in V =>
           g[T] = G[<<Max(T), g[T \ {Max(T)}]>>]
  BY DEF Steps, Recurs
<1> DEFINE p == [k \in 0..n |-> g[1..k]]
           N == {k \in Nat : k \in 0..n => p[k] \in V}
<1>1. p[0] = base
  <2>1. 1..0 = {} /\ 0 \in 0..n
    BY <1>0
  <2> QED
    BY <1>0, <2>1
<1>2. ASSUME NEW k \in 1..n, p[k - 1] \in V PROVE p[k] = G[<<k, p[k - 1]>>]
  <2>1. k \in Nat \ {0} /\ 1..k \in SUBSET (1..n) /\ 1..k # {}
    BY <1>0
  <2>2. Max(1..k) = k /\ (1..k) \ {k} = 1..(k - 1)
    BY <2>1, MaxOfPrefix
  <2>3. k \in 0..n /\ k - 1 \in 0..n
    BY <1>0
  <2>4. g[1..(k - 1)] \in V
    BY <1>2, <2>3
  <2>5. g[1..k] = G[<<k, g[1..(k - 1)]>>]
    <3>1. g[1..k] = G[<<Max(1..k), g[(1..k) \ {Max(1..k)}]>>]
      BY <1>0, <2>1, <2>2, <2>4
    <3> QED
      BY <2>2, <3>1
  <2> QED
    BY <2>3, <2>5
<1>3. Nat \subseteq N
  <2>1. 0 \in N
    BY <1>0, <1>1
  <2>2. ASSUME NEW k \in Nat, k \in N, k + 1 \in 0..n PROVE p[k + 1] \in V
    <3>1. k \in 0..n /\ k + 1 \in 1..n /\ (k + 1) - 1 = k
      BY <1>0, <2>2
    <3>2. p[k] \in V
      BY <2>2, <3>1
    <3>3. p[k + 1] = G[<<k + 1, p[(k + 1) - 1]>>]
      <4> HIDE DEF p
      <4> QED
        BY <1>2, <3>1, <3>2
    <3> HIDE DEF p
    <3> QED
      BY <1>0, <3>1, <3>2, <3>3
  <2>3. \A k \in Nat : k \in N => k + 1 \in N
    BY <2>2
  <2> HIDE DEF N
  <2> QED
    BY <2>1, <2>3, NatInduct
<1>4. p \in [0..n -> V] /\ g[1..n] = p[n]
  <2>1. \A k \in 0..n : k \in N
    <3> HIDE DEF N
    <3> QED
      BY <1>0, <1>3
  <2> QED
    BY <1>0, <2>1
<1>5. \A k \in 1..n : p[k] = G[<<k, p[k - 1]>>]
  <2>1. \A k \in 1..n : p[k - 1] \in V
    <3> HIDE DEF p
    <3> QED
      BY <1>0, <1>4
  <2> HIDE DEF p
  <2> QED
    BY <1>2, <2>1
<1> HIDE DEF p
<1> QED
  BY <1>1, <1>4, <1>5 DEF Walks

-----------------------------------------------------------------------------

\* Sequences one after the other.
LEMMA Concats ==
  ASSUME NEW S, NEW a \in Seq(S), NEW b \in Seq(S), NEW c \in Seq(S)
  PROVE  /\ a \o b \in Seq(S)
         /\ (a \o b) \o c = a \o (b \o c)
         /\ a \o <<>> = a /\ <<>> \o a = a
         /\ a # <<>> => a = <<Head(a)>> \o Tail(a) /\ Head(a) \in S /\ Tail(a) \in Seq(S)
         /\ \A m \in S : Append(a, m) = a \o <<m>> /\ <<m>> \in Seq(S)
PROOF
<1>1. a \o b \in Seq(S)
  OBVIOUS
<1>2. (a \o b) \o c = a \o (b \o c)
  BY ConcatAssociative
<1>3. a \o <<>> = a /\ <<>> \o a = a
  BY ConcatEmptySeq
<1>4. ASSUME a # <<>> PROVE a = <<Head(a)>> \o Tail(a) /\ Head(a) \in S /\ Tail(a) \in Seq(S)
  <2>1. Head(a) \in S /\ Tail(a) \in Seq(S) /\ Len(Tail(a)) = Len(a) - 1 /\ Head(a) = a[1]
        /\ \A i \in 1..Len(Tail(a)) : Tail(a)[i] = a[i + 1]
    BY <1>4, HeadTailProperties
  <2> DEFINE y == Tail(a)
             x == <<Head(a)>>
  <2>2. x \in Seq(S) /\ Len(x) = 1 /\ x[1] = a[1] /\ y \in Seq(S) /\ Len(y) = Len(a) - 1
        /\ \A i \in 1..Len(y) : y[i] = a[i + 1]
    BY <2>1
  <2> HIDE DEF x, y
  <2>3. /\ x \o y \in Seq(S) /\ Len(x \o y) = Len(a) /\ Len(a) \in Nat
        /\ \A i \in 1..(Len(x) + Len(y)) :
             (x \o y)[i] = IF i <= Len(x) THEN x[i] ELSE y[i - Len(x)]
    <3>1. /\ x \o y \in Seq(S) /\ Len(x \o y) = Len(x) + Len(y)
          /\ \A i \in 1..(Len(x) + Len(y)) :
               (x \o y)[i] = IF i <= Len(x) THEN x[i] ELSE y[i - Len(x)]
      <4> HIDE <2>1
      <4>1. x \in Seq(S) /\ y \in Seq(S)
        BY <2>2
      <4> QED
        BY ONLY <4>1, ConcatProperties, Zenon
    <3>2. Len(a) \in Nat
      BY LenProperties
    <3>3. Len(x) + Len(y) = Len(a)
      BY <2>2, <3>2
    <3> QED
      BY <3>1, <3>2, <3>3
  <2> DEFINE z == x \o y
  <2> HIDE DEF z
  <2>4. ASSUME NEW i \in 1..Len(a) PROVE z[i] = a[i]
    <3>0. i \in 1..(Len(x) + Len(y)) /\ z[i] = IF i <= 1 THEN x[i] ELSE y[i - 1]
      BY <2>2, <2>3 DEF z
    <3>1. CASE i = 1
      BY <2>2, <3>0, <3>1
    <3>2. CASE i # 1
      <4>1. i - 1 \in 1..Len(y) /\ (i - 1) + 1 = i
        BY <2>2, <2>3, <3>2
      <4>2. z[i] = y[i - 1]
        BY <3>0, <3>2
      <4> QED
        BY <2>2, <4>1, <4>2
    <3> QED
      BY <3>1, <3>2
  <2>5. x \o y = a
    <3>1. z \in Seq(S) /\ Len(z) = Len(a)
      BY <2>3 DEF z
    <3>2. z = a
      BY <2>4, <3>1, SeqEqual
    <3> QED
      BY <3>2 DEF z
  <2> QED
    BY <2>1, <2>5 DEF x, y
<1>5. ASSUME NEW m \in S PROVE Append(a, m) = a \o <<m>> /\ <<m>> \in Seq(S)
  OBVIOUS
<1> QED
  BY <1>1, <1>2, <1>3, <1>4, <1>5

\* The first element of b may as well be the last one before it.
LEMMA Handed ==
  ASSUME NEW S, NEW a \in Seq(S), NEW b \in Seq(S), b # <<>>
  PROVE  Append(a, Head(b)) \o Tail(b) = a \o b
PROOF
<1>1. Head(b) \in S /\ Tail(b) \in Seq(S) /\ b = <<Head(b)>> \o Tail(b)
  BY Concats
<1>2. <<Head(b)>> \in Seq(S) /\ Append(a, Head(b)) = a \o <<Head(b)>>
  BY <1>1, Concats
<1> DEFINE x == <<Head(b)>>
           y == Tail(b)
<1>3. x \in Seq(S) /\ y \in Seq(S) /\ b = x \o y /\ Append(a, Head(b)) = a \o x
  BY <1>1, <1>2
<1> HIDE DEF x, y
<1>4. (a \o x) \o y = a \o (x \o y)
  BY <1>3, Concats
<1> QED
  BY <1>3, <1>4 DEF y

\* A name for concatenation, under which the provers do not take it apart.
Then(a, b) == a \o b

\* Concatenation is associative.
LEMMA ThenAssoc ==
  ASSUME NEW S
  PROVE  /\ \A a, b \in Seq(S) : Then(a, b) \in Seq(S)
         /\ \A a, b, c \in Seq(S) : Then(Then(a, b), c) = Then(a, Then(b, c))
PROOF
  BY Concats DEF Then

\* The same after other elements.
LEMMA HandedAfter ==
  ASSUME NEW S, NEW c \in Seq(S), NEW a \in Seq(S), NEW b \in Seq(S), b # <<>>
  PROVE  Then(Then(c, Append(a, Head(b))), Tail(b)) = Then(Then(c, a), b)
PROOF
<1> DEFINE x == Append(a, Head(b))
           y == Tail(b)
<1>1. x \in Seq(S) /\ y \in Seq(S) /\ Then(x, y) = Then(a, b)
  BY Handed, HeadTailProperties, AppendProperties DEF Then
<1> HIDE DEF x, y
<1>2. Then(Then(c, x), y) = Then(c, Then(x, y)) /\ Then(Then(c, a), b) = Then(c, Then(a, b))
  BY <1>1, ThenAssoc
<1> QED
  BY <1>1, <1>2 DEF x, y

-----------------------------------------------------------------------------

\* The element of a set that Functions takes next.
Chosen(T) == CHOOSE x \in T : TRUE

\* The sum over a subset of S takes out the element that Functions chooses.
LEMMA SumUnfold ==
  ASSUME NEW S, IsFiniteSet(S), NEW f, \A x \in S : f[x] \in Nat
  PROVE  \E g \in [SUBSET S -> Nat] :
           /\ \A T \in SUBSET S :
                g[T] = IF T = {} THEN 0
                       ELSE f[Chosen(T)] + g[T \ {Chosen(T)}]
           /\ SumFunctionOnSet(f, S) = g[S]
PROOF
<1> DEFINE ch == [T \in SUBSET S |-> Chosen(T)]
           G == [xv \in S \X Nat |-> f[xv[1]] + xv[2]]
           Eqn(g) == g = [T \in SUBSET S |->
                            IF T = {} THEN 0
                            ELSE f[Chosen(T)] + g[T \ {Chosen(T)}]]
<1>1. SumFunctionOnSet(f, S) = (CHOOSE g : Eqn(g))[S]
  BY DEF SumFunctionOnSet, FoldFunctionOnSet, MapThenFoldSet, Chosen
<1>2. \A T \in SUBSET S : T # {} => ch[T] \in T
  BY DEF Chosen
<1>3. \A x \in S, v \in Nat : G[<<x, v>>] = f[x] + v /\ G[<<x, v>>] \in Nat
  OBVIOUS
<1>4. PICK g \in [SUBSET S -> Nat] : \A T \in SUBSET S :
           g[T] = IF T = {} THEN 0 ELSE G[<<ch[T], g[T \ {ch[T]}]>>]
  <2> HIDE DEF ch, G
  <2>1. IsRecursion(S, Nat, 0, ch, G)
    BY <1>2, <1>3 DEF IsRecursion
  <2>2. PICK g : Follows(g, S, Nat, 0, ch, G)
    BY <2>1, RecursionOnSets
  <2> QED
    BY <2>2 DEF Follows
<1>5. \A T \in SUBSET S : g[T] = IF T = {} THEN 0 ELSE f[ch[T]] + g[T \ {ch[T]}]
  <2>1. \A T \in SUBSET S : T # {} => ch[T] \in S /\ g[T \ {ch[T]}] \in Nat
    BY <1>2
  <2> HIDE DEF ch, G
  <2> QED
    BY <1>3, <1>4, <2>1
<1>6. Eqn(g)
  BY <1>5
<1> DEFINE h == CHOOSE x : Eqn(x)
<1>7. Eqn(h)
  <2> HIDE DEF Eqn
  <2> QED
    BY <1>6
<1> HIDE DEF h
<1>8. \A T \in SUBSET S : h[T] = IF T = {} THEN 0 ELSE f[ch[T]] + h[T \ {ch[T]}]
  BY <1>7
<1> DEFINE Q == {T \in SUBSET S : h[T] = g[T]}
<1>9. SUBSET S \subseteq Q
  <2>1. {} \in Q
    BY <1>5, <1>8
  <2>2. ASSUME NEW T \in SUBSET S, T # {}, T \ {ch[T]} \in Q
        PROVE  T \in Q
    <3>1. h[T \ {ch[T]}] = g[T \ {ch[T]}]
      BY <2>2
    <3> HIDE DEF ch
    <3> QED
      BY <1>5, <1>8, <2>2, <3>1
  <2>3. \A T \in SUBSET S : T # {} => \E x \in T : T \ {x} \in Q => T \in Q
    <3> HIDE DEF Q, ch
    <3> QED
      BY <1>2, <2>2
  <2> HIDE DEF Q, ch
  <2> QED
    BY <1>2, <2>1, <2>3, SubsetInduct
<1>10. SumFunctionOnSet(f, S) = g[S]
  BY <1>1, <1>9 DEF h
<1> QED
  BY <1>5, <1>10

\* The sum over the empty set.
LEMMA SumEmpty ==
  ASSUME NEW f
  PROVE  SumFunctionOnSet(f, {}) = 0
PROOF
<1>1. IsFiniteSet({}) /\ \A x \in {} : f[x] \in Nat
  BY FS_EmptySet
<1>2. PICK g \in [SUBSET {} -> Nat] :
        /\ \A T \in SUBSET {} :
             g[T] = IF T = {} THEN 0
                    ELSE f[Chosen(T)] + g[T \ {Chosen(T)}]
        /\ SumFunctionOnSet(f, {}) = g[{}]
  BY <1>1, SumUnfold
<1> QED
  BY <1>2

\* The sum over any subset of S follows the same equation: Functions chooses the same
\* element whichever set the sum began with.
LEMMA SumChosen ==
  ASSUME NEW S, IsFiniteSet(S), NEW f, \A x \in S : f[x] \in Nat, S # {}
  PROVE  LET c == Chosen(S) IN
         /\ SumFunctionOnSet(f, S \ {c}) \in Nat
         /\ SumFunctionOnSet(f, S) = f[c] + SumFunctionOnSet(f, S \ {c})
PROOF
<1> DEFINE c == Chosen(S)
           R == S \ {c}
<1>1. PICK g \in [SUBSET S -> Nat] :
        /\ \A T \in SUBSET S :
             g[T] = IF T = {} THEN 0
                    ELSE f[Chosen(T)] + g[T \ {Chosen(T)}]
        /\ SumFunctionOnSet(f, S) = g[S]
  BY SumUnfold
<1>2. IsFiniteSet(R) /\ R \in SUBSET S /\ \A x \in R : f[x] \in Nat
  BY FS_Subset
<1> HIDE DEF R
<1>3. PICK h \in [SUBSET R -> Nat] :
        /\ \A T \in SUBSET R :
             h[T] = IF T = {} THEN 0
                    ELSE f[Chosen(T)] + h[T \ {Chosen(T)}]
        /\ SumFunctionOnSet(f, R) = h[R]
  BY <1>2, SumUnfold
<1> DEFINE Q == {T \in SUBSET R : h[T] = g[T]}
<1>4. SUBSET R \subseteq Q
  <2>1. {} \in Q
    BY <1>1, <1>3
  <2>2. ASSUME NEW T \in SUBSET R, T # {}
        PROVE  \E x \in T : T \ {x} \in Q => T \in Q
    <3> DEFINE x == Chosen(T)
    <3>1. x \in T /\ T \in SUBSET S
      BY <1>2, <2>2 DEF Chosen
    <3>2. g[T] = f[x] + g[T \ {x}] /\ h[T] = f[x] + h[T \ {x}]
      BY <1>1, <1>3, <2>2, <3>1
    <3>3. T \ {x} \in Q => T \in Q
      <4> HIDE DEF x
      <4> QED
        BY <3>2
    <3> QED
      BY <3>1, <3>3
  <2> HIDE DEF Q
  <2> QED
    BY <1>2, <2>1, <2>2, SubsetInduct
<1>5. h[R] = g[R] /\ g[R] \in Nat
  BY <1>2, <1>4
<1>6. g[S] = f[c] + g[R]
  BY <1>1 DEF R
<1> QED
  BY <1>1, <1>3, <1>5, <1>6 DEF R

\* A sum of natural numbers is one.
LEMMA SumType ==
  ASSUME NEW S, IsFiniteSet(S), NEW f, \A x \in S : f[x] \in Nat
  PROVE  SumFunctionOnSet(f, S) \in Nat
PROOF
<1>1. PICK g \in [SUBSET S -> Nat] :
        /\ \A T \in SUBSET S :
             g[T] = IF T = {} THEN 0
                    ELSE f[Chosen(T)] + g[T \ {Chosen(T)}]
        /\ SumFunctionOnSet(f, S) = g[S]
  BY SumUnfold
<1> QED
  BY <1>1

\* Any element can be taken out of a sum.
LEMMA SumTakeOut ==
  ASSUME NEW S, IsFiniteSet(S), NEW f, \A x \in S : f[x] \in Nat, NEW e \in S
  PROVE  SumFunctionOnSet(f, S) = f[e] + SumFunctionOnSet(f, S \ {e})
PROOF
<1> DEFINE Sum(T) == SumFunctionOnSet(f, T)
           N == {n \in Nat : \A T \in SUBSET S : Cardinality(T) = n =>
                               \A x \in T : Sum(T) = f[x] + Sum(T \ {x})}
<1>1. \A T \in SUBSET S : /\ IsFiniteSet(T) /\ Cardinality(T) \in Nat
                         /\ \A x \in T : f[x] \in Nat
  BY FS_Subset, FS_CardinalityType
<1>2. \A T \in SUBSET S : Sum(T) \in Nat
  BY <1>1, SumType
<1>3. \A T \in SUBSET S : T # {} =>
        \E c \in T : Sum(T) = f[c] + Sum(T \ {c})
  <2>1. ASSUME NEW T \in SUBSET S, T # {}
        PROVE  Sum(T) = f[Chosen(T)] + Sum(T \ {Chosen(T)})
    BY <1>1, <2>1, SumChosen
  <2> QED
    BY <2>1 DEF Chosen
<1> HIDE DEF Sum
<1>4. 0 \in N
  BY <1>1, FS_EmptySet
<1>5. ASSUME NEW n \in Nat, n \in N, NEW T \in SUBSET S, Cardinality(T) = n + 1, NEW x \in T
      PROVE  Sum(T) = f[x] + Sum(T \ {x})
  <2>1. PICK c \in T : Sum(T) = f[c] + Sum(T \ {c})
    BY <1>3
  <2>2. CASE x = c
    BY <2>1, <2>2
  <2>3. CASE x # c
    <3> DEFINE W == T \ {c}
               U == T \ {x}
    <3>1. /\ W \in SUBSET S /\ Cardinality(W) = n /\ x \in W
          /\ U \in SUBSET S /\ Cardinality(U) = n /\ c \in U
          /\ W \ {x} = U \ {c} /\ W \ {x} \in SUBSET S
      BY <1>1, <1>5, <2>3, FS_RemoveElement
    <3> HIDE DEF W, U
    <3>2. Sum(W) = f[x] + Sum(W \ {x}) /\ Sum(U) = f[c] + Sum(U \ {c})
      BY <1>5, <3>1
    <3>3. Sum(T) = f[c] + Sum(W)
      BY <2>1 DEF W
    <3>4. f[x] \in Nat /\ f[c] \in Nat /\ Sum(W \ {x}) \in Nat
      BY <1>2, <3>1
    <3>5. Sum(T) = f[x] + Sum(U)
      <4>1. ASSUME NEW a \in Nat, NEW b \in Nat, NEW r \in Nat
            PROVE  a + (b + r) = b + (a + r)
        OBVIOUS
      <4>2. Sum(T) = f[c] + (f[x] + Sum(W \ {x})) /\ Sum(U) = f[c] + Sum(W \ {x})
        BY <3>1, <3>2, <3>3
      <4> QED
        BY <3>4, <4>1, <4>2
    <3> QED
      BY <3>5 DEF U
  <2> QED
    BY <2>2, <2>3
<1>6. Nat \subseteq N
  <2>1. ASSUME NEW n \in Nat, n \in N
        PROVE  n + 1 \in N
    BY <1>5, <2>1
  <2> HIDE DEF N
  <2> QED
    BY <1>4, <2>1, NatInduct
<1> QED
  BY <1>1, <1>6 DEF Sum

\* Equal summands have equal sums.
LEMMA SumEqual ==
  ASSUME NEW S, IsFiniteSet(S), NEW f, NEW h, \A x \in S : f[x] \in Nat /\ h[x] = f[x]
  PROVE  SumFunctionOnSet(h, S) = SumFunctionOnSet(f, S)
PROOF
<1> DEFINE Q == {T \in SUBSET S : SumFunctionOnSet(h, T) = SumFunctionOnSet(f, T)}
<1>1. {} \in Q
  BY SumEmpty
<1>2. ASSUME NEW T \in SUBSET S, NEW x \in T, T \ {x} \in Q
      PROVE  T \in Q
  <2>1. IsFiniteSet(T) /\ (\A y \in T : f[y] \in Nat) /\ (\A y \in T : h[y] \in Nat)
    BY FS_Subset
  <2>2. /\ SumFunctionOnSet(f, T) = f[x] + SumFunctionOnSet(f, T \ {x})
        /\ SumFunctionOnSet(h, T) = h[x] + SumFunctionOnSet(h, T \ {x})
    BY <2>1, SumTakeOut
  <2> QED
    BY <1>2, <2>2
<1>3. \A T \in SUBSET S : T # {} => \E x \in T : T \ {x} \in Q => T \in Q
  BY <1>2
<1> HIDE DEF Q
<1>4. SUBSET S \subseteq Q
  BY <1>1, <1>3, SubsetInduct
<1> QED
  BY <1>4 DEF Q

\* A sum of which one summand changes.
LEMMA SumChange ==
  ASSUME NEW S, IsFiniteSet(S), NEW f, \A x \in S : f[x] \in Nat,
         NEW e \in S, NEW h, h[e] \in Nat, \A x \in S \ {e} : h[x] = f[x]
  PROVE  SumFunctionOnSet(h, S) + f[e] = SumFunctionOnSet(f, S) + h[e]
PROOF
<1> DEFINE R == S \ {e}
<1>1. /\ IsFiniteSet(R) /\ (\A x \in R : f[x] \in Nat /\ h[x] = f[x])
      /\ \A x \in S : h[x] \in Nat
  BY FS_Subset
<1>2. SumFunctionOnSet(f, S) = f[e] + SumFunctionOnSet(f, R)
  BY SumTakeOut
<1>3. SumFunctionOnSet(h, S) = h[e] + SumFunctionOnSet(h, R)
  BY <1>1, SumTakeOut
<1> HIDE DEF R
<1>4. SumFunctionOnSet(h, R) = SumFunctionOnSet(f, R) /\ SumFunctionOnSet(f, R) \in Nat
  BY <1>1, SumEqual, SumType
<1> QED
  BY <1>2, <1>3, <1>4

\* A sum of summands with a bound.
LEMMA SumAtMost ==
  ASSUME NEW S, IsFiniteSet(S), NEW k \in Nat, NEW f, \A x \in S : f[x] \in Nat /\ f[x] <= k
  PROVE  SumFunctionOnSet(f, S) <= k * Cardinality(S)
PROOF
<1> DEFINE Q == {T \in SUBSET S : SumFunctionOnSet(f, T) <= k * Cardinality(T)}
<1>1. {} \in Q
  BY SumEmpty, FS_EmptySet
<1>2. ASSUME NEW T \in SUBSET S, NEW x \in T, T \ {x} \in Q
      PROVE  T \in Q
  <2>1. IsFiniteSet(T) /\ (\A y \in T : f[y] \in Nat) /\ IsFiniteSet(T \ {x})
    BY FS_Subset
  <2>2. SumFunctionOnSet(f, T) = f[x] + SumFunctionOnSet(f, T \ {x})
    BY <2>1, SumTakeOut
  <2>3. SumFunctionOnSet(f, T \ {x}) \in Nat
    BY <2>1, SumType
  <2> DEFINE n == Cardinality(T)
             rest == SumFunctionOnSet(f, T \ {x})
  <2>4. n \in Nat /\ Cardinality(T \ {x}) = n - 1
    BY <2>1, FS_CardinalityType, FS_RemoveElement
  <2>5. rest <= k * (n - 1) /\ f[x] \in Nat /\ f[x] <= k
    BY <1>2, <2>4
  <2> HIDE DEF n, rest
  <2>6. k * (n - 1) = k * n - k
    BY <2>4
  <2>7. f[x] + rest <= k * n
    BY <2>3, <2>5, <2>6, <2>4 DEF rest
  <2> QED
    BY <2>2, <2>7 DEF n, rest
<1>3. \A T \in SUBSET S : T # {} => \E x \in T : T \ {x} \in Q => T \in Q
  BY <1>2
<1> HIDE DEF Q
<1>4. SUBSET S \subseteq Q
  BY <1>1, <1>3, SubsetInduct
<1> QED
  BY <1>4 DEF Q

\* A sum of equal summands is a product.
LEMMA SumConstant ==
  ASSUME NEW S, IsFiniteSet(S), NEW k \in Nat, NEW f, \A x \in S : f[x] = k
  PROVE  SumFunctionOnSet(f, S) = k * Cardinality(S)
PROOF
<1> DEFINE Q == {T \in SUBSET S : SumFunctionOnSet(f, T) = k * Cardinality(T)}
<1>1. {} \in Q
  BY SumEmpty, FS_EmptySet
<1>2. ASSUME NEW T \in SUBSET S, NEW x \in T, T \ {x} \in Q
      PROVE  T \in Q
  <2>1. IsFiniteSet(T) /\ (\A y \in T : f[y] \in Nat)
    BY FS_Subset
  <2>2. SumFunctionOnSet(f, T) = f[x] + SumFunctionOnSet(f, T \ {x})
    BY <2>1, SumTakeOut
  <2> DEFINE n == Cardinality(T)
  <2>3. n \in Nat /\ Cardinality(T \ {x}) = n - 1
    BY <2>1, FS_CardinalityType, FS_RemoveElement
  <2>4. SumFunctionOnSet(f, T) = k + k * (n - 1)
    BY <1>2, <2>2, <2>3
  <2> HIDE DEF n
  <2>5. k + k * (n - 1) = k * n
    BY <2>3
  <2> QED
    BY <2>4, <2>5 DEF n
<1>3. \A T \in SUBSET S : T # {} => \E x \in T : T \ {x} \in Q => T \in Q
  BY <1>2
<1> HIDE DEF Q
<1>4. SUBSET S \subseteq Q
  BY <1>1, <1>3, SubsetInduct
<1> QED
  BY <1>4 DEF Q

-----------------------------------------------------------------------------

\* The empty hand is a hand.
LEMMA EmptyHandType == EmptyHand \in Hand
PROOF
  BY DEF EmptyHand, Hand

\* Hand::add_card makes a hand of a hand, with one card more and its pips added.
LEMMA AddCardType ==
  ASSUME NEW h \in Hand, NEW c \in Pip
  PROVE  /\ AddCard(h, c) \in Hand
         /\ AddCard(h, c).cards = h.cards + 1
         /\ AddCard(h, c).hard = h.hard + c
         /\ AddCard(h, c).ace <=> h.ace \/ c = 1
PROOF
<1>1. /\ AddCard(h, c) \in Hand
      /\ AddCard(h, c).cards = h.cards + 1
      /\ AddCard(h, c).hard = h.hard + c
  BY DEF AddCard, Hand, Pip
<1>2. AddCard(h, c).ace = (h.ace \/ c = 1)
  BY DEF AddCard
<1> QED
  BY <1>1, <1>2, Zenon

\* Two cards are a hand of two cards with their pips and the aces among them.
LEMMA TwoCardsType ==
  ASSUME NEW c \in Pip, NEW d \in Pip
  PROVE  /\ TwoCards(c, d) \in Hand
         /\ TwoCards(c, d).cards = 2
         /\ TwoCards(c, d).hard = c + d
         /\ TwoCards(c, d).ace <=> c = 1 \/ d = 1
PROOF
<1>1. EmptyHand \in Hand /\ EmptyHand.cards = 0 /\ EmptyHand.hard = 0 /\ ~EmptyHand.ace
  BY EmptyHandType DEF EmptyHand
<1> DEFINE h == AddCard(EmptyHand, c)
<1>2. h \in Hand /\ h.cards = 0 + 1 /\ h.hard = 0 + c /\ (h.ace <=> c = 1)
  BY <1>1, AddCardType
<1> HIDE DEF h
<1>3. /\ AddCard(h, d) \in Hand
      /\ AddCard(h, d).cards = h.cards + 1
      /\ AddCard(h, d).hard = h.hard + d
      /\ AddCard(h, d).ace <=> h.ace \/ d = 1
  BY <1>2, AddCardType
<1> QED
  BY <1>2, <1>3 DEF TwoCards, h, Pip

\* Every outcome is one of the five and pays a whole number of chips.
LEMMA OutcomeType ==
  ASSUME NEW ph \in Hand, NEW dh \in Hand
  PROVE  SettlePlayer(ph, dh) \in Outcomes
PROOF
  BY DEF SettlePlayer, Outcomes

\* What a bet pays is a whole number of chips.
LEMMA PayoutType ==
  ASSUME NEW bet \in Nat, NEW outcome \in Outcomes
  PROVE  Payout(bet, outcome) \in Nat
PROOF
<1>1. bet \div 2 \in Nat
  OBVIOUS
<1> QED
  BY <1>1 DEF Payout, Outcomes

-----------------------------------------------------------------------------

\* Whatever set holds the dealer's hand, and with every hand on which the dealer
\* draws also that hand with one card more, holds all hands the loop can end with.
LEMMA DealerHandsInClosedSet ==
  ASSUME NEW Cards, NEW T, NEW h \in T,
         \A g \in T : ~DealerStays(g) => \A c \in Cards : AddCard(g, c) \in T
  PROVE  DealerHands(h, Cards) \subseteq T
PROOF
<1>1. ASSUME NEW S \in SUBSET T
      PROVE  DrawOnce(S, Cards) \subseteq T
  BY DEF DrawOnce
<1>2. ASSUME NEW S \in SUBSET T
      PROVE  Draw4(S, Cards) \subseteq T
  BY <1>1 DEF Draw4, Draw2
<1> QED
  BY <1>2 DEF DealerHands

\* The dealer's loop adds cards and nothing else, and no card to more than 16.
THEOREM DealerHandsType ==
  ASSUME NEW Cards \in SUBSET Pip, NEW h \in Hand, NEW g \in DealerHands(h, Cards)
  PROVE  /\ g \in Hand
         /\ g.cards >= h.cards
         /\ g.hard <= h.hard \/ g.hard <= 26
PROOF
<1> DEFINE T == {k \in Hand : k.cards >= h.cards /\ (k.hard <= h.hard \/ k.hard <= 26)}
<1>1. h \in T
  BY DEF Hand
<1>2. ASSUME NEW k \in T, ~DealerStays(k), NEW c \in Cards
      PROVE  AddCard(k, c) \in T
  <2>1. k.hard <= 16
    BY <1>2 DEF DealerStays, BestValue, IsSoft, Hand
  <2>2. /\ k \in Hand /\ k.cards \in Nat /\ k.hard \in Nat /\ h.cards \in Nat /\ h.hard \in Nat
        /\ k.cards >= h.cards /\ c \in 1..10
    BY DEF Hand, Pip
  <2>3. AddCard(k, c) \in Hand /\ AddCard(k, c).cards = k.cards + 1 /\ AddCard(k, c).hard = k.hard + c
    BY <2>2, AddCardType DEF Pip
  <2>4. AddCard(k, c).cards >= h.cards /\ AddCard(k, c).hard <= 26
    BY <2>1, <2>2, <2>3
  <2> QED
    BY <2>3, <2>4
<1>3. DealerHands(h, Cards) \subseteq T
  BY <1>1, <1>2, DealerHandsInClosedSet
<1> QED
  BY <1>3

-----------------------------------------------------------------------------

\* How many cards a hand can have that the dealer still draws on: without an ace
\* every card counts two or more; with one, a hand between a soft 17 and a soft 21
\* would have ended the loop.
Slow(h) ==
  /\ ~h.ace => 2 * h.cards <= h.hard
  /\ h.ace /\ ~DealerStays(h) => h.cards <= h.hard /\ (h.hard > 6 => h.cards + 5 <= h.hard)

\* A hand the dealer still draws on has at most eleven cards.
LEMMA SlowHandsAreShort ==
  ASSUME NEW h \in Hand, Slow(h), ~DealerStays(h)
  PROVE  h.cards <= 11
PROOF
  BY DEF Slow, DealerStays, BestValue, IsSoft, Hand

\* Two cards are within that count.
LEMMA TwoCardsSlow ==
  ASSUME NEW c \in Pip, NEW d \in Pip
  PROVE  Slow(TwoCards(c, d))
PROOF
<1> DEFINE h == TwoCards(c, d)
<1>1. /\ h \in Hand /\ h.cards = 2 /\ h.hard = c + d /\ (h.ace <=> c = 1 \/ d = 1)
      /\ c \in 1..10 /\ d \in 1..10
  BY TwoCardsType DEF Pip
<1> HIDE DEF h
<1>2. ~h.ace => 2 * h.cards <= h.hard
  BY <1>1
<1>3. ASSUME h.ace, ~DealerStays(h)
      PROVE  h.hard >= 2 /\ h.hard <= 6
  BY <1>1, <1>3 DEF DealerStays, BestValue, IsSoft
<1>4. Slow(h)
  BY <1>1, <1>2, <1>3 DEF Slow
<1> QED
  BY <1>4 DEF h

\* Drawing a card keeps a hand within that count.
LEMMA DrawKeepsSlow ==
  ASSUME NEW h \in Hand, Slow(h), ~DealerStays(h), NEW c \in Pip
  PROVE  Slow(AddCard(h, c))
PROOF
<1> DEFINE k == AddCard(h, c)
<1>1. /\ h.cards \in Nat /\ h.hard \in Nat /\ c \in 1..10
      /\ k.cards = h.cards + 1 /\ k.hard = h.hard + c /\ (k.ace <=> h.ace \/ c = 1)
  BY DEF AddCard, Hand, Pip
<1> SUFFICES Slow(k)
  OBVIOUS
<1> HIDE DEF k
<1>2. h.hard <= 16 /\ (h.ace => ~(7 <= h.hard /\ h.hard <= 11))
  BY <1>1 DEF DealerStays, BestValue, IsSoft
<1>3. ~k.ace => 2 * k.cards <= k.hard
  BY <1>1 DEF Slow
<1>4. ASSUME k.ace, ~DealerStays(k)
      PROVE  k.cards <= k.hard /\ (k.hard > 6 => k.cards + 5 <= k.hard)
  <2>1. k.hard <= 6 \/ (12 <= k.hard /\ k.hard <= 16)
    BY <1>1, <1>4 DEF DealerStays, BestValue, IsSoft
  <2>2. CASE h.ace
    BY <1>1, <1>2, <2>1, <2>2 DEF Slow
  <2>3. CASE ~h.ace
    BY <1>1, <1>2, <1>4, <2>1, <2>3 DEF Slow
  <2> QED
    BY <2>2, <2>3
<1> QED
  BY <1>3, <1>4 DEF Slow

\* The hands after so many turns of the loop that every one of them has ended or
\* has at least n cards.
DrawnTo(n) == {h \in Hand : Slow(h) /\ (DealerStays(h) \/ h.cards >= n)}

\* One turn of the loop ends a hand or adds a card to it.
LEMMA DrawOnceAdvances ==
  ASSUME NEW Cards \in SUBSET Pip, NEW n \in Nat, NEW S \in SUBSET DrawnTo(n)
  PROVE  DrawOnce(S, Cards) \subseteq DrawnTo(n + 1)
PROOF
<1>1. SUFFICES ASSUME NEW h \in DrawOnce(S, Cards)
               PROVE  h \in DrawnTo(n + 1)
  OBVIOUS
<1>2. CASE h \in S /\ DealerStays(h)
  BY <1>2 DEF DrawnTo
<1>3. CASE \E g \in S : ~DealerStays(g) /\ \E c \in Cards : h = AddCard(g, c)
  <2>1. PICK g \in S, c \in Cards : ~DealerStays(g) /\ h = AddCard(g, c)
    BY <1>3
  <2>2. g \in Hand /\ Slow(g) /\ g.cards >= n /\ c \in Pip
    BY <2>1 DEF DrawnTo
  <2>3. Slow(h)
    BY <2>1, <2>2, DrawKeepsSlow
  <2>4. h \in Hand /\ h.cards >= n + 1
    BY <2>1, <2>2, AddCardType DEF Hand
  <2> QED
    BY <2>3, <2>4 DEF DrawnTo
<1> QED
  BY <1>1, <1>2, <1>3 DEF DrawOnce

\* Four turns of the loop end a hand or add four cards to it.
LEMMA Draw4Advances ==
  ASSUME NEW Cards \in SUBSET Pip, NEW n \in Nat, NEW S \in SUBSET DrawnTo(n)
  PROVE  Draw4(S, Cards) \subseteq DrawnTo(n + 4)
PROOF
<1> DEFINE S1 == DrawOnce(S, Cards)
           S2 == DrawOnce(S1, Cards)
           S3 == DrawOnce(S2, Cards)
<1>1. S1 \subseteq DrawnTo(n + 1)
  BY DrawOnceAdvances
<1> HIDE DEF S1
<1>2. S2 \subseteq DrawnTo((n + 1) + 1)
  BY <1>1, DrawOnceAdvances, n + 1 \in Nat
<1> HIDE DEF S2
<1>3. S3 \subseteq DrawnTo((n + 2) + 1)
  BY <1>2, DrawOnceAdvances, n + 2 \in Nat, (n + 1) + 1 = n + 2
<1> HIDE DEF S3
<1>4. DrawOnce(S3, Cards) \subseteq DrawnTo((n + 3) + 1)
  BY <1>3, DrawOnceAdvances, n + 3 \in Nat, (n + 2) + 1 = n + 3
<1> QED
  BY <1>4, (n + 3) + 1 = n + 4 DEF Draw4, Draw2, S1, S2, S3

\* From any two cards the dealer ends with at most twelve.
LEMMA DealerHandsShort ==
  ASSUME NEW Cards \in SUBSET Pip, NEW c \in Pip, NEW d \in Pip,
         NEW g \in DealerHands(TwoCards(c, d), Cards)
  PROVE  g \in Hand /\ g.cards <= 12
PROOF
<1> DEFINE h == TwoCards(c, d)
           T == {k \in Hand : Slow(k) /\ k.cards <= 12}
<1>1. h \in T
  BY TwoCardsSlow, TwoCardsType
<1>2. ASSUME NEW k \in T, ~DealerStays(k), NEW e \in Cards
      PROVE  AddCard(k, e) \in T
  <2>1. k \in Hand /\ Slow(k) /\ e \in Pip /\ k.cards \in Nat
    BY DEF Hand
  <2>2. k.cards <= 11
    BY <1>2, <2>1, SlowHandsAreShort
  <2>3. AddCard(k, e) \in Hand /\ AddCard(k, e).cards = k.cards + 1
    BY <2>1, AddCardType
  <2>4. Slow(AddCard(k, e))
    BY <1>2, <2>1, DrawKeepsSlow
  <2> QED
    BY <2>1, <2>2, <2>3, <2>4
<1> HIDE DEF h, T
<1>3. DealerHands(h, Cards) \subseteq T
  BY <1>1, <1>2, DealerHandsInClosedSet
<1> QED
  BY <1>3 DEF h, T

\* From any two cards, whatever the shoe holds, the twelve turns that DealerHands
\* allows are all that the dealer's loop can take: it ends on 17 or more.
THEOREM DealerLoopEnds ==
  ASSUME NEW Cards \in SUBSET Pip, NEW c \in Pip, NEW d \in Pip,
         NEW g \in DealerHands(TwoCards(c, d), Cards)
  PROVE  BestValue(g) >= 17
PROOF
<1> DEFINE h == TwoCards(c, d)
<1>1. h \in DrawnTo(2)
  BY TwoCardsType, TwoCardsSlow DEF DrawnTo
<1> HIDE DEF h
<1>2. Draw4({h}, Cards) \subseteq DrawnTo(6)
  BY <1>1, Draw4Advances, 2 + 4 = 6
<1>3. Draw4(Draw4({h}, Cards), Cards) \subseteq DrawnTo(10)
  BY <1>2, Draw4Advances, 6 + 4 = 10
<1>4. DealerHands(h, Cards) \subseteq DrawnTo(14)
  BY <1>3, Draw4Advances, 10 + 4 = 14 DEF DealerHands
<1>5. g \in Hand /\ Slow(g) /\ (DealerStays(g) \/ g.cards >= 14)
  BY <1>4 DEF DrawnTo, h
<1>6. DealerStays(g)
  <2>1. SUFFICES ASSUME ~DealerStays(g) PROVE FALSE
    OBVIOUS
  <2>2. g.cards <= 11
    BY <1>5, <2>1, SlowHandsAreShort
  <2> QED
    BY <1>5, <2>1, <2>2 DEF Hand
<1> QED
  BY <1>6 DEF DealerStays

==============================================================================
