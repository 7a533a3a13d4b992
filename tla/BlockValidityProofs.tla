------------------------ MODULE BlockValidityProofs ------------------------
(***************************************************************************)
(* Proofs about what a block's id commits to, for all lists of             *)
(* transactions.                                                           *)
(*                                                                         *)
(* Two merkle trees with the same root are compared level by level from    *)
(* the root down: where the pairs of two levels are the same and come in   *)
(* the same order, so are their halves.  The trees are then equally high,  *)
(* since the hash of a transaction is not that of a pair, and their leaves *)
(* are the same.                                                           *)
(***************************************************************************)
EXTENDS BlockValidity, FiniteSetTheorems, WellFoundedInduction, TLAPS

-----------------------------------------------------------------------------
(* Numbers                                                                 *)

\* A set of natural numbers that is not empty has a least element.
LEMMA LeastNumber ==
    ASSUME NEW T \in SUBSET Nat, T # {}
    PROVE  \E n \in T : \A m \in T : n <= m
  <1> DEFINE Below(n) == {k \in Nat : k < n}
             U == {Below(n) : n \in T}
  <1>1. IsWellFoundedOn(StrictSubsetOrdering(Nat), FiniteSubsetsOf(Nat))
    BY FS_StrictSubsetOrderingWellFounded
  <1>2. \A n \in Nat : Below(n) \in FiniteSubsetsOf(Nat)
    <2> TAKE n \in Nat
    <2>1. IsFiniteSet(0..n) /\ Below(n) \subseteq 0..n
      BY FS_Interval
    <2>2. IsFiniteSet(Below(n))
      BY <2>1, FS_Subset
    <2> QED
      BY <2>2 DEF FiniteSubsetsOf
  <1>3. U \subseteq FiniteSubsetsOf(Nat) /\ U # {}
    BY <1>2
  <1>4. PICK X \in U : \A Y \in U : <<Y, X>> \notin StrictSubsetOrdering(Nat)
    <2> HIDE DEF U
    <2> QED
      BY <1>1, <1>3, WFMin, Zenon
  <1>5. PICK n \in T : X = Below(n)
    OBVIOUS
  <1>6. ASSUME NEW m \in T, ~(n <= m)
        PROVE  FALSE
    <2>1. m \in Below(n) /\ m \notin Below(m) /\ Below(m) \subseteq Below(n)
      BY <1>6
    <2>2. <<Below(m), Below(n)>> \in StrictSubsetOrdering(Nat)
      BY <2>1 DEF StrictSubsetOrdering
    <2> QED
      BY <2>2, <1>4, <1>5
  <1> QED
    BY <1>6

\* What holds of n, and of the number before when it holds of a number, holds
\* of 0.
LEMMA DownToZero ==
    ASSUME NEW n \in Nat, NEW S, n \in S,
           \A i \in 1..n : i \in S => i - 1 \in S
    PROVE  0 \in S
  <1> DEFINE T == {i \in 0..n : i \in S}
  <1>1. PICK k \in T : \A m \in T : k <= m
    <2>1. T \in SUBSET Nat /\ n \in T
      OBVIOUS
    <2> HIDE DEF T
    <2> QED
      BY <2>1, LeastNumber
  <1>2. ASSUME k # 0
        PROVE  FALSE
    <2>1. k \in 1..n /\ k - 1 \in T
      BY <1>2
    <2> QED
      BY <1>1, <2>1
  <1> QED
    BY <1>2

-----------------------------------------------------------------------------
(* One level of the tree and the next                                      *)

LEMMA Half ==
    ASSUME NEW n \in Nat
    PROVE  /\ (n + 1) \div 2 \in Nat
           /\ n <= 2 * ((n + 1) \div 2)
           /\ 2 * ((n + 1) \div 2) <= n + 1
  OBVIOUS

\* X holds the pairs of x: where their halves stand.
PairsUp(x, X) ==
    /\ Len(X) \in Nat /\ Len(x) \in Nat
    /\ Len(x) <= 2 * Len(X) /\ 2 * Len(X) <= Len(x) + 1
    /\ \A k \in 1..Len(X) :
          /\ 2 * k - 1 \in 1..Len(x)
          /\ X[k] = <<X[k][1], X[k][2]>>
          /\ X[k][1] = x[2 * k - 1]
          /\ 2 * k <= Len(x) => X[k][2] = x[2 * k]
          /\ 2 * k > Len(x) => X[k][2] = X[k][1]

LEMMA NextLevelPairs ==
    ASSUME NEW V, NEW x \in Seq(V), NEW X, X = NextLevel(x)
    PROVE  PairsUp(x, X) /\ X \in Seq(V \X V)
  <1> DEFINE n == Len(x)
             h == (n + 1) \div 2
             pair(k) == <<x[2*k - 1], IF 2*k <= n THEN x[2*k] ELSE x[2*k - 1]>>
  <1>1. n \in Nat /\ h \in Nat /\ n <= 2 * h /\ 2 * h <= n + 1
    BY Half
  <1>2. X = [k \in 1..h |-> pair(k)]
    BY DEF NextLevel
  <1> HIDE DEF h
  <1>3. ASSUME NEW k \in 1..h
        PROVE  /\ 2 * k - 1 \in 1..n
               /\ 2 * k <= n => 2 * k \in 1..n
               /\ pair(k) \in V \X V
    <2>1. 2 * k - 1 \in 1..n /\ (2 * k <= n => 2 * k \in 1..n)
      BY <1>1
    <2>2. x[2 * k - 1] \in V /\ (2 * k <= n => x[2 * k] \in V)
      BY <2>1
    <2> QED
      BY <2>1, <2>2
  <1>4. X \in [1..h -> V \X V]
    <2> HIDE DEF pair
    <2> QED
      BY <1>2, <1>3
  <1>5. X \in Seq(V \X V) /\ Len(X) = h
    BY <1>1, <1>4
  <1>6. \A k \in 1..h : X[k] = pair(k)
    BY <1>2
  <1>7. ASSUME NEW k \in 1..h
        PROVE  /\ X[k] = <<X[k][1], X[k][2]>>
               /\ X[k][1] = x[2 * k - 1]
               /\ 2 * k <= n => X[k][2] = x[2 * k]
               /\ 2 * k > n => X[k][2] = X[k][1]
    BY <1>1, <1>6
  <1> QED
    BY <1>1, <1>3, <1>5, <1>7 DEF PairsUp

\* Each hash of a level is in a pair of the next.
LEMMA PairOf ==
    ASSUME NEW x, NEW X, PairsUp(x, X), NEW j \in 1..Len(x)
    PROVE  \E k \in 1..Len(X) : \/ j = 2 * k - 1 /\ X[k][1] = x[j]
                                \/ j = 2 * k /\ X[k][2] = x[j]
  <1> DEFINE k == (j + 1) \div 2
  <1>1. Len(X) \in Nat /\ Len(x) \in Nat /\ Len(x) <= 2 * Len(X)
    BY DEF PairsUp
  <1>2. j \in Nat /\ k \in Nat /\ j <= 2 * k /\ 2 * k <= j + 1
    BY <1>1, Half
  <1> HIDE DEF k
  <1>3. k \in 1..Len(X) /\ (j = 2 * k - 1 \/ j = 2 * k)
    BY <1>1, <1>2
  <1>4. ASSUME j = 2 * k
        PROVE  X[k][2] = x[j]
    BY <1>3, <1>4 DEF PairsUp
  <1>5. ASSUME j = 2 * k - 1
        PROVE  X[k][1] = x[j]
    BY <1>3, <1>5 DEF PairsUp
  <1> QED
    BY <1>3, <1>4, <1>5

\* Half of a pair is there, in the place where it comes first.
LEMMA HalfOf ==
    ASSUME NEW x, NEW X, PairsUp(x, X), NEW k \in 1..Len(X)
    PROVE  /\ 2 * k - 1 \in 1..Len(x) /\ x[2 * k - 1] = X[k][1]
           /\ \/ 2 * k \in 1..Len(x) /\ x[2 * k] = X[k][2]
              \/ 2 * k > Len(x) /\ X[k][1] = X[k][2]
  <1>1. 2 * k - 1 \in 1..Len(x) /\ x[2 * k - 1] = X[k][1] /\ Len(x) \in Nat
    BY DEF PairsUp
  <1>2. CASE 2 * k <= Len(x)
    <2>1. 2 * k \in 1..Len(x)
      BY <1>1, <1>2
    <2>2. x[2 * k] = X[k][2]
      BY <1>2 DEF PairsUp
    <2> QED
      BY <1>1, <2>1, <2>2
  <1>3. CASE ~(2 * k <= Len(x))
    <2>1. 2 * k > Len(x)
      BY <1>1, <1>3
    <2>2. X[k][1] = X[k][2]
      BY <2>1 DEF PairsUp
    <2> QED
      BY <1>1, <2>1, <2>2
  <1> QED
    BY <1>2, <1>3

\* Two lists with the same pairs have the same elements.
LEMMA SetDown ==
    ASSUME NEW x, NEW X, NEW y, NEW Y, PairsUp(x, X), PairsUp(y, Y),
           \A k \in 1..Len(X) : \E m \in 1..Len(Y) : Y[m] = X[k],
           NEW j \in 1..Len(x)
    PROVE  \E i \in 1..Len(y) : y[i] = x[j]
  <1>1. PICK k \in 1..Len(X) : X[k][1] = x[j] \/ X[k][2] = x[j]
    BY PairOf
  <1>2. PICK m \in 1..Len(Y) : Y[m] = X[k]
    OBVIOUS
  <1>3. Y[m][1] = x[j] \/ Y[m][2] = x[j]
    BY <1>1, <1>2
  <1>4. /\ 2 * m - 1 \in 1..Len(y) /\ y[2 * m - 1] = Y[m][1]
        /\ \/ 2 * m \in 1..Len(y) /\ y[2 * m] = Y[m][2]
           \/ Y[m][1] = Y[m][2]
    BY HalfOf
  <1> QED
    BY <1>3, <1>4

IsList(s) == DOMAIN s = 1..Len(s)

\* The pairs of Y are pairs of X, and come in the order they have there.
PairsKept(X, Y) ==
    /\ IsList(X) /\ IsList(Y)
    /\ \A k \in 1..Len(Y) : \E m \in 1..Len(X) : X[m] = Y[k]
    /\ \A m, k \in 1..Len(X) : ComesBefore(X, X[m], X[k]) => ComesBefore(Y, X[m], X[k])

\* a comes before b in a list if the pairs are in the order they have in a list
\* where it does.
LEMMA OrderDown ==
    ASSUME NEW x, NEW X, NEW y, NEW Y, PairsUp(x, X), PairsUp(y, Y),
           PairsKept(X, Y), NEW a, NEW b,
           IsList(x), ComesBefore(x, a, b),
           NEW j \in 1..Len(y), y[j] = b
    PROVE  \E i \in 1..j : y[i] = a
  <1>0. Len(x) \in Nat /\ Len(X) \in Nat /\ Len(y) \in Nat /\ Len(Y) \in Nat
    BY DEF PairsUp
  <1>1. PICK k \in 1..Len(Y) : \/ j = 2 * k - 1 /\ Y[k][1] = y[j]
                               \/ j = 2 * k /\ Y[k][2] = y[j]
    BY PairOf
  <1>2. 2 * k - 1 \in 1..j /\ y[2 * k - 1] = Y[k][1] /\ k \in Nat
    <2>1. y[2 * k - 1] = Y[k][1]
      BY DEF PairsUp
    <2> QED
      BY <1>0, <1>1, <2>1
  \* The first place of that pair in X.
  <1>3. PICK m \in 1..Len(X) : X[m] = Y[k] /\ \A q \in 1..Len(X) : X[q] = Y[k] => m <= q
    <2> DEFINE T == {q \in 1..Len(X) : X[q] = Y[k]}
    <2>1. T \in SUBSET Nat /\ T # {}
      BY <1>0 DEF PairsKept, IsList
    <2>2. \E q \in T : \A r \in T : q <= r
      <3> HIDE DEF T
      <3> QED
        BY <2>1, LeastNumber
    <2> QED
      BY <2>2
  <1>4. CASE Y[k][1] = a
    BY <1>2, <1>4
  <1>5. CASE Y[k][1] # a
    <2>1. /\ 2 * m - 1 \in 1..Len(x) /\ x[2 * m - 1] = X[m][1]
          /\ \/ 2 * m \in 1..Len(x) /\ x[2 * m] = X[m][2]
             \/ 2 * m > Len(x) /\ X[m][1] = X[m][2]
      BY HalfOf
    <2>2. \E p \in {2 * m - 1, 2 * m} :
             p \in 1..Len(x) /\ x[p] = b /\ (p = 2 * m => Y[k][2] = b)
      BY <1>1, <1>3, <2>1
    <2>3. PICK p \in {2 * m - 1, 2 * m} :
             p \in 1..Len(x) /\ x[p] = b /\ (p = 2 * m => Y[k][2] = b)
      BY <2>2
    <2>4. PICK i \in 1..p : x[i] = a
      BY <2>3 DEF ComesBefore, IsList
    <2>5. i \in 1..Len(x)
      BY <1>0, <2>3
    <2>6. PICK n \in 1..Len(X) : \/ i = 2 * n - 1 /\ X[n][1] = x[i]
                                 \/ i = 2 * n /\ X[n][2] = x[i]
      BY <2>5, PairOf
    <2>7. n \in Nat /\ m \in Nat /\ n <= m
      BY <1>0, <2>3, <2>6
    <2>8. CASE n = m
      <3>1. i = 2 * m /\ Y[k][2] = a
        BY <1>3, <1>5, <2>4, <2>6, <2>8
      <3>2. p = 2 * m
        BY <2>3, <2>7, <3>1
      <3>3. a = b
        BY <2>3, <3>1, <3>2
      <3> QED
        BY <1>0, <3>3
    <2>9. CASE n # m
      <3>1. ComesBefore(X, X[n], X[m])
        <4>1. ASSUME NEW q \in 1..Len(X), X[q] = X[m]
              PROVE  n \in 1..q
          BY <1>0, <1>3, <2>7, <4>1
        <4> QED
          BY <4>1 DEF ComesBefore, PairsKept, IsList
      <3>2. PICK q \in 1..k : Y[q] = X[n]
        BY <1>3, <3>1 DEF ComesBefore, PairsKept, IsList
      <3>3. q # k
        <4>1. X[n] # X[m]
          BY <1>3, <2>7, <2>9
        <4> QED
          BY <1>3, <3>2, <4>1
      <3>4. /\ q \in 1..Len(Y) /\ q \in Nat /\ 2 * q < 2 * k - 1
            /\ 2 * q - 1 \in 1..j /\ 2 * q \in 1..j /\ ~(2 * q > Len(y))
        <4>1. /\ k \in Nat /\ q \in Nat /\ q < k /\ k <= Len(Y) /\ 0 < q
              /\ 2 * k - 1 <= j /\ j <= Len(y) /\ j \in Nat
          BY <1>0, <1>2, <3>2, <3>3
        <4> QED
          BY <1>0, <4>1
      <3>5. y[2 * q - 1] = Y[q][1] /\ y[2 * q] = Y[q][2]
        BY <3>4, HalfOf
      <3>6. Y[q][1] = a \/ Y[q][2] = a
        BY <2>4, <2>6, <3>2
      <3> QED
        BY <3>4, <3>5, <3>6
    <2> QED
      BY <2>8, <2>9
  <1> QED
    BY <1>4, <1>5

\* What both trees have, seen from one of them.
LEMMA HalfDown ==
    ASSUME NEW x, NEW X, NEW y, NEW Y, PairsUp(x, X), PairsUp(y, Y),
           IsList(x), IsList(y),
           PairsKept(X, Y), PairsKept(Y, X)
    PROVE  /\ ToSet(x) \subseteq ToSet(y)
           /\ \A a, b : ComesBefore(x, a, b) => ComesBefore(y, a, b)
  <1>1. ASSUME NEW j \in 1..Len(x)
        PROVE  \E i \in 1..Len(y) : y[i] = x[j]
    <2>1. \A k \in 1..Len(X) : \E m \in 1..Len(Y) : Y[m] = X[k]
      BY DEF PairsKept
    <2> QED
      BY <2>1, SetDown
  <1>2. ASSUME NEW a, NEW b, ComesBefore(x, a, b), NEW j \in 1..Len(y), y[j] = b
        PROVE  \E i \in 1..j : y[i] = a
    BY <1>2, OrderDown
  <1>3. ToSet(x) \subseteq ToSet(y)
    BY <1>1 DEF ToSet, IsList
  <1>4. \A a, b : ComesBefore(x, a, b) => ComesBefore(y, a, b)
    BY <1>2 DEF ComesBefore, IsList
  <1> QED
    BY <1>3, <1>4

LEMMA SamePairs ==
    ASSUME NEW X, NEW Y, IsList(X), IsList(Y), SameTxs(X, Y)
    PROVE  PairsKept(X, Y) /\ PairsKept(Y, X)
  <1>1. \A k \in 1..Len(Y) : \E m \in 1..Len(X) : X[m] = Y[k]
    BY DEF SameTxs, ToSet, IsList
  <1>2. \A k \in 1..Len(X) : \E m \in 1..Len(Y) : Y[m] = X[k]
    BY DEF SameTxs, ToSet, IsList
  <1>3. \A m, k \in 1..Len(X) : ComesBefore(X, X[m], X[k]) <=> ComesBefore(Y, X[m], X[k])
    BY DEF SameTxs, ToSet, IsList
  <1>4. \A m, k \in 1..Len(Y) : ComesBefore(X, Y[m], Y[k]) <=> ComesBefore(Y, Y[m], Y[k])
    BY DEF SameTxs, ToSet, IsList
  <1> QED
    BY <1>1, <1>2, <1>3, <1>4 DEF PairsKept

\* Two levels are the same but for repetitions if the levels above them are.
LEMMA OneLevelDown ==
    ASSUME NEW V, NEW W, NEW x \in Seq(V), NEW y \in Seq(W),
           SameTxs(NextLevel(x), NextLevel(y))
    PROVE  SameTxs(x, y)
  <1> DEFINE X == NextLevel(x)
             Y == NextLevel(y)
  <1>1. PairsUp(x, X) /\ X \in Seq(V \X V)
    BY NextLevelPairs
  <1>2. PairsUp(y, Y) /\ Y \in Seq(W \X W)
    BY NextLevelPairs
  <1>3. IsList(x) /\ IsList(y) /\ IsList(X) /\ IsList(Y)
    BY <1>1, <1>2 DEF IsList
  <1> HIDE DEF X, Y
  <1>4. PairsKept(X, Y) /\ PairsKept(Y, X)
    BY <1>3, SamePairs DEF X, Y
  <1>5. /\ ToSet(x) \subseteq ToSet(y)
        /\ \A a, b : ComesBefore(x, a, b) => ComesBefore(y, a, b)
    BY <1>1, <1>2, <1>3, <1>4, HalfDown
  <1>6. /\ ToSet(y) \subseteq ToSet(x)
        /\ \A a, b : ComesBefore(y, a, b) => ComesBefore(x, a, b)
    BY <1>1, <1>2, <1>3, <1>4, HalfDown
  <1> QED
    BY <1>5, <1>6 DEF SameTxs

-----------------------------------------------------------------------------
(* The levels of a tree, from its leaves to its root                       *)

IsTrace(f, n, txs) ==
    /\ n \in Nat
    /\ f[0] = Leaves(txs)
    /\ \A i \in 1..n : Len(f[i - 1]) > 1 /\ f[i] = NextLevel(f[i - 1])
    /\ \A i \in 0..n : f[i] \in Seq(ToSet(f[i]))

\* hashes is a level of the tree over txs.
Reached(hashes, txs) == \E f, n : IsTrace(f, n, txs) /\ hashes = f[n]

Rooted(txs, root) ==
    \E hashes : Reached(hashes, txs) /\ Len(hashes) <= 1 /\ root = RootHash(hashes)

LEMMA IsSeq ==
    ASSUME NEW V, NEW s \in Seq(V)
    PROVE  s \in Seq(ToSet(s))
  <1>1. Len(s) \in Nat /\ s \in [1..Len(s) -> V]
    OBVIOUS
  <1>2. \A i \in 1..Len(s) : s[i] \in ToSet(s)
    BY <1>1 DEF ToSet
  <1>3. s \in [1..Len(s) -> ToSet(s)]
    BY <1>1, <1>2
  <1> QED
    BY <1>1, <1>3

LEMMA ReachedLeaves ==
    ASSUME NEW txs \in Seq(Txs)
    PROVE  Reached(Leaves(txs), txs)
  <1> DEFINE f == [i \in {0} |-> Leaves(txs)]
  <1>1. Leaves(txs) \in Seq({<<t>> : t \in Txs})
    BY DEF Leaves
  <1>2. f[0] \in Seq(ToSet(f[0]))
    BY <1>1, IsSeq
  <1>3. IsTrace(f, 0, txs)
    BY <1>2 DEF IsTrace
  <1> QED
    BY <1>3 DEF Reached

LEMMA ReachedStep ==
    ASSUME NEW txs, NEW hashes, Reached(hashes, txs), ~(Len(hashes) <= 1)
    PROVE  Reached(NextLevel(hashes), txs)
  <1>1. PICK f, n : IsTrace(f, n, txs) /\ hashes = f[n]
    BY DEF Reached
  <1>2. n \in Nat /\ hashes \in Seq(ToSet(hashes))
    BY <1>1 DEF IsTrace
  <1> DEFINE g == [i \in 0..(n + 1) |-> IF i = n + 1 THEN NextLevel(hashes) ELSE f[i]]
  <1>3. Len(hashes) > 1
    BY <1>2
  <1>4. g[n + 1] = NextLevel(hashes) /\ \A i \in 0..n : g[i] = f[i]
    BY <1>2
  <1>5. g[n + 1] \in Seq(ToSet(g[n + 1]))
    <2>1. NextLevel(hashes) \in Seq(ToSet(hashes) \X ToSet(hashes))
      BY <1>2, NextLevelPairs
    <2> QED
      BY <1>4, <2>1, IsSeq
  <1> HIDE DEF g
  <1>6. g[0] = Leaves(txs)
    BY <1>1, <1>2, <1>4 DEF IsTrace
  <1>7. ASSUME NEW i \in 1..(n + 1)
        PROVE  Len(g[i - 1]) > 1 /\ g[i] = NextLevel(g[i - 1])
    <2>1. CASE i = n + 1
      BY <1>1, <1>2, <1>3, <1>4, <2>1
    <2>2. CASE i # n + 1
      <3>1. i \in 1..n /\ i - 1 \in 0..n /\ i \in 0..n
        BY <1>2, <2>2
      <3> QED
        BY <1>1, <1>4, <3>1 DEF IsTrace
    <2> QED
      BY <2>1, <2>2
  <1>8. \A i \in 0..(n + 1) : g[i] \in Seq(ToSet(g[i]))
    <2> TAKE i \in 0..(n + 1)
    <2>1. i = n + 1 \/ i \in 0..n
      BY <1>2
    <2> QED
      BY <1>1, <1>4, <1>5, <2>1 DEF IsTrace
  <1>9. IsTrace(g, n + 1, txs)
    BY <1>2, <1>6, <1>7, <1>8 DEF IsTrace
  <1> QED
    BY <1>4, <1>9 DEF Reached

-----------------------------------------------------------------------------
(* Equal roots                                                             *)

\* Above the leaves the hashes are those of pairs; the leaves are not.
LEMMA PairsAbove ==
    ASSUME NEW f, NEW n, NEW txs, IsTrace(f, n, txs), NEW i \in 1..n,
           NEW k \in DOMAIN f[i]
    PROVE  f[i][k] = <<f[i][k][1], f[i][k][2]>>
  <1> DEFINE x == f[i - 1]
             X == f[i]
  <1>1. i - 1 \in 0..n /\ i \in 0..n
    BY DEF IsTrace
  <1>2. x \in Seq(ToSet(x)) /\ X = NextLevel(x) /\ X \in Seq(ToSet(X))
    BY <1>1 DEF IsTrace
  <1>3. PairsUp(x, X)
    <2> HIDE DEF x, X
    <2> QED
      BY <1>2, NextLevelPairs
  <1>4. DOMAIN X = 1..Len(X)
    BY <1>2
  <1> QED
    BY <1>3, <1>4 DEF PairsUp

LEMMA LeafIsOne ==
    ASSUME NEW f, NEW n, NEW txs, IsTrace(f, n, txs), NEW k \in DOMAIN f[0]
    PROVE  f[0][k] = <<txs[k]>>
  BY DEF IsTrace, Leaves

\* A tree has a level of no hashes only if it is over no transactions.
LEMMA NotEmpty ==
    ASSUME NEW f, NEW n, NEW txs, IsTrace(f, n, txs), NEW i \in 0..n, f[i] = <<>>
    PROVE  i = 0 /\ n = 0
  <1>1. n \in Nat
    BY DEF IsTrace
  <1>2. ASSUME i # n
        PROVE  FALSE
    <2>1. i + 1 \in 1..n /\ (i + 1) - 1 = i
      BY <1>1, <1>2
    <2>2. Len(f[i]) > 1
      BY <2>1 DEF IsTrace
    <2> QED
      BY <2>2
  <1>3. ASSUME i # 0
        PROVE  FALSE
    <2>1. i \in 1..n /\ i - 1 \in 0..n
      BY <1>1, <1>3
    <2>2. /\ f[i - 1] \in Seq(ToSet(f[i - 1])) /\ Len(f[i - 1]) > 1
          /\ f[i] = NextLevel(f[i - 1])
      BY <2>1 DEF IsTrace
    <2>3. PairsUp(f[i - 1], f[i])
      BY <2>2, NextLevelPairs
    <2>4. Len(f[i - 1]) <= 2 * Len(f[i]) /\ Len(f[i - 1]) \in Nat
      BY <2>3 DEF PairsUp
    <2>5. Len(f[i]) = 0
      OBVIOUS
    <2> QED
      BY <2>2, <2>4, <2>5
  <1> QED
    BY <1>2, <1>3

\* A list of transactions has one tree.
LEMMA RootDetermined ==
    ASSUME NEW txs, NEW a, NEW b, Reached(a, txs), Reached(b, txs),
           Len(a) <= 1, Len(b) <= 1
    PROVE  a = b
  <1>1. ASSUME NEW f, NEW n, NEW g, NEW m, IsTrace(f, n, txs), IsTrace(g, m, txs),
               n <= m, Len(f[n]) <= 1
        PROVE  f[n] = g[m]
    <2> DEFINE S == {i \in Nat : f[i] # g[i]}
    <2>1. n \in Nat /\ m \in Nat /\ f[0] = g[0]
      BY <1>1 DEF IsTrace
    <2>2. \A i \in 1..n : i \in S => i - 1 \in S
      <3> TAKE i \in 1..n
      <3>1. f[i] = NextLevel(f[i - 1]) /\ g[i] = NextLevel(g[i - 1])
        BY <1>1, <2>1 DEF IsTrace
      <3> QED
        BY <2>1, <3>1
    <2>3. 0 \notin S
      BY <2>1
    <2>4. n \notin S
      <3> HIDE DEF S
      <3> QED
        BY <2>1, <2>2, <2>3, DownToZero
    <2>5. f[n] = g[n]
      BY <2>1, <2>4
    <2>6. CASE n = m
      BY <2>5, <2>6
    <2>7. CASE n # m
      <3>1. n + 1 \in 1..m /\ (n + 1) - 1 = n
        BY <1>1, <2>1, <2>7
      <3>2. Len(g[n]) > 1
        BY <1>1, <3>1 DEF IsTrace
      <3>3. Len(f[n]) \in Nat
        BY <1>1, <2>1 DEF IsTrace
      <3> QED
        BY <1>1, <2>5, <3>2, <3>3
    <2> QED
      BY <2>6, <2>7
  <1>2. PICK f, n : IsTrace(f, n, txs) /\ a = f[n]
    BY DEF Reached
  <1>3. PICK g, m : IsTrace(g, m, txs) /\ b = g[m]
    BY DEF Reached
  <1>4. n \in Nat /\ m \in Nat
    BY <1>2, <1>3 DEF IsTrace
  <1>5. CASE n <= m
    BY <1>1, <1>2, <1>3, <1>5
  <1>6. CASE ~(n <= m)
    <2>1. m <= n
      BY <1>4, <1>6
    <2> QED
      BY <1>1, <1>2, <1>3, <2>1
  <1> QED
    BY <1>5, <1>6

LEMMA LeavesDown ==
    ASSUME NEW x \in Seq(Txs), NEW y \in Seq(Txs), SameTxs(Leaves(x), Leaves(y))
    PROVE  SameTxs(x, y)
  <1>1. ASSUME NEW s \in Seq(Txs)
        PROVE  /\ IsList(s) /\ Len(s) \in Nat /\ DOMAIN Leaves(s) = 1..Len(s)
               /\ \A i \in 1..Len(s) : Leaves(s)[i] = <<s[i]>>
    BY DEF IsList, Leaves
  <1>2. ASSUME NEW s \in Seq(Txs), NEW t
        PROVE  t \in ToSet(s) <=> <<t>> \in ToSet(Leaves(s))
    <2>1. t \in ToSet(s) <=> \E i \in 1..Len(s) : s[i] = t
      BY <1>1 DEF ToSet, IsList
    <2>2. <<t>> \in ToSet(Leaves(s)) <=> \E i \in 1..Len(s) : Leaves(s)[i] = <<t>>
      BY <1>1 DEF ToSet
    <2>3. \A i \in 1..Len(s) : s[i] = t <=> Leaves(s)[i] = <<t>>
      BY <1>1
    <2> QED
      BY <2>1, <2>2, <2>3
  <1>3. ASSUME NEW s \in Seq(Txs), NEW a, NEW b
        PROVE  ComesBefore(s, a, b) <=> ComesBefore(Leaves(s), <<a>>, <<b>>)
    <2>1. \A j \in 1..Len(s) : s[j] = b <=> Leaves(s)[j] = <<b>>
      BY <1>1
    <2>2. \A j \in 1..Len(s) : (\E i \in 1..j : s[i] = a)
                               <=> (\E i \in 1..j : Leaves(s)[i] = <<a>>)
      <3> TAKE j \in 1..Len(s)
      <3>1. \A i \in 1..j : i \in 1..Len(s)
        BY <1>1
      <3> QED
        BY <1>1, <3>1
    <2> QED
      BY <1>1, <2>1, <2>2 DEF ComesBefore, IsList
  <1>4. ToSet(x) = ToSet(y)
    BY <1>2 DEF SameTxs
  <1>5. ASSUME NEW a \in ToSet(x), NEW b \in ToSet(x)
        PROVE  ComesBefore(x, a, b) <=> ComesBefore(y, a, b)
    <2>1. <<a>> \in ToSet(Leaves(x)) /\ <<b>> \in ToSet(Leaves(x))
      BY <1>2
    <2>2. ComesBefore(Leaves(x), <<a>>, <<b>>) <=> ComesBefore(Leaves(y), <<a>>, <<b>>)
      BY <2>1 DEF SameTxs
    <2> QED
      BY <1>3, <2>2
  <1> QED
    BY <1>4, <1>5 DEF SameTxs

LEMMA RootsMeet ==
    ASSUME NEW x \in Seq(Txs), NEW y \in Seq(Txs), NEW f, NEW n, NEW g, NEW m,
           IsTrace(f, n, x), IsTrace(g, m, y), n <= m,
           f[n] = g[m], f[n] # <<>>
    PROVE  SameTxs(x, y)
  <1> DEFINE d == m - n
             S == {i \in Nat : SameTxs(f[i], g[d + i])}
  <1>1. n \in Nat /\ m \in Nat /\ d \in Nat /\ d + n = m /\ (d = 0 => n = m)
    BY DEF IsTrace
  <1>2. n \in S
    BY <1>1 DEF SameTxs
  <1>3. ASSUME NEW i \in 1..n, i \in S
        PROVE  i - 1 \in S
    <2> DEFINE u == f[i - 1]
               w == g[d + (i - 1)]
    <2>1. /\ i - 1 \in 0..n /\ i - 1 \in Nat /\ d + (i - 1) \in 0..m
          /\ d + i \in 1..m /\ (d + i) - 1 = d + (i - 1)
      BY <1>1
    <2>2. f[i] = NextLevel(u) /\ u \in Seq(ToSet(u))
      BY <2>1 DEF IsTrace
    <2>3. g[d + i] = NextLevel(w) /\ w \in Seq(ToSet(w))
      BY <2>1 DEF IsTrace
    <2>4. SameTxs(NextLevel(u), NextLevel(w))
      BY <1>3, <2>2, <2>3
    <2>5. SameTxs(u, w)
      <3> HIDE DEF u, w
      <3> QED
        BY <2>2, <2>3, <2>4, OneLevelDown
    <2> QED
      BY <2>1, <2>5
  <1>4. 0 \in S
    <2> HIDE DEF S
    <2> QED
      BY <1>1, <1>2, <1>3, DownToZero
  <1>5. SameTxs(f[0], g[d])
    BY <1>1, <1>4
  <1>6. CASE d = 0
    <2>1. f[0] = Leaves(x) /\ g[0] = Leaves(y)
      BY DEF IsTrace
    <2> QED
      BY <1>5, <1>6, <2>1, LeavesDown
  <1>7. CASE d # 0
    <2>1. d \in 1..m
      BY <1>1, <1>7
    <2>2. f[0] # <<>> /\ f[0] \in Seq(ToSet(f[0]))
      <3>1. 0 \in 0..n
        BY <1>1
      <3> QED
        BY <1>1, <3>1, NotEmpty DEF IsTrace
    <2>3. 1 \in DOMAIN f[0]
      BY <2>2
    <2>4. f[0][1] = <<x[1]>>
      BY <2>3, LeafIsOne
    <2>5. PICK k \in DOMAIN g[d] : g[d][k] = f[0][1]
      BY <1>5, <2>3 DEF SameTxs, ToSet
    <2>6. g[d][k] = <<g[d][k][1], g[d][k][2]>>
      BY <2>1, PairsAbove
    <2> QED
      BY <2>4, <2>5, <2>6
  <1> QED
    BY <1>6, <1>7

\* Two lists with the same root are the same, but that the tree repeats what comes
\* last.
LEMMA RootsAgree ==
    ASSUME NEW x \in Seq(Txs), NEW y \in Seq(Txs), NEW root,
           Rooted(x, root), Rooted(y, root)
    PROVE  SameTxs(x, y)
  <1>1. PICK f, n : IsTrace(f, n, x) /\ Len(f[n]) <= 1 /\ root = RootHash(f[n])
    BY DEF Rooted, Reached
  <1>2. PICK g, m : IsTrace(g, m, y) /\ Len(g[m]) <= 1 /\ root = RootHash(g[m])
    BY DEF Rooted, Reached
  <1>3. n \in Nat /\ m \in Nat
    BY <1>1, <1>2 DEF IsTrace
  <1>4. f[n] \in Seq(ToSet(f[n])) /\ g[m] \in Seq(ToSet(g[m]))
    BY <1>1, <1>2, <1>3 DEF IsTrace
  <1>5. ASSUME NEW h, NEW k, NEW z \in Seq(Txs), IsTrace(h, k, z), Len(h[k]) <= 1
        PROVE  (h[k] = <<>> /\ z = <<>>) \/ (h[k] # <<>> /\ RootHash(h[k]) # <<>>)
    <2>1. k \in Nat /\ k \in 0..k /\ h[k] \in Seq(ToSet(h[k])) /\ h[0] = Leaves(z)
      BY <1>5 DEF IsTrace
    <2>2. CASE h[k] = <<>>
      <3>1. k = 0
        BY <1>5, <2>1, <2>2, NotEmpty
      <3>2. Leaves(z) = <<>>
        BY <2>1, <2>2, <3>1
      <3>3. z = <<>>
        BY <3>2 DEF Leaves
      <3> QED
        BY <2>2, <3>3
    <2>3. CASE h[k] # <<>>
      <3>1. 1 \in DOMAIN h[k] /\ RootHash(h[k]) = h[k][1]
        BY <2>1, <2>3 DEF RootHash
      <3>2. CASE k = 0
        <4>1. h[k][1] = <<z[1]>>
          BY <1>5, <3>1, <3>2, LeafIsOne
        <4> QED
          BY <2>3, <3>1, <4>1
      <3>3. CASE k # 0
        <4>1. k \in 1..k
          BY <2>1, <3>3
        <4>2. h[k][1] = <<h[k][1][1], h[k][1][2]>>
          BY <1>5, <3>1, <4>1, PairsAbove
        <4> QED
          BY <2>3, <3>1, <4>2
      <3> QED
        BY <3>2, <3>3
    <2> QED
      BY <2>2, <2>3
  <1>6. CASE f[n] = <<>> \/ g[m] = <<>>
    <2>1. root = <<>>
      BY <1>1, <1>2, <1>6 DEF RootHash
    <2>2. x = <<>> /\ y = <<>>
      BY <1>1, <1>2, <1>5, <2>1
    <2> QED
      BY <2>2 DEF SameTxs
  <1>7. CASE f[n] # <<>> /\ g[m] # <<>>
    <2>1. f[n][1] = g[m][1]
      BY <1>1, <1>2, <1>7 DEF RootHash
    <2>2. f[n] = g[m]
      BY <1>1, <1>2, <1>4, <1>7, <2>1
    <2>3. CASE n <= m
      BY <1>1, <1>2, <1>7, <2>2, <2>3, RootsMeet
    <2>4. CASE ~(n <= m)
      <3>1. m <= n
        BY <1>3, <2>4
      <3>2. SameTxs(y, x)
        BY <1>1, <1>2, <1>7, <2>2, <3>1, RootsMeet
      <3> QED
        BY <3>2 DEF SameTxs
    <2> QED
      BY <2>3, <2>4
  <1> QED
    BY <1>6, <1>7

-----------------------------------------------------------------------------
(* The blocks that are made, and those that arrive                         *)

IsBlock(b) ==
    b \in [parent : Parents, receiver : Receivers, txs : Seq(Txs), time : Times,
           root : {b.root}, nonce : Nonces, id : {b.id}]

\* Whoever changes what the id is made of makes another id than that of the header.
IInv ==
    /\ stage \in {"making", "sent", "checking", "valid", "invalid", "accepted", "refused"}
    /\ IsBlock(block) /\ IsBlock(mined)
    /\ stage = "making" => block = mined /\ Reached(level, block.txs)
    /\ stage = "sent" => block = mined
    /\ stage = "checking" => Reached(level, block.txs)
    /\ stage # "making" =>
          /\ mined.id = BlockId(mined)
          /\ Rooted(mined.txs, mined.root)
          /\ block.id = BlockId(block) => SameHeader

LEMMA InitIInv == Init => IInv /\ ValidAsMined
  <1> SUFFICES ASSUME Init
               PROVE  IInv /\ ValidAsMined
    OBVIOUS
  <1>1. PICK parent \in Parents, receiver \in Receivers, txs \in Bodies,
           time \in Times, nonce \in Nonces :
           block = [parent |-> parent, receiver |-> receiver, txs |-> txs, time |-> time,
                    root |-> <<>>, nonce |-> nonce, id |-> <<>>]
    BY DEF Init
  <1>2. txs \in Seq(Txs)
    BY ValidityAssumption
  <1>3. IsBlock(block) /\ IsBlock(mined) /\ block.txs \in Seq(Txs)
    BY <1>1, <1>2 DEF IsBlock, Init
  <1>4. Reached(level, block.txs)
    BY <1>3, ReachedLeaves DEF Init
  <1> QED
    BY <1>3, <1>4 DEF Init, IInv, ValidAsMined

LEMMA SameBlock ==
    ASSUME NEW a, NEW b, IsBlock(a), IsBlock(b), a.parent = b.parent,
           a.receiver = b.receiver, a.root = b.root, a.nonce = b.nonce, a.id = b.id
    PROVE  [b EXCEPT !.txs = a.txs, !.time = a.time] = a
  BY DEF IsBlock

\* Another header than the mined one has another id, or the time stamp differs.
LEMMA ArrivesBound ==
    ASSUME IsBlock(block), block.id = BlockId(block), NEW b \in Arriving
    PROVE  /\ IsBlock(b)
           /\ b.id = BlockId(b) => [b EXCEPT !.txs = block.txs, !.time = block.time] = block
  <1>1. ASSUME b \in Headers
        PROVE  /\ IsBlock(b)
               /\ b.id = BlockId(b) => [b EXCEPT !.txs = block.txs, !.time = block.time] = block
    <2>1. block.txs \in Seq(Txs)
      BY DEF IsBlock
    <2>2. IsBlock(b)
      BY <1>1, <2>1 DEF Headers, IsBlock
    <2>3. ASSUME b.id = BlockId(b)
          PROVE  /\ b.parent = block.parent /\ b.receiver = block.receiver
                 /\ b.root = block.root /\ b.nonce = block.nonce /\ b.id = block.id
      <3>1. b.id = block.id \/ b.id = <<>>
        BY <1>1 DEF Headers
      <3>2. b.id # <<>>
        BY <2>3 DEF BlockId
      <3>3. BlockId(b) = BlockId(block)
        BY <2>3, <3>1, <3>2
      <3> QED
        BY <3>1, <3>2, <3>3 DEF BlockId
    <2> QED
      BY <2>2, <2>3, SameBlock
  <1>2. ASSUME NEW txs \in BoundedSeq(Txs, MaxTxs), b = [block EXCEPT !.txs = txs]
        PROVE  /\ IsBlock(b)
               /\ b.id = BlockId(b) => [b EXCEPT !.txs = block.txs, !.time = block.time] = block
    <2>1. txs \in Seq(Txs)
      <3>1. PICK m \in 0..MaxTxs : txs \in [1..m -> Txs]
        BY DEF BoundedSeq, SeqOf
      <3> QED
        BY <3>1, ValidityAssumption
    <2>2. IsBlock(b)
      BY <1>2, <2>1 DEF IsBlock
    <2>3. /\ b.parent = block.parent /\ b.receiver = block.receiver
          /\ b.root = block.root /\ b.nonce = block.nonce /\ b.id = block.id
      BY <1>2 DEF IsBlock
    <2> QED
      BY <2>2, <2>3, SameBlock
  <1> QED
    BY <1>1, <1>2 DEF Arriving

LEMMA StepIInv == IInv /\ ValidAsMined /\ [Next]_vars => IInv' /\ ValidAsMined'
  <1> SUFFICES ASSUME IInv, ValidAsMined, [Next]_vars
               PROVE  IInv' /\ ValidAsMined'
    OBVIOUS
  <1>1. CASE HashLevel
    <2>1. ~(Len(level) <= 1) /\ Reached(level, block.txs)
      BY <1>1 DEF HashLevel, Complete, IInv
    <2>2. Reached(NextLevel(level), block.txs)
      BY <2>1, ReachedStep
    <2>3. IInv'
      BY <1>1, <2>2 DEF SameHeader, HashLevel, IInv, IsBlock, BlockId
    <2>4. ValidAsMined'
      BY <1>1 DEF HashLevel, ValidAsMined
    <2> QED
      BY <2>3, <2>4
  <1>2. CASE Seal
    <2> DEFINE root == RootHash(level)
               b == [block EXCEPT !.root = root]
    <2>1. block' = [b EXCEPT !.id = BlockId(b)] /\ mined' = block' /\ stage' = "sent"
      BY <1>2 DEF Seal
    <2>2. Reached(level, block.txs) /\ Len(level) <= 1
      BY <1>2 DEF Seal, IInv, Complete
    <2>3. Rooted(block.txs, root)
      BY <2>2 DEF Rooted
    <2> HIDE DEF root
    <2>4. IsBlock(block') /\ IsBlock(mined')
      BY <2>1 DEF IInv, IsBlock
    <2>5. /\ block'.txs = block.txs /\ block'.root = root
          /\ block'.id = BlockId(block')
      BY <2>1 DEF IInv, IsBlock, BlockId
    <2>6. SameHeader'
      BY <2>1, <2>4 DEF SameHeader, IsBlock
    <2>7. IInv'
      BY <2>1, <2>3, <2>4, <2>5, <2>6 DEF IInv, BlockId
    <2>8. ValidAsMined'
      BY <2>1 DEF ValidAsMined
    <2> QED
      BY <2>7, <2>8
  <1>3. CASE Arrive
    <2>1. /\ block = mined /\ block.id = BlockId(block) /\ IsBlock(block)
          /\ Rooted(mined.txs, mined.root)
      BY <1>3 DEF Arrive, IInv
    <2>2. block' \in Arriving /\ stage' = "checking" /\ mined' = mined
      BY <1>3 DEF Arrive
    <2>3. /\ IsBlock(block')
          /\ block'.id = BlockId(block') => [block' EXCEPT !.txs = block.txs, !.time = block.time] = block
      BY <2>1, <2>2, ArrivesBound
    <2>4. Reached(level', block'.txs)
      <3>1. block'.txs \in Seq(Txs)
        BY <2>3 DEF IsBlock
      <3> QED
        BY <1>3, <3>1, ReachedLeaves DEF Arrive
    <2>5. IInv'
      BY <2>1, <2>2, <2>3, <2>4 DEF SameHeader, IInv, BlockId
    <2>6. ValidAsMined'
      BY <2>2 DEF ValidAsMined
    <2> QED
      BY <2>5, <2>6
  <1>4. CASE ValidateBlock
    <2>1. /\ Reached(level, block.txs) /\ Len(level) <= 1
          /\ Rooted(mined.txs, mined.root) /\ mined.id = BlockId(mined)
      BY <1>4 DEF ValidateBlock, IInv, Complete
    <2>2. IInv'
      BY <1>4 DEF SameHeader, ValidateBlock, IInv, IsBlock, BlockId
    <2>3. ASSUME IdChecked, RootHash(level) = block.root
          PROVE  SameHeader /\ SameTxs(block.txs, mined.txs)
      <3>1. SameHeader
        BY <1>4, <2>3 DEF ValidateBlock, IdChecked, IInv
      <3>2. block.root = mined.root
        BY <3>1 DEF SameHeader, IInv, IsBlock
      <3>3. Rooted(block.txs, block.root)
        BY <2>1, <2>3 DEF Rooted
      <3>4. block.txs \in Seq(Txs) /\ mined.txs \in Seq(Txs)
        BY DEF IInv, IsBlock
      <3>5. SameTxs(block.txs, mined.txs)
        BY <2>1, <3>2, <3>3, <3>4, RootsAgree
      <3> QED
        BY <3>1, <3>5
    <2>4. ASSUME block = mined, ToSet(mined.txs) \subseteq Signed, mined.nonce \in Solving
          PROVE  IdChecked /\ RootHash(level) = block.root
      <3>1. IdChecked
        BY <2>1, <2>4 DEF IdChecked
      <3>2. PICK hashes : /\ Reached(hashes, mined.txs) /\ Len(hashes) <= 1
                          /\ mined.root = RootHash(hashes)
        BY <2>1 DEF Rooted
      <3>3. hashes = level
        BY <2>1, <2>4, <3>2, RootDetermined
      <3> QED
        BY <2>4, <3>1, <3>2, <3>3
    <2>5. ValidAsMined'
      BY <1>4, <2>3, <2>4 DEF SameHeader, ValidateBlock, ValidAsMined
    <2> QED
      BY <2>2, <2>5
  <1>5. CASE VerifyBlockIntegrity
    <2>1. IInv'
      BY <1>5 DEF SameHeader, VerifyBlockIntegrity, IInv, IsBlock, BlockId
    <2>2. IdChecked => SameHeader
      BY <1>5 DEF VerifyBlockIntegrity, IInv, IdChecked
    <2>3. block = mined /\ ToSet(mined.txs) \subseteq Signed /\ mined.nonce \in Solving
             => IdChecked
      BY <1>5 DEF VerifyBlockIntegrity, IInv, IdChecked
    <2>4. ValidAsMined'
      BY <1>5, <2>2, <2>3 DEF SameHeader, VerifyBlockIntegrity, ValidAsMined
    <2> QED
      BY <2>1, <2>4
  <1>6. CASE UNCHANGED vars
    BY <1>6 DEF SameHeader, vars, IInv, ValidAsMined, IsBlock, BlockId
  <1>7. CASE Decided
    BY <1>6, <1>7 DEF Decided
  <1> QED
    BY <1>1, <1>2, <1>3, <1>4, <1>5, <1>6, <1>7 DEF Next

\* lib_chain/src/block.rs:23 and :707: whatever the transactions and however many
\* of them, a block that passes a check has the header it was mined with, and past
\* validate_block the transactions of the mined block; and a block that arrives as
\* it was mined is refused only for a signature or for its nonce.
THEOREM MinedAsValidated == Spec => []ValidAsMined
  <1>1. Init => IInv /\ ValidAsMined
    BY InitIInv
  <1>2. IInv /\ ValidAsMined /\ [Next]_vars => IInv' /\ ValidAsMined'
    BY StepIInv
  <1> QED
    BY <1>1, <1>2, PTL DEF Spec
=============================================================================
