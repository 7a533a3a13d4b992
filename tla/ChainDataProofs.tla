-------------------------- MODULE ChainDataProofs --------------------------
(***************************************************************************)
(* Lemmas about the data that several components share: induction over an  *)
(* interval, functions defined by recursion over one, and the paths from   *)
(* the genesis block.                                                      *)
(*                                                                         *)
(* The induction comes from a theorem about finite sets: of the sets 1..n, *)
(* for n in a set of numbers, one has no other one inside, and its n is    *)
(* the least number.                                                       *)
(***************************************************************************)
EXTENDS ChainData, FiniteSetTheorems, WellFoundedInduction, TLAPS

-----------------------------------------------------------------------------
(* Induction and recursion                                                 *)

\* A set of natural numbers that is not empty has a least element.
LEMMA LeastNat ==
    ASSUME NEW T \in SUBSET Nat, T # {}
    PROVE  \E n \in T : \A m \in T : n <= m
  <1> DEFINE U == {1..n : n \in T}
  <1>1. IsWellFoundedOn(StrictSubsetOrdering(Nat), FiniteSubsetsOf(Nat))
    BY FS_StrictSubsetOrderingWellFounded
  <1>2. U \subseteq FiniteSubsetsOf(Nat)
    <2>1. \A n \in T : IsFiniteSet(1..n)
      BY FS_Interval
    <2>2. \A n \in T : 1..n \subseteq Nat
      OBVIOUS
    <2> QED
      BY <2>1, <2>2 DEF FiniteSubsetsOf
  <1>3. U # {}
    OBVIOUS
  <1>4. PICK X \in U : \A Y \in U : <<Y, X>> \notin StrictSubsetOrdering(Nat)
    <2> HIDE DEF U
    <2> QED
      BY <1>1, <1>2, <1>3, WFMin, Zenon
  <1>5. PICK n \in T : X = 1..n
    OBVIOUS
  <1>6. ASSUME NEW m \in T, ~(n <= m)
        PROVE  FALSE
    <2>1. m \in Nat /\ n \in Nat /\ m < n
      BY <1>6
    <2>2. n \in 1..n /\ n \notin 1..m
      BY <2>1
    <2>3. 1..m \subseteq 1..n /\ 1..m # 1..n
      BY <2>1, <2>2
    <2>4. 1..m \in SUBSET Nat /\ 1..n \in SUBSET Nat
      BY <2>1
    <2>5. <<1..m, 1..n>> \in StrictSubsetOrdering(Nat)
      BY <2>3, <2>4 DEF StrictSubsetOrdering
    <2> QED
      BY <2>5, <1>4, <1>5
  <1> QED
    BY <1>6

\* What holds of 0, and of a number when it holds of the one before, holds of
\* all numbers of the interval.
LEMMA IntervalInduction ==
    ASSUME NEW n \in Nat, NEW S,
           0 \in S,
           \A i \in 1..n : i - 1 \in S => i \in S
    PROVE  0..n \subseteq S
  <1> DEFINE T == {i \in 0..n : i \notin S}
  <1>1. SUFFICES ASSUME T # {} PROVE FALSE
    OBVIOUS
  <1>2. PICK k \in T : \A m \in T : k <= m
    <2>1. T \in SUBSET Nat
      OBVIOUS
    <2> HIDE DEF T
    <2> QED
      BY <1>1, <2>1, LeastNat
  <1>3. k \in 1..n /\ k - 1 \in 0..n
    OBVIOUS
  <1>4. k - 1 \notin T
    BY <1>2, <1>3
  <1> QED
    BY <1>3, <1>4

\* f is the function on 0..n whose first value is base and whose every other value
\* is computed by step from the one before.
Recursive(f, n, V, base, step) ==
    /\ f \in [0..n -> V]
    /\ f[0] = base
    /\ \A i \in 1..n : f[i] = step[<<i, f[i - 1]>>]

\* There is such a function.
LEMMA RecursionExists ==
    ASSUME NEW n \in Nat, NEW V, NEW base \in V, NEW step \in [(1..n) \X V -> V]
    PROVE  \E f : Recursive(f, n, V, base, step)
  <1> DEFINE S == {k \in 0..n : \E f : Recursive(f, k, V, base, step)}
  <1>1. 0 \in S
    <2> DEFINE f == [i \in 0..0 |-> base]
    <2>1. Recursive(f, 0, V, base, step) /\ 0 \in 0..n
      BY DEF Recursive
    <2> QED
      BY <2>1
  <1>2. ASSUME NEW k \in 1..n, k - 1 \in S
        PROVE  k \in S
    <2>1. PICK f : Recursive(f, k - 1, V, base, step)
      BY <1>2
    <2>0. /\ f \in [0..(k - 1) -> V] /\ f[0] = base
          /\ \A i \in 1..(k - 1) : f[i] = step[<<i, f[i - 1]>>]
      BY <2>1 DEF Recursive
    <2> DEFINE last == step[<<k, f[k - 1]>>]
               g == [i \in 0..k |-> IF i = k THEN last ELSE f[i]]
    <2>2. <<k, f[k - 1]>> \in (1..n) \X V
      BY <2>0
    <2>3. last \in V
      BY <2>2
    <2>4. g \in [0..k -> V]
      BY <2>0, <2>3
    <2>5. g[0] = base
      BY <2>0
    <2>6. ASSUME NEW i \in 1..k
          PROVE  g[i] = step[<<i, g[i - 1]>>]
      <3>1. i - 1 \in 0..k /\ i - 1 # k /\ g[i - 1] = f[i - 1]
        OBVIOUS
      <3>2. CASE i = k
        BY <3>1, <3>2
      <3>3. CASE i # k
        <4>1. i \in 1..(k - 1)
          BY <3>3
        <4> QED
          BY <4>1, <3>1, <3>3, <2>0
      <3> QED
        BY <3>2, <3>3
    <2> HIDE DEF g
    <2>7. Recursive(g, k, V, base, step)
      BY <2>4, <2>5, <2>6 DEF Recursive
    <2> QED
      BY <2>7
  <1> HIDE DEF S
  <1>3. 0..n \subseteq S
    BY <1>1, <1>2, IntervalInduction
  <1> QED
    BY <1>3 DEF S

-----------------------------------------------------------------------------
(* Paths                                                                   *)

LEMMA BlockFields ==
    ASSUME NEW b \in Blocks
    PROVE  /\ BlockNode[b].parent \in BlockIds
           /\ BlockNode[b].txs \in Seq(Txs)
           /\ b # RootId
           /\ b \in BlockIds
  BY BlocksAssumption DEF BlockRecord, BlockIds

\* The path to a block is the path to its parent and the block itself.
LEMMA StepPath ==
    ASSUME NEW b \in Blocks, NEW p, p = BlockNode[b].parent
    PROVE  /\ Len(PathTo[p]) \in Nat
           /\ Len(PathTo[b]) = Len(PathTo[p]) + 1
           /\ PathTo[b][Len(PathTo[b])] = b
           /\ \A i \in 1..Len(PathTo[p]) : PathTo[b][i] = PathTo[p][i]
  <1>1. p \in BlockIds /\ b \in BlockIds
    BY BlockFields
  <1>2. PathTo[p] \in Seq(BlockIds) /\ PathTo[b] = Append(PathTo[p], b)
    BY <1>1, BlocksAssumption
  <1> QED
    BY <1>1, <1>2

\* A path is not empty and ends in its block.
LEMMA PathEnd ==
    ASSUME NEW b \in BlockIds
    PROVE  /\ Len(PathTo[b]) \in Nat \ {0}
           /\ PathTo[b][Len(PathTo[b])] = b
           /\ b = RootId <=> Len(PathTo[b]) = 1
  <1>0. /\ \A c \in BlockIds : PathTo[c] \in Seq(BlockIds)
        /\ PathTo[RootId] = <<RootId>>
    BY BlocksAssumption
  <1>1. CASE b = RootId
    <2>1. Len(<<RootId>>) = 1 /\ <<RootId>>[1] = RootId
      OBVIOUS
    <2>2. PathTo[b] = <<RootId>>
      BY <1>0, <1>1
    <2>3. Len(PathTo[b]) = 1 /\ PathTo[b][1] = b
      BY <2>1, <2>2, <1>1
    <2> QED
      BY <2>3, <1>1
  <1>2. CASE b \in Blocks
    <2> DEFINE p == BlockNode[b].parent
    <2>1. p \in BlockIds /\ b # RootId
      BY <1>2, BlockFields
    <2>2. /\ Len(PathTo[p]) \in Nat
          /\ Len(PathTo[b]) = Len(PathTo[p]) + 1
          /\ PathTo[b][Len(PathTo[b])] = b
      BY <1>2, StepPath
    <2>3. Len(PathTo[p]) >= 1
      <3>1. CASE p = RootId
        <4>1. Len(<<RootId>>) = 1
          OBVIOUS
        <4> QED
          BY <3>1, <4>1, <1>0
      <3>2. CASE p \in Blocks
        <4> DEFINE q == BlockNode[p].parent
        <4> QED
          BY <3>2, StepPath
      <3> QED
        BY <2>1, <3>1, <3>2 DEF BlockIds
    <2> QED
      BY <2>1, <2>2, <2>3
  <1> QED
    BY <1>1, <1>2 DEF BlockIds

\* The path to a block on a path is the beginning of it: it has the length at
\* which the block stands, and the same blocks up to there.
LEMMA PathBeginning ==
    ASSUME NEW b \in BlockIds, NEW i \in 1..Len(PathTo[b])
    PROVE  /\ PathTo[b][i] \in BlockIds
           /\ Len(PathTo[PathTo[b][i]]) = i
           /\ \A j \in 1..i : PathTo[PathTo[b][i]][j] = PathTo[b][j]
  <1> DEFINE Begins(c) ==
                \A k \in 1..Len(PathTo[c]) :
                    /\ Len(PathTo[PathTo[c][k]]) = k
                    /\ \A j \in 1..k : PathTo[PathTo[c][k]][j] = PathTo[c][j]
             S == {n \in Nat : \A c \in BlockIds : Len(PathTo[c]) = n => Begins(c)}
  <1>1. 0 \in S
    BY PathEnd
  <1>2. ASSUME NEW n \in Nat \ {0}, n - 1 \in S, NEW c \in BlockIds, Len(PathTo[c]) = n
        PROVE  Begins(c)
    <2>0. PathTo[c][n] = c
      BY <1>2, PathEnd
    <2>1. CASE c = RootId
      <3>1. n = 1
        BY <1>2, <2>1, PathEnd
      <3>2. PathTo[c][1] = c
        BY <2>0, <3>1
      <3> QED
        BY <1>2, <3>1, <3>2
    <2>2. CASE c \in Blocks
      <3> DEFINE p == BlockNode[c].parent
      <3>1. /\ p \in BlockIds
            /\ Len(PathTo[p]) \in Nat
            /\ n = Len(PathTo[p]) + 1
            /\ \A k \in 1..Len(PathTo[p]) : PathTo[c][k] = PathTo[p][k]
        BY <1>2, <2>2, BlockFields, StepPath
      <3>2. Begins(p)
        BY <1>2, <3>1
      <3>3. ASSUME NEW k \in 1..n
            PROVE  /\ Len(PathTo[PathTo[c][k]]) = k
                   /\ \A j \in 1..k : PathTo[PathTo[c][k]][j] = PathTo[c][j]
        <4>1. CASE k = n
          BY <4>1, <2>0, <1>2
        <4>2. CASE k # n
          <5>1. k \in 1..Len(PathTo[p])
            BY <3>1, <4>2
          <5>2. PathTo[c][k] = PathTo[p][k]
            BY <3>1, <5>1
          <5>3. /\ Len(PathTo[PathTo[p][k]]) = k
                /\ \A j \in 1..k : PathTo[PathTo[p][k]][j] = PathTo[p][j]
            BY <3>2, <5>1
          <5>4. \A j \in 1..k : PathTo[c][j] = PathTo[p][j]
            BY <3>1, <5>1
          <5> QED
            BY <5>2, <5>3, <5>4
        <4> QED
          BY <4>1, <4>2
      <3> QED
        BY <3>3, <1>2
    <2> QED
      BY <2>1, <2>2 DEF BlockIds
  <1> HIDE DEF Begins
  <1>3. \A n \in Nat \ {0} : n - 1 \in S => n \in S
    BY <1>2
  <1>4. Len(PathTo[b]) \in Nat
    BY PathEnd
  <1> HIDE DEF S
  <1>5. Len(PathTo[b]) \in S
    <2> DEFINE n == Len(PathTo[b])
    <2> HIDE DEF n
    <2>1. n \in Nat /\ n \in 0..n
      BY <1>4 DEF n
    <2>2. \A k \in 1..n : k - 1 \in S => k \in S
      BY <1>3, <2>1
    <2>3. 0..n \subseteq S
      BY <1>1, <2>1, <2>2, IntervalInduction
    <2> QED
      BY <2>1, <2>3 DEF n
  <1>6. Begins(b)
    BY <1>5, <1>4 DEF S
  <1>7. PathTo[b][i] \in BlockIds
    BY BlocksAssumption
  <1> QED
    BY <1>6, <1>7 DEF Begins

\* A block is on a path exactly at its own distance from the start, and then its
\* path is the beginning of that one.
LEMMA OnPathBeginning ==
    ASSUME NEW a \in BlockIds, NEW b \in BlockIds
    PROVE  /\ OnPath(a, b) <=> /\ Len(PathTo[a]) <= Len(PathTo[b])
                               /\ PathTo[b][Len(PathTo[a])] = a
           /\ OnPath(a, b) => \A j \in 1..Len(PathTo[a]) : PathTo[a][j] = PathTo[b][j]
  <1>1. /\ Len(PathTo[a]) \in Nat \ {0} /\ Len(PathTo[b]) \in Nat \ {0}
        /\ DOMAIN PathTo[b] = 1..Len(PathTo[b])
    BY PathEnd, BlocksAssumption
  <1>2. ASSUME NEW i \in 1..Len(PathTo[b]), PathTo[b][i] = a
        PROVE  Len(PathTo[a]) = i /\ \A j \in 1..i : PathTo[a][j] = PathTo[b][j]
    BY <1>2, PathBeginning
  <1> QED
    BY <1>1, <1>2 DEF OnPath

\* On a path, the parent of a block is the block before it.
LEMMA PathStep ==
    ASSUME NEW b \in BlockIds, NEW i \in 2..Len(PathTo[b])
    PROVE  /\ PathTo[b][i] \in Blocks
           /\ BlockNode[PathTo[b][i]].parent = PathTo[b][i - 1]
  <1> DEFINE x == PathTo[b][i]
             p == BlockNode[x].parent
  <1>1. Len(PathTo[b]) \in Nat
    BY PathEnd
  <1>2. /\ x \in BlockIds /\ Len(PathTo[x]) = i
        /\ \A j \in 1..i : PathTo[x][j] = PathTo[b][j]
    BY <1>1, PathBeginning
  <1>3. x \in Blocks
    BY <1>2, PathEnd DEF BlockIds
  <1> HIDE DEF x
  <1>4. /\ Len(PathTo[p]) = i - 1
        /\ \A j \in 1..(i - 1) : PathTo[x][j] = PathTo[p][j]
    BY <1>2, <1>3, StepPath
  <1>5. PathTo[p][i - 1] = p
    BY <1>3, <1>4, BlockFields, PathEnd
  <1> QED
    BY <1>2, <1>3, <1>4, <1>5 DEF x

\* Every path starts at the genesis block.
LEMMA PathStart ==
    ASSUME NEW b \in BlockIds
    PROVE  /\ PathTo[b][1] = RootId
           /\ OnPath(RootId, b)
  <1>1. 1 \in 1..Len(PathTo[b]) /\ DOMAIN PathTo[b] = 1..Len(PathTo[b])
    BY PathEnd, BlocksAssumption
  <1>2. PathTo[b][1] \in BlockIds /\ Len(PathTo[PathTo[b][1]]) = 1
    BY <1>1, PathBeginning
  <1>3. PathTo[b][1] = RootId
    BY <1>2, PathEnd
  <1> QED
    BY <1>1, <1>3 DEF OnPath

LEMMA OnPathReflexive ==
    ASSUME NEW b \in BlockIds
    PROVE  OnPath(b, b)
  BY PathEnd, OnPathBeginning

LEMMA OnPathTransitive ==
    ASSUME NEW a \in BlockIds, NEW b \in BlockIds, NEW c \in BlockIds,
           OnPath(a, b), OnPath(b, c)
    PROVE  OnPath(a, c)
  <1>1. /\ Len(PathTo[a]) \in Nat \ {0} /\ Len(PathTo[b]) \in Nat \ {0}
        /\ Len(PathTo[c]) \in Nat \ {0}
    BY PathEnd
  <1>2. /\ Len(PathTo[a]) <= Len(PathTo[b]) /\ PathTo[b][Len(PathTo[a])] = a
        /\ Len(PathTo[b]) <= Len(PathTo[c])
        /\ \A j \in 1..Len(PathTo[b]) : PathTo[b][j] = PathTo[c][j]
    BY OnPathBeginning
  <1>3. Len(PathTo[a]) <= Len(PathTo[c]) /\ PathTo[c][Len(PathTo[a])] = a
    BY <1>1, <1>2
  <1> QED
    BY <1>3, OnPathBeginning

\* The blocks after a block on a path are the rest of the path.
LEMMA BlocksAfterRest ==
    ASSUME NEW a \in BlockIds, NEW b \in BlockIds, OnPath(a, b)
    PROVE  /\ BlocksAfter(a, b) \in Seq(BlockIds)
           /\ Len(BlocksAfter(a, b)) = Len(PathTo[b]) - Len(PathTo[a])
           /\ \A i \in 1..Len(BlocksAfter(a, b)) :
                 BlocksAfter(a, b)[i] = PathTo[b][Len(PathTo[a]) + i]
           /\ ToSet(PathTo[b]) = ToSet(PathTo[a]) \cup ToSet(BlocksAfter(a, b))
           /\ BlocksAfter(a, b) # <<>> => Last(BlocksAfter(a, b)) = b
           /\ BlocksAfter(a, b) = <<>> => a = b
           /\ \A x \in ToSet(BlocksAfter(a, b)) : x \in Blocks
           /\ BlocksAfter(a, b) # <<>> => BlockNode[BlocksAfter(a, b)[1]].parent = a
  <1> DEFINE p == PathTo[a]
             q == PathTo[b]
             m == Len(p)
             n == Len(q)
             r == BlocksAfter(a, b)
  <1>1. p \in Seq(BlockIds) /\ q \in Seq(BlockIds)
    BY BlocksAssumption
  <1>2. m \in Nat \ {0} /\ n \in Nat \ {0} /\ m <= n /\ q[m] = a /\ q[n] = b
    BY PathEnd, OnPathBeginning
  <1>3. \A j \in 1..m : p[j] = q[j]
    BY OnPathBeginning
  <1>4. r = SubSeq(q, m + 1, n)
    BY DEF BlocksAfter
  <1> HIDE DEF p, q, r, m, n
  <1>5. r \in Seq(BlockIds) /\ Len(r) = n - m /\ \A i \in 1..(n - m) : r[i] = q[m + i]
    <2>1. m + 1 \in 1..(n + 1) /\ n \in 0..n /\ \A i \in (m + 1)..n : q[i] \in BlockIds
      BY <1>1, <1>2 DEF n
    <2> QED
      BY <1>1, <1>2, <1>4, <2>1
  <1>6. DOMAIN p = 1..m /\ DOMAIN q = 1..n /\ DOMAIN r = 1..(n - m)
    BY <1>1, <1>5 DEF m, n
  <1>7. ToSet(q) = ToSet(p) \cup ToSet(r)
    <2>1. ASSUME NEW i \in 1..n
          PROVE  q[i] \in ToSet(p) \cup ToSet(r)
      <3>1. CASE i <= m
        BY <3>1, <1>2, <1>3, <1>6 DEF ToSet
      <3>2. CASE i > m
        <4>1. i - m \in 1..(n - m) /\ m + (i - m) = i
          BY <3>2, <1>2
        <4>2. r[i - m] = q[i]
          BY <4>1, <1>5
        <4> QED
          BY <4>1, <4>2, <1>6 DEF ToSet
      <3> QED
        BY <3>1, <3>2, <1>2
    <2>2. ASSUME NEW i \in 1..m
          PROVE  p[i] \in ToSet(q)
      BY <1>2, <1>3, <1>6 DEF ToSet
    <2>3. ASSUME NEW i \in 1..(n - m)
          PROVE  r[i] \in ToSet(q)
      <3>1. m + i \in 1..n
        BY <1>2
      <3> QED
        BY <3>1, <1>5, <1>6 DEF ToSet
    <2> QED
      BY <2>1, <2>2, <2>3, <1>6 DEF ToSet
  <1>8. r # <<>> => Last(r) = b
    <2>1. SUFFICES ASSUME r # <<>> PROVE Last(r) = b
      OBVIOUS
    <2>2. n - m \in 1..(n - m) /\ m + (n - m) = n
      BY <2>1, <1>5, <1>2
    <2>3. r[n - m] = q[n]
      BY <2>2, <1>5
    <2> QED
      BY <2>3, <1>2, <1>5 DEF Last
  <1>9. r = <<>> => a = b
    <2>1. SUFFICES ASSUME r = <<>> PROVE a = b
      OBVIOUS
    <2>2. n = m
      BY <2>1, <1>5, <1>2
    <2> QED
      BY <2>2, <1>2
  <1>10. ASSUME NEW i \in 1..(n - m)
         PROVE  r[i] \in Blocks /\ BlockNode[r[i]].parent = q[m + i - 1]
    <2> DEFINE k == m + i
    <2>1. k \in 2..n
      BY <1>2
    <2>2. r[i] = q[k]
      BY <1>5
    <2> HIDE DEF k
    <2>3. q[k] \in Blocks /\ BlockNode[q[k]].parent = q[k - 1]
      BY <2>1, PathStep DEF q, n
    <2>4. r[i] \in Blocks
      BY <2>2, <2>3
    <2>5. BlockNode[r[i]].parent = q[k - 1]
      BY <2>2, <2>3
    <2>6. k - 1 = m + i - 1
      BY <1>2 DEF k
    <2> QED
      BY <2>4, <2>5, <2>6
  <1>11. \A x \in ToSet(r) : x \in Blocks
    BY <1>6, <1>10 DEF ToSet
  <1>12. r # <<>> => BlockNode[r[1]].parent = a
    <2>1. SUFFICES ASSUME r # <<>> PROVE BlockNode[r[1]].parent = a
      OBVIOUS
    <2>2. 1 \in 1..(n - m) /\ m + 1 - 1 = m
      BY <2>1, <1>5, <1>2
    <2>3. BlockNode[r[1]].parent = q[m + 1 - 1]
      BY <2>2, <1>10
    <2> QED
      BY <2>2, <2>3, <1>2
  <1> QED
    BY <1>5, <1>7, <1>8, <1>9, <1>11, <1>12 DEF p, q, r, m, n

\* Above the genesis block there is all the rest of a path.
LEMMA BlocksAfterRoot ==
    ASSUME NEW b \in BlockIds
    PROVE  /\ BlocksAfter(RootId, b) \in Seq(BlockIds)
           /\ ToSet(BlocksAfter(RootId, b)) = ToSet(PathTo[b]) \ {RootId}
  <1>1. RootId \in BlockIds /\ OnPath(RootId, b)
    BY PathStart DEF BlockIds
  <1>2. /\ BlocksAfter(RootId, b) \in Seq(BlockIds)
        /\ ToSet(PathTo[b]) = ToSet(PathTo[RootId]) \cup ToSet(BlocksAfter(RootId, b))
        /\ \A x \in ToSet(BlocksAfter(RootId, b)) : x \in Blocks
    BY <1>1, BlocksAfterRest
  <1>3. RootId \notin Blocks /\ PathTo[RootId] = <<RootId>>
    BY BlocksAssumption
  <1>4. ToSet(<<RootId>>) = {RootId}
    BY DEF ToSet
  <1> QED
    BY <1>2, <1>3, <1>4

-----------------------------------------------------------------------------
(* Balances                                                                *)

Balances == [Users -> Int]

\* A loop whose body leads from a value of its type to the next one stays in it.
LEMMA LoopTyped ==
    ASSUME NEW n \in Nat, NEW V, NEW loop, loop[0] \in V,
           \A i \in 1..n : loop[i - 1] \in V => loop[i] \in V
    PROVE  \A i \in 0..n : loop[i] \in V
  <1> DEFINE S == {i \in 0..n : loop[i] \in V}
  <1>1. 0 \in S
    OBVIOUS
  <1>2. \A i \in 1..n : i - 1 \in S => i \in S
    OBVIOUS
  <1> HIDE DEF S
  <1>3. 0..n \subseteq S
    BY <1>1, <1>2, IntervalInduction
  <1> QED
    BY <1>3 DEF S

\* A transaction changes every balance by the same amount whatever it is.
LEMMA TransferChanges ==
    ASSUME NEW balance \in Balances, NEW t \in Txs
    PROVE  /\ Transfer(balance, t) \in Balances
           /\ \A other \in Balances, u \in Users :
                 Transfer(other, t)[u] - Transfer(balance, t)[u] = other[u] - balance[u]
  <1> DEFINE s == Transaction[t].sender
             r == Transaction[t].receiver
             n == Transaction[t].amount
  <1>1. s \in Users /\ r \in Users /\ n \in Int
    BY LedgerAssumption DEF TxRecord
  <1>2. ASSUME NEW any \in Balances
        PROVE  Transfer(any, t) = [[any EXCEPT ![s] = @ - n] EXCEPT ![r] = @ + n]
    BY DEF Transfer
  <1> HIDE DEF s, r, n
  <1>3. ASSUME NEW any \in Balances
        PROVE  /\ Transfer(any, t) \in Balances
               /\ \A u \in Users :
                     Transfer(any, t)[u] = IF s = r THEN any[u]
                                           ELSE IF u = s THEN any[u] - n
                                           ELSE IF u = r THEN any[u] + n ELSE any[u]
    BY <1>1, <1>2 DEF Balances
  <1>4. \A any \in Balances, u \in Users : any[u] \in Int
    BY DEF Balances
  <1> QED
    BY <1>1, <1>3, <1>4

\* The loop of Paid.
LEMMA PaidByLoop ==
    ASSUME NEW balance \in Balances, NEW txs \in Seq(Txs)
    PROVE  /\ Paid(balance, txs, 0) = balance
           /\ \A n \in 0..Len(txs) : Paid(balance, txs, n) \in Balances
           /\ \A n \in 1..Len(txs) :
                 Paid(balance, txs, n) = Transfer(Paid(balance, txs, n - 1), txs[n])
  <1> DEFINE k == Len(txs)
             step == [x \in (1..k) \X Balances |-> Transfer(x[2], txs[x[1]])]
             after == CHOOSE g : g = [i \in 0..k |->
                                         IF i = 0 THEN balance ELSE Transfer(g[i - 1], txs[i])]
  <1>1. \A n : Paid(balance, txs, n) = after[n]
    BY DEF Paid
  <1>2. k \in Nat /\ \A i \in 1..k : txs[i] \in Txs
    OBVIOUS
  <1> HIDE DEF k
  <1>3. step \in [(1..k) \X Balances -> Balances]
    BY <1>2, TransferChanges
  <1>4. PICK f \in [0..k -> Balances] :
            f[0] = balance /\ \A i \in 1..k : f[i] = step[<<i, f[i - 1]>>]
    <2> HIDE DEF step
    <2>1. \E f : Recursive(f, k, Balances, balance, step)
      BY <1>2, <1>3, RecursionExists
    <2> QED
      BY <2>1 DEF Recursive
  <1>5. f = [i \in 0..k |-> IF i = 0 THEN balance ELSE Transfer(f[i - 1], txs[i])]
    <2>1. f \in [0..k -> Balances] /\ f[0] = balance
      BY <1>4
    <2>2. ASSUME NEW i \in 1..k
          PROVE  f[i] = Transfer(f[i - 1], txs[i])
      <3>1. <<i, f[i - 1]>> \in (1..k) \X Balances
        BY <1>2
      <3> QED
        BY <1>4, <3>1
    <2>3. \A i \in 0..k : i # 0 => i \in 1..k
      BY <1>2
    <2> HIDE DEF step
    <2> QED
      BY <2>1, <2>2, <2>3
  <1>6. after = [i \in 0..k |-> IF i = 0 THEN balance ELSE Transfer(after[i - 1], txs[i])]
    BY <1>5
  <1> HIDE DEF after, step
  <1>7. after[0] = balance /\ \A i \in 1..k : after[i] = Transfer(after[i - 1], txs[i])
    BY <1>2, <1>6
  <1>8. \A i \in 0..k : after[i] \in Balances
    <2>1. \A i \in 1..k : after[i - 1] \in Balances => after[i] \in Balances
      BY <1>2, <1>7, TransferChanges
    <2> QED
      BY <1>2, <1>7, <2>1, LoopTyped
  <1> QED
    BY <1>1, <1>7, <1>8 DEF k

\* More money before the transactions is as much more after them.
LEMMA PaidShifts ==
    ASSUME NEW low \in Balances, NEW high \in Balances, NEW txs \in Seq(Txs),
           NEW n \in 0..Len(txs), NEW u \in Users
    PROVE  Paid(high, txs, n)[u] - Paid(low, txs, n)[u] = high[u] - low[u]
  <1> DEFINE k == Len(txs)
             S == {i \in 0..k : Paid(high, txs, i)[u] - Paid(low, txs, i)[u] = high[u] - low[u]}
  <1>1. k \in Nat /\ \A i \in 1..k : txs[i] \in Txs
    OBVIOUS
  <1>2. /\ Paid(low, txs, 0) = low /\ Paid(high, txs, 0) = high
        /\ \A i \in 0..k : Paid(low, txs, i) \in Balances /\ Paid(high, txs, i) \in Balances
        /\ \A i \in 1..k : /\ Paid(low, txs, i) = Transfer(Paid(low, txs, i - 1), txs[i])
                           /\ Paid(high, txs, i) = Transfer(Paid(high, txs, i - 1), txs[i])
    BY PaidByLoop
  <1> HIDE DEF k
  <1>3. 0 \in S
    BY <1>1, <1>2
  <1>4. ASSUME NEW i \in 1..k, i - 1 \in S
        PROVE  i \in S
    <2>1. i - 1 \in 0..k /\ i \in 0..k
      BY <1>1
    <2>2. Paid(high, txs, i)[u] - Paid(low, txs, i)[u]
              = Paid(high, txs, i - 1)[u] - Paid(low, txs, i - 1)[u]
      <3> DEFINE a == Paid(low, txs, i - 1)
                 b == Paid(high, txs, i - 1)
      <3>1. /\ a \in Balances /\ b \in Balances /\ txs[i] \in Txs
            /\ Paid(low, txs, i) = Transfer(a, txs[i])
            /\ Paid(high, txs, i) = Transfer(b, txs[i])
        BY <1>1, <1>2, <2>1
      <3> HIDE DEF a, b
      <3>2. Transfer(b, txs[i])[u] - Transfer(a, txs[i])[u] = b[u] - a[u]
        BY <3>1, TransferChanges
      <3> QED
        BY <3>1, <3>2 DEF a, b
    <2> QED
      BY <1>4, <2>1, <2>2
  <1> HIDE DEF S
  <1>5. 0..k \subseteq S
    BY <1>1, <1>3, <1>4, IntervalInduction
  <1> QED
    BY <1>5 DEF S, k

\* Who can pay can pay with more money, too.
LEMMA FundedWithMore ==
    ASSUME NEW low \in Balances, NEW high \in Balances, NEW txs \in Seq(Txs),
           \A u \in Users : low[u] <= high[u], Funded(low, txs)
    PROVE  Funded(high, txs)
  <1> SUFFICES ASSUME NEW i \in 1..Len(txs)
               PROVE  Paid(high, txs, i - 1)[Transaction[txs[i]].sender]
                          >= Transaction[txs[i]].amount
    BY DEF Funded, CanPay
  <1> DEFINE s == Transaction[txs[i]].sender
             n == Transaction[txs[i]].amount
  <1>1. Len(txs) \in Nat /\ i - 1 \in 0..Len(txs) /\ txs[i] \in Txs
    OBVIOUS
  <1>2. s \in Users /\ n \in Int
    BY <1>1, LedgerAssumption DEF TxRecord
  <1>3. Paid(low, txs, i - 1)[s] >= n
    BY DEF Funded, CanPay
  <1> HIDE DEF s, n
  <1>4. Paid(high, txs, i - 1)[s] - Paid(low, txs, i - 1)[s] = high[s] - low[s]
    BY <1>1, <1>2, PaidShifts
  <1>5. /\ Paid(low, txs, i - 1) \in Balances /\ Paid(high, txs, i - 1) \in Balances
        /\ low[s] <= high[s]
    BY <1>1, <1>2, PaidByLoop
  <1>6. Paid(high, txs, i - 1)[s] >= n
    BY <1>2, <1>3, <1>4, <1>5 DEF Balances
  <1> QED
    BY <1>6 DEF s, n

LEMMA PayTxsShifts ==
    ASSUME NEW low \in Balances, NEW high \in Balances, NEW b \in Blocks
    PROVE  /\ PayTxs(low, b) \in Balances
           /\ \A u \in Users : PayTxs(high, b)[u] - PayTxs(low, b)[u] = high[u] - low[u]
  <1> DEFINE txs == BlockNode[b].txs
  <1>1. txs \in Seq(Txs)
    BY BlockFields
  <1>2. /\ PayTxs(low, b) = Paid(low, txs, Len(txs))
        /\ PayTxs(high, b) = Paid(high, txs, Len(txs))
    BY DEF PayTxs
  <1> HIDE DEF txs
  <1>3. Len(txs) \in 0..Len(txs)
    BY <1>1
  <1>4. Paid(low, txs, Len(txs)) \in Balances
    BY <1>1, <1>3, PaidByLoop
  <1>5. ASSUME NEW u \in Users
        PROVE  Paid(high, txs, Len(txs))[u] - Paid(low, txs, Len(txs))[u] = high[u] - low[u]
    BY <1>1, <1>3, PaidShifts
  <1> QED
    BY <1>2, <1>4, <1>5

\* A mining reward is the same whatever the balances are, and is not negative.
LEMMA PayRewardShifts ==
    ASSUME NEW low \in Balances, NEW high \in Balances, NEW b \in Blocks
    PROVE  /\ PayReward(low, b) \in Balances
           /\ \A u \in Users : /\ PayReward(high, b)[u] - PayReward(low, b)[u] = high[u] - low[u]
                               /\ PayReward(low, b)[u] >= low[u]
  BY DEF PayReward, Balances, MiningReward

\* So is what a block leaves of a difference: nothing is lost or added.
LEMMA SettleShifts ==
    ASSUME NEW low \in Balances, NEW b \in Blocks
    PROVE  /\ Settle(low, b) \in Balances
           /\ Settle(low, b) = PayReward(PayTxs(low, b), b)
  <1>1. PayTxs(low, b) \in Balances
    BY PayTxsShifts
  <1> DEFINE paid == PayTxs(low, b)
  <1> HIDE DEF paid
  <1>2. paid \in Balances
    BY <1>1 DEF paid
  <1>3. PayReward(paid, b) \in Balances
    BY <1>2, PayRewardShifts
  <1> QED
    BY <1>3 DEF Settle, paid

LEMMA LoopExists ==
    ASSUME NEW k \in Nat, NEW base \in Balances,
           NEW step \in [(1..k) \X Balances -> Balances]
    PROVE  \E f \in [0..k -> Balances] :
              f[0] = base /\ \A i \in 1..k : f[i] = step[<<i, f[i - 1]>>]
  <1>1. \E f : Recursive(f, k, Balances, base, step)
    BY RecursionExists
  <1> QED
    BY <1>1 DEF Recursive

LEMMA PayBlocksByLoop ==
    ASSUME NEW base \in Balances, NEW blocks \in Seq(Blocks)
    PROVE  /\ PayBlocks(base, blocks) \in Balances
           /\ \E after \in [0..Len(blocks) -> Balances] :
                 /\ after[0] = base
                 /\ \A i \in 1..Len(blocks) : after[i] = PayTxs(after[i - 1], blocks[i])
                 /\ PayBlocks(base, blocks) = after[Len(blocks)]
  <1> DEFINE k == Len(blocks)
             step == [x \in (1..k) \X Balances |-> PayTxs(x[2], blocks[x[1]])]
             after == CHOOSE g : g = [i \in 0..k |->
                                         IF i = 0 THEN base ELSE PayTxs(g[i - 1], blocks[i])]
  <1>1. PayBlocks(base, blocks) = after[k]
    BY DEF PayBlocks
  <1>2. k \in Nat /\ \A i \in 1..k : blocks[i] \in Blocks
    OBVIOUS
  <1> HIDE DEF k
  <1>3. step \in [(1..k) \X Balances -> Balances]
    BY <1>2, PayTxsShifts
  <1>4. PICK f \in [0..k -> Balances] :
            f[0] = base /\ \A i \in 1..k : f[i] = step[<<i, f[i - 1]>>]
    <2> HIDE DEF step
    <2> QED
      BY <1>2, <1>3, LoopExists
  <1>5. \A i \in 1..k : f[i] = PayTxs(f[i - 1], blocks[i])
    <2>1. ASSUME NEW i \in 1..k
          PROVE  f[i] = PayTxs(f[i - 1], blocks[i])
      <3>1. <<i, f[i - 1]>> \in (1..k) \X Balances
        BY <1>2
      <3> QED
        BY <1>4, <3>1
    <2> QED
      BY <2>1
  <1> HIDE DEF step
  <1>6. f = [i \in 0..k |-> IF i = 0 THEN base ELSE PayTxs(f[i - 1], blocks[i])]
    <2>1. \A i \in 0..k : i # 0 => i \in 1..k
      BY <1>2
    <2> QED
      BY <1>4, <1>5, <2>1
  <1>7. after = [i \in 0..k |-> IF i = 0 THEN base ELSE PayTxs(after[i - 1], blocks[i])]
    BY <1>6
  <1> HIDE DEF after
  <1>8. after[0] = base /\ \A i \in 1..k : after[i] = PayTxs(after[i - 1], blocks[i])
    BY <1>2, <1>7
  <1>9. \A i \in 0..k : after[i] \in Balances
    <2>1. \A i \in 1..k : after[i - 1] \in Balances => after[i] \in Balances
      BY <1>2, <1>8, PayTxsShifts
    <2> QED
      BY <1>2, <1>8, <2>1, LoopTyped
  <1>10. after \in [0..k -> Balances] /\ after[k] \in Balances
    BY <1>2, <1>7, <1>9
  <1> QED
    BY <1>1, <1>8, <1>10 DEF k

LEMMA PayRewardsByLoop ==
    ASSUME NEW base \in Balances, NEW blocks \in Seq(Blocks)
    PROVE  /\ PayRewards(base, blocks) \in Balances
           /\ \E after \in [0..Len(blocks) -> Balances] :
                 /\ after[0] = base
                 /\ \A i \in 1..Len(blocks) : after[i] = PayReward(after[i - 1], blocks[i])
                 /\ PayRewards(base, blocks) = after[Len(blocks)]
  <1> DEFINE k == Len(blocks)
             step == [x \in (1..k) \X Balances |-> PayReward(x[2], blocks[x[1]])]
             after == CHOOSE g : g = [i \in 0..k |->
                                         IF i = 0 THEN base ELSE PayReward(g[i - 1], blocks[i])]
  <1>1. PayRewards(base, blocks) = after[k]
    BY DEF PayRewards
  <1>2. k \in Nat /\ \A i \in 1..k : blocks[i] \in Blocks
    OBVIOUS
  <1> HIDE DEF k
  <1>3. step \in [(1..k) \X Balances -> Balances]
    BY <1>2, PayRewardShifts
  <1>4. PICK f \in [0..k -> Balances] :
            f[0] = base /\ \A i \in 1..k : f[i] = step[<<i, f[i - 1]>>]
    <2> HIDE DEF step
    <2> QED
      BY <1>2, <1>3, LoopExists
  <1>5. \A i \in 1..k : f[i] = PayReward(f[i - 1], blocks[i])
    <2>1. ASSUME NEW i \in 1..k
          PROVE  f[i] = PayReward(f[i - 1], blocks[i])
      <3>1. <<i, f[i - 1]>> \in (1..k) \X Balances
        BY <1>2
      <3> QED
        BY <1>4, <3>1
    <2> QED
      BY <2>1
  <1> HIDE DEF step
  <1>6. f = [i \in 0..k |-> IF i = 0 THEN base ELSE PayReward(f[i - 1], blocks[i])]
    <2>1. \A i \in 0..k : i # 0 => i \in 1..k
      BY <1>2
    <2> QED
      BY <1>4, <1>5, <2>1
  <1>7. after = [i \in 0..k |-> IF i = 0 THEN base ELSE PayReward(after[i - 1], blocks[i])]
    BY <1>6
  <1> HIDE DEF after
  <1>8. after[0] = base /\ \A i \in 1..k : after[i] = PayReward(after[i - 1], blocks[i])
    BY <1>2, <1>7
  <1>9. \A i \in 0..k : after[i] \in Balances
    <2>1. \A i \in 1..k : after[i - 1] \in Balances => after[i] \in Balances
      BY <1>2, <1>8, PayRewardShifts
    <2> QED
      BY <1>2, <1>8, <2>1, LoopTyped
  <1>10. after \in [0..k -> Balances] /\ after[k] \in Balances
    BY <1>2, <1>7, <1>9
  <1> QED
    BY <1>1, <1>8, <1>10 DEF k
\* The loop of LedgerAt.
IsLedger(after, b) ==
    /\ after \in [0..Depth(b) -> Balances]
    /\ after[0] = GenesisBalance
    /\ \A i \in 1..Depth(b) : after[i] = Settle(after[i - 1], PathTo[b][i + 1])

LEMMA LedgerByLoop ==
    ASSUME NEW b \in BlockIds
    PROVE  \E after : IsLedger(after, b) /\ LedgerAt(b) = after[Depth(b)]
  <1> DEFINE k == Depth(b)
             path == PathTo[b]
             base == GenesisBalance
             step == [x \in (1..k) \X Balances |-> Settle(x[2], path[x[1] + 1])]
             after == CHOOSE g : g = [i \in 0..k |->
                                         IF i = 0 THEN base ELSE Settle(g[i - 1], path[i + 1])]
  <1>1. LedgerAt(b) = after[k]
    BY DEF LedgerAt
  <1>2. k \in Nat /\ \A i \in 1..k : path[i + 1] \in Blocks
    <2>1. Len(path) \in Nat \ {0} /\ k = Len(path) - 1
      BY PathEnd DEF Depth
    <2>2. \A i \in 1..k : i + 1 \in 2..Len(path)
      BY <2>1
    <2> QED
      BY <2>1, <2>2, PathStep
  <1>3. base \in Balances
    BY LedgerAssumption DEF Balances
  <1> HIDE DEF k, path, base
  <1>4. step \in [(1..k) \X Balances -> Balances]
    BY <1>2, SettleShifts
  <1>5. PICK f \in [0..k -> Balances] :
            f[0] = base /\ \A i \in 1..k : f[i] = step[<<i, f[i - 1]>>]
    <2> HIDE DEF step
    <2> QED
      BY <1>2, <1>3, <1>4, LoopExists
  <1>6. \A i \in 1..k : f[i] = Settle(f[i - 1], path[i + 1])
    <2>1. ASSUME NEW i \in 1..k
          PROVE  f[i] = Settle(f[i - 1], path[i + 1])
      <3>1. <<i, f[i - 1]>> \in (1..k) \X Balances
        BY <1>2
      <3> QED
        BY <1>5, <3>1
    <2> QED
      BY <2>1
  <1> HIDE DEF step
  <1>7. f = [i \in 0..k |-> IF i = 0 THEN base ELSE Settle(f[i - 1], path[i + 1])]
    <2>1. \A i \in 0..k : i # 0 => i \in 1..k
      BY <1>2
    <2> QED
      BY <1>5, <1>6, <2>1
  <1>8. after = [i \in 0..k |-> IF i = 0 THEN base ELSE Settle(after[i - 1], path[i + 1])]
    BY <1>7
  <1> HIDE DEF after
  <1>9. after[0] = base /\ \A i \in 1..k : after[i] = Settle(after[i - 1], path[i + 1])
    BY <1>2, <1>8
  <1>10. \A i \in 0..k : after[i] \in Balances
    <2>1. \A i \in 1..k : after[i - 1] \in Balances => after[i] \in Balances
      BY <1>2, <1>9, SettleShifts
    <2> QED
      BY <1>2, <1>3, <1>9, <2>1, LoopTyped
  <1>11. after \in [0..k -> Balances]
    BY <1>8, <1>10
  <1>12. IsLedger(after, b)
    BY <1>9, <1>11 DEF IsLedger, k, path, base
  <1> QED
    BY <1>1, <1>12 DEF k

\* The loop for a block passes through the ledgers of the blocks below it.
LEMMA LedgerOfPath ==
    ASSUME NEW b \in BlockIds, NEW after, IsLedger(after, b), NEW i \in 1..Len(PathTo[b])
    PROVE  LedgerAt(PathTo[b][i]) = after[i - 1]
  <1> DEFINE a == PathTo[b][i]
  <1>1. /\ a \in BlockIds /\ Len(PathTo[a]) = i
        /\ \A j \in 1..i : PathTo[a][j] = PathTo[b][j]
        /\ Len(PathTo[b]) \in Nat
    BY PathBeginning, PathEnd
  <1> HIDE DEF a
  <1>2. PICK g : IsLedger(g, a) /\ LedgerAt(a) = g[Depth(a)]
    BY <1>1, LedgerByLoop
  <1> DEFINE n == i - 1
             S == {k \in 0..n : g[k] = after[k]}
  <1>3. Depth(a) = n /\ n \in Nat /\ n <= Depth(b)
    BY <1>1 DEF Depth
  <1>4. 0 \in S
    BY <1>2, <1>3 DEF IsLedger
  <1>5. ASSUME NEW k \in 1..n, k - 1 \in S
        PROVE  k \in S
    <2>1. k \in 1..Depth(b) /\ k \in 1..Depth(a) /\ k + 1 \in 1..i
      BY <1>1, <1>3 DEF Depth
    <2>2. PathTo[a][k + 1] = PathTo[b][k + 1]
      BY <1>1, <2>1
    <2>3. /\ g[k] = Settle(g[k - 1], PathTo[a][k + 1])
          /\ after[k] = Settle(after[k - 1], PathTo[b][k + 1])
      BY <1>2, <2>1 DEF IsLedger
    <2> QED
      BY <1>5, <2>2, <2>3
  <1> HIDE DEF S
  <1>6. 0..n \subseteq S
    BY <1>3, <1>4, <1>5, IntervalInduction
  <1>7. g[n] = after[n]
    BY <1>3, <1>6 DEF S
  <1> QED
    BY <1>2, <1>3, <1>7 DEF a

\* The balances at a block are those at its parent with the block settled.
LEMMA LedgerStep ==
    ASSUME NEW b \in BlockIds
    PROVE  /\ LedgerAt(b) \in Balances
           /\ b = RootId => LedgerAt(b) = GenesisBalance
           /\ b \in Blocks => LedgerAt(b) = Settle(LedgerAt(BlockNode[b].parent), b)
           /\ \A i \in 2..Len(PathTo[b]) :
                 LedgerAt(PathTo[b][i]) = Settle(LedgerAt(PathTo[b][i - 1]), PathTo[b][i])
  <1> DEFINE n == Len(PathTo[b])
  <1>1. PICK after : IsLedger(after, b) /\ LedgerAt(b) = after[Depth(b)]
    BY LedgerByLoop
  <1>2. n \in Nat \ {0} /\ Depth(b) = n - 1 /\ PathTo[b][n] = b
    BY PathEnd DEF Depth
  <1>3. LedgerAt(b) \in Balances
    BY <1>1, <1>2 DEF IsLedger
  <1>4. ASSUME b = RootId
        PROVE  LedgerAt(b) = GenesisBalance
    <2>1. n = 1
      BY <1>4, PathEnd
    <2> QED
      BY <1>1, <1>2, <2>1 DEF IsLedger
  <1>5. ASSUME NEW i \in 2..n
        PROVE  LedgerAt(PathTo[b][i]) = Settle(LedgerAt(PathTo[b][i - 1]), PathTo[b][i])
    <2>1. i \in 1..n /\ i - 1 \in 1..n /\ i - 1 \in 1..Depth(b) /\ (i - 1) + 1 = i
      BY <1>2
    <2>2. LedgerAt(PathTo[b][i]) = after[i - 1]
      BY <1>1, <2>1, LedgerOfPath
    <2>3. LedgerAt(PathTo[b][i - 1]) = after[(i - 1) - 1]
      <3> DEFINE j == i - 1
      <3>1. j \in 1..n
        BY <2>1
      <3> HIDE DEF j
      <3>2. LedgerAt(PathTo[b][j]) = after[j - 1]
        BY <1>1, <3>1, LedgerOfPath
      <3> QED
        BY <3>2 DEF j
    <2>4. after[i - 1] = Settle(after[(i - 1) - 1], PathTo[b][i])
      BY <1>1, <2>1 DEF IsLedger
    <2> QED
      BY <2>2, <2>3, <2>4
  <1>6. ASSUME b \in Blocks
        PROVE  LedgerAt(b) = Settle(LedgerAt(BlockNode[b].parent), b)
    <2>1. n # 1
      BY <1>6, BlockFields, PathEnd
    <2>2. n \in 2..n
      <3> HIDE DEF n
      <3> QED
        BY <1>2, <2>1
    <2>3. BlockNode[b].parent = PathTo[b][n - 1]
      BY <1>2, <2>2, PathStep
    <2> QED
      BY <1>2, <1>5, <2>2, <2>3
  <1> QED
    BY <1>3, <1>4, <1>5, <1>6

\* The blocks above a child of a on the path to b.
Rewarded(a, b) == SubSeq(PathTo[b], Len(PathTo[a]) + 2, Len(PathTo[b]))

\* The blocks above a on the path to b, the ledgers along them, and the rewards
\* of the blocks above the first of them.
LEMMA LedgersAbove ==
    ASSUME NEW a \in BlockIds, NEW b \in BlockIds, OnPath(a, b),
           NEW pending, pending = BlocksAfter(a, b),
           NEW rewarded,
           rewarded = Rewarded(a, b)
    PROVE  /\ pending \in Seq(Blocks)
           /\ rewarded \in Seq(Blocks)
           /\ Len(rewarded) = IF Len(pending) = 0 THEN 0 ELSE Len(pending) - 1
           /\ \A i \in 1..Len(rewarded) : rewarded[i] = pending[i + 1]
           /\ \E G \in [0..Len(pending) -> Balances] :
                 /\ G[0] = LedgerAt(a)
                 /\ G[Len(pending)] = LedgerAt(b)
                 /\ \A i \in 1..Len(pending) : G[i] = Settle(G[i - 1], pending[i])
  <1> DEFINE q == PathTo[b]
             m == Len(PathTo[a])
             n == Len(q)
             k == n - m
             lo == m + 2
             G == [i \in 0..k |-> LedgerAt(q[m + i])]
  <1>1. /\ q \in Seq(BlockIds) /\ n = Len(q) /\ m \in Nat \ {0} /\ n \in Nat \ {0} /\ m <= n
        /\ q[m] = a /\ q[n] = b
    BY PathEnd, OnPathBeginning, BlocksAssumption
  <1>2. \A i \in 2..n : q[i] \in Blocks /\ LedgerAt(q[i]) = Settle(LedgerAt(q[i - 1]), q[i])
    BY PathStep, LedgerStep
  <1>3. \A i \in 1..n : LedgerAt(q[i]) \in Balances
    <2>1. \A i \in 1..n : q[i] \in BlockIds
      BY <1>1
    <2> QED
      BY <2>1, LedgerStep
  <1>4. pending = SubSeq(q, m + 1, n) /\ rewarded = SubSeq(q, lo, n)
    BY DEF BlocksAfter, Rewarded
  <1>5. n = m + k /\ lo = m + 2 /\ k \in Nat
    BY <1>1
  <1> HIDE DEF q, n, m, k, lo
  <1>6. /\ pending \in Seq(Blocks) /\ Len(pending) = k
        /\ \A i \in 1..k : pending[i] = q[m + i]
    <2>1. /\ m + 1 \in 1..(n + 1) /\ n \in 0..n
          /\ \A i \in (m + 1)..n : q[i] \in Blocks /\ i \in 1..Len(q)
      BY <1>1, <1>2
    <2>2. n - m = k
      BY <1>1, <1>5
    <2>3. pending \in Seq(Blocks) /\ Len(pending) = n - m
      BY <1>1, <1>4, <2>1
    <2>4. \A i \in 1..(n - m) : pending[i] = q[m + i]
      BY <1>1, <1>4, <2>1
    <2> QED
      BY <2>2, <2>3, <2>4
  <1>7. /\ rewarded \in Seq(Blocks)
        /\ Len(rewarded) = IF k = 0 THEN 0 ELSE k - 1
        /\ \A i \in 1..Len(rewarded) : rewarded[i] = pending[i + 1]
    <2> DEFINE l == m + 1
    <2>1. /\ l + 1 \in 1..(n + 2) /\ n \in 0..n /\ l \in Nat /\ lo = l + 1
          /\ \A i \in (l + 1)..n : q[i] \in Blocks /\ i \in 1..Len(q)
      BY <1>1, <1>2, <1>5
    <2>2. n = l + k - 1
      BY <1>1, <1>5
    <2> HIDE DEF l
    <2>3. CASE k = 0
      <3>1. n < l + 1
        BY <1>1, <2>1, <2>2, <2>3
      <3>2. rewarded \in Seq(Blocks) /\ Len(rewarded) = 0
        BY <1>1, <1>4, <2>1, <3>1
      <3> QED
        BY <2>3, <3>2
    <2>4. CASE k # 0
      <3>1. k - 1 = n - l /\ n - l \in Nat /\ k - 1 \in Nat
        BY <1>1, <1>5, <2>1, <2>2, <2>4
      <3>2. rewarded \in Seq(Blocks) /\ Len(rewarded) = n - l
        BY <1>1, <1>4, <2>1, <3>1
      <3>3. \A i \in 1..(n - l) : rewarded[i] = q[l + i]
        BY <1>1, <1>4, <2>1, <3>1
      <3>4. \A i \in 1..(k - 1) : i + 1 \in 1..k /\ l + i = m + (i + 1)
        BY <1>1, <1>5 DEF l
      <3> QED
        BY <1>6, <2>4, <3>1, <3>2, <3>3, <3>4
    <2> QED
      BY <2>3, <2>4
  <1>8. /\ G \in [0..k -> Balances] /\ G[0] = LedgerAt(a) /\ G[k] = LedgerAt(b)
        /\ \A i \in 1..k : G[i] = Settle(G[i - 1], pending[i])
    <2>1. k \in Nat /\ m + 0 = m /\ m + k = n
      BY <1>1, <1>5
    <2>2. \A i \in 0..k : m + i \in 1..n
      BY <1>1, <1>5
    <2>3. G \in [0..k -> Balances] /\ G[0] = LedgerAt(a) /\ G[k] = LedgerAt(b)
      BY <1>1, <1>3, <2>1, <2>2
    <2>4. ASSUME NEW i \in 1..k
          PROVE  G[i] = Settle(G[i - 1], pending[i])
      <3>1. /\ m + i \in 2..n /\ m + (i - 1) = (m + i) - 1
            /\ i \in 0..k /\ i - 1 \in 0..k
        BY <1>1, <1>5
      <3>2. LedgerAt(q[m + i]) = Settle(LedgerAt(q[m + (i - 1)]), q[m + i])
        BY <1>2, <3>1
      <3>3. G[i] = LedgerAt(q[m + i]) /\ G[i - 1] = LedgerAt(q[m + (i - 1)])
        BY <3>1
      <3> QED
        BY <1>6, <3>2, <3>3
    <2> QED
      BY <2>3, <2>4
  <1> HIDE DEF G
  <1> QED
    BY <1>6, <1>7, <1>8

LEMMA PayPendingTyped ==
    ASSUME NEW a \in BlockIds, NEW b \in BlockIds, OnPath(a, b)
    PROVE  PayRewards(PayBlocks(LedgerAt(a), BlocksAfter(a, b)), Rewarded(a, b)) \in Balances
  <1> DEFINE pending == BlocksAfter(a, b)
             rewarded == Rewarded(a, b)
             base == LedgerAt(a)
             paid == PayBlocks(base, pending)
  <1>1. base \in Balances
    BY LedgerStep
  <1>2. pending \in Seq(Blocks) /\ rewarded \in Seq(Blocks)
    <2> HIDE DEF pending, rewarded
    <2>1. pending = BlocksAfter(a, b) /\ rewarded = Rewarded(a, b)
      BY DEF pending, rewarded
    <2> QED
      BY <2>1, LedgersAbove
  <1> HIDE DEF pending, rewarded, base
  <1>3. paid \in Balances
    BY <1>1, <1>2, PayBlocksByLoop
  <1> HIDE DEF paid
  <1>4. PayRewards(paid, rewarded) \in Balances
    BY <1>2, <1>3, PayRewardsByLoop
  <1> QED
    BY <1>4 DEF pending, rewarded, base, paid

\* The transactions of the blocks above a and the rewards of those above the
\* first of them never give more than the ledger of the last one.
LEMMA PendingBelowLedger ==
    ASSUME NEW a \in BlockIds, NEW b \in BlockIds, OnPath(a, b), NEW u \in Users,
           NEW rewarded,
           rewarded = Rewarded(a, b)
    PROVE  PayRewards(PayBlocks(LedgerAt(a), BlocksAfter(a, b)), rewarded)[u]
              <= LedgerAt(b)[u]
  <1> DEFINE pending == BlocksAfter(a, b)
             n == Len(pending)
             r == Len(rewarded)
             base == LedgerAt(a)
  <1>1. /\ pending \in Seq(Blocks) /\ rewarded \in Seq(Blocks)
        /\ r = IF n = 0 THEN 0 ELSE n - 1
        /\ \A i \in 1..r : rewarded[i] = pending[i + 1]
        /\ \E G \in [0..n -> Balances] :
              /\ G[0] = base /\ G[n] = LedgerAt(b)
              /\ \A i \in 1..n : G[i] = Settle(G[i - 1], pending[i])
    <2>1. /\ pending \in Seq(Blocks) /\ rewarded \in Seq(Blocks)
          /\ Len(rewarded) = IF Len(pending) = 0 THEN 0 ELSE Len(pending) - 1
          /\ \A i \in 1..Len(rewarded) : rewarded[i] = pending[i + 1]
          /\ \E G \in [0..Len(pending) -> Balances] :
                /\ G[0] = LedgerAt(a) /\ G[Len(pending)] = LedgerAt(b)
                /\ \A i \in 1..Len(pending) : G[i] = Settle(G[i - 1], pending[i])
      <3> DEFINE after == BlocksAfter(a, b)
      <3> HIDE DEF after
      <3>1. after = BlocksAfter(a, b)
        BY DEF after
      <3> QED
        BY <3>1, LedgersAbove
    <2> QED
      BY <2>1
  <1> HIDE DEF pending, base
  <1>2. PICK G \in [0..n -> Balances] :
           /\ G[0] = base /\ G[n] = LedgerAt(b)
           /\ \A i \in 1..n : G[i] = Settle(G[i - 1], pending[i])
    BY <1>1
  <1>3. n \in Nat /\ r \in Nat /\ \A i \in 1..n : pending[i] \in Blocks
    BY <1>1
  <1>4. PICK P \in [0..n -> Balances] :
           /\ P[0] = base
           /\ \A i \in 1..n : P[i] = PayTxs(P[i - 1], pending[i])
           /\ PayBlocks(base, pending) = P[n]
    <2>1. base \in Balances
      BY <1>2, <1>3
    <2> QED
      BY <1>1, <2>1, PayBlocksByLoop
  <1>5. PICK Q \in [0..r -> Balances] :
           /\ Q[0] = P[n]
           /\ \A i \in 1..r : Q[i] = PayReward(Q[i - 1], rewarded[i])
           /\ PayRewards(P[n], rewarded) = Q[r]
    <2>1. P[n] \in Balances
      BY <1>3, <1>4
    <2> QED
      BY <1>1, <2>1, PayRewardsByLoop
  <1> HIDE DEF n, r
  <1> DEFINE g == [i \in 0..n |-> G[i][u]]
             p == [i \in 0..n |-> P[i][u]]
             s == [i \in 0..r |-> Q[i][u]]
  <1>6. g \in [0..n -> Int] /\ p \in [0..n -> Int] /\ s \in [0..r -> Int]
    BY <1>2, <1>4, <1>5 DEF Balances
  \* A block adds its reward to the difference of the two.
  <1>7. ASSUME NEW i \in 1..n, NEW any \in Balances
        PROVE  /\ any[u] \in Int /\ PayReward(any, pending[i])[u] \in Int
               /\ g[i] - p[i] = (g[i - 1] - p[i - 1])
                                    + (PayReward(any, pending[i])[u] - any[u])
               /\ PayReward(any, pending[i])[u] >= any[u]
    <2> DEFINE x == pending[i]
               low == P[i - 1]
               high == G[i - 1]
               paid == PayTxs(high, x)
    <2>1. i - 1 \in 0..n /\ i \in 0..n
      BY <1>3
    <2>2. x \in Blocks /\ low \in Balances /\ high \in Balances
      BY <1>2, <1>3, <1>4, <2>1
    <2>3. G[i] = Settle(high, x) /\ P[i] = PayTxs(low, x)
      BY <1>2, <1>4
    <2> HIDE DEF x, low, high
    <2>4. paid \in Balances /\ P[i] \in Balances /\ paid[u] - P[i][u] = high[u] - low[u]
      BY <2>2, <2>3, PayTxsShifts
    <2>5. G[i] = PayReward(paid, x)
      BY <2>2, <2>3, SettleShifts
    <2> HIDE DEF paid
    <2>6. /\ PayReward(paid, x)[u] - PayReward(any, x)[u] = paid[u] - any[u]
          /\ PayReward(any, x)[u] >= any[u]
          /\ PayReward(any, x) \in Balances /\ PayReward(paid, x) \in Balances
      BY <2>2, <2>4, PayRewardShifts
    <2>7. /\ paid[u] \in Int /\ P[i][u] \in Int /\ high[u] \in Int /\ low[u] \in Int
          /\ any[u] \in Int /\ PayReward(any, x)[u] \in Int /\ PayReward(paid, x)[u] \in Int
      BY <2>2, <2>4, <2>6 DEF Balances
    <2>8. G[i][u] - P[i][u] = (high[u] - low[u]) + (PayReward(any, x)[u] - any[u])
      <3>1. \A c1, c2, c3, c4, c5, c6, c7 \in Int :
               c1 - c2 = c3 - c4 /\ c7 - c6 = c1 - c5 => c7 - c2 = (c3 - c4) + (c6 - c5)
        OBVIOUS
      <3> QED
        BY <3>1, <2>4, <2>5, <2>6, <2>7
    <2>9. g[i] = G[i][u] /\ p[i] = P[i][u] /\ g[i - 1] = high[u] /\ p[i - 1] = low[u]
      BY <2>1 DEF high, low
    <2> QED
      BY <2>6, <2>7, <2>8, <2>9 DEF x
  <1>8. p[0] = g[0] /\ s[0] = p[n]
    BY <1>2, <1>3, <1>4, <1>5
  \* So does a step of the loop of rewards, one block ahead.
  <1>9. ASSUME NEW i \in 1..r
        PROVE  s[i] - s[i - 1] = (g[i + 1] - p[i + 1]) - (g[i] - p[i])
    <2> DEFINE x == pending[i + 1]
               any == Q[i - 1]
               j == i + 1
    <2>1. j \in 1..n /\ i \in 0..n /\ j \in 0..n /\ j - 1 = i /\ i - 1 \in 0..r /\ i \in 0..r
      BY <1>1, <1>3
    <2>2. any \in Balances /\ Q[i] = PayReward(any, x)
      BY <1>1, <1>5, <2>1
    <2>3. s[i] = PayReward(any, x)[u] /\ s[i - 1] = any[u]
      BY <2>1, <2>2
    <2> HIDE DEF any, g, p, s, j
    <2>4. /\ any[u] \in Int /\ PayReward(any, pending[j])[u] \in Int
          /\ g[j] - p[j] = (g[j - 1] - p[j - 1]) + (PayReward(any, pending[j])[u] - any[u])
      BY <1>7, <2>1, <2>2
    <2>5. /\ g[j] \in Int /\ p[j] \in Int /\ g[i] \in Int /\ p[i] \in Int
          /\ pending[j] = x
      BY <1>6, <2>1 DEF j
    <2> QED
      BY <2>1, <2>3, <2>4, <2>5 DEF j
  <1>10. ASSUME NEW i \in 1..n
         PROVE  g[i] - p[i] >= g[i - 1] - p[i - 1]
    <2>1. i - 1 \in 0..n /\ i \in 0..n /\ 0 \in 0..n /\ base \in Balances
      BY <1>2, <1>3
    <2> DEFINE d == PayReward(base, pending[i])[u]
               e == base[u]
    <2>2. d \in Int /\ e \in Int /\ g[i] - p[i] = (g[i - 1] - p[i - 1]) + (d - e) /\ d >= e
      BY <1>7, <2>1
    <2>3. g[i] \in Int /\ p[i] \in Int /\ g[i - 1] \in Int /\ p[i - 1] \in Int
      BY <1>6, <2>1
    <2> HIDE DEF d, e, g, p
    <2> QED
      BY <2>2, <2>3
  <1> HIDE DEF g, p, s
  <1>11. ASSUME n # 0
         PROVE  s[r] - p[n] <= g[n] - p[n]
    <2> DEFINE S == {i \in 0..r : s[i] - p[n] <= g[i + 1] - p[i + 1]}
    <2>1. r = n - 1 /\ 0 \in 0..n /\ 1 \in 1..n /\ 1 \in 0..n /\ n \in 0..n
      BY <1>1, <1>3, <1>11 DEF n, r
    <2>2. 0 \in S
      <3>1. g[1] - p[1] >= g[1 - 1] - p[1 - 1]
        BY <1>10, <2>1
      <3>2. 1 - 1 = 0 /\ 0 + 1 = 1 /\ 0 \in 0..r
        BY <1>3
      <3>3. g[1] \in Int /\ p[1] \in Int /\ g[0] \in Int /\ p[0] \in Int /\ p[n] \in Int
        BY <1>6, <2>1
      <3>4. s[0] - p[n] <= g[0 + 1] - p[0 + 1]
        BY <1>8, <3>1, <3>2, <3>3
      <3> QED
        BY <3>2, <3>4
    <2>3. ASSUME NEW i \in 1..r, i - 1 \in S
          PROVE  i \in S
      <3>1. i - 1 \in 0..r /\ i \in 0..r /\ i \in 0..n /\ i + 1 \in 0..n /\ (i - 1) + 1 = i
        BY <1>3, <2>1
      <3>2. s[i - 1] - p[n] <= g[i] - p[i]
        BY <2>3, <3>1
      <3>3. /\ s[i - 1] \in Int /\ s[i] \in Int /\ p[n] \in Int /\ g[i] \in Int /\ p[i] \in Int
            /\ g[i + 1] \in Int /\ p[i + 1] \in Int
        BY <1>6, <2>1, <3>1
      <3>4. s[i] - s[i - 1] = (g[i + 1] - p[i + 1]) - (g[i] - p[i])
        BY <1>9
      <3>5. s[i] - p[n] <= g[i + 1] - p[i + 1]
        <4> DEFINE c1 == s[i - 1]
                   c2 == s[i]
                   c3 == p[n]
                   d1 == g[i] - p[i]
                   d2 == g[i + 1] - p[i + 1]
        <4>1. c1 \in Int /\ c2 \in Int /\ c3 \in Int /\ d1 \in Int /\ d2 \in Int
          BY <3>3
        <4>2. c1 - c3 <= d1
          BY <3>2
        <4>3. c2 - c1 = d2 - d1
          BY <3>4
        <4> HIDE DEF c1, c2, c3, d1, d2
        <4>4. c2 - c3 <= d2
          BY <4>1, <4>2, <4>3
        <4> QED
          BY <4>4 DEF c2, c3, d2
      <3> QED
        BY <3>1, <3>5
    <2> HIDE DEF S
    <2>4. 0..r \subseteq S
      BY <1>3, <2>2, <2>3, IntervalInduction
    <2>5. r \in 0..r /\ r + 1 = n
      BY <1>3, <2>1
    <2> QED
      BY <2>4, <2>5 DEF S
  <1>12. s[r] <= g[n]
    <2>1. g[n] \in Int /\ p[n] \in Int /\ s[r] \in Int
      BY <1>3, <1>6
    <2>2. CASE n = 0
      <3>1. r = 0
        BY <1>1, <2>2 DEF n, r
      <3>2. s[0] = g[0]
        BY <1>8, <2>2
      <3> QED
        BY <2>1, <2>2, <3>1, <3>2
    <2>3. CASE n # 0
      BY <1>11, <2>1, <2>3
    <2> QED
      BY <2>2, <2>3
  <1>13. s[r] = Q[r][u] /\ g[n] = G[n][u]
    BY <1>3 DEF s, g
  <1> QED
    BY <1>2, <1>4, <1>5, <1>12, <1>13 DEF pending, base
=============================================================================
