---------------------------- MODULE TxPoolProofs ----------------------------
(***************************************************************************)
(* Proofs about the pool of transactions, for every set of transactions,   *)
(* every tree of blocks and every limit of the pool.                       *)
(*                                                                         *)
(* The loops of Vec::retain and filter_tx are functions defined by         *)
(* recursion; RetainedByLoop and FilteredByLoop say that they exist, and   *)
(* RetainedList and FilterList what they compute, by induction over the    *)
(* positions of the list.                                                  *)
(***************************************************************************)
EXTENDS TxPool, ChainDataProofs, SequenceTheorems

\* PoolExact and FinalizedRemoved are inductive once PoolTypeOK is known.
PoolIInv == PoolTypeOK /\ PoolExact /\ FinalizedRemoved

-----------------------------------------------------------------------------
(* Lists                                                                   *)

\* The list grows at its end.
LEMMA AppendList ==
    ASSUME NEW A, NEW s \in Seq(A), NEW t \in A
    PROVE  /\ Append(s, t) \in Seq(A)
           /\ Len(Append(s, t)) = Len(s) + 1
           /\ Append(s, t)[Len(s) + 1] = t
           /\ \A i \in 1..Len(s) : Append(s, t)[i] = s[i]
           /\ ToSet(Append(s, t)) = ToSet(s) \cup {t}
  BY DEF ToSet

\* The values of kept in the loop of Retained, and of result in that of FilterTx.
RetainLoop(kept, A, ids, gone) ==
    /\ kept \in [0..Len(ids) -> Seq(A)]
    /\ kept[0] = <<>>
    /\ \A i \in 1..Len(ids) :
          kept[i] = IF ids[i] \in gone THEN kept[i - 1] ELSE Append(kept[i - 1], ids[i])

FilterLoop(result, A, ids, maxCount, excluding) ==
    /\ result \in [0..Len(ids) -> Seq(A)]
    /\ result[0] = <<>>
    /\ \A i \in 1..Len(ids) :
          result[i] = IF \/ ids[i] \in excluding
                         \/ result[i - 1] # <<>> /\ Len(result[i - 1]) = maxCount
                      THEN result[i - 1]
                      ELSE Append(result[i - 1], ids[i])

\* The loop of Retained leads from one value of kept to the next.
LEMMA RetainedByLoop ==
    ASSUME NEW A, NEW ids \in Seq(A), NEW gone
    PROVE  \E kept : /\ RetainLoop(kept, A, ids, gone)
                     /\ Retained(ids, gone) = kept[Len(ids)]
  <1> DEFINE n == Len(ids)
             V == Seq(A)
             After(i, before) == IF ids[i] \in gone THEN before ELSE Append(before, ids[i])
             step == [x \in (1..n) \X V |-> After(x[1], x[2])]
             kept == CHOOSE g : g = [i \in 0..n |-> IF i = 0 THEN <<>> ELSE After(i, g[i - 1])]
  <1>1. Retained(ids, gone) = kept[n]
    BY DEF Retained
  <1>2. n \in Nat /\ <<>> \in V
    OBVIOUS
  <1>3. \A i \in 1..n, before \in V : After(i, before) \in V
    OBVIOUS
  <1> HIDE DEF n, V, After
  <1>4. PICK f \in [0..n -> V] : f[0] = <<>> /\ \A i \in 1..n : f[i] = step[<<i, f[i - 1]>>]
    <2>1. step \in [(1..n) \X V -> V]
      BY <1>3
    <2> HIDE DEF step
    <2>2. \E f : Recursive(f, n, V, <<>>, step)
      BY <1>2, <2>1, RecursionExists
    <2> QED
      BY <2>2 DEF Recursive
  <1>5. \A i \in 1..n : f[i] = After(i, f[i - 1])
    <2> TAKE i \in 1..n
    <2>1. <<i, f[i - 1]>> \in (1..n) \X V
      BY <1>2
    <2> QED
      BY <1>4, <2>1
  <1>6. f = [i \in 0..n |-> IF i = 0 THEN <<>> ELSE After(i, f[i - 1])]
    <2> HIDE DEF step
    <2>1. \A i \in 0..n : i # 0 => i \in 1..n
      BY <1>2
    <2> QED
      BY <1>4, <1>5, <2>1
  <1>7. kept = [i \in 0..n |-> IF i = 0 THEN <<>> ELSE After(i, kept[i - 1])]
    BY <1>6
  <1> HIDE DEF kept, step
  <1>8. kept[0] = <<>> /\ \A i \in 1..n : kept[i] = After(i, kept[i - 1])
    BY <1>7, <1>2
  <1>9. \A i \in 0..n : kept[i] \in V
    <2> DEFINE S == {i \in 0..n : kept[i] \in V}
    <2>1. 0 \in S
      BY <1>8, <1>2
    <2>2. ASSUME NEW i \in 1..n, i - 1 \in S
          PROVE  i \in S
      BY <2>2, <1>2, <1>3, <1>8
    <2>3. 0..n \subseteq S
      <3> HIDE DEF S
      <3> QED
        BY <1>2, <2>1, <2>2, IntervalInduction
    <2> QED
      BY <2>3
  <1>10. kept \in [0..n -> V]
    BY <1>7, <1>9
  <1> QED
    BY <1>1, <1>8, <1>10 DEF n, V, After, RetainLoop

\* Vec::retain keeps exactly what is not to go, in its order.
LEMMA RetainedList ==
    ASSUME NEW A, NEW ids \in Seq(A), NEW gone
    PROVE  /\ Retained(ids, gone) \in Seq(A)
           /\ ToSet(Retained(ids, gone)) = ToSet(ids) \ gone
           /\ \A a, b \in DOMAIN Retained(ids, gone) : a < b =>
                 Before(ids, Retained(ids, gone)[a], Retained(ids, gone)[b])
  <1> DEFINE n == Len(ids)
  <1>0. PICK kept : RetainLoop(kept, A, ids, gone) /\ Retained(ids, gone) = kept[n]
    BY RetainedByLoop
  <1>1. /\ kept \in [0..n -> Seq(A)]
        /\ Retained(ids, gone) = kept[n]
        /\ kept[0] = <<>>
        /\ \A i \in 1..n :
              kept[i] = IF ids[i] \in gone THEN kept[i - 1] ELSE Append(kept[i - 1], ids[i])
    BY <1>0 DEF RetainLoop
  <1> DEFINE Elements(i) == ToSet(kept[i]) = {ids[k] : k \in 1..i} \ gone
             Ordered(i) == \A a, b \in DOMAIN kept[i] : a < b =>
                \E k, l \in 1..i : k < l /\ ids[k] = kept[i][a] /\ ids[l] = kept[i][b]
             S == {i \in 0..n : Elements(i) /\ Ordered(i)}
  <1>2. n \in Nat
    OBVIOUS
  <1>3. 0 \in S
    BY <1>1 DEF ToSet
  <1>4. ASSUME NEW i \in 1..n, i - 1 \in S
        PROVE  i \in S
    <2> DEFINE s == kept[i - 1]
    <2>0. s \in Seq(A) /\ ids[i] \in A
      BY <1>1
    <2>1. {ids[k] : k \in 1..i} = {ids[k] : k \in 1..(i - 1)} \cup {ids[i]}
      <3>1. 1..i = 1..(i - 1) \cup {i}
        OBVIOUS
      <3> QED
        BY <3>1
    <2>2. CASE ids[i] \in gone
      <3>1. kept[i] = s
        BY <2>2, <1>1
      <3>2. Elements(i)
        BY <3>1, <2>1, <2>2, <1>4
      <3>3. Ordered(i)
        BY <3>1, <1>4
      <3> QED
        BY <3>2, <3>3
    <2>3. CASE ids[i] \notin gone
      <3>1. kept[i] = Append(s, ids[i])
        BY <2>3, <1>1
      <3>2. /\ Len(kept[i]) = Len(s) + 1
            /\ kept[i][Len(s) + 1] = ids[i]
            /\ \A a \in 1..Len(s) : kept[i][a] = s[a]
            /\ ToSet(kept[i]) = ToSet(s) \cup {ids[i]}
        <4> DEFINE t == ids[i]
        <4> HIDE DEF s, t
        <4>1. s \in Seq(A) /\ t \in A
          BY <2>0 DEF t
        <4>2. /\ Len(Append(s, t)) = Len(s) + 1
              /\ Append(s, t)[Len(s) + 1] = t
              /\ \A a \in 1..Len(s) : Append(s, t)[a] = s[a]
              /\ ToSet(Append(s, t)) = ToSet(s) \cup {t}
          BY <4>1, AppendList
        <4> QED
          BY <3>1, <4>2 DEF t
      <3>3. Elements(i)
        BY <3>2, <2>1, <2>3, <1>4
      <3>4. ASSUME NEW a \in DOMAIN kept[i], NEW b \in DOMAIN kept[i], a < b
            PROVE  \E k, l \in 1..i : k < l /\ ids[k] = kept[i][a] /\ ids[l] = kept[i][b]
        <4>1. a \in 1..Len(s) /\ b \in 1..(Len(s) + 1)
          BY <3>4, <3>2
        <4>2. \A c, d \in DOMAIN s : c < d =>
                \E k, l \in 1..(i - 1) : k < l /\ ids[k] = s[c] /\ ids[l] = s[d]
          BY <1>4
        <4> HIDE DEF s
        <4>3. CASE b \in 1..Len(s)
          <5>1. a \in DOMAIN s /\ b \in DOMAIN s
            BY <4>1, <4>3, <2>0
          <5>2. PICK k \in 1..(i - 1), l \in 1..(i - 1) : k < l /\ ids[k] = s[a] /\ ids[l] = s[b]
            BY <4>2, <5>1, <3>4
          <5>3. k \in 1..i /\ l \in 1..i
            OBVIOUS
          <5> QED
            BY <5>2, <5>3, <3>2, <4>1, <4>3
        <4>4. CASE b = Len(s) + 1
          <5>1. s[a] \in ToSet(s)
            BY <4>1, <2>0 DEF ToSet
          <5>2. PICK k \in 1..(i - 1) : ids[k] = s[a]
            BY <5>1, <1>4 DEF s
          <5>3. k \in 1..i /\ i \in 1..i /\ k < i
            OBVIOUS
          <5> QED
            BY <5>2, <5>3, <3>2, <4>1, <4>4
        <4> QED
          BY <4>1, <4>3, <4>4
      <3> QED
        BY <3>3, <3>4
    <2> QED
      BY <2>2, <2>3
  <1>5. n \in S
    <2> HIDE DEF S, n
    <2>1. 0..n \subseteq S
      BY <1>2, <1>3, <1>4, IntervalInduction
    <2> QED
      BY <2>1, <1>2
  <1>6. {ids[k] : k \in 1..n} = ToSet(ids)
    BY DEF ToSet
  <1> DEFINE R == Retained(ids, gone)
  <1>7. R = kept[n] /\ Elements(n) /\ Ordered(n)
    BY <1>1, <1>5
  <1>8. R \in Seq(A)
    BY <1>1, <1>7, <1>2
  <1>9. ToSet(R) = ToSet(ids) \ gone
    BY <1>6, <1>7
  <1>10. ASSUME NEW a \in DOMAIN R, NEW b \in DOMAIN R, a < b
         PROVE  Before(ids, R[a], R[b])
    <2>1. PICK k \in 1..n, l \in 1..n : k < l /\ ids[k] = R[a] /\ ids[l] = R[b]
      BY <1>7, <1>10
    <2> QED
      BY <2>1 DEF Before
  <1> QED
    BY <1>8, <1>9, <1>10

\* The loop of FilterTx leads from one value of result to the next.
LEMMA FilteredByLoop ==
    ASSUME NEW A, NEW ids \in Seq(A), NEW maxCount \in Nat, NEW excluding
    PROVE  \E result : /\ FilterLoop(result, A, ids, maxCount, excluding)
                       /\ FilterTx(ids, maxCount, excluding) = result[Len(ids)]
  <1> DEFINE n == Len(ids)
             V == Seq(A)
             After(i, before) ==
                IF ids[i] \in excluding \/ (before # <<>> /\ Len(before) = maxCount)
                THEN before
                ELSE Append(before, ids[i])
             step == [x \in (1..n) \X V |-> After(x[1], x[2])]
             result == CHOOSE g : g = [i \in 0..n |-> IF i = 0 THEN <<>> ELSE After(i, g[i - 1])]
  <1>1. FilterTx(ids, maxCount, excluding) = result[n]
    BY DEF FilterTx
  <1>2. n \in Nat /\ <<>> \in V
    OBVIOUS
  <1>3. \A i \in 1..n, before \in V : After(i, before) \in V
    OBVIOUS
  <1> HIDE DEF n, V, After
  <1>4. PICK f \in [0..n -> V] : f[0] = <<>> /\ \A i \in 1..n : f[i] = step[<<i, f[i - 1]>>]
    <2>1. step \in [(1..n) \X V -> V]
      BY <1>3
    <2> HIDE DEF step
    <2>2. \E f : Recursive(f, n, V, <<>>, step)
      BY <1>2, <2>1, RecursionExists
    <2> QED
      BY <2>2 DEF Recursive
  <1>5. \A i \in 1..n : f[i] = After(i, f[i - 1])
    <2> TAKE i \in 1..n
    <2>1. <<i, f[i - 1]>> \in (1..n) \X V
      BY <1>2
    <2> QED
      BY <1>4, <2>1
  <1>6. f = [i \in 0..n |-> IF i = 0 THEN <<>> ELSE After(i, f[i - 1])]
    <2> HIDE DEF step
    <2>1. \A i \in 0..n : i # 0 => i \in 1..n
      BY <1>2
    <2> QED
      BY <1>4, <1>5, <2>1
  <1>7. result = [i \in 0..n |-> IF i = 0 THEN <<>> ELSE After(i, result[i - 1])]
    BY <1>6
  <1> HIDE DEF result, step
  <1>8. result[0] = <<>> /\ \A i \in 1..n : result[i] = After(i, result[i - 1])
    BY <1>7, <1>2
  <1>9. \A i \in 0..n : result[i] \in V
    <2> DEFINE S == {i \in 0..n : result[i] \in V}
    <2>1. 0 \in S
      BY <1>8, <1>2
    <2>2. ASSUME NEW i \in 1..n, i - 1 \in S
          PROVE  i \in S
      BY <2>2, <1>2, <1>3, <1>8
    <2>3. 0..n \subseteq S
      <3> HIDE DEF S
      <3> QED
        BY <1>2, <2>1, <2>2, IntervalInduction
    <2> QED
      BY <2>3
  <1>10. result \in [0..n -> V]
    BY <1>7, <1>9
  <1> QED
    BY <1>1, <1>8, <1>10 DEF n, V, After, FilterLoop

\* filter_tx gives the first maxCount of the transactions that are not excluded,
\* and all of them if maxCount is 0.
LEMMA FilterList ==
    ASSUME NEW A, NEW ids \in Seq(A), NEW maxCount \in Nat, NEW excluding
    PROVE  FilterTx(ids, maxCount, excluding) = FirstOf(Retained(ids, excluding), maxCount)
  <1> DEFINE n == Len(ids)
  <1>0. PICK kept, result :
            /\ RetainLoop(kept, A, ids, excluding) /\ Retained(ids, excluding) = kept[n]
            /\ FilterLoop(result, A, ids, maxCount, excluding)
            /\ FilterTx(ids, maxCount, excluding) = result[n]
    BY RetainedByLoop, FilteredByLoop
  <1>1. /\ kept \in [0..n -> Seq(A)]
        /\ kept[0] = <<>>
        /\ \A i \in 1..n :
              kept[i] = IF ids[i] \in excluding THEN kept[i - 1] ELSE Append(kept[i - 1], ids[i])
    BY <1>0 DEF RetainLoop
  <1>2. /\ result[0] = <<>>
        /\ \A i \in 1..n :
              result[i] = IF \/ ids[i] \in excluding
                             \/ result[i - 1] # <<>> /\ Len(result[i - 1]) = maxCount
                          THEN result[i - 1]
                          ELSE Append(result[i - 1], ids[i])
    BY <1>0 DEF FilterLoop
  <1> DEFINE S == {i \in 0..n : result[i] = FirstOf(kept[i], maxCount)}
  <1>3. 0 \in S
    <2>1. FirstOf(<<>>, maxCount) = <<>>
      BY DEF FirstOf
    <2> QED
      BY <2>1, <1>1, <1>2
  <1>4. ASSUME NEW i \in 1..n, i - 1 \in S
        PROVE  i \in S
    <2> SUFFICES result[i] = FirstOf(kept[i], maxCount)
      OBVIOUS
    <2> DEFINE s == kept[i - 1]
               t == ids[i]
    <2>1. s \in Seq(A) /\ t \in A /\ result[i - 1] = FirstOf(s, maxCount)
      BY <1>1, <1>4
    <2>2. /\ kept[i] = IF t \in excluding THEN s ELSE Append(s, t)
          /\ result[i] = IF \/ t \in excluding
                            \/ FirstOf(s, maxCount) # <<>> /\ Len(FirstOf(s, maxCount)) = maxCount
                         THEN FirstOf(s, maxCount)
                         ELSE Append(FirstOf(s, maxCount), t)
      BY <1>1, <1>2, <2>1
    <2> HIDE DEF s, t
    <2>6. /\ Len(s) \in Nat /\ Append(s, t) \in Seq(A) /\ Len(Append(s, t)) = Len(s) + 1
          /\ \A a \in 1..Len(s) : Append(s, t)[a] = s[a]
      BY <2>1
    <2>3. CASE t \in excluding
      BY <2>2, <2>3
    <2>7. CASE t \notin excluding /\ maxCount = 0
      <3>1. FirstOf(s, maxCount) = s /\ FirstOf(Append(s, t), maxCount) = Append(s, t)
        BY <2>7 DEF FirstOf
      <3>2. ~(s # <<>> /\ Len(s) = maxCount)
        BY <2>1, <2>7
      <3> QED
        BY <2>2, <2>7, <3>1, <3>2
    <2>4. CASE t \notin excluding /\ maxCount # 0 /\ Len(s) >= maxCount
      <3>1. FirstOf(s, maxCount) = SubSeq(s, 1, maxCount)
        BY <2>1, <2>4 DEF FirstOf
      <3>2. FirstOf(s, maxCount) # <<>> /\ Len(FirstOf(s, maxCount)) = maxCount
        BY <2>1, <2>4, <3>1
      <3>3. FirstOf(Append(s, t), maxCount) = SubSeq(Append(s, t), 1, maxCount)
        BY <2>1, <2>4, <2>6 DEF FirstOf
      <3>4. SubSeq(Append(s, t), 1, maxCount) = SubSeq(s, 1, maxCount)
        BY <2>1, <2>4, <2>6
      <3>5. kept[i] = Append(s, t) /\ result[i] = FirstOf(s, maxCount)
        BY <2>2, <2>4, <3>2
      <3> QED
        BY <3>1, <3>3, <3>4, <3>5
    <2>5. CASE t \notin excluding /\ maxCount # 0 /\ Len(s) < maxCount
      <3>1. FirstOf(s, maxCount) = s
        BY <2>1, <2>5, SubSeqFull DEF FirstOf
      <3>2. FirstOf(Append(s, t), maxCount) = Append(s, t)
        BY <2>1, <2>5, <2>6, SubSeqFull DEF FirstOf
      <3>3. kept[i] = Append(s, t) /\ result[i] = Append(FirstOf(s, maxCount), t)
        BY <2>1, <2>2, <2>5, <2>6, <3>1
      <3> QED
        BY <3>1, <3>2, <3>3
    <2> QED
      BY <2>3, <2>4, <2>5, <2>6, <2>7
  <1>5. 0..n \subseteq S
    <2>1. n \in Nat
      OBVIOUS
    <2> HIDE DEF S, n
    <2> QED
      BY <2>1, <1>3, <1>4, IntervalInduction
  <1> QED
    BY <1>0, <1>5

-----------------------------------------------------------------------------
(* The operations of the pool                                              *)

LEMMA TxsOfTyped ==
    ASSUME NEW blocks \in Seq(BlockIds)
    PROVE  TxsOf(blocks) \subseteq Txs
  <1>1. ToSet(blocks) \subseteq BlockIds
    BY DEF ToSet
  <1>2. ASSUME NEW b \in ToSet(blocks) \ {RootId}
        PROVE  ToSet(BlockNode[b].txs) \subseteq Txs
    <2>1. BlockNode[b].txs \in Seq(Txs)
      BY <1>1, BlockFields DEF BlockIds
    <2> QED
      BY <2>1 DEF ToSet
  <1> QED
    BY <1>2 DEF TxsOf

\* What an operation may do to the list and the set of removed ids: nothing is
\* taken out of the set, what leaves the list is in the set, and what was in the
\* list stands behind nothing that it did not stand behind before.
PoolMoves ==
    /\ removedTxIds \subseteq removedTxIds'
    /\ ToSet(poolTxIds) \subseteq ToSet(poolTxIds') \cup removedTxIds'
    /\ \A i, j \in DOMAIN poolTxIds' :
          i < j /\ poolTxIds'[j] \in ToSet(poolTxIds) =>
              Before(poolTxIds, poolTxIds'[i], poolTxIds'[j])

LEMMA PoolStutters ==
    ASSUME PoolIInv, UNCHANGED <<poolVars, poolPoisoned>>
    PROVE  PoolIInv' /\ PoolMoves
  <1>1. PoolIInv'
    BY DEF PoolIInv, PoolTypeOK, PoolExact, FinalizedRemoved, poolVars
  <1>2. PoolMoves
    BY DEF PoolMoves, Before, poolVars
  <1> QED
    BY <1>1, <1>2

LEMMA AddTxStep ==
    ASSUME PoolIInv, NEW t \in Txs, AddTx(t)
    PROVE  PoolIInv' /\ PoolMoves
  <1>0. poolPoisoned' \in BOOLEAN
    BY DEF AddTx
  <1>1. CASE ~Acceptable(t)
    <2>1. UNCHANGED poolVars
      BY <1>1 DEF AddTx
    <2>2. PoolIInv'
      BY <1>0, <2>1 DEF PoolIInv, PoolTypeOK, PoolExact, FinalizedRemoved, poolVars
    <2>3. PoolMoves
      BY <2>1 DEF PoolMoves, Before, poolVars
    <2> QED
      BY <2>2, <2>3
  <1>2. CASE Acceptable(t)
    <2>1. /\ poolTxMap' = poolTxMap \cup {t}
          /\ poolTxIds' = Append(poolTxIds, t)
          /\ UNCHANGED <<removedTxIds, lastFinalizedBlockId>>
          /\ t \notin poolTxMap /\ t \notin removedTxIds /\ t \in SignedTxs
      BY <1>2 DEF AddTx, Acceptable
    <2>2. poolTxIds \in Seq(SignedTxs)
      BY DEF PoolIInv, PoolTypeOK
    <2>3. /\ poolTxIds' \in Seq(SignedTxs)
          /\ Len(poolTxIds') = Len(poolTxIds) + 1
          /\ poolTxIds'[Len(poolTxIds) + 1] = t
          /\ \A i \in 1..Len(poolTxIds) : poolTxIds'[i] = poolTxIds[i]
          /\ ToSet(poolTxIds') = ToSet(poolTxIds) \cup {t}
      BY <2>1, <2>2, AppendList
    <2>4. DOMAIN poolTxIds = 1..Len(poolTxIds) /\ Len(poolTxIds) \in Nat
      BY <2>2
    <2>5. DOMAIN poolTxIds' = 1..(Len(poolTxIds) + 1)
      BY <2>3
    <2>6. t \notin ToSet(poolTxIds)
      BY <2>1 DEF PoolIInv, PoolExact
    <2>7. \A i \in DOMAIN poolTxIds : poolTxIds[i] # t
      BY <2>6 DEF ToSet
    <2>8. PoolTypeOK'
      BY <1>0, <2>1, <2>3 DEF PoolIInv, PoolTypeOK
    <2>9. \A i, j \in DOMAIN poolTxIds' : i # j => poolTxIds'[i] # poolTxIds'[j]
      <3>1. \A i, j \in DOMAIN poolTxIds : i # j => poolTxIds[i] # poolTxIds[j]
        BY DEF PoolIInv, PoolExact
      <3> QED
        BY <3>1, <2>3, <2>4, <2>5, <2>7
    <2>10. PoolExact'
      BY <2>1, <2>3, <2>9 DEF PoolIInv, PoolExact
    <2>11. FinalizedRemoved'
      BY <2>1 DEF PoolIInv, FinalizedRemoved
    <2>12. ASSUME NEW i \in DOMAIN poolTxIds', NEW j \in DOMAIN poolTxIds',
                  i < j, poolTxIds'[j] \in ToSet(poolTxIds)
           PROVE  Before(poolTxIds, poolTxIds'[i], poolTxIds'[j])
      <3>1. j # Len(poolTxIds) + 1
        BY <2>12, <2>3, <2>6
      <3>2. i \in DOMAIN poolTxIds /\ j \in DOMAIN poolTxIds
        BY <3>1, <2>4, <2>5, <2>12
      <3>3. poolTxIds'[i] = poolTxIds[i] /\ poolTxIds'[j] = poolTxIds[j]
        BY <3>2, <2>3, <2>4
      <3> QED
        BY <3>2, <3>3, <2>12 DEF Before
    <2>13. PoolMoves
      BY <2>1, <2>3, <2>12 DEF PoolMoves
    <2> QED
      BY <2>8, <2>10, <2>11, <2>13 DEF PoolIInv
  <1> QED
    BY <1>1, <1>2

\* What del_tx and remove_txs_from_finalized_blocks do to the list.
LEMMA RemovalStep ==
    ASSUME PoolTypeOK, PoolExact, NEW gone \in SUBSET Txs,
           poolTxIds' = Retained(poolTxIds, gone),
           removedTxIds' = removedTxIds \cup gone,
           poolTxMap' \subseteq poolTxMap, poolTxMap \subseteq poolTxMap' \cup gone,
           poolTxMap \ gone \subseteq poolTxMap',
           lastFinalizedBlockId' \in BlockIds, UNCHANGED poolPoisoned
    PROVE  PoolTypeOK' /\ PoolExact' /\ PoolMoves
  <1>1. poolTxIds \in Seq(SignedTxs)
    BY DEF PoolTypeOK
  <1>2. /\ poolTxIds' \in Seq(SignedTxs)
        /\ ToSet(poolTxIds') = ToSet(poolTxIds) \ gone
        /\ \A a, b \in DOMAIN poolTxIds' : a < b =>
              Before(poolTxIds, poolTxIds'[a], poolTxIds'[b])
    BY <1>1, RetainedList
  <1>3. PoolTypeOK'
    BY <1>2 DEF PoolTypeOK
  <1>4. ASSUME NEW a \in DOMAIN poolTxIds', NEW b \in DOMAIN poolTxIds', a < b
        PROVE  poolTxIds'[a] # poolTxIds'[b]
    <2>1. PICK i \in DOMAIN poolTxIds, j \in DOMAIN poolTxIds :
              i < j /\ poolTxIds[i] = poolTxIds'[a] /\ poolTxIds[j] = poolTxIds'[b]
      BY <1>2, <1>4 DEF Before
    <2>2. i # j
      BY <2>1, <1>1
    <2> QED
      BY <2>1, <2>2 DEF PoolExact
  <1>5. \A a, b \in DOMAIN poolTxIds' : a # b => poolTxIds'[a] # poolTxIds'[b]
    <2>1. \A a, b \in DOMAIN poolTxIds' : a # b => a < b \/ b < a
      BY <1>2
    <2> QED
      BY <1>4, <2>1
  <1>6. PoolExact'
    BY <1>2, <1>5 DEF PoolExact
  <1>7. PoolMoves
    BY <1>2 DEF PoolMoves
  <1> QED
    BY <1>3, <1>6, <1>7

LEMMA DelTxStep ==
    ASSUME PoolIInv, NEW t \in Txs, DelTx(t), UNCHANGED poolPoisoned
    PROVE  PoolIInv' /\ PoolMoves
  <1>1. CASE t \notin poolTxMap
    BY <1>1, PoolStutters DEF DelTx
  <1>2. CASE t \in poolTxMap
    <2>1. /\ poolTxMap' = poolTxMap \ {t}
          /\ poolTxIds' = Retained(poolTxIds, {t})
          /\ removedTxIds' = removedTxIds \cup {t}
          /\ UNCHANGED lastFinalizedBlockId
      BY <1>2 DEF DelTx
    <2>2. PoolTypeOK /\ PoolExact /\ FinalizedRemoved
      BY DEF PoolIInv
    <2>3. lastFinalizedBlockId' \in BlockIds
      BY <2>1, <2>2 DEF PoolTypeOK
    <2>4. PoolTypeOK' /\ PoolExact' /\ PoolMoves
      BY <2>1, <2>2, <2>3, RemovalStep
    <2>5. FinalizedRemoved'
      BY <2>1, <2>2 DEF FinalizedRemoved
    <2> QED
      BY <2>4, <2>5 DEF PoolIInv
  <1> QED
    BY <1>1, <1>2

\* The pool may be told of any list of blocks that, with the finalized blocks the
\* pool knows of, makes up the path to the last block of the list.
LEMMA FinalizedStep ==
    ASSUME PoolIInv, NEW blocks \in Seq(BlockIds),
           RemoveTxsFromFinalizedBlocks(blocks), UNCHANGED poolPoisoned,
           blocks # <<>> =>
              ToSet(PathTo[Last(blocks)])
                  \subseteq ToSet(PathTo[lastFinalizedBlockId]) \cup ToSet(blocks)
    PROVE  PoolIInv' /\ PoolMoves
  <1>1. /\ poolTxIds' = Retained(poolTxIds, TxsOf(blocks))
        /\ removedTxIds' = removedTxIds \cup TxsOf(blocks)
        /\ lastFinalizedBlockId' = IF blocks = <<>> THEN lastFinalizedBlockId ELSE Last(blocks)
        /\ poolTxMap' = poolTxMap
    BY DEF RemoveTxsFromFinalizedBlocks
  <1>2. PoolTypeOK /\ PoolExact /\ FinalizedRemoved
    BY DEF PoolIInv
  <1>3. TxsOf(blocks) \in SUBSET Txs
    BY TxsOfTyped
  <1>4. lastFinalizedBlockId' \in BlockIds
    <2>1. blocks # <<>> => Last(blocks) \in BlockIds
      BY DEF Last
    <2> QED
      BY <1>1, <1>2, <2>1 DEF PoolTypeOK
  <1>5. PoolTypeOK' /\ PoolExact' /\ PoolMoves
    BY <1>1, <1>2, <1>3, <1>4, RemovalStep
  <1>6. ToSet(PathTo[lastFinalizedBlockId'])
            \subseteq ToSet(PathTo[lastFinalizedBlockId]) \cup ToSet(blocks)
    BY <1>1
  <1>7. FinalizedRemoved'
    BY <1>1, <1>2, <1>6 DEF FinalizedRemoved, TxsOf
  <1> QED
    BY <1>5, <1>7 DEF PoolIInv

LEMMA FinalizedSinceStep ==
    ASSUME PoolIInv, NEW b \in BlockIds, FinalizedSince(b), UNCHANGED poolPoisoned
    PROVE  PoolIInv' /\ PoolMoves
  <1> DEFINE blocks == BlocksAfter(lastFinalizedBlockId, b)
  <1>1. lastFinalizedBlockId \in BlockIds /\ OnPath(lastFinalizedBlockId, b)
    BY DEF PoolIInv, PoolTypeOK, FinalizedSince
  <1>2. /\ blocks \in Seq(BlockIds)
        /\ ToSet(PathTo[b]) = ToSet(PathTo[lastFinalizedBlockId]) \cup ToSet(blocks)
        /\ blocks # <<>> => Last(blocks) = b
    BY <1>1, BlocksAfterRest
  <1>3. RemoveTxsFromFinalizedBlocks(blocks)
    BY DEF FinalizedSince
  <1> HIDE DEF blocks
  <1> QED
    BY <1>2, <1>3, FinalizedStep

-----------------------------------------------------------------------------
(* The specification                                                       *)

LEMMA PoolInitIInv == PoolInit => PoolIInv
  <1> SUFFICES ASSUME PoolInit PROVE PoolIInv
    OBVIOUS
  <1>1. poolTxIds = <<>> /\ poolTxMap = {} /\ removedTxIds = {} /\ lastFinalizedBlockId = RootId
    BY DEF PoolInit
  <1>2. PoolTypeOK
    <2>1. poolPoisoned \in BOOLEAN
      BY DEF PoolInit
    <2>2. poolTxIds \in Seq(SignedTxs) /\ lastFinalizedBlockId \in BlockIds
      BY <1>1 DEF BlockIds
    <2> QED
      BY <1>1, <2>1, <2>2 DEF PoolTypeOK
  <1>3. PoolExact
    BY <1>1 DEF PoolExact, ToSet
  <1>4. FinalizedRemoved
    <2>1. PathTo[RootId] = <<RootId>>
      BY BlocksAssumption
    <2>2. ToSet(<<RootId>>) = {RootId}
      BY DEF ToSet
    <2> QED
      BY <1>1, <2>1, <2>2 DEF FinalizedRemoved
  <1> QED
    BY <1>2, <1>3, <1>4 DEF PoolIInv

LEMMA PoolNextIInv == PoolIInv /\ [PoolNext]_<<poolVars, poolPoisoned>> => PoolIInv' /\ PoolMoves
  <1> SUFFICES ASSUME PoolIInv, [PoolNext]_<<poolVars, poolPoisoned>> PROVE PoolIInv' /\ PoolMoves
    OBVIOUS
  <1>1. CASE UNCHANGED <<poolVars, poolPoisoned>>
    BY <1>1, PoolStutters
  <1>2. ASSUME NEW t \in Txs, AddTx(t)
        PROVE  PoolIInv' /\ PoolMoves
    BY <1>2, AddTxStep
  <1>3. ASSUME NEW t \in Txs, DelTx(t), UNCHANGED poolPoisoned
        PROVE  PoolIInv' /\ PoolMoves
    BY <1>3, DelTxStep
  <1>4. ASSUME NEW b \in BlockIds, FinalizedSince(b), UNCHANGED poolPoisoned
        PROVE  PoolIInv' /\ PoolMoves
    BY <1>4, FinalizedSinceStep
  <1> QED
    BY <1>1, <1>2, <1>3, <1>4 DEF PoolNext

LEMMA PoolInductive == PoolSpec => []PoolIInv
  <1>1. PoolInit => PoolIInv
    BY PoolInitIInv
  <1>2. PoolIInv /\ [PoolNext]_<<poolVars, poolPoisoned>> => PoolIInv'
    BY PoolNextIInv
  <1> QED
    BY <1>1, <1>2, PTL DEF PoolSpec

\* Only transactions with a right signature ever wait or are kept.
THEOREM PoolTypeCorrect == PoolSpec => []PoolTypeOK
  <1>1. PoolIInv => PoolTypeOK
    BY DEF PoolIInv
  <1> QED
    BY <1>1, PoolInductive, PTL

\* The list, the map and the removed ids always fit together: filter_tx finds the
\* content of every transaction of the list.
THEOREM PoolAlwaysExact == PoolSpec => []PoolExact
  <1>1. PoolIInv => PoolExact
    BY DEF PoolIInv
  <1> QED
    BY <1>1, PoolInductive, PTL

\* No transaction of a block that the pool knows to be finalized is mined again.
THEOREM FinalizedNeverBack == PoolSpec => []FinalizedRemoved
  <1>1. PoolIInv => FinalizedRemoved
    BY DEF PoolIInv
  <1> QED
    BY <1>1, PoolInductive, PTL

\* filter_tx gives the oldest transactions that are not excluded, for every limit:
\* Limits is any set of natural numbers, with 0, the limit that is none, or not.
THEOREM FilterGivesOldest == PoolSpec => []FilterOldestFirst
  <1>1. ASSUME PoolIInv
        PROVE  FilterOldestFirst
    <2>1. poolTxIds \in Seq(SignedTxs)
      BY <1>1 DEF PoolIInv, PoolTypeOK
    <2>2. \A maxCount \in Limits : maxCount \in Nat
      BY PoolAssumption
    <2> QED
      BY <2>1, <2>2, FilterList DEF FilterOldestFirst
  <1> QED
    BY <1>1, PoolInductive, PTL

\* A transaction that has left the list never comes back to it, and a removed one
\* never waits again.
THEOREM LifecycleOneWay == PoolSpec => TxLifecycleOneWay
  <1>1. ASSUME PoolIInv, PoolIInv', PoolMoves, NEW t \in Txs
        PROVE  Stage(t)' >= Stage(t)
    <2>1. /\ removedTxIds \subseteq removedTxIds'
          /\ ToSet(poolTxIds) \subseteq ToSet(poolTxIds') \cup removedTxIds'
          /\ ToSet(poolTxIds') \cap removedTxIds' = {}
      BY <1>1 DEF PoolMoves, PoolIInv, PoolExact
    <2>2. Stage(t)' = IF t \in ToSet(poolTxIds') THEN 1 ELSE IF t \in removedTxIds' THEN 2 ELSE 0
      BY DEF Stage
    <2> QED
      BY <2>1, <2>2 DEF Stage
  <1>2. PoolIInv /\ PoolIInv' /\ [PoolNext]_<<poolVars, poolPoisoned>>
            => [\A t \in Txs : Stage(t)' >= Stage(t)]_poolVars
    BY <1>1, PoolNextIInv
  <1> QED
    BY <1>2, PoolInductive, PTL DEF PoolSpec, TxLifecycleOneWay

\* First come, first served: no transaction ever overtakes one that waits.
THEOREM FirstComeFirstServed == PoolSpec => OrderKept
  <1>1. PoolIInv /\ [PoolNext]_<<poolVars, poolPoisoned>>
            => [\A i, j \in DOMAIN poolTxIds' :
                  i < j /\ poolTxIds'[j] \in ToSet(poolTxIds) =>
                      Before(poolTxIds, poolTxIds'[i], poolTxIds'[j])]_poolVars
    BY PoolNextIInv DEF PoolMoves
  <1> QED
    BY <1>1, PoolInductive, PTL DEF PoolSpec, OrderKept
=============================================================================
