-------------------------- MODULE BlockTreeProofs --------------------------
(***************************************************************************)
(* Proofs about the block tree, for every tree of blocks, every order of   *)
(* arrival and every confirmation depth.                                   *)
(*                                                                         *)
(* Most arguments are about positions on the path from the genesis block.  *)
(* PathsClosed says, for the attached blocks, that a path is made of       *)
(* attached blocks and that the path to a block on it is its beginning;    *)
(* it is an invariant because a block is attached below an attached one.   *)
(***************************************************************************)
EXTENDS BlockTree, ChainDataProofs

PathsClosed ==
    \A b \in allBlocks : \A i \in 1..Len(PathTo[b]) :
        /\ PathTo[b][i] \in allBlocks
        /\ Len(PathTo[PathTo[b][i]]) = i
        /\ \A j \in 1..i : PathTo[PathTo[b][i]][j] = PathTo[b][j]

OrphansSound == \A o \in orphans : BlockNode[o].sound

IInv ==
    /\ TypeOK
    /\ TreeExact
    /\ PathsClosed
    /\ WorkingBelowFinalized
    /\ FinalityDepth
    /\ OrphansSound
    /\ OrphanCallReady
    /\ RecursionEnds

-----------------------------------------------------------------------------
(* Paths                                                                   *)

\* On a path, the parent of a block is the block before it.
LEMMA PathParent ==
    ASSUME TypeOK, PathsClosed, NEW b \in allBlocks, NEW i \in 2..Len(PathTo[b])
    PROVE  /\ PathTo[b][i] \in Blocks
           /\ BlockNode[PathTo[b][i]].parent = PathTo[b][i - 1]
  <1>1. b \in BlockIds
    BY DEF TypeOK
  <1> QED
    BY <1>1, PathStep

\* An attached block is on a path exactly at its own distance from the start.
LEMMA PathPosition ==
    ASSUME TypeOK, PathsClosed, NEW a \in allBlocks, NEW b \in allBlocks
    PROVE  OnPath(a, b) <=> /\ Len(PathTo[a]) <= Len(PathTo[b])
                            /\ PathTo[b][Len(PathTo[a])] = a
  <1>1. a \in BlockIds /\ b \in BlockIds
    BY DEF TypeOK
  <1>2. Len(PathTo[a]) \in Nat \ {0} /\ Len(PathTo[b]) \in Nat \ {0}
    BY <1>1, PathEnd
  <1>3. DOMAIN PathTo[b] = 1..Len(PathTo[b])
    BY <1>1, BlocksAssumption
  <1>4. ASSUME NEW i \in 1..Len(PathTo[b]), PathTo[b][i] = a
        PROVE  Len(PathTo[a]) = i
    BY <1>4 DEF PathsClosed
  <1> QED
    BY <1>2, <1>3, <1>4 DEF OnPath

-----------------------------------------------------------------------------
(* Attaching a block b below the attached block p                          *)

\* Every position of the path to a new block but the last is attached.
LEMMA NewPath ==
    ASSUME TypeOK, PathsClosed, NEW b \in Blocks, NEW p \in allBlocks,
           p = BlockNode[b].parent
    PROVE  /\ Len(PathTo[b]) \in Nat \ {0, 1}
           /\ Len(PathTo[p]) = Len(PathTo[b]) - 1
           /\ PathTo[b][Len(PathTo[b])] = b
           /\ PathTo[b][Len(PathTo[b]) - 1] = p
           /\ \A i \in 1..(Len(PathTo[b]) - 1) :
                 /\ PathTo[b][i] = PathTo[p][i]
                 /\ PathTo[b][i] \in allBlocks
                 /\ Len(PathTo[PathTo[b][i]]) = i
           /\ \A i \in 2..Len(PathTo[b]) :
                 /\ PathTo[b][i] \in Blocks
                 /\ BlockNode[PathTo[b][i]].parent = PathTo[b][i - 1]
  <1>1. p \in BlockIds
    BY DEF TypeOK
  <1>2. /\ Len(PathTo[p]) \in Nat \ {0}
        /\ PathTo[p][Len(PathTo[p])] = p
    BY <1>1, PathEnd
  <1>3. /\ Len(PathTo[b]) = Len(PathTo[p]) + 1
        /\ PathTo[b][Len(PathTo[b])] = b
        /\ \A i \in 1..Len(PathTo[p]) : PathTo[b][i] = PathTo[p][i]
    BY StepPath
  <1>4. \A i \in 1..Len(PathTo[p]) :
            PathTo[p][i] \in allBlocks /\ Len(PathTo[PathTo[p][i]]) = i
    BY DEF PathsClosed
  <1>5. ASSUME NEW i \in 2..Len(PathTo[b])
        PROVE  PathTo[b][i] \in Blocks /\ BlockNode[PathTo[b][i]].parent = PathTo[b][i - 1]
    <2>1. CASE i = Len(PathTo[b])
      BY <2>1, <1>2, <1>3
    <2>2. CASE i \in 2..Len(PathTo[p])
      <3>1. PathTo[b][i] = PathTo[p][i] /\ PathTo[b][i - 1] = PathTo[p][i - 1]
        BY <2>2, <1>2, <1>3
      <3> QED
        BY <3>1, <2>2, PathParent
    <2> QED
      BY <2>1, <2>2, <1>2, <1>3
  <1>6. /\ Len(PathTo[b]) \in Nat \ {0, 1}
        /\ Len(PathTo[b]) - 1 = Len(PathTo[p])
        /\ Len(PathTo[p]) \in 1..Len(PathTo[p])
    BY <1>2, <1>3
  <1>7. PathTo[b][Len(PathTo[b]) - 1] = p
    BY <1>2, <1>3, <1>6
  <1>8. ASSUME NEW i \in 1..(Len(PathTo[b]) - 1)
        PROVE  /\ PathTo[b][i] = PathTo[p][i]
               /\ PathTo[b][i] \in allBlocks
               /\ Len(PathTo[PathTo[b][i]]) = i
    <2>1. i \in 1..Len(PathTo[p])
      BY <1>6
    <2> QED
      BY <2>1, <1>3, <1>4
  <1> QED
    BY <1>3, <1>5, <1>6, <1>7, <1>8

\* Where the walk over the rewards ends, the finalized block is found.
LEMMA RewardWalkMeetsFinalized ==
    ASSUME TypeOK, PathsClosed, NEW b \in Blocks, NEW p \in allBlocks,
           p = BlockNode[b].parent, RewardWalkStops(b)
    PROVE  OnPath(finalizedBlockId, p)
  <1>1. p \in BlockIds /\ Len(PathTo[p]) \in Nat \ {0}
    BY PathEnd DEF TypeOK
  <1>2. DOMAIN PathTo[p] = 1..Len(PathTo[p])
    BY <1>1, BlocksAssumption
  <1>3. PICK i \in 1..Len(PathTo[p]) : HeaderParent(PathTo[p][i]) = finalizedBlockId
    BY <1>2 DEF RewardWalkStops, ToSet
  <1>4. CASE i = 1
    <2>0. 1 \in 1..Len(PathTo[p])
      BY <1>1
    <2>1. PathTo[p][1] \in allBlocks /\ Len(PathTo[PathTo[p][1]]) = 1
      BY <2>0 DEF PathsClosed
    <2>2. PathTo[p][1] = RootId
      BY <2>1, PathEnd DEF TypeOK
    <2> QED
      BY <1>1, <1>2, <1>3, <1>4, <2>2 DEF HeaderParent, OnPath
  <1>5. CASE i \in 2..Len(PathTo[p])
    <2>1. /\ PathTo[p][i] \in Blocks
          /\ BlockNode[PathTo[p][i]].parent = PathTo[p][i - 1]
      BY <1>5, PathParent
    <2>2. HeaderParent(PathTo[p][i]) = PathTo[p][i - 1]
      BY <2>1, BlockFields DEF HeaderParent
    <2>3. i - 1 \in DOMAIN PathTo[p]
      BY <1>1, <1>2, <1>5
    <2> QED
      BY <1>3, <2>2, <2>3 DEF OnPath
  <1> QED
    BY <1>1, <1>3, <1>4, <1>5

\* The finalized block has an entry in childrenMap once b is attached below it,
\* and every child of it that was attached is in that entry.
LEMMA FinalizedChildren ==
    ASSUME TypeOK, TreeExact, PathsClosed, NEW b \in Blocks, NEW p \in allBlocks,
           p = BlockNode[b].parent, OnPath(finalizedBlockId, p)
    PROVE  /\ finalizedBlockId \in DOMAIN WithChild(childrenMap, b)
           /\ \A c \in allBlocks : c \in Blocks /\ BlockNode[c].parent = finalizedBlockId
                 => c \in WithChild(childrenMap, b)[finalizedBlockId]
           /\ \A c \in WithChild(childrenMap, b)[finalizedBlockId] :
                 c \in Blocks /\ BlockNode[c].parent = finalizedBlockId
  <1> DEFINE fin == finalizedBlockId
  <1>1. fin \in allBlocks /\ fin \in BlockIds /\ p \in BlockIds
    BY DEF TypeOK
  <1>2. Children(childrenMap, fin)
            = {c \in allBlocks \ {RootId} : BlockNode[c].parent = fin}
    BY <1>1 DEF TreeExact
  <1>3. /\ DOMAIN WithChild(childrenMap, b) = DOMAIN childrenMap \cup {p}
        /\ \A q \in DOMAIN childrenMap \cup {p} :
              WithChild(childrenMap, b)[q]
                = Children(childrenMap, q) \cup (IF q = p THEN {b} ELSE {})
    BY DEF WithChild
  <1>4. fin \in DOMAIN childrenMap \cup {p}
    <2>1. CASE fin = p
      BY <2>1
    <2>2. CASE fin # p
      <3> DEFINE n == Len(PathTo[fin])
                 c == PathTo[p][n + 1]
      <3>1. /\ n \in Nat \ {0} /\ Len(PathTo[p]) \in Nat \ {0}
            /\ PathTo[p][Len(PathTo[p])] = p
        BY <1>1, PathEnd
      <3>2. n <= Len(PathTo[p]) /\ PathTo[p][n] = fin
        BY <1>1, PathPosition
      <3>3. n + 1 \in 2..Len(PathTo[p])
        BY <3>1, <3>2, <2>2
      <3>4. c \in Blocks /\ BlockNode[c].parent = PathTo[p][n]
        BY <3>1, <3>3, PathParent
      <3>5. c \in allBlocks
        BY <3>1, <3>3 DEF PathsClosed
      <3>6. c \in Children(childrenMap, fin)
        BY <1>2, <3>2, <3>4, <3>5, BlockFields
      <3> QED
        BY <3>6 DEF Children
    <2> QED
      BY <2>1, <2>2
  <1>5. WithChild(childrenMap, b)[fin]
            = Children(childrenMap, fin) \cup (IF fin = p THEN {b} ELSE {})
    BY <1>3, <1>4
  <1> QED
    BY <1>2, <1>3, <1>4, <1>5, BlockFields DEF TypeOK, BlockIds


\* The k-deep rule in terms of positions: nothing happens while b is at most k
\* above the finalized block; one more, and the child of the finalized block on
\* the path to b becomes final.
LEMMA FinalizeCases ==
    ASSUME TypeOK, TreeExact, PathsClosed, FinalityDepth,
           NEW b \in Blocks, NEW p \in allBlocks,
           p = BlockNode[b].parent, OnPath(finalizedBlockId, p),
           childrenMap' = WithChild(childrenMap, b), FinalizeBlock(b)
    PROVE  \/ /\ Len(PathTo[b]) <= Len(PathTo[finalizedBlockId]) + ConfirmationDepth
              /\ UNCHANGED finalityVars
           \/ /\ Len(PathTo[b]) = Len(PathTo[finalizedBlockId]) + ConfirmationDepth + 1
              /\ finalizedBlockId' \in allBlocks
              /\ finalizedBlockId' \in Blocks
              /\ BlockNode[finalizedBlockId'].parent = finalizedBlockId
              /\ Len(PathTo[finalizedBlockId']) = Len(PathTo[finalizedBlockId]) + 1
              /\ OnPath(finalizedBlockId', p)
              /\ finalizedBalanceMap' = Settle(finalizedBalanceMap, finalizedBlockId')
              /\ finalizedTxIds' = finalizedTxIds \cup TxIdsOf(finalizedBlockId')
  <1> DEFINE fin == finalizedBlockId
             f == Len(PathTo[fin])
             n == Len(PathTo[b])
             K == ConfirmationDepth
             new == Ancestor(b, K)
  <1>1. fin \in allBlocks /\ fin \in BlockIds /\ p \in BlockIds /\ K \in Nat \ {0}
    BY DepthAssumption DEF TypeOK
  <1>2. f \in Nat \ {0}
    BY <1>1, PathEnd
  <1>3. /\ n \in Nat \ {0, 1}
        /\ Len(PathTo[p]) = n - 1
        /\ PathTo[b][n - 1] = p
        /\ \A i \in 1..(n - 1) : /\ PathTo[b][i] = PathTo[p][i]
                                 /\ PathTo[b][i] \in allBlocks
                                 /\ Len(PathTo[PathTo[b][i]]) = i
        /\ \A i \in 2..n : /\ PathTo[b][i] \in Blocks
                           /\ BlockNode[PathTo[b][i]].parent = PathTo[b][i - 1]
    BY NewPath
  <1> HIDE DEF f, n
  <1>10. K \in Nat /\ f \in Nat /\ n \in Nat /\ K > 0 /\ f > 0 /\ n > 1
    BY <1>1, <1>2, <1>3
  <1>4. f <= n - 1 /\ PathTo[p][f] = fin
    BY <1>1, <1>3, PathPosition DEF f
  <1>5. PathTo[b][f] = fin
    BY <1>2, <1>3, <1>4
  <1>6. n <= f + K + 1
    <2>1. blockDepth[p] = Len(PathTo[p]) - 1 /\ blockDepth[fin] = f - 1
      BY <1>1 DEF TreeExact, Depth, f
    <2>2. blockDepth[p] <= blockDepth[fin] + K
      BY DEF FinalityDepth
    <2> QED
      BY <1>1, <1>2, <1>3, <2>1, <2>2
  <1>7. ASSUME NEW j \in Nat, j < n - 1
        PROVE  /\ Ancestor(b, j) = PathTo[b][n - j]
               /\ HeaderParent(Ancestor(b, j)) = PathTo[b][n - j - 1]
    <2>1. Ancestor(b, j) = PathTo[b][n - j]
      BY <1>3, <1>7 DEF Ancestor, Depth, n
    <2>2. n - j \in 2..n
      BY <1>3, <1>7
    <2>3. PathTo[b][n - j] \in Blocks /\ BlockNode[PathTo[b][n - j]].parent = PathTo[b][n - j - 1]
      BY <1>3, <2>2
    <2> QED
      BY <2>1, <2>3, BlockFields DEF HeaderParent
  <1>8. CASE n <= f + K
    <2>1. n - f - 1 \in 0..(K - 1) /\ n - f - 1 \in Nat /\ n - f - 1 < n - 1
      BY <1>10, <1>4, <1>8
    <2>2. HeaderParent(Ancestor(b, n - f - 1)) = PathTo[b][n - (n - f - 1) - 1]
      BY <1>7, <2>1
    <2>3. n - (n - f - 1) - 1 = f
      BY <1>10
    <2>4. TooShallow(b)
      BY <1>5, <2>1, <2>2, <2>3 DEF TooShallow
    <2> QED
      BY <1>8, <2>4 DEF FinalizeBlock, f, n
  <1>9. CASE n = f + K + 1
    <2>1. ASSUME NEW j \in 0..(K - 1)
          PROVE  HeaderParent(Ancestor(b, j)) # fin
      <3>1. j \in Nat /\ j < n - 1 /\ n - j - 1 \in 1..(n - 1) /\ n - j - 1 # f
        BY <1>1, <1>2, <1>3, <1>9
      <3>2. HeaderParent(Ancestor(b, j)) = PathTo[b][n - j - 1]
        BY <1>7, <3>1
      <3>3. Len(PathTo[PathTo[b][n - j - 1]]) = n - j - 1
        BY <1>3, <3>1
      <3> QED
        BY <3>1, <3>2, <3>3 DEF f
    <2>2. ~TooShallow(b)
      BY <2>1 DEF TooShallow
    <2>3. /\ K \in Nat /\ K < n - 1 /\ n - K = f + 1 /\ n - K - 1 = f
          /\ f + 1 \in 1..(n - 1) /\ f + 1 \in 2..n
      BY <1>1, <1>2, <1>3, <1>9
    <2>4. new = PathTo[b][f + 1]
      BY <1>7, <2>3
    <2>5. /\ new \in allBlocks /\ new \in Blocks
          /\ Len(PathTo[new]) = f + 1 /\ PathTo[p][f + 1] = new
      BY <1>3, <2>3, <2>4
    <2>6. BlockNode[new].parent = fin
      <3>1. BlockNode[PathTo[b][f + 1]].parent = PathTo[b][f + 1 - 1]
        BY <1>3, <2>3
      <3>2. f + 1 - 1 = f
        BY <1>2
      <3> QED
        BY <1>5, <2>4, <3>1, <3>2
    <2>7. new \in childrenMap'[fin]
      BY <2>5, <2>6, FinalizedChildren
    <2>8. OnPath(new, p)
      <3>1. f + 1 <= Len(PathTo[p])
        BY <1>2, <1>3, <2>3
      <3> QED
        BY <2>5, <3>1, PathPosition
    <2>9. /\ finalizedBlockId' = new
          /\ finalizedBalanceMap' = Settle(finalizedBalanceMap, new)
          /\ finalizedTxIds' = finalizedTxIds \cup TxIdsOf(new)
      BY <2>2, <2>7 DEF FinalizeBlock
    <2> HIDE DEF new
    <2> QED
      BY <1>9, <2>5, <2>6, <2>8, <2>9 DEF f, n
  <1> QED
    <2>1. n <= f + K \/ n = f + K + 1
      BY <1>10, <1>6
    <2> QED
      BY <2>1, <1>8, <1>9


-----------------------------------------------------------------------------
(* The conjuncts of the invariant after b is attached                      *)

\* The paths stay closed.
LEMMA AttachPaths ==
    ASSUME TypeOK, PathsClosed, NEW b \in Blocks, NEW p \in allBlocks,
           p = BlockNode[b].parent, allBlocks' = allBlocks \cup {b}
    PROVE  PathsClosed'
  <1> DEFINE n == Len(PathTo[b])
  <1>1. /\ n \in Nat \ {0, 1}
        /\ Len(PathTo[p]) = n - 1
        /\ PathTo[b][n] = b
        /\ \A i \in 1..(n - 1) : /\ PathTo[b][i] = PathTo[p][i]
                                 /\ PathTo[b][i] \in allBlocks
                                 /\ Len(PathTo[PathTo[b][i]]) = i
    BY NewPath
  <1>2. ASSUME NEW c \in allBlocks, NEW i \in 1..Len(PathTo[c])
        PROVE  /\ PathTo[c][i] \in allBlocks
               /\ Len(PathTo[PathTo[c][i]]) = i
               /\ \A j \in 1..i : PathTo[PathTo[c][i]][j] = PathTo[c][j]
    BY DEF PathsClosed
  <1>3. ASSUME NEW i \in 1..n
        PROVE  /\ PathTo[b][i] \in allBlocks \cup {b}
               /\ Len(PathTo[PathTo[b][i]]) = i
               /\ \A j \in 1..i : PathTo[PathTo[b][i]][j] = PathTo[b][j]
    <2> HIDE DEF n
    <2>1. CASE i = n
      BY <2>1, <1>1 DEF n
    <2>2. CASE i \in 1..(n - 1)
      <3>1. i \in 1..Len(PathTo[p])
        BY <2>2, <1>1
      <3>2. /\ PathTo[p][i] \in allBlocks
            /\ Len(PathTo[PathTo[p][i]]) = i
            /\ \A j \in 1..i : PathTo[PathTo[p][i]][j] = PathTo[p][j]
        BY <1>2, <3>1
      <3>3. \A j \in 1..i : PathTo[b][j] = PathTo[p][j]
        BY <1>1, <2>2
      <3> QED
        BY <3>1, <3>2, <3>3, <1>1, <2>2
    <2> QED
      BY <2>1, <2>2, <1>1
  <1> QED
    BY <1>2, <1>3 DEF PathsClosed

\* A block whose transactions are all paid for has no amount that cannot be read.
LEMMA PaidIsReadable ==
    ASSUME NEW b \in Blocks, SufficientBalance(b), ~Unreadable(b)
    PROVE  \A t \in TxIdsOf(b) : Transaction[t].readable
  <1> DEFINE txs == BlockNode[b].txs
  <1>1. txs \in Seq(Txs)
    BY BlockFields
  <1>2. DOMAIN txs = 1..Len(txs) /\ Len(txs) \in Nat
    BY <1>1
  <1>3. ASSUME NEW i \in DOMAIN txs
        PROVE  Transaction[txs[i]].readable
    <2>1. \A j \in 1..(i - 1) : j \in DOMAIN txs
      BY <1>2
    <2>2. \A j \in 1..(i - 1) : CanPay(CheckedBalance(b), txs, j)
      BY <2>1 DEF SufficientBalance, Funded
    <2> QED
      BY <2>2 DEF Unreadable
  <1> QED
    BY <1>3 DEF TxIdsOf, ToSet

\* The tree stays exact.
LEMMA AttachTree ==
    ASSUME TypeOK, TreeExact, PathsClosed, NEW b \in Blocks, NEW p \in allBlocks,
           p = BlockNode[b].parent, b \notin allBlocks, BlockNode[b].sound,
           SufficientBalance(b), ~Unreadable(b), UpdateBlocktree(b)
    PROVE  TreeExact'
  <1>1. /\ allBlocks' = allBlocks \cup {b}
        /\ blockDepth' = [x \in allBlocks \cup {b} |->
                             IF x = b THEN blockDepth[p] + 1 ELSE blockDepth[x]]
        /\ childrenMap' = WithChild(childrenMap, b)
    BY DEF UpdateBlocktree
  <1>2. b # RootId /\ RootId \in allBlocks
    BY BlockFields DEF TreeExact
  <1>3. \A c \in allBlocks' \ {RootId} :
            /\ BlockNode[c].sound /\ BlockNode[c].parent \in allBlocks'
            /\ \A t \in TxIdsOf(c) : Transaction[t].readable
    BY <1>1, PaidIsReadable DEF TreeExact
  <1>4. \A c \in allBlocks' : blockDepth'[c] = Depth(c)
    <2>1. Len(PathTo[p]) \in Nat /\ Len(PathTo[b]) = Len(PathTo[p]) + 1
      BY StepPath
    <2>2. blockDepth[p] = Len(PathTo[p]) - 1
      BY DEF TreeExact, Depth
    <2>3. blockDepth'[b] = Depth(b)
      BY <1>1, <2>1, <2>2 DEF Depth
    <2>4. \A c \in allBlocks : blockDepth'[c] = Depth(c)
      BY <1>1 DEF TreeExact
    <2> QED
      BY <1>1, <2>3, <2>4
  <1>5. ASSUME NEW q \in allBlocks'
        PROVE  Children(childrenMap', q) = {c \in allBlocks' \ {RootId} : BlockNode[c].parent = q}
    <2>1. Children(childrenMap', q) = Children(childrenMap, q) \cup (IF q = p THEN {b} ELSE {})
      BY <1>1 DEF WithChild, Children
    <2>2. CASE q \in allBlocks
      <3>1. Children(childrenMap, q) = {c \in allBlocks \ {RootId} : BlockNode[c].parent = q}
        BY <2>2 DEF TreeExact
      <3> QED
        BY <1>1, <1>2, <2>1, <3>1
    <2>3. CASE q = b
      <3>1. Children(childrenMap, q) = {}
        BY <2>3 DEF Children, TypeOK
      <3>2. \A c \in allBlocks' \ {RootId} : BlockNode[c].parent # b
        BY <1>1 DEF TreeExact
      <3> QED
        BY <2>1, <2>3, <3>1, <3>2
    <2> QED
      BY <1>1, <2>2, <2>3
  <1> QED
    BY <1>1, <1>2, <1>3, <1>4, <1>5 DEF TreeExact

\* The block chosen to work on is a child of b's parent.
LEMMA AttachWorking ==
    ASSUME TypeOK, TreeExact, NEW b \in Blocks, NEW p \in allBlocks,
           p = BlockNode[b].parent, UpdateBlocktree(b)
    PROVE  /\ workingBlockId' \in allBlocks'
           /\ workingBlockId' \in Blocks
           /\ BlockNode[workingBlockId'].parent = p
  <1>1. workingBlockId' \in WithChild(childrenMap, b)[p] /\ allBlocks' = allBlocks \cup {b}
    BY DEF UpdateBlocktree, LargestChild
  <1>2. workingBlockId' \in Children(childrenMap, p) \cup {b}
    BY <1>1 DEF WithChild
  <1>3. \A c \in Children(childrenMap, p) : /\ c \in allBlocks /\ c # RootId
                                           /\ BlockNode[c].parent = p
    BY DEF TreeExact
  <1> QED
    BY <1>1, <1>2, <1>3 DEF TypeOK, BlockIds

\* A block is below everything its parent is below.
LEMMA OnPathChild ==
    ASSUME NEW w \in Blocks, NEW p, p = BlockNode[w].parent, NEW a, OnPath(a, p)
    PROVE  OnPath(a, w)
  <1>1. p \in BlockIds /\ w \in BlockIds
    BY BlockFields
  <1>2. DOMAIN PathTo[p] = 1..Len(PathTo[p]) /\ DOMAIN PathTo[w] = 1..Len(PathTo[w])
    BY <1>1, BlocksAssumption
  <1>3. PICK i \in 1..Len(PathTo[p]) : PathTo[p][i] = a
    BY <1>2 DEF OnPath
  <1>4. PathTo[w][i] = a /\ i \in 1..Len(PathTo[w])
    BY <1>3, StepPath
  <1> QED
    BY <1>2, <1>4 DEF OnPath


\* The finalized block is above b's parent or is it, before and after.
LEMMA AttachFinalized ==
    ASSUME TypeOK, TreeExact, PathsClosed, FinalityDepth,
           NEW b \in Blocks, NEW p \in allBlocks, p = BlockNode[b].parent,
           RewardWalkStops(b), UpdateBlocktree(b)
    PROVE  OnPath(finalizedBlockId', p) /\ finalizedBlockId' \in allBlocks
  <1>1. OnPath(finalizedBlockId, p) /\ finalizedBlockId \in allBlocks
    BY RewardWalkMeetsFinalized DEF TypeOK
  <1>2. childrenMap' = WithChild(childrenMap, b) /\ FinalizeBlock(b)
    BY DEF UpdateBlocktree
  <1>3. \/ finalizedBlockId' = finalizedBlockId
        \/ OnPath(finalizedBlockId', p) /\ finalizedBlockId' \in allBlocks
    BY <1>1, <1>2, FinalizeCases DEF finalityVars
  <1> QED
    BY <1>1, <1>3

\* The walk over the rewards ends for a child of b.
LEMMA AttachRecursion ==
    ASSUME TypeOK, TreeExact, PathsClosed, FinalityDepth,
           NEW b \in Blocks, NEW p \in allBlocks, p = BlockNode[b].parent,
           RewardWalkStops(b), UpdateBlocktree(b), AdoptOrphan(b)
    PROVE  RecursionEnds'
  <1> DEFINE fin == finalizedBlockId'
             f == Len(PathTo[fin])
             n == Len(PathTo[b])
  <1>1. OnPath(fin, p) /\ fin \in allBlocks
    BY AttachFinalized
  <1>2. f \in Nat \ {0} /\ f <= Len(PathTo[p]) /\ PathTo[p][f] = fin
    BY <1>1, PathPosition, PathEnd DEF TypeOK
  <1>3. /\ n \in Nat \ {0, 1}
        /\ Len(PathTo[p]) = n - 1
        /\ \A i \in 1..(n - 1) : PathTo[b][i] = PathTo[p][i]
        /\ \A i \in 2..n : /\ PathTo[b][i] \in Blocks
                           /\ BlockNode[PathTo[b][i]].parent = PathTo[b][i - 1]
    BY NewPath
  <1> HIDE DEF f, n
  <1>4. f \in 1..(n - 1) /\ f + 1 \in 2..n /\ f + 1 - 1 = f /\ f + 1 \in 1..n
    BY <1>2, <1>3
  <1>5. PathTo[b][f + 1] \in Blocks /\ BlockNode[PathTo[b][f + 1]].parent = fin
    BY <1>2, <1>3, <1>4
  <1>6. HeaderParent(PathTo[b][f + 1]) = fin
    BY <1>5, BlockFields DEF HeaderParent
  <1>7. DOMAIN PathTo[b] = 1..n
    BY BlocksAssumption DEF BlockIds, n
  <1>8. PathTo[b][f + 1] \in ToSet(PathTo[b])
    BY <1>4, <1>7 DEF ToSet
  <1>9. ASSUME NEW o \in OrphanChildren(b), call' = o
        PROVE  RewardWalkStops(call)'
    <2>1. BlockNode[call'].parent = b
      BY <1>9 DEF OrphanChildren
    <2> QED
      BY <1>6, <1>8, <2>1 DEF RewardWalkStops
  <1> QED
    BY <1>9 DEF RecursionEnds, AdoptOrphan

\* The k-deep rule still holds, and the working block is still below the
\* finalized one.
LEMMA AttachFinality ==
    ASSUME TypeOK, TreeExact, PathsClosed, FinalityDepth, TypeOK', TreeExact', PathsClosed',
           NEW b \in Blocks, NEW p \in allBlocks, p = BlockNode[b].parent,
           b \notin allBlocks, RewardWalkStops(b), UpdateBlocktree(b)
    PROVE  FinalityDepth' /\ WorkingBelowFinalized'
  <1> DEFINE fin == finalizedBlockId
             f == Len(PathTo[fin])
             f1 == Len(PathTo[fin'])
             n == Len(PathTo[b])
             K == ConfirmationDepth
  <1>1. /\ allBlocks' = allBlocks \cup {b}
        /\ childrenMap' = WithChild(childrenMap, b)
        /\ FinalizeBlock(b)
    BY DEF UpdateBlocktree
  <1>2. OnPath(fin, p)
    BY RewardWalkMeetsFinalized
  <1>3. \/ n <= f + K /\ fin' = fin
        \/ n = f + K + 1 /\ f1 = f + 1 /\ OnPath(fin', p)
    BY <1>1, <1>2, FinalizeCases DEF finalityVars
  <1>4. OnPath(fin', p)
    BY <1>2, <1>3
  <1>5. WorkingBelowFinalized'
    BY <1>4, AttachWorking, OnPathChild DEF WorkingBelowFinalized, PendingWalkStops, OnPath
  <1>6. /\ fin \in allBlocks /\ fin \in BlockIds /\ fin' \in allBlocks' /\ fin' \in BlockIds
        /\ K \in Nat
    BY DepthAssumption DEF TypeOK
  <1>7. f \in Nat /\ f1 \in Nat /\ n \in Nat
    BY <1>6, PathEnd, BlockFields
  <1>8. \A c \in allBlocks : Len(PathTo[c]) \in Nat /\ Len(PathTo[c]) <= f + K
    <2>1. ASSUME NEW c \in allBlocks
          PROVE  Len(PathTo[c]) \in Nat /\ Len(PathTo[c]) <= f + K
      <3>1. Len(PathTo[c]) \in Nat
        BY PathEnd DEF TypeOK
      <3>2. blockDepth[c] = Len(PathTo[c]) - 1 /\ blockDepth[fin] = f - 1
        BY <1>6 DEF TreeExact, Depth
      <3>3. blockDepth[c] <= blockDepth[fin] + K
        BY DEF FinalityDepth
      <3> HIDE DEF f, fin
      <3> QED
        BY <3>1, <3>2, <3>3, <1>6, <1>7
    <2> QED
      BY <2>1
  <1>9. \A c \in allBlocks' : blockDepth'[c] = Len(PathTo[c]) - 1
    BY DEF TreeExact, Depth
  <1>10. blockDepth'[fin'] = f1 - 1
    BY <1>6, <1>9
  <1>11. ASSUME NEW c \in allBlocks'
         PROVE  blockDepth'[c] <= blockDepth'[fin'] + K
    <2>1. Len(PathTo[c]) \in Nat /\ Len(PathTo[c]) <= f1 + K
      <3>1. CASE c = b
        BY <3>1, <1>3, <1>6, <1>7
      <3>2. CASE c \in allBlocks
        BY <3>2, <1>3, <1>6, <1>7, <1>8
      <3> QED
        BY <1>1, <3>1, <3>2
    <2>2. blockDepth'[c] = Len(PathTo[c]) - 1
      BY <1>9
    <2> HIDE DEF f1
    <2> QED
      BY <2>1, <2>2, <1>6, <1>7, <1>10
  <1>12. fin' = RootId \/ \E c \in allBlocks' : OnPath(fin', c) /\ blockDepth'[c] = blockDepth'[fin'] + K
    <2>1. CASE n <= f + K /\ fin' = fin
      <3>1. blockDepth'[fin] = blockDepth[fin] /\ \A c \in allBlocks : blockDepth'[c] = blockDepth[c]
        BY <1>6 DEF UpdateBlocktree
      <3>2. fin = RootId \/ \E c \in allBlocks : OnPath(fin, c) /\ blockDepth[c] = blockDepth[fin] + K
        BY DEF FinalityDepth
      <3> QED
        BY <1>1, <2>1, <3>1, <3>2
    <2>2. CASE n = f + K + 1 /\ f1 = f + 1
      <3>1. OnPath(fin', b)
        BY <1>4, OnPathChild DEF OnPath
      <3>2. blockDepth'[b] = n - 1
        BY <1>1, <1>9
      <3>3. n - 1 = f1 - 1 + K
        <4> HIDE DEF n, f, f1
        <4> QED
          BY <2>2, <1>6, <1>7
      <3> QED
        BY <1>1, <1>10, <3>1, <3>2, <3>3
    <2> QED
      BY <1>3, <2>1, <2>2
  <1> QED
    BY <1>5, <1>11, <1>12 DEF FinalityDepth, OnPath


\* The variables keep their types.
LEMMA AttachTypes ==
    ASSUME TypeOK, TreeExact, PathsClosed, FinalityDepth,
           NEW b \in Blocks, NEW p \in allBlocks, p = BlockNode[b].parent,
           RewardWalkStops(b), UpdateBlocktree(b), AdoptOrphan(b), UNCHANGED hung
    PROVE  TypeOK'
  <1>1. /\ allBlocks' = allBlocks \cup {b}
        /\ blockDepth' = [x \in allBlocks \cup {b} |->
                             IF x = b THEN blockDepth[p] + 1 ELSE blockDepth[x]]
        /\ childrenMap' = WithChild(childrenMap, b)
        /\ FinalizeBlock(b)
    BY DEF UpdateBlocktree
  <1>2. allBlocks' \subseteq BlockIds /\ blockDepth' \in [allBlocks' -> Nat]
    BY <1>1 DEF TypeOK, BlockIds
  <1>3. /\ childrenMap' \in [DOMAIN childrenMap' -> SUBSET Blocks]
        /\ DOMAIN childrenMap' \subseteq allBlocks'
    BY <1>1 DEF WithChild, Children, TypeOK
  <1>4. workingBlockId' \in allBlocks'
    BY AttachWorking
  <1>5. /\ finalizedBlockId' \in allBlocks'
        /\ DOMAIN finalizedBalanceMap' = Users
        /\ finalizedTxIds' \subseteq Txs
    <2>1. CASE UNCHANGED finalityVars
      BY <1>1, <2>1 DEF TypeOK, finalityVars
    <2>2. CASE /\ finalizedBlockId' \in allBlocks
               /\ finalizedBlockId' \in Blocks
               /\ finalizedBalanceMap' = Settle(finalizedBalanceMap, finalizedBlockId')
               /\ finalizedTxIds' = finalizedTxIds \cup TxIdsOf(finalizedBlockId')
      <3>1. DOMAIN finalizedBalanceMap' = Users
        BY <2>2 DEF Settle, PayReward
      <3>2. BlockNode[finalizedBlockId'].txs \in Seq(Txs)
        BY <2>2, BlockFields
      <3>3. TxIdsOf(finalizedBlockId') \subseteq Txs
        BY <3>2 DEF TxIdsOf, ToSet
      <3> QED
        BY <1>1, <2>2, <3>1, <3>3 DEF TypeOK
    <2> QED
      BY <1>1, <2>1, <2>2, FinalizeCases, RewardWalkMeetsFinalized
  <1>6. orphans' \subseteq Blocks /\ call' \in Blocks \cup {NoBlock} /\ hung' \in BOOLEAN
    BY DEF AdoptOrphan, OrphanChildren, TypeOK
  <1> QED
    BY <1>2, <1>3, <1>4, <1>5, <1>6 DEF TypeOK

\* The recursion is given a sound orphan that is not attached.
LEMMA AttachCall ==
    ASSUME TreeExact, OrphansSound, TypeOK, NEW b \in Blocks, b \notin allBlocks,
           BlockNode[b].parent \in allBlocks,
           allBlocks' = allBlocks \cup {b}, AdoptOrphan(b)
    PROVE  OrphansSound' /\ OrphanCallReady'
  <1>1. orphans' \subseteq orphans
    BY DEF AdoptOrphan
  <1>2. CASE OrphanChildren(b) = {} /\ call' = NoBlock
    BY <1>1, <1>2 DEF OrphansSound, OrphanCallReady
  <1>3. ASSUME NEW o \in OrphanChildren(b), call' = o
        PROVE  OrphansSound' /\ OrphanCallReady'
    <2>1. o \in orphans /\ BlockNode[o].parent = b /\ o # RootId
      BY BlockFields DEF OrphanChildren, TypeOK
    <2>2. o # b
      BY <2>1
    <2>3. o \notin allBlocks
      BY <2>1 DEF TreeExact
    <2> QED
      BY <1>1, <1>3, <2>1, <2>2, <2>3 DEF OrphansSound, OrphanCallReady
  <1> QED
    BY <1>2, <1>3 DEF AdoptOrphan

\* Whatever ParentFound does with a checked block, the invariant is kept.
LEMMA ParentFoundKeepsIInv ==
    ASSUME IInv, NEW b \in Blocks, b \notin allBlocks, BlockNode[b].sound,
           BlockNode[b].parent \in allBlocks, ParentFound(b)
    PROVE  IInv'
  <1> DEFINE p == BlockNode[b].parent
  <1> USE DEF IInv
  <1>1. CASE UNCHANGED <<treeVars, orphans, finalityVars>> /\ call' = NoBlock /\ UNCHANGED hung
    <2>1. NoBlock \in Blocks \cup {NoBlock}
      OBVIOUS
    <2> QED
      BY <1>1, <2>1 DEF treeVars, finalityVars, TypeOK, TreeExact, PathsClosed,
            WorkingBelowFinalized, PendingWalkStops, FinalityDepth,
            OrphansSound, OrphanCallReady,
          RecursionEnds, RewardWalkStops, OnPath
  <1>2. CASE UNCHANGED <<treeVars, orphans, finalityVars, call>> /\ hung' = TRUE
    BY <1>2 DEF treeVars, finalityVars, TypeOK, TreeExact, PathsClosed,
          WorkingBelowFinalized, PendingWalkStops, FinalityDepth,
          OrphansSound, OrphanCallReady,
          RecursionEnds, RewardWalkStops, OnPath
  <1>3. CASE /\ RewardWalkStops(b) /\ SufficientBalance(b) /\ ~Unreadable(b)
             /\ UpdateBlocktree(b) /\ AdoptOrphan(b) /\ UNCHANGED hung
    <2>1. p \in allBlocks /\ allBlocks' = allBlocks \cup {b}
      BY <1>3 DEF UpdateBlocktree
    <2>2. TypeOK'
      BY <1>3, <2>1, AttachTypes
    <2>3. TreeExact'
      BY <1>3, <2>1, AttachTree
    <2>4. PathsClosed'
      BY <2>1, AttachPaths
    <2>5. FinalityDepth' /\ WorkingBelowFinalized'
      BY <1>3, <2>1, <2>2, <2>3, <2>4, AttachFinality
    <2>6. RecursionEnds'
      BY <1>3, <2>1, AttachRecursion
    <2>7. OrphansSound' /\ OrphanCallReady'
      BY <1>3, <2>1, AttachCall
    <2> QED
      BY <2>2, <2>3, <2>4, <2>5, <2>6, <2>7
  <1> QED
    BY <1>1, <1>2, <1>3 DEF ParentFound

-----------------------------------------------------------------------------
(* The specification                                                       *)

LEMMA InitIInv == Init => IInv
  <1> SUFFICES ASSUME Init PROVE IInv
    OBVIOUS
  <1> USE DEF Init
  <1>1. PathTo[RootId] = <<RootId>> /\ RootId \in BlockIds /\ RootId \notin Blocks
    BY BlocksAssumption DEF BlockIds
  <1>2. Len(<<RootId>>) = 1 /\ <<RootId>>[1] = RootId /\ DOMAIN <<RootId>> = 1..1
    OBVIOUS
  <1>3. DOMAIN childrenMap = {}
    OBVIOUS
  <1>4. TypeOK
    <2>1. childrenMap \in [DOMAIN childrenMap -> SUBSET Blocks] /\ DOMAIN childrenMap \subseteq allBlocks
      BY <1>3
    <2>2. blockDepth \in [allBlocks -> Nat]
      OBVIOUS
    <2>3. DOMAIN finalizedBalanceMap = Users
      BY LedgerAssumption
    <2>4. /\ allBlocks \subseteq BlockIds /\ workingBlockId \in allBlocks
          /\ orphans \subseteq Blocks /\ finalizedBlockId \in allBlocks
          /\ finalizedTxIds \subseteq Txs /\ call \in Blocks \cup {NoBlock} /\ hung \in BOOLEAN
      BY <1>1
    <2> QED
      BY <2>1, <2>2, <2>3, <2>4 DEF TypeOK
  <1>5. TreeExact
    <2>1. blockDepth[RootId] = 0 /\ Depth(RootId) = 0
      BY <1>1, <1>2 DEF Depth
    <2>2. \A q \in allBlocks : Children(childrenMap, q) = {}
      BY <1>3 DEF Children
    <2>3. \A q \in allBlocks : {b \in allBlocks \ {RootId} : BlockNode[b].parent = q} = {}
      OBVIOUS
    <2> QED
      BY <2>1, <2>2, <2>3 DEF TreeExact
  <1>6. PathsClosed
    <2>1. \A i \in 1..1 : i = 1
      OBVIOUS
    <2>2. Len(PathTo[RootId]) = 1 /\ PathTo[RootId][1] = RootId
      BY <1>1, <1>2
    <2> QED
      BY <2>1, <2>2 DEF PathsClosed
  <1>7. WorkingBelowFinalized
    BY <1>1, <1>2 DEF WorkingBelowFinalized, PendingWalkStops, OnPath
  <1>8. FinalityDepth
    BY DepthAssumption DEF FinalityDepth
  <1>9. OrphansSound /\ OrphanCallReady /\ RecursionEnds
    BY DEF OrphansSound, OrphanCallReady, RecursionEnds
  <1> QED
    BY <1>4, <1>5, <1>6, <1>7, <1>8, <1>9 DEF IInv

LEMMA NextIInv == IInv /\ [Next]_vars => IInv'
  <1> SUFFICES ASSUME IInv, [Next]_vars PROVE IInv'
    OBVIOUS
  <1>1. CASE UNCHANGED vars
    BY <1>1 DEF vars, IInv, treeVars, finalityVars, TypeOK, TreeExact, PathsClosed,
          WorkingBelowFinalized, PendingWalkStops, FinalityDepth,
          OrphansSound, OrphanCallReady,
          RecursionEnds, RewardWalkStops, OnPath
  <1>2. CASE AddOrphanBlock
    <2>1. /\ call \in Blocks /\ call \notin allBlocks /\ BlockNode[call].sound
          /\ BlockNode[call].parent \in allBlocks /\ ParentFound(call)
      BY <1>2 DEF AddOrphanBlock, IInv, TypeOK, OrphanCallReady
    <2> QED
      BY <2>1, ParentFoundKeepsIInv
  <1>3. ASSUME NEW b \in Blocks, IgnoreBlock(b)
        PROVE  IInv'
    BY <1>1, <1>3 DEF IgnoreBlock
  <1>4. ASSUME NEW b \in Blocks, KeepOrphan(b)
        PROVE  IInv'
    <2>1. orphans' = orphans \cup {b} /\ BlockNode[b].sound
      BY <1>4 DEF KeepOrphan
    <2>2. UNCHANGED <<treeVars, finalityVars, call, hung>>
      BY <1>4 DEF KeepOrphan
    <2>3. TypeOK'
      BY <2>1, <2>2 DEF IInv, TypeOK, treeVars, finalityVars
    <2>4. OrphansSound'
      BY <2>1 DEF IInv, OrphansSound
    <2> QED
      BY <2>2, <2>3, <2>4 DEF IInv, treeVars, finalityVars, TreeExact, PathsClosed,
            WorkingBelowFinalized, PendingWalkStops, FinalityDepth,
            OrphanCallReady, RecursionEnds, RewardWalkStops, OnPath
  <1>5. ASSUME NEW b \in Blocks, AttachBlock(b)
        PROVE  IInv'
    <2>1. /\ b \notin allBlocks /\ BlockNode[b].sound
          /\ BlockNode[b].parent \in allBlocks /\ ParentFound(b)
      BY <1>5 DEF AttachBlock, Known
    <2> QED
      BY <2>1, ParentFoundKeepsIInv
  <1>6. ASSUME NEW b \in Blocks, PanicOnBlock(b)
        PROVE  IInv'
    BY <1>6 DEF PanicOnBlock, IInv, treeVars, finalityVars, TypeOK, TreeExact, PathsClosed,
          WorkingBelowFinalized, PendingWalkStops, FinalityDepth, OrphansSound,
          OrphanCallReady, RecursionEnds, RewardWalkStops, OnPath
  <1> QED
    BY <1>1, <1>2, <1>3, <1>4, <1>5, <1>6 DEF Next, AddBlock


LEMMA Inductive == Spec => []IInv
  BY InitIInv, NextIInv, PTL DEF Spec

\* The variables of the block tree keep their types, whatever blocks are given
\* to add_block.
THEOREM TypeCorrect == Spec => []TypeOK
  <1>1. IInv => TypeOK
    BY DEF IInv
  <1> QED
    BY <1>1, Inductive, PTL

\* update_blocktree keeps all_blocks, block_depth and children_map consistent.
THEOREM TreeCorrect == Spec => []TreeExact
  <1>1. IInv => TreeExact
    BY DEF IInv
  <1> QED
    BY <1>1, Inductive, PTL

\* The working block always descends from the finalized block, so
\* get_pending_finalization_txs always returns.
THEOREM WorkingCorrect == Spec => []WorkingBelowFinalized
  <1>1. IInv => WorkingBelowFinalized
    BY DEF IInv
  <1> QED
    BY <1>1, Inductive, PTL

\* finalize_block finalizes exactly the blocks that have k confirmations.
THEOREM DepthCorrect == Spec => []FinalityDepth
  <1>1. IInv => FinalityDepth
    BY DEF IInv
  <1> QED
    BY <1>1, Inductive, PTL

\* The walk over the rewards of block.rs:472 always ends in the recursion.
THEOREM RecursionCorrect == Spec => []RecursionEnds
  <1>1. IInv => RecursionEnds
    BY DEF IInv
  <1> QED
    BY <1>1, Inductive, PTL

\* The early returns of add_orphan_block are never taken.
THEOREM CallCorrect == Spec => []OrphanCallReady
  <1>1. IInv => OrphanCallReady
    BY DEF IInv
  <1> QED
    BY <1>1, Inductive, PTL

\* A step either leaves the tree alone or attaches a checked block below the
\* finalized block.
LEMMA StepCases ==
    ASSUME IInv, [Next]_vars
    PROVE  \/ UNCHANGED <<treeVars, finalityVars>>
           \/ \E b \in Blocks : /\ b \notin allBlocks /\ BlockNode[b].sound
                               /\ BlockNode[b].parent \in allBlocks
                               /\ RewardWalkStops(b) /\ SufficientBalance(b)
                               /\ UpdateBlocktree(b)
  <1>1. CASE UNCHANGED vars
    BY <1>1 DEF vars
  <1>2. ASSUME NEW b \in Blocks, ParentFound(b)
        PROVE  \/ UNCHANGED <<treeVars, finalityVars>>
               \/ RewardWalkStops(b) /\ SufficientBalance(b) /\ UpdateBlocktree(b)
    BY <1>2 DEF ParentFound
  <1>3. CASE AddOrphanBlock
    <2>1. /\ call \in Blocks /\ call \notin allBlocks /\ BlockNode[call].sound
          /\ BlockNode[call].parent \in allBlocks /\ ParentFound(call)
      BY <1>3 DEF AddOrphanBlock, IInv, TypeOK, OrphanCallReady
    <2> QED
      BY <1>2, <2>1
  <1>4. ASSUME NEW b \in Blocks, AddBlock(b)
        PROVE  \/ UNCHANGED <<treeVars, finalityVars>>
               \/ /\ b \notin allBlocks /\ BlockNode[b].sound
                  /\ BlockNode[b].parent \in allBlocks
                  /\ RewardWalkStops(b) /\ SufficientBalance(b) /\ UpdateBlocktree(b)
    <2>1. CASE IgnoreBlock(b)
      BY <1>1, <2>1 DEF IgnoreBlock, vars
    <2>2. CASE KeepOrphan(b)
      BY <2>2 DEF KeepOrphan
    <2>3. CASE AttachBlock(b)
      BY <1>2, <2>3 DEF AttachBlock, Known
    <2>4. CASE PanicOnBlock(b)
      BY <2>4 DEF PanicOnBlock
    <2> QED
      BY <1>4, <2>1, <2>2, <2>3, <2>4 DEF AddBlock
  <1> QED
    BY <1>1, <1>3, <1>4 DEF Next

\* finalize_block's unwrap of the finalized block's children never fails.
THEOREM FinalizeNeverPanics == Spec => NoUnwrapPanic
  <1>1. IInv /\ [Next]_vars =>
            [allBlocks' # allBlocks => finalizedBlockId \in DOMAIN childrenMap']_vars
    <2> SUFFICES ASSUME IInv, [Next]_vars, allBlocks' # allBlocks
                 PROVE  finalizedBlockId \in DOMAIN childrenMap'
      OBVIOUS
    <2>1. PICK b \in Blocks : /\ BlockNode[b].parent \in allBlocks
                              /\ RewardWalkStops(b) /\ UpdateBlocktree(b)
      BY StepCases DEF treeVars
    <2>2. OnPath(finalizedBlockId, BlockNode[b].parent)
      BY <2>1, RewardWalkMeetsFinalized DEF IInv
    <2> QED
      BY <2>1, <2>2, FinalizedChildren DEF IInv, UpdateBlocktree
  <1> QED
    BY <1>1, Inductive, PTL DEF Spec, NoUnwrapPanic

\* The finalized block, balances and transaction ids implement a log that only
\* grows: each settles one more child of the last finalized block.
THEOREM FinalityImplemented == Spec => FinalityOnlyGrows
  <1>1. Init => Finality!LogInit
    BY BlocksAssumption DEF Init, Finality!LogInit
  <1>2. IInv /\ [Next]_vars => [Finality!LogNext]_(Finality!logVars)
    <2> SUFFICES ASSUME IInv, [Next]_vars
                 PROVE  [Finality!LogNext]_(Finality!logVars)
      OBVIOUS
    <2>1. CASE UNCHANGED finalityVars
      BY <2>1 DEF finalityVars, Finality!logVars
    <2>2. ASSUME finalizedBlockId' \in Blocks,
                 BlockNode[finalizedBlockId'].parent = finalizedBlockId,
                 finalizedBalanceMap' = Settle(finalizedBalanceMap, finalizedBlockId'),
                 finalizedTxIds' = finalizedTxIds \cup TxIdsOf(finalizedBlockId')
          PROVE  Finality!SettleNext(finalizedBlockId')
      <3>1. PathTo[finalizedBlockId'] = Append(PathTo[finalizedBlockId], finalizedBlockId')
        BY <2>2, BlocksAssumption
      <3>2. PathTo[finalizedBlockId][Len(PathTo[finalizedBlockId])] = finalizedBlockId
        BY PathEnd DEF IInv, TypeOK
      <3> QED
        BY <2>2, <3>1, <3>2, BlockFields DEF Finality!SettleNext, HeaderParent
    <2>3. ASSUME NEW b \in Blocks, BlockNode[b].parent \in allBlocks,
                 RewardWalkStops(b), UpdateBlocktree(b)
          PROVE  [Finality!LogNext]_(Finality!logVars)
      <3>1. OnPath(finalizedBlockId, BlockNode[b].parent)
        BY <2>3, RewardWalkMeetsFinalized DEF IInv
      <3>2. childrenMap' = WithChild(childrenMap, b) /\ FinalizeBlock(b)
        BY <2>3 DEF UpdateBlocktree
      <3> QED
        BY <2>1, <2>2, <2>3, <3>1, <3>2, FinalizeCases DEF IInv, Finality!LogNext
    <2> QED
      BY <2>1, <2>3, StepCases
  <1> QED
    BY <1>1, <1>2, Inductive, PTL DEF Spec, FinalityOnlyGrows, Finality!LogSpec

-----------------------------------------------------------------------------
(* Balances                                                                *)

\* finalizedBalanceMap holds the balances the documentation defines.
BalanceExact == finalizedBalanceMap = LedgerAt(finalizedBlockId)

LEMMA BalanceStep == IInv /\ BalanceExact /\ [Next]_vars => BalanceExact'
  <1> SUFFICES ASSUME IInv, BalanceExact, [Next]_vars PROVE BalanceExact'
    OBVIOUS
  <1>1. CASE UNCHANGED finalityVars
    BY <1>1 DEF BalanceExact, finalityVars
  <1>2. ASSUME finalizedBlockId' \in Blocks,
               BlockNode[finalizedBlockId'].parent = finalizedBlockId,
               finalizedBalanceMap' = Settle(finalizedBalanceMap, finalizedBlockId')
        PROVE  BalanceExact'
    <2>1. finalizedBlockId' \in BlockIds
      BY <1>2 DEF BlockIds
    <2>2. LedgerAt(finalizedBlockId') = Settle(LedgerAt(finalizedBlockId), finalizedBlockId')
      BY <1>2, <2>1, LedgerStep
    <2> QED
      BY <1>2, <2>2 DEF BalanceExact
  <1>3. ASSUME NEW b \in Blocks, BlockNode[b].parent \in allBlocks,
               RewardWalkStops(b), UpdateBlocktree(b)
        PROVE  BalanceExact'
    <2>1. OnPath(finalizedBlockId, BlockNode[b].parent)
      BY <1>3, RewardWalkMeetsFinalized DEF IInv
    <2>2. childrenMap' = WithChild(childrenMap, b) /\ FinalizeBlock(b)
      BY <1>3 DEF UpdateBlocktree
    <2> QED
      BY <1>1, <1>2, <1>3, <2>1, <2>2, FinalizeCases DEF IInv
  <1> QED
    BY <1>1, <1>3, StepCases

\* The balances a finalized block leaves are those of the whole chain below it:
\* finalize_block settles no block twice, out of order or not at all.
THEOREM BalancesFromGenesis == Spec => []BalanceExact
  <1>1. Init => BalanceExact
    BY LedgerStep DEF Init, BalanceExact, BlockIds
  <1> QED
    BY <1>1, BalanceStep, Inductive, PTL DEF Spec

\* A block attached to the working block is funded.
LEMMA FundedStep ==
    ASSUME IInv, BalanceExact, NEW b \in Blocks, BlockNode[b].parent = workingBlockId,
           SufficientBalance(b)
    PROVE  Funded(LedgerAt(workingBlockId), BlockNode[b].txs)
  <1> DEFINE fin == finalizedBlockId
             w == workingBlockId
             txs == BlockNode[b].txs
             low == PayRewards(PayBlocks(LedgerAt(fin), BlocksAfter(fin, w)), Rewarded(fin, w))
             high == LedgerAt(w)
  <1>1. fin \in BlockIds /\ w \in BlockIds /\ OnPath(fin, w)
    BY DEF IInv, TypeOK, WorkingBelowFinalized, PendingWalkStops
  <1>2. Funded(low, txs)
    BY DEF SufficientBalance, CheckedBalance, RewardBlocks, Rewarded, BalanceExact
  <1>3. txs \in Seq(Txs)
    BY BlockFields
  <1>4. high \in Balances
    BY <1>1, LedgerStep
  <1>5. low \in Balances /\ (\A u \in Users : low[u] <= high[u])
    BY <1>1, PayPendingTyped, PendingBelowLedger
  <1> HIDE DEF low, high, txs
  <1>6. Funded(high, txs)
    BY <1>2, <1>3, <1>4, <1>5, FundedWithMore
  <1> QED
    BY <1>6 DEF high, txs

\* A block that is attached to the working block can pay for its transactions
\* out of the balances before it, in any tree of blocks.
THEOREM FundedOnWorkingBlock == Spec => FundedOnWorking
  <1>1. IInv /\ BalanceExact /\ [Next]_vars =>
            [\A b \in allBlocks' \ allBlocks :
                BlockNode[b].parent = workingBlockId =>
                    Funded(LedgerAt(workingBlockId), BlockNode[b].txs)]_vars
    <2> SUFFICES ASSUME IInv, BalanceExact, [Next]_vars, NEW b \in allBlocks' \ allBlocks,
                        BlockNode[b].parent = workingBlockId
                 PROVE  Funded(LedgerAt(workingBlockId), BlockNode[b].txs)
      OBVIOUS
    <2>1. b \in Blocks /\ SufficientBalance(b)
      BY StepCases DEF treeVars, UpdateBlocktree
    <2> QED
      BY <2>1, FundedStep
  <1> QED
    BY <1>1, Inductive, BalancesFromGenesis, PTL DEF Spec, FundedOnWorking

\* Every attached block is on the path to the working block.
OneChain == \A x \in allBlocks : OnPath(x, workingBlockId)

LEMMA OneChainStep ==
    ASSUME NoForks, IInv, OneChain, NEW b \in Blocks, b \notin allBlocks,
           BlockNode[b].sound, BlockNode[b].parent \in allBlocks, UpdateBlocktree(b)
    PROVE  BlockNode[b].parent = workingBlockId /\ OneChain'
  <1> DEFINE p == BlockNode[b].parent
             w == workingBlockId
             q == PathTo[w]
  <1>1. p \in BlockIds /\ w \in BlockIds /\ w \in allBlocks /\ OnPath(p, w)
    BY DEF IInv, TypeOK, OneChain
  <1>2. ASSUME p # w
        PROVE  FALSE
    <2> DEFINE i == Len(PathTo[p])
    <2>1. i \in Nat \ {0} /\ Len(q) \in Nat \ {0} /\ i <= Len(q) /\ q[i] = p /\ q[Len(q)] = w
      BY <1>1, PathEnd, OnPathBeginning
    <2>2. i + 1 \in 2..Len(q) /\ i + 1 \in 1..Len(q) /\ (i + 1) - 1 = i
      BY <1>2, <2>1
    <2> DEFINE c == q[i + 1]
    <2>3. c \in Blocks /\ BlockNode[c].parent = p
      BY <1>1, <2>1, <2>2, PathStep
    <2>4. c \in allBlocks
      BY <1>1, <2>2 DEF IInv, PathsClosed
    <2>5. c # RootId
      BY <2>3, BlocksAssumption
    <2> HIDE DEF c
    <2>6. BlockNode[c].sound
      BY <2>4, <2>5 DEF IInv, TreeExact
    <2> QED
      BY <2>3, <2>4, <2>6 DEF NoForks
  <1>3. p = w
    BY <1>2
  <1>4. workingBlockId' = b
    <2>1. workingBlockId' \in childrenMap'[p] /\ childrenMap' = WithChild(childrenMap, b)
      BY DEF UpdateBlocktree, LargestChild
    <2>2. workingBlockId' \in Children(childrenMap, p) \cup {b}
      BY <2>1 DEF WithChild
    <2>3. ASSUME NEW c \in Children(childrenMap, p)
          PROVE  FALSE
      <3>1. c \in allBlocks \ {RootId} /\ BlockNode[c].parent = p
        BY DEF IInv, TreeExact
      <3>2. c \in Blocks /\ BlockNode[c].sound
        BY <3>1 DEF IInv, TypeOK, TreeExact, BlockIds
      <3> QED
        BY <3>1, <3>2 DEF NoForks
    <2> QED
      BY <2>2, <2>3
  <1>5. OneChain'
    <2>1. b \in BlockIds /\ allBlocks' = allBlocks \cup {b} /\ OnPath(b, b)
      BY OnPathReflexive DEF BlockIds, UpdateBlocktree
    <2>2. OnPath(w, b)
      BY <1>1, <1>3, OnPathReflexive, OnPathChild
    <2>3. ASSUME NEW x \in allBlocks
          PROVE  OnPath(x, b)
      <3>1. x \in BlockIds /\ OnPath(x, w)
        BY DEF IInv, TypeOK, OneChain
      <3> QED
        BY <1>1, <2>1, <2>2, <3>1, OnPathTransitive
    <2>4. \A x \in allBlocks' : OnPath(x, b)
      BY <2>1, <2>3
    <2> QED
      BY <1>4, <2>4 DEF OneChain, OnPath
  <1> QED
    BY <1>3, <1>5

\* Without forks no attached block spends more than there is: the check of
\* verify_block_ancestry is then made against the block's own parent.
THEOREM FundedWithoutForks ==
    ASSUME NoForks
    PROVE  Spec => []NoOverdraft
  <1> DEFINE Inv == OneChain /\ NoOverdraft
  <1>1. Init => Inv
    <2> SUFFICES ASSUME Init PROVE Inv
      OBVIOUS
    <2>1. RootId \in BlockIds
      BY DEF BlockIds
    <2> QED
      BY <2>1, OnPathReflexive DEF Init, OneChain, NoOverdraft
  <1>2. IInv /\ BalanceExact /\ Inv /\ [Next]_vars => Inv'
    <2> SUFFICES ASSUME IInv, BalanceExact, Inv, [Next]_vars PROVE Inv'
      OBVIOUS
    <2>1. CASE UNCHANGED <<treeVars, finalityVars>>
      BY <2>1 DEF treeVars, OneChain, NoOverdraft, OnPath
    <2>2. ASSUME NEW b \in Blocks, b \notin allBlocks, BlockNode[b].sound,
                 BlockNode[b].parent \in allBlocks, SufficientBalance(b), UpdateBlocktree(b)
          PROVE  Inv'
      <3>1. BlockNode[b].parent = workingBlockId /\ OneChain'
        BY <2>2, OneChainStep
      <3>2. Funded(LedgerAt(BlockNode[b].parent), BlockNode[b].txs)
        BY <2>2, <3>1, FundedStep
      <3>3. allBlocks' = allBlocks \cup {b}
        BY <2>2 DEF UpdateBlocktree
      <3> QED
        BY <3>1, <3>2, <3>3 DEF NoOverdraft
    <2> QED
      BY <2>1, <2>2, StepCases
  <1>3. Inv => NoOverdraft
    OBVIOUS
  <1> HIDE DEF Inv
  <1> QED
    BY <1>1, <1>2, <1>3, Inductive, BalancesFromGenesis, PTL DEF Spec
=============================================================================
