-------------------------- MODULE BlockTreeProofs --------------------------
(***************************************************************************)
(* Proofs about BlockTree, for every set of operators and receipts, every  *)
(* pruning depth and every bound on the number of blocks: the inductive    *)
(* invariant IInv, the safety properties that follow from it, and the      *)
(* refinement of ReceiptChain.                                             *)
(***************************************************************************)
EXTENDS BlockTree, TLAPS

USE DEF latestConfirmedNumber, liveHeights, toPrune, nodesWithout, revertedHead

(* What is known when receipt r is accepted as a new head: it extends the  *)
(* live chain, and what expires, if anything, is the oldest unconfirmed    *)
(* receipt or the genesis receipt.                                         *)
LEMMA NewHeadFacts ==
    ASSUME IInv, NEW r \in Receipt, isNewHead(r), verifyExecutionReceipt(r)
    PROVE  LET n == BlockNumber[r]
               c == latestConfirmedNumber
               e == n - BlockTreePruningDepth
           IN  /\ n \in Height /\ n = headReceiptNumber + 1
               /\ c \in Nat /\ c < n
               /\ r # Genesis
               /\ Parent[r] = IF c = headReceiptNumber THEN latestConfirmed
                              ELSE blockTree[headReceiptNumber]
               /\ n \in consensusBlockHash \cup upgradeBlocks
               /\ \/ /\ expiredReceipt(n) = NoReceipt
                     /\ n <= c + BlockTreePruningDepth
                     /\ blockTree[0] # NoReceipt => n < BlockTreePruningDepth
                  \/ /\ expiredReceipt(n) = latestConfirmed
                     /\ c = 0 /\ e = 0
                     /\ latestConfirmed = Genesis
                     /\ expiredReceipt(n) = blockTree[e]
                  \/ /\ expiredReceipt(n) = blockTree[c + 1]
                     /\ blockTree[c + 1] \in Receipt
                     /\ e = c + 1 /\ e \in liveHeights
                     /\ blockTree[0] = NoReceipt
<1> DEFINE n == BlockNumber[r]
           c == latestConfirmedNumber
           e == n - BlockTreePruningDepth
<1> USE ReceiptAssumption, ConfigAssumption
<1>1. /\ n \in Height /\ n = headReceiptNumber + 1
      /\ c \in Nat /\ c < n
      /\ r # Genesis /\ headReceiptNumber \in Height
  BY DEF isNewHead, IInv, TypeOK, LiveChainLinked, Height
<1>2. n \in consensusBlockHash \cup upgradeBlocks /\ blockTree[headReceiptNumber] = Parent[r]
  BY <1>1 DEF isNewHead, verifyExecutionReceipt, parentExists, Height
<1>3. \A m \in 0..c : blockTree[m] # NoReceipt =>
         latestConfirmed = Genesis /\ c = 0 /\ m = 0 /\ headReceiptNumber < BlockTreePruningDepth
  BY <1>1 DEF IInv, LiveChainLinked
<1>4. /\ \A m \in Height : blockTree[m] \in Receipt \cup {NoReceipt}
      /\ \A m \in Height : blockTree[m] # NoReceipt => BlockNumber[blockTree[m]] = m
  BY DEF IInv, TreeConsistent, TypeOK
<1>5. c = headReceiptNumber => Parent[r] = latestConfirmed
  <2> SUFFICES ASSUME c = headReceiptNumber PROVE Parent[r] = latestConfirmed
    OBVIOUS
  <2>1. blockTree[c] # NoReceipt
    BY <1>2
  <2>2. c = 0
    BY <2>1, <1>3, <1>1
  <2>3. Parent[r] = Genesis
    BY <1>2, <1>4, <2>1, <2>2, <1>1
  <2>4. latestConfirmed = Genesis
    BY <2>2 DEF IInv, TypeOK
  <2> QED BY <2>3, <2>4
<1>6. n <= c + BlockTreePruningDepth + 1
  BY <1>1 DEF IInv, ChallengeWindow, Height
<1>7. CASE n = c + BlockTreePruningDepth + 1
  <2>1. e = c + 1 /\ e \in liveHeights /\ e \in Height /\ e >= 0
    BY <1>7, <1>1 DEF Height
  <2>2. blockTree[c + 1] # NoReceipt /\ expiredReceipt(n) = blockTree[c + 1]
    BY <2>1 DEF IInv, LiveChainLinked, expiredReceipt
  <2>3. blockTree[0] = NoReceipt
    BY <1>7, <1>3, <1>1 DEF Height
  <2> QED BY <2>1, <2>2, <2>3, <1>1, <1>2, <1>4, <1>5
<1>8. CASE n <= c + BlockTreePruningDepth
  <2>1. CASE expiredReceipt(n) = NoReceipt
    <3>1. blockTree[0] # NoReceipt => n < BlockTreePruningDepth
      BY <2>1, <1>1, <1>3 DEF expiredReceipt, Height
    <3> QED BY <3>1, <2>1, <1>8, <1>1, <1>2, <1>5
  <2>2. CASE expiredReceipt(n) # NoReceipt
    <3>1. e \in 0..c /\ e \in Height /\ expiredReceipt(n) = blockTree[e]
      BY <2>2, <1>1, <1>8 DEF expiredReceipt, Height
    <3>2. e = 0 /\ c = 0 /\ latestConfirmed = Genesis
      BY <3>1, <2>2, <1>3
    <3>3. blockTree[0] = Genesis
      BY <3>1, <3>2, <2>2, <1>4
    <3> QED BY <3>1, <3>2, <3>3, <1>1, <1>2, <1>5
  <2> QED BY <2>1, <2>2
<1>9. n = c + BlockTreePruningDepth + 1 \/ n <= c + BlockTreePruningDepth
  BY ONLY <1>6, <1>1, ConfigAssumption DEF Height
<1> QED BY <1>7, <1>8, <1>9

(* The part of the type invariant about the block tree.                    *)
TreeTypeOK ==
    /\ blockTree \in [Height -> Receipt \cup {NoReceipt}]
    /\ blockTreeNodes \subseteq Receipt
    /\ operatorIds \in [Receipt -> SUBSET Operator]
    /\ headReceiptNumber \in Height
    /\ newAddedHeadReceipt \in Receipt \cup {NoReceipt}
    /\ latestConfirmed \in Receipt
    /\ latestSubmittedER \in [Operator -> Height]
    /\ slashed \subseteq Operator

(* The part of the invariant about the block tree.                         *)
TreeInv ==
    /\ TreeTypeOK
    /\ TreeConsistent
    /\ LiveChainLinked
    /\ PendingToPruneInvalid
    /\ LatestSubmittedSound
    /\ ChallengeWindow
    /\ LiveAncestry
    /\ HonestOnlyValid

(* Forgetting or noting the latest submitted ER keeps the type.            *)
LEMMA LatestType ==
    ASSUME NEW f \in [Operator -> Height], NEW n \in Height, NEW ops, NEW k, NEW op \in Operator
    PROVE  /\ forgetLatest(f, ops, k) \in [Operator -> Height]
           /\ noteLatest(f, op, n) \in [Operator -> Height]
<1> USE ConfigAssumption
<1>1. 0 \in Height
  BY DEF Height
<1> QED BY <1>1 DEF forgetLatest, noteLatest

(* Accepting a new head, with the pruning of what a fraud proof left at    *)
(* its height and the confirmation of what expires, keeps the block tree   *)
(* invariant.                                                              *)
LEMMA NewHeadTree ==
    ASSUME IInv, NEW op \in Operator, NEW r \in Receipt, mayAuthor(op, r),
           isNewHead(r), verifyExecutionReceipt(r), processNewHead(op, r)
    PROVE  TreeInv'
<1> DEFINE n == BlockNumber[r]
           D == BlockTreePruningDepth
           c == latestConfirmedNumber
           e == n - D
           bad == blockTree[n]
           expired == expiredReceipt(n)
           latest == forgetLatest(latestSubmittedER, nodeOperators(bad), n)
<1> USE ReceiptAssumption, ConfigAssumption
<1>0. TypeOK
  BY DEF IInv
<1>1. /\ n \in Height /\ n = headReceiptNumber + 1 /\ c \in Nat /\ c < n /\ r # Genesis
      /\ Parent[r] = IF c = headReceiptNumber THEN latestConfirmed
                     ELSE blockTree[headReceiptNumber]
      /\ n \in Nat /\ headReceiptNumber \in Nat
  BY <1>0, NewHeadFacts DEF Height, TypeOK
<1>2. \/ /\ expired = NoReceipt
         /\ n <= c + D
         /\ blockTree[0] # NoReceipt => n < D
      \/ /\ expired = latestConfirmed
         /\ c = 0 /\ e = 0
         /\ latestConfirmed = Genesis
         /\ expired = blockTree[e]
      \/ /\ expired = blockTree[c + 1]
         /\ blockTree[c + 1] \in Receipt
         /\ e = c + 1 /\ e \in liveHeights
         /\ blockTree[0] = NoReceipt
  BY NewHeadFacts
<1>3. /\ blockTree' = [m \in Height |-> IF m = n THEN r ELSE IF m = e THEN NoReceipt
                                       ELSE blockTree[m]]
      /\ blockTreeNodes' = (blockTreeNodes \ {bad, expired}) \cup {r}
      /\ operatorIds' = [x \in Receipt |-> IF x = r THEN {op}
                                           ELSE IF x \in {bad, expired} THEN {}
                                           ELSE operatorIds[x]]
      /\ latestSubmittedER' = IF n < D THEN noteLatest(latest, op, n)
                              ELSE forgetLatest(latest, nodeOperators(expired), e)
      /\ headReceiptNumber' = n
      /\ newAddedHeadReceipt' = r
      /\ latestConfirmed' = IF expired = NoReceipt THEN latestConfirmed ELSE expired
      /\ slashed' = slashed \cup nodeOperators(bad)
  <2>1. toPrune(n) < 0 <=> n < D
    BY <1>1, ConfigAssumption DEF Height
  <2> QED BY <2>1 DEF processNewHead
<1>4. expired \in Receipt \cup {NoReceipt} /\ bad \in Receipt \cup {NoReceipt}
  BY <1>0, <1>1, <1>2 DEF TypeOK
<1>5. nodeOperators(bad) \subseteq Operator /\ nodeOperators(expired) \subseteq Operator
  BY <1>0, <1>4 DEF TypeOK, nodeOperators
<1>6. latest \in [Operator -> Height]
  BY <1>0, <1>1, LatestType DEF TypeOK
<1>7. expired # NoReceipt => expired = blockTree[e] /\ e \in Height /\ BlockNumber[expired] = e
  <2>1. expired # NoReceipt => expired = blockTree[e] /\ e \in Height
    BY <1>1 DEF expiredReceipt, Height
  <2> QED BY <2>1 DEF IInv, TreeConsistent
<1>8. TreeTypeOK'
  <2>1. latestSubmittedER' \in [Operator -> Height]
    BY <1>1, <1>3, <1>6, LatestType
  <2>2. blockTree' \in [Height -> Receipt \cup {NoReceipt}]
    BY <1>0, <1>3 DEF TypeOK
  <2>3. operatorIds' \in [Receipt -> SUBSET Operator]
    BY <1>0, <1>3 DEF TypeOK
  <2>4. latestConfirmed' \in Receipt
    BY <1>0, <1>3, <1>4 DEF TypeOK
  <2> QED BY <2>1, <2>2, <2>3, <2>4, <1>0, <1>1, <1>3, <1>5 DEF TypeOK, TreeTypeOK
<1>9. TreeConsistent'
  <2>1. \A m \in Height : blockTree'[m] # NoReceipt =>
           BlockNumber[blockTree'[m]] = m /\ blockTree'[m] \in blockTreeNodes'
    <3> SUFFICES ASSUME NEW m \in Height, blockTree'[m] # NoReceipt
                 PROVE  BlockNumber[blockTree'[m]] = m /\ blockTree'[m] \in blockTreeNodes'
      OBVIOUS
    <3>1. CASE m = n
      BY <3>1, <1>3
    <3>2. CASE m # n
      <4>1. m # e /\ blockTree'[m] = blockTree[m] /\ blockTree[m] # NoReceipt
        BY <3>2, <1>3
      <4>2. BlockNumber[blockTree[m]] = m /\ blockTree[m] \in blockTreeNodes
        BY <4>1 DEF IInv, TreeConsistent
      <4>3. blockTree[m] # bad
        BY <4>1, <4>2, <3>2, <1>1 DEF IInv, TreeConsistent
      <4>4. blockTree[m] # expired
        BY <4>1, <4>2, <1>7
      <4> QED BY <4>1, <4>2, <4>3, <4>4, <1>3
    <3> QED BY <3>1, <3>2
  <2>2. \A x \in blockTreeNodes' : blockTree'[BlockNumber[x]] = x
    <3> SUFFICES ASSUME NEW x \in blockTreeNodes', x # r
                 PROVE  blockTree'[BlockNumber[x]] = x
      BY <1>1, <1>3
    <3>1. x \in blockTreeNodes /\ x # bad /\ x # expired
      BY <1>3
    <3>2. blockTree[BlockNumber[x]] = x /\ x \in Receipt
      BY <3>1, <1>0 DEF IInv, TreeConsistent, TypeOK
    <3>3. BlockNumber[x] # n
      BY <3>1, <3>2
    <3>4. BlockNumber[x] # e
      BY <3>1, <3>2, <1>1 DEF expiredReceipt, Height
    <3> QED BY <3>2, <3>3, <3>4, <1>3
  <2>3. \A x \in Receipt : operatorIds'[x] # {} => x \in blockTreeNodes'
    BY <1>3 DEF IInv, TreeConsistent
  <2> QED BY <2>1, <2>2, <2>3 DEF TreeConsistent
<1>a. /\ e = n - D /\ e \in Int /\ D \in Nat \ {0}
      /\ liveHeights = (c + 1)..headReceiptNumber
      /\ NoReceipt \notin Receipt
  BY ONLY <1>1, ConfigAssumption, ReceiptAssumption
<1>10. c' = (IF expired = NoReceipt \/ e = 0 THEN c ELSE c + 1) /\ c' \in Nat /\ c' < n + 1
  <2>1. c' = IF expired = NoReceipt THEN c ELSE BlockNumber[expired]
    BY ONLY <1>3
  <2> HIDE DEF n, D, e, expired, c
  <2>2. CASE expired = NoReceipt
    BY ONLY <2>1, <2>2, <1>1
  <2>3. CASE expired # NoReceipt /\ expired = latestConfirmed /\ c = 0 /\ e = 0
    BY ONLY <2>1, <2>3, <1>7, <1>1
  <2>4. CASE expired # NoReceipt /\ e = c + 1
    BY ONLY <2>1, <2>4, <1>7, <1>1
  <2>5. \/ expired = NoReceipt
        \/ expired # NoReceipt /\ expired = latestConfirmed /\ c = 0 /\ e = 0
        \/ expired # NoReceipt /\ e = c + 1
    BY ONLY <1>2
  <2> QED BY ONLY <2>2, <2>3, <2>4, <2>5
<1>b. /\ c' # c => latestConfirmed' = blockTree[c'] /\ e = c'
      /\ c' = c => latestConfirmed' = latestConfirmed /\ e <= c
  <2>1. latestConfirmed' = IF expired = NoReceipt THEN latestConfirmed ELSE expired
    BY ONLY <1>3
  <2> HIDE DEF n, D, e, expired, c
  <2> QED BY ONLY <2>1, <1>a, <1>1, <1>2, <1>10
<1>11. LiveChainLinked' /\ ChallengeWindow'
  <2>1. c' <= n /\ n <= c' + D
    <3> HIDE DEF n, D, e, expired, c
    <3> QED BY ONLY <1>1, <1>2, <1>10, <1>a
  <2>2. \A m \in (c' + 1)..n :
          /\ blockTree'[m] # NoReceipt
          /\ Parent[blockTree'[m]] = IF m = c' + 1 THEN latestConfirmed' ELSE blockTree'[m - 1]
    <3> SUFFICES ASSUME NEW m \in (c' + 1)..n
                 PROVE  /\ blockTree'[m] # NoReceipt
                        /\ Parent[blockTree'[m]] = IF m = c' + 1 THEN latestConfirmed'
                                                   ELSE blockTree'[m - 1]
      OBVIOUS
    <3>1. m \in Height /\ m - 1 \in Height /\ m # e /\ (m # c' + 1 => m - 1 # e)
      <4> HIDE DEF n, D, e, expired, c
      <4>1. e <= c' /\ e \in Int
        BY ONLY <1>1, <1>a, <1>b, <1>10
      <4> QED BY ONLY <4>1, <1>1, <1>10, ConfigAssumption, m \in (c' + 1)..n DEF Height
    <3>2. m = c' + 1 /\ c' # c => latestConfirmed' = blockTree[m - 1]
      <4> HIDE DEF c
      <4> QED BY ONLY <1>1, <1>b, <1>10
    <3>3. c' = c => latestConfirmed' = latestConfirmed
      BY ONLY <1>b
    <3>4. CASE m = n
      <4>1. blockTree'[m] = r /\ blockTree'[m - 1] = IF m - 1 = e THEN NoReceipt ELSE blockTree[m - 1]
        <5>1. blockTree' = [k \in Height |-> IF k = n THEN r ELSE IF k = e THEN NoReceipt
                                             ELSE blockTree[k]]
          BY ONLY <1>3
        <5>2. m - 1 # m
          BY ONLY <3>4, <1>1
        <5> HIDE DEF n, e
        <5> QED BY ONLY <5>1, <5>2, <3>1, <3>4
      <4> HIDE DEF n, D, e, expired, c
      <4>2. r # NoReceipt
        BY ONLY <1>a, r \in Receipt
      <4>3. headReceiptNumber = m - 1
        BY ONLY <3>4, <1>1
      <4>4. m = c' + 1 => c = headReceiptNumber \/ c' # c
        BY ONLY <3>4, <1>1, <1>10
      <4>5. m # c' + 1 => c # headReceiptNumber
        BY ONLY <3>4, <1>1, <1>10
      <4>6. m = c' + 1 /\ c = headReceiptNumber => c' = c
        BY ONLY <3>4, <1>1, <1>10
      <4>7. m = c' + 1 /\ c' # c => c # headReceiptNumber
        BY ONLY <3>4, <1>1, <1>10
      <4> QED BY ONLY <4>1, <4>2, <4>3, <4>4, <4>5, <4>6, <4>7, <3>1, <3>2, <3>3, <3>4, <1>1
    <3>5. CASE m # n
      <4>1. m \in liveHeights
        BY <3>5, <1>1, <1>10
      <4>2. blockTree[m] # NoReceipt /\ Parent[blockTree[m]] = IF m = c + 1 THEN latestConfirmed
                                                              ELSE blockTree[m - 1]
        BY <4>1 DEF IInv, LiveChainLinked
      <4>3. blockTree'[m] = blockTree[m] /\ (m # c' + 1 => blockTree'[m - 1] = blockTree[m - 1])
        <5>1. blockTree' = [k \in Height |-> IF k = n THEN r ELSE IF k = e THEN NoReceipt
                                             ELSE blockTree[k]]
          BY ONLY <1>3
        <5>2. m - 1 # n
          BY ONLY <1>1, <1>10, m \in (c' + 1)..n
        <5> HIDE DEF n, e
        <5> QED BY ONLY <5>1, <5>2, <3>1, <3>5
      <4> HIDE DEF n, D, e, expired, c
      <4>4. m = c' + 1 => (m = c + 1 <=> c' = c)
        BY ONLY <3>1, <1>1, <1>10
      <4>5. m # c' + 1 => m # c + 1
        <5>1. m \in (c' + 1)..n
          OBVIOUS
        <5> QED BY ONLY <5>1, <1>1, <1>10
      <4> QED BY ONLY <4>2, <4>3, <4>4, <4>5, <3>2, <3>3
    <3> QED BY <3>4, <3>5
  <2>3. \A m \in 0..c' : blockTree'[m] # NoReceipt => latestConfirmed' = Genesis /\ n < D
    <3> SUFFICES ASSUME NEW m \in 0..c', blockTree'[m] # NoReceipt
                 PROVE  latestConfirmed' = Genesis /\ n < D
      OBVIOUS
    <3>1. m \in Height /\ (m = n \/ (m # e /\ blockTree[m] # NoReceipt))
      <4>1. m \in Height
        <5> HIDE DEF n, c
        <5> QED BY ONLY <1>1, <1>10, m \in 0..c', ConfigAssumption DEF Height
      <4>2. blockTree'[m] = IF m = n THEN r ELSE IF m = e THEN NoReceipt ELSE blockTree[m]
        BY ONLY <4>1, <1>3
      <4> QED BY ONLY <4>1, <4>2, blockTree'[m] # NoReceipt
    <3>2. m < n /\ m \in 0..c
      <4> HIDE DEF n, D, e, expired, c
      <4> QED BY ONLY <3>1, <1>1, <1>2, <1>10, <1>a, <1>b, m \in 0..c'
    <3>3. latestConfirmed = Genesis
      <4>1. blockTree[m] # NoReceipt
        BY ONLY <3>1, <3>2, <1>1
      <4>2. LiveChainLinked
        BY ONLY IInv DEF IInv
      <4> QED BY ONLY <4>1, <4>2, <3>2 DEF LiveChainLinked
    <3>4. m = 0
      BY ONLY <3>2, <3>3, ReceiptAssumption
    <3> QED BY <3>1, <3>2, <3>3, <3>4, <1>1, <1>2, <1>3
  <2> QED BY <2>1, <2>2, <2>3, <1>3 DEF LiveChainLinked, ChallengeWindow
<1>12. LiveAncestry'
  <2> SUFFICES ASSUME NEW m \in (c' + 1)..n, NEW k \in (c' + 1)..n, m <= k
               PROVE  blockTree'[m] \in Ancestors[blockTree'[k]]
    BY <1>3 DEF LiveAncestry
  <2>1. m \in Height /\ k \in Height /\ m # e /\ k # e
    BY <1>1, <1>2, <1>10 DEF Height
  <2>2. CASE k # n
    <3>1. m \in liveHeights /\ k \in liveHeights /\ m # n
      BY <2>2, <1>1, <1>10
    <3>2. blockTree[m] \in Ancestors[blockTree[k]]
      BY <3>1 DEF IInv, LiveAncestry
    <3> QED BY <3>1, <3>2, <2>1, <2>2, <1>3
  <2>3. CASE k = n /\ m = n
    <3>1. r \in Ancestors[r]
      BY AncestorsAssumption, <1>1
    <3> QED BY <3>1, <2>3, <2>1, <1>3
  <2>4. CASE k = n /\ m # n
    <3>1. m \in liveHeights /\ headReceiptNumber \in liveHeights
      BY <2>4, <1>1, <1>10
    <3>2. blockTree[m] \in Ancestors[blockTree[headReceiptNumber]]
      BY <3>1, <1>1 DEF IInv, LiveAncestry
    <3>3. Parent[r] = blockTree[headReceiptNumber] /\ r \in Receipt \ {Genesis}
      BY <3>1, <1>1
    <3>4. Ancestors[r] = {r} \cup Ancestors[Parent[r]]
      BY AncestorsAssumption, <3>3
    <3> QED BY <3>2, <3>3, <3>4, <2>1, <2>4, <1>3
  <2> QED BY <2>2, <2>3, <2>4
<1>13. PendingToPruneInvalid'
  <2> SUFFICES ASSUME NEW m \in Height, n < m, blockTree'[m] # NoReceipt
               PROVE  blockTree'[m] \in Invalid
    BY <1>3 DEF PendingToPruneInvalid, isBadErPendingToPrune
  <2>1. blockTree'[m] = blockTree[m] /\ isBadErPendingToPrune(m)
    <3>1. m \in Int /\ n < m /\ n \in Nat /\ headReceiptNumber \in Nat /\ n = headReceiptNumber + 1
      BY ONLY <1>1, m \in Height, n < m DEF Height
    <3> HIDE DEF n, e
    <3>2. m # n /\ m # 0 /\ headReceiptNumber < m
      BY ONLY <3>1
    <3>3. blockTree'[m] = IF m = e THEN NoReceipt ELSE blockTree[m]
      BY ONLY <3>2, <1>3, m \in Height
    <3> QED BY ONLY <3>2, <3>3, blockTree'[m] # NoReceipt DEF isBadErPendingToPrune
  <2> QED BY <2>1 DEF IInv, PendingToPruneInvalid
<1>14. HonestOnlyValid'
  <2>1. \A h \in Honest : h \notin nodeOperators(bad)
    <3>1. bad # NoReceipt => bad \in Invalid
      BY <1>1 DEF IInv, PendingToPruneInvalid, isBadErPendingToPrune
    <3> QED BY <3>1, <1>4 DEF nodeOperators, IInv, HonestOnlyValid
  <2>2. \A h \in Honest : \A x \in Receipt : h \in operatorIds'[x] => x \notin Invalid
    BY <1>3 DEF mayAuthor, IInv, HonestOnlyValid
  <2> QED BY <2>1, <2>2, <1>3 DEF HonestOnlyValid, IInv, Invalid
<1>15. LatestSubmittedSound'
  <2> SUFFICES ASSUME NEW o \in Operator, latestSubmittedER'[o] # 0
               PROVE  /\ blockTree'[latestSubmittedER'[o]] # NoReceipt
                      /\ o \in operatorIds'[blockTree'[latestSubmittedER'[o]]]
    BY DEF LatestSubmittedSound
  <2> DEFINE m == latestSubmittedER[o]
  <2>1. latest[o] = IF o \in nodeOperators(bad) /\ m = n THEN 0 ELSE m
    BY DEF forgetLatest
  <2>2. m # 0 => blockTree[m] # NoReceipt /\ o \in operatorIds[blockTree[m]] /\ m \in Height
    BY <1>0 DEF IInv, LatestSubmittedSound, TypeOK
  <2>3. latest[o] # 0 => m # n /\ latest[o] = m /\ m # 0
    BY <2>1, <2>2, <1>1 DEF nodeOperators
  <2>4. CASE latestSubmittedER'[o] = latest[o] /\ m # e
    <3>1. blockTree'[m] = blockTree[m] /\ blockTree[m] # r
      BY <2>2, <2>3, <2>4, <1>1, <1>3 DEF IInv, TreeConsistent
    <3>2. blockTree[m] # bad /\ blockTree[m] # expired
      <4>1. BlockNumber[blockTree[m]] = m /\ m # n /\ m # 0
        BY <2>2, <2>3, <2>4 DEF IInv, TreeConsistent
      <4>2. bad # NoReceipt => BlockNumber[bad] = n
        BY <1>1 DEF IInv, TreeConsistent
      <4>3. blockTree[m] # NoReceipt /\ m # e
        BY ONLY <2>2, <2>4, <4>1
      <4> QED BY ONLY <4>1, <4>2, <4>3, <1>7
    <3>3. blockTree[m] \in Receipt
      BY <2>2, <2>3, <2>4, <1>0 DEF TypeOK
    <3> QED BY <3>1, <3>2, <3>3, <2>2, <2>3, <2>4, <1>3
  <2>5. CASE n < D
    <3>1. m # e
      BY <2>2, <2>5, <1>0, <1>1 DEF TypeOK, Height
    <3>2. latestSubmittedER'[o] = latest[o] \/ (o = op /\ latestSubmittedER'[o] = n)
      BY <2>5, <1>3, <1>6 DEF noteLatest
    <3> QED BY <3>1, <3>2, <2>4, <1>1, <1>3
  <2>6. CASE ~(n < D)
    <3>1. latestSubmittedER'[o] = IF o \in nodeOperators(expired) /\ latest[o] = e THEN 0 ELSE latest[o]
      BY <2>6, <1>3 DEF forgetLatest
    <3>2. expired = blockTree[e]
      BY <2>6, <1>1 DEF expiredReceipt
    <3>3. m # e
      BY <3>1, <3>2, <2>2, <2>3 DEF nodeOperators
    <3> QED BY <3>1, <3>3, <2>3, <2>4
  <2> QED BY <2>5, <2>6
<1> QED BY <1>8, <1>9, <1>11, <1>12, <1>13, <1>14, <1>15 DEF TreeInv

(* Another submission of the current head keeps the block tree invariant.  *)
LEMMA CurrentHeadTree ==
    ASSUME IInv, NEW op \in Operator, NEW r \in Receipt, mayAuthor(op, r),
           isCurrentHead(r), processCurrentHead(op, r)
    PROVE  TreeInv'
<1> USE ReceiptAssumption, ConfigAssumption
<1>0. TypeOK
  BY DEF IInv
<1>1. /\ blockTree[BlockNumber[r]] = r /\ BlockNumber[r] \in Height
      /\ operatorIds' = [operatorIds EXCEPT ![r] = @ \cup {op}]
      /\ latestSubmittedER' = noteLatest(latestSubmittedER, op, BlockNumber[r])
      /\ UNCHANGED <<blockTree, blockTreeNodes, headReceiptNumber, newAddedHeadReceipt,
                     latestConfirmed, slashed>>
  BY DEF isCurrentHead, processCurrentHead
<1>2. TreeTypeOK'
  <2>1. latestSubmittedER' \in [Operator -> Height]
    BY <1>0, <1>1, LatestType DEF TypeOK
  <2>2. operatorIds' \in [Receipt -> SUBSET Operator]
    BY <1>0, <1>1 DEF TypeOK
  <2> QED BY <2>1, <2>2, <1>0, <1>1 DEF TypeOK, TreeTypeOK
<1>3. TreeConsistent'
  <2>1. r \in blockTreeNodes
    BY <1>1 DEF IInv, TreeConsistent
  <2> QED BY <2>1, <1>0, <1>1 DEF IInv, TreeConsistent, TypeOK
<1>4. LiveChainLinked' /\ ChallengeWindow' /\ LiveAncestry'
  BY <1>1 DEF IInv, LiveChainLinked, ChallengeWindow, LiveAncestry
<1>5. PendingToPruneInvalid'
  BY <1>1 DEF IInv, PendingToPruneInvalid, isBadErPendingToPrune
<1>6. HonestOnlyValid'
  BY <1>0, <1>1 DEF IInv, HonestOnlyValid, mayAuthor, Invalid, TypeOK
<1>7. LatestSubmittedSound'
  <2> SUFFICES ASSUME NEW o \in Operator, latestSubmittedER'[o] # 0
               PROVE  /\ blockTree[latestSubmittedER'[o]] # NoReceipt
                      /\ o \in operatorIds'[blockTree[latestSubmittedER'[o]]]
    BY <1>1 DEF LatestSubmittedSound
  <2>1. latestSubmittedER'[o] = latestSubmittedER[o]
        \/ (o = op /\ latestSubmittedER'[o] = BlockNumber[r])
    BY <1>0, <1>1 DEF noteLatest, TypeOK
  <2>2. CASE latestSubmittedER'[o] = latestSubmittedER[o]
    <3>1. /\ latestSubmittedER[o] \in Height
          /\ blockTree[latestSubmittedER[o]] # NoReceipt
          /\ o \in operatorIds[blockTree[latestSubmittedER[o]]]
      BY <2>2, <1>0 DEF IInv, LatestSubmittedSound, TypeOK
    <3>2. blockTree[latestSubmittedER[o]] \in Receipt
      BY <3>1, <1>0 DEF TypeOK
    <3> QED BY <2>2, <3>1, <3>2, <1>0, <1>1 DEF TypeOK
  <2>3. CASE o = op /\ latestSubmittedER'[o] = BlockNumber[r]
    BY <2>3, <1>0, <1>1 DEF TypeOK
  <2> QED BY <2>1, <2>2, <2>3
<1> QED BY <1>2, <1>3, <1>4, <1>5, <1>6, <1>7 DEF TreeInv

(* Removing a bad receipt that is not above the head keeps the block tree  *)
(* invariant: it is a live one, and what it leaves above the new head      *)
(* descends from it.                                                       *)
LEMMA PruneTree ==
    ASSUME IInv, NEW r \in Receipt, r \in blockTreeNodes, r \in Invalid,
           BlockNumber[r] <= headReceiptNumber, pruneBadReceipt(r)
    PROVE  TreeInv' /\ BlockNumber[r] \in liveHeights
<1> DEFINE b == BlockNumber[r]
           c == latestConfirmedNumber
<1> USE ReceiptAssumption, ConfigAssumption
<1>0. TypeOK
  BY DEF IInv
<1>1. /\ blockTree' = [blockTree EXCEPT ![b] = NoReceipt]
      /\ blockTreeNodes' = blockTreeNodes \ {r}
      /\ operatorIds' = [operatorIds EXCEPT ![r] = {}]
      /\ latestSubmittedER' = forgetLatest(latestSubmittedER, operatorIds[r], b)
      /\ slashed' = slashed \cup operatorIds[r]
      /\ headReceiptNumber' = b - 1
      /\ UNCHANGED <<newAddedHeadReceipt, latestConfirmed>>
  BY DEF pruneBadReceipt
<1>2. r # Genesis /\ b \in Height /\ b # 0 /\ blockTree[b] = r
  <2>1. r # Genesis
    BY AncestorsAssumption DEF Invalid
  <2> QED BY <2>1 DEF IInv, TreeConsistent
<1>3. b \in (c + 1)..headReceiptNumber /\ c \in Nat /\ headReceiptNumber \in Nat
  <2>1. c \in Nat /\ headReceiptNumber \in Nat /\ b \in Nat
    BY <1>0 DEF TypeOK, Height
  <2>2. b <= c => latestConfirmed = Genesis
    BY <2>1, <1>2 DEF IInv, LiveChainLinked
  <2>3. b <= c => FALSE
    BY <2>1, <2>2, <1>2
  <2> QED BY <2>1, <2>3
<1>4. TreeTypeOK'
  <2>1. latestSubmittedER' \in [Operator -> Height]
    BY <1>0, <1>1, <1>2, LatestType DEF TypeOK, forgetLatest
  <2>2. headReceiptNumber' \in Height
    BY <1>1, <1>2 DEF Height
  <2> QED BY <2>1, <2>2, <1>0, <1>1 DEF TypeOK, TreeTypeOK
<1>5. TreeConsistent'
  BY <1>0, <1>1, <1>2, SMTT(30) DEF IInv, TreeConsistent, TypeOK
<1>6. LiveChainLinked' /\ ChallengeWindow'
  <2>1. \A m \in Height : m # b => blockTree'[m] = blockTree[m]
    BY <1>0, <1>1 DEF TypeOK
  <2>2. \A m \in (c + 1)..(b - 1) :
          /\ blockTree'[m] # NoReceipt
          /\ Parent[blockTree'[m]] = IF m = c + 1 THEN latestConfirmed ELSE blockTree'[m - 1]
    <3> SUFFICES ASSUME NEW m \in (c + 1)..(b - 1)
                 PROVE  /\ blockTree'[m] # NoReceipt
                        /\ Parent[blockTree'[m]] = IF m = c + 1 THEN latestConfirmed
                                                   ELSE blockTree'[m - 1]
      OBVIOUS
    <3>1. m \in liveHeights /\ m \in Height /\ m - 1 \in Height /\ m # b /\ m - 1 # b
      BY <1>2, <1>3 DEF Height
    <3> QED BY <3>1, <2>1 DEF IInv, LiveChainLinked
  <2>3. \A m \in 0..c : blockTree'[m] # NoReceipt =>
           latestConfirmed = Genesis /\ b - 1 < BlockTreePruningDepth
    <3> SUFFICES ASSUME NEW m \in 0..c, blockTree'[m] # NoReceipt
                 PROVE  latestConfirmed = Genesis /\ b - 1 < BlockTreePruningDepth
      OBVIOUS
    <3>1. m \in Height /\ m # b
      BY <1>2, <1>3 DEF Height
    <3>2. latestConfirmed = Genesis /\ headReceiptNumber < BlockTreePruningDepth
      BY <3>1, <2>1 DEF IInv, LiveChainLinked
    <3> QED BY <3>2, <1>3
  <2>4. c <= b - 1 /\ b - 1 <= c + BlockTreePruningDepth
    BY <1>3 DEF IInv, ChallengeWindow
  <2> QED BY <2>2, <2>3, <2>4, <1>1, SMTT(30) DEF LiveChainLinked, ChallengeWindow
<1>7. LiveAncestry'
  <2> SUFFICES ASSUME NEW m \in (c + 1)..(b - 1), NEW k \in (c + 1)..(b - 1), m <= k
               PROVE  blockTree'[m] \in Ancestors[blockTree'[k]]
    BY <1>1 DEF LiveAncestry
  <2>1. /\ m \in liveHeights /\ m \in Height /\ m # b
        /\ k \in liveHeights /\ k \in Height /\ k # b
    BY <1>2, <1>3 DEF Height
  <2> QED BY <2>1, <1>0, <1>1 DEF IInv, LiveAncestry, TypeOK
<1>8. PendingToPruneInvalid'
  <2> SUFFICES ASSUME NEW m \in Height, b - 1 < m, m # b, blockTree[m] # NoReceipt
               PROVE  blockTree[m] \in Invalid
    BY <1>0, <1>1 DEF PendingToPruneInvalid, isBadErPendingToPrune, TypeOK
  <2>1. CASE m > headReceiptNumber
    BY <2>1, <1>3 DEF IInv, PendingToPruneInvalid, isBadErPendingToPrune
  <2>2. CASE m <= headReceiptNumber
    <3>1. m \in liveHeights /\ b <= m
      BY <2>2, <1>3 DEF Height
    <3>2. r \in Ancestors[blockTree[m]] /\ blockTree[m] \in Receipt
      BY <3>1, <1>0, <1>2, <1>3 DEF IInv, LiveAncestry, TypeOK
    <3>3. Ancestors[r] \subseteq Ancestors[blockTree[m]]
      BY AncestorsAssumption, <3>2
    <3> QED BY <3>2, <3>3 DEF Invalid
  <2> QED BY <2>1, <2>2, <1>3 DEF Height
<1>9. HonestOnlyValid'
  BY <1>0, <1>1 DEF IInv, HonestOnlyValid, TypeOK, Invalid
<1>10. LatestSubmittedSound'
  <2> SUFFICES ASSUME NEW o \in Operator, latestSubmittedER'[o] # 0
               PROVE  /\ blockTree'[latestSubmittedER'[o]] # NoReceipt
                      /\ o \in operatorIds'[blockTree'[latestSubmittedER'[o]]]
    BY DEF LatestSubmittedSound
  <2> DEFINE m == latestSubmittedER[o]
  <2>1. latestSubmittedER'[o] = m /\ ~(o \in operatorIds[r] /\ m = b)
    BY <1>1 DEF forgetLatest
  <2>2. m \in Height /\ blockTree[m] # NoReceipt /\ o \in operatorIds[blockTree[m]]
    BY <2>1, <1>0 DEF IInv, LatestSubmittedSound, TypeOK
  <2>3. m # b /\ blockTree[m] # r
    BY <2>1, <2>2, <1>2 DEF IInv, TreeConsistent
  <2>4. blockTree[m] \in Receipt /\ blockTree'[m] = blockTree[m]
    BY <2>2, <2>3, <1>0, <1>1 DEF TypeOK
  <2> QED BY <2>1, <2>2, <2>3, <2>4, <1>0, <1>1 DEF TypeOK
<1> QED BY <1>3, <1>4, <1>5, <1>6, <1>7, <1>8, <1>9, <1>10 DEF TreeInv

(* What processing an accepted receipt does to the heights: the derivation *)
(* data that goes is of heights that are confirmed after the step.         *)
LEMMA ReceiptHeights ==
    ASSUME IInv, NEW op \in Operator, NEW r \in Receipt,
           verifyExecutionReceipt(r), processReceipt(op, r)
    PROVE  /\ headReceiptNumber' \in Nat /\ headReceiptNumber' <= domainBestNumber
           /\ headReceiptNumber' <= headReceiptNumber + 1
           /\ latestConfirmedNumber \in Nat /\ latestConfirmedNumber' \in Nat
           /\ latestConfirmedNumber <= latestConfirmedNumber'
           /\ latestConfirmedNumber' # latestConfirmedNumber =>
                 latestConfirmedNumber' + BlockTreePruningDepth = headReceiptNumber'
           /\ \A k \in Height : k > latestConfirmedNumber' => k \notin confirmedBy(r)
<1> DEFINE n == BlockNumber[r]
           c == latestConfirmedNumber
           e == n - BlockTreePruningDepth
<1> USE ReceiptAssumption, ConfigAssumption
<1>0. TypeOK /\ c \in Nat /\ headReceiptNumber \in Nat /\ headReceiptNumber <= domainBestNumber
  BY DEF IInv, TypeOK, Height, DerivationDataKept
<1>1. CASE isNewHead(r) /\ processNewHead(op, r)
  <2>1. /\ headReceiptNumber' = n
        /\ latestConfirmed' = IF expiredReceipt(n) = NoReceipt THEN latestConfirmed
                              ELSE expiredReceipt(n)
    BY <1>1 DEF processNewHead
  <2>2. /\ n \in Height /\ n = headReceiptNumber + 1
        /\ n \in consensusBlockHash \cup upgradeBlocks
        /\ \/ expiredReceipt(n) = NoReceipt
           \/ expiredReceipt(n) = latestConfirmed /\ c = 0 /\ e = 0
           \/ expiredReceipt(n) = blockTree[c + 1] /\ e = c + 1 /\ e \in liveHeights
    BY <1>1, NewHeadFacts
  <2>3. n \in Nat /\ n <= domainBestNumber
    BY <2>2 DEF IInv, DerivedHeights, Height
  <2>4. e \in liveHeights => e \in Height /\ BlockNumber[blockTree[e]] = e
    <3>1. e \in liveHeights => e \in Height
      <4>1. headReceiptNumber \in Height
        BY ONLY <1>0 DEF TypeOK
      <4> HIDE DEF e
      <4> QED BY ONLY <4>1, <1>0, ConfigAssumption DEF Height
    <3>2. TreeConsistent /\ LiveChainLinked
      BY ONLY IInv DEF IInv
    <3> HIDE DEF e
    <3> QED BY ONLY <3>1, <3>2 DEF TreeConsistent, LiveChainLinked
  <2>5. \/ c' = c /\ (expiredReceipt(n) # NoReceipt => e = 0 /\ c = 0)
        \/ c' = c + 1 /\ e = c + 1
    BY <2>1, <2>2, <2>4
  <2>6. \A k \in Height : k > c' => k \notin confirmedBy(r)
    BY <2>5, <1>0 DEF confirmedBy, Height
  <2> QED BY <2>1, <2>2, <2>3, <2>5, <2>6, <1>0
<1>2. CASE isCurrentHead(r) /\ processCurrentHead(op, r)
  <2>1. headReceiptNumber' = headReceiptNumber /\ latestConfirmed' = latestConfirmed
    BY <1>2 DEF processCurrentHead
  <2>2. ~isNewHead(r)
    BY <1>0, <1>2 DEF isNewHead, isCurrentHead
  <2>3. confirmedBy(r) = {}
    BY <2>2 DEF confirmedBy
  <2> QED BY <2>1, <2>3, <1>0
<1> QED BY <1>1, <1>2 DEF processReceipt

(* An accepted receipt keeps the block tree invariant, whatever its type.  *)
LEMMA ReceiptTree ==
    ASSUME IInv, NEW op \in Operator, NEW r \in Receipt, mayAuthor(op, r),
           verifyExecutionReceipt(r), processReceipt(op, r)
    PROVE  TreeInv'
<1>1. CASE isNewHead(r) /\ processNewHead(op, r)
  BY <1>1, NewHeadTree
<1>2. CASE isCurrentHead(r) /\ processCurrentHead(op, r)
  BY <1>2, CurrentHeadTree
<1> QED BY <1>1, <1>2 DEF processReceipt

(* The rest of the type invariant.                                         *)
DataTypeOK ==
    /\ headDomainNumber \in Height
    /\ successfulBundles \in BOOLEAN
    /\ executionInbox \subseteq Height
    /\ consensusBlockHash \subseteq Height
    /\ upgradeBlocks \subseteq Height
    /\ missedUpgrade \in 0..MaxMissedUpgrade
    /\ frozen \in BOOLEAN

(* submit_bundle keeps the invariant: the derived heights grow by one at   *)
(* most, and only confirmed heights lose their derivation data.            *)
LEMMA SubmitBundleInv ==
    ASSUME IInv, NEW op \in Operator, NEW r \in Receipt, SubmitBundle(op, r)
    PROVE  IInv'
<1> DEFINE c == latestConfirmedNumber
           head == IF successfulBundles THEN headDomainNumber ELSE domainBestNumber + 1
<1> USE ReceiptAssumption, ConfigAssumption
<1>1. /\ mayAuthor(op, r) /\ verifyExecutionReceipt(r) /\ processReceipt(op, r)
      /\ head <= MaxBlock
      /\ headDomainNumber' = head
      /\ missedUpgrade' = IF successfulBundles THEN missedUpgrade ELSE 0
      /\ successfulBundles' = TRUE
      /\ executionInbox' = (executionInbox \ confirmedBy(r)) \cup {head}
      /\ consensusBlockHash' = consensusBlockHash \ confirmedBy(r)
      /\ upgradeBlocks' = upgradeBlocks \ confirmedBy(r)
      /\ frozen' = frozen
  BY DEF SubmitBundle
<1>2. TreeInv'
  BY <1>1, ReceiptTree
<1>3. /\ DataTypeOK
      /\ headDomainNumber \in Nat /\ missedUpgrade \in Nat /\ MaxBlock \in Nat
      /\ successfulBundles => missedUpgrade = 0
      /\ c <= headDomainNumber
  BY DEF IInv, TypeOK, DataTypeOK, Height, DerivedHeights, DerivationDataKept
<1>4. /\ headReceiptNumber' \in Nat /\ headReceiptNumber' <= domainBestNumber
      /\ c \in Nat /\ c' \in Nat /\ c <= c'
      /\ c' # c => c' + BlockTreePruningDepth = headReceiptNumber'
      /\ \A k \in Height : k > c' => k \notin confirmedBy(r)
  BY <1>1, ReceiptHeights
<1>5. head \in Height /\ head \in Nat /\ domainBestNumber <= head /\ domainBestNumber \in Nat
  BY <1>1, <1>3 DEF domainBestNumber, Height
<1>6. domainBestNumber' = head /\ missedUpgrade' = 0
  BY <1>1, <1>3, <1>5 DEF domainBestNumber
<1>7. DataTypeOK'
  <2>1. missedUpgrade' \in 0..MaxMissedUpgrade
    BY <1>6
  <2>2. executionInbox' \subseteq Height /\ consensusBlockHash' \subseteq Height
        /\ upgradeBlocks' \subseteq Height
    BY <1>1, <1>3, <1>5 DEF DataTypeOK
  <2> QED BY <2>1, <2>2, <1>1, <1>3, <1>5 DEF DataTypeOK
<1>8. DerivedHeights'
  <2>1. \A k \in consensusBlockHash \cup upgradeBlocks : k \in Nat /\ k <= domainBestNumber
    BY <1>3 DEF IInv, DerivedHeights, DataTypeOK, Height
  <2> QED BY <2>1, <1>1, <1>5, <1>6 DEF DerivedHeights
<1>9. DerivationDataKept'
  <2>1. headReceiptNumber' <= head /\ c' <= head
    BY <1>3, <1>4, <1>5 DEF domainBestNumber
  <2>2. ASSUME NEW k \in (c' + 1)..head
        PROVE  /\ k \in executionInbox' \cup upgradeBlocks'
               /\ \/ k \in consensusBlockHash' \cup upgradeBlocks'
                  \/ k = head
    <3>1. CASE k = head
      BY <3>1, <1>1
    <3>2. CASE k # head
      <4>1. k \in (c + 1)..domainBestNumber /\ k \in Height /\ k > c'
        BY <3>2, <1>3, <1>4, <1>5 DEF domainBestNumber, Height
      <4>2. /\ k \in executionInbox \cup upgradeBlocks
            /\ k \in consensusBlockHash \cup upgradeBlocks
               \/ (k = headDomainNumber /\ successfulBundles)
        BY <4>1 DEF IInv, DerivationDataKept
      <4>3. k \in consensusBlockHash \cup upgradeBlocks
        BY <4>2, <3>2
      <4> QED BY <4>1, <4>2, <4>3, <1>1, <1>4
    <3> QED BY <3>1, <3>2
  <2>3. \A k \in (c' + 1)..head :
          /\ k \in executionInbox' \cup upgradeBlocks'
          /\ \/ k \in consensusBlockHash' \cup upgradeBlocks'
             \/ k = headDomainNumber' /\ successfulBundles'
    BY <2>2, <1>1
  <2> QED BY <2>1, <2>3, <1>1, <1>6 DEF DerivationDataKept
<1> QED BY <1>2, <1>7, <1>8, <1>9
  DEF IInv, TypeOK, TreeInv, TreeTypeOK, DataTypeOK

(* submit_receipt keeps the invariant: it derives no domain block.         *)
LEMMA SubmitReceiptInv ==
    ASSUME IInv, NEW op \in Operator, NEW r \in Receipt, SubmitReceipt(op, r)
    PROVE  IInv'
<1> DEFINE c == latestConfirmedNumber
<1> USE ReceiptAssumption, ConfigAssumption
<1>1. /\ mayAuthor(op, r) /\ verifyExecutionReceipt(r) /\ processReceipt(op, r)
      /\ receiptGap > 1
      /\ executionInbox' = executionInbox \ confirmedBy(r)
      /\ consensusBlockHash' = consensusBlockHash \ confirmedBy(r)
      /\ upgradeBlocks' = upgradeBlocks \ confirmedBy(r)
      /\ UNCHANGED <<headDomainNumber, missedUpgrade, successfulBundles, frozen>>
  BY DEF SubmitReceipt
<1>2. TreeInv'
  BY <1>1, ReceiptTree
<1>3. /\ DataTypeOK
      /\ headDomainNumber \in Nat /\ missedUpgrade \in 0..(BlockTreePruningDepth + 1)
      /\ c <= headDomainNumber
      /\ headReceiptNumber \in Nat
  BY DEF IInv, TypeOK, DataTypeOK, Height, DerivationDataKept
<1>4. /\ headReceiptNumber' \in Nat /\ headReceiptNumber' <= domainBestNumber
      /\ headReceiptNumber' <= headReceiptNumber + 1
      /\ c \in Nat /\ c' \in Nat /\ c <= c'
      /\ c' # c => c' + BlockTreePruningDepth = headReceiptNumber'
      /\ \A k \in Height : k > c' => k \notin confirmedBy(r)
  BY <1>1, ReceiptHeights
<1>5. domainBestNumber' = domainBestNumber /\ domainBestNumber \in Nat
  BY <1>1, <1>3 DEF domainBestNumber
<1>6. DataTypeOK'
  BY <1>1, <1>3 DEF DataTypeOK
<1>7. DerivedHeights'
  BY <1>1, <1>5 DEF IInv, DerivedHeights
<1>8. DerivationDataKept'
  <2>1. c' <= headDomainNumber
    \* the new head is below the last derived block, which is at most
    \* BlockTreePruningDepth + 1 above the last one with a bundle
    BY <1>1, <1>3, <1>4 DEF receiptGap, domainBestNumber
  <2>2. \A k \in (c' + 1)..domainBestNumber :
          /\ k \in executionInbox' \cup upgradeBlocks'
          /\ \/ k \in consensusBlockHash' \cup upgradeBlocks'
             \/ k = headDomainNumber /\ successfulBundles
    <3> SUFFICES ASSUME NEW k \in (c' + 1)..domainBestNumber
                 PROVE  /\ k \in executionInbox' \cup upgradeBlocks'
                        /\ \/ k \in consensusBlockHash' \cup upgradeBlocks'
                           \/ k = headDomainNumber /\ successfulBundles
      OBVIOUS
    <3>1. k \in (c + 1)..domainBestNumber /\ k > c'
      BY <1>4, <1>5
    <3>2. /\ k \in executionInbox \cup upgradeBlocks
          /\ \/ k \in consensusBlockHash \cup upgradeBlocks
             \/ k = headDomainNumber /\ successfulBundles
      BY <3>1 DEF IInv, DerivationDataKept
    <3>3. k \in Height
      BY <3>2, <1>3 DEF DataTypeOK
    <3> QED BY <3>1, <3>2, <3>3, <1>1, <1>4
  <2> QED BY <2>1, <2>2, <1>1, <1>4, <1>5 DEF DerivationDataKept
<1> QED BY <1>2, <1>6, <1>7, <1>8
  DEF IInv, TypeOK, TreeInv, TreeTypeOK, DataTypeOK

(* Removing a bad receipt, by fraud proof or by root, keeps the invariant: *)
(* it moves the head but leaves the derivation data alone.                 *)
LEMMA PruneInv ==
    ASSUME IInv, NEW r \in Receipt, r \in blockTreeNodes, r \in Invalid,
           BlockNumber[r] <= headReceiptNumber, pruneBadReceipt(r)
    PROVE  IInv'
<1> USE ReceiptAssumption, ConfigAssumption
<1>1. TreeInv' /\ BlockNumber[r] \in liveHeights
  BY PruneTree
<1>2. /\ headReceiptNumber' = BlockNumber[r] - 1
      /\ UNCHANGED <<latestConfirmed, headDomainNumber, successfulBundles, executionInbox,
                     consensusBlockHash, upgradeBlocks, missedUpgrade, frozen>>
  BY DEF pruneBadReceipt, blockVars
<1>3. DataTypeOK' /\ DerivedHeights'
  BY <1>2 DEF IInv, TypeOK, DataTypeOK, DerivedHeights, domainBestNumber
<1>4. DerivationDataKept'
  <2>1. headReceiptNumber' <= headReceiptNumber /\ headReceiptNumber' \in Int
        /\ headReceiptNumber \in Int /\ domainBestNumber \in Int
    BY <1>1, <1>2 DEF IInv, TypeOK, Height, domainBestNumber
  <2> QED BY <2>1, <1>2 DEF IInv, DerivationDataKept, domainBestNumber
<1> QED BY <1>1, <1>3, <1>4 DEF IInv, TypeOK, TreeInv, TreeTypeOK, DataTypeOK

(* on_finalize and on_initialize keep the invariant: a bundle's block gets *)
(* its consensus hash, an upgrade without a bundle its record.             *)
LEMMA NextBlockInv ==
    ASSUME IInv, NEW upgraded \in BOOLEAN, NextBlock(upgraded)
    PROVE  IInv'
<1> DEFINE alone == upgraded /\ ~successfulBundles
<1> USE ReceiptAssumption, ConfigAssumption
<1>1. /\ alone => missedUpgrade < MaxMissedUpgrade /\ domainBestNumber < MaxBlock
      /\ newAddedHeadReceipt' = NoReceipt
      /\ successfulBundles' = FALSE
      /\ consensusBlockHash' =
            consensusBlockHash \cup (IF successfulBundles THEN {headDomainNumber} ELSE {})
      /\ upgradeBlocks' = upgradeBlocks \cup (IF alone THEN {domainBestNumber + 1} ELSE {})
      /\ missedUpgrade' = IF alone THEN missedUpgrade + 1 ELSE missedUpgrade
      /\ UNCHANGED <<blockTree, blockTreeNodes, operatorIds, headReceiptNumber,
                     latestConfirmed, latestSubmittedER, headDomainNumber,
                     executionInbox, slashed, frozen>>
  BY DEF NextBlock
<1>2. TreeInv'
  BY <1>1 DEF IInv, TypeOK, TreeInv, TreeTypeOK, TreeConsistent, LiveChainLinked,
     PendingToPruneInvalid, isBadErPendingToPrune, LatestSubmittedSound, ChallengeWindow,
     LiveAncestry, HonestOnlyValid
<1>3. DataTypeOK /\ domainBestNumber \in Nat /\ missedUpgrade \in Nat /\ headDomainNumber \in Nat
      /\ domainBestNumber = headDomainNumber + missedUpgrade
  BY DEF IInv, TypeOK, DataTypeOK, Height, domainBestNumber
<1>4. domainBestNumber' = IF alone THEN domainBestNumber + 1 ELSE domainBestNumber
  BY <1>1, <1>3 DEF domainBestNumber
<1>5. DataTypeOK'
  <2>1. missedUpgrade' \in 0..MaxMissedUpgrade
    BY <1>1, <1>3 DEF DataTypeOK
  <2>2. consensusBlockHash' \subseteq Height
    BY <1>1, <1>3 DEF DataTypeOK
  <2>3. upgradeBlocks' \subseteq Height
    BY <1>1, <1>3 DEF DataTypeOK, Height
  <2> QED BY <2>1, <2>2, <2>3, <1>1, <1>3 DEF DataTypeOK
<1>6. DerivedHeights'
  <2>1. \A k \in consensusBlockHash \cup upgradeBlocks : k \in Nat /\ k <= domainBestNumber
    BY <1>3 DEF IInv, DerivedHeights, DataTypeOK, Height
  <2>2. \A k \in consensusBlockHash' \cup upgradeBlocks' : k <= domainBestNumber'
    BY <2>1, <1>1, <1>3, <1>4
  <2> QED BY <2>2, <1>1 DEF DerivedHeights
<1>7. DerivationDataKept'
  <2>1. headReceiptNumber' <= domainBestNumber' /\ latestConfirmedNumber' <= headDomainNumber'
    BY <1>1, <1>3, <1>4 DEF IInv, DerivationDataKept, TypeOK, Height
  <2>2. ASSUME NEW k \in (latestConfirmedNumber + 1)..domainBestNumber'
        PROVE  k \in executionInbox' \cup upgradeBlocks' /\ k \in consensusBlockHash' \cup upgradeBlocks'
    <3>1. CASE k \in (latestConfirmedNumber + 1)..domainBestNumber
      <4>1. /\ k \in executionInbox \cup upgradeBlocks
            /\ \/ k \in consensusBlockHash \cup upgradeBlocks
               \/ k = headDomainNumber /\ successfulBundles
        BY <3>1 DEF IInv, DerivationDataKept
      <4> QED BY <4>1, <1>1
    <3>2. CASE k \notin (latestConfirmedNumber + 1)..domainBestNumber
      <4>1. alone /\ k = domainBestNumber + 1
        BY <3>2, <1>3, <1>4 DEF IInv, TypeOK, Height
      <4> QED BY <4>1, <1>1
    <3> QED BY <3>1, <3>2
  <2> QED BY <2>1, <2>2, <1>1 DEF DerivationDataKept
<1> QED BY <1>2, <1>5, <1>6, <1>7
  DEF IInv, TypeOK, TreeInv, TreeTypeOK, DataTypeOK

(* The state after import_genesis_receipt satisfies the invariant.         *)
LEMMA InitInv == Init => IInv
<1> USE ReceiptAssumption, ConfigAssumption
<1> SUFFICES ASSUME Init PROVE IInv
  OBVIOUS
<1>1. 0 \in Height /\ latestConfirmedNumber = 0 /\ headReceiptNumber = 0 /\ liveHeights = {}
      /\ domainBestNumber = 0
  BY DEF Init, Height, domainBestNumber
<1>2. TypeOK
  <2>1. missedUpgrade \in 0..MaxMissedUpgrade
    BY DEF Init
  <2>2. /\ blockTree \in [Height -> Receipt \cup {NoReceipt}]
        /\ operatorIds \in [Receipt -> SUBSET Operator]
        /\ latestSubmittedER \in [Operator -> Height]
    BY <1>1 DEF Init
  <2> QED BY <2>1, <2>2, <1>1 DEF Init, TypeOK
<1>3. TreeConsistent /\ LiveChainLinked /\ PendingToPruneInvalid /\ LatestSubmittedSound
  <2>1. TreeConsistent
    BY <1>1 DEF Init, TreeConsistent
  <2>2. LiveChainLinked
    BY <1>1 DEF Init, LiveChainLinked
  <2>3. PendingToPruneInvalid
    BY <1>1 DEF Init, PendingToPruneInvalid, isBadErPendingToPrune
  <2>4. LatestSubmittedSound
    BY <1>1 DEF Init, LatestSubmittedSound
  <2> QED BY ONLY <2>1, <2>2, <2>3, <2>4
<1>4. ChallengeWindow /\ LiveAncestry /\ HonestOnlyValid
  <2>1. ChallengeWindow
    BY <1>1 DEF ChallengeWindow
  <2>2. LiveAncestry
    BY <1>1 DEF LiveAncestry
  <2>3. HonestOnlyValid
    BY DEF Init, HonestOnlyValid
  <2> QED BY ONLY <2>1, <2>2, <2>3
<1>5. DerivedHeights /\ DerivationDataKept
  BY <1>1 DEF Init, DerivedHeights, DerivationDataKept
<1> QED BY <1>2, <1>3, <1>4, <1>5 DEF IInv

(* Every call and every block boundary keeps the invariant.                *)
LEMMA NextInv == IInv /\ [Next]_vars => IInv'
<1> USE ReceiptAssumption
<1> SUFFICES ASSUME IInv, [Next]_vars PROVE IInv'
  OBVIOUS
<1>1. ASSUME NEW op \in Operator, NEW r \in Receipt, SubmitBundle(op, r) PROVE IInv'
  BY <1>1, SubmitBundleInv
<1>2. ASSUME NEW op \in Operator, NEW r \in Receipt, SubmitReceipt(op, r) PROVE IInv'
  BY <1>2, SubmitReceiptInv
<1>3. ASSUME NEW r \in Receipt, SubmitFraudProof(r) PROVE IInv'
  <2>1. r \in blockTreeNodes /\ r \in Fraudulent /\ pruneBadReceipt(r)
    BY <1>3 DEF SubmitFraudProof
  <2>2. BlockNumber[r] <= headReceiptNumber
    BY <1>3, ConfigAssumption DEF SubmitFraudProof, isBadErPendingToPrune, IInv, TypeOK, Height
  <2>3. r \in Invalid
    <3>1. r \in Ancestors[r]
      BY AncestorsAssumption, <2>1
    <3> QED BY <2>1, <3>1 DEF Invalid
  <2> QED BY <2>1, <2>2, <2>3, PruneInv
<1>4. ASSUME NEW r \in Receipt, PruneDomainExecutionReceipt(r) PROVE IInv'
  <2>1. BlockNumber[r] <= headReceiptNumber
    BY <1>4, ConfigAssumption DEF PruneDomainExecutionReceipt, IInv, TypeOK, Height
  <2> QED BY <2>1, <1>4, PruneInv DEF PruneDomainExecutionReceipt
<1>5. CASE FreezeDomain \/ UnfreezeDomain \/ UNCHANGED vars
  <2>1. UNCHANGED <<treeVars, blockVars, slashed>>
    BY <1>5 DEF FreezeDomain, UnfreezeDomain, vars
  <2>2. frozen' \in BOOLEAN
    BY <1>5 DEF FreezeDomain, UnfreezeDomain, vars, IInv, TypeOK
  <2>3. TypeOK'
    BY <2>1, <2>2 DEF treeVars, blockVars, IInv, TypeOK
  <2> QED BY <2>1, <2>3 DEF treeVars, blockVars, IInv, TreeConsistent,
     LiveChainLinked, PendingToPruneInvalid, isBadErPendingToPrune, LatestSubmittedSound,
     ChallengeWindow, LiveAncestry, HonestOnlyValid, DerivedHeights, DerivationDataKept,
     domainBestNumber
<1>6. ASSUME NEW upgraded \in BOOLEAN, NextBlock(upgraded) PROVE IInv'
  BY <1>6, NextBlockInv
<1> QED BY <1>1, <1>2, <1>3, <1>4, <1>5, <1>6 DEF Next

(* IInv is an inductive invariant of the block tree.                       *)
THEOREM Invariance == Spec => []IInv
BY InitInv, NextInv, PTL DEF Spec

(* Every variable keeps its type, whatever bundles, receipts, fraud proofs *)
(* and root calls come in.                                                 *)
THEOREM TypeCorrect == Spec => []TypeOK
<1>1. IInv => TypeOK
  BY DEF IInv
<1> QED BY <1>1, Invariance, PTL

(* The live receipts form a chain on top of the confirmed one; BlockTree   *)
(* and BlockTreeNodes agree.                                               *)
THEOREM ChainLinked == Spec => [](TreeConsistent /\ LiveChainLinked)
<1>1. IInv => TreeConsistent /\ LiveChainLinked
  BY DEF IInv
<1> QED BY <1>1, Invariance, PTL

(* Lazy pruning only slashes the submitters of invalid receipts, and the   *)
(* submitters it will slash can be told from LatestSubmittedER without a   *)
(* false alarm.                                                            *)
THEOREM PendingSound == Spec => [](PendingToPruneInvalid /\ LatestSubmittedSound)
<1>1. IInv => PendingToPruneInvalid /\ LatestSubmittedSound
  BY DEF IInv
<1> QED BY <1>1, Invariance, PTL

(* An honest operator is never slashed for a bad receipt, nor locked out   *)
(* as pending to slash.                                                    *)
THEOREM HonestSafe == Spec => []HonestNeverSlashed
<1>1. IInv => HonestNeverSlashed
  <2> SUFFICES ASSUME IInv, NEW op \in Honest
               PROVE  op \notin slashed /\ ~isOperatorPendingToSlash(op)
    BY DEF HonestNeverSlashed
  <2> USE ReceiptAssumption, ConfigAssumption
  <2>1. op \notin slashed
    BY DEF IInv, HonestOnlyValid
  <2>2. ASSUME isOperatorPendingToSlash(op) PROVE FALSE
    <3> DEFINE m == latestSubmittedER[op]
    <3>1. m # 0 /\ headReceiptNumber < m /\ m \in Height
      BY <2>2 DEF isOperatorPendingToSlash, IInv, TypeOK
    <3>2. blockTree[m] # NoReceipt /\ op \in operatorIds[blockTree[m]] /\ blockTree[m] \in Receipt
      BY <3>1 DEF IInv, LatestSubmittedSound, TypeOK
    <3>3. blockTree[m] \in Invalid
      BY <3>1, <3>2 DEF IInv, PendingToPruneInvalid, isBadErPendingToPrune
    <3> QED BY <3>2, <3>3 DEF IInv, HonestOnlyValid
  <2> QED BY <2>1, <2>2
<1> QED BY <1>1, Invariance, PTL

(* What the runtime needs to verify the receipt of an unconfirmed block is *)
(* never dropped early.                                                    *)
THEOREM DataKept == Spec => []DerivationDataKept
<1>1. IInv => DerivationDataKept
  BY DEF IInv
<1> QED BY <1>1, Invariance, PTL

-----------------------------------------------------------------------------
(* Refinement of ReceiptChain.                                             *)

liveChain == [n \in liveHeights |-> blockTree[n]]

(* Accepting a new head extends the abstract chain.                        *)
LEMMA NewHeadRefines ==
    ASSUME IInv, NEW op \in Operator, NEW r \in Receipt,
           isNewHead(r), verifyExecutionReceipt(r), processNewHead(op, r)
    PROVE  Chain!Extend(r)
<1> DEFINE n == BlockNumber[r]
           D == BlockTreePruningDepth
           c == latestConfirmedNumber
           h == headReceiptNumber
           e == n - D
<1> USE ReceiptAssumption, ConfigAssumption
<1>1. /\ n \in Height /\ n = h + 1 /\ c \in Nat /\ c < n
      /\ Parent[r] = IF c = h THEN latestConfirmed ELSE blockTree[h]
      /\ n \in Nat /\ h \in Nat
  <2>1. h \in Height
    BY DEF IInv, TypeOK
  <2>2. n \in Height /\ n = h + 1 /\ c \in Nat /\ c < n
    BY ONLY IInv, isNewHead(r), verifyExecutionReceipt(r), r \in Receipt, NewHeadFacts
  <2>3. Parent[r] = IF c = h THEN latestConfirmed ELSE blockTree[h]
    BY ONLY IInv, isNewHead(r), verifyExecutionReceipt(r), r \in Receipt, NewHeadFacts
  <2>4. n \in Nat /\ h \in Nat
    BY ONLY <2>1, <2>2, ConfigAssumption DEF Height
  <2> QED BY ONLY <2>2, <2>3, <2>4
<1>2. /\ headReceiptNumber' = n
      /\ latestConfirmed' = IF expiredReceipt(n) = NoReceipt THEN latestConfirmed
                            ELSE expiredReceipt(n)
      /\ blockTree' = [m \in Height |-> IF m = n THEN r ELSE IF m = e THEN NoReceipt
                                       ELSE blockTree[m]]
  BY DEF processNewHead
<1>3. \/ /\ expiredReceipt(n) = NoReceipt \/ expiredReceipt(n) = latestConfirmed
         /\ n <= c + D
         /\ e <= c
      \/ /\ expiredReceipt(n) = blockTree[c + 1]
         /\ blockTree[c + 1] \in Receipt /\ BlockNumber[blockTree[c + 1]] = c + 1
         /\ e = c + 1
         /\ c + 1 \in liveHeights
  <2>1. \/ /\ expiredReceipt(n) = NoReceipt
           /\ n <= c + D
        \/ /\ expiredReceipt(n) = latestConfirmed
           /\ c = 0 /\ e = 0
        \/ /\ expiredReceipt(n) = blockTree[c + 1]
           /\ blockTree[c + 1] \in Receipt
           /\ e = c + 1 /\ e \in liveHeights
    BY ONLY IInv, isNewHead(r), verifyExecutionReceipt(r), r \in Receipt, NewHeadFacts
  <2>2. c + 1 \in liveHeights => c + 1 \in Height
    BY <1>1 DEF Height
  <2>3. e = c + 1 /\ e \in liveHeights => BlockNumber[blockTree[c + 1]] = c + 1
    BY <2>2 DEF IInv, TreeConsistent, LiveChainLinked
  <2>4. e <= c <=> n <= c + D
    <3>0. D \in Int
      BY ONLY ConfigAssumption
    <3> HIDE DEF n, c, D
    <3>1. n \in Int /\ c \in Int /\ D \in Int
      BY ONLY <1>1, <3>0
    <3> QED BY ONLY <3>1, e = n - D
  <2>5. n <= c + D => e <= c
    BY ONLY <2>4
  <2>6. c = 0 /\ e = 0 => n <= c + D /\ e <= c
    BY ONLY <2>4
  <2> HIDE DEF n, c, D, e
  <2> QED BY ONLY <2>1, <2>3, <2>5, <2>6
<1>4. BlockNumber[r] = h + 1 /\ Parent[r] = Chain!tip /\ h' = h + 1
  <2>1. BlockNumber[r] = h + 1 /\ h' = h + 1
    BY ONLY <1>1, <1>2
  <2>2. c # h => h \in liveHeights
    BY ONLY <1>1 DEF liveHeights
  <2>3. c # h => liveChain[h] = blockTree[h]
    BY ONLY <2>2 DEF liveChain
  <2>4. Chain!tip = IF h = c THEN latestConfirmed ELSE liveChain[h]
    BY ONLY TRUE DEF Chain!tip, Chain!base, liveChain, latestConfirmedNumber
  <2> QED BY ONLY <2>1, <2>3, <2>4, <1>1
<1>5. CASE /\ expiredReceipt(n) = NoReceipt \/ expiredReceipt(n) = latestConfirmed
           /\ n <= c + D
           /\ e <= c
  <2>1. latestConfirmed' = latestConfirmed /\ c' = c
    BY <1>2, <1>5
  <2>2. liveChain' = [m \in (c + 1)..(h + 1) |-> IF m = h + 1 THEN r ELSE liveChain[m]]
    <3>1. \A m \in (c + 1)..(h + 1) : m \in Height /\ m # e /\ (m # h + 1 => m \in liveHeights)
      <4> SUFFICES ASSUME NEW m \in (c + 1)..(h + 1)
                   PROVE  m \in Height /\ m # e /\ (m # h + 1 => m \in liveHeights)
        OBVIOUS
      <4>1. n \in 0..MaxBlock /\ MaxBlock \in Nat
        BY ONLY <1>1, ConfigAssumption DEF Height
      <4>2. e <= c
        BY ONLY <1>5
      <4>3. m \in Int /\ c + 1 <= m /\ m <= h + 1
        BY ONLY <1>1, m \in (c + 1)..(h + 1)
      <4>4. m # h + 1 => m \in liveHeights
        BY ONLY <4>3, <1>1 DEF liveHeights
      <4> HIDE DEF n, c, e
      <4>5. m \in Height
        BY ONLY <4>1, <4>3, <1>1 DEF Height
      <4>6. m # e
        BY ONLY <4>2, <4>3, <1>1
      <4> QED BY ONLY <4>4, <4>5, <4>6
    <3> QED BY <3>1, <2>1, <1>1, <1>2 DEF liveChain
  <2> QED BY <2>1, <2>2, <1>1, <1>4, <1>5 DEF Chain!Extend, Chain!extended, Chain!base, liveChain
<1>6. CASE /\ expiredReceipt(n) = blockTree[c + 1]
           /\ blockTree[c + 1] \in Receipt /\ BlockNumber[blockTree[c + 1]] = c + 1
           /\ e = c + 1
           /\ c + 1 \in liveHeights
  <2>1. latestConfirmed' = liveChain[c + 1] /\ c' = c + 1
    BY <1>2, <1>6 DEF liveChain
  <2>2. liveChain' = [m \in (c + 2)..(h + 1) |-> IF m = h + 1 THEN r ELSE liveChain[m]]
    <3>1. \A m \in (c + 2)..(h + 1) : m \in Height /\ m # e /\ (m # h + 1 => m \in liveHeights)
      <4> SUFFICES ASSUME NEW m \in (c + 2)..(h + 1)
                   PROVE  m \in Height /\ m # e /\ (m # h + 1 => m \in liveHeights)
        OBVIOUS
      <4>1. n \in 0..MaxBlock /\ MaxBlock \in Nat
        BY ONLY <1>1, ConfigAssumption DEF Height
      <4>2. e = c + 1
        BY ONLY <1>6
      <4>3. m \in Int /\ c + 2 <= m /\ m <= h + 1
        BY ONLY <1>1, m \in (c + 2)..(h + 1)
      <4>4. m # h + 1 => m \in liveHeights
        BY ONLY <4>3, <1>1 DEF liveHeights
      <4> HIDE DEF n, c, e
      <4>5. m \in Height
        BY ONLY <4>1, <4>3, <1>1 DEF Height
      <4>6. m # e
        BY ONLY <4>2, <4>3, <1>1
      <4> QED BY ONLY <4>4, <4>5, <4>6
    <3>2. liveHeights' = (c + 2)..(h + 1)
      <4>1. c \in Nat /\ h \in Nat /\ n = h + 1
        BY <1>1
      <4>2. c' = c + 1
        BY <2>1
      <4>3. h' = n
        BY <1>2
      <4> QED BY ONLY <4>1, <4>2, <4>3 DEF liveHeights
    <3> QED BY <3>1, <3>2, <1>1, <1>2 DEF liveChain
  <2>3. h = c + D
    <3>1. n - D = c + 1
      BY ONLY <1>6
    <3>2. n = h + 1 /\ h \in Int /\ c \in Int
      BY ONLY <1>1
    <3>3. D \in Int
      BY ONLY ConfigAssumption
    <3> HIDE DEF n, c, D
    <3> QED BY ONLY <3>1, <3>2, <3>3
  <2> QED BY <2>1, <2>2, <2>3, <1>4 DEF Chain!Extend, Chain!extended, Chain!base, liveChain
<1> QED BY <1>3, <1>5, <1>6

(* Removing a bad receipt cuts the abstract chain below it.                *)
LEMMA PruneRefines ==
    ASSUME IInv, NEW r \in Receipt, r \in blockTreeNodes, r \in Invalid,
           BlockNumber[r] <= headReceiptNumber, pruneBadReceipt(r)
    PROVE  Chain!Next
<1> DEFINE b == BlockNumber[r]
           c == latestConfirmedNumber
<1> USE ReceiptAssumption, ConfigAssumption
<1>1. b \in liveHeights
  BY PruneTree
<1>2. /\ blockTree' = [blockTree EXCEPT ![b] = NoReceipt]
      /\ headReceiptNumber' = b - 1 /\ latestConfirmed' = latestConfirmed
  BY DEF pruneBadReceipt
<1>3. liveChain' = [m \in (c + 1)..(b - 1) |-> liveChain[m]]
  <2>1. \A m \in (c + 1)..(b - 1) : m \in Height /\ m # b /\ m \in liveHeights
    <3>1. liveHeights = (c + 1)..headReceiptNumber
      BY DEF liveHeights
    <3>2. headReceiptNumber \in Height /\ c \in Nat
      BY DEF IInv, TypeOK, Height
    <3> SUFFICES ASSUME NEW m \in (c + 1)..(b - 1)
                 PROVE  m \in Height /\ m # b /\ m \in liveHeights
      OBVIOUS
    <3>3. b \in Int /\ b <= headReceiptNumber
      BY ONLY <1>1, <3>1, <3>2
    <3>4. headReceiptNumber \in 0..MaxBlock /\ MaxBlock \in Nat
      BY ONLY <3>2, ConfigAssumption DEF Height
    <3> HIDE DEF b, c
    <3>5. m \in Int /\ c + 1 <= m /\ m <= b - 1
      BY ONLY <3>2, <3>3, m \in (c + 1)..(b - 1)
    <3>6. m # b
      BY ONLY <3>3, <3>5
    <3>7. m <= headReceiptNumber /\ 0 <= m
      BY ONLY <3>2, <3>3, <3>4, <3>5
    <3>8. m \in Height
      BY ONLY <3>4, <3>5, <3>7 DEF Height
    <3>9. m \in (c + 1)..headReceiptNumber
      BY ONLY <3>2, <3>4, <3>5, <3>7
    <3> QED BY ONLY <3>1, <3>6, <3>8, <3>9
  <2> QED BY <2>1, <1>2 DEF liveChain, IInv, TypeOK
<1>4. Chain!Revert(b)
  BY <1>2, <1>3 DEF Chain!Revert, Chain!base, liveChain
<1> QED BY <1>1, <1>4 DEF Chain!Next, Chain!base

(* Every step is a step of ReceiptChain or leaves its variables alone.     *)
LEMMA NextRefines == IInv /\ [Next]_vars => [Chain!Next]_(Chain!chainVars)
<1> USE ReceiptAssumption, ConfigAssumption
<1> SUFFICES ASSUME IInv, [Next]_vars PROVE [Chain!Next]_(Chain!chainVars)
  OBVIOUS
<1>1. ASSUME NEW op \in Operator, NEW r \in Receipt, SubmitBundle(op, r) \/ SubmitReceipt(op, r)
      PROVE  [Chain!Next]_(Chain!chainVars)
  <2>1. verifyExecutionReceipt(r) /\ processReceipt(op, r)
    BY <1>1 DEF SubmitBundle, SubmitReceipt
  <2>2. CASE isNewHead(r) /\ processNewHead(op, r)
    BY <2>1, <2>2, NewHeadRefines DEF Chain!Next
  <2>3. CASE processCurrentHead(op, r)
    BY <2>3 DEF processCurrentHead, Chain!chainVars
  <2> QED BY <2>1, <2>2, <2>3 DEF processReceipt
<1>2. ASSUME NEW r \in Receipt, SubmitFraudProof(r) PROVE Chain!Next
  <2>1. r \in blockTreeNodes /\ r \in Fraudulent /\ pruneBadReceipt(r)
    BY <1>2 DEF SubmitFraudProof
  <2>2. BlockNumber[r] <= headReceiptNumber
    BY <1>2 DEF SubmitFraudProof, isBadErPendingToPrune, IInv, TypeOK, Height
  <2>3. r \in Invalid
    <3>1. r \in Ancestors[r]
      BY AncestorsAssumption, <2>1
    <3> QED BY <2>1, <3>1 DEF Invalid
  <2> QED BY <2>1, <2>2, <2>3, PruneRefines
<1>3. ASSUME NEW r \in Receipt, PruneDomainExecutionReceipt(r) PROVE Chain!Next
  <2>1. BlockNumber[r] <= headReceiptNumber
    BY <1>3 DEF PruneDomainExecutionReceipt, IInv, TypeOK, Height
  <2> QED BY <2>1, <1>3, PruneRefines DEF PruneDomainExecutionReceipt
<1>4. CASE FreezeDomain \/ UnfreezeDomain \/ UNCHANGED vars
  BY <1>4 DEF FreezeDomain, UnfreezeDomain, vars, treeVars, Chain!chainVars
<1>5. ASSUME NEW upgraded \in BOOLEAN, NextBlock(upgraded) PROVE UNCHANGED Chain!chainVars
  BY <1>5 DEF NextBlock, Chain!chainVars
<1> QED BY <1>1, <1>2, <1>3, <1>4, <1>5 DEF Next

(* The block tree with its lazy pruning implements the chain in which a    *)
(* challenge removes all that it invalidates at once.                      *)
THEOREM Refinement == Spec => ImplementsReceiptChain
<1>1. Init => Chain!Init
  <2> SUFFICES ASSUME Init PROVE Chain!Init
    OBVIOUS
  <2>1. latestConfirmed = Genesis /\ headReceiptNumber = 0
    BY DEF Init
  <2>2. liveHeights = 1..0
    BY <2>1, ReceiptAssumption DEF liveHeights, latestConfirmedNumber
  <2>3. liveChain = [n \in 1..0 |-> Genesis]
    BY ONLY <2>2 DEF liveChain
  <2> QED BY ONLY <2>1, <2>3 DEF Chain!Init, liveChain
<1>2. IInv /\ [Next]_vars => [Chain!Next]_(Chain!chainVars)
  BY NextRefines
<1> QED BY <1>1, <1>2, Invariance, PTL DEF Spec, Chain!Spec, ImplementsReceiptChain
=============================================================================
