----------------------------- MODULE BlockTree -----------------------------
(***************************************************************************)
(* The execution receipt (ER) tree that the consensus chain keeps for one  *)
(* domain: pallet-domains, block_tree.rs and the calls of lib.rs that      *)
(* reach it.                                                               *)
(*                                                                         *)
(* Operators submit the ER of the next domain block, inside a bundle or,   *)
(* when receipts lag behind, alone.  The ER that extends the head becomes  *)
(* the new head; an ER BlockTreePruningDepth below a new head is confirmed *)
(* and leaves the tree.  A fraud proof removes one bad ER and moves the    *)
(* head below it; the descendants of the bad ER stay in the table and are  *)
(* removed, and their submitters slashed, one at a time, when the head     *)
(* reaches their height again.                                             *)
(*                                                                         *)
(* An ER commits to its parent by hash, so the receipts that may ever be   *)
(* submitted form a fixed tree: the constant Receipt with BlockNumber,     *)
(* Parent and Ancestors.  A receipt stands for its hash.  What an ER says  *)
(* about the consensus block and the bundles it was derived from is        *)
(* checked against storage, so two receipts of one height differ only in   *)
(* what they claim of the execution.                                       *)
(***************************************************************************)
EXTENDS Integers

CONSTANTS
    Operator,               \* operator ids registered on the domain
    Honest,                 \* the operators that run the node of this repository
    Receipt,                \* every ER that can be submitted for the domain
    Genesis,                \* the ER made by the runtime at instantiation
    BlockNumber,            \* domain_block_number of an ER
    Parent,                 \* parent_domain_block_receipt_hash of an ER
    Ancestors,              \* an ER and all it descends from
    Fraudulent,             \* ERs that a fraud proof can be made for
    NeedsParent,            \* those whose proof is checked against the parent ER
    NoReceipt,              \* None
    BlockTreePruningDepth,  \* T::BlockTreePruningDepth
    MaxBlock,               \* bound on the domain blocks of a behaviour
    MaxMissedUpgrade        \* bound on the upgrades between two bundles

Height == 0..MaxBlock

(* What hash commitments guarantee of the receipts.                        *)
ASSUME ReceiptAssumption ==
    /\ Genesis \in Receipt
    /\ NoReceipt \notin Receipt
    /\ BlockNumber \in [Receipt -> Height]
    /\ Parent \in [Receipt -> Receipt]
    /\ Ancestors \in [Receipt -> SUBSET Receipt]
    /\ \A r \in Receipt : BlockNumber[r] = 0 <=> r = Genesis
    /\ \A r \in Receipt \ {Genesis} : BlockNumber[Parent[r]] = BlockNumber[r] - 1
    /\ Fraudulent \subseteq Receipt \ {Genesis}
    /\ NeedsParent \subseteq Fraudulent

ASSUME AncestorsAssumption ==
    /\ Ancestors[Genesis] = {Genesis}
    /\ \A r \in Receipt \ {Genesis} : Ancestors[r] = {r} \cup Ancestors[Parent[r]]
    /\ \A r, a \in Receipt : a \in Ancestors[r] => Ancestors[a] \subseteq Ancestors[r]

ASSUME ConfigAssumption ==
    /\ Honest \subseteq Operator
    /\ BlockTreePruningDepth \in Nat \ {0}
    /\ MaxBlock \in Nat
    /\ MaxMissedUpgrade \in 0..(BlockTreePruningDepth + 1)

(* An ER is invalid when it, or an ER that it builds on, is fraudulent.    *)
Invalid == {r \in Receipt : Ancestors[r] \cap Fraudulent # {}}

VARIABLES
    blockTree,            \* BlockTree: the ER kept at each height, if any
    blockTreeNodes,       \* BlockTreeNodes: the ERs that have a node
    operatorIds,          \* BlockTreeNode::operator_ids of each node
    headReceiptNumber,    \* HeadReceiptNumber
    newAddedHeadReceipt,  \* NewAddedHeadReceipt: head ER added in this block
    latestConfirmed,      \* LatestConfirmedDomainExecutionReceipt
    latestSubmittedER,    \* LatestSubmittedER of each operator, 0 if none
    headDomainNumber,     \* HeadDomainNumber
    successfulBundles,    \* SuccessfulBundles is not empty
    executionInbox,       \* the heights ExecutionInbox holds bundles for
    consensusBlockHash,   \* the heights whose deriving block is in ConsensusBlockHash
    upgradeBlocks,        \* the heights derived from a runtime upgrade alone that
                          \* DomainRuntimeUpgradeRecords still has the record of
    missedUpgrade,        \* upgrade records newer than the last block with a bundle
    slashed,              \* operators marked OperatorStatus::Slashed, or removed after
    frozen                \* the domain is in FrozenDomains

treeVars == <<blockTree, blockTreeNodes, operatorIds, headReceiptNumber,
              newAddedHeadReceipt, latestConfirmed, latestSubmittedER>>
blockVars == <<headDomainNumber, successfulBundles, executionInbox,
               consensusBlockHash, upgradeBlocks, missedUpgrade>>
vars == <<treeVars, blockVars, slashed, frozen>>

TypeOK ==
    /\ blockTree \in [Height -> Receipt \cup {NoReceipt}]
    /\ blockTreeNodes \subseteq Receipt
    /\ operatorIds \in [Receipt -> SUBSET Operator]
    /\ headReceiptNumber \in Height
    /\ newAddedHeadReceipt \in Receipt \cup {NoReceipt}
    /\ latestConfirmed \in Receipt
    /\ latestSubmittedER \in [Operator -> Height]
    /\ headDomainNumber \in Height
    /\ successfulBundles \in BOOLEAN
    /\ executionInbox \subseteq Height
    /\ consensusBlockHash \subseteq Height
    /\ upgradeBlocks \subseteq Height
    /\ missedUpgrade \in 0..MaxMissedUpgrade
    /\ slashed \subseteq Operator
    /\ frozen \in BOOLEAN

-----------------------------------------------------------------------------
(* Queries of the block tree.                                              *)

latestConfirmedNumber == BlockNumber[latestConfirmed]

domainBestNumber == headDomainNumber + missedUpgrade

receiptGap ==
    IF domainBestNumber >= headReceiptNumber
    THEN domainBestNumber - headReceiptNumber ELSE 0

isBadErPendingToPrune(n) == n # 0 /\ headReceiptNumber < n

isOperatorPendingToSlashInclusive(op) ==
    latestSubmittedER[op] # 0 /\ headReceiptNumber <= latestSubmittedER[op]

isOperatorPendingToSlash(op) ==
    latestSubmittedER[op] # 0 /\ headReceiptNumber < latestSubmittedER[op]

canSubmitBundle(op) == op \notin slashed /\ ~isOperatorPendingToSlash(op)

(* execution_receipt_type: the two accepted types; every other receipt is  *)
(* rejected as in the future, pruned, of a new branch or stale.            *)
isNewHead(r) ==
    /\ BlockNumber[r] = headReceiptNumber + 1
    /\ newAddedHeadReceipt = NoReceipt

isCurrentHead(r) ==
    /\ BlockNumber[r] = headReceiptNumber
    /\ ~(latestConfirmedNumber # 0 /\ BlockNumber[r] <= latestConfirmedNumber)
    /\ blockTree[BlockNumber[r]] = r
    /\ \/ newAddedHeadReceipt # NoReceipt
       \/ BlockNumber[r] = 0 /\ headDomainNumber = 0

(* The parent check at the end of verify_execution_receipt.                *)
parentUnchecked(r) == TRUE

parentExists(r) == blockTree[BlockNumber[r] - 1] = Parent[r]

verifyExecutionReceipt(r) ==
    /\ isNewHead(r) \/ isCurrentHead(r)
    /\ IF newAddedHeadReceipt # NoReceipt THEN newAddedHeadReceipt = r
       ELSE IF BlockNumber[r] = 0 THEN blockTree[0] = r
       ELSE /\ BlockNumber[r] \in consensusBlockHash \cup upgradeBlocks
            /\ BlockNumber[r] \in executionInbox \cup upgradeBlocks
            /\ parentExists(r)

-----------------------------------------------------------------------------
(* prune_receipt, on the latest submitted ERs: the operators of the pruned *)
(* ER at height n for which it was the latest one are forgotten.           *)
forgetNothing(latest, ops, n) == latest

forgetLatest(latest, ops, n) ==
    [op \in Operator |-> IF op \in ops /\ latest[op] = n THEN 0 ELSE latest[op]]

noteLatest(latest, op, n) ==
    [latest EXCEPT ![op] = IF n > @ THEN n ELSE @]

nodeOperators(r) == IF r = NoReceipt THEN {} ELSE operatorIds[r]

(* prune_receipt, on the nodes: those of the receipts rs are taken out.    *)
nodesRead(rs) == blockTreeNodes

nodesWithout(rs) == blockTreeNodes \ rs

(* The height that a new head at height n takes out of the challenge       *)
(* period, when it is not negative, and the ER there.                      *)
toPruneEarly(n) == n - BlockTreePruningDepth + 1

toPrune(n) == n - BlockTreePruningDepth

expiredReceipt(n) == IF toPrune(n) >= 0 THEN blockTree[toPrune(n)] ELSE NoReceipt

(* process_execution_receipt of a NewHead receipt that op submits, after   *)
(* the call pruned, and slashed the submitters of, the bad ER that an      *)
(* earlier fraud proof left at this height.  LatestSubmittedER is only     *)
(* updated when the receipt is too young to expire another one: the code   *)
(* returns from the pruning branch before it gets there.                   *)
processNewHead(op, r) ==
    LET n       == BlockNumber[r]
        bad     == blockTree[n]
        expired == expiredReceipt(n)
        latest  == forgetLatest(latestSubmittedER, nodeOperators(bad), n)
    IN  /\ blockTree' = [m \in Height |-> IF m = n THEN r
                                          ELSE IF m = toPrune(n) THEN NoReceipt
                                          ELSE blockTree[m]]
        /\ blockTreeNodes' = nodesWithout({bad, expired}) \cup {r}
        /\ operatorIds' = [x \in Receipt |-> IF x = r THEN {op}
                                             ELSE IF x \in {bad, expired} THEN {}
                                             ELSE operatorIds[x]]
        /\ latestSubmittedER' =
              IF toPrune(n) < 0 THEN noteLatest(latest, op, n)
              ELSE forgetLatest(latest, nodeOperators(expired), toPrune(n))
        /\ headReceiptNumber' = n
        /\ newAddedHeadReceipt' = r
        /\ latestConfirmed' = IF expired = NoReceipt THEN latestConfirmed ELSE expired
        /\ slashed' = slashed \cup nodeOperators(bad)

(* process_execution_receipt of a receipt that confirms the current head.  *)
processCurrentHead(op, r) ==
    /\ operatorIds' = [operatorIds EXCEPT ![r] = @ \cup {op}]
    /\ latestSubmittedER' = noteLatest(latestSubmittedER, op, BlockNumber[r])
    /\ UNCHANGED <<blockTree, blockTreeNodes, headReceiptNumber, newAddedHeadReceipt,
                   latestConfirmed, slashed>>

processReceipt(op, r) ==
    \/ isNewHead(r) /\ processNewHead(op, r)
    \/ isCurrentHead(r) /\ processCurrentHead(op, r)

(* The heights whose derivation data go with the ER that r confirms.       *)
confirmedAndNext(r) ==
    IF isNewHead(r) /\ expiredReceipt(BlockNumber[r]) # NoReceipt
    THEN {toPrune(BlockNumber[r]), toPrune(BlockNumber[r]) + 1} ELSE {}

confirmedBy(r) ==
    IF isNewHead(r) /\ expiredReceipt(BlockNumber[r]) # NoReceipt
    THEN {toPrune(BlockNumber[r])} ELSE {}

(* An operator of Honest executes the domain itself, so it only submits    *)
(* receipts that it found valid.                                           *)
mayAuthorAny(op, r) == TRUE

mayAuthor(op, r) == op \in Honest => r \notin Invalid

-----------------------------------------------------------------------------
Init ==
    /\ blockTree = [n \in Height |-> IF n = 0 THEN Genesis ELSE NoReceipt]
    /\ blockTreeNodes = {Genesis}
    /\ operatorIds = [r \in Receipt |-> {}]
    /\ headReceiptNumber = 0
    /\ newAddedHeadReceipt = NoReceipt
    /\ latestConfirmed = Genesis
    /\ latestSubmittedER = [op \in Operator |-> 0]
    /\ headDomainNumber = 0
    /\ successfulBundles = FALSE
    /\ executionInbox = {}
    /\ consensusBlockHash = {}
    /\ upgradeBlocks = {}
    /\ missedUpgrade = 0
    /\ slashed = {}
    /\ frozen = FALSE

(* submit_bundle, validated by validate_submit_bundle.  The first bundle   *)
(* of a consensus block makes that block derive the next domain block.     *)
SubmitBundle(op, r) ==
    LET head == IF successfulBundles THEN headDomainNumber ELSE domainBestNumber + 1
    IN  /\ ~frozen
        /\ canSubmitBundle(op)
        /\ mayAuthor(op, r)
        /\ receiptGap <= 1
        /\ head <= MaxBlock
        /\ verifyExecutionReceipt(r)
        /\ processReceipt(op, r)
        /\ headDomainNumber' = head
        /\ missedUpgrade' = IF successfulBundles THEN missedUpgrade ELSE 0
        /\ successfulBundles' = TRUE
        /\ executionInbox' = (executionInbox \ confirmedBy(r)) \cup {head}
        /\ consensusBlockHash' = consensusBlockHash \ confirmedBy(r)
        /\ upgradeBlocks' = upgradeBlocks \ confirmedBy(r)
        /\ UNCHANGED frozen

(* submit_receipt, validated by validate_singleton_receipt.                *)
SubmitReceipt(op, r) ==
    /\ ~frozen
    /\ canSubmitBundle(op)
    /\ mayAuthor(op, r)
    /\ receiptGap > 1
    /\ verifyExecutionReceipt(r)
    /\ processReceipt(op, r)
    /\ executionInbox' = executionInbox \ confirmedBy(r)
    /\ consensusBlockHash' = consensusBlockHash \ confirmedBy(r)
    /\ upgradeBlocks' = upgradeBlocks \ confirmedBy(r)
    /\ UNCHANGED <<headDomainNumber, missedUpgrade, successfulBundles, frozen>>

(* The head after the removal of a bad ER.                                 *)
headTwoBelow(r) == BlockNumber[r] - 2
headAtConfirmed(r) == latestConfirmedNumber
headNotReverted(r) == BlockNumber[r]

revertedHead(r) == BlockNumber[r] - 1

(* Removal of a bad ER that has a node: it leaves the tree, its submitters *)
(* are slashed and the head moves below it.  Its descendants stay.         *)
pruneBadReceipt(r) ==
    /\ blockTree' = [blockTree EXCEPT ![BlockNumber[r]] = NoReceipt]
    /\ blockTreeNodes' = nodesWithout({r})
    /\ operatorIds' = [operatorIds EXCEPT ![r] = {}]
    /\ latestSubmittedER' = forgetLatest(latestSubmittedER, operatorIds[r], BlockNumber[r])
    /\ slashed' = slashed \cup operatorIds[r]
    /\ headReceiptNumber' = revertedHead(r)
    /\ UNCHANGED <<newAddedHeadReceipt, latestConfirmed, blockVars, frozen>>

(* submit_fraud_proof, validated by validate_fraud_proof.                  *)
SubmitFraudProof(r) ==
    /\ r \in blockTreeNodes
    /\ BlockNumber[r] # 0
    /\ ~isBadErPendingToPrune(BlockNumber[r])
    /\ r \in Fraudulent
    /\ r \in NeedsParent => Parent[r] \in blockTreeNodes
    /\ pruneBadReceipt(r)

(* prune_domain_execution_receipt: root removes an ER that it found to be  *)
(* bad from a frozen domain.                                               *)
PruneDomainExecutionReceipt(r) ==
    /\ frozen
    /\ r \in blockTreeNodes
    /\ headReceiptNumber >= BlockNumber[r]
    /\ r \in Invalid
    /\ pruneBadReceipt(r)

FreezeDomain ==
    /\ frozen' = TRUE
    /\ UNCHANGED <<treeVars, blockVars, slashed>>

UnfreezeDomain ==
    /\ frozen' = FALSE
    /\ UNCHANGED <<treeVars, blockVars, slashed>>

(* The end of a consensus block and the start of the next one: on_finalize *)
(* and on_initialize.  A runtime upgrade of the ending block derives a     *)
(* domain block of its own when the block has no bundle.                   *)
NextBlock(upgraded) ==
    LET alone == upgraded /\ ~successfulBundles
    IN  /\ alone => missedUpgrade < MaxMissedUpgrade /\ domainBestNumber < MaxBlock
        /\ newAddedHeadReceipt' = NoReceipt
        /\ successfulBundles' = FALSE
        /\ consensusBlockHash' =
              consensusBlockHash \cup (IF successfulBundles THEN {headDomainNumber} ELSE {})
        /\ upgradeBlocks' = upgradeBlocks \cup (IF alone THEN {domainBestNumber + 1} ELSE {})
        /\ missedUpgrade' = IF alone THEN missedUpgrade + 1 ELSE missedUpgrade
        /\ UNCHANGED <<blockTree, blockTreeNodes, operatorIds, headReceiptNumber,
                       latestConfirmed, latestSubmittedER, headDomainNumber,
                       executionInbox, slashed, frozen>>

Next ==
    \/ \E op \in Operator, r \in Receipt : SubmitBundle(op, r) \/ SubmitReceipt(op, r)
    \/ \E r \in Receipt : SubmitFraudProof(r) \/ PruneDomainExecutionReceipt(r)
    \/ FreezeDomain
    \/ UnfreezeDomain
    \/ \E upgraded \in BOOLEAN : NextBlock(upgraded)

Spec == Init /\ [][Next]_vars

-----------------------------------------------------------------------------
(* Progress.  The domain is not frozen, every honest operator goes on      *)
(* submitting receipts, every node proves the frauds that it sees, and     *)
(* consensus blocks go on being produced.                                  *)

HonestSubmit ==
    \E op \in Honest, r \in Receipt : SubmitBundle(op, r) \/ SubmitReceipt(op, r)

RunningNext ==
    \/ \E op \in Operator, r \in Receipt : SubmitBundle(op, r) \/ SubmitReceipt(op, r)
    \/ \E r \in Receipt : SubmitFraudProof(r)
    \/ \E upgraded \in BOOLEAN : NextBlock(upgraded)

(* A bad receipt is challenged before the receipt below it leaves the tree *)
(* (FraudProofLeavesParent says what happens otherwise).                   *)
ChallengedInTime ==
    /\ headReceiptNumber >= BlockTreePruningDepth
    /\ headReceiptNumber > latestConfirmedNumber
    => blockTree[latestConfirmedNumber + 1] \notin Invalid

LiveSpec ==
    /\ Init
    /\ [][RunningNext /\ ChallengedInTime']_vars
    /\ WF_vars(HonestSubmit /\ ChallengedInTime')
    /\ WF_vars((\E r \in Receipt : SubmitFraudProof(r)) /\ ChallengedInTime')
    /\ WF_vars(NextBlock(FALSE) /\ ChallengedInTime')

-----------------------------------------------------------------------------
(* The heights of the receipts in their challenge period.                  *)
liveHeights == (latestConfirmedNumber + 1)..headReceiptNumber

(* BlockTree and BlockTreeNodes agree: prune_receipt never returns         *)
(* MissingDomainBlock, adding a head never returns OverwritingER, and the  *)
(* node a CurrentHead receipt confirms exists, as the expect in            *)
(* process_execution_receipt says.                                         *)
TreeConsistent ==
    /\ \A n \in Height : blockTree[n] # NoReceipt =>
          BlockNumber[blockTree[n]] = n /\ blockTree[n] \in blockTreeNodes
    /\ \A r \in blockTreeNodes : blockTree[BlockNumber[r]] = r
    /\ \A r \in Receipt : operatorIds[r] # {} => r \in blockTreeNodes

(* The receipts from the last confirmed one to the head are all there and  *)
(* each one extends the one below it, whatever fraud proofs, lazy pruning  *)
(* and confirmations came in between; nothing at or below the confirmed    *)
(* height is left but, at first, the genesis receipt.                      *)
LiveChainLinked ==
    /\ latestConfirmedNumber <= headReceiptNumber
    /\ \A n \in liveHeights :
          /\ blockTree[n] # NoReceipt
          /\ Parent[blockTree[n]] = IF n = latestConfirmedNumber + 1 THEN latestConfirmed
                                    ELSE blockTree[n - 1]
    /\ \A n \in 0..latestConfirmedNumber :
          blockTree[n] # NoReceipt => /\ latestConfirmed = Genesis
                                      /\ headReceiptNumber < BlockTreePruningDepth

(* The receipts that a fraud proof leaves above the head are invalid ones, *)
(* so the lazy pruning in submit_bundle and submit_receipt, which slashes  *)
(* their submitters without any further proof, is justified.               *)
PendingToPruneInvalid ==
    \A n \in Height : isBadErPendingToPrune(n) /\ blockTree[n] # NoReceipt
                      => blockTree[n] \in Invalid

(* An operator that only submits valid receipts is never slashed for a bad *)
(* receipt and never locked out as pending to slash.                       *)
HonestNeverSlashed ==
    \A op \in Honest : op \notin slashed /\ ~isOperatorPendingToSlash(op)

(* LatestSubmittedER of an operator is 0 or the height of a receipt in the *)
(* tree that it submitted: is_operator_pending_to_slash is never true of   *)
(* an operator that has no receipt pending to prune.                       *)
LatestSubmittedSound ==
    \A op \in Operator : latestSubmittedER[op] # 0 =>
        /\ blockTree[latestSubmittedER[op]] # NoReceipt
        /\ op \in operatorIds[blockTree[latestSubmittedER[op]]]

(* What verify_execution_receipt needs to know of a derived domain block   *)
(* is kept until its receipt is confirmed, also for the heights that a     *)
(* fraud proof makes it ask again: each unconfirmed height has its bundles *)
(* or its upgrade record and, from the next consensus block on, the hash   *)
(* of the block it derives from.  No upgrade record goes before the block  *)
(* that derives from it is counted in HeadDomainNumber.                    *)
DerivationDataKept ==
    /\ headReceiptNumber <= domainBestNumber
    /\ latestConfirmedNumber <= headDomainNumber
    /\ \A n \in (latestConfirmedNumber + 1)..domainBestNumber :
          /\ n \in executionInbox \cup upgradeBlocks
          /\ \/ n \in consensusBlockHash \cup upgradeBlocks
             \/ n = headDomainNumber /\ successfulBundles

(* The head is at most the pruning depth above the confirmed receipt.      *)
ChallengeWindow == headReceiptNumber <= latestConfirmedNumber + BlockTreePruningDepth

(* Every live receipt descends from the live ones below it, so all that    *)
(* stand above a fraudulent one are invalid.                               *)
LiveAncestry ==
    \A m, n \in liveHeights : m <= n => blockTree[m] \in Ancestors[blockTree[n]]

(* An honest operator is only found on valid receipts.                     *)
HonestOnlyValid ==
    \A op \in Honest : op \notin slashed /\ \A r \in Receipt : op \in operatorIds[r] => r \notin Invalid

(* Receipts are only accepted of heights that were derived.                *)
DerivedHeights ==
    /\ \A n \in consensusBlockHash \cup upgradeBlocks : n <= domainBestNumber
    /\ successfulBundles => missedUpgrade = 0

(* The inductive invariant behind the ones above: no call and no block     *)
(* boundary of the pallet leads out of it.                                 *)
IInv ==
    /\ TypeOK
    /\ TreeConsistent
    /\ LiveChainLinked
    /\ PendingToPruneInvalid
    /\ LatestSubmittedSound
    /\ ChallengeWindow
    /\ LiveAncestry
    /\ HonestOnlyValid
    /\ DerivedHeights
    /\ DerivationDataKept

(* The abstract chain as read from the pallet's storage.                   *)
Chain == INSTANCE ReceiptChain WITH
    Depth     <- BlockTreePruningDepth,
    confirmed <- latestConfirmed,
    head      <- headReceiptNumber,
    chain     <- [n \in liveHeights |-> blockTree[n]]

(* The block tree implements the chain in which a challenge removes all    *)
(* that it invalidates at once: a confirmed receipt extends the confirmed  *)
(* one before it, stood for the whole challenge period, is never reverted, *)
(* and no receipt that lazy pruning has left behind comes back to life.    *)
ImplementsReceiptChain == Chain!Spec

(* Every domain block that the consensus chain derives gets its receipt in *)
(* the end, although receipts of malicious operators are accepted first,   *)
(* are removed again and drag the head back: lazy pruning does not get in  *)
(* the way of the receipts that replace them.  (The block at MaxBlock has  *)
(* to wait for a bundle after it.)                                         *)
ReceiptsCatchUp ==
    \A n \in 1..(MaxBlock - 1) :
        (n <= domainBestNumber) ~> (headReceiptNumber >= n)

=============================================================================
