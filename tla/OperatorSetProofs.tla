------------------------- MODULE OperatorSetProofs -------------------------
(***************************************************************************)
(* Proofs about OperatorSet: it is BlockTree with operators, so all that   *)
(* is proved about the block tree holds here, and the two facts that keep  *)
(* bundles flowing: neither an epoch transition nor the slashing at the    *)
(* end of submit_bundle can fail for an operator it does not expect.       *)
(***************************************************************************)
EXTENDS OperatorSet, BlockTreeProofs, TLAPS

(* Every step is a step of BlockTree, or leaves the block tree alone.      *)
THEOREM BlockTreeOfOperators == OperatorSpec => Spec
<1>1. OperatorInit => Init
  BY DEF OperatorInit
<1>2. [OperatorNext]_operatorVars => [Next]_vars
  BY DEF OperatorNext, operatorVars, Next, OpSubmitBundle, OpSubmitReceipt,
         OpSubmitFraudProof, OpPruneDomainExecutionReceipt, OpFreezeDomain,
         OpUnfreezeDomain, OpNextBlock, RegisterOperator, NominateOperator, WithdrawStake,
         DeregisterOperator, UnlockOperator, DeactivateOperator, ReactivateOperator,
         ForceStakingEpochTransition
<1> QED BY <1>1, <1>2, PTL DEF OperatorSpec, Spec

-----------------------------------------------------------------------------
(* What is kept by every piece of a call, for the staking state s.         *)
Sound(s) ==
    /\ s \in StakingState
    /\ \A op \in s.next : s.status[op] = "Registered"
    /\ s.pendingSlashes = {op \in Operator : s.status[op] = "Slashed"}

(* do_mark_operators_as_slashed                                            *)
LEMMA MarkAsSlashedSound ==
    ASSUME NEW s, Sound(s), NEW ops \in SUBSET Operator
    PROVE  Sound(markAsSlashed(s, ops))
BY ZenonT(30) DEF Sound, StakingState, markAsSlashed, updateStatus, exists, Status

(* Only operators are accused.                                             *)
LEMMA AuthorsAreOperators == \A r \in Receipt : invalidBundleAuthorsFor(r) \subseteq Operator
BY OperatorAssumption DEF invalidBundleAuthorsFor

(* do_mark_invalid_bundle_authors                                          *)
LEMMA MarkInvalidSound ==
    ASSUME NEW s, Sound(s), NEW r \in Receipt, NEW pending
    PROVE  Sound(markInvalidBundleAuthors(s, r, pending))
BY AuthorsAreOperators, ZenonT(30) DEF Sound, StakingState, markInvalidBundleAuthors, updateStatus, Status

(* do_unmark_invalid_bundle_authors                                        *)
LEMMA UnmarkSound ==
    ASSUME NEW s, Sound(s), NEW r \in Receipt, NEW pending
    PROVE  Sound(unmarkInvalidBundleAuthors(s, r, pending))
BY AuthorsAreOperators, ZenonT(30) DEF Sound, StakingState, unmarkInvalidBundleAuthors, updateStatus, Status

(* do_cleanup_operator, of an operator that is not registered.             *)
LEMMA CleanupSound ==
    ASSUME NEW s, Sound(s), NEW op \in Operator, s.status[op] # "Registered"
    PROVE  Sound(cleanupOperator(s, op))
BY ZenonT(30) DEF Sound, StakingState, cleanupOperator, updateStatus, Status

(* do_slash_operator                                                       *)
LEMMA SlashSound ==
    ASSUME NEW s, Sound(s), NEW t \in slashOperator(s)
    PROVE  Sound(t)
BY CleanupSound DEF Sound, slashOperator

(* A request of the current epoch.                                         *)
LEMMA NoteSound ==
    ASSUME NEW s, Sound(s), NEW ops \in SUBSET Operator
    PROVE  Sound(noteRequest(s, ops)) /\ noteRequest(s, ops).epoch = s.epoch
<1> DEFINE asked == s.requests \cup (ops \X {s.epoch})
           t     == [s EXCEPT !.dirty = @ \cup ops, !.requests = asked]
<1>1. noteRequest(s, ops) = t
  BY DEF Sound, StakingState, noteRequest
<1>2. asked \subseteq Operator \X Epoch
  BY DEF Sound, StakingState
<1> HIDE DEF asked
<1>3. t \in StakingState
  BY <1>2 DEF Sound, StakingState
<1>4. t.next = s.next /\ t.status = s.status /\ t.pendingSlashes = s.pendingSlashes
      /\ t.epoch = s.epoch
  BY DEF Sound, StakingState
<1> HIDE DEF t
<1> QED BY <1>1, <1>3, <1>4 DEF Sound

(* do_finalize_domain_current_epoch                                        *)
LEMMA FinalizeSound ==
    ASSUME NEW s, Sound(s), NEW pending, epochCanEnd(s, pending)
    PROVE  Sound(finalizeEpoch(s, pending))
<1> DEFINE alive     == {op \in Operator : exists(s, op) /\ s.status[op] # "Slashed"} \ pending
           taxed     == s.rewarded \cap alive
           staked    == noteRequest(s, taxed)
           leftOut   == (taxed \cup s.invalidAuthors \cup s.deregistered \cup s.deactivated)
                        \ s.next
           finalized == (s.next \ pending) \cup (leftOut \cap alive)
           price     == staked.sharePrice \cup ((finalized \cap staked.dirty) \X {s.epoch})
           t         == [staked EXCEPT !.sharePrice = price,
                                       !.dirty = @ \ finalized,
                                       !.lastEpoch = s.current,
                                       !.current = s.next \ pending,
                                       !.next = @ \ pending,
                                       !.epoch = @ + 1,
                                       !.rewarded = {},
                                       !.invalidAuthors = {},
                                       !.deregistered = {},
                                       !.deactivated = {}]
<1>1. finalizeEpoch(s, pending) = t
  BY DEF finalizeEpoch
<1>2. taxed \in SUBSET Operator
  OBVIOUS
<1>3. Sound(staked) /\ staked.epoch = s.epoch
  BY <1>2, NoteSound
<1>4. s.current \subseteq Operator /\ s.next \subseteq Operator /\ s.epoch \in Epoch
  BY DEF Sound, StakingState
<1>5. s.epoch + 1 \in Epoch
  BY <1>4, OperatorAssumption DEF epochCanEnd, Epoch
<1>6. price \subseteq Operator \X Epoch
  BY <1>3, <1>4 DEF Sound, StakingState
<1> HIDE DEF alive, taxed, staked, leftOut, finalized, price
<1>7. t \in StakingState
  BY <1>3, <1>4, <1>5, <1>6, ZenonT(30) DEF Sound, StakingState
<1>8. \A op \in t.next : t.status[op] = "Registered"
  BY <1>3 DEF Sound, StakingState
<1>9. t.pendingSlashes = {op \in Operator : t.status[op] = "Slashed"}
  BY <1>3 DEF Sound, StakingState
<1> QED BY <1>1, <1>7, <1>8, <1>9 DEF Sound

-----------------------------------------------------------------------------
(* Every call keeps the staking state sound; the block tree's type         *)
(* invariant gives the types of the sets of operators that receipts bring. *)
LEMMA InitSound == OperatorInit => Sound(staking)
<1> SUFFICES ASSUME OperatorInit PROVE Sound(staking)
  OBVIOUS
<1>1. 0 \in Epoch /\ 1 \in Epoch
  BY OperatorAssumption DEF Epoch
<1>2. InitialOperator \subseteq Operator /\ InitialOperator \X {0} \subseteq Operator \X Epoch
  BY <1>1, OperatorAssumption
<1>3. staking \in StakingState
  BY <1>1, <1>2 DEF OperatorInit, StakingState, Status
<1>4. \A op \in staking.next : staking.status[op] = "Registered"
  BY <1>2 DEF OperatorInit
<1>5. staking.pendingSlashes = {op \in Operator : staking.status[op] = "Slashed"}
  BY <1>2 DEF OperatorInit
<1> QED BY <1>3, <1>4, <1>5 DEF Sound

(* process_execution_receipt and what surrounds it in the submitting calls. *)
LEMMA ReceiptSound ==
    ASSUME TypeOK, Sound(staking), NEW r \in Receipt
    PROVE  Sound(processReceiptStaking(r))
<1> DEFINE n         == BlockNumber[r]
           bad       == blockTree[n]
           pending   == pendingToSlashAt(headReceiptNumber,
                                         forgetLatest(latestSubmittedER, nodeOperators(bad), n))
           replaced  == IF bad = NoReceipt THEN staking
                        ELSE unmarkInvalidBundleAuthors(
                                 markAsSlashed(staking, operatorIds[bad]), bad, pending)
           marked    == markInvalidBundleAuthors(replaced, r, pending)
           confirmed == expiredReceipt(n)
           paid      == marked.rewarded
                        \cup (IF confirmed \in Paying THEN operatorIds[confirmed] ELSE {})
           rewarded  == [marked EXCEPT !.rewarded = paid]
<1>1. /\ n \in Height
      /\ \A m \in Height : blockTree[m] \in Receipt \cup {NoReceipt}
      /\ \A q \in Receipt : operatorIds[q] \in SUBSET Operator
  BY ReceiptAssumption DEF TypeOK, TreeTypeOK
<1>2. confirmed # NoReceipt => confirmed \in Receipt
  <2>1. toPrune(n) >= 0 => toPrune(n) \in Height
    BY <1>1, ConfigAssumption DEF toPrune, Height
  <2> QED BY <2>1, <1>1 DEF expiredReceipt
<1>3. Sound(replaced)
  BY <1>1, MarkAsSlashedSound, UnmarkSound
<1>4. Sound(marked)
  BY <1>3, MarkInvalidSound
<1>5. Sound(rewarded)
  <2>1. paid \subseteq Operator
    BY <1>1, <1>2, <1>4, OperatorAssumption, ZenonT(30) DEF Sound, StakingState
  <2> HIDE DEF paid, marked
  <2>2. rewarded \in StakingState
    BY <2>1, <1>4 DEF Sound, StakingState
  <2>3. /\ rewarded.next = marked.next /\ rewarded.status = marked.status
        /\ rewarded.pendingSlashes = marked.pendingSlashes
    BY <1>4 DEF Sound, StakingState
  <2> HIDE DEF rewarded
  <2> QED BY <2>2, <2>3, <1>4 DEF Sound
<1>6. confirmed # NoReceipt => Sound(markAsSlashed(rewarded, invalidBundleAuthorsFor(confirmed)))
  BY <1>2, <1>5, AuthorsAreOperators, MarkAsSlashedSound
<1> QED BY <1>4, <1>6 DEF processReceiptStaking

(* submit_fraud_proof and prune_domain_execution_receipt.                  *)
LEMMA PruneSound ==
    ASSUME TypeOK, Sound(staking), NEW r \in Receipt, pruneBadReceiptStaking(r)
    PROVE  Sound(staking')
<1>1. operatorIds[r] \in SUBSET Operator
  BY DEF TypeOK
<1>2. Sound(markAsSlashed(staking, operatorIds[r]))
  BY <1>1, MarkAsSlashedSound
<1> QED BY <1>2, UnmarkSound DEF pruneBadReceiptStaking

(* The calls of operators, nominators and root.                            *)
LEMMA StakingCallSound ==
    ASSUME Sound(staking), headDomainNumber \in Height, NEW op \in Operator,
           \/ RegisterOperator(op) \/ UnlockOperator(op)
           \/ NominateOperator(op) \/ WithdrawStake(op)
           \/ DeregisterOperator(op) \/ DeactivateOperator(op) \/ ReactivateOperator(op)
    PROVE  Sound(staking')
<1>0. headDomainNumber + StakeWithdrawalLockingPeriod \in Nat
  BY OperatorAssumption, ConfigAssumption DEF Height
<1>1. CASE RegisterOperator(op)
  <2>1. <<op, staking.epoch>> \in Operator \X Epoch /\ staking \in StakingState
    BY DEF Sound, StakingState
  <2>2. updateStatus(staking, {op}, "Registered") \in [Operator -> Status]
    BY <2>1 DEF StakingState, updateStatus, Status
  <2>3. staking' \in StakingState
    BY <2>1, <2>2, <1>1 DEF RegisterOperator, StakingState
  <2>4. \A o \in staking'.next : staking'.status[o] = "Registered"
    BY <2>1, <1>1 DEF RegisterOperator, Sound, StakingState, updateStatus
  <2>5. staking'.pendingSlashes = {o \in Operator : staking'.status[o] = "Slashed"}
    BY <2>1, <1>1 DEF RegisterOperator, Sound, StakingState, updateStatus
  <2> QED BY <2>3, <2>4, <2>5 DEF Sound
<1>2. CASE UnlockOperator(op)
  BY <1>2, CleanupSound DEF UnlockOperator
<1>3. CASE NominateOperator(op)
  BY <1>3, NoteSound DEF NominateOperator
<1>4. CASE WithdrawStake(op)
  <2> DEFINE t == noteRequest(staking, {op})
  <2>1. Sound(t)
    BY NoteSound
  <2>2. staking' = [t EXCEPT !.deactivated = IF staking.status[op] = "Deactivated"
                                             THEN @ \cup {op} ELSE @]
    BY <1>4 DEF WithdrawStake
  <2> HIDE DEF t
  <2>3. staking' \in StakingState
    BY <2>1, <2>2, ZenonT(30) DEF Sound, StakingState
  <2>4. /\ staking'.next = t.next /\ staking'.status = t.status
        /\ staking'.pendingSlashes = t.pendingSlashes
    BY <2>1, <2>2 DEF Sound, StakingState
  <2> QED BY <2>1, <2>3, <2>4 DEF Sound
<1>5. CASE DeregisterOperator(op)
  <2>1. staking \in StakingState /\ staking.status[op] \in {"Registered", "Deactivated"}
    BY <1>5 DEF Sound, DeregisterOperator, isRegisteredOrDeactivated
  <2>2. updateStatus(staking, {op}, "Deregistered") \in [Operator -> Status]
    BY <2>1 DEF StakingState, updateStatus, Status
  <2>3. staking' \in StakingState
    BY <2>1, <2>2, <1>0, <1>5, ZenonT(30) DEF DeregisterOperator, StakingState
  <2>4. \A o \in staking'.next : staking'.status[o] = "Registered"
    BY <2>1, <1>5 DEF DeregisterOperator, Sound, StakingState, updateStatus
  <2>5. staking'.pendingSlashes = {o \in Operator : staking'.status[o] = "Slashed"}
    BY <2>1, <1>5 DEF DeregisterOperator, Sound, StakingState, updateStatus
  <2> QED BY <2>3, <2>4, <2>5 DEF Sound
<1>6. CASE DeactivateOperator(op)
  <2>1. staking.epoch + OperatorActivationDelayInEpochs \in Nat
    BY OperatorAssumption DEF Sound, StakingState, Epoch
  <2>2. staking \in StakingState /\ staking.status[op] = "Registered"
    BY <1>6 DEF Sound, DeactivateOperator, isRegistered
  <2>3. updateStatus(staking, {op}, "Deactivated") \in [Operator -> Status]
    BY <2>2 DEF StakingState, updateStatus, Status
  <2>4. staking' \in StakingState
    BY <2>1, <2>2, <2>3, <1>6, ZenonT(30) DEF DeactivateOperator, StakingState
  <2>5. \A o \in staking'.next : staking'.status[o] = "Registered"
    BY <2>2, <1>6 DEF DeactivateOperator, Sound, StakingState, updateStatus
  <2>6. staking'.pendingSlashes = {o \in Operator : staking'.status[o] = "Slashed"}
    BY <2>2, <1>6 DEF DeactivateOperator, Sound, StakingState, updateStatus
  <2> QED BY <2>4, <2>5, <2>6 DEF Sound
<1>7. CASE ReactivateOperator(op)
  <2>1. staking \in StakingState /\ staking.status[op] = "Deactivated"
    BY <1>7 DEF Sound, ReactivateOperator
  <2>2. updateStatus(staking, {op}, "Registered") \in [Operator -> Status]
    BY <2>1 DEF StakingState, updateStatus, Status
  <2>3. staking' \in StakingState
    BY <2>1, <2>2, <1>7 DEF ReactivateOperator, StakingState
  <2>4. \A o \in staking'.next : staking'.status[o] = "Registered"
    BY <2>1, <1>7 DEF ReactivateOperator, Sound, StakingState, updateStatus
  <2>5. staking'.pendingSlashes = {o \in Operator : staking'.status[o] = "Slashed"}
    BY <2>1, <1>7 DEF ReactivateOperator, Sound, StakingState, updateStatus
  <2> QED BY <2>3, <2>4, <2>5 DEF Sound
<1> QED BY <1>1, <1>2, <1>3, <1>4, <1>5, <1>6, <1>7

(* Every step.                                                             *)
LEMMA NextSound ==
    ASSUME TypeOK, Sound(staking), [OperatorNext]_operatorVars
    PROVE  Sound(staking')
<1>1. ASSUME NEW op \in Operator, NEW r \in Receipt, OpSubmitBundle(op, r)
      PROVE  Sound(staking')
  <2> DEFINE s        == processReceiptStaking(r)
             newEpoch == ~successfulBundles /\ (domainBestNumber + 1) % StakeEpochDuration = 0
             t        == IF newEpoch THEN finalizeEpoch(s, pendingToSlash') ELSE s
  <2>1. Sound(s)
    BY ReceiptSound
  <2>2. (newEpoch => epochCanEnd(s, pendingToSlash')) /\ staking' \in slashOperator(t)
    BY <1>1 DEF OpSubmitBundle
  <2> HIDE DEF s, newEpoch
  <2>3. Sound(t)
    BY <2>1, <2>2, FinalizeSound
  <2> HIDE DEF t
  <2> QED BY <2>2, <2>3, SlashSound
<1>2. ASSUME NEW op \in Operator, NEW r \in Receipt, OpSubmitReceipt(op, r)
      PROVE  Sound(staking')
  <2>1. Sound(processReceiptStaking(r)) /\ staking' \in slashOperator(processReceiptStaking(r))
    BY <1>2, ReceiptSound DEF OpSubmitReceipt
  <2> QED BY <2>1, SlashSound
<1>3. ASSUME NEW r \in Receipt, OpSubmitFraudProof(r) \/ OpPruneDomainExecutionReceipt(r)
      PROVE  Sound(staking')
  BY <1>3, PruneSound DEF OpSubmitFraudProof, OpPruneDomainExecutionReceipt
<1>4. ASSUME NEW upgraded \in BOOLEAN, OpNextBlock(upgraded)
      PROVE  Sound(staking')
  BY <1>4 DEF OpNextBlock, Sound, StakingState
<1>5. CASE OpFreezeDomain \/ OpUnfreezeDomain \/ UNCHANGED operatorVars
  BY <1>5 DEF OpFreezeDomain, OpUnfreezeDomain, operatorVars
<1>6. CASE ForceStakingEpochTransition
  BY <1>6, FinalizeSound DEF ForceStakingEpochTransition
<1>7. ASSUME NEW op \in Operator,
             \/ RegisterOperator(op) \/ UnlockOperator(op)
             \/ NominateOperator(op) \/ WithdrawStake(op)
             \/ DeregisterOperator(op) \/ DeactivateOperator(op) \/ ReactivateOperator(op)
      PROVE  Sound(staking')
  BY <1>7, StakingCallSound DEF TypeOK
<1> QED BY <1>1, <1>2, <1>3, <1>4, <1>5, <1>6, <1>7, OperatorAssumption DEF OperatorNext

(* The authors of the bundles in the inbox are operators.                  *)
LEMMA AuthorsType ==
    ASSUME bundleAuthor \in [Height -> SUBSET Operator], [OperatorNext]_operatorVars
    PROVE  bundleAuthor' \in [Height -> SUBSET Operator]
BY DEF OperatorNext, operatorVars, OpSubmitBundle, OpSubmitReceipt,
       OpSubmitFraudProof, OpPruneDomainExecutionReceipt, pruneBadReceiptStaking,
       OpFreezeDomain, OpUnfreezeDomain, OpNextBlock, RegisterOperator, NominateOperator,
       WithdrawStake, DeregisterOperator, UnlockOperator, DeactivateOperator,
       ReactivateOperator, ForceStakingEpochTransition

-----------------------------------------------------------------------------
SoundState == Sound(staking) /\ bundleAuthor \in [Height -> SUBSET Operator]

(* The staking state stays sound, in every behaviour.                      *)
LEMMA AlwaysSound == OperatorSpec => []IInv /\ []SoundState
<1>1. OperatorInit => SoundState
  BY InitSound DEF OperatorInit, SoundState
<1>2. IInv /\ SoundState /\ [OperatorNext]_operatorVars => SoundState'
  BY NextSound, AuthorsType DEF IInv, SoundState
<1> QED BY <1>1, <1>2, BlockTreeOfOperators, Invariance, PTL DEF OperatorSpec

(* The types of the operator set and of the block tree under it.           *)
THEOREM OperatorTypeCorrect == OperatorSpec => []OperatorTypeOK
<1>1. IInv /\ SoundState => OperatorTypeOK
  BY DEF IInv, Sound, SoundState, OperatorTypeOK
<1> QED BY <1>1, AlwaysSound, PTL

(* No epoch transition fails because an operator of the next set is        *)
(* slashed, marked, deregistered, deactivated or removed: the check of     *)
(* do_finalize_operator_epoch_staking always succeeds.                     *)
THEOREM EpochTransitionsSucceed == OperatorSpec => []NextOperatorsRegistered
<1>1. SoundState => NextOperatorsRegistered
  BY DEF Sound, SoundState, NextOperatorsRegistered
<1> QED BY <1>1, AlwaysSound, PTL

(* No bundle fails because do_slash_operator meets an operator that does   *)
(* not exist, and no slashed operator is forgotten.                        *)
THEOREM SlashesSucceed == OperatorSpec => []PendingSlashesExist
<1>1. SoundState => PendingSlashesExist
  BY DEF Sound, SoundState, PendingSlashesExist
<1> QED BY <1>1, AlwaysSound, PTL
=============================================================================
