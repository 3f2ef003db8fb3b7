---------------------------- MODULE OperatorSet ----------------------------
(***************************************************************************)
(* The operators of one domain on top of its block tree: who may submit,   *)
(* who is in the operator set of this epoch and of the next one, and what  *)
(* the receipts do to them (pallet-domains, staking.rs, staking_epoch.rs   *)
(* and the calls of lib.rs).                                               *)
(*                                                                         *)
(* A receipt also says which bundles of its block were invalid.  Their     *)
(* authors are marked when the receipt becomes the head, taken out of the  *)
(* operator set, put back when the receipt is proved wrong, and slashed    *)
(* when it is confirmed.  An epoch ends with the first bundle of a block   *)
(* whose number is a multiple of StakeEpochDuration, inside submit_bundle. *)
(* Amounts are left to StakingPool: what counts here is that a staking     *)
(* request of an epoch needs a share price of that epoch later on.         *)
(*                                                                         *)
(* Every action is an action of BlockTree with what the same call does to  *)
(* the operators, or leaves the block tree alone.                          *)
(***************************************************************************)
EXTENDS BlockTree

CONSTANTS
    Accuses,                          \* the operators whose bundles an ER calls invalid
    InitialOperator,                  \* the operators registered when a behaviour starts
    Paying,                           \* ERs that report fees to share among the submitters
    Nominated,                        \* bound: operators that get deposits and withdrawals
    Supervised,                       \* bound: operators that deregister or are deactivated
    StakeEpochDuration,               \* T::StakeEpochDuration
    StakeWithdrawalLockingPeriod,     \* T::StakeWithdrawalLockingPeriod
    OperatorActivationDelayInEpochs,  \* T::OperatorActivationDelayInEpochs
    MaxEpoch                          \* bound on the epochs of a behaviour

Epoch == 0..MaxEpoch

(* An honest operator makes no invalid bundle: a receipt that says so is   *)
(* fraudulent.                                                             *)
ASSUME OperatorAssumption ==
    /\ Accuses \in [Receipt -> SUBSET Operator]
    /\ \A r \in Receipt \ Fraudulent : Accuses[r] \cap Honest = {}
    /\ InitialOperator \subseteq Operator
    /\ Paying \subseteq Receipt
    /\ Nominated \subseteq Operator /\ Supervised \subseteq Operator
    /\ StakeEpochDuration \in Nat \ {0}
    /\ StakeWithdrawalLockingPeriod \in Nat
    /\ OperatorActivationDelayInEpochs \in Nat
    /\ MaxEpoch \in Nat \ {0}

(* OperatorStatus as stored (partial_status), or absent from Operators.    *)
Status == {"Unknown", "Registered", "Deregistered", "Slashed", "InvalidBundle",
           "Deactivated", "Removed"}

VARIABLES
    staking,       \* the operators and the DomainStakingSummary, a record
    bundleAuthor   \* the authors of the bundles in the ExecutionInbox of each height

StakingState ==
    [status         : [Operator -> Status],
     markedBy       : [Operator -> Receipt \cup {NoReceipt}],  \* of InvalidBundle(er)
     reactivateAt   : [Operator -> Nat],      \* of Deactivated(epoch)
     unlockAt       : [Operator -> Nat],      \* of Deregistered(info)
     epoch          : Epoch,                  \* current_epoch_index
     current        : SUBSET Operator,        \* current_operators
     next           : SUBSET Operator,        \* next_operators
     lastEpoch      : SUBSET Operator,        \* LastEpochStakingDistribution
     rewarded       : SUBSET Operator,        \* current_epoch_rewards
     pendingSlashes : SUBSET Operator,        \* PendingSlashes
     invalidAuthors : SUBSET Operator,        \* InvalidBundleAuthors
     deregistered   : SUBSET Operator,        \* DeregisteredOperators
     deactivated    : SUBSET Operator,        \* DeactivatedOperators
     dirty          : SUBSET Operator,        \* deposits or withdrawals in_epoch not zero
     requests       : SUBSET (Operator \X Epoch),  \* epochs with a pending deposit or
                                                   \* withdrawal in shares
     sharePrice     : SUBSET (Operator \X Epoch)]  \* OperatorEpochSharePrice

operatorVars == <<vars, staking, bundleAuthor>>

OperatorTypeOK ==
    /\ TypeOK
    /\ staking \in StakingState
    /\ bundleAuthor \in [Height -> SUBSET Operator]

-----------------------------------------------------------------------------
(* is_operator_pending_to_slash, for all operators at once.                *)
pendingToSlash == {op \in Operator : isOperatorPendingToSlash(op)}

pendingToSlashAt(head, latest) == {op \in Operator : latest[op] # 0 /\ head < latest[op]}

exists(s, op) == s.status[op] \notin {"Unknown", "Removed"}

(* status() is Registered.                                                 *)
isRegistered(op) == staking.status[op] = "Registered" /\ op \notin pendingToSlash

isRegisteredOrDeactivated(op) ==
    staking.status[op] \in {"Registered", "Deactivated"} /\ op \notin pendingToSlash

(* can_operator_submit_bundle and fetch_operator_stake_info; BlockTree     *)
(* already excludes the slashed and the pending ones.                      *)
mayProduceBundle(op) ==
    /\ staking.status[op] \in {"Registered", "Deregistered"}
    /\ op \in staking.current \cup staking.lastEpoch

(* invalid_bundle_authors_for_receipt                                      *)
invalidBundleAuthorsFor(r) == Accuses[r] \cap bundleAuthor[BlockNumber[r]]

-----------------------------------------------------------------------------
(* Steps that the calls are made of.                                       *)

updateStatus(s, ops, st) ==
    [op \in Operator |-> IF op \in ops THEN st ELSE s.status[op]]

(* Mutant of markAsSlashed: the operator is only pending to be slashed.    *)
slashedAsPending(s, ops) ==
    LET new == {op \in ops : exists(s, op) /\ op \notin s.pendingSlashes}
    IN  [s EXCEPT !.status = updateStatus(s, new, "PendingSlash"),
                  !.current = @ \ new, !.next = @ \ new, !.pendingSlashes = @ \cup new]

(* do_mark_operators_as_slashed                                            *)
markAsSlashed(s, ops) ==
    LET new == {op \in ops : exists(s, op) /\ op \notin s.pendingSlashes}
    IN  [s EXCEPT !.status = updateStatus(s, new, "Slashed"),
                  !.current = @ \ new,
                  !.next = @ \ new,
                  !.pendingSlashes = @ \cup new]

(* Mutants of the next definition, for its properties.                     *)
markKeepsCurrent(s, r, pending) ==
    LET new == {op \in invalidBundleAuthorsFor(r) \ (s.pendingSlashes \cup pending) :
                    s.status[op] = "Registered"}
    IN  [s EXCEPT !.status = updateStatus(s, new, "InvalidBundle"),
                  !.markedBy = [op \in Operator |-> IF op \in new THEN r ELSE @[op]],
                  !.invalidAuthors = @ \cup new, !.next = @ \ new]

markSlashesAtOnce(s, r, pending) == markAsSlashed(s, invalidBundleAuthorsFor(r))

(* do_mark_invalid_bundle_authors                                          *)
markInvalidBundleAuthors(s, r, pending) ==
    LET new == {op \in invalidBundleAuthorsFor(r) \ (s.pendingSlashes \cup pending) :
                    s.status[op] = "Registered"}
    IN  [s EXCEPT !.status = updateStatus(s, new, "InvalidBundle"),
                  !.markedBy = [op \in Operator |-> IF op \in new THEN r ELSE @[op]],
                  !.invalidAuthors = @ \cup new,
                  !.current = @ \ new,
                  !.next = @ \ new]

(* Mutants of the next definition, for its properties.                     *)
unmarkNotInNext(s, r, pending) ==
    LET back == {op \in invalidBundleAuthorsFor(r) \ (s.pendingSlashes \cup pending) :
                    s.status[op] = "InvalidBundle" /\ s.markedBy[op] = r}
    IN  [s EXCEPT !.status = updateStatus(s, back, "Registered"), !.invalidAuthors = @ \ back]

unmarkNone(s, r, pending) == s

(* do_unmark_invalid_bundle_authors                                        *)
unmarkInvalidBundleAuthors(s, r, pending) ==
    LET back == {op \in invalidBundleAuthorsFor(r) \ (s.pendingSlashes \cup pending) :
                    s.status[op] = "InvalidBundle" /\ s.markedBy[op] = r}
    IN  [s EXCEPT !.status = updateStatus(s, back, "Registered"),
                  !.invalidAuthors = @ \ back,
                  !.next = @ \cup back]

(* Mutant of the next definition, for its property.                        *)
cleanupKeepsPending(s, op) ==
    [s EXCEPT !.status = updateStatus(s, {op}, "Removed"), !.dirty = @ \ {op},
              !.requests = {q \in @ : q[1] # op}, !.sharePrice = {q \in @ : q[1] # op}]

(* do_cleanup_operator, with the removal of the operator itself.           *)
cleanupOperator(s, op) ==
    [s EXCEPT !.status = updateStatus(s, {op}, "Removed"),
              !.pendingSlashes = @ \ {op},
              !.dirty = @ \ {op},
              !.requests = {q \in @ : q[1] # op},
              !.sharePrice = {q \in @ : q[1] # op}]

(* do_slash_operator takes the first pending operator, and either all of   *)
(* its nominators fit in the batch or it waits for another call.           *)
slashOperator(s) == {s} \cup {cleanupOperator(s, op) : op \in s.pendingSlashes}

(* note_pending_staking_operation aside, what a deposit or a withdrawal of *)
(* shares leaves behind.                                                   *)
noteRequest(s, ops) ==
    [s EXCEPT !.dirty = @ \cup ops,
              !.requests = @ \cup (ops \X {s.epoch})]

(* do_finalize_domain_current_epoch.  The rewarded operators stake their   *)
(* tax; each operator of the next set, and each one that may have requests *)
(* although it is not in that set, gets its share price.                   *)
epochCanEnd(s, pending) ==
    /\ s.epoch < MaxEpoch
    /\ \A op \in s.next \ pending : s.status[op] = "Registered"

(* Mutant of the next definition: only the next operators and those that   *)
(* deregistered get a share price.                                         *)
finalizeNotDeactivated(s, pending) ==
    LET alive     == {op \in Operator : exists(s, op) /\ s.status[op] # "Slashed"} \ pending
        staked    == noteRequest(s, s.rewarded \cap alive)
        finalized == (s.next \ pending) \cup ((s.deregistered \ s.next) \cap alive)
    IN  [staked EXCEPT !.sharePrice = @ \cup ((finalized \cap staked.dirty) \X {s.epoch}),
                       !.dirty = @ \ finalized, !.lastEpoch = s.current,
                       !.current = s.next \ pending, !.next = @ \ pending, !.epoch = @ + 1,
                       !.rewarded = {}, !.invalidAuthors = {}, !.deregistered = {},
                       !.deactivated = {}]

finalizeEpoch(s, pending) ==
    LET alive     == {op \in Operator : exists(s, op) /\ s.status[op] # "Slashed"} \ pending
        taxed     == s.rewarded \cap alive
        staked    == noteRequest(s, taxed)
        leftOut   == (taxed \cup s.invalidAuthors \cup s.deregistered \cup s.deactivated)
                     \ s.next
        finalized == (s.next \ pending) \cup (leftOut \cap alive)
    IN  [staked EXCEPT !.sharePrice = @ \cup ((finalized \cap staked.dirty) \X {s.epoch}),
                       !.dirty = @ \ finalized,
                       !.lastEpoch = s.current,
                       !.current = s.next \ pending,
                       !.next = @ \ pending,
                       !.epoch = @ + 1,
                       !.rewarded = {},
                       !.invalidAuthors = {},
                       !.deregistered = {},
                       !.deactivated = {}]

(* What submit_bundle and submit_receipt do to the operators for a receipt *)
(* r: slash and unmark for the bad ER it replaces, mark the authors it     *)
(* accuses, and reward and slash for the ER it confirms.                   *)
processReceiptStaking(r) ==
    LET n         == BlockNumber[r]
        bad       == blockTree[n]
        pending   == pendingToSlashAt(headReceiptNumber,
                                      forgetLatest(latestSubmittedER, nodeOperators(bad), n))
        replaced  == IF bad = NoReceipt THEN staking
                     ELSE unmarkInvalidBundleAuthors(
                              markAsSlashed(staking, operatorIds[bad]), bad, pending)
        marked    == markInvalidBundleAuthors(replaced, r, pending)
        confirmed == expiredReceipt(n)
        rewarded  == [marked EXCEPT !.rewarded =
                         @ \cup (IF confirmed \in Paying THEN operatorIds[confirmed] ELSE {})]
    IN  IF ~isNewHead(r) THEN staking
        ELSE IF confirmed = NoReceipt THEN marked
        ELSE markAsSlashed(rewarded, invalidBundleAuthorsFor(confirmed))
-----------------------------------------------------------------------------
(* The first operators are registered in epoch 0, which then ends, as the  *)
(* genesis build does it for the operator of a genesis domain and root for *)
(* a domain instantiated later.                                            *)
OperatorInit ==
    /\ Init
    /\ bundleAuthor = [n \in Height |-> {}]
    /\ staking =
          [status         |-> [op \in Operator |->
                                 IF op \in InitialOperator THEN "Registered" ELSE "Unknown"],
           markedBy       |-> [op \in Operator |-> NoReceipt],
           reactivateAt   |-> [op \in Operator |-> 0],
           unlockAt       |-> [op \in Operator |-> 0],
           epoch          |-> 1,
           current        |-> InitialOperator,
           next           |-> InitialOperator,
           lastEpoch      |-> {},
           rewarded       |-> {},
           pendingSlashes |-> {},
           invalidAuthors |-> {},
           deregistered   |-> {},
           deactivated    |-> {},
           dirty          |-> {},
           requests       |-> InitialOperator \X {0},
           sharePrice     |-> InitialOperator \X {0}]

(* The submitting calls of BlockTree with their effect on the operators.   *)
OpSubmitBundle(op, r) ==
    LET s        == processReceiptStaking(r)
        newEpoch == ~successfulBundles /\ (domainBestNumber + 1) % StakeEpochDuration = 0
    IN  /\ mayProduceBundle(op)
        /\ SubmitBundle(op, r)
        /\ newEpoch => epochCanEnd(s, pendingToSlash')
        /\ staking' \in slashOperator(IF newEpoch THEN finalizeEpoch(s, pendingToSlash') ELSE s)
        /\ bundleAuthor' = [n \in Height |->
              IF n \in confirmedBy(r) THEN {}
              ELSE IF n = headDomainNumber' THEN bundleAuthor[n] \cup {op}
              ELSE bundleAuthor[n]]

OpSubmitReceipt(op, r) ==
    /\ mayProduceBundle(op)
    /\ SubmitReceipt(op, r)
    /\ staking' \in slashOperator(processReceiptStaking(r))
    /\ bundleAuthor' = [n \in Height |-> IF n \in confirmedBy(r) THEN {} ELSE bundleAuthor[n]]

(* submit_fraud_proof and prune_domain_execution_receipt unmark before     *)
(* they move the head, so the submitters of the descendants are not yet    *)
(* pending to slash.                                                       *)
pruneBadReceiptStaking(r) ==
    /\ staking' = unmarkInvalidBundleAuthors(
                      markAsSlashed(staking, operatorIds[r]), r,
                      pendingToSlashAt(headReceiptNumber, latestSubmittedER'))
    /\ UNCHANGED bundleAuthor

OpSubmitFraudProof(r) == SubmitFraudProof(r) /\ pruneBadReceiptStaking(r)

OpPruneDomainExecutionReceipt(r) ==
    PruneDomainExecutionReceipt(r) /\ pruneBadReceiptStaking(r)

OpFreezeDomain == FreezeDomain /\ UNCHANGED <<staking, bundleAuthor>>

OpUnfreezeDomain == UnfreezeDomain /\ UNCHANGED <<staking, bundleAuthor>>

(* on_finalize also clears LastEpochStakingDistribution.                   *)
OpNextBlock(upgraded) ==
    /\ NextBlock(upgraded)
    /\ staking' = [staking EXCEPT !.lastEpoch = {}]
    /\ UNCHANGED bundleAuthor

(* do_register_operator: the owner's deposit has its share price at once.  *)
RegisterOperator(op) ==
    /\ staking.status[op] = "Unknown"
    /\ staking' = [staking EXCEPT !.status = updateStatus(staking, {op}, "Registered"),
                                  !.next = @ \cup {op},
                                  !.requests = @ \cup {<<op, staking.epoch>>},
                                  !.sharePrice = @ \cup {<<op, staking.epoch>>}]
    /\ UNCHANGED <<vars, bundleAuthor>>

(* do_nominate_operator                                                    *)
NominateOperator(op) ==
    /\ isRegistered(op)
    /\ staking' = noteRequest(staking, {op})
    /\ UNCHANGED <<vars, bundleAuthor>>

(* do_withdraw_stake                                                       *)
WithdrawStake(op) ==
    /\ isRegisteredOrDeactivated(op)
    /\ staking' = [noteRequest(staking, {op}) EXCEPT
                      !.deactivated = IF staking.status[op] = "Deactivated"
                                      THEN @ \cup {op} ELSE @]
    /\ UNCHANGED <<vars, bundleAuthor>>

(* Mutant of the next definition, for its property.                        *)
deregisterKeepsNext(op) ==
    /\ isRegisteredOrDeactivated(op)
    /\ staking' = [staking EXCEPT
                      !.status = updateStatus(staking, {op}, "Deregistered"),
                      !.unlockAt[op] = headDomainNumber + StakeWithdrawalLockingPeriod,
                      !.deactivated = @ \ {op}, !.deregistered = @ \cup {op}]
    /\ UNCHANGED <<vars, bundleAuthor>>

(* do_deregister_operator                                                  *)
DeregisterOperator(op) ==
    /\ isRegisteredOrDeactivated(op)
    /\ staking' = [staking EXCEPT
                      !.status = updateStatus(staking, {op}, "Deregistered"),
                      !.unlockAt[op] = headDomainNumber + StakeWithdrawalLockingPeriod,
                      !.deactivated = @ \ {op},
                      !.next = @ \ {op},
                      !.deregistered = @ \cup {op}]
    /\ UNCHANGED <<vars, bundleAuthor>>

(* do_unlock_nominator of the last nominator.                              *)
UnlockOperator(op) ==
    /\ staking.status[op] = "Deregistered" /\ op \notin pendingToSlash
    /\ staking.unlockAt[op] <= headDomainNumber
    /\ staking' = cleanupOperator(staking, op)
    /\ UNCHANGED <<vars, bundleAuthor>>

(* do_deactivate_operator and do_reactivate_operator, called by root.      *)
DeactivateOperator(op) ==
    /\ isRegistered(op)
    /\ staking' = [staking EXCEPT
                      !.status = updateStatus(staking, {op}, "Deactivated"),
                      !.reactivateAt[op] = staking.epoch + OperatorActivationDelayInEpochs,
                      !.current = @ \ {op},
                      !.next = @ \ {op},
                      !.deactivated = @ \cup {op}]
    /\ UNCHANGED <<vars, bundleAuthor>>

ReactivateOperator(op) ==
    /\ staking.status[op] = "Deactivated" /\ op \notin pendingToSlash
    /\ staking.epoch >= staking.reactivateAt[op]
    /\ staking' = [staking EXCEPT
                      !.status = updateStatus(staking, {op}, "Registered"),
                      !.next = @ \cup {op},
                      !.deactivated = @ \ {op}]
    /\ UNCHANGED <<vars, bundleAuthor>>

(* force_staking_epoch_transition, called by root.                         *)
ForceStakingEpochTransition ==
    /\ epochCanEnd(staking, pendingToSlash)
    /\ staking' = finalizeEpoch(staking, pendingToSlash)
    /\ UNCHANGED <<vars, bundleAuthor>>

OperatorNext ==
    \/ \E op \in Operator, r \in Receipt :
          OpSubmitBundle(op, r) \/ OpSubmitReceipt(op, r)
    \/ \E r \in Receipt : OpSubmitFraudProof(r) \/ OpPruneDomainExecutionReceipt(r)
    \/ OpFreezeDomain
    \/ OpUnfreezeDomain
    \/ \E upgraded \in BOOLEAN : OpNextBlock(upgraded)
    \/ \E op \in Operator : RegisterOperator(op) \/ UnlockOperator(op)
    \/ \E op \in Nominated : NominateOperator(op) \/ WithdrawStake(op)
    \/ \E op \in Supervised :
          DeregisterOperator(op) \/ DeactivateOperator(op) \/ ReactivateOperator(op)
    \/ ForceStakingEpochTransition

OperatorSpec == OperatorInit /\ [][OperatorNext]_operatorVars

-----------------------------------------------------------------------------
(* An epoch transition never fails with OperatorNotRegistered or           *)
(* UnknownOperator, which would fail every bundle that starts an epoch:    *)
(* whatever marks, unmarks, slashes, deregisters or deactivates an         *)
(* operator keeps next_operators to the registered ones.                   *)
NextOperatorsRegistered ==
    \A op \in staking.next : staking.status[op] = "Registered"

(* do_slash_operator never fails with UnknownOperator, which would fail    *)
(* every bundle: the pending slashes are the slashed operators that still  *)
(* exist.                                                                  *)
PendingSlashesExist ==
    staking.pendingSlashes = {op \in Operator : staking.status[op] = "Slashed"}

(* Slashed, marked, deactivated and removed operators are in no operator   *)
(* set, so no election and no total stake counts them.                     *)
OperatorSetsActive ==
    \A op \in staking.current : staking.status[op] \in {"Registered", "Deregistered"}

(* A registered operator produces bundles from the next epoch on, unless   *)
(* it is about to be slashed: no mark that was taken back, and no epoch    *)
(* that ended in between, leaves it out of next_operators for good.        *)
RegisteredWillProduce ==
    \A op \in Operator : staking.status[op] = "Registered" =>
        op \in staking.next \cup pendingToSlash

(* An operator is marked as an invalid bundle author only while the ER     *)
(* that marks it is in the block tree, so that it is taken back or slashed *)
(* with that ER, or while it is itself about to be slashed.                *)
MarksAreLive ==
    \A op \in Operator : staking.status[op] = "InvalidBundle" =>
        \/ staking.markedBy[op] \in blockTreeNodes /\ op \in invalidBundleAuthorsFor(staking.markedBy[op])
        \/ op \in pendingToSlash

(* As long as no invalid receipt is confirmed, an honest operator is       *)
(* neither slashed for its receipts nor for the bundles that bad receipts  *)
(* called invalid.                                                         *)
HonestKeepStake ==
    latestConfirmed \notin Invalid =>
        \A op \in Honest : staking.status[op] # "Slashed"

(* A deposit or withdrawal of an earlier epoch always finds the share      *)
(* price of that epoch (MissingOperatorEpochSharePrice is never returned), *)
(* for every operator that is not slashed or about to be: also for one     *)
(* that left the next operator set before the epoch ended.                 *)
SharePricesComplete ==
    \A q \in staking.requests :
        \/ q[2] >= staking.epoch
        \/ q \in staking.sharePrice
        \/ staking.status[q[1]] = "Slashed"
        \/ q[1] \in pendingToSlash
=============================================================================
