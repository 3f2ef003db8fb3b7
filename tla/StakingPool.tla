---------------------------- MODULE StakingPool ----------------------------
(***************************************************************************)
(* The staking pool of one operator: deposits and withdrawals of its       *)
(* nominators, the shares and share prices they are converted with, the    *)
(* bundle storage fund, and the exit of the nominators, one at a time, by  *)
(* unlocking or by slashing.                                               *)
(*                                                                         *)
(* A deposit is pending until a share price of its epoch is stored; it is  *)
(* converted to shares when the nominator next does something.  A          *)
(* withdrawal waits in shares likewise and becomes a balance at the price  *)
(* of its epoch.  The pool only knows the totals, which the end of an epoch*)
(* brings up to date.                                                      *)
(*                                                                         *)
(* Epochs and domain blocks are counted from the registration.  Which      *)
(* operators an epoch transition finalizes is the subject of OperatorSet   *)
(* (SharePricesComplete): here the operator is finalized if it is not      *)
(* slashed.  Deactivation and marks, which only bar calls, are left out.   *)
(***************************************************************************)
EXTENDS Integers, Sequences, FiniteSetsExt, SequencesExt

CONSTANTS
    Nominator, Owner,             \* accounts that may deposit, and the owner of the operator
    OwnerStake,                   \* deposit of the owner at registration
    Amount,                       \* deposits of nominators
    Request,                      \* numbers of shares that nominators withdraw
    Reward,                       \* rewards for a confirmed block
    Fee,                          \* storage fees charged or refunded
    NominationTax,                \* percentage of the rewards for the owner
    MinOperatorStake,
    MinimumNominatorStake,
    Accuracy,                     \* parts of a Perquintill
    StakeEpochDuration,
    StakeWithdrawalLockingPeriod,
    WithdrawalLimit,
    MaxNominatorsToSlash,         \* per bundle
    FirstOperator,                \* registered in epoch 0, which ends with the registration
    MaxHead, MaxRequests, MaxRewards, MaxFees  \* bounds

ASSUME StakingPoolAssumption ==
    /\ Owner \in Nominator
    /\ Amount \cup Request \cup Reward \cup Fee \subseteq Nat \ {0}
    /\ NominationTax \in 0..100 /\ FirstOperator \in BOOLEAN
    /\ MinimumNominatorStake \in 1..MinOperatorStake /\ OwnerStake >= MinOperatorStake
    /\ Accuracy \in Nat \ {0} /\ WithdrawalLimit \in Nat /\ MaxNominatorsToSlash \in Nat \ {0}
    /\ StakeEpochDuration \in 1..StakeWithdrawalLockingPeriod
    /\ {MaxHead, MaxRequests, MaxRewards, MaxFees} \subseteq Nat

VARIABLES pool,  \* the operator, its nominators and its storage fund
          used   \* deposits and withdrawals, rewards, and storage fees so far

vars == <<pool, used>>

Failed == [failed |-> TRUE]

-----------------------------------------------------------------------------
(* Perquintill rounds down; a fraction is capped at one.                   *)
FromRational(p, q) == IF q = 0 \/ p > q THEN Accuracy ELSE (p * Accuracy) \div q
MulFloor(f, x) == (f * x) \div Accuracy

(* A share price is shares over stake, or NoPrice.                         *)
NoPrice == -1

SharePrice(shares, stake) ==
    IF shares > stake \/ shares = 0 THEN NoPrice ELSE FromRational(shares, stake)

stake_to_shares(price, stake) == MulFloor(price, stake)

(* Mutant of shares_to_stake: without plus_epsilon. *)
sharesAtPrice(price, shares) == IF price = 0 THEN 0 ELSE (shares * Accuracy) \div price

shares_to_stake(price, shares) ==
    (shares * Accuracy) \div (IF price < Accuracy THEN price + 1 ELSE Accuracy)

(* STORAGE_FEE_RESERVE of a deposit goes to the storage fund.              *)
StorageFeeReserve(amount) == amount \div 5

(* What a storage fee deposit is worth.                                    *)
redeem(p, fee) == IF p.fund = p.feeDeposit THEN fee
                  ELSE MulFloor(FromRational(fee, p.feeDeposit), p.fund)

-----------------------------------------------------------------------------
NoPending == [amount |-> 0, fee |-> 0, epoch |-> 0]
NoDeposit == [shares |-> 0, fee |-> 0, pending |-> NoPending]
NoShares  == [shares |-> 0, fee |-> 0, unlockAt |-> 0, epoch |-> 0]
NoWithdrawal == [ready |-> <<>>, inShares |-> NoShares]

(* Right after do_register_operator: the deposit of the owner is pending,  *)
(* but already in the totals and priced.                                   *)
Init ==
    LET fee == StorageFeeReserve(OwnerStake)
        own == OwnerStake - fee
    IN  /\ pool = [status |-> "Registered", unlockAt |-> 0, head |-> 0,
                   epoch |-> IF FirstOperator THEN 1 ELSE 0,
                   stake |-> own, shares |-> own,
                   depositsInEpoch |-> 0, withdrawalsInEpoch |-> 0, rewards |-> 0,
                   feeDeposit |-> fee, fund |-> fee,
                   price |-> [e \in {0} |-> Accuracy],
                   deposits |-> [n \in {Owner} |-> [NoDeposit EXCEPT !.pending =
                                    [amount |-> own, fee |-> fee, epoch |-> 0]]],
                   withdrawals |-> [n \in Nominator |-> NoWithdrawal],
                   hold |-> [n \in Nominator |-> IF n = Owner THEN own ELSE 0]]
        /\ used = [requests |-> 0, rewards |-> 0, fees |-> 0]

-----------------------------------------------------------------------------
(* do_convert_previous_epoch_deposits and _withdrawal.                     *)
ConvertDeposits(p, d) ==
    LET q == d.pending
    IN  CASE q.amount = 0 -> d
          [] q.amount # 0 /\ q.epoch \in DOMAIN p.price ->
                [shares |-> d.shares + stake_to_shares(p.price[q.epoch], q.amount),
                 fee |-> d.fee + q.fee, pending |-> NoPending]
          [] q.amount # 0 /\ q.epoch \notin DOMAIN p.price ->
                IF q.epoch >= p.epoch THEN d ELSE Failed

ConvertWithdrawal(p, w) ==
    LET s == w.inShares
    IN  CASE s.shares = 0 \/ s.epoch >= p.epoch -> w
          [] s.shares # 0 /\ s.epoch < p.epoch ->
                IF s.epoch \notin DOMAIN p.price THEN Failed
                ELSE [ready |-> Append(w.ready,
                          [amount |-> shares_to_stake(p.price[s.epoch], s.shares),
                           fee |-> s.fee, unlockAt |-> s.unlockAt]),
                      inShares |-> NoShares]

(* The same in do_slash_operator, which goes on without a share price.     *)
ElseKept(converted, x) == IF converted = Failed THEN x ELSE converted

(* deposit_reserve_for_storage_fund, hold_deposit and                      *)
(* do_calculate_previous_epoch_deposit_shares_and_add_new_deposit.         *)

(* Mutant of AddDeposit: a second deposit of the epoch replaces the fee of the first. *)
addKeepsLastFee(p, n, amount) ==
    LET fee == StorageFeeReserve(amount)
        new == amount - fee
        d   == ConvertDeposits(p, IF n \in DOMAIN p.deposits THEN p.deposits[n] ELSE NoDeposit)
    IN  IF d = Failed THEN Failed
        ELSE [p EXCEPT
                !.deposits = [m \in DOMAIN @ \cup {n} |-> IF m # n THEN @[m] ELSE
                    [d EXCEPT !.pending = [amount |-> @.amount + new, fee |-> fee,
                                           epoch |-> p.epoch]]],
                !.hold[n] = @ + new, !.depositsInEpoch = @ + new,
                !.feeDeposit = @ + fee, !.fund = @ + fee]

AddDeposit(p, n, amount) ==
    LET fee == StorageFeeReserve(amount)
        new == amount - fee
        d   == ConvertDeposits(p, IF n \in DOMAIN p.deposits THEN p.deposits[n] ELSE NoDeposit)
    IN  IF d = Failed THEN Failed
        ELSE [p EXCEPT
                !.deposits = [m \in DOMAIN @ \cup {n} |-> IF m # n THEN @[m] ELSE
                    [d EXCEPT !.pending = [amount |-> @.amount + new, fee |-> @.fee + fee,
                                           epoch |-> p.epoch]]],
                !.hold[n] = @ + new, !.depositsInEpoch = @ + new,
                !.feeDeposit = @ + fee, !.fund = @ + fee]

NominateOperator(n, amount) ==
    /\ pool.status = "Registered"
    /\ used.requests < MaxRequests
    /\ LET p == AddDeposit(pool, n, amount)
       IN  /\ p # Failed
           /\ LET d == p.deposits[n]
              IN  d.shares = 0 => d.pending.amount + d.pending.fee >= MinimumNominatorStake
           /\ pool' = p
    /\ used' = [used EXCEPT !.requests = @ + 1]

-----------------------------------------------------------------------------
Tax(rewards) == (NominationTax * rewards) \div 100

(* current_share_price: with the rewards of this epoch.                    *)
CurrentSharePrice(p) == SharePrice(p.shares, p.stake + p.rewards - Tax(p.rewards))

(* What WithdrawStake leaves of the deposit d: all or nothing below the    *)
(* minimum for a nominator, never less than the minimum for the owner.     *)
RemainingStake(p, d, shares) ==
    shares_to_stake(CurrentSharePrice(p), shares)
        + MulFloor(FromRational(shares, d.shares), d.fee)

WithdrawStake(n, toWithdraw) ==
    LET d == ConvertDeposits(pool, pool.deposits[n])
        w == ConvertWithdrawal(pool, pool.withdrawals[n])
        remaining == d.shares - toWithdraw
        left == IF remaining # 0 /\ n # Owner
                     /\ RemainingStake(pool, d, remaining) < MinimumNominatorStake
                THEN 0 ELSE remaining
        shares == d.shares - left
        fee == MulFloor(FromRational(shares, d.shares), d.fee)
        refund == redeem(pool, fee)
    IN  /\ pool.status = "Registered"
        /\ used.requests < MaxRequests
        /\ n \in DOMAIN pool.deposits
        /\ d # Failed /\ w # Failed
        /\ Len(w.ready) < WithdrawalLimit
        /\ remaining >= 0
        /\ remaining # 0 => CurrentSharePrice(pool) # NoPrice
        /\ n = Owner => /\ remaining # 0
                        /\ RemainingStake(pool, d, remaining) >= MinOperatorStake
        /\ refund <= pool.fund
        /\ left = 0 /\ d.pending # NoPending =>
               d.pending.amount + d.pending.fee >= MinimumNominatorStake
        /\ pool' = [pool EXCEPT
               !.deposits[n] = [d EXCEPT !.shares = left, !.fee = @ - fee],
               !.feeDeposit = @ - fee, !.fund = @ - refund,
               !.withdrawalsInEpoch = @ + shares,
               !.withdrawals[n] = [w EXCEPT !.inShares =
                   [shares |-> @.shares + shares, fee |-> @.fee + refund, epoch |-> pool.epoch,
                    unlockAt |-> pool.head + StakeWithdrawalLockingPeriod]]]
        /\ used' = [used EXCEPT !.requests = @ + 1]

(* Withdrawals of ready that have waited long enough, from the front.      *)
UnlockedCount(ready, head) ==
    Cardinality({i \in DOMAIN ready : \A j \in 1..i : ready[j].unlockAt <= head})

(* Mutant of UnlockFunds: releases what the withdrawal is worth, not only what is on hold. *)
unlockAll(n) ==
    LET w == ConvertWithdrawal(pool, pool.withdrawals[n])
        k == UnlockedCount(w.ready, pool.head)
        amount == MapThenSumSet(LAMBDA i : w.ready[i].amount, 1..k)
    IN  /\ pool.status = "Registered"
        /\ w # Failed
        /\ amount # 0
        /\ pool' = [pool EXCEPT !.withdrawals[n] = [w EXCEPT !.ready = SubSeq(@, k + 1, Len(@))],
                                !.hold[n] = @ - amount]
        /\ UNCHANGED used

UnlockFunds(n) ==
    LET w == ConvertWithdrawal(pool, pool.withdrawals[n])
        k == UnlockedCount(w.ready, pool.head)
        amount == MapThenSumSet(LAMBDA i : w.ready[i].amount, 1..k)
        fees   == MapThenSumSet(LAMBDA i : w.ready[i].fee, 1..k)
        rest   == [w EXCEPT !.ready = SubSeq(@, k + 1, Len(@))]
        empty  == rest = NoWithdrawal /\ n \in DOMAIN pool.deposits
                    /\ pool.deposits[n].shares = 0 /\ pool.deposits[n].pending = NoPending
    IN  /\ pool.status = "Registered"
        /\ w # Failed
        /\ amount # 0 \/ fees # 0
        /\ pool' = [pool EXCEPT
               !.withdrawals[n] = rest,
               !.hold[n] = @ - Min({amount, @}),
               !.deposits = IF empty THEN [m \in DOMAIN @ \ {n} |-> @[m]] ELSE @]
        /\ UNCHANGED used

DeregisterOperator ==
    /\ pool.status = "Registered"
    /\ pool' = [pool EXCEPT !.status = "Deregistered",
                            !.unlockAt = pool.head + StakeWithdrawalLockingPeriod]
    /\ UNCHANGED used

-----------------------------------------------------------------------------
(* The nominator n leaves with its shares, those on withdrawal that have   *)
(* no price yet included.  price is the share price of the batch.          *)
Leave(p, n, d, w, price) ==
    LET shares == d.shares + w.inShares.shares
        staked == shares_to_stake(price, shares)
    IN  IF shares > p.shares \/ staked > p.stake THEN Failed
        ELSE [p EXCEPT !.shares = @ - shares, !.stake = @ - staked, !.hold[n] = 0,
                       !.deposits = [m \in DOMAIN @ \ {n} |-> @[m]],
                       !.withdrawals[n] = NoWithdrawal]

(* A storage fee deposit is paid out of the fund.                          *)
PayFee(p, fee) ==
    IF p = Failed \/ redeem(p, fee) > p.fund THEN Failed
    ELSE [p EXCEPT !.fund = @ - redeem(p, fee), !.feeDeposit = Max({@ - fee, 0})]

(* do_cleanup_operator, once no nominator is left.                         *)
Cleanup(p) ==
    IF p = Failed \/ DOMAIN p.deposits # {} \/ \E n \in Nominator : p.withdrawals[n] # NoWithdrawal
    THEN p
    ELSE [p EXCEPT !.status = "Removed", !.stake = 0, !.shares = 0, !.fund = 0, !.feeDeposit = 0,
                   !.depositsInEpoch = 0, !.withdrawalsInEpoch = 0, !.price = [e \in {} |-> 0]]

UnlockNominator(n) ==
    LET d == ConvertDeposits(pool, pool.deposits[n])
        w == ConvertWithdrawal(pool, pool.withdrawals[n])
        price == SharePrice(pool.shares, pool.stake)
        p == Cleanup(PayFee(Leave(pool, n, d, w, price), d.fee + d.pending.fee))
    IN  /\ pool.status = "Deregistered" /\ pool.unlockAt <= pool.head
        /\ price # NoPrice
        /\ n \in DOMAIN pool.deposits
        /\ d # Failed /\ w # Failed
        /\ p # Failed
        /\ pool' = p
        /\ UNCHANGED used

(* One nominator in do_slash_operator: its hold is taken, except for what  *)
(* is not staked yet.                                                      *)
SlashNominator(p, n, price) ==
    IF p = Failed THEN Failed
    ELSE LET d == ElseKept(ConvertDeposits(p, p.deposits[n]), p.deposits[n])
             w == ElseKept(ConvertWithdrawal(p, p.withdrawals[n]), p.withdrawals[n])
         IN  IF p.hold[n] < d.pending.amount THEN Failed
             ELSE PayFee(Leave(p, n, d, w, price), d.pending.fee)

(* The batches that one call may slash: MaxNominatorsToSlash of them, in   *)
(* the order of their hashes.                                              *)
Batches(p) ==
    UNION {SetToSeqs(b) : b \in {b \in SUBSET DOMAIN p.deposits :
               Cardinality(b) = Min({MaxNominatorsToSlash, Cardinality(DOMAIN p.deposits)})}}

SlashOperator(p, batch) ==
    LET price == SharePrice(p.shares, p.stake)
    IN  IF p = Failed \/ p.status # "Slashed" THEN p
        ELSE IF price = NoPrice THEN Failed
        ELSE Cleanup(FoldLeft(LAMBDA acc, n : SlashNominator(acc, n, price), p, batch))

-----------------------------------------------------------------------------
(* operator_take_reward_tax_and_stake: the owner deposits the tax.         *)
TakeRewardTax(p) ==
    LET tax   == Tax(p.rewards)
        taxed == IF tax = 0 THEN p ELSE AddDeposit(p, Owner, tax)
    IN  IF p.status \in {"Slashed", "Removed"} THEN [p EXCEPT !.rewards = 0]
        ELSE IF taxed = Failed THEN Failed
        ELSE [taxed EXCEPT !.stake = @ + p.rewards - tax, !.rewards = 0]

(* do_finalize_operator_epoch_staking, at the share price of the epoch.    *)
FinalizeAt(p, price) ==
    LET out == shares_to_stake(price, p.withdrawalsInEpoch)
        in  == stake_to_shares(price, p.depositsInEpoch)
    IN  IF price = NoPrice \/ out > p.stake \/ p.withdrawalsInEpoch > p.shares THEN Failed
        ELSE [p EXCEPT !.stake = @ - out + p.depositsInEpoch,
                       !.shares = @ - p.withdrawalsInEpoch + in,
                       !.depositsInEpoch = 0, !.withdrawalsInEpoch = 0,
                       !.price = [e \in DOMAIN @ \cup {p.epoch} |->
                                     IF e = p.epoch THEN price ELSE @[e]]]

NotFinalized(p) == p = Failed \/ p.status \in {"Slashed", "Removed"}

(* Mutants of FinalizeOperator: withdrawals_in_epoch is not reset; an epoch *)
(* with only deposits or only withdrawals is skipped; the price of an       *)
(* earlier epoch is used.                                                   *)
finalizeNoReset(p) ==
    LET f == FinalizeAt(p, SharePrice(p.shares, p.stake))
    IN  IF NotFinalized(p) \/ (p.depositsInEpoch = 0 /\ p.withdrawalsInEpoch = 0) THEN p
        ELSE IF f = Failed THEN Failed
        ELSE [f EXCEPT !.withdrawalsInEpoch = p.withdrawalsInEpoch]

finalizeIfBoth(p) ==
    IF NotFinalized(p) \/ p.depositsInEpoch = 0 \/ p.withdrawalsInEpoch = 0 THEN p
    ELSE FinalizeAt(p, SharePrice(p.shares, p.stake))

finalizeAtLastPrice(p) ==
    IF NotFinalized(p) \/ (p.depositsInEpoch = 0 /\ p.withdrawalsInEpoch = 0) THEN p
    ELSE FinalizeAt(p, p.price[Max(DOMAIN p.price)])

FinalizeOperator(p) ==
    IF NotFinalized(p) \/ (p.depositsInEpoch = 0 /\ p.withdrawalsInEpoch = 0) THEN p
    ELSE FinalizeAt(p, SharePrice(p.shares, p.stake))

(* do_finalize_domain_current_epoch. *)
FinalizeEpoch(p) ==
    LET f == FinalizeOperator(TakeRewardTax(p))
    IN  IF f = Failed THEN Failed ELSE [f EXCEPT !.epoch = @ + 1]

(* The first bundle of a consensus block makes a domain block.             *)
NewDomainBlock(p) ==
    LET next == p.head + 1
        q    == IF next % StakeEpochDuration = 0 THEN FinalizeEpoch(p) ELSE p
    IN  IF q = Failed THEN Failed ELSE [q EXCEPT !.head = next]

(* The parts of submit_bundle that concern the operator: the rewards and   *)
(* refunds of a block that is confirmed, a slash for a bad receipt or an   *)
(* invalid bundle, the new domain block with the end of the epoch, and the *)
(* slashing of some nominators.  Any operator's bundle does this.          *)
Confirmed(p, reward, refund, guilty) ==
    LET exists == p.status # "Removed"
    IN  [p EXCEPT !.rewards = @ + reward, !.fund = IF exists THEN @ + refund ELSE @,
                  !.status = IF guilty /\ exists THEN "Slashed" ELSE @]

SubmitBundle(first, reward, refund, guilty) ==
    LET p == Confirmed(pool, reward, refund, guilty)
        q == IF first THEN NewDomainBlock(p) ELSE p
    IN  /\ first => pool.head < MaxHead
        /\ pool.status # "Removed"
        /\ reward # 0 => used.rewards < MaxRewards
        /\ refund # 0 => used.fees < MaxFees
        /\ q # Failed
        /\ \E batch \in Batches(q) :
              /\ SlashOperator(q, batch) # Failed
              /\ pool' = SlashOperator(q, batch)
        /\ used' = [used EXCEPT !.rewards = IF reward # 0 THEN @ + 1 ELSE @,
                                !.fees = IF refund # 0 THEN @ + 1 ELSE @]

(* charge_bundle_storage_fee, for a bundle of the operator.                *)
ChargeStorageFee(fee) ==
    /\ pool.status \in {"Registered", "Deregistered"}
    /\ used.fees < MaxFees
    /\ fee <= pool.fund
    /\ pool' = [pool EXCEPT !.fund = @ - fee]
    /\ used' = [used EXCEPT !.fees = @ + 1]

ForceStakingEpochTransition ==
    /\ pool.epoch < MaxHead
    /\ FinalizeEpoch(pool) # Failed
    /\ pool' = FinalizeEpoch(pool)
    /\ UNCHANGED used

Next ==
    \/ \E n \in Nominator :
          \/ \E amount \in Amount : NominateOperator(n, amount)
          \/ n \in DOMAIN pool.deposits /\
                \E shares \in Request : WithdrawStake(n, shares)
          \/ UnlockFunds(n)
          \/ n \in DOMAIN pool.deposits /\ UnlockNominator(n)
    \/ DeregisterOperator
    \/ \E first, guilty \in BOOLEAN, reward \in Reward \cup {0}, refund \in Fee \cup {0} :
          SubmitBundle(first, reward, refund, guilty)
    \/ \E fee \in Fee : ChargeStorageFee(fee)
    \/ ForceStakingEpochTransition

Spec == Init /\ [][Next]_vars

-----------------------------------------------------------------------------
PendingType == [amount: Nat, fee: Nat, epoch: Nat]

(* Balances and shares never underflow and no conversion fails.            *)
PoolTypeOK ==
    /\ pool.status \in {"Registered", "Deregistered", "Slashed", "Removed"}
    /\ {pool.stake, pool.shares, pool.depositsInEpoch, pool.withdrawalsInEpoch, pool.rewards,
        pool.feeDeposit, pool.fund, pool.head, pool.epoch, pool.unlockAt} \subseteq Nat
    /\ pool.hold \in [Nominator -> Nat]
    /\ DOMAIN pool.deposits \subseteq Nominator
    /\ \A n \in DOMAIN pool.deposits :
          pool.deposits[n] \in [shares: Nat, fee: Nat, pending: PendingType]
    /\ \A n \in Nominator :
          /\ pool.withdrawals[n].inShares \in [shares: Nat, fee: Nat, unlockAt: Nat, epoch: Nat]
          /\ Len(pool.withdrawals[n].ready) <= WithdrawalLimit
    /\ \A e \in DOMAIN pool.price : pool.price[e] \in 0..Accuracy

(* The shares of a nominator in the pool: known ones, those its pending    *)
(* deposit will be converted to, and those on withdrawal without a price.  *)
Deposited(n) == ElseKept(ConvertDeposits(pool, pool.deposits[n]), pool.deposits[n])
OnWithdrawal(n) == ElseKept(ConvertWithdrawal(pool, pool.withdrawals[n]), pool.withdrawals[n])
SharesOf(n) == Deposited(n).shares + OnWithdrawal(n).inShares.shares

(* "Shares add up": the pool has at least the shares of its nominators, in *)
(* whatever order they deposit, withdraw, convert and leave, and its price *)
(* is at most one.                                                         *)
SharesAddUp ==
    /\ MapThenSumSet(SharesOf, DOMAIN pool.deposits) <= pool.shares
    /\ pool.shares <= pool.stake

(* Whoever is last can still be paid: what the shares are worth is covered *)
(* by the stake.                                                           *)
ClaimsCovered ==
    LET price == SharePrice(pool.shares, pool.stake)
    IN  price # NoPrice =>
          MapThenSumSet(LAMBDA n : shares_to_stake(price, SharesOf(n)), DOMAIN pool.deposits)
              <= pool.stake

(* total_storage_fee_deposit, by which the fund is divided, is the sum of  *)
(* the nominators' deposits; a slash only takes the pending ones out.      *)
FeeDepositsAddUp ==
    LET sum == MapThenSumSet(LAMBDA n : pool.deposits[n].fee + pool.deposits[n].pending.fee,
                             DOMAIN pool.deposits)
    IN  IF pool.status = "Slashed" THEN sum <= pool.feeDeposit ELSE sum = pool.feeDeposit

(* Every pending deposit and withdrawal of an earlier epoch finds the share *)
(* price of its epoch, however late it is converted: no call fails with    *)
(* MissingOperatorEpochSharePrice.                                         *)
PricesKept ==
    pool.status \in {"Registered", "Deregistered"} =>
        \A n \in Nominator :
            /\ n \in DOMAIN pool.deposits => ConvertDeposits(pool, pool.deposits[n]) # Failed
            /\ ConvertWithdrawal(pool, pool.withdrawals[n]) # Failed

(* No deposit, withdrawal or exit makes the shares of the others worth     *)
(* less: rounding is always in favour of the pool.                         *)
NoDilution == [][pool'.shares # 0 => pool'.stake * pool.shares >= pool.stake * pool'.shares]_vars

(* What the NOTE in do_register_operator says: the totals "will never be   *)
(* zero after it is registered and before all nominators is unlocked".     *)
PoolNeverEmpty == pool.status # "Removed" => pool.shares # 0 /\ pool.stake # 0

(* What fuzz_utils says: "we must be able to finalize domain epoch".       *)
EpochFinalizes == FinalizeEpoch(pool) # Failed

(* What do_slash_operator relies on when it does "not slash the deposit    *)
(* that is not staked yet": the deposit is still on hold.                  *)
PendingOnHold == \A n \in DOMAIN pool.deposits : pool.hold[n] >= Deposited(n).pending.amount
=============================================================================
