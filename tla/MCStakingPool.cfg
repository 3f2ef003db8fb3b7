CONSTANTS
    Nominator = {o, n}
    Owner = o
    OwnerStake = 10
    Amount = {10}
    Request = {2, 8}
    Reward = {3}
    Fee = {1}
    NominationTax = 40
    MinOperatorStake = 5
    MinimumNominatorStake = 5
    Accuracy = 7
    StakeEpochDuration = 1
    StakeWithdrawalLockingPeriod = 1
    WithdrawalLimit = 1
    MaxNominatorsToSlash = 1
    FirstOperator = TRUE
    MaxHead = 3
    MaxRequests = 2
    MaxRewards = 1
    MaxFees = 1
SPECIFICATION Spec
CHECK_DEADLOCK FALSE
INVARIANTS PoolTypeOK SharesAddUp ClaimsCovered FeeDepositsAddUp PricesKept
PROPERTY NoDilution
