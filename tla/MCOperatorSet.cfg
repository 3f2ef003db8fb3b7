SPECIFICATION OperatorSpec
CONSTANTS
    Operator = {h, m}
    Honest = {h}
    Receipt <- MCReceipt
    Genesis <- MCGenesis
    BlockNumber <- MCBlockNumber
    Parent <- MCParent
    Ancestors <- MCAncestors
    Fraudulent <- MCFraudulent
    NeedsParent = {}
    NoReceipt = NoReceipt
    BlockTreePruningDepth = 2
    MaxBlock = 4
    MaxMissedUpgrade = 0
    Accuses <- MCAccuses
    InitialOperator = {m}
    Paying <- MCPaying
    Nominated = {h}
    Supervised = {h}
    StakeEpochDuration = 2
    StakeWithdrawalLockingPeriod = 2
    OperatorActivationDelayInEpochs = 1
    MaxEpoch = 4
    Claim = {"ok", "blame"}
    Culprit = {m}
INVARIANTS
    OperatorTypeOK
    PendingSlashesExist
    OperatorSetsActive
    NextOperatorsRegistered
    RegisteredWillProduce
    MarksAreLive
    HonestKeepStake
    SharePricesComplete
