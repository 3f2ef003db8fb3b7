SPECIFICATION Spec
CONSTANTS
    Operator = {h, m1, m2}
    Honest = {h}
    Receipt <- MCReceipt
    Genesis <- MCGenesis
    BlockNumber <- MCBlockNumber
    Parent <- MCParent
    Ancestors <- MCAncestors
    Fraudulent <- MCFraudulent
    NeedsParent <- MCNeedsParent
    NoReceipt = NoReceipt
    BlockTreePruningDepth = 2
    MaxBlock = 4
    MaxMissedUpgrade = 1
    Claim = {"ok", "fees"}
INVARIANTS
    TypeOK
    TreeConsistent
    LiveChainLinked
    PendingToPruneInvalid
    HonestNeverSlashed
    LatestSubmittedSound
    DerivationDataKept
    IInv
PROPERTY
    ImplementsReceiptChain
