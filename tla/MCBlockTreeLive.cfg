SPECIFICATION LiveSpec
CONSTANTS
    Operator = {h, m1, m2}
    Honest = {h}
    Receipt <- MCReceipt
    Genesis <- MCGenesis
    BlockNumber <- MCBlockNumber
    Parent <- MCParent
    Ancestors <- MCAncestors
    Fraudulent <- MCFraudulent
    NeedsParent <- MCNeedsParent
    NoReceipt = NoReceipt
    BlockTreePruningDepth = 3
    MaxBlock = 4
    MaxMissedUpgrade = 0
    Claim = {"ok", "bad"}
PROPERTY
    ReceiptsCatchUp
