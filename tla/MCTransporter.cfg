CONSTANTS
    C = C
    D = D
    E = E
    Consensus = C
    Chain = {C, D, E}
    MaxChannels = 1
    MaxMessages = 2
    MaxOutgoing = 1
    MaxOutgoingMessages <- Limits
    SrcFee = 1
    DstFee = 1
    NoteOutcome = {TRUE}
    Amount = {1}
    BalanceC = 2
    BalanceD = 5
    BalanceE = 2
    InitialBalance <- Balances
    Opened <- OpenedBoth
    MaxPending = 1
SPECIFICATION TransporterSpec
CHECK_DEADLOCK FALSE
INVARIANTS TransporterTypeOK DomainBalancesExact SupplyConserved  CoveredWithRefunds 
