CONSTANTS
    C = C
    D = D
    E = E
    Consensus = C
    Chain = {C, D}
    MaxChannels = 1
    MaxMessages = 3
    MaxOutgoing = 2
    MaxOutgoingMessages <- Limits
    SrcFee = 1
    DstFee = 1
    NoteOutcome = {TRUE}
    Amount = {1, 3}
    BalanceC = 5
    BalanceD = 5
    BalanceE = 0
    InitialBalance <- Balances
    Opened <- OpenedByC
    MaxPending = 2
SPECIFICATION TransporterSpec
CHECK_DEADLOCK FALSE
INVARIANT ConfirmationSucceeds
