CONSTANTS
    C = C
    D = D
    Chain = {C, D}
    MaxChannels = 1
    MaxMessages = 3
    MaxOutgoing = 2
    MaxOutgoingMessages <- Limits
    SrcFee = 2
    DstFee = 1
    NoteOutcome = {TRUE, FALSE}
SPECIFICATION MessengerSpec
INVARIANTS MessengerTypeOK OutboxExact ResponsesExact   FeesPaidOnce
PROPERTY ChannelNeverReopens
SYMMETRY Symmetry
