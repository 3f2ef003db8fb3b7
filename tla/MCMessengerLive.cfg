CONSTANTS
    C = C
    D = D
    Chain = {C, D}
    MaxChannels = 1
    MaxMessages = 2
    MaxOutgoing = 2
    MaxOutgoingMessages <- Limits
    SrcFee = 2
    DstFee = 1
    NoteOutcome = {TRUE}
SPECIFICATION MessengerFairSpec
PROPERTIES EndpointAnswered ChannelOpenAnswered
