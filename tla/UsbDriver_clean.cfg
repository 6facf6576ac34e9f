SPECIFICATION FairSpec
CONSTANTS
    LastId = 1
    Kinds = {"read", "write", "command", "address"}
    ReplyLengths <- MCReplyLengths
    Block = 2
    MaxBytes = 4
    MaxPackets = 2
    MaxErrors = 2
    LossyBus = FALSE
    MissedTokens = FALSE
INVARIANTS
    TypeOK
    HandOff
    TokenMatch
    PacketsInOrder
    NeverRefused
    AddressAgreed
    ResetForgets
PROPERTIES
    ReplyInOrder
    Completes
