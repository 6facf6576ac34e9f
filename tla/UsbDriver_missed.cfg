SPECIFICATION Spec
CONSTANTS
    LastId = 1
    Kinds = {"read", "write"}
    ReplyLengths <- OneFullPacket
    Block = 2
    MaxBytes = 2
    MaxPackets = 1
    MaxErrors = 2
    LossyBus = TRUE
    MissedTokens = TRUE
PROPERTIES
    NoStaleReply
