\* What a message that is too long leaves behind.
SPECIFICATION FairSpec
CONSTANTS
    ShortLimit = 2
    LongBit = 9
    MaxLength = 3
    AddressLength = 2
    Ack <- MCAck
    Bodies <- MCBodies
    MaxSent = 2
    MaxCalls = 1
PROPERTY ReconnectRecovers
