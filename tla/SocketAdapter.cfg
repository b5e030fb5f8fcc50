\* Two calls of the application; connections come and go without bound.
SPECIFICATION FairSpec
CONSTANTS
    ShortLimit = 2
    LongBit = 9
    MaxLength = 3
    AddressLength = 2
    Ack <- MCAck
    Bodies <- MCBodies
    MaxSent = 3
    MaxCalls = 2
INVARIANTS TypeOK NeverStranded TimerOnlyDown UpMeansAcknowledged InOrder NothingWaits
PROPERTIES MessagesWhileUp Reconnects Acknowledged
