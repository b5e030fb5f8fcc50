\* A definition text that was cut off.
SPECIFICATION FairSpec
CONSTANTS
    Radix = 6
    Definitions <- MCDefinitions
    Transmissions <- MCTransmissions
    MaxTransmissions = 0
    Plans <- MCPlans
INVARIANT PartialRejected
CHECK_DEADLOCK FALSE
