\* Definition texts cut anywhere, for either parser; a link with every message.
SPECIFICATION FairSpec
CONSTANTS
    Radix = 6
    Definitions <- MCDefinitions
    Transmissions <- MCTransmissions
    MaxTransmissions = 2
    Plans <- MCPlans
INVARIANTS TypeOK Defined ParsedAsDescribed FileKeepsTyped CompleteLinesKept Delivered NoMessageSkipped
PROPERTY DataLoopEnds
\* A parser returns, an application stops sending, an assertion ends the program.
CHECK_DEADLOCK FALSE
