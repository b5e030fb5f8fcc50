\* A node with two files; two files on the server, one of them requested.
SPECIFICATION FairSpec
CONSTANTS
    o1 = o1  d1 = d1  i1 = i1  x1 = x1  n1 = n1  n2 = n2
    NoFile = NoFile
    File <- MCFile
    Length <- MCLength
    Class <- MCClass
    WordSize = 4096
    PORT_DATA_START = 0     PORT_DATA_BOUNDARY = 2
    DEFINITION_START = 16   DEFINITION_BOUNDARY = 4
    USER_DATA_START = 32    USER_DATA_BOUNDARY = 4
    USER_DATA_END = 40
    LocalFiles <- MCNode
    RequestedFiles <- MCRequested
    NewObject <- MCNewObject
    Radix = 8
    DigestSize = 0
    MaxName = 2
    Name <- MCName
    MaxWrites = 1
    Announced <- MCAnnounced
    ServerAddresses <- MCServerAddresses
INVARIANTS TypeOK Snapshot WritesLand ServerAnnounced ToServerCarried ToClientCarried
PROPERTIES ImplementsMirror Converges
CHECK_DEADLOCK FALSE
