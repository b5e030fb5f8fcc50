\* The lengths of the code: the file's content is a little longer than its FILE_INFO.
SPECIFICATION Spec
CONSTANTS
    o1 = o1  d1 = d1  i1 = i1  x1 = x1  n1 = n1  n2 = n2
    NoFile = NoFile
    File <- MCFile
    Length <- MCRoomLength
    Class <- MCClass
    WordSize = 1048576
    PORT_DATA_START = 0     PORT_DATA_BOUNDARY = 64
    DEFINITION_START = 128   DEFINITION_BOUNDARY = 64
    USER_DATA_START = 192    USER_DATA_BOUNDARY = 64
    USER_DATA_END = 256
    LocalFiles <- MCPorts
    RequestedFiles <- MCRequested
    NewObject <- MCOwnNewObject
    Radix = 32
    DigestSize = 32
    MaxName = 255
    Name <- MCRoomName
    MaxWrites = 0
    Announced <- MCOwn
    ServerAddresses <- MCOwnAddresses
INVARIANT SendHasRoom
CHECK_DEADLOCK FALSE
