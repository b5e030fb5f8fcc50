\* Insertions, lookups and clear() in every order, of files with and without an address.
SPECIFICATION Spec
CONSTANTS
    o1 = o1  o2 = o2  d1 = d1  u1 = u1  r1 = r1  r2 = r2
    NoFile = NoFile
    File <- MCFile
    Length <- MCLength
    Class <- MCClass
    Arrivals <- MCArrivals
    Asked <- MCAsked
    WordSize = 256
    PORT_DATA_START = 0     PORT_DATA_BOUNDARY = 2
    DEFINITION_START = 16   DEFINITION_BOUNDARY = 4
    USER_DATA_START = 32    USER_DATA_BOUNDARY = 4
    USER_DATA_END = 48
INVARIANTS TypeOK Sorted NoOverlap BelowCommandArea AssignedAligned
PROPERTY LookupCorrect
CHECK_DEADLOCK FALSE
