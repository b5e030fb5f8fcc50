\* A second definition is loaded into the same node data.
SPECIFICATION Spec
CONSTANTS
    sender = sender  receiver = receiver  named = named
    NoNode = NoNode  NoWrite = NoWrite  NoFile = NoFile  Unset = Unset
    Radix = 4  ArrayLimit = 16  MaxPackLen = 64
    Nodes = {named}
    Requires <- MCRequires
    Provides <- MCProvides
    Offered <- MCOffered
    Images <- MCOneImage
    MaxLoads = 2
INVARIANT OneEntryPerPort
CHECK_DEADLOCK FALSE
