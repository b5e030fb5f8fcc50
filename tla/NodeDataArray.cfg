\* Setting a record that has an array.
SPECIFICATION Spec
CONSTANTS
    sender = sender  receiver = receiver  named = named
    NoNode = NoNode  NoWrite = NoWrite  NoFile = NoFile  Unset = Unset
    Radix = 4  ArrayLimit = 16  MaxPackLen = 64
    Nodes = {named}
    Requires <- MCRequires
    Provides <- MCProvides
    Offered <- MCOffered
    Images <- MCOneImage
    MaxLoads = 1
INVARIANT NamedArraysPack
