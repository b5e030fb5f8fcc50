\* Ports set and files written in every order, in either of two nodes, one load.
SPECIFICATION Spec
CONSTANTS
    sender = sender  receiver = receiver  named = named
    NoNode = NoNode  NoWrite = NoWrite  NoFile = NoFile  Unset = Unset
    Radix = 4  ArrayLimit = 16  MaxPackLen = 64
    Nodes = {sender, receiver}
    Requires <- MCRequires
    Provides <- MCProvides
    Offered <- MCOffered
    Images <- MCImages
    MaxLoads = 1
INVARIANTS TypeOK ThrowsExactly OutFileHoldsValues ReadsAgree NotifiedCorrectly
PROPERTY NotificationEnds
