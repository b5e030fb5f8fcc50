---------------------------- MODULE MCApxSystem ----------------------------
(***************************************************************************)
(* A node with one file of provide ports, one of require ports and its     *)
(* definition.  The server may also announce a file nobody requested.      *)
(***************************************************************************)
EXTENDS ApxInvariant

CONSTANTS o1, d1, i1, x1, n1, n2

MCFile == {o1, d1, i1, x1, n1, n2}

MCLength == (o1 :> 2) @@ (d1 :> 1) @@ (i1 :> 2) @@ (x1 :> 2) @@ (n1 :> 2) @@ (n2 :> 2)

\* The object made for a file has its name.
MCName == (o1 :> <<1>>) @@ (d1 :> <<2>>) @@ (i1 :> <<3>>) @@ (x1 :> <<4>>)
            @@ (n1 :> <<3>>) @@ (n2 :> <<4>>)

\* 60 bytes of provide ports; the FILE_INFO of a file with a name like "node.out"
\* is 48 + 8 + 1 bytes long.
MCRoomName == [f \in MCFile |-> MCName[f] \o <<1, 1, 1, 1, 1, 1, 1>>]
MCRoomLength == [MCLength EXCEPT ![o1] = 60]

MCClass == (o1 :> ".out") @@ (d1 :> ".apx") @@ (i1 :> ".in") @@ (x1 :> ".in")
             @@ (n1 :> ".in") @@ (n2 :> ".in")

MCNewObject == (i1 :> n1) @@ (x1 :> n2)
MCOwnNewObject == i1 :> n1

MCPorts == <<o1>>
MCNode == <<o1, d1>>
MCRequested == <<i1>>
MCNone == <<>>

MCOwn == {i1}
MCAnnounced == {i1, x1}

MCServerAddresses == (i1 :> {4}) @@ (x1 :> {2})
MCOwnAddresses == i1 :> {4}
=============================================================================
