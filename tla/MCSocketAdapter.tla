--------------------------- MODULE MCSocketAdapter ---------------------------
(***************************************************************************)
(* Lengths up to 2 have a header of one cell, lengths above 3 are too      *)
(* long.  Read from its second byte on, the acknowledge looks like the     *)
(* start of a message that is too long, as the bytes BF FF FC 00 do.       *)
(***************************************************************************)
EXTENDS SocketAdapter

MCAck == <<9, 9>>

\* A short message, a long one, one without an address and one that is too long.
MCBodies == {<<1, 2>>, <<2, 1, 2>>, <<1>>, <<1, 1, 1, 1>>}
=============================================================================
