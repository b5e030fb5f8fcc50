----------------------------- MODULE MCFileMap2 -----------------------------
(***************************************************************************)
(* A small address space: 16 bytes of port data in steps of 2, 16 of       *)
(* definitions and 16 of user data in steps of 4, a command area above 48, *)
(* and 8-bit addresses.  Two files of user data do not both fit.  The      *)
(* files the server announces have addresses inside and outside the areas. *)
(***************************************************************************)
EXTENDS FileMap2

CONSTANTS o1, o2, d1, u1, r1, r2

MCFile == {o1, o2, d1, u1, r1, r2}

MCLength ==
    (o1 :> 3) @@ (o2 :> 5) @@ (d1 :> 6) @@ (u1 :> 5) @@ (r1 :> 2) @@ (r2 :> 9)

MCClass ==
    (o1 :> ".out") @@ (o2 :> ".in") @@ (d1 :> ".apx") @@ (u1 :> "user")
      @@ (r1 :> ".in") @@ (r2 :> "user")

\* Only r1 and r2 may arrive with an address.
MCArrivals ==
    {[f \in MCFile |-> IF f = r1 THEN a ELSE IF f = r2 THEN b ELSE InvalidAddress] :
       a \in {InvalidAddress, 1, 17}, b \in {InvalidAddress, 33, 1}}

\* No file has an address.
MCAllNew == {[f \in MCFile |-> InvalidAddress]}

\* Around the ends of files and areas.
MCAsked == {0, 3, 16, 20, 24, 33, 41}
=============================================================================
