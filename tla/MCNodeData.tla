----------------------------- MODULE MCNodeData -----------------------------
(***************************************************************************)
(* Bytes with four values.  Node sender provides a signed number of two    *)
(* bytes, a text, a record, an array, and two ports that byte code cannot  *)
(* pack; node receiver requires a signed number, a record with an array, a *)
(* signed array that cannot be unpacked, and a text.  Each has one small   *)
(* port in the other direction, to be set or written in between.  Node     *)
(* named provides a record with an array.                                  *)
(***************************************************************************)
EXTENDS NodeData

CONSTANTS sender, receiver, named

Elem(base, n) == [base |-> base, arrayLen |-> n, fields |-> <<>>]
Record(fields) == [base |-> "REC", arrayLen |-> 0, fields |-> fields]
Named(name, e) == [name |-> name, elem |-> e]

Pair == Record(<<Named("a", Elem("U8", 0)), Named("b", Elem("STR", 1))>>)
WithArray == Record(<<Named("a", Elem("U8", 0)), Named("b", Elem("U8", 1))>>)

MCProvides ==
    (sender :> <<Elem("S16", 0), Elem("STR", 2), Pair, Elem("U8", 2), Elem("S8", 1), WithArray>>)
      @@ (receiver :> <<Elem("U8", 0)>>) @@ (named :> <<WithArray>>)

MCRequires ==
    (receiver :> <<Elem("S16", 0), WithArray, Elem("S8", 1), Elem("STR", 2)>>)
      @@ (sender :> <<Elem("U8", 0)>>) @@ (named :> <<Elem("U8", 0)>>)

Numbers(S) == {Number(n) : n \in S}

\* In range, at its ends and beyond, and of the wrong kind.
MCOffered(e) ==
    CASE e = Pair ->
           {Map([a |-> Number(3), b |-> Text(<<2>>)]), Map([a |-> Number(5)]),
            Map([b |-> Text(<<1>>)]), Number(1)}
      [] e = WithArray ->
           {Map([a |-> Number(1), b |-> List(<<Number(2)>>)])}
      [] e.base = "STR" -> {Text(<<1>>), Text(<<2, 3>>), Text(<<1, 1, 1>>), Null}
      [] e.base \in {"S8", "U8"} /\ e.arrayLen > 0 ->
           {List(<<Number(1), Number(6)>>), List(<<Number(3), Number(2), Number(1)>>),
            List(<<Number(1)>>) , List(<<Number(1), Null>>)}
      [] OTHER -> Numbers({-2, 18}) \cup {Text(<<1>>)}

\* Contents of the files of require ports.
MCImages == {<<1, 2, 3, 0, 3, 1, 2>>, <<0, 3, 2, 1, 1, 0, 3>>}
MCOneImage == {<<1, 2, 3, 0, 3, 1, 2>>}
=============================================================================
