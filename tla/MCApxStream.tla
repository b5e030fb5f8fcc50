---------------------------- MODULE MCApxStream ----------------------------
(***************************************************************************)
(* Bytes of numbers and of data have six values, so that lengths from 5 on *)
(* need a byte, from 6 on two and from 36 on four.                         *)
(***************************************************************************)
EXTENDS ApxStream

Characters == "!\"#()*+,-./0123456789:;<=>?@ABCDEFGHIJKLMNOPQRSTUVWXYZ[\\]^__abcdefghijklmnopqrstuvwxyz{|}"

Code(c) == CHOOSE n \in 1 .. Len(Characters) : SubSeq(Characters, n, n) = c

\* The codes of the characters of a string.
Str(s) ==
    [i \in 1 .. Len(s) |->
       LET c == SubSeq(s, i, i)
           n == Code(c)
       IN  IF n <= 3 THEN 32 + n ELSE 36 + n]

\* Elements, as signatures describe them.
Item(base, n, len) == Element(<<>>, base, n, len, <<>>)
Record(len, a, b) ==
    Element(<<>>, "REC", 0, len, <<[a EXCEPT !.name = Str("a")], [b EXCEPT !.name = Str("b")]>>)

Declared(text, list, item, typed) == [text |-> Str(text), list |-> list, item |-> item, typed |-> typed]
Other(text) == Declared(text, "none", <<>>, FALSE)
Type(text, name, elem) ==
    Declared(text, "types", [name |-> Str(name), elem |-> {elem}, init |-> {}], FALSE)
Port(text, list, name, elem, init, typed) ==
    Declared(text, list, [name |-> Str(name), elem |-> {elem}, init |-> init], typed)

\* Types, references to the first, the last and none of them, ports with signatures of
\* their own, each form of initial value, and a comment.
Doors ==
    [version |-> Str("1.2"), lines |-> <<
       Declared("N\"Door\"", "name", Str("Door"), FALSE),
       Type("T\"T0\"C(0,3)", "T0", Item("U8", 0, 1)),
       Type("T\"T1\"{\"a\"s\"b\"L[2]}", "T1", Record(10, Item("S16", 0, 2), Item("U32", 2, 8))),
       Other("#T\"T2\"C"),
       Port("P\"p\"T[0]:=3,P", "provides", "p", Item("U8", 0, 1), {Str("3")}, TRUE),
       Other("P\"u\"T[2]:=1"),
       Port("P\"q\"a[12]:P,=\"x,y\"", "provides", "q", Item("STR", 12, 12), {Str("\"x,y\"")}, FALSE),
       Port("R\"r\"T[1]:={1,{2,3}}", "requires", "r",
            Record(10, Item("S16", 0, 2), Item("U32", 2, 8)), {Str("{1,{2,3}}")}, TRUE),
       Port("R\"s:s\"c", "requires", "s:s", Item("S8", 0, 1), {}, FALSE)>>]

\* A signature for each base type; a name with a quote in it.
Signs ==
    [version |-> Str("1.2"), lines |-> <<
       Other("#"), Declared("N\"A\\\"B\"(1,0,2)", "name", Str("A\\\"B"), FALSE),
       Other("X\"x\"C"),
       Port("R\"l\"l[3]", "requires", "l", Item("S32", 3, 12), {}, FALSE),
       Port("P\"p\"S(0,9):P", "provides", "p", Item("U16", 0, 2), {}, FALSE),
       Type("T\"T\"C", "T", Item("U8", 0, 1)),
       Port("R\"t\"T[0]", "requires", "t", Item("U8", 0, 1), {}, TRUE)>>]

\* Versions that the parser does not know, and one that it does.
Older == [version |-> Str("1.1"), lines |-> <<Other("N\"A\""), Other("P\"p\"C")>>]
Newer == [version |-> Str("2.0"), lines |-> <<Other("N\"A\"")>>]
Later == [version |-> Str("1.3"), lines |-> <<Declared("N\"A\"", "name", Str("A"), FALSE)>>]

\* A line that is no declaration: a text is rejected; of a file the line behind it, read
\* together with it, is lost as well and what follows is parsed.
Broken ==
    [version |-> Str("1.2"), lines |-> <<
       Type("T\"T\"C", "T", Item("U8", 0, 1)),
       Port("R\"r\"T[0]", "requires", "r", Item("U8", 0, 1), {}, TRUE),
       Other("R\"x"), Other("P\"p\"T[0]"),
       Type("T\"S\"s", "S", Item("S16", 0, 2)),
       Port("P\"q\"T[1]", "provides", "q", Item("S16", 0, 2), {}, TRUE)>>]

\* Questions and answers among declarations.
Odd(second, third) == [version |-> Str("1.4"), lines |-> <<Other(second), Other(third)>>]

MCDefinitions ==
    {Doors, Signs, Broken, Older, Newer, Later}
      \cup {Odd(l, m) : l \in {"?N*", "?N\"A\"", "?NA", "+N\"A\""}, m \in {"?N\"A\"", "+N\"A\"", "x"}}

-----------------------------------------------------------------------------
Plain(op) == [op |-> op]
NameMsg(op, name) == [op |-> op, name |-> Str(name)]
Decl(op, name, dsg, attr) ==
    [op |-> op, name |-> Str(name), dsg |-> Str(dsg), attr |-> Str(attr)]
Data(op, port, data) == [op |-> op, port |-> port, data |-> data, dataLen |-> 0]
Connect(op, port, n) == [op |-> op, port |-> port, data |-> <<>>, dataLen |-> n]

Zeros(n) == [i \in 1 .. n |-> i % 5]

InMessage(msgs) == <<Plain("start")>> \o msgs \o <<Plain("end")>>

\* Every text message, and every kind of data message with every kind of length, alone
\* and with others.
MCTransmissions ==
    {InMessage(<<Plain("nodeNameRqst")>>),
     InMessage(<<NameMsg("nodeNameRsp", "A"), NameMsg("nodeNameRsp", "")>>),
     InMessage(<<NameMsg("nodeNameRsp", "A"), NameMsg("nodeNameRsp", "B")>>),
     InMessage(<<NameMsg("nodeQueryRqst", "A"), NameMsg("nodeQueryRqst", "B:")>>),
     InMessage(<<NameMsg("nodeQueryRspStart", "A"), Decl("typedef", "T", "C", ""),
                 Decl("require", "r", "S[2]", "=1"), Decl("provide", "p", "T[0]", "")>>),
     <<Data("read", 35, <<>>), Connect("pconnect", 6, 35), Data("invoke", 1, Zeros(1))>>,
     <<Data("return", 7, Zeros(4)), Connect("rconnect", 0, 5), Data("perror", 2, <<>>)>>,
     <<Connect("rconnect", 3, 36), Data("rdisconnect", 1, <<>>), Data("rerror", 9, <<>>)>>,
     <<Data("write", 5, Zeros(34)), Data("pdisconnect", 8, <<>>)>>,
     <<Data("write", 1, Zeros(3)), Data("write", 2, Zeros(2)), Data("write", 34, <<>>)>>}

MCPlans ==
    {<<Data("write", 1, Zeros(l)), Data("write", 8, Zeros(m)), Data("write", 3, Zeros(n))>> :
       l \in {0, 3, 4}, m \in {0, 2, 3, 4}, n \in {1, 3, 4}}
      \cup {<<Data("read", 35, <<>>), Data("write", 1, Zeros(34))>>}
=============================================================================
