-------------------------- MODULE SignatureParser --------------------------
(***************************************************************************)
(* From the text of a declaration to what it declares: data signatures     *)
(* (apx/src/qapxdataelement.cpp), the initial value among the attributes   *)
(* (apx/src/qapxsimpleport.cpp), references to types and the node that     *)
(* both parsers of definitions build from the events of the stream.        *)
(***************************************************************************)
EXTENDS TextScan

Base == (67 :> "U8") @@ (83 :> "U16") @@ (76 :> "U32") @@ (97 :> "STR")
          @@ (99 :> "S8") @@ (115 :> "S16") @@ (108 :> "S32")

Width == [U8 |-> 1, U16 |-> 2, U32 |-> 4, S8 |-> 1, S16 |-> 2, S32 |-> 4, STR |-> 1]

Element(name, base, arrayLen, packLen, fields) ==
    [name |-> name, base |-> base, arrayLen |-> arrayLen, packLen |-> packLen,
     fields |-> fields]

\* A new QApxDataElement, and what a signature that cannot be parsed is.
NoElement == Element(<<>>, "NONE", 0, 0, <<>>)

ItemLen(e) == Width[e.base] * (IF e.arrayLen > 0 THEN e.arrayLen ELSE 1)

-----------------------------------------------------------------------------
(* The parts of an element.  at is the position of the next part and e the *)
(* element so far; position 0 means failure, after which e stays as it is. *)

ParseName(s, at, e) ==
    LET end == MatchPair(s, at, Quote, Quote)
    IN  IF At(s, at) # Quote THEN [next |-> at, elem |-> e]
        ELSE [next |-> end, elem |-> [e EXCEPT !.name = SubSeq(s, at + 1, end - 2)]]

ParseType(s, at, e) ==
    IF At(s, at) \notin DOMAIN Base THEN [next |-> 0, elem |-> e]
    ELSE [next |-> at + 1, elem |-> [e EXCEPT !.base = Base[At(s, at)]]]

ParseArrayLength(s, at, e) ==
    LET end == MatchPair(s, at, 91, 93)
    IN  IF At(s, at) # 91 THEN [next |-> at, elem |-> e]
        ELSE [next |-> end, elem |-> [e EXCEPT !.arrayLen = IF end = 0 THEN 0 ELSE ToInt(s, at + 1)]]

ParseLimit(s, at, e) ==
    [next |-> IF At(s, at) = 40 THEN MatchPair(s, at, 40, 41) ELSE at, elem |-> e]

\* calcLen, without which an element has no length
CalcLen(at, e) == [next |-> at, elem |-> [e EXCEPT !.packLen = ItemLen(e)]]

ParseDataElement(s, at) ==
    LET Part(r, part) ==
          IF r.next = 0 THEN r
          ELSE CASE part = "name" -> ParseName(s, r.next, r.elem)
                 [] part = "type" -> ParseType(s, r.next, r.elem)
                 [] part = "array" -> ParseArrayLength(s, r.next, r.elem)
                 [] part = "limit" -> ParseLimit(s, r.next, r.elem)
                 [] part = "length" -> CalcLen(r.next, r.elem)
    IN  FoldLeft(Part, [next |-> at, elem |-> NoElement],
                 <<"name", "type", "array", "limit", "length">>)

\* The children of a record, from behind its brace to the end of s, and where the last
\* parse ended: 0 if it failed.
Children(s) ==
    LET Child(r, c) ==
          IF r.next \notin 1 .. Len(s) THEN r
          ELSE LET child == ParseDataElement(s, r.next)
               IN  [next |-> child.next, list |-> Append(r.list, child.elem)]
    IN  FoldLeft(Child, [next |-> 2, list |-> <<>>], s)

\* parseDataSignature; no element at all when a child of a record cannot be parsed.
ParseDataSignature(s) ==
    LET end == MatchPair(s, 1, 123, 125)
        Record(r) ==
          IF r.next = 0 THEN {}
          ELSE {Element(<<>>, "REC", 0, FoldLeft(LAMBDA n, f : n + f.packLen, 0, r.list), r.list)}
    IN  IF At(s, 1) # 123 THEN {ParseDataElement(s, 1).elem}
        ELSE IF end = 0 THEN {NoElement}
        ELSE Record(Children(SubSeq(s, 1, end - 2)))

Positions(s, from, c) == {i \in from .. Len(s) : s[i] = c}

\* buildAttrInitRaw: the text behind the equals sign, up to the last closing brace,
\* else the last quote, else the first comma, else the end.
AttrInit(attr) ==
    LET eq == Positions(attr, 1, 61)
        from == Min(eq) + 1
        last == IF Positions(attr, from, 125) # {} THEN Max(Positions(attr, from, 125))
                ELSE IF Positions(attr, from, Quote) # {} THEN Max(Positions(attr, from, Quote))
                ELSE IF Positions(attr, from, 44) # {} THEN Min(Positions(attr, from, 44)) - 1
                ELSE Len(attr)
    IN  IF eq = {} THEN {} ELSE {SubSeq(attr, from, last)}

-----------------------------------------------------------------------------
(* Nodes. *)

EmptyNode == [name |-> <<>>, types |-> <<>>, requires |-> <<>>, provides |-> <<>>]

\* Fault: type ids counted from one.
ReferredDsg_fromOne(node, dsg) ==
    LET id == ToInt(dsg, 3)
    IN  IF MatchPair(dsg, 2, 91, 93) = 0 \/ id \notin DOMAIN node.types THEN {}
        ELSE {node.types[id].dsg}

\* getDataTypeFromDsg: T[id].  Without a digit the id is not initialised; no text of
\* the runs has such a reference.
ReferredDsg(node, dsg) ==
    LET id == ToInt(dsg, 3)
    IN  IF MatchPair(dsg, 2, 91, 93) = 0 \/ id >= Len(node.types) THEN {}
        ELSE {node.types[id + 1].dsg}

IsReference(dsg) == At(dsg, 1) = 84

ListOf == [typedef |-> "types", require |-> "requires", provide |-> "provides"]

\* appendType, appendRequirePort and appendProvidePort.
Appended(node, e, dsg) ==
    [node EXCEPT ![ListOf[e.ev]] = Append(@, [name |-> e.name, dsg |-> dsg, attr |-> e.attr])]

\* A port whose type is not found is left out.
WithPort(node, e, dsgs) ==
    IF dsgs = {} THEN node ELSE Appended(node, e, CHOOSE dsg \in dsgs : TRUE)

\* The handlers of Apx::ByteArrayParser.
ByteArrayHandler(node, e) ==
    CASE e.ev = "nodeQueryRspStart" -> [node EXCEPT !.name = e.name]
      [] e.ev = "typedef" -> Appended(node, e, e.dsg)
      [] e.ev \in {"require", "provide"} /\ e.dsg # <<>> ->
           WithPort(node, e, IF IsReference(e.dsg) THEN ReferredDsg(node, e.dsg) ELSE {e.dsg})
      [] OTHER -> node

\* The handlers of QApxFileParser: no name, and only ports that refer to a type.
FileHandler(node, e) ==
    CASE e.ev = "typedef" -> Appended(node, e, e.dsg)
      [] e.ev \in {"require", "provide"} /\ Len(e.dsg) >= 2 /\ IsReference(e.dsg) ->
           WithPort(node, e, ReferredDsg(node, e.dsg))
      [] OTHER -> node
=============================================================================
