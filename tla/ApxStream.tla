----------------------------- MODULE ApxStream -----------------------------
(***************************************************************************)
(* The users of QApxIStreamBuf.                                            *)
(*                                                                         *)
(*  - Apx::ByteArrayParser passes a definition text to it in one write,    *)
(*  - QApxFileParser reads a definition file and passes it line by line,   *)
(*  - a peer that composes messages with QApxOStreamBuf sends them over a  *)
(*    link, where a transmission arrives as it was sent ("link") or in any *)
(*    pieces ("pieces").                                                   *)
(*                                                                         *)
(* A definition text may end anywhere.  The node that a parser builds is   *)
(* the fold of its handlers over the events.                               *)
(***************************************************************************)
EXTENDS IStreamBuf, SignatureParser

CONSTANTS
    Definitions,       \* records: version and lines.  A line is a record of its text, the
                       \* list of the node it adds to ("none" if none), the item it adds
                       \* there and whether its data signature is a type reference
    Transmissions,     \* sequences of messages, composed and sent together
    MaxTransmissions,
    Plans              \* data messages for the link that delivers pieces, their ports distinct

VARIABLES
    user,         \* "bytearray", "file", "missing", "link", "pieces"
    definition,   \* whose text is parsed
    cut,          \* the number of cells of the text there are
    step,         \* of parseNode: "begin", "write", "closed", "returned"
    result,       \* the node returned: {node}, or {} when there is none
    chunks,       \* what is still to be passed to write()
    sent,         \* the transmissions
    received      \* the number of cells of them that were passed to write() in pieces

parseVars == <<user, definition, cut, step, result>>
linkVars == <<chunks, sent, received>>
vars == <<istreamVars, parseVars, linkVars>>

-----------------------------------------------------------------------------
(* What is written. *)

DefinitionText(d) ==
    <<APX>> \o d.version \o <<NL>>
      \o FlattenSeq([n \in DOMAIN d.lines |-> d.lines[n].text \o <<NL>>])

\* QTextStream::readLineInto: the lines, without their ends.
Lines(text) ==
    LET split[n \in 0 .. Len(text)] ==
          IF n = 0 THEN <<<<>>>>
          ELSE LET ls == split[n-1] IN
               IF text[n] = NL THEN Append(ls, <<>>)
               ELSE [ls EXCEPT ![Len(ls)] = Append(@, text[n])]
        all == split[Len(text)]
    IN  IF Last(all) = <<>> THEN Front(all) ELSE all

\* What each operation of QApxOStreamBuf appends to its buffer.
Compose(msg) ==
    CASE msg.op = "start" -> StartTextMsg
      [] msg.op = "end" -> EndTextMsg
      [] msg.op = "nodeNameRqst" -> NodeNameRqst
      [] msg.op = "nodeNameRsp" -> NodeNameRsp(msg.name)
      [] msg.op = "nodeQueryRqst" -> NodeQueryRqst(msg.name)
      [] msg.op = "nodeQueryRspStart" -> NodeQueryRspStart(msg.name, 1, 0, 2)
      [] msg.op \in {"typedef", "provide", "require"} ->
           DeclarationLine(LineType[msg.op], msg.name, msg.dsg, msg.attr)
      [] OTHER -> Operation(msg.op, msg.port, msg.data, msg.dataLen)

ComposeAll(msgs) == FlattenSeq([n \in DOMAIN msgs |-> Compose(msgs[n])])

-----------------------------------------------------------------------------
(* What may be written. *)

Character == 0 .. 127

\* A text of one line without the characters cs.
IsText(s, cs) == s \in Seq(Character) /\ \A i \in DOMAIN s : s[i] \notin cs \cup {NL}

\* Names are put between quotes as they are.
IsName(s) == IsText(s, {Quote, Backslash}) /\ s # <<>>

IsDeclarationMsg(msg) ==
    /\ IsName(msg.name)
    /\ \/ msg.op = "nodeQueryRspStart"
       \/ /\ msg.op \in {"typedef", "provide", "require"}
          /\ IsText(msg.dsg, {Colon}) /\ msg.dsg # <<>> /\ IsText(msg.attr, {})

\* A text message: a question for names, answers to one, questions for nodes, or
\* declarations, with the header line and the empty line around them.
IsTextMessage(msgs) ==
    /\ Len(msgs) >= 2 /\ msgs[1].op = "start" /\ msgs[Len(msgs)].op = "end"
    /\ LET inner == 2 .. Len(msgs) - 1 IN
       \/ Len(msgs) = 3 /\ msgs[2].op = "nodeNameRqst"
       \/ \A i \in inner : msgs[i].op = "nodeNameRsp" /\ IsText(msgs[i].name, {})
       \/ \A i \in inner : msgs[i].op = "nodeQueryRqst" /\ IsName(msgs[i].name)
       \/ \A i \in inner : IsDeclarationMsg(msgs[i])

Operations == {"write", "invoke", "return", "rconnect", "pconnect", "read", "rdisconnect",
               "pdisconnect", "rerror", "perror"}

\* Numbers fit into their bytes.
IsDataMsg(msg) ==
    /\ msg.op \in Operations /\ msg.port \in 0 .. Power[2] - 1
    /\ msg.data \in Seq(0 .. Radix - 1) /\ Len(msg.data) + 2 < Power[4]
    /\ msg.dataLen \in 0 .. Power[4] - 1

IsDataMessages(msgs) == \A i \in DOMAIN msgs : IsDataMsg(msgs[i])

ASSUME Texts ==
    \A d \in Definitions :
      /\ d.version \in Seq(0 .. 255)
      /\ d.lines \in Seq({d.lines[i] : i \in DOMAIN d.lines})
      /\ \A i \in DOMAIN d.lines : d.lines[i].text \in Seq(0 .. 255)

ASSUME Messages ==
    \A msgs \in Transmissions \cup Plans :
      /\ msgs \in Seq({msgs[i] : i \in DOMAIN msgs})
      /\ IsTextMessage(msgs) \/ IsDataMessages(msgs)

ASSUME DistinctPorts ==
    \A plan \in Plans :
      /\ IsDataMessages(plan)
      /\ \A i, j \in DOMAIN plan : plan[i].port = plan[j].port => i = j

-----------------------------------------------------------------------------
(* The parsers of definitions. *)

Text == SubSeq(DefinitionText(definition), 1, cut)

ParserInit ==
    /\ user \in {"bytearray", "file", "missing"}
    /\ definition \in Definitions
    /\ cut \in 1 .. Len(DefinitionText(definition))
    /\ user = "missing" => cut = 1
    /\ sent = <<>>

LinkInit ==
    /\ definition = [version |-> <<>>, lines |-> <<>>] /\ cut = 0
    /\ \/ user = "link" /\ sent = <<>>
       \/ user = "pieces" /\ sent \in Plans

Init ==
    /\ IStreamInit
    /\ ParserInit \/ LinkInit
    /\ step = "begin" /\ result = {}
    /\ chunks = <<>> /\ received = 0

\* A parser's parseNode makes an empty node and opens the stream; an application
\* opens its own.
OpenStream ==
    /\ step = "begin" /\ user # "missing"
    /\ Open
    /\ step' = "write"
    /\ chunks' = CASE user = "bytearray" -> <<Text>> [] user = "file" -> Lines(Text)
                   [] OTHER -> <<>>
    /\ UNCHANGED <<user, definition, cut, result, sent, received>>

\* A file that cannot be opened gives an empty node.
FileMissing ==
    /\ user = "missing" /\ step = "begin"
    /\ result' = {EmptyNode} /\ step' = "returned"
    /\ UNCHANGED <<istreamVars, user, definition, cut, linkVars>>

\* The text or, of a file, the next line; a transmission that arrives as it was sent.
WriteChunk ==
    /\ step = "write" /\ chunks # <<>>
    /\ Write(Head(chunks))
    /\ chunks' = Tail(chunks)
    /\ UNCHANGED <<parseVars, sent, received>>

CloseStream ==
    /\ user \in {"bytearray", "file"}
    /\ step = "write" /\ chunks = <<>>
    /\ Close
    /\ step' = "closed"
    /\ UNCHANGED <<user, definition, cut, result, linkVars>>

\* What the handlers of a parser make of the events, from an empty node on.
NodeFrom(parser, evs) ==
    LET node[n \in 0 .. Len(evs)] ==
          IF n = 0 THEN EmptyNode
          ELSE IF parser = "bytearray" THEN ByteArrayHandler(node[n-1], evs[n])
          ELSE FileHandler(node[n-1], evs[n])
    IN  node[Len(evs)]

\* No node when the stream met an invalid declaration.
ByteArrayResult == IF mException THEN {} ELSE {NodeFrom("bytearray", events)}

\* Whatever the stream met.
FileResult == {NodeFrom("file", events)}

Return ==
    /\ step = "closed"
    /\ result' = IF user = "bytearray" THEN ByteArrayResult ELSE FileResult
    /\ step' = "returned"
    /\ UNCHANGED <<istreamVars, user, definition, cut, linkVars>>

-----------------------------------------------------------------------------
(* The link. *)

Transmit(msgs) ==
    /\ user = "link" /\ step = "write" /\ Len(sent) < MaxTransmissions
    /\ sent' = Append(sent, msgs)
    /\ chunks' = Append(chunks, ComposeAll(msgs))
    /\ UNCHANGED <<istreamVars, parseVars, received>>

SentCells == ComposeAll(sent)

\* Of the transmissions, any piece arrives next.
Piece ==
    /\ user = "pieces" /\ step = "write"
    /\ \E n \in received + 1 .. Len(SentCells) :
         /\ Write(SubSeq(SentCells, received + 1, n))
         /\ received' = n
    /\ UNCHANGED <<parseVars, chunks, sent>>

-----------------------------------------------------------------------------
Next ==
    \/ OpenStream \/ FileMissing \/ WriteChunk \/ CloseStream \/ Return
    \/ \E msgs \in Transmissions : Transmit(msgs)
    \/ Piece
    \/ TextLoop /\ UNCHANGED <<parseVars, linkVars>>
    \/ DataLoop /\ UNCHANGED <<parseVars, linkVars>>

\* parseDataMsg is a loop without a call that blocks.
FairSpec == Init /\ [][Next]_vars /\ WF_vars(DataLoop /\ UNCHANGED <<parseVars, linkVars>>)

-----------------------------------------------------------------------------
(* What a definition text describes. *)

\* The items that its first n lines add to a list of the node, for a parser that keeps
\* all ports or only those that refer to a type.
Described(d, n, list, typedOnly) ==
    LET adds(l) == l.list = list /\ (list = "types" \/ l.typed \/ ~typedOnly)
        items[k \in 0 .. n] ==
          IF k = 0 THEN <<>>
          ELSE IF adds(d.lines[k]) THEN Append(items[k-1], d.lines[k].item) ELSE items[k-1]
    IN  items[n]

\* The lines behind the header whose end is in the text.
CompleteLines ==
    LET ends(n) == Len(DefinitionText([version |-> definition.version,
                                       lines |-> SubSeq(definition.lines, 1, n)]))
    IN  Cardinality({n \in DOMAIN definition.lines : ends(n) <= cut})

Whole == cut = Len(DefinitionText(definition))

\* A list of a node in the same terms.
Content(node, list) ==
    IF list = "name" THEN IF node.name = <<>> THEN <<>> ELSE <<node.name>>
    ELSE [i \in DOMAIN node[list] |->
            [name |-> node[list][i].name, elem |-> ParseDataSignature(node[list][i].dsg),
             init |-> AttrInit(node[list][i].attr)]]

Lists == {"name", "types", "requires", "provides"}

NumItems(node) == Len(node.types) + Len(node.requires) + Len(node.provides)

-----------------------------------------------------------------------------
(* What messages mean to the one who receives them. *)

\* Calls and returns are sent as writes, and answers to a question for names are not
\* handed out.
Meaning(msg) ==
    CASE msg.op = "end" -> <<Event("endTextMsg")>>
      [] msg.op \in {"start", "nodeNameRsp"} -> <<>>
      [] msg.op = "nodeNameRqst" -> <<Event("nodeNameRqst")>>
      [] msg.op \in {"nodeQueryRqst", "nodeQueryRspStart"} -> <<NameEvent(msg.op, msg.name)>>
      [] msg.op \in {"typedef", "provide", "require"} ->
           <<LineEvent(msg.op, msg.name, msg.dsg,
                       IF msg.attr # <<>> /\ ~asserts THEN <<Colon>> \o msg.attr ELSE msg.attr)>>
      [] msg.op \in {"write", "invoke", "return"} -> <<DataEvent("dataWrite", msg.port, msg.data)>>
      [] msg.op = "rconnect" -> <<LenEvent("requirePortConnect", msg.port, msg.dataLen)>>
      [] msg.op = "pconnect" -> <<LenEvent("providePortConnect", msg.port, msg.dataLen)>>
      [] msg.op = "read" -> <<PortEvent("dataRead", msg.port)>>
      [] msg.op = "rdisconnect" -> <<PortEvent("requirePortDisconnect", msg.port)>>
      [] msg.op = "pdisconnect" -> <<PortEvent("providePortDisconnect", msg.port)>>
      [] msg.op = "rerror" -> <<PortEvent("requirePortError", msg.port)>>
      [] msg.op = "perror" -> <<PortEvent("providePortError", msg.port)>>

MeaningOfAll(msgs) == FlattenSeq([n \in DOMAIN msgs |-> Meaning(msgs[n])])

\* The messages of which everything was passed to write().
Arrived == {n \in DOMAIN sent : Len(ComposeAll(SubSeq(sent, 1, n))) <= received}

-----------------------------------------------------------------------------
(* Properties. *)

\* The types of the stream and of its users; a node is returned at the end only.
TypeOK ==
    /\ IStreamTypeOK
    /\ step \in {"begin", "write", "closed", "returned"}
    /\ Cardinality(result) <= (IF step = "returned" THEN 1 ELSE 0)
    /\ user = "pieces" => received \in 0 .. Len(SentCells)

\* The loop of write() does not read on in bytes that reset() freed: every user's
\* chunk is still held by its caller when the buffer lets go of it (qapx_stream.cpp:146).
Defined == pc # "undefined"

\* A text that is all there is parsed into the node it describes: its name, its types,
\* and its ports in order with their elements and initial values, those with an unknown
\* type left out; and no assertion fails.  A text of a version the parser does not know
\* describes an empty node.
ParsedAsDescribed ==
    user = "bytearray" /\ Whole =>
        /\ definition.version = <<49, Dot, 50>> => pc # "aborted"
        /\ \A node \in result, list \in Lists :
             Content(node, list) = Described(definition, Len(definition.lines), list, FALSE)

\* From a file QApxFileParser makes the same types and of the ports those that refer to
\* one, in order, although its lines reach the stream without their ends.
FileKeepsTyped ==
    user = "file" /\ Whole =>
        \A node \in result, list \in Lists :
          Content(node, list) = Described(definition, Len(definition.lines), list, TRUE)

\* When a text was cut, the node returned has every item of its complete lines and at
\* most one more: nothing that arrived is lost or comes out differently.
CompleteLinesKept ==
    \A node \in result :
        LET listed(list) == Described(definition, CompleteLines, list, user = "file")
        IN  /\ \A list \in Lists :
                 IsPrefix(listed(list), Content(node, list))
            /\ NumItems(node) - (Len(listed("types")) + Len(listed("requires"))
                                   + Len(listed("provides"))) <= 1

\* The messages a peer composes come out of the parser as they were sent, each once and
\* in order, while every transmission arrives in one piece.
Delivered ==
    user = "link" =>
        LET meant == FlattenSeq([n \in DOMAIN sent |-> MeaningOfAll(sent[n])])
        IN  /\ IsPrefix(events, meant)
            /\ pc = "idle" /\ chunks = <<>> => events = meant
            /\ pc # "aborted"

\* From data messages in any pieces none is left out, none comes out wrong or before one
\* sent earlier; a message may come out again as long as one behind it is not complete.
NoMessageSkipped ==
    user = "pieces" =>
        LET means(i, n) == Meaning(sent[n]) = <<events[i]>>
        IN  /\ \A i \in DOMAIN events : \E n \in DOMAIN sent :
                 means(i, n) /\ (n = 1 \/ \E j \in 1 .. i - 1 : means(j, n - 1))
            /\ pc = "idle" => Arrived = {n \in DOMAIN sent : \E i \in DOMAIN events : means(i, n)}

\* parseDataMsg returns, whatever part of a message it finds: it neither waits for the
\* rest of one in its loop nor goes round without moving on.
DataLoopEnds == pc = "data" ~> pc # "data"

\* Claim of the tests ("broken/partial APX file", test_qapx_bytearrayparser.cpp:26): from
\* a text that was cut off within a declaration behind others no node is made.
PartialRejected ==
    /\ user = "bytearray" /\ definition.version = <<49, Dot, 50>> /\ CompleteLines >= 2
    /\ cut < Len(DefinitionText(definition))
    /\ Text[cut] # NL /\ DefinitionText(definition)[cut + 1] # NL
    => result = {}
=============================================================================
