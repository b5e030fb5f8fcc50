------------------------------ MODULE NodeData ------------------------------
(***************************************************************************)
(* Apx::NodeData: the ports of a node, as bytes in its two data files and  *)
(* as values at its interface.  The loop of inPortDataWriteNotify takes    *)
(* one action per port, because it calls the application, which may set    *)
(* and read ports before the loop goes on.                                 *)
(***************************************************************************)
EXTENDS DataVM, PortValues

CONSTANTS
    Nodes,      \* the definitions load() may be given
    Requires,   \* the elements of a node's require ports
    Provides,   \* the elements of a node's provide ports
    Offered(_), \* the values an application passes for an element
    Images,     \* contents of the file of require ports, by offset
    NoNode, NoWrite, NoFile, Unset,
    MaxLoads    \* bound: calls of load

\* A node's elements of one direction.
IsDefinition(elements) ==
    /\ elements \in Seq({elements[p] : p \in DOMAIN elements}) /\ elements # <<>>
    /\ \A p \in DOMAIN elements : IsElement(elements[p])

ASSUME Definitions ==
    /\ MaxLoads \in Nat
    /\ NoNode \notin Nodes /\ NoWrite \notin [offset : Nat, data : Seq(Byte)]
    /\ \A n \in Nodes : IsDefinition(Requires[n]) /\ IsDefinition(Provides[n])
    /\ \A n \in Nodes : \A p \in DOMAIN Provides[n] :
         \A v \in Offered(Provides[n][p]) : IsVariant(v) /\ v # Unset
    /\ \A image \in Images : image \in Seq(Byte)

VARIABLES
    mNode,
    mInPortDataElements, mOutPortDataElements, \* offset and length of every port
    mInPortUnpackProg, mOutPortPackProg,       \* byte code of every port
    mInPortDataMap,       \* for every byte of the file, the port it belongs to
    mInPortDataFile, mOutPortDataFile,         \* their bytes
    notifying,            \* offset and data left to inPortDataWriteNotify
    fault,                \* a port map was written beyond its end
    \* seen by the application, kept for the properties
    loads, lastSet, call, written, notified

ports == <<mNode, mInPortDataElements, mOutPortDataElements, mInPortUnpackProg,
           mOutPortPackProg, mInPortDataMap, fault, loads>>
inside == <<mInPortDataFile, notifying, written, notified>>
outside == <<mOutPortDataFile, lastSet, call>>
vars == <<ports, inside, outside>>

NoCall == [port |-> 0, value |-> Null, exception |-> "NONE"]

Init ==
    /\ mNode = NoNode
    /\ mInPortDataElements = <<>> /\ mOutPortDataElements = <<>>
    /\ mInPortUnpackProg = <<>> /\ mOutPortPackProg = <<>>
    /\ mInPortDataMap = <<>>
    /\ mInPortDataFile = NoFile /\ mOutPortDataFile = NoFile
    /\ notifying = NoWrite /\ written = NoWrite /\ notified = <<>>
    /\ fault = FALSE
    /\ loads = 0 /\ lastSet = <<>> /\ call = NoCall

Idle == ~fault /\ mNode # NoNode

\* Where each port's bytes end; the ports lie one behind the other.
Ends(elements) == Sums([p \in DOMAIN elements |-> PackLen(elements[p])])

TotalLen(elements) == Ends(elements)[Len(elements)]

\* The PortDataElements of a node's ports, one behind the other.
PortDataElements(elements) ==
    [i \in DOMAIN elements |->
       [offset |-> Ends(elements)[i-1], length |-> PackLen(elements[i])]]

PackUnpackProgs(dir, elements) ==
    [i \in DOMAIN elements |->
       [vtype |-> VType(elements[i]), prog |-> GenData(dir, elements[i])]]

\* Every element of the list gets an entry for each of its bytes.
PortDataMap(list) ==
    LET ends == Sums([i \in DOMAIN list |-> list[i].length])
    IN  [k \in 1 .. ends[Len(list)] |-> CHOOSE i \in DOMAIN list : ends[i-1] < k /\ k <= ends[i]]

Zeros(n) == [i \in 1 .. n |-> 0]

\* load(): cleanup() and processNode().  cleanup() clears neither the lists of ports
\* nor those of byte code, so the new entries come behind the old ones, and the port
\* map, made for the length of the new file, is filled from the start of the list.
Load(n) ==
    /\ ~fault /\ loads < MaxLoads /\ notifying = NoWrite
    /\ loads' = loads + 1
    /\ mNode' = n
    /\ mInPortDataElements' = mInPortDataElements \o PortDataElements(Requires[n])
    /\ mOutPortDataElements' = mOutPortDataElements \o PortDataElements(Provides[n])
    /\ mInPortUnpackProg' = mInPortUnpackProg \o PackUnpackProgs("UNPACK", Requires[n])
    /\ mOutPortPackProg' = mOutPortPackProg \o PackUnpackProgs("PACK", Provides[n])
    /\ mInPortDataFile' = Zeros(TotalLen(Requires[n]))
    /\ mOutPortDataFile' = Zeros(TotalLen(Provides[n]))
    /\ mInPortDataMap' = PortDataMap(mInPortDataElements')
    /\ fault' = \/ Len(mInPortDataMap') > Len(mInPortDataFile')
                \/ Len(PortDataMap(mOutPortDataElements')) > Len(mOutPortDataFile')
    /\ lastSet' = [p \in DOMAIN Provides[n] |-> Unset]
    /\ call' = NoCall
    /\ written' = NoWrite /\ notified' = <<>>
    /\ UNCHANGED notifying

Overwritten(file, offset, data) ==
    SubSeq(file, 1, offset) \o data \o SubSeq(file, offset + Len(data) + 1, Len(file))

\* The kind of value exec() is called with must be that of the port.
Convertible(v, vtype) ==
    CASE vtype = "MAP" -> v.kind = "map" [] vtype = "LIST" -> v.kind = "list" [] OTHER -> TRUE

\* writeProvidePortRaw: the bytes go to the port's place in the file.
WriteProvidePortRaw(p, bytes) ==
    mOutPortDataFile' =
      IF mOutPortDataElements[p].length = Len(bytes)
      THEN Overwritten(mOutPortDataFile, mOutPortDataElements[p].offset, bytes)
      ELSE mOutPortDataFile

\* setProvidePortValue: by the application, or by its handler during a
\* notification.  It throws what call records as exception.
SetProvidePortValue(p, v, junk) ==
    /\ Idle /\ p \in DOMAIN mOutPortPackProg
    /\ LET info == mOutPortPackProg[p]
           vm == IF Convertible(v, info.vtype)
                 THEN Exec(info.prog, info.vtype, <<>>, v, junk)
                 ELSE [exception |-> "INVALID_VARIANT_TYPE"]
       IN  /\ call' = [port |-> p, value |-> v, exception |-> vm.exception]
           /\ IF vm.exception = "NONE"
              THEN WriteProvidePortRaw(p, vm.raw) /\ lastSet' = [lastSet EXCEPT ![p] = v]
              ELSE UNCHANGED <<mOutPortDataFile, lastSet>>
    /\ UNCHANGED <<ports, inside>>

\* getRequirePortValueInternal on bytes that begin with the port's: the machine's
\* final state, with an exception when there is no value.
UnpackPort(p, data) ==
    LET info == mInPortUnpackProg[p]
        fresh == CASE info.vtype = "MAP" -> Map(<<>>) [] info.vtype = "LIST" -> List(<<>>)
                   [] OTHER -> Null
    IN  Exec(info.prog, info.vtype, data, fresh, 0)

\* getRequirePortValue
GetRequirePortValue(p) ==
    LET port == mInPortDataElements[p]
    IN  UnpackPort(p, SubSeq(mInPortDataFile, port.offset + 1, port.offset + port.length))

\* InputFile::write within the file, and the start of inPortDataWriteNotify.
WriteInFile(offset, data) ==
    /\ Idle /\ notifying = NoWrite
    /\ Len(data) > 0 /\ offset + Len(data) <= Len(mInPortDataFile)
    /\ mInPortDataFile' = Overwritten(mInPortDataFile, offset, data)
    /\ written' = [offset |-> offset, data |-> data]
    /\ notifying' = written'
    /\ notified' = <<>>
    /\ UNCHANGED <<ports, outside>>

\* The port whose turn it is, and what is left behind it.
PortNotified == mInPortDataMap[notifying.offset + 1]

Behind(write, n) ==
    IF Len(write.data) > n
    THEN [offset |-> write.offset + n, data |-> SubSeq(write.data, n + 1, Len(write.data))]
    ELSE NoWrite

\* Fault: the bytes of a port that was notified stay in the data.
Advance_keeps ==
    LET n == mInPortDataElements[PortNotified].length IN
    /\ notifying # NoWrite
    /\ notifying' = IF n < Len(notifying.data)
                    THEN [offset |-> notifying.offset + n,
                          data |-> SubSeq(notifying.data, 1, Len(notifying.data) - n)]
                    ELSE NoWrite

\* Fault: a port of which the end is missing does not end the loop.
Advance_waits ==
    LET n == mInPortDataElements[PortNotified].length IN
    /\ notifying # NoWrite
    /\ notifying' = IF n <= Len(notifying.data) THEN Behind(notifying, n) ELSE notifying

\* How the loop goes on.  A write that begins inside a port is taken for one that
\* begins with it; a port of which the end is missing ends the loop.
Advance ==
    LET n == mInPortDataElements[PortNotified].length IN
    /\ notifying # NoWrite
    /\ notifying' = IF n <= Len(notifying.data) THEN Behind(notifying, n) ELSE NoWrite

\* One round of the loop of inPortDataWriteNotify.  A port that cannot be unpacked is
\* passed over in silence.
NotifyPort ==
    /\ Idle /\ Advance
    /\ LET port == mInPortDataElements[PortNotified]
           vm == UnpackPort(PortNotified, notifying.data)
       IN  notified' = IF port.length <= Len(notifying.data) /\ vm.exception = "NONE"
                       THEN Append(notified, [port |-> PortNotified, value |-> vm.value])
                       ELSE notified
    /\ UNCHANGED <<ports, outside, mInPortDataFile, written>>

Next ==
    \/ \E n \in Nodes : Load(n)
    \/ \E p \in DOMAIN lastSet, junk \in {0, Radix - 1} :
         \E v \in Offered(Provides[mNode][p]) : SetProvidePortValue(p, v, junk)
    \/ \E image \in Images :
         \E first, last \in DOMAIN image :
           first <= last /\ WriteInFile(first - 1, SubSeq(image, first, last))
    \/ NotifyPort

\* A loop that was entered goes on: its calls of the application return.
Spec == Init /\ [][Next]_vars /\ WF_notifying(Advance)
-----------------------------------------------------------------------------
(* Properties. *)

\* The bytes of port p in a file of ports with these elements.
Place(file, elements, p) ==
    SubSeq(file, Ends(elements)[p-1] + 1, Ends(elements)[p])

TypeOK ==
    /\ mNode \in Nodes \cup {NoNode} /\ fault \in BOOLEAN /\ loads \in 0 .. MaxLoads
    /\ Len(mInPortUnpackProg) = Len(mInPortDataElements)
    /\ Len(mOutPortPackProg) = Len(mOutPortDataElements)
    /\ mNode # NoNode =>
         /\ mInPortDataFile \in Bytes(TotalLen(Requires[mNode]))
         /\ mOutPortDataFile \in Bytes(TotalLen(Provides[mNode]))
    /\ notifying # NoWrite =>
         notifying.offset + Len(notifying.data) <= Len(mInPortDataFile)

\* Whatever was set, failed and set again, in the application or during a
\* notification: every provide port has the bytes of the last value it was set to,
\* and of no other.
OutFileHoldsValues ==
    ~fault /\ mNode # NoNode =>
      \A p \in DOMAIN lastSet :
        LET e == Provides[mNode][p]
            bytes == Place(mOutPortDataFile, Provides[mNode], p)
        IN  IF lastSet[p] = Unset THEN bytes = Zeros(PackLen(e))
            ELSE Holds(bytes, e, lastSet[p])

\* setProvidePortValue throws exactly for values of the wrong kind and for ports
\* whose elements byte code cannot pack.
ThrowsExactly ==
    call # NoCall =>
      LET e == Provides[mNode][call.port] IN
      call.exception = "NONE" <=> Packable(e) /\ Fits(e, call.value)

\* At any time getRequirePortValue returns what the bytes of the port in the file
\* say, or fails where byte code cannot unpack the element.
ReadsAgree ==
    ~fault /\ mNode # NoNode =>
      \A p \in DOMAIN Requires[mNode] :
        LET e == Requires[mNode][p]
            vm == GetRequirePortValue(p)
        IN  IF Unpackable(e)
            THEN /\ vm.exception = "NONE"
                 /\ IsReading(Place(mInPortDataFile, Requires[mNode], p), e, vm.value)
            ELSE vm.exception # "NONE"

\* The ports that a write covers from their first byte to their last and that can be
\* unpacked.
Due(write) ==
    LET elements == Requires[mNode] IN
    {p \in DOMAIN elements : /\ write.offset <= Ends(elements)[p-1]
                            /\ Ends(elements)[p] <= write.offset + Len(write.data)
                            /\ Unpackable(elements[p])}

BeginsAtPort(write) == \E p \in DOMAIN Requires[mNode] : write.offset = Ends(Requires[mNode])[p-1]

NotifiedPorts == {notified[i].port : i \in DOMAIN notified}

\* A write that begins with a port makes the application see each port it covers,
\* once and in order, with the value that is in the file; none is passed over, and
\* when the loop is over, none is missing.
NotifiedCorrectly ==
    ~fault /\ written # NoWrite /\ BeginsAtPort(written) =>
      /\ \A i \in DOMAIN notified :
           LET p == notified[i].port IN
           /\ p \in Due(written)
           /\ \A q \in Due(written) : q < p => \E j \in 1 .. i - 1 : notified[j].port = q
           /\ \A j \in 1 .. i - 1 : notified[j].port < p
           /\ IsReading(Place(mInPortDataFile, Requires[mNode], p), Requires[mNode][p],
                        notified[i].value)
      /\ notifying = NoWrite => Due(written) = NotifiedPorts

\* Every notification loop ends, however the application uses its calls.
NotificationEnds == notifying # NoWrite ~> notifying = NoWrite

\* The assertion in getRequirePortValue (qapx_nodedata.cpp:77): one entry for each
\* require port of the node.
OneEntryPerPort ==
    mNode # NoNode => Len(mInPortDataElements) = Len(Requires[mNode])

\* packUnsignedArray on an array in a record (qapx_datavm.cpp:901) asks for the name
\* of a selected field: a record whose field has a name and a fitting list is packed.
NamedArraysPack ==
    call # NoCall =>
      LET e == Provides[mNode][call.port] IN
      /\ e.base = "REC" /\ \A i \in DOMAIN e.fields : e.fields[i].elem.base \notin Signed
      /\ Fits(e, call.value)
      => call.exception = "NONE"
=============================================================================
