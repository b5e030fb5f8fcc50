# qt-apx in TLA+

qt-apx is a Qt client for APX, a protocol that exchanges the values of *ports*
between nodes and a server. A node's provide ports live in a file `name.out`,
its require ports in `name.in`, its definition text in `name.apx`; the
RemoteFile layer mirrors these files between client and server over a socket.
This directory specifies that system, model-checks it with TLC and proves with TLAPS
the placement of files, the safety of the connection and of its receive loop, the coding of
messages, the mirroring of files between client and server that rests on them, the
coding of port values with the notifications of their changes, and that messages come out of
the stream parser as they were composed.

## 1. The system

Everything runs in one thread, the Qt event loop. Signals between the
components are direct connections: a signal is a call. What interleaves are the
events the loop delivers (socket, timer), the calls of the application, and the
server at the other end of the connection. The release build is specified, in which
`Q_ASSERT` is compiled out; the stream parser, which computes inside assertions, is
specified in both builds.

| Component (files) | State | Operations | Interacts with |
|---|---|---|---|
| **FileMap2, Apx::FileMap** (`qrmf_filemap2.cpp`, `qapx_filemap.cpp`) | `mFiles` in address order, `mLastFileIndex`, iterator | `insert`, `assignFileAddress`, `findByAddress`, `clear`, `iterInit`/`next` | owned twice by FileManager |
| **SocketAdapter** (`qrmf_socketadapter.cpp`) | socket type and socket, reconnect timer, `mErrorCode`, `m_isAcknowledgeSeen`, receive buffer and `mRxPending`, send buffer | `connectTcp`, `connectLocal`, `close`, `getSendBuffer`/`send`, slots for connected, disconnected, error, readyRead, timeout | socket below, receive handler (FileManager) above |
| **FileManager** (`qrmf_filemanager.cpp`) | local and remote map, requested files, transmit handler | `attachLocalFile`, `requestRemoteFile`, `onConnected`, `onDisconnected`, `onMsgReceived` (FILE_INFO, FILE_OPEN, WRITE_DATA), `outPortDataWriteNotify`, `onMessage` | SocketAdapter, files |
| **File, InputFile, OutputFile** (`qrmf_file.cpp`, `qapx_file.cpp`) | address, length, `isOpen`, data | `read`, `write`; a write of an output file notifies FileManager, of an input file NodeData | |
| **Client** (`qapx_client.cpp`) | owns NodeData, FileManager, SocketAdapter | `createLocalNode`, `connectTcp`, `close`, `setProvidePortValue` | application |
| **NodeData** (`qapx_nodedata.cpp`) | node, data files, byte code per port, port maps | `load`, `setProvidePortValue`, `getRequirePortValue`, `inPortDataWriteNotify` | compiler, virtual machine, files |
| **DataCompiler, DataVM** (`qapx_compiler.cpp`, `qapx_datavm.cpp`) | machine state and its stack | `genPackData`, `genUnpackData`, `exec` | NodeData |
| **Message formats, NumHeader** (`qrmf_proto.cpp`, `qnumheader.cpp`) | none | pack and unpack | FileManager, SocketAdapter |
| **APX stream** (`qapx_stream.cpp`) | unparsed bytes, parse state, exception flag | input: `open`, `close`, `write`, `reset`; output: one operation per message | event handler |
| **Definition parsers** (`qapx_bytearrayparser.cpp`, `qapxfileparser.cpp`, `qapxdataelement.cpp`, ...) | the node under construction | `parseNode`, a handler per event, data signatures and attributes | stream below, NodeData above |
| **qscan** (`qscan.cpp`) | none | searches in a range of characters | stream and parsers |

What is hard:

* *Addresses.* The map places files between others whose addresses it did not
  choose, in 32-bit arithmetic; a lookup starts from a cached index.
* *Connections.* Several paths end a connection (error, remote close, bad data,
  `close()` from the application or from inside a callback of the parse loop);
  each must lead back to a connection, and a timer must not disturb a live one.
* *Segmentation.* Messages arrive in any pieces; the remains of a connection stay
  in the buffer.
* *Races of content and writes.* FILE_INFO, FILE_OPEN, whole content and single
  writes cross on the wire while `isOpen` decides what is sent and what is applied,
  and disconnections reset only a part of the state.
* *Streams.* Text and data messages arrive in any pieces in one buffer that is parsed from
  its start each time, by loops that hold pointers into it while a reset may clear it.
* *Coding messages.* Lengths and addresses have two forms each, with edges that both sides
  must draw alike.
* *Coding values.* Byte code for arrays and records, values that fail halfway, writes
  that cover ports in part, a handler that sets ports from inside a notification.

`PROJECT.json` lists each of these hazards at its line with the properties that
cover it, or the reason why none does yet.

## 2. Modules

```
FileMapOps ---- FileMap2 ---- MCFileMap2
     `-- FileManager -- ApxSystem -- ApxInvariant -- MCApxSystem
            |               `- INSTANCE Mirror
NumHeader -- RmfProto
SocketAdapter --- MCSocketAdapter
DataElement -- DataCompiler -- DataVM -- NodeData -- MCNodeData
     `------------ PortValues ------------'
TextScan -- OStreamBuf -- IStreamBuf -- ApxStream -- MCApxStream
    `------------- SignatureParser ---------'
```
(FileManager EXTENDS both FileMapOps and RmfProto.) The proofs EXTEND what they are about and
one another:

```
ListLemmas -- FileMapOps_proofs ---- FileMap2_proofs
      |              `-- FileManager_proofs -- ApxSystem_proofs
      |-- NodeData_proofs
      `-- ApxStream_proofs
SocketAdapter_proofs
```

**FileMapOps** holds the file map without state: `Area` (which addresses a file's
suffix selects), `AssignFileAddress`, `InsertDefault`, `LookupIndex`. The list
`mFiles` is a sequence; `mAddress` is a function because one File object is
shared by the map, the request list and its owner. `(x + b-1) & ~(b-1)` is
rounding to a multiple, as the boundaries are powers of two; sums are modulo
`WordSize`. Indices start at 1 and 0 stands for `mLastFileIndex = -1`.

**FileMap2** is the map as a state machine: files with an address
(`InsertPlaced`, an announced file) and without one (`InsertNew`), `FindByAddress`,
`Clear`. A file enters once (`used`). `FindOutOfRange` is `QList::at` with the
index that `clear()` left behind: it sets `fault`, after which nothing happens.

**SocketAdapter** is the connection, its timer and the receive loop. One handler is
one action, except that the loop of `parseRemoteFileData` takes one action per
message, since it calls the receive handler, which may call `close()`; no other
event is handled in between (`parsing`). Bytes are cells. A length up to
`ShortLimit` is one cell, a longer one two, which keeps the partial header. When a
length is beyond the limit its header stays at the front of the buffer and nothing
behind it is ever read, so the model keeps the header only.
The socket is external: `close()` disconnects at once or, with data to write,
later (`closing`), and takes effect after the attempt when it is connecting.
Onto the code: `Receive` is `onReadyread` and the read, `ParseAck`, `ParseNotAck`,
`Deliver` the three outcomes for a complete message, `ParseError` a refused one
with the `close()` it leads to, `ParseEnd` the end of the loop.

**NumHeader** and **RmfProto** are the codecs: the length in front of a message (32-bit and
16-bit format) and its body, an address header and, behind the command address, a command.
A byte has `Radix` values and its two highest bits are `LongBit` and `MoreBit`, so that all
limits follow from `Radix` as those of the code follow from 256. A function that writes gives the
bytes and their number, 0 when there is no room and -1 when the number is too large, as in
the code.

**FileManager** has one action body per message and per call: `HandleInfo`,
`HandleOpen`, `HandleWrite`, `HandlerConnected`, `HandlerDisconnected`,
`CreateLocalNode`, `OutputFileWrite`. `Transmit` is `getSendBuffer` followed by
`send`: the length it asks a buffer for, the bytes `onMessage` packs and the length header of
`send`. On the wire a message is the record that is packed; whoever receives it works on
what unpacking its bytes gives (`Received`), so an error in a codec reaches the file
maps, the files and the properties about them. `mSendBuffer` is the length of the buffer. `history` and `version` are kept for the
properties: the states a file has had at its owner, and which of them the other
side holds; a WRITE message carries the number of the state it brings.

**ApxSystem** joins the client with a server over connections that deliver in order
while they last and lose everything when they break. The link is `down`,
`connecting`, `connected` (greeting written) and `up` (acknowledged). The server is
external and modelled from what the client expects of it: it acknowledges the
greeting and closes on anything else, opens every file the client announces,
announces its own files once per connection at disjoint addresses, sends a file in full
when the client opens it and write by write afterwards, and applies writes to files
it has opened. The parse loop is not repeated here: SocketAdapter shows that
messages reach the handler whole and in order.

**Mirror** is the promise to the application, for any number of files and
contents: a replica is a state its owner has had, never goes back while the
connection lasts, and is forgotten when it breaks. ApxSystem implements it; the
mapping takes `history` and `version` as they are and `shown` from the replica's
bytes, so that each step of the system is a write, a synchronisation of one file, a
loss or a stutter.

**ApxInvariant** says why: what holds in every state of the session, the announcements on
both sides, the files that are open and the writes under way in each queue (section 4). TLC
checks three of its parts in the run `client`; `ApxSystem_proofs` proves all of it.

**IStreamBuf** is `QApxIStreamBuf`. `Write` puts a chunk in the buffer; the loop of `write()`
and that of `parseDataMsg` then take one action per line or message (`EmptyLine`,
`HeaderLine`, `FirstLine`, `DiscoveryLine`, `Declaration`, `BadFirstDeclaration`,
`BadDeclaration`, `OtherLine`, `EnterData`, `Message`, `Incomplete`, `LeaveData`,
`WriteEnd`), as each calls the event handler. A cell is a character, a header byte of a
data message or a byte of a number; `bytes` and `pos` stand for the pointers and `m_buf` for
the buffer, which differ once `reset()` has cleared the buffer in the loop. Whether that frees the
bytes depends on who else holds them (`shared`): `QByteArray` shares a chunk appended to an empty
buffer. `asserts` is the build; a failing assertion ends in `aborted`, reading freed bytes in
`undefined`. **OStreamBuf** is what `QApxOStreamBuf` appends for each message, and
**TextScan** the functions of `qscan` on positions in a text.

**SignatureParser** parses data signatures and attributes and has the handlers by which
both definition parsers build a node: `ByteArrayHandler` and `FileHandler` map a node and
an event to the next node.

**ApxStream** has the users of a stream: `Apx::ByteArrayParser` (the text in one `write`),
`QApxFileParser` (line by line, or no file at all), and a peer whose messages arrive as
they were sent (`link`) or in any pieces (`pieces`). `Described` is what a text means, from the
declarations it was put together from and without any parsing; `Meaning` does the same for
messages.

**DataElement** is what a data signature describes: an integer, an array of integers,
a string or a record of these, with its packed length, and the values (`QVariant`) that
stand for it. A byte has `Radix` values; texts are sequences of bytes. `IsElement` says which
elements a signature can spell and byte code describe, `IsVariant` what a value may be.

**DataCompiler** and **DataVM** are the two halves of value coding: the byte code for an
element and the machine that executes it. An operation is a record, its extra bytes are
fields. A machine state is a record of value, selected field, array index, bytes, position
and exception; each operation maps a state to the next one. The state stack is not a
variable, as every pop follows its own push and what an exception leaves there is never
read. `junk` is what `resize()` leaves in the bytes it adds.

**NodeData** has both data files as bytes, the places and byte code of their ports and the
port map. `SetProvidePortValue`, `WriteInFile` and `Load` are calls; the loop of
`inPortDataWriteNotify` takes one action per port (`NotifyPort`, where `Advance` is how the
loop goes on), because the handler it calls may set ports and read ports before the next
round. `lastSet`, `call`, `written` and `notified` are what the application did and saw.

**PortValues** says what the bytes of a port mean without byte code or machine: `Holds`
(bytes of a value), `IsReading` (value of bytes), `Fits` (accepted values), `Packable` and
`Unpackable` (elements the code supports at all). It is the reference for NodeData's
properties and not a model of code. Loops over fields, items, operations and ports are
recursive functions over their indices (`Sums`, `ItemStates`, `ProgStates`), which the
provers can reason about.

Definitions named `X_y`, after the comment "Fault", are changed forms of `X`. No
other definition uses them: each shows that a property notices the error.

## 3. Runs

| Run | Module, cfg | Result | Shows |
|---|---|---|---|
| `filemap` | MCFileMap2, FileMap2.cfg | pass | order, disjointness, alignment, the command area and lookups, over all orders of insertions, lookups and `clear` |
| `filemap_area` | FileMap2Area.cfg | violated | a file is placed outside the area it was meant for |
| `socket` | MCSocketAdapter, SocketAdapter.cfg | pass | reassembly, the timer and the acknowledge, safety and liveness |
| `socket_stale_rx` | SocketAdapterStale.cfg | violated | after one oversized length no reconnect helps |
| `client` | MCApxSystem, ApxSystem.cfg | pass | replicas are past states of their files and catch up once the connection stays; refinement of Mirror; all through bytes |
| `client_greeting` | ApxSystemGreeting.cfg | violated | a write overtakes the greeting of the next connection |
| `client_send_room` | ApxSystemRoom.cfg | violated | a message is refused because its length header has no room |
| `stream` | MCApxStream, ApxStream.cfg | pass | nodes are what their text describes, as far as it goes; messages arrive in order and complete |
| `stream_partial` | ApxStreamPartial.cfg | violated | a text that was cut off inside a declaration is accepted |
| `nodedata` | MCNodeData, NodeData.cfg | pass | bytes, values read and values notified agree with PortValues; the notification loop ends |
| `nodedata_reload` | NodeDataReload.cfg | violated | a second `load` keeps the entries of the first |
| `nodedata_array` | NodeDataArray.cfg | violated | a record with an array cannot be packed |

The seven violated runs are findings, each against a comment of the code, an assertion or a
test that `PROJECT.json` quotes.

**filemap**: six files (two port files, a definition, a user file and two that the
server may have placed, inside or outside the areas), three areas of 16 bytes
with boundaries of 2 and 4, 8-bit addresses. Several files per area, full areas,
files behind a predecessor from another area and gaps of less than a boundary occur.
`NoOverlap` and `BelowCommandArea` speak of maps whose addresses were all chosen
(the local map): files placed by the server are where the server wants them.
`LookupCorrect` compares each answer with a search of the whole list.

**socket**: up to three messages per connection (the acknowledge and two of a
short, a long, a refused and an oversized one), any number of connections, every
cut of their bytes, two calls of connect. Read from its second cell on, the modelled
acknowledge looks like an oversized message, as the real one does (`BF FF FC 00`):
bytes that survive a disconnection can thus be misread in the worst way.
`NeverStranded` is an invariant: a TCP adapter that is not connected has its timer
running. `TimerOnlyDown` and `UpMeansAcknowledged` are stated for an application
that calls connect once; a second call on a live connection does make the adapter
forget the acknowledge. `InOrder`, `NothingWaits` and `Acknowledged` are stated for
connections that begin with an empty buffer; `socket_stale_rx` is about the others.

*Fairness of SocketAdapter.* The event loop runs what is due: weak fairness for the
timer, for the disconnection of a closing socket, for reads and for the parse loop.
An attempt to connect is answered (weak), and among infinitely many attempts one
succeeds (strong fairness of `OnConnected`): without it no client can ever
connect. The server sends its acknowledge (weak). Nothing is assumed of the
application or of when connections break.

**client**: a node with a file of provide ports (two bytes), a definition and a
file of require ports (two bytes), a server that also announces a file nobody
requested, one write to each port file, at either byte, any number of connections.
With one write per file, each of the three orders of write, open and content occurs,
and so do both files in one map with partial writes at an offset. The definition
file is written only when it is created. A byte has eight values: two-byte addresses end
at 16, where the definition file is placed, so both forms of address occur, those of
length as well, and the command area starts at 992. Names have one byte and
the digest none (their sizes do not matter to the codec, see the proofs); files end
below 40 (`USER_DATA_END`). Each queue is checked to be what the proofs need:
`ServerAnnounced` (the remote map holds files of this connection, each once and at its
announced address), `ToServerCarried` and `ToClientCarried` (the writes under way bring one
state after the other, up to the last). `client_send_room` has 32 values in a byte and the sizes of the code
for digest and names, since its question is one of lengths.

*Fairness of ApxSystem.* Weak fairness of `Progress`: while something is due (a
message to handle, a file to announce or open, a connection to make) something
happens. This suffices because due steps other than the loss of the connection run
out between two calls of the application. `Converges` assumes that the connection
is eventually never down again, and excludes three cases in which the code does
stop: a lookup out of range, a message refused by `send`, and a node created on a
connection that is already up, whose files are announced only after the next
reconnect.

**stream**: the definition texts have a name, types, ports that refer to the first, the last and
no type, ports with signatures of each kind and each form of initial value, versions
that the parser knows and does not, broken lines, and questions and answers among the
declarations. Each is cut at every character and given to both parsers, in builds with
and without assertions. Numbers have six values per byte: data of less than 5 bytes has its
length in the opcode, 5 takes one byte, 6 to 35 two, and 36 and more four; each is sent, by
each kind of message, in up to two transmissions. Data messages in pieces are cut everywhere.
What is asked of pieces is what the code can give: a message may come out again while
one behind it is incomplete (`NoMessageSkipped`); in whole transmissions each comes out
once (`Delivered`). *ParsedAsDescribed* holds in both builds although declarations are
taken apart inside `Q_ASSERT`; the attribute alone keeps its colon in a release build, which the
parser of initial values ignores.
`Defined` is about the pointers that outlive `reset()`: the bytes they point at stay alive
because the caller still holds the chunk.

Places where the code does something else than names suggest, modelled as they are:
`opInvoke` and `opReturn` compose a write (`qapx_stream.cpp:773-781`), an answer with a node
name is parsed and not handed out, a text of an unknown version gives an empty node
rather than none.

*Fairness of ApxStream.* A call of `parseDataMsg` goes on (weak fairness of `DataLoop`), since
it is a loop in which nothing blocks. Nothing is assumed of chunks, calls or the text loop, about
which no liveness is stated.

**nodedata**: bytes of four values. Node *sender* provides a signed number of two bytes,
a text, a record of number and text, an array, and two ports that byte code cannot pack (a
signed array, a record with an array); node *receiver* requires a signed number, a record
with an array, a signed array, which cannot be unpacked, and a text. Offered values are in
range and out of it, too short, too long, of the wrong kind and without a field. Every
range of the receiver's file is written, with two contents, and each node has one port in
the other direction so that sets and reads fall between the rounds of the loop. The two
nodes share a run instead of being one, since the product of both directions adds
states and no interaction: a set touches the file of provide ports, a write the other one.
`ThrowsExactly` and `OutFileHoldsValues` together say that `setProvidePortValue` is
atomic. `NotifiedCorrectly` is stated for writes that begin with a port; for others the
code decodes bytes of one port as another's from its first byte on, and the repository does not
say that a server may send them. The two violated
runs need no more than node *named*, which provides one record with an array.

*Fairness of NodeData.* A loop that was entered goes on: weak fairness of `Advance`. This is
a call returning, with the one assumption that the application's handler returns. Nothing
is assumed of the application's calls.

Deadlock is checked in the socket runs and in `nodedata` and `nodedata_array`. It is off for
`nodedata_reload` (the second load ends in `fault`), for ApxStream (a parser returns, a peer
stops sending, an assertion ends the program), for FileMap2 (every file has been
inserted, or `fault`) and ApxSystem (after `fault` nothing happens).

## 4. Proofs

`FileMap2_proofs` proves, for every set of files, all lengths, areas and
boundaries that satisfy `AddressAreas`, `Files` and `Callers`:

* `Invariant`: `Spec => []IInv`, and from it
* `TypeCorrect` (every file of the list has an address), `ListSorted`, `FilesDisjoint`,
  `CommandAreaFree`, `AddressesAligned`: the five invariants of the run `filemap`;
* `LookupsCorrect`: the action property of that run.

The assumptions: areas follow one another in the lowest quarter of the address
space and start at multiples of their boundary, a boundary is less than a quarter
of the address space, a file has at least one byte and at most half an address space.
The code's constants satisfy them; a file of no bytes is not created
(`qapx_nodedata.cpp:358-366`).

The argument: `insertDefault` puts a file behind all with an address not greater, so
the list stays in order. `assignFileAddress` rounds up the end of the predecessor
and refuses a file that would reach its successor, so the new file lies between the
two, and by the order of the list it is apart from all others. The difficulty is the
limit it compares with: the code replaces the end of the area by the address of the
next file, which may be in another area, so "every file is in its area" is not
true (run `filemap_area`). What is inductive is weaker: `LastInArea`, the *last* file
is inside its own area. With it the case that nothing is at or above the area's
start is covered: all files then end below that start, because areas are apart.
`Members` ties the list to `used`, so a file that is inserted is not in it
already. `IInv` is these two and the five invariants. That every file of the list has an
address (`Addressed` in `TypeOK`, what `insertDefault` asserts) needs the check of
`assignFileAddressDefault`'s answer in `insert`: without it a file that finds no room goes
to the end of the list with the invalid address.

What this uses of the operators is in `FileMapOps_proofs` (rounding, areas, insertion,
address choice, the cached lookup), where FileManager finds it too, and `ListLemmas` holds
what is used about sequences: insertion at a position, the least of a set of positions,
loops written as recursive functions (`Kept`, `Iteration`), and what it means for a sequence to
stand in another or to be put together of pieces, which `ApxStream_proofs` needs.

`SocketAdapter_proofs` proves, for every message alphabet and limit and any number of
connections, messages and calls (`Lengths`, `Messages`):

* `TypeCorrect`: what the loop cuts out of the buffer is in the buffer, for every
  segmentation;
* `AlwaysRetries`, `TimerSafe`, `AcknowledgeKept`: the three safety invariants of the
  run `socket` about the timer and the acknowledge;
* `HandlerProtocol`: its action property, that messages come between `onConnected` and
  `onDisconnected`;
* `OrderKept` and `NoneWaits`: on a connection that began with an empty buffer, messages reach
  the handler whole and in the order in which they were sent, and none that is complete is
  left when the loop ends.

The argument: the three invariants are not inductive as they stand. They speak of an
application that has called connect at most once, so a first call must find no socket
(`NoCallNoSocket`). They also need to know on which socket the parse loop runs, since the handler it calls may close that
socket: it was entered on a connected one and stays on it until the handler has got
its first message (`LoopSocket`). `UpSocket`, `AckUp` and `LoopUp` then tie the
handler's belief to the socket: it believes in a connection only while there is one, and
an acknowledge seen on a live connection is known to the handler unless it closed the
connection itself. `NextControl` needs of the bytes only their type, and `NextType` of
the rest only `LoopSocket`, so the two halves are proved apart.

The order of messages has an invariant of its own, `Flow`, on top of that one. Its heart is
`Stream`: there is a number `k` of messages done with, such that the buffer and the bytes still
on the wire are together the first bytes of the frames of the messages behind `k` (`Carries`,
by a table of the places where frames end), all of them while the connection lasts. Reading
moves bytes from one part to the other, a step of the loop takes a whole frame off
(`CarriesNext`: the header at the front gives just the end of the first frame), a lost connection
cuts the bytes short. `SentShape` (the acknowledge comes first and once) tells a step that
finds the acknowledge from one that delivers, and `NotStuck` excludes the buffer that
begins with an oversized length, out of which nothing comes any more (run `socket_stale_rx`).
The assumption it adds is that no message of the server has the bytes of the acknowledge.

`FileManager_proofs` begins with the codecs. It proves, for every size of a byte that `ByteValues` admits (a multiple of 4, at
least 8), that what one side writes is what the other reads, whatever bytes follow:

* `Header32RoundTrip`, `Header16RoundTrip`: a length up to the limit of its format, for the 16-bit
  format with the codes of the lengths from 32768 to 32895;
* `HeaderRoundTrip`: an address below the limit with its more-bit, in the form of two bytes or
  of four;
* `CommandRoundTrip`: FILE_OPEN and FILE_CLOSE, and the refusal of one as the other;
* `FileInfoRoundTrip`: FILE_INFO with any digest size and any name shorter than
  `RMF_MAXLEN_FILE_NAME`.

The argument: both forms of a number are its digits to the base `Radix`, with a number `k` of
`MoreBit`s added to the first digit. The limits of the code say just that the first digit
is small enough for that (`MarkedDigits`: below `n` with `n + k <= Radix`), so reading gives
`k` times the place of the first digit plus the number, and the two parts are
told apart by a remainder. The edges, which a test has to hit one by one, are the
premise of that lemma. No run can go through lengths of 2^31; the runs of the client
use the same definitions with a small `Radix`, where every use of a codec is checked in its place.

On top of them it proves `MessageRoundTrip`: each message that a side sends, packed by
`onMessage`, framed by `send`, unframed and unpacked, is the message that was meant,
for every node, radix and address below the command area. It ends with what the operators of
FileManager do: `TransmitResult` (a message is appended, or dropped with
`dropped` set, or lost on a connection that is down), `SendAllResult`, `OverwriteContent`,
`CreatedMap` (the files that `createLocalNode` could place are in order and apart).

`ApxSystem_proofs` proves about client and server together, for every node, every set of
announced files, every bound on writes and any number of connections:

* `Invariant`: `Spec => []IInv`, where `IInv` is in `ApxInvariant`;
* `TypeCorrect`, `ReplicasCurrent`, `WritesArrive`, `RemoteMapCurrent`, `WritesToServer`,
  `WritesToClient`: the six invariants of the run `client`;
* `NodePlaced`: the node's files are apart, below the command area;
* `Mirrors`: `Spec => ImplementsMirror`, the refinement that the run checks.

The assumptions: `Node` (the node's files differ, no file is attached twice, its area ends below
the command area), `Sizeable` (a message is shorter than a length header can tell),
`Names`, and for the server `Server` and `ServerFiles` (what it announces are files of
different names at disjoint addresses below the command area, among them those
requested). A write puts its own number into the file, so that states can be told apart, which
bounds them by the values of a byte (`MaxWrites < Radix`; `Radix` may be any size).

The argument: `Snapshot` speaks of what has arrived, so the invariant has to say what is under
way. For one file and one queue that is `Chain`, about the writes in the queue whose
address lies in the file (`Targets`):

* each brings either the whole file in one of its states (`Whole`), or the byte that
  makes such a state of the one before it (`Single`);
* their states never go back, nor behind the state `r` of the replica, and what brings
  a state a second time is a whole file;
* a single byte finds the state before it in the queue ahead of it, or at the replica; or
  the replica has no state yet, and the byte counts for none (`Arrived`);
* the last of them brings the last state, or there are none and the replica has it.

The third part is where the code could go wrong. `isOpen` outlives the connection, so the
client sends single bytes to a server that has not opened the file, has not even been
greeted. They are harmless because the server ignores them or has no state to apply
them to, and because FILE_OPEN, when it comes, is answered with the whole file, which overtakes none of them;
`r = 0` in the invariant is this case. `Carried` puts the chains of all files in a queue
together: a write in the queue is one to an open file, and
files are apart, so handling a message changes the chain of one file only (`CarriedTaken`).
The first part of `ApxSystem_proofs` shows for each thing that can happen to a queue (a message taken, a whole file
appended, a byte appended, a state nobody is told of, a queue lost) that chains stay chains.

The other parts say that both sides mean the same file by an address. `Placed` and
`ClientAnnounced`: the client's files are apart and the server knows them by the
addresses they have. `ServerAnnounced`: a file of the server is either in a FILE_INFO under way,
once, or in the remote map as one of the two objects it may become (the requested file or
the new one). `Readers`: when FILE_OPEN is under way or has been handled, the client has the
file open and in its map, since one call of `processCmd` does both (`qrmf_filemanager.cpp:204-217`)
before the server can answer. `Session` orders greeting and acknowledge: nothing is on its way to the client
before the server was greeted, and the acknowledge is in front until it has been handled.
`Owned` says that the owner's file is the last of `history`, so that what FILE_OPEN is answered with
is the last state. `Typed` carries one fact besides types: a send buffer that exists has room for a write of
one byte, as no shorter message was ever sent. What `send` drops (run `client_send_room`) is
thus never such a write; when it is a whole file, the server's replica has no state
until the next connection.

The step simulation of Mirror then needs only `GhostStep`, which is proved with each action: a
step adds a state to one file, takes one replica to a state that is not older, loses all
replicas or leaves them.

`NodeData_proofs` begins with byte code and the machine that runs it. It proves that they keep the
promise of PortValues, for every size of a byte, every element `IsElement` admits and every value:

* `PackCorrect`: `exec` of an element's byte code with a value of its kind succeeds exactly when
  the element is `Packable` and the value `Fits`; then the bytes are as many as the
  element has and `Holds` is true of them;
* `UnpackCorrect`: `exec` with bytes, followed by any others, succeeds exactly when
  the element is `Unpackable`; then the value `IsReading` of the element's bytes.

The preconditions: the length of an array fits into its operand of 16 bits and that of
the element into its own, as otherwise the operation would speak of another length; a text
has room for at least one character; no two fields have one name. The last is
necessary and no weakness of the proof: a record whose name appears twice is packed, but
reading it back loses the first of the two.

The argument has a level for each loop. `IntBytesHold` and `FromBytesHeld` are about one number:
its bytes are digits to the base `Radix` of the number's residue, and a signed one is told by half the
range. `PackItem` and `UnpackItem` say of the operation for one item that the bytes from the
position on become (are read as) the item and the position moves behind it, that all other
bytes stay (`SameOutside`), and in which cases it raises an exception instead; for an
array that is an induction over its items. `PackRecord` and `UnpackRecord` are an induction over fields: the
areas of fields lie one behind the other (`FieldsOf`), so packing one leaves the
others as they are, and inserting one value in the map leaves the others because names differ. An
exception is permanent since the loops end with it. Induction over a length is
`Reached` throughout: a set of indices with 0 and the successor of each member has all of them.

Behind that it proves, for every node, every set of offered values, every content written
into the file of require ports, and calls that come between any two rounds of the notification loop:

* `Invariance`: `Spec => []IInv`;
* `TypeCorrect`, `ThrowsExactlyAlways`, `OutFileHoldsValuesAlways`, `ReadsAgreeAlways`,
  `NotifiedCorrectlyAlways`: the five invariants of the run `nodedata`.

The assumptions are `Sizes` (a byte has an even number of values, at least two) and
`Definitions`: a definition has at least one port in each direction, its elements are as above,
an offered value is a variant and contents are bytes.

The argument: `Loaded` says that after a load without fault all lists are those of the one
definition that was loaded. It holds because a second load never goes without fault:
the port map then has the bytes of both definitions and more entries than the file
has bytes (`MapOfBoth`; the run `nodedata_reload` shows it happening). Ports are areas one behind the
other (`PortsOf`), so a set that replaces the bytes of one leaves the others what they hold.
`ReadsAgree` follows from `UnpackCorrect` and types alone. `NotifiedCorrectly` is not inductive: it
does not say where the loop is. `Remaining` says that what is left is the end of what was
written, still has the file's bytes (sets in between touch the other file) and, if the write
began with a port, begins with one too. Then the port map gives just that port
(`AtTurn`), and either it is complete and the remainder begins with the next port
(`AdvanceTo`), or nothing that is left is complete. `NotifiedSoFar` puts this together: the
ports notified are those due whose end the loop has passed, each once and in order; when the loop
is over those are all.

`ApxStream_proofs` proves, for every definition text, every set of messages, every plan and any
number of transmissions, in both builds:

* `TypeCorrect`: no pointer of `write()` goes beyond the bytes it reads, and only a parser that
  has returned has a node;
* `DefinedAlways`: the loop of `write()` never goes on in bytes that `reset()` freed;
* `DeliveredAlways`: what a peer composes with `QApxOStreamBuf` comes out of `QApxIStreamBuf` as it
  was sent, each message once and in order, while transmissions stay in one piece;
* `NoMessageSkippedAlways`: of data messages in any pieces none is skipped or comes out wrong;
* `ParsedAlways`, `FileKeptAlways`, `LinesKeptAlways`: from a definition that `IsWellWritten`, wherever
  its text was cut, both parsers make the node it describes (*ParsedAsDescribed*,
  *FileKeepsTyped*, *CompleteLinesKept*).

The assumptions: `RadixAssumption` (a byte has 5 to 256 values), `Texts` (a definition text has the
characters of a byte), `Messages` and `DistinctPorts`. `Messages` says what `IsTextMessage` and
`IsDataMsg` spell out: a transmission is a header line, messages of one kind and an empty line, or it is
data messages whose numbers fit into their bytes; names have no quote and no backslash, as
they are put between quotes as they are; signatures have no colon, which separates them
from attributes; no text has the end of a line. Where one of these fails the code does not give
back what was sent.

The argument begins with one message. `DataMsgIs` says how the parser's three steps (the length type in the
header byte, the length behind it, the payload) find the parts of what `DataMsg` put together, in
each of the four forms of a length; `MessageFound` that a message is complete exactly when all its
cells are there, and that it is then handed out as it was meant. `DeclarationIs` does this for a
declaration line: the name ends at its own quote, the signature at the colon, and the attribute
is what is behind it. `MessageLine` says which state of the parser each line of a text message may
meet (`Suits`) and what it emits there.

* `PiecesInv`, for data messages in pieces: the buffer has what arrived behind the first `k`
  messages, and it has been read as far as the first `j` of them (`Holds`, `ReadTo`). An incomplete message
  leaves its own bytes and those of *all* messages of this round in the buffer, so they are handed out again: `k` stays
  while `j` returns to it. That is why `NoMessageSkipped` says no more than it does. `Follows` keeps the
  order: an event is of the first message or has the one of the message before it ahead of it.
* `LinkInv`, for transmissions in one piece: the first `w` have been passed to `write()`, the others
  wait; of the last one the first `j` messages have been read and handed out (`Reading`), in a state that suits the
  rest, or all has been read and the parser is back at its start (`AllRead`). The empty line
  at the end of a text message is what brings it there: without it the next transmission would be read
  as more of the same text.
* `ParsersInv`, for the parsers of definitions: `Apx::ByteArrayParser` writes once, into an empty buffer,
  so its bytes are shared and survive `reset()` (`OneWrite`); of a file the lines come without their
  ends, so nothing is left behind the line at which `reset()` clears the buffer (`NoLineEnds`).
  The other two users are in `LinkInv` (the buffer is always empty when a transmission arrives) and
  `PiecesInv` (no data message is a line). `Defined` is the conjunction of what the four users know: no
  property of `QApxIStreamBuf` alone would do, as its `reset()` does free what the loop reads when a second
  chunk was appended.

The theorems about nodes have a hypothesis because the model's definitions are any texts beside
any descriptions, and some describe something else than they say. `IsWellWritten` tells what a text has to be
for its description to be true: the version is 1.2 to 1.9; each line is a comment or is put together
from a name without quote and backslash, a signature without a colon and an attribute
(`DeclarationText`), and describes an item of that name, with the element of its own signature or of the type
it refers to and the initial value of the attribute (`DeclaresType`, `DeclaresPort`), or nothing when the type it
refers to is not there; there is one line with the node's name. Elements and initial values are
told by `ParseDataSignature` and `AttrInit`, the parsers of section 2, so what is proved is that
lines, names, order, references and the two parsers' handlers do not lose or mix up anything;
what a signature means is for the run, which has the elements written out. `Doors` and `Later` of
the run are well written.

The argument has three parts. *Text*: a definition text is the header and its lines, each with its end
(`TextOfRows`); a text that was cut has `r` of them whole and a piece of the next (`Ahead`, `TextHolds`), and
`CompleteLines` is `r` without the header (`CompleteAre`). What `readLineInto` makes of it are
the same `r` lines and, unless the cut is behind an end, the piece as a line of its own
(`LinesOfFile`, an induction over the bytes: `Split`). *Line*: the parser in a state that takes declarations
emits the event of the line and moves behind it (`RowRead`), and the handler adds to the node what
the line describes (`MatchesPut`, `PortTreated`); a piece of a line adds what it may, one item at most
(`PartOfRowRead`). `Gathered` says that the events so far make a node that `Matches` the first `k` lines;
`Nearly` that it `Covers` them. *Parser*: `ByteArrayRead` is about one loop over the whole text, which
has come to the end of some line `j`; `FileRead` about a loop for each line, with the
remaining ones still to be written (`BetweenLines`, `AtRow`, `AtPart`). Both end in `Done`.
An invalid declaration can thus only be the last, incomplete line: the byte array parser then returns no node,
and the file parser one that lacks nothing of the lines before.

Model-checked only, with the reason:

* all liveness (`Reconnects`, `Acknowledged`, `Converges`, `DataLoopEnds`,
  `NotificationEnds`), which is beyond the prover;
* `ParsedAsDescribed`, `FileKeepsTyped` and `CompleteLinesKept` for definitions that are not well
  written in the sense above: names with escaped quotes, versions the parser does not know, lines of
  unknown kinds, questions and answers, and a broken line among others (`Signs`, `Older`, `Newer`,
  `Odd`, `Broken` of the run);
* the claims of the violated runs, which are false.

## 5. Not modelled

* In the message formats: the variants in network byte order, which only tests call; file
  type and digest, which are zero in every file; names of `RMF_MAXLEN_FILE_NAME` and
  more characters, for which `unpackFileInfo` looks at a byte behind the message. The 16-bit
  length format, used by tests only, is proved and takes part in no run.
* In the stream: the line counter and the last message type, which nothing reads but a log line
  and a getter without a caller; numbers of several digits in a header line (and the signs and
  leading blanks that `strtol` accepts); `mBuf.clear()` in `apxStartTextMsg`: the application is taken
  to have sent and cleared its buffer before it starts another transmission;
  `QApxOutStream`, whose code is commented out.
* In the parsers: a parser used for a second text, the look-up of ports by name, a type
  reference without a number (the code compares an uninitialised variable).
* In value coding: nested records and arrays of records, which the signature parser does
  not produce; elements of no bytes and arrays longer than 16 bits; byte code that cannot be
  parsed, which the compiler does not produce; QVariant's conversions of numeric texts
  to numbers and of numbers to texts; characters outside the local 8-bit set.
* `load` from inside a notification, and a node without provide or without require ports.
* In the file manager: the refusal of `getSendBuffer` for a message beyond
  `RMF_SOCKET_ADAPTER_MAX_BUF_LEN`, which no message of the runs comes near.
* A second `createLocalNode` (it deletes files that are still in use), the memory
  ownership of files, digests and file types.
* The mock socket, and SocketAdapter with the 16-bit length format, used by tests only. A local
  socket that is lost is not connected again (`connectLocal` refuses the second call); the
  client does not use one.
* Server behaviour that the client's code gives no hint of: announcing a file twice
  on one connection, overlapping files, closing a file.

## 6. Plan

1. *Done*: all modules of section 2, their runs, and the theorems of section 4.
2. The theorems about nodes for names with escaped quotes (`scanMatchingPair` skips them).
3. Composition of **NodeData** with **ApxSystem**: a value set at one side is the value
   read at the other, from `PackCorrect`, `UnpackCorrect` and the mirroring of files.
