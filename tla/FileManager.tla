---------------------------- MODULE FileManager ----------------------------
(***************************************************************************)
(* RemoteFile::FileManager (remotefile/src/qrmf_filemanager.cpp) with its  *)
(* two file maps, the files Apx::Client gives it and the send buffer of    *)
(* its transmit handler: one action per message the server sends, and the  *)
(* calls of the application.  A signal is connected directly, in the one   *)
(* thread: onMessage runs inside the emit.                                 *)
(*                                                                         *)
(* On its way a message is the record its bytes are made of; who reads it  *)
(* reads the bytes (Received).  "WRITE" carries, besides the address and   *)
(* the data, the number of the owner's state it brings (for the properties *)
(* only).                                                                  *)
(***************************************************************************)
EXTENDS FileMapOps, RmfProto

CONSTANTS
    LocalFiles,       \* the files createLocalNode attaches, in order
    RequestedFiles,   \* the files it requests
    Name,             \* mName of every file
    NewObject,        \* the File object made for a file nobody requested
    MaxWrites         \* bound: writes to a file by its owner

Local == ToSet(LocalFiles)
Requested == ToSet(RequestedFiles)
Mirrored == Local \cup Requested

ASSUME Node ==
    /\ LocalFiles \in Seq(File) /\ RequestedFiles \in Seq(File)
    /\ Local \cap Requested = {} /\ DOMAIN NewObject \subseteq File
    /\ \A i, j \in DOMAIN LocalFiles : LocalFiles[i] = LocalFiles[j] => i = j
    /\ WordSize = Page * Page /\ USER_DATA_END <= RMF_CMD_START_ADDR
    /\ MaxWrites \in Nat /\ MaxWrites < Radix

\* The messages are shorter than a length header can tell.
ASSUME Sizeable ==
    /\ \A f \in File : 4 + Length[f] <= Limit32
    /\ 4 + FileInfoBaseLen + MaxName <= Limit32

\* Names have no zero and are shorter than RMF_MAXLEN_FILE_NAME; those of the node differ.
ASSUME Names ==
    /\ Name \in [File -> Seq(Byte \ {0})]
    /\ \A f \in File : Len(Name[f]) < MaxName
    /\ \A f, g \in Mirrored : Name[f] = Name[g] => f = g

VARIABLES
    created,           \* createLocalNode has been called
    mLocalFiles,       \* mLocalFileMap
    mRemoteFiles,      \* mRemoteFileMap
    mAddress,          \* mAddress of the File objects
    isOpen,            \* isOpen of the File objects
    mLastLocal,        \* mLastFileIndex of the two maps
    mLastRemote,
    mTransmitHandler,  \* it is set
    mData,             \* the contents of the files of the node
    mSendBuffer,       \* length of the adapter's send buffer
    link,              \* the connection: "down", "connecting", "connected" or "up"
    toServer,          \* messages on their way to the server
    dropped,           \* send() refused a message for want of room
    fault,             \* QList::at was called with an index out of range
    history, version   \* for the properties: the states of the owner's file, and
                       \* which of them the replica has (0: not a whole file yet)

maps == <<mLocalFiles, mRemoteFiles, mAddress, mLastLocal, mLastRemote>>
sending == <<mSendBuffer, toServer, dropped>>
ghosts == <<history, version>>

Blank(f) == [k \in 1 .. Length[f] |-> 0]

FileManagerInit ==
    /\ created = FALSE
    /\ mLocalFiles = <<>> /\ mRemoteFiles = <<>>
    /\ mAddress = [f \in File |-> InvalidAddress]
    /\ isOpen = [f \in File |-> FALSE]
    /\ mLastLocal = 0 /\ mLastRemote = 0
    /\ mTransmitHandler = FALSE
    /\ mData = [f \in Mirrored |-> Blank(f)]
    /\ mSendBuffer = 0
    /\ toServer = <<>> /\ dropped = FALSE /\ fault = FALSE
    /\ history = [f \in Mirrored |-> <<Blank(f)>>]
    /\ version = [f \in Mirrored |-> 0]

Version(f) == Len(history[f])

\* Fault: the rest of the file starts one byte early.
Overwrite_early(content, offset, data) ==
    SubSeq(content, 1, offset) \o data
      \o SubSeq(content, offset + Len(data), Len(content))

\* File::write: memcpy into the data of the file.
Overwrite(content, offset, data) ==
    SubSeq(content, 1, offset) \o data
      \o SubSeq(content, offset + Len(data) + 1, Len(content))

-----------------------------------------------------------------------------
(* Messages. *)

Greeting == [type |-> "GREETING"]
Acknowledge == [type |-> "ACK"]
Info(f, address) == [type |-> "INFO", file |-> f, address |-> address]
Open(address) == [type |-> "OPEN", address |-> address]
Write(address, data, v) ==
    [type |-> "WRITE", address |-> address, data |-> data, version |-> v]

\* mMaxNumHeaderLen: bytes reserved in front of the buffer.
MaxNumHeaderLen == 4

\* The length onMessage asks a buffer for: it assumes a long header.
BufferLength(m) ==
    4 + CASE m.type = "INFO" -> FileInfoBaseLen + Len(Name[m.file]) + 1
          [] m.type = "OPEN" -> 8
          [] m.type = "WRITE" -> Len(m.data)

\* What onMessage writes into the buffer, behind the header that packHeader writes.
Payload(m, room) ==
    CASE m.type = "INFO" -> PackFileInfo(room, [address |-> m.address,
                              length |-> Length[m.file], name |-> Name[m.file]]).bytes
      [] m.type = "OPEN" -> PackCommand(room, RMF_CMD_FILE_OPEN, m.address).bytes
      [] m.type = "WRITE" -> m.data

Packed(m) ==
    LET address == IF m.type = "WRITE" THEN m.address ELSE RMF_CMD_START_ADDR
        header == PackHeader(BufferLength(m), address, FALSE)
    IN  header.bytes \o Payload(m, BufferLength(m) - header.len)

\* send writes a length header in front.
Frame(body) == Encode32(IF Len(body) <= ShortLimit THEN 1 ELSE 4, Len(body)).bytes \o body

\* The body of a message that has arrived whole (SocketAdapter says when it has).
Unframed(bytes) ==
    LET header == Decode32(bytes) IN SubSeq(bytes, header.len + 1, header.len + header.value)

Ignored == [type |-> "IGNORED"]

\* processCmd: which command it is, and what unpackFileInfo or unpackFileOpen finds.
Command(bytes) ==
    LET info == UnpackFileInfo(bytes)
        open == UnpackCommand(bytes, RMF_CMD_FILE_OPEN)
    IN  CASE Len(bytes) < 4 -> Ignored
          [] FromLittle4(bytes) = RMF_CMD_FILE_INFO /\ info.len > 0 ->
               [type |-> "INFO", name |-> info.name, length |-> info.length,
                address |-> info.address]
          [] FromLittle4(bytes) = RMF_CMD_FILE_OPEN /\ open.len > 0 -> Open(open.value)
          [] OTHER -> Ignored

\* onMsgReceived: what a header and the bytes behind it mean.
Meaning(header, rest) ==
    CASE header.len > 0 /\ header.address = RMF_CMD_START_ADDR -> Command(rest)
      [] header.len > 0 /\ header.address < RMF_CMD_START_ADDR ->
           Write(header.address, rest, 0)
      [] OTHER -> Ignored

\* Where files are, what is in them, and what a write to one carries.
UserAddress == 0 .. USER_DATA_END - 1
Content(f) == [1 .. Length[f] -> 0 .. MaxWrites]
Data == UNION {[1 .. n -> 0 .. MaxWrites] : n \in {1} \cup {Length[f] : f \in Mirrored}}

InfoMessage(files) == [type : {"INFO"}, file : files, address : UserAddress]
OpenMessage == [type : {"OPEN"}, address : UserAddress]
WriteMessage(states) ==
    [type : {"WRITE"}, address : UserAddress, data : Data, version : states]

\* The messages there are, without the number of the state.
Messages ==
    {Info(f, a) : f \in Mirrored \cup DOMAIN NewObject, a \in UserAddress}
      \cup {Open(a) : a \in UserAddress}
      \cup {Write(a, data, 0) : a \in UserAddress, data \in Data}

Bare(m) == IF m.type = "WRITE" THEN [m EXCEPT !.version = 0] ELSE m

\* The body of each, and what its bytes are taken for on the other side of the
\* connection.
Sent == [m \in Messages |-> Packed(m)]
Reading ==
    [m \in Messages |->
       LET body == Unframed(Frame(Sent[m]))
           header == UnpackHeader(body)
       IN  Meaning(header, Behind(body, header.len))]

Received(m) ==
    LET r == Reading[Bare(m)]
    IN  IF r.type = "WRITE" /\ m.type = "WRITE" THEN [r EXCEPT !.version = m.version] ELSE r

-----------------------------------------------------------------------------
(* The send buffer. *)

\* The length that is sent, behind the length header.
SendLength(m) == Len(Sent[Bare(m)])

\* getSendBuffer: a buffer that is long enough is not resized.
Resized(buffer, m) ==
    IF BufferLength(m) > buffer THEN BufferLength(m) + MaxNumHeaderLen ELSE buffer

\* Fault: the message before this one is written a second time.
Transmit_again(l, m) ==
    LET buffer == Resized(l.buffer, m)
        again(q) == IF q = <<>> THEN <<m>> ELSE q \o <<m, Last(q)>>
    IN  IF MaxNumHeaderLen + SendLength(m) > buffer
          THEN [l EXCEPT !.buffer = buffer, !.dropped = TRUE]
          ELSE [l EXCEPT !.buffer = buffer,
                         !.queue = IF link = "down" THEN @ ELSE again(@)]

\* send: -1 when header and message do not fit; a socket that is not connected
\* or connecting takes nothing.
Transmit(l, m) ==
    LET buffer == Resized(l.buffer, m) IN
      IF MaxNumHeaderLen + SendLength(m) > buffer
        THEN [l EXCEPT !.buffer = buffer, !.dropped = TRUE]
        ELSE [l EXCEPT !.buffer = buffer,
                       !.queue = IF link = "down" THEN @ ELSE Append(@, m)]

Sender == [buffer |-> mSendBuffer, queue |-> toServer, dropped |-> dropped]

Becomes(l) ==
    /\ mSendBuffer' = l.buffer
    /\ toServer' = l.queue
    /\ dropped' = l.dropped

\* onMessage, for one message and for several in a row.  (\E l \in {x} binds l to x,
\* as LET does; TLC then evaluates x once.)
Send(m) == \E l \in {Transmit(Sender, m)} : Becomes(l)

SendAll(messages) ==
    LET sent[i \in 0 .. Len(messages)] ==
          IF i = 0 THEN Sender ELSE Transmit(sent[i-1], messages[i])
    IN  \E l \in {sent[Len(messages)]} : Becomes(l)

-----------------------------------------------------------------------------
(* The application. *)

\* attachLocalFile for the next file of the node: insert finds an address for it.
Attached(map, f) ==
    LET a == AssignFileAddress(map.files, map.address, f, Area(f))
        address == [map.address EXCEPT ![f] = a]
    IN  IF a = InvalidAddress THEN map
        ELSE [files |-> InsertDefault(map.files, address, f), address |-> address]

\* Client::createLocalNode, once.  Nothing is announced on a connection that is up.
CreateLocalNode ==
    /\ ~fault /\ ~created
    /\ created' = TRUE
    /\ LET map[i \in 0 .. Len(LocalFiles)] ==
             IF i = 0 THEN [files |-> mLocalFiles, address |-> mAddress]
             ELSE Attached(map[i-1], LocalFiles[i])
       IN \E l \in {map[Len(LocalFiles)]} : mLocalFiles' = l.files /\ mAddress' = l.address
    /\ UNCHANGED <<mRemoteFiles, isOpen, mLastLocal, mLastRemote, mTransmitHandler, mData,
                   link, sending, fault, ghosts>>

\* Fault: the notification carries the address of the file, without the offset.
OutputFileWrite_noOffset(f, offset) ==
    /\ ~fault /\ created /\ f \in Local /\ Version(f) <= MaxWrites
    /\ LET value == <<Version(f)>> IN
         /\ mData' = [mData EXCEPT ![f] = Overwrite(@, offset, value)]
         /\ history' = [history EXCEPT ![f] = Append(@, mData'[f])]
         /\ IF isOpen[f] /\ mTransmitHandler
              THEN Send(Write(mAddress[f], value, Version(f) + 1))
              ELSE UNCHANGED sending
    /\ UNCHANGED <<created, maps, isOpen, mTransmitHandler, link, fault, version>>

\* OutputFile::write of one byte, and outPortDataWriteNotify.
OutputFileWrite(f, offset) ==
    /\ ~fault /\ created /\ f \in Local /\ Version(f) <= MaxWrites
    /\ LET value == <<Version(f)>> IN
         /\ mData' = [mData EXCEPT ![f] = Overwrite(@, offset, value)]
         /\ history' = [history EXCEPT ![f] = Append(@, mData'[f])]
         /\ IF isOpen[f] /\ mTransmitHandler
              THEN Send(Write(mAddress[f] + offset, value, Version(f) + 1))
              ELSE UNCHANGED sending
    /\ UNCHANGED <<created, maps, isOpen, mTransmitHandler, link, fault, version>>

-----------------------------------------------------------------------------
(* The receive handler. *)

\* onConnected: every local file is announced, in address order.
HandlerConnected ==
    /\ mTransmitHandler' = TRUE
    /\ SendAll([i \in DOMAIN mLocalFiles |-> Info(mLocalFiles[i], mAddress[mLocalFiles[i]])])
    /\ UNCHANGED <<created, maps, isOpen, mData, fault, ghosts>>

\* Fault: the files of the server stay in the map.
HandlerDisconnected_keeps ==
    UNCHANGED <<created, maps, isOpen, mTransmitHandler, mData, mSendBuffer, dropped,
                fault, history>>

\* onDisconnected: only the remote map is cleared.
HandlerDisconnected ==
    /\ mRemoteFiles' = <<>>
    /\ UNCHANGED <<created, mLocalFiles, mAddress, isOpen, mLastLocal, mLastRemote,
                   mTransmitHandler, mData, mSendBuffer, dropped, fault, history>>

\* The requested file that has the name and the length of the one announced, else the
\* new object.
Asked(m) == {f \in Requested : created /\ Name[f] = m.name /\ Length[f] = m.length}
Object(m) ==
    IF Asked(m) # {} THEN CHOOSE f \in Asked(m) : TRUE
    ELSE NewObject[CHOOSE f \in DOMAIN NewObject : Name[f] = m.name]

\* Fault: a file that was requested is not put into the map.
HandleInfo_notInserted(m) ==
    \E f \in {Object(m)} :
    LET asked == f \in Requested
    IN  /\ mAddress' = [mAddress EXCEPT ![f] = m.address]
        /\ isOpen' = [isOpen EXCEPT ![f] = asked]
        /\ IF asked THEN Send(Open(m.address)) ELSE UNCHANGED sending
        /\ mRemoteFiles' = IF asked THEN mRemoteFiles
                           ELSE InsertDefault(mRemoteFiles, mAddress', f)
        /\ UNCHANGED <<created, mLocalFiles, mLastLocal, mLastRemote, mTransmitHandler,
                       mData, fault, ghosts>>

\* FILE_INFO: a file that was requested (same name and length) takes the place of
\* the new object and is opened.
HandleInfo(m) ==
    \E f \in {Object(m)} :
    LET asked == f \in Requested
    IN  /\ mAddress' = [mAddress EXCEPT ![f] = m.address]
        /\ isOpen' = [isOpen EXCEPT ![f] = asked]
        /\ IF asked THEN Send(Open(m.address)) ELSE UNCHANGED sending
        /\ mRemoteFiles' = InsertDefault(mRemoteFiles, mAddress', f)
        /\ UNCHANGED <<created, mLocalFiles, mLastLocal, mLastRemote, mTransmitHandler,
                       mData, fault, ghosts>>

\* Fault: the file is not marked as open.
HandleOpen_notOpen(m) ==
    \E i \in {LookupIndex(mLocalFiles, mLastLocal, mAddress, m.address)} :
    LET f == FileAt(mLocalFiles, i)
    IN  /\ mLastLocal' = i
        /\ IF f = NoFile THEN UNCHANGED sending
             ELSE Send(Write(mAddress[f], mData[f], Version(f)))
        /\ UNCHANGED <<created, mLocalFiles, mRemoteFiles, mAddress, mLastRemote, isOpen,
                       mTransmitHandler, mData, fault, ghosts>>

\* FILE_OPEN: the whole file is sent, further writes follow.  (The local map is
\* never cleared: its cached index is always defined.)
HandleOpen(m) ==
    \E i \in {LookupIndex(mLocalFiles, mLastLocal, mAddress, m.address)} :
    LET f == FileAt(mLocalFiles, i)
    IN  /\ mLastLocal' = i
        /\ IF f = NoFile
             THEN UNCHANGED <<isOpen, sending>>
             ELSE /\ isOpen' = [isOpen EXCEPT ![f] = TRUE]
                  /\ Send(Write(mAddress[f], mData[f], Version(f)))
        /\ UNCHANGED <<created, mLocalFiles, mRemoteFiles, mAddress, mLastRemote,
                       mTransmitHandler, mData, fault, ghosts>>

\* The state the replica has after a write: a partial one counts once the whole
\* file has been there.
Arrived(f, m) ==
    IF Len(m.data) = Length[f] \/ version[f] # 0 THEN m.version ELSE version[f]

\* Fault: a write counts only at the address of the file.
HandleWrite_atStart(m) ==
    IF ~LookupDefined(mRemoteFiles, mLastRemote)
      THEN /\ fault' = TRUE
           /\ UNCHANGED <<created, maps, isOpen, mTransmitHandler, mData, sending, ghosts>>
      ELSE \E i \in {LookupIndex(mRemoteFiles, mLastRemote, mAddress, m.address)} :
           LET f == FileAt(mRemoteFiles, i)
               offset == m.address - mAddress[f]
           IN  /\ mLastRemote' = i
               /\ IF f # NoFile /\ isOpen[f] /\ offset = 0 /\ Len(m.data) <= Length[f]
                    THEN /\ mData' = [mData EXCEPT ![f] = Overwrite(@, offset, m.data)]
                         /\ version' = [version EXCEPT ![f] = Arrived(f, m)]
                    ELSE UNCHANGED <<mData, version>>
               /\ UNCHANGED <<created, mLocalFiles, mRemoteFiles, mAddress, mLastLocal, isOpen,
                              mTransmitHandler, sending, fault, history>>

\* WRITE_DATA below the command area: processFileWrite.
HandleWrite(m) ==
    IF ~LookupDefined(mRemoteFiles, mLastRemote)
      THEN /\ fault' = TRUE
           /\ UNCHANGED <<created, maps, isOpen, mTransmitHandler, mData, sending, ghosts>>
      ELSE \E i \in {LookupIndex(mRemoteFiles, mLastRemote, mAddress, m.address)} :
           LET f == FileAt(mRemoteFiles, i)
               offset == m.address - mAddress[f]
           IN  /\ mLastRemote' = i
               /\ IF f # NoFile /\ isOpen[f] /\ offset + Len(m.data) <= Length[f]
                    THEN /\ mData' = [mData EXCEPT ![f] = Overwrite(@, offset, m.data)]
                         /\ version' = [version EXCEPT ![f] = Arrived(f, m)]
                    ELSE UNCHANGED <<mData, version>>
               /\ UNCHANGED <<created, mLocalFiles, mRemoteFiles, mAddress, mLastLocal, isOpen,
                              mTransmitHandler, sending, fault, history>>
=============================================================================
