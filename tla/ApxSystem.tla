----------------------------- MODULE ApxSystem -----------------------------
(***************************************************************************)
(* An APX client (Apx::Client: FileManager and SocketAdapter) and an APX   *)
(* server, joined by one connection at a time that loses nothing while it  *)
(* lasts and everything when it breaks.                                    *)
(*                                                                         *)
(* The server is external.  It answers the greeting with an acknowledge,   *)
(* opens the files the client announces, announces files of its own, and   *)
(* sends a file that the client opens in full and then write by write.     *)
(***************************************************************************)
EXTENDS FileManager

CONSTANTS
    Announced,       \* the files the server announces
    ServerAddresses  \* the addresses it may give each of them

ASSUME Server ==
    /\ Requested \subseteq Announced /\ Announced \cap Local = {}
    /\ Announced \subseteq File
    /\ ServerAddresses \in [Announced -> SUBSET (0 .. USER_DATA_END)]
    /\ \A f \in Announced : \A a \in ServerAddresses[f] : a + Length[f] <= USER_DATA_END
    /\ NewObject \in [Announced -> File \ (Mirrored \cup Announced)]
    /\ \A f \in Announced : Length[NewObject[f]] = Length[f] /\ Name[NewObject[f]] = Name[f]
    /\ \A f, g \in Announced : Name[f] = Name[g] => f = g

\* Its files do not overlap.
ASSUME ServerFiles ==
    \A f, g \in Announced : f # g =>
      \A a \in ServerAddresses[f], b \in ServerAddresses[g] :
        a + Length[f] <= b \/ b + Length[g] <= a

VARIABLES
    toClient,    \* messages on their way to the client
    greeted,     \* the server has seen the greeting
    sAnnounced,  \* files announced on this connection, by either side
    sAddress,    \* the addresses they were announced with
    sOpened,     \* files of the client that the server has opened
    sReaders,    \* files of the server that the client has opened
    sData,       \* contents of the files on the server
    late         \* the node was created on a connection that is up

client == <<created, maps, isOpen, mTransmitHandler, mData, fault>>
serverSession == <<greeted, sAnnounced, sAddress, sOpened, sReaders>>
vars == <<client, link, sending, ghosts, toClient, serverSession, sData, late>>

Init ==
    /\ FileManagerInit
    /\ link = "down"
    /\ toClient = <<>> /\ greeted = FALSE
    /\ sAnnounced = {} /\ sOpened = {} /\ sReaders = {}
    /\ sAddress = [f \in File |-> InvalidAddress]
    /\ sData = [f \in Mirrored |-> Blank(f)]
    /\ late = FALSE

-----------------------------------------------------------------------------
(* The connection. *)

\* connectTcp, from the application or from the reconnect timer.
Connect ==
    /\ ~fault /\ link = "down"
    /\ link' = "connecting"
    /\ toServer' = <<>> /\ toClient' = <<>>
    /\ UNCHANGED <<client, mSendBuffer, dropped, ghosts, serverSession, sData, late>>

\* SocketAdapter::onConnected: the greeting goes out behind what has been written
\* while the socket was connecting, which the socket has kept.
Established ==
    /\ ~fault /\ link = "connecting"
    /\ link' = "connected"
    /\ toServer' = Append(toServer, Greeting)
    /\ UNCHANGED <<client, mSendBuffer, dropped, ghosts, toClient, serverSession, sData, late>>

\* What the connection's end means to both sides.
Broken ==
    /\ link' = "down"
    /\ toServer' = <<>> /\ toClient' = <<>>
    /\ HandlerDisconnected
    /\ version' = [f \in Mirrored |-> 0]
    /\ greeted' = FALSE
    /\ sAnnounced' = {} /\ sOpened' = {} /\ sReaders' = {}
    /\ sAddress' = [f \in File |-> InvalidAddress]
    /\ sData' = [f \in Mirrored |-> IF f \in Local THEN Blank(f) ELSE sData[f]]
    /\ late' = FALSE

\* The connection fails, is lost or is closed by the application.
Lose ==
    /\ ~fault /\ link # "down"
    /\ Broken

\* onMsgReceived, after the acknowledge.
Handle(m) ==
    CASE m.type = "INFO"  -> HandleInfo(m) /\ UNCHANGED link
      [] m.type = "OPEN"  -> HandleOpen(m) /\ UNCHANGED link
      [] m.type = "WRITE" -> HandleWrite(m) /\ UNCHANGED link
      [] OTHER -> UNCHANGED <<client, link, sending, ghosts>>

ClientReceives ==
    /\ ~fault /\ toClient # <<>>
    /\ IF Head(toClient) = Acknowledge THEN HandlerConnected /\ link' = "up"
       ELSE \E m \in {Received(Head(toClient))} : Handle(m)
    /\ toClient' = Tail(toClient)
    /\ UNCHANGED <<serverSession, sData, late>>

Create ==
    /\ CreateLocalNode
    /\ late' = (link = "up")
    /\ UNCHANGED <<toClient, serverSession, sData>>

ApplicationWrites(f, offset) ==
    /\ OutputFileWrite(f, offset)
    /\ UNCHANGED <<toClient, serverSession, sData, late>>

-----------------------------------------------------------------------------
(* The server. *)

\* The messages it reads are the client's bytes.
ServerReads == IF ~fault /\ greeted /\ toServer # <<>> THEN {Received(Head(toServer))} ELSE {}

ServerGreeted ==
    /\ ~fault /\ ~greeted /\ toServer # <<>>
    /\ Head(toServer) = Greeting
    /\ greeted' = TRUE
    /\ toServer' = Tail(toServer)
    /\ toClient' = Append(toClient, Acknowledge)
    /\ UNCHANGED <<client, link, mSendBuffer, dropped, ghosts,
                   sAnnounced, sAddress, sOpened, sReaders, sData, late>>

\* Anything else in its place is no RemoteFile client: the server closes.
ServerRejects ==
    /\ ~fault /\ toServer # <<>> /\ ~greeted
    /\ link = "connected"
    /\ Head(toServer) # Greeting
    /\ Broken

ServerLearns(m) ==
    /\ m.type = "INFO"
    /\ \E f \in Local :
         /\ Name[f] = m.name /\ Length[f] = m.length
         /\ sAnnounced' = sAnnounced \cup {f}
         /\ sAddress' = [sAddress EXCEPT ![f] = m.address]
    /\ toServer' = Tail(toServer)
    /\ UNCHANGED <<client, link, mSendBuffer, dropped, ghosts, toClient,
                   greeted, sOpened, sReaders, sData, late>>

ServerOpens(f) ==
    /\ ~fault /\ f \in (sAnnounced \cap Local) \ sOpened
    /\ sOpened' = sOpened \cup {f}
    /\ toClient' = Append(toClient, Open(sAddress[f]))
    /\ UNCHANGED <<client, link, sending, ghosts,
                   greeted, sAnnounced, sAddress, sReaders, sData, late>>

ServerAnnounces(f) ==
    /\ ~fault /\ greeted /\ f \notin sAnnounced
    /\ \E a \in ServerAddresses[f] :
         /\ sAddress' = [sAddress EXCEPT ![f] = a]
         /\ toClient' = Append(toClient, Info(f, a))
    /\ sAnnounced' = sAnnounced \cup {f}
    /\ UNCHANGED <<client, link, sending, ghosts, greeted, sOpened, sReaders, sData, late>>

ServerSends(m) ==
    /\ m.type = "OPEN"
    /\ \E f \in sAnnounced \cap Requested :
         /\ sAddress[f] = m.address
         /\ sReaders' = sReaders \cup {f}
         /\ toClient' = Append(toClient, Write(sAddress[f], sData[f], Version(f)))
    /\ toServer' = Tail(toServer)
    /\ UNCHANGED <<client, link, mSendBuffer, dropped, ghosts,
                   greeted, sAnnounced, sAddress, sOpened, sData, late>>

\* A write to a file the server has not opened is ignored.
ServerApplies(m) ==
    /\ m.type = "WRITE"
    /\ LET target == {f \in sOpened : Covers(sAddress, f, m.address)}
       IN  IF target = {} THEN UNCHANGED <<sData, version>>
           ELSE \E f \in target :
                  /\ sData' = [sData EXCEPT ![f] = Overwrite(@, m.address - sAddress[f], m.data)]
                  /\ version' = [version EXCEPT ![f] = Arrived(f, m)]
    /\ toServer' = Tail(toServer)
    /\ UNCHANGED <<client, link, mSendBuffer, dropped, history, toClient, serverSession, late>>

ServerWrites(f, offset) ==
    /\ ~fault /\ Version(f) <= MaxWrites
    /\ sData' = [sData EXCEPT ![f] = Overwrite(@, offset, <<Version(f)>>)]
    /\ history' = [history EXCEPT ![f] = Append(@, sData'[f])]
    /\ toClient' = IF f \in sReaders
                     THEN Append(toClient, Write(sAddress[f] + offset, <<Version(f)>>, Version(f) + 1))
                     ELSE toClient
    /\ UNCHANGED <<client, link, sending, version, serverSession, late>>

\* The definition file is written when it is created only.
PortFiles == {f \in Local : Class[f] = ".out"}

Serve ==
    \/ ServerGreeted \/ ServerRejects
    \/ \E m \in ServerReads : ServerLearns(m) \/ ServerSends(m) \/ ServerApplies(m)

\* What is due.  Between two calls of the application only a finite number of these
\* steps can follow each other while the connection lasts.
Progress ==
    \/ Connect \/ Established
    \/ \E f \in Announced : ServerAnnounces(f)
    \/ \E f \in Local : ServerOpens(f)
    \/ Serve
    \/ ClientReceives

Next ==
    \/ Progress
    \/ Lose
    \/ Create
    \/ \E f \in PortFiles : \E offset \in 0 .. Length[f] - 1 : ApplicationWrites(f, offset)
    \/ \E f \in Requested : \E offset \in 0 .. Length[f] - 1 : ServerWrites(f, offset)

\* The two event loops do not stop while something is due: the client handles what
\* arrives, its timer reconnects, the server reads, opens what it learns of and
\* announces its files.
Fairness == WF_vars(Progress)

Spec == Init /\ [][Next]_vars

FairSpec == Spec /\ Fairness

-----------------------------------------------------------------------------
(* Properties. *)

Owner(f) == IF f \in Local THEN mData[f] ELSE sData[f]
Replica(f) == IF f \in Local THEN sData[f] ELSE mData[f]

ClientMessage == {Greeting} \cup InfoMessage(Local) \cup OpenMessage \cup WriteMessage(Nat)
ServerMessage == {Acknowledge} \cup InfoMessage(Announced) \cup OpenMessage \cup WriteMessage(Nat)

\* The shape of the state.
TypeOK ==
    /\ created \in BOOLEAN /\ fault \in BOOLEAN /\ dropped \in BOOLEAN /\ late \in BOOLEAN
    /\ mLocalFiles \in Seq(Local) /\ mRemoteFiles \in Seq(File)
    /\ mAddress \in [File -> Address] /\ sAddress \in [File -> Address]
    /\ isOpen \in [File -> BOOLEAN]
    /\ mLastLocal \in 0 .. Len(mLocalFiles) /\ mLastRemote \in Nat
    /\ mTransmitHandler \in BOOLEAN /\ greeted \in BOOLEAN
    /\ mSendBuffer \in Nat
    /\ link \in {"down", "connecting", "connected", "up"}
    /\ toServer \in Seq(ClientMessage) /\ toClient \in Seq(ServerMessage)
    /\ sAnnounced \subseteq Local \cup Announced
    /\ sOpened \subseteq Local /\ sReaders \subseteq Requested
    /\ \A f \in Mirrored :
         /\ mData[f] \in Content(f) /\ sData[f] \in Content(f)
         /\ version[f] \in 0 .. Len(history[f])

\* What one side holds of an open file, once the whole file has arrived on this
\* connection, is a state the file has had at its owner: no write is applied at
\* another address, twice or in part, whatever the order of FILE_OPEN, full
\* content and single writes.
Snapshot == \A f \in Mirrored : version[f] # 0 => Replica(f) = history[f][version[f]]

\* And it never goes back to an older one while the connection lasts.
Shown == [f \in Mirrored |-> IF version[f] = 0 THEN <<>> ELSE Replica(f)]

M == INSTANCE Mirror WITH
       Contents <- UNION {Content(f) : f \in Mirrored}, shown <- Shown

ImplementsMirror == M!Spec

\* Only what the client has opened and the server announced on this connection is
\* written: the file a WRITE_DATA goes to is the one the server means.
WritesLand ==
    \A i \in DOMAIN toClient :
      toClient[i].type = "WRITE" =>
        \E f \in sReaders :
          /\ Covers(sAddress, f, toClient[i].address)
          /\ link = "up" /\ mAddress[f] = sAddress[f] /\ isOpen[f]
          /\ \E k \in DOMAIN mRemoteFiles : mRemoteFiles[k] = f

\* The connection stays.
Quiet == <>[](link # "down")

\* When the connection stays, both replicas end up with the last state of their
\* files.  Excluded are a node created on a connection that is up already, a
\* message refused by send() and a lookup out of range.
Converges ==
    Quiet => <>[](\/ fault \/ dropped \/ late \/ ~created
                  \/ \A f \in Mirrored : version[f] = Version(f))

\* "sends the RemoteFile greeting header" (qrmf_socketadapter.cpp:371): nothing
\* goes to the server ahead of it.
GreetingFirst == ~greeted /\ toServer # <<>> => Head(toServer) = Greeting

\* "always reserve 2 or 4 bytes before the buffer given to requester. This will
\* give us space for writing numHeader in send function"
\* (qrmf_socketadapter.cpp:212): send() finds room for what the buffer was got for.
SendHasRoom == ~dropped
=============================================================================
