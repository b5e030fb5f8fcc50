---------------------------- MODULE ApxInvariant ----------------------------
(***************************************************************************)
(* Why ApxSystem keeps its promises: what holds, in every reachable state, *)
(* of the connection, of the announcements and of the writes on their way. *)
(***************************************************************************)
EXTENDS ApxSystem

Published == ToSet(mLocalFiles)
Remote == ToSet(mRemoteFiles)

\* Bytes of its own for each file.
Apart(b, f, c, g) == b + Length[f] <= c \/ c + Length[g] <= b

-----------------------------------------------------------------------------
\* The types; and the send buffer, once it is there, has room for a write of one byte.
Typed ==
    /\ TypeOK
    /\ mData \in [Mirrored -> UNION {Content(f) : f \in Mirrored}]
    /\ sData \in [Mirrored -> UNION {Content(f) : f \in Mirrored}]
    /\ version \in [Mirrored -> Nat]
    /\ mSendBuffer = 0 \/ mSendBuffer >= 9

\* The owner's file is in the last of its states.
Owned ==
    /\ history \in [Mirrored -> Seq(UNION {Content(f) : f \in Mirrored})]
    /\ \A f \in Mirrored :
         /\ history[f] \in Seq(Content(f)) /\ history[f] # <<>>
         /\ Owner(f) = history[f][Version(f)]

\* The files in the local map have addresses of their own below the command area.
Placed ==
    /\ ~created => mLocalFiles = <<>>
    /\ \A f \in Published : mAddress[f] + Length[f] <= USER_DATA_END
    /\ \A f, g \in Published : f # g => Apart(mAddress[f], f, mAddress[g], g)
    /\ \A f \in Local : isOpen[f] => f \in Published /\ mTransmitHandler

\* The greeting and the acknowledge come first, and nothing outlives a connection.
Session ==
    /\ link = "down" => toServer = <<>> /\ toClient = <<>>
    /\ link \in {"down", "connecting"} =>
         ~greeted /\ \A i \in DOMAIN toServer : toServer[i] # Greeting
    /\ greeted => \A i \in DOMAIN toServer : toServer[i] # Greeting
    /\ \A i, j \in DOMAIN toServer : toServer[i] = Greeting /\ toServer[j] = Greeting => i = j
    /\ ~greeted => toClient = <<>> /\ sAnnounced = {}
    /\ greeted /\ link # "up" => toClient # <<>> /\ toClient[1] = Acknowledge
    /\ \A i \in DOMAIN toClient : toClient[i] = Acknowledge => i = 1 /\ link = "connected"
    /\ link = "up" => greeted /\ mTransmitHandler
    /\ link # "up" => mRemoteFiles = <<>> /\ sReaders = {}

\* The client has put the file into its remote map and opened it.
Ready(f) == /\ link = "up" /\ isOpen[f] /\ f \in Remote
            /\ mAddress[f] = sAddress[f]

\* What the server knows of the client's files is what the client knows of them.
ClientAnnounced ==
    /\ \A i \in DOMAIN toServer :
         toServer[i].type = "INFO" =>
           /\ toServer[i].file \in Published
           /\ toServer[i].address = mAddress[toServer[i].file]
    /\ \A f \in sAnnounced \cap Local : f \in Published /\ sAddress[f] = mAddress[f]
    /\ sOpened \subseteq sAnnounced \cap Local
    /\ \A f \in Local \ sOpened : version[f] = 0

\* A file the server announces is on its way to the client or in its remote map, as
\* one object of the two it may become.
ServerAnnounced ==
    /\ \A f \in sAnnounced \cap Announced : sAddress[f] \in ServerAddresses[f]
    /\ \A i \in DOMAIN toClient :
         toClient[i].type = "INFO" =>
           LET f == toClient[i].file
           IN  /\ f \in sAnnounced /\ toClient[i].address = sAddress[f]
               /\ f \notin Remote /\ NewObject[f] \notin Remote
               /\ \A j \in DOMAIN toClient :
                    toClient[j].type = "INFO" /\ toClient[j].file = f => j = i
    /\ \A h \in Remote :
         \E f \in sAnnounced \cap Announced : h \in {f, NewObject[f]} /\ mAddress[h] = sAddress[f]
    /\ \A f \in Announced : ~ (f \in Remote /\ NewObject[f] \in Remote)

\* A file is open at the server only if the client is ready for what the server sends.
Readers ==
    /\ \A f \in sReaders : f \in sAnnounced \cap Requested /\ Ready(f)
    /\ \A i \in DOMAIN toServer :
         toServer[i].type = "OPEN" =>
           \E f \in sAnnounced \cap Requested : sAddress[f] = toServer[i].address /\ Ready(f)

-----------------------------------------------------------------------------
(* The writes to a file on their way through a queue. *)

Within(b, f, a) == b <= a /\ a < b + Length[f]

Targets(q, f, b) == {i \in DOMAIN q : q[i].type = "WRITE" /\ Within(b, f, q[i].address)}

\* A message with the whole file, in one of its states, ...
Whole(m, f, b, h) == m.address = b /\ Len(m.data) = Length[f] /\ m.data = h[m.version]

\* ... and one with the byte that makes such a state of the state before it.
Single(m, f, b, h) ==
    /\ Length[f] > 1 /\ Len(m.data) = 1 /\ m.version >= 2
    /\ h[m.version] = Overwrite(h[m.version - 1], m.address - b, m.data)

\* r is the state the replica is in.  The writes to the file bring later and later
\* states of it, up to the last; one that brings a byte only comes behind the state
\* before, or finds it at the replica.
Chain(q, f, b, h, r) ==
    LET T == Targets(q, f, b) IN
      /\ \A i \in T :
           /\ q[i].version \in 1 .. Len(h) /\ r <= q[i].version
           /\ Whole(q[i], f, b, h) \/ Single(q[i], f, b, h)
      /\ \A i, j \in T :
           i < j => /\ q[i].version <= q[j].version
                    /\ q[i].version = q[j].version => Whole(q[j], f, b, h)
      /\ \A j \in T :
           \/ Whole(q[j], f, b, h)
           \/ \E i \in T : i < j /\ q[i].version = q[j].version - 1
           \/ (\A i \in T : i >= j) /\ (r = 0 \/ r = q[j].version - 1)
      /\ \/ \E i \in T : q[i].version = Len(h)
         \/ T = {} /\ (r = 0 \/ r = Len(h))

\* Every write in the queue is one to an open file; the others have no state yet.
\* (states and held are what history and version are.)
Carried(q, owned, opened, address, states, held) ==
    /\ opened \subseteq owned
    /\ \A i \in DOMAIN q :
         q[i].type = "WRITE" => \E f \in opened : Within(address[f], f, q[i].address)
    /\ \A f \in owned \ opened : held[f] = 0
    /\ \A f \in opened : Chain(q, f, address[f], states[f], held[f])

OpenAtClient == {f \in Local : isOpen[f]}

ToServerCarried == Carried(toServer, Local, OpenAtClient, mAddress, history, version)

\* The message that stops the client is lost.
ToClientCarried ==
    /\ \A i \in DOMAIN toClient :
         toClient[i].type = "WRITE" => \E f \in sReaders : Within(sAddress[f], f, toClient[i].address)
    /\ ~fault => Carried(toClient, Requested, sReaders, sAddress, history, version)

IInv ==
    /\ Typed /\ Owned /\ Placed /\ Session
    /\ ClientAnnounced /\ ServerAnnounced /\ Readers
    /\ ToServerCarried /\ ToClientCarried
    /\ Snapshot
=============================================================================
