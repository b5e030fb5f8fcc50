---------------------------- MODULE SocketAdapter ----------------------------
(***************************************************************************)
(* RemoteFile::SocketAdapter (remotefile/src/qrmf_socketadapter.cpp): the  *)
(* connection, its reconnect timer, the acknowledge handshake and the      *)
(* reassembly of messages from the bytes of the socket.                    *)
(*                                                                         *)
(* Everything runs in the one thread of the Qt event loop, so a handler is *)
(* one action.  The loop of parseRemoteFileData is split, one action per   *)
(* message, because it calls the receive handler, which may call close().  *)
(*                                                                         *)
(* The socket (QTcpSocket, QLocalSocket) and the server are external.  A   *)
(* byte is a cell, a number.  A message length up to ShortLimit is one     *)
(* cell, a longer one is LongBit and a second cell (NumHeader32).          *)
(***************************************************************************)
EXTENDS Integers, SequencesExt

CONSTANTS
    ShortLimit,    \* NUMHEADER_SHORT_MSG_LIMIT
    LongBit,       \* the cell that marks a long header
    MaxLength,     \* RMF_MAX_EXPECTED_MESSAGE_LENGTH
    AddressLength, \* bytes of the shortest RemoteFile header
    Ack,           \* body of the RMF_CMD_ACK message
    Bodies,        \* bodies of the other messages the server sends
    MaxSent,       \* bound: messages the server sends per connection
    MaxCalls       \* bound: calls of connectTcp and connectLocal by the application

ASSUME Lengths ==
    /\ ShortLimit \in Nat /\ AddressLength \in Nat
    /\ MaxLength \in Nat /\ ShortLimit < MaxLength
    /\ LongBit \in Nat /\ LongBit > MaxLength
    /\ MaxSent \in Nat /\ MaxCalls \in Nat

ASSUME Messages ==
    /\ Ack \in Seq(Nat)
    /\ Bodies \subseteq Seq(Nat)
    /\ Ack \notin Bodies

VARIABLES
    mSocketType,         \* "NONE", "TCP" or "LOCAL"
    mReconnectTimer,     \* the single-shot timer is running
    mErrorCode,          \* "NONE", "EVENT", "BAD_MSG" or "TOO_LONG"
    m_isAcknowledgeSeen,
    mReceiveBuffer,      \* its first mRxPending bytes: what is not parsed yet
    parsing,             \* inside the loop of parseRemoteFileData
    socket,              \* state() of the socket
    pendingClose,        \* close() was called while it was connecting
    wire,                \* bytes on their way from the server, in order
    greeted,             \* the greeting reached the server
    sent,                \* what the server has sent on this connection
    handlerUp,           \* the receive handler saw onConnected and not yet onDisconnected
    delivered,           \* what it got through onMsgReceived since this connection came up
    cleanStart,          \* the buffer was empty when the connection came up
    closedInside,        \* the handler called close() within the parse loop
    calls                \* calls made by the application

adapter == <<mSocketType, mReconnectTimer, mErrorCode, m_isAcknowledgeSeen,
             mReceiveBuffer, parsing>>
network == <<socket, pendingClose, wire, greeted, sent>>
observed == <<handlerUp, delivered, cleanStart, closedInside, calls>>
vars == <<adapter, network, observed>>

Init ==
    /\ mSocketType = "NONE" /\ mReconnectTimer = FALSE
    /\ mErrorCode = "NONE" /\ m_isAcknowledgeSeen = FALSE
    /\ mReceiveBuffer = <<>> /\ parsing = FALSE
    /\ socket = "unconnected" /\ pendingClose = FALSE
    /\ wire = <<>> /\ greeted = FALSE /\ sent = <<>>
    /\ handlerUp = FALSE /\ delivered = <<>>
    /\ cleanStart = TRUE /\ closedInside = FALSE /\ calls = 0

-----------------------------------------------------------------------------
(* Framing. *)

\* The bytes of a message.
Frame(body) ==
    (IF Len(body) <= ShortLimit THEN <<Len(body)>> ELSE <<LongBit, Len(body)>>) \o body

\* decode32: the length of the header, 0 when it is incomplete, and its value.
HeaderLen(bytes) ==
    IF bytes = <<>> THEN 0
    ELSE IF bytes[1] # LongBit THEN 1
    ELSE IF Len(bytes) = 1 THEN 0 ELSE 2

MsgLen(bytes) == bytes[HeaderLen(bytes)]

TooLong(bytes) == HeaderLen(bytes) > 0 /\ MsgLen(bytes) > MaxLength

Complete(bytes) ==
    /\ HeaderLen(bytes) > 0
    /\ MsgLen(bytes) <= MaxLength
    /\ Len(bytes) >= HeaderLen(bytes) + MsgLen(bytes)

Body(bytes) == SubSeq(bytes, HeaderLen(bytes) + 1, HeaderLen(bytes) + MsgLen(bytes))

\* Fault: a header of one byte is assumed.
AfterMessage_short(bytes) ==
    SubSeq(bytes, MsgLen(bytes) + 2, Len(bytes))

AfterMessage(bytes) ==
    SubSeq(bytes, HeaderLen(bytes) + MsgLen(bytes) + 1, Len(bytes))

\* FileManager::onMsgReceived returns false only when unpackHeader finds no address.
Accepted(body) == Len(body) >= AddressLength

-----------------------------------------------------------------------------
(* The socket. *)

\* onDisconnected, from the socket's signal.
OnDisconnected ==
    /\ mReconnectTimer' = TRUE
    /\ handlerUp' = FALSE

\* SocketAdapter::close.  The socket reads no more at once; it disconnects at once
\* or, with data left to write, later.
Close(timer) ==
    /\ \/ /\ socket = "connected"
          /\ socket' = "unconnected"
          /\ OnDisconnected
       \/ /\ socket = "connected"
          /\ socket' = "closing"
          /\ mReconnectTimer' = timer
          /\ UNCHANGED handlerUp
       \/ /\ socket # "connected"
          /\ mReconnectTimer' = timer
          /\ UNCHANGED <<socket, handlerUp>>
    /\ pendingClose' = (pendingClose \/ socket = "connecting")
    /\ wire' = <<>>
    /\ UNCHANGED <<greeted, sent>>

\* connectToHost does nothing but warn unless the socket is unconnected.
ConnectToHost ==
    /\ socket' = IF socket = "unconnected" THEN "connecting" ELSE socket
    /\ pendingClose' = (pendingClose /\ socket # "unconnected")
    /\ UNCHANGED <<wire, greeted, sent>>

-----------------------------------------------------------------------------
(* Calls of the application and of the timer. *)

\* Fault: the type of the socket is not stored.
ConnectTcp_noType ==
    /\ mSocketType \in {"NONE", "TCP"}
    /\ m_isAcknowledgeSeen' = FALSE
    /\ ConnectToHost
    /\ UNCHANGED <<mSocketType, mErrorCode, mReceiveBuffer, parsing>>

\* connectTcp, the first time and again: either way the acknowledge is forgotten.
ConnectTcp ==
    /\ mSocketType \in {"NONE", "TCP"}
    /\ mSocketType' = "TCP"
    /\ m_isAcknowledgeSeen' = FALSE
    /\ ConnectToHost
    /\ UNCHANGED <<mErrorCode, mReceiveBuffer, parsing>>

\* connectLocal returns -1 when it has been called before.
ConnectLocal ==
    /\ IF mSocketType = "NONE"
         THEN /\ mSocketType' = "LOCAL"
              /\ m_isAcknowledgeSeen' = FALSE
              /\ ConnectToHost
         ELSE UNCHANGED <<mSocketType, m_isAcknowledgeSeen, network>>
    /\ UNCHANGED <<mErrorCode, mReceiveBuffer, parsing>>

UserConnect ==
    /\ ~parsing /\ calls < MaxCalls
    /\ calls' = calls + 1
    /\ ConnectTcp \/ ConnectLocal
    /\ UNCHANGED <<mReconnectTimer, handlerUp, delivered, cleanStart, closedInside>>

UserClose ==
    /\ ~parsing /\ mSocketType # "NONE"
    /\ Close(mReconnectTimer)
    /\ UNCHANGED <<mSocketType, mErrorCode, m_isAcknowledgeSeen, mReceiveBuffer, parsing>>
    /\ UNCHANGED <<delivered, cleanStart, closedInside, calls>>

\* Fault: the timer is not a single-shot timer.
OnReconnectTimeout_repeats ==
    /\ ~parsing /\ mReconnectTimer
    /\ mReconnectTimer' = TRUE
    /\ IF mSocketType = "TCP" THEN ConnectTcp ELSE ConnectLocal
    /\ UNCHANGED observed

\* onReconnectTimeout.
OnReconnectTimeout ==
    /\ ~parsing /\ mReconnectTimer
    /\ mReconnectTimer' = FALSE
    /\ IF mSocketType = "TCP" THEN ConnectTcp ELSE ConnectLocal
    /\ UNCHANGED observed

-----------------------------------------------------------------------------
(* Events of the socket. *)

\* onConnected.  The greeting is written to a TCP socket only.  When close() came
\* first the socket turns to closing right after the signal.
OnConnected ==
    /\ ~parsing /\ socket = "connecting"
    /\ socket' = IF pendingClose THEN "closing" ELSE "connected"
    /\ pendingClose' = FALSE
    /\ mErrorCode' = "NONE"
    /\ m_isAcknowledgeSeen' = FALSE
    /\ greeted' = (mSocketType = "TCP")
    /\ wire' = <<>> /\ sent' = <<>> /\ delivered' = <<>>
    /\ cleanStart' = (mReceiveBuffer = <<>>)
    /\ UNCHANGED <<mSocketType, mReconnectTimer, mReceiveBuffer, parsing,
                   handlerUp, closedInside, calls>>

\* Fault: a failed attempt to connect starts no timer.
OnConnectError_noTimer ==
    /\ ~parsing /\ socket = "connecting"
    /\ socket' = "unconnected"
    /\ pendingClose' = FALSE
    /\ mErrorCode' = "EVENT"
    /\ UNCHANGED <<mSocketType, mReconnectTimer, m_isAcknowledgeSeen, mReceiveBuffer,
                   parsing, wire, greeted, sent, observed>>

\* onTcpSocketError, onLocalSocketError: no connection was made.
OnConnectError ==
    /\ ~parsing /\ socket = "connecting"
    /\ socket' = "unconnected"
    /\ pendingClose' = FALSE
    /\ mErrorCode' = "EVENT"
    /\ mReconnectTimer' = TRUE
    /\ UNCHANGED <<mSocketType, m_isAcknowledgeSeen, mReceiveBuffer, parsing,
                   wire, greeted, sent, observed>>

\* The peer closed or the connection broke: the error handler runs, its close()
\* lets the socket disconnect, then onDisconnected runs.
OnRemoteClosed ==
    /\ ~parsing /\ socket = "connected"
    /\ socket' = "unconnected"
    /\ wire' = <<>>
    /\ mErrorCode' = "EVENT"
    /\ OnDisconnected
    /\ UNCHANGED <<mSocketType, m_isAcknowledgeSeen, mReceiveBuffer, parsing, pendingClose,
                   greeted, sent, delivered, cleanStart, closedInside, calls>>

\* The data that held back the disconnection has been written.
Disconnected ==
    /\ ~parsing /\ socket = "closing"
    /\ socket' = "unconnected"
    /\ OnDisconnected
    /\ UNCHANGED <<mSocketType, mErrorCode, m_isAcknowledgeSeen, mReceiveBuffer, parsing,
                   pendingClose, wire, greeted, sent, delivered, cleanStart, closedInside, calls>>

\* The server acknowledges the greeting first, then sends what it likes.
ServerSend ==
    /\ ~parsing /\ socket = "connected" /\ greeted /\ Len(sent) < MaxSent
    /\ \E body \in IF sent = <<>> THEN {Ack} ELSE Bodies :
         /\ sent' = Append(sent, body)
         /\ wire' = wire \o Frame(body)
    /\ UNCHANGED <<adapter, observed, socket, pendingClose, greeted>>

-----------------------------------------------------------------------------
(* Receiving. *)

\* onReadyread and readHandler up to the parse loop: the next n bytes are there.
\* A header beyond the limit never leaves the buffer: what follows it is left out,
\* here and in ParseError.  (onConnected has reset mErrorCode: the loop is entered.)
Receive(n) ==
    /\ ~parsing /\ socket = "connected"
    /\ n \in 1 .. Len(wire)
    /\ mReceiveBuffer' = IF TooLong(mReceiveBuffer) THEN mReceiveBuffer
                         ELSE mReceiveBuffer \o SubSeq(wire, 1, n)
    /\ wire' = SubSeq(wire, n + 1, Len(wire))
    /\ parsing' = TRUE
    /\ UNCHANGED <<mSocketType, mReconnectTimer, mErrorCode, m_isAcknowledgeSeen,
                   socket, pendingClose, greeted, sent, observed>>

AtMessage == parsing /\ Complete(mReceiveBuffer)

ConsumeMessage ==
    /\ mReceiveBuffer' = AfterMessage(mReceiveBuffer)
    /\ UNCHANGED <<mSocketType, mErrorCode, parsing>>

\* The acknowledge: the receive handler learns of the connection.
ParseAck ==
    /\ AtMessage /\ ~m_isAcknowledgeSeen
    /\ Body(mReceiveBuffer) = Ack
    /\ m_isAcknowledgeSeen' = TRUE
    /\ handlerUp' = TRUE
    /\ ConsumeMessage
    /\ UNCHANGED <<mReconnectTimer, network, delivered, cleanStart, closedInside, calls>>

\* Any other message before it is dropped.
ParseNotAck ==
    /\ AtMessage /\ ~m_isAcknowledgeSeen
    /\ Body(mReceiveBuffer) # Ack
    /\ ConsumeMessage
    /\ UNCHANGED <<mReconnectTimer, m_isAcknowledgeSeen, network, observed>>

\* Fault: the handler gets messages before the acknowledge.
Deliver_early ==
    /\ AtMessage
    /\ Accepted(Body(mReceiveBuffer))
    /\ delivered' = Append(delivered, Body(mReceiveBuffer))
    /\ UNCHANGED <<mReconnectTimer, network, handlerUp, closedInside>>
    /\ ConsumeMessage
    /\ UNCHANGED <<m_isAcknowledgeSeen, cleanStart, calls>>

\* onMsgReceived.  A callback of the application may call close() from inside it.
Deliver ==
    /\ AtMessage /\ m_isAcknowledgeSeen
    /\ LET body == Body(mReceiveBuffer) IN
         /\ Accepted(body)
         /\ delivered' = Append(delivered, body)
    /\ \/ UNCHANGED <<mReconnectTimer, network, handlerUp, closedInside>>
       \/ Close(mReconnectTimer) /\ closedInside' = TRUE
    /\ ConsumeMessage
    /\ UNCHANGED <<m_isAcknowledgeSeen, cleanStart, calls>>

\* onMsgReceived returns false, or the length is beyond the limit.  The message
\* is left in the buffer; the error leads to close().
ParseError ==
    /\ parsing
    /\ mErrorCode' = IF TooLong(mReceiveBuffer) THEN "TOO_LONG" ELSE "BAD_MSG"
    /\ \/ TooLong(mReceiveBuffer)
       \/ AtMessage /\ m_isAcknowledgeSeen /\ ~Accepted(Body(mReceiveBuffer))
    /\ Close(TRUE)
    /\ mReceiveBuffer' = IF TooLong(mReceiveBuffer)
                           THEN SubSeq(mReceiveBuffer, 1, HeaderLen(mReceiveBuffer))
                           ELSE mReceiveBuffer
    /\ parsing' = FALSE
    /\ closedInside' = FALSE
    /\ UNCHANGED <<mSocketType, m_isAcknowledgeSeen, delivered, cleanStart, calls>>

\* Fault: the loop may end with a whole message in the buffer.
ParseEnd_early ==
    /\ parsing
    /\ ~TooLong(mReceiveBuffer)
    /\ parsing' = FALSE
    /\ closedInside' = FALSE
    /\ UNCHANGED <<mSocketType, mReconnectTimer, mErrorCode, m_isAcknowledgeSeen,
                   mReceiveBuffer, network, handlerUp, delivered, cleanStart, calls>>

\* Fault: mRxPending is reset although a part of a message is left.
ParseEnd_drops ==
    /\ parsing
    /\ ~Complete(mReceiveBuffer) /\ ~TooLong(mReceiveBuffer)
    /\ parsing' = FALSE
    /\ closedInside' = FALSE
    /\ mReceiveBuffer' = <<>>
    /\ UNCHANGED <<mSocketType, mReconnectTimer, mErrorCode, m_isAcknowledgeSeen,
                   network, handlerUp, delivered, cleanStart, calls>>

\* The rest is not a whole message: it stays in the buffer.
ParseEnd ==
    /\ parsing
    /\ ~Complete(mReceiveBuffer) /\ ~TooLong(mReceiveBuffer)
    /\ parsing' = FALSE
    /\ closedInside' = FALSE
    /\ UNCHANGED <<mSocketType, mReconnectTimer, mErrorCode, m_isAcknowledgeSeen,
                   mReceiveBuffer, network, handlerUp, delivered, cleanStart, calls>>

Parse == ParseAck \/ ParseNotAck \/ Deliver \/ ParseError \/ ParseEnd

Next ==
    \/ UserConnect \/ UserClose \/ OnReconnectTimeout
    \/ OnConnected \/ OnConnectError \/ OnRemoteClosed \/ Disconnected
    \/ ServerSend
    \/ \E n \in 1 .. Len(wire) : Receive(n)
    \/ Parse

\* The event loop runs what is due: the timer, the socket's events, the parse loop.
\* The network answers every attempt, and lets one succeed now and then; the server
\* sends its acknowledge.
Fairness ==
    /\ WF_vars(OnReconnectTimeout)
    /\ WF_vars(OnConnected \/ OnConnectError) /\ SF_vars(OnConnected)
    /\ WF_vars(Disconnected)
    /\ WF_vars(ServerSend)
    /\ WF_vars(\E n \in 1 .. Len(wire) : Receive(n))
    /\ WF_vars(Parse)

Spec == Init /\ [][Next]_vars

FairSpec == Spec /\ Fairness
-----------------------------------------------------------------------------
(* Properties. *)

\* The shape of the state; without a type there is no socket and no timer.
TypeOK ==
    /\ mSocketType \in {"NONE", "TCP", "LOCAL"}
    /\ mSocketType = "NONE" => socket = "unconnected" /\ ~mReconnectTimer
    /\ mReconnectTimer \in BOOLEAN
    /\ mErrorCode \in {"NONE", "EVENT", "BAD_MSG", "TOO_LONG"}
    /\ m_isAcknowledgeSeen \in BOOLEAN
    /\ mReceiveBuffer \in Seq(Nat)
    /\ parsing \in BOOLEAN
    /\ socket \in {"unconnected", "connecting", "connected", "closing"}
    /\ pendingClose \in BOOLEAN
    /\ wire \in Seq(Nat)
    /\ greeted \in BOOLEAN
    /\ sent \in Seq({Ack} \cup Bodies)
    /\ handlerUp \in BOOLEAN
    /\ delivered \in Seq(Seq(Nat))
    /\ cleanStart \in BOOLEAN
    /\ closedInside \in BOOLEAN
    /\ calls \in 0 .. MaxCalls

\* A TCP adapter that is not connected has its timer running, whichever of the
\* error, disconnect and close paths brought it there and in whatever order:
\* there is no state from which it would never try again.
NeverStranded == mSocketType = "TCP" /\ socket = "unconnected" => mReconnectTimer

\* The timer does not fire on a connection that is up or being made, where
\* connectTcp would forget the acknowledge (qrmf_socketadapter.cpp:133), as long
\* as the application has called connect only once.
TimerOnlyDown ==
    calls <= 1 /\ mReconnectTimer => socket \in {"unconnected", "closing"}

\* While the handler believes in the connection the adapter hands messages to it
\* instead of dropping them as messages before the acknowledge.
UpMeansAcknowledged ==
    calls <= 1 /\ handlerUp /\ socket = "connected" => m_isAcknowledgeSeen

\* What the server sent after its acknowledge.
Announced == SubSeq(sent, 2, Len(sent))

\* Whatever pieces the bytes come in, the handler gets the messages the server
\* sent on this connection, in order, none twice and none left out, if the buffer
\* was empty when the connection came up.
InOrder == cleanStart => IsPrefix(delivered, Announced)

\* No whole message waits in the buffer for bytes that may never come.
NothingWaits ==
    cleanStart /\ ~parsing /\ mErrorCode = "NONE" => ~Complete(mReceiveBuffer)

\* The handler gets a message only between onConnected and onDisconnected, unless
\* it closed the socket itself from inside the loop, which then goes on.
MessagesWhileUp ==
    [][Len(delivered') > Len(delivered) => handlerUp \/ closedInside]_vars

\* A TCP adapter keeps reaching the server, whatever closes the connection.
Reconnects == mSocketType = "TCP" ~> socket \in {"connected", "closing"}

\* The acknowledge is recognised however its bytes are cut, if the buffer was
\* empty when the connection came up.
Acknowledged ==
    socket = "connected" /\ greeted /\ cleanStart ~> handlerUp \/ socket # "connected"

\* No connection is lost or closed from outside any more, no attempt fails.
Quiet == <>[][~(OnRemoteClosed \/ UserClose \/ OnConnectError)]_vars

\* "trigger re-connection if seeing corrupted data" (qrmf_socketadapter.cpp:13):
\* the new connection is one the handler gets to use.
ReconnectRecovers == Quiet => (mErrorCode = "TOO_LONG" ~> handlerUp)
=============================================================================
