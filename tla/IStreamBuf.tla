----------------------------- MODULE IStreamBuf -----------------------------
(***************************************************************************)
(* QApxIStreamBuf (apx/src/qapx_stream.cpp): the parser of APX text and of *)
(* APX data messages.                                                      *)
(*                                                                         *)
(* write() appends a chunk to the buffer and parses from its start.  Its   *)
(* loop is split, one action per line or data message, because each calls  *)
(* the event handler; bytes and pos stand for its pointers pBegin and      *)
(* pNext into the bytes it reads, which are those of the buffer until      *)
(* reset() clears the buffer under them.                                   *)
(*                                                                         *)
(* Left out: the line counter and the last message type, which nothing     *)
(* reads but a log line and a getter without a caller.                     *)
(***************************************************************************)
EXTENDS OStreamBuf

VARIABLES
    asserts,      \* the build has Q_ASSERT: QT_NO_DEBUG is not defined
    mIsOpen,
    mParseState,  \* "NONE", "HEADER", "NODENAME_RQST", "NODENAME_RSP", ...
    mException,   \* an invalid declaration line was seen
    m_buf,
    pc,           \* where write() is: "idle", "loop", "data"; "aborted", "undefined"
    bytes,        \* what pBegin points at
    shared,       \* those bytes belong to the caller too: clearing m_buf frees nothing
    pos,          \* pNext - pBegin
    mark,         \* pNext - pBegin when parseDataMsg was called
    events        \* the calls of the event handler so far

loopVars == <<bytes, shared, mark>>
parserVars == <<mIsOpen, mParseState, mException, m_buf, pc, bytes, shared, pos, mark>>
istreamVars == <<asserts, parserVars, events>>

Event(ev) == [ev |-> ev]
NameEvent(ev, name) == [ev |-> ev, name |-> name]
LineEvent(ev, name, dsg, attr) == [ev |-> ev, name |-> name, dsg |-> dsg, attr |-> attr]
PortEvent(ev, port) == [ev |-> ev, port |-> port]
DataEvent(ev, port, data) == [ev |-> ev, port |-> port, data |-> data]
LenEvent(ev, port, len) == [ev |-> ev, port |-> port, len |-> len]

IStreamInit ==
    /\ asserts \in BOOLEAN
    /\ mIsOpen = FALSE /\ mParseState = "NONE" /\ mException = FALSE
    /\ m_buf = <<>>
    /\ pc = "idle" /\ bytes = <<>> /\ shared = FALSE /\ pos = 0 /\ mark = 0
    /\ events = <<>>

-----------------------------------------------------------------------------
(* open, close, and the frame of write. *)

Open ==
    /\ pc = "idle"
    /\ mIsOpen' = TRUE
    /\ UNCHANGED <<asserts, mParseState, mException, m_buf, pc, loopVars, pos, events>>

Close ==
    /\ pc = "idle"
    /\ mIsOpen' = FALSE
    /\ UNCHANGED <<asserts, mParseState, mException, m_buf, pc, loopVars, pos, events>>

\* Fault: the chunk is copied, as it would be into a buffer with reserved space.
Write_copies(chunk) ==
    /\ pc = "idle"
    /\ m_buf' = m_buf \o chunk
    /\ bytes' = m_buf' /\ shared' = FALSE
    /\ pos' = 0 /\ mark' = 0 /\ pc' = "loop"
    /\ UNCHANGED <<asserts, mIsOpen, mParseState, mException, events>>

\* write() up to the loop.  Appending to an empty QByteArray shares the chunk.
Write(chunk) ==
    /\ pc = "idle"
    /\ m_buf' = m_buf \o chunk
    /\ bytes' = m_buf' /\ shared' = (m_buf = <<>>)
    /\ pos' = 0 /\ mark' = 0 /\ pc' = "loop"
    /\ UNCHANGED <<asserts, mIsOpen, mParseState, mException, events>>

Drop(s, n) == SubSeq(s, n + 1, Len(s))

\* Fault: the bytes of an incomplete message are dropped with the others.
Finish_drops(n) ==
    /\ m_buf' = <<>>
    /\ pc' = "idle" /\ bytes' = <<>> /\ shared' = FALSE /\ pos' = 0 /\ mark' = 0

\* Fault: nothing is removed when the parser stopped behind the end.
Finish_pastEnd(n) ==
    /\ m_buf' = IF n > Len(m_buf) THEN m_buf ELSE Drop(m_buf, n)
    /\ pc' = "idle" /\ bytes' = <<>> /\ shared' = FALSE /\ pos' = 0 /\ mark' = 0

\* The end of write(): the first n bytes are done with.  n may be larger than the
\* buffer: right() of a negative length is empty.
Finish(n) ==
    /\ m_buf' = Drop(m_buf, n)
    /\ pc' = "idle" /\ bytes' = <<>> /\ shared' = FALSE /\ pos' = 0 /\ mark' = 0

\* A failed assertion ends the program.
Abort ==
    /\ asserts
    /\ pc' = "aborted"
    /\ UNCHANGED <<asserts, mIsOpen, mParseState, mException, m_buf, loopVars, pos, events>>

Emit(e) == events' = Append(events, e)

-----------------------------------------------------------------------------
(* Lines. *)

AtText == pc = "loop" /\ pos < Len(bytes) /\ bytes[pos + 1] < 128

\* Up to the end of the line, or of what there is when it is not there yet.
LineEnd == LET p == SearchUntil(bytes, pos + 1, NL) IN IF p = 0 THEN Len(bytes) ELSE p - 1
Line == SubSeq(bytes, pos + 1, LineEnd)

\* Fault: the end of a text message does not end the parse state.
EmptyLine_keepsState ==
    /\ AtText /\ Line = <<>>
    /\ mParseState' = mParseState
    /\ Emit(Event("endTextMsg"))
    /\ Finish(pos + 1)
    /\ UNCHANGED <<asserts, mIsOpen, mException>>

\* An empty line ends the text message and leaves the loop: what follows waits for
\* the next write.
EmptyLine ==
    /\ AtText /\ Line = <<>>
    /\ mParseState' = "NONE"
    /\ Emit(Event("endTextMsg"))
    /\ Finish(pos + 1)
    /\ UNCHANGED <<asserts, mIsOpen, mException>>

\* Fault: lines are taken to end with two characters.
NextLine_crlf ==
    /\ pos' = LineEnd + 2
    /\ pc' = "loop"
    /\ UNCHANGED <<asserts, mIsOpen, mException, m_buf, loopVars>>

\* parseLine returned true: on behind the line and its end, if it has one.
NextLine ==
    /\ pos' = LineEnd + 1
    /\ pc' = "loop"
    /\ UNCHANGED <<asserts, mIsOpen, mException, m_buf, loopVars>>

\* reset() within the loop, which then reads on in bytes that may have been freed.
Reset ==
    /\ mParseState' = "NONE" /\ mException' = FALSE
    /\ m_buf' = <<>>
    /\ pos' = LineEnd + 1
    /\ pc' = IF LineEnd + 1 < Len(bytes) /\ ~shared THEN "undefined" ELSE "loop"
    /\ UNCHANGED <<asserts, mIsOpen, loopVars, events>>

AssertThenReset == IF asserts THEN Abort ELSE Reset

IsHeader(l) ==
    /\ Len(l) = 4 /\ l[1] = APX /\ IsDigit(l[2]) /\ l[3] = Dot /\ IsDigit(l[4])

\* parseApxHeaderLine and its caller: the whole line, version 1.2 or a later 1.x.
HeaderLine ==
    /\ AtText /\ Line # <<>> /\ mParseState = "NONE"
    /\ IF ~IsHeader(Line) THEN AssertThenReset
       ELSE IF Line[2] = 49 /\ Line[4] >= 50
       THEN mParseState' = "HEADER" /\ NextLine /\ UNCHANGED events
       ELSE Reset

StartsWith(l, chars) == Len(l) >= Len(chars) /\ SubSeq(l, 1, Len(chars)) = chars

IsNameQuery(l) == StartsWith(l, <<63, 78, Quote>>)
IsNameAnswer(l) == StartsWith(l, <<43, 78, Quote>>)

\* The name in a query is reported when its closing quote is there.
EmitNodeQuery ==
    LET p == MatchPair(Line, 3, Quote, Quote)
    IN  IF p = 0 THEN UNCHANGED events
        ELSE Emit(NameEvent("nodeQueryRqst", SubSeq(Line, 4, p - 2)))

\* parseLine after a header: what the first line is about sets the state.
FirstLine ==
    /\ AtText /\ Line # <<>> /\ mParseState = "HEADER" /\ ~IsAlpha(Line[1])
    /\ \/ /\ StartsWith(Line, <<63, 78, 42>>)
          /\ mParseState' = "NODENAME_RQST"
          /\ Emit(Event("nodeNameRqst")) /\ NextLine
       \/ /\ IsNameQuery(Line)
          /\ mParseState' = "NODEQUERY_RQST"
          /\ EmitNodeQuery /\ NextLine
       \/ /\ IsNameAnswer(Line)
          /\ mParseState' = "NODENAME_RSP"
          /\ UNCHANGED events /\ NextLine
       \/ /\ StartsWith(Line, <<63, 78>>)
          /\ ~StartsWith(Line, <<63, 78, 42>>) /\ ~IsNameQuery(Line)
          /\ IF asserts THEN Abort ELSE UNCHANGED <<mParseState, events>> /\ NextLine
       \/ /\ ~StartsWith(Line, <<63, 78>>) /\ ~IsNameAnswer(Line)
          /\ UNCHANGED <<mParseState, events>> /\ NextLine

\* A second line after a question for names, or one of another kind among answers
\* and questions, is unexpected.
DiscoveryLine ==
    /\ AtText /\ Line # <<>>
    /\ \/ /\ mParseState = "NODENAME_RQST"
          /\ AssertThenReset
       \/ /\ mParseState = "NODENAME_RSP"
          /\ IF IsNameAnswer(Line) THEN UNCHANGED <<mParseState, events>> /\ NextLine
             ELSE AssertThenReset
       \/ /\ mParseState = "NODEQUERY_RQST"
          /\ IF IsNameQuery(Line) THEN UNCHANGED mParseState /\ EmitNodeQuery /\ NextLine
             ELSE AssertThenReset

-----------------------------------------------------------------------------
(* Declaration lines: a letter, a name in quotes, a data signature and, behind *)
(* a colon, attributes.                                                    *)

\* Position behind the name, 0 when the line is not a declaration.
NameEnd(l) == MatchPair(l, 2, Quote, Quote)

\* Position of the colon, which counts only behind a signature, else 0.
ColonAt(l) ==
    LET p == NameEnd(l)
        q == SearchUntil(l, p, Colon)
    IN  IF q > p THEN q ELSE 0

DeclName(l) == SubSeq(l, 3, NameEnd(l) - 2)
DeclDsg(l) == SubSeq(l, NameEnd(l), IF ColonAt(l) = 0 THEN Len(l) ELSE ColonAt(l) - 1)

\* The step over the colon is inside a Q_ASSERT: without it the colon stays.
DeclAttr(l) ==
    IF ColonAt(l) = 0 THEN <<>>
    ELSE SubSeq(l, IF asserts THEN ColonAt(l) + 1 ELSE ColonAt(l), Len(l))

\* parseDeclaration
EmitDeclaration(l) ==
    CASE l[1] = 78 -> Emit(NameEvent("nodeQueryRspStart", DeclName(l)))
      [] l[1] = 84 -> Emit(LineEvent("typedef", DeclName(l), DeclDsg(l), DeclAttr(l)))
      [] l[1] = 80 -> Emit(LineEvent("provide", DeclName(l), DeclDsg(l), DeclAttr(l)))
      [] l[1] = 82 -> Emit(LineEvent("require", DeclName(l), DeclDsg(l), DeclAttr(l)))
      [] OTHER -> UNCHANGED events

\* A colon with nothing behind it fails an assertion.
Declaration ==
    /\ AtText /\ Line # <<>> /\ IsAlpha(Line[1])
    /\ mParseState \in {"HEADER", "NODEQUERY_RSP"}
    /\ NameEnd(Line) # 0
    /\ IF asserts /\ ColonAt(Line) = Len(Line) THEN Abort
       ELSE mParseState' = "NODEQUERY_RSP" /\ EmitDeclaration(Line) /\ NextLine

\* As the first line of a message: everything is forgotten.
BadFirstDeclaration ==
    /\ AtText /\ Line # <<>> /\ IsAlpha(Line[1]) /\ mParseState = "HEADER"
    /\ NameEnd(Line) = 0
    /\ AssertThenReset

\* Later: write() returns and leaves the buffer as it is, parsed lines included.
BadDeclaration ==
    /\ AtText /\ Line # <<>> /\ IsAlpha(Line[1]) /\ mParseState = "NODEQUERY_RSP"
    /\ NameEnd(Line) = 0
    /\ mException' = TRUE
    /\ pc' = "idle" /\ bytes' = <<>> /\ shared' = FALSE /\ pos' = 0 /\ mark' = 0
    /\ UNCHANGED <<asserts, mIsOpen, mParseState, m_buf, events>>

\* Lines that start with no letter are skipped among declarations.
OtherLine ==
    /\ AtText /\ Line # <<>> /\ ~IsAlpha(Line[1]) /\ mParseState = "NODEQUERY_RSP"
    /\ UNCHANGED <<mParseState, events>> /\ NextLine

-----------------------------------------------------------------------------
(* Data messages. *)

AtData == pc = "data" /\ pos < Len(bytes)

\* The header byte of the message: its kind of length and its type.
MsgHeader == bytes[pos + 1]
LValType == (MsgHeader \div 16) % 8
MsgType == MsgHeader % 16

\* Cells of the header, whether they are all there, and the length they give.
HeaderLen == 1 + LengthBytes(LValType)
HasHeader == pos + HeaderLen <= Len(bytes)
MsgLen ==
    CASE LValType = APX_LEN_INHERIT -> Len(bytes) - mark
      [] LValType \in {APX_LEN_BYTE, APX_LEN_SHORT, APX_LEN_LONG} ->
           FromBigEndian(SubSeq(bytes, pos + 2, pos + HeaderLen))
      [] OTHER -> LValType

Complete == HasHeader /\ MsgLen > 0 /\ pos + HeaderLen + MsgLen <= Len(bytes)

\* The first two bytes of a message that has them are the port.
MsgBody == SubSeq(bytes, pos + HeaderLen + 1, pos + HeaderLen + MsgLen)
PortId == IF MsgLen >= 2 THEN FromBigEndian(SubSeq(MsgBody, 1, 2)) ELSE 0
MsgData == IF MsgLen >= 2 THEN Drop(MsgBody, 2) ELSE MsgBody

\* parseDataLen: lengths of one, two or four bytes.
DataLen(data) == IF Len(data) \in {1, 2, 4} THEN FromBigEndian(data) ELSE 0

\* The call of the handler; other types are skipped.
EmitMessage ==
    CASE MsgType = APX_MSG.write -> Emit(DataEvent("dataWrite", PortId, MsgData))
      [] MsgType = APX_MSG.invoke -> Emit(DataEvent("opInvoke", PortId, MsgData))
      [] MsgType = APX_MSG.return -> Emit(DataEvent("opReturn", PortId, MsgData))
      [] MsgType = APX_MSG.rconnect ->
           Emit(LenEvent("requirePortConnect", PortId, DataLen(MsgData)))
      [] MsgType = APX_MSG.pconnect ->
           Emit(LenEvent("providePortConnect", PortId, DataLen(MsgData)))
      [] MsgType = APX_MSG.read -> Emit(PortEvent("dataRead", PortId))
      [] MsgType = APX_MSG.rdisconnect -> Emit(PortEvent("requirePortDisconnect", PortId))
      [] MsgType = APX_MSG.pdisconnect -> Emit(PortEvent("providePortDisconnect", PortId))
      [] MsgType = APX_MSG.rerror -> Emit(PortEvent("requirePortError", PortId))
      [] MsgType = APX_MSG.perror -> Emit(PortEvent("providePortError", PortId))
      [] OTHER -> UNCHANGED events

\* The flag of a first byte sends the loop into parseDataMsg.
EnterData ==
    /\ pc = "loop" /\ pos < Len(bytes) /\ bytes[pos + 1] >= 128
    /\ pc' = "data" /\ mark' = pos
    /\ UNCHANGED <<asserts, mIsOpen, mParseState, mException, m_buf, bytes, shared,
                   pos, events>>

\* A message is handed out.  The next byte is taken for a header, whatever it is.
Message ==
    /\ AtData /\ Complete
    /\ EmitMessage
    /\ pos' = pos + HeaderLen + MsgLen
    /\ UNCHANGED <<asserts, mIsOpen, mParseState, mException, m_buf, pc, loopVars>>

\* Fault: a message that has not arrived is waited for in the same call.
Incomplete_waits ==
    /\ AtData /\ ~Complete
    /\ UNCHANGED istreamVars

\* It is not complete, or of no length: parseDataMsg returns where it was called, so
\* what it has handed out stays in the buffer too.
Incomplete ==
    /\ AtData /\ ~Complete
    /\ Finish(mark)
    /\ UNCHANGED <<asserts, mIsOpen, mParseState, mException, events>>

LeaveData ==
    /\ pc = "data" /\ pos >= Len(bytes)
    /\ pc' = "loop"
    /\ UNCHANGED <<asserts, mIsOpen, mParseState, mException, m_buf, loopVars, pos, events>>

WriteEnd ==
    /\ pc = "loop" /\ pos >= Len(bytes)
    /\ Finish(pos)
    /\ UNCHANGED <<asserts, mIsOpen, mParseState, mException, events>>

TextLoop ==
    \/ EmptyLine \/ HeaderLine \/ FirstLine \/ DiscoveryLine
    \/ Declaration \/ BadFirstDeclaration \/ BadDeclaration \/ OtherLine
    \/ EnterData \/ WriteEnd

DataLoop == Message \/ Incomplete \/ LeaveData

IStreamTypeOK ==
    /\ asserts \in BOOLEAN /\ mIsOpen \in BOOLEAN /\ mException \in BOOLEAN
    /\ mParseState \in {"NONE", "HEADER", "NODENAME_RQST", "NODENAME_RSP",
                        "NODEQUERY_RQST", "NODEQUERY_RSP"}
    /\ pc \in {"idle", "loop", "data", "aborted", "undefined"}
    /\ m_buf \in Seq(0 .. 255) /\ bytes \in Seq(0 .. 255)
    /\ shared \in BOOLEAN
    /\ pos \in 0 .. Len(bytes) + 1 /\ mark \in 0 .. pos
    /\ m_buf \in {bytes, <<>>} \/ pc \notin {"loop", "data"}
    /\ pc = "data" => pos <= Len(bytes) /\ mark < Len(bytes)
=============================================================================
