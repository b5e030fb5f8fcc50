----------------------------- MODULE OStreamBuf -----------------------------
(***************************************************************************)
(* What QApxOStreamBuf (apx/src/qapx_stream.cpp) appends to its buffer.    *)
(*                                                                         *)
(* A cell of the stream is a character, below 128, a header byte, from 128 *)
(* on, or a byte of a number or of data, below Radix; "APX/" is one cell.   *)
(***************************************************************************)
EXTENDS TextScan

CONSTANT Radix   \* the number of values of a byte that is no header byte

ASSUME RadixAssumption == Radix \in 5 .. 256

APX == 65
Dot == 46
Colon == 58

-----------------------------------------------------------------------------
(* Text messages. *)

\* apxStartTextMsg, with the default version 1.2.
StartTextMsg == <<APX, 49, Dot, 50, NL>>

\* apxEndTextMsg
EndTextMsg == <<NL>>

\* apxNodeNameRqst: ?N*
NodeNameRqst == <<63, 78, 42, NL>>

\* apxNodeNameRsp: +N"name"
NodeNameRsp(name) == IF name = <<>> THEN <<>> ELSE <<43, 78, Quote>> \o name \o <<Quote, NL>>

\* apxNodeQueryRqst: ?N"name"
NodeQueryRqst(name) == IF name = <<>> THEN <<>> ELSE <<63, 78, Quote>> \o name \o <<Quote, NL>>

\* apxDeclarationLine: a name and a signature are required.
DeclarationLine(type, name, dsg, attr) ==
    IF name = <<>> \/ dsg = <<>> THEN <<>>
    ELSE <<type, Quote>> \o name \o <<Quote>> \o dsg
           \o (IF attr = <<>> THEN <<>> ELSE <<Colon>> \o attr) \o <<NL>>

\* apxNodeTypedef, apxNodeProvide, apxNodeRequire
LineType == [typedef |-> 84, provide |-> 80, require |-> 82]

\* nodeDim: the numbers of types and ports in parentheses, one digit each.
NodeDim(types, provides, requires) ==
    <<40, 48 + types, 44, 48 + provides, 44, 48 + requires, 41>>

\* apxNodeQueryRspStart
NodeQueryRspStart(name, types, provides, requires) ==
    DeclarationLine(78, name, NodeDim(types, provides, requires), <<>>)

-----------------------------------------------------------------------------
(* Data messages. *)

APX_MSG == [read |-> 1, write |-> 2, invoke |-> 3, return |-> 4,
            rconnect |-> 5, rdisconnect |-> 6, pconnect |-> 7, pdisconnect |-> 8,
            rerror |-> 9, perror |-> 10]

APX_LEN_INHERIT == 0
APX_LEN_BYTE == 5
APX_LEN_SHORT == 6
APX_LEN_LONG == 7

\* What the byte before n others counts, and how many numbers n bytes hold.
Power == [n \in 0 .. 4 |->
            CASE n = 0 -> 1 [] n = 1 -> Radix [] n = 2 -> Radix * Radix
              [] n = 3 -> Radix * Radix * Radix [] OTHER -> Radix * Radix * Radix * Radix]

\* qToBigEndian of n bytes.
BigEndian(v, n) == [i \in 1 .. n |-> (v \div Power[n-i]) % Radix]

\* qFromBigEndian
FromBigEndian(b) ==
    LET number[n \in 0 .. Len(b)] == IF n = 0 THEN 0 ELSE number[n-1] * Radix + b[n]
    IN  number[Len(b)]

LengthType(n) ==
    IF n < 5 THEN n
    ELSE IF n < Radix THEN APX_LEN_BYTE
    ELSE IF n < Power[2] THEN APX_LEN_SHORT ELSE APX_LEN_LONG

\* The bytes a length takes behind the header byte.
LengthBytes(type) ==
    CASE type = APX_LEN_BYTE -> 1 [] type = APX_LEN_SHORT -> 2
      [] type = APX_LEN_LONG -> 4 [] OTHER -> 0

\* apxDataMsg
DataMsg(type, portId, data) ==
    LET n == 2 + Len(data)
        t == LengthType(n)
    IN  <<128 + 16 * t + type>> \o BigEndian(n, LengthBytes(t)) \o BigEndian(portId, 2) \o data

\* apxRequirePortConnect, apxProvidePortConnect: the length of the data in as few
\* bytes as hold it.
ConnectData(dataLen) ==
    BigEndian(dataLen, IF dataLen < Radix THEN 1 ELSE IF dataLen < Power[2] THEN 2 ELSE 4)

\* What the senders of data messages pass to apxDataMsg: both calls and returns are
\* sent as writes.
Operation(op, portId, data, dataLen) ==
    CASE op \in {"write", "invoke", "return"} -> DataMsg(APX_MSG.write, portId, data)
      [] op \in {"rconnect", "pconnect"} -> DataMsg(APX_MSG[op], portId, ConnectData(dataLen))
      [] OTHER -> DataMsg(APX_MSG[op], portId, <<>>)
=============================================================================
