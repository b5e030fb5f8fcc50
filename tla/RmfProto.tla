------------------------------ MODULE RmfProto ------------------------------
(***************************************************************************)
(* The bodies of RemoteFile messages (remotefile/src/qrmf_proto.cpp): an   *)
(* address, and behind the command address a command.  The byte order is   *)
(* the one the callers take: addresses big-endian, commands little-endian. *)
(***************************************************************************)
EXTENDS NumHeader

CONSTANTS
    DigestSize,    \* RMF_DIGEST_SIZE
    MaxName        \* RMF_MAXLEN_FILE_NAME

ASSUME InfoSizes == DigestSize \in Nat /\ MaxName \in Nat

MoreBit == Radix \div 4

\* The first addresses that do not fit in 14 and in 30 bits.
High == MoreBit * Radix
TooHigh == MoreBit * (Radix * Page)

RMF_CMD_START_ADDR == TooHigh - 4 * Radix

RMF_CMD_FILE_INFO == 3
RMF_CMD_FILE_OPEN == 10
RMF_CMD_FILE_CLOSE == 11

Behind(bytes, n) == SubSeq(bytes, n + 1, Len(bytes))

-----------------------------------------------------------------------------
(* Addresses. *)

WithMore(b, more) == IF more THEN [b EXCEPT ![1] = @ + MoreBit] ELSE b

PackHeader(room, address, more) ==
    IF address < High THEN Written(WithMore(Big2(address), more), room)
    ELSE IF address < TooHigh THEN Written(WithMore(SetLong(Big4(address)), more), room)
    ELSE OutOfRange

\* At least one byte is there.
UnpackHeader(bytes) ==
    LET more == (bytes[1] \div MoreBit) % 2 = 1
        Header(len, address) == [len |-> len, address |-> address, more |-> more]
    IN  IF bytes[1] >= LongBit
        THEN IF Len(bytes) >= 4 THEN Header(4, FromBig4(bytes) % TooHigh) ELSE Header(0, 0)
        ELSE IF Len(bytes) >= 2 THEN Header(2, FromBig2(bytes) % High) ELSE Header(0, 0)

-----------------------------------------------------------------------------
(* Commands.  Reading gives -2 when it is another command. *)

\* FILE_OPEN and FILE_CLOSE.
PackCommand(room, cmd, address) == Written(Little4(cmd) \o Little4(address), room)

UnpackCommand(bytes, cmd) ==
    IF Len(bytes) < 8 THEN Read(0, 0)
    ELSE IF FromLittle4(bytes) # cmd THEN Read(-2, 0)
    ELSE Read(8, FromLittle4(Behind(bytes, 4)))

FileInfoBaseLen == 16 + DigestSize

\* File type, digest type and digest are those of every File of the program: zero.
NoDigest == [i \in 1 .. 4 + DigestSize |-> 0]

PackFileInfo(room, file) ==
    Written(Little4(RMF_CMD_FILE_INFO) \o Little4(file.address) \o Little4(file.length)
              \o NoDigest \o file.name \o <<0>>, room)

\* What is behind the fixed part, without the zero that ends it if it is there.  (For
\* names that are shorter than MaxName: of a longer one a byte behind it is looked at.)
NameIn(chars) ==
    IF chars # <<>> /\ chars[Len(chars)] = 0 THEN SubSeq(chars, 1, Len(chars) - 1) ELSE chars

UnpackFileInfo(bytes) ==
    LET Info(len, address, length, name) ==
          [len |-> len, address |-> address, length |-> length, name |-> name]
    IN  IF Len(bytes) < FileInfoBaseLen THEN Info(0, 0, 0, <<>>)
        ELSE IF FromLittle4(bytes) # RMF_CMD_FILE_INFO THEN Info(-2, 0, 0, <<>>)
        ELSE Info(Len(bytes), FromLittle4(Behind(bytes, 4)), FromLittle4(Behind(bytes, 8)),
                  NameIn(Behind(bytes, FileInfoBaseLen)))
=============================================================================
