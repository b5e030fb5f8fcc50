------------------------------ MODULE NumHeader ------------------------------
(***************************************************************************)
(* The length headers of RemoteFile messages                               *)
(* (remotefile/src/qnumheader.cpp) and the order of bytes in a number      *)
(* (QtEndian), for bytes with any number of values.                        *)
(***************************************************************************)
EXTENDS Integers, Sequences

CONSTANT Radix    \* values of a byte; 256 in the code

\* Two bits of a byte have names, and a byte holds the numbers of the commands' bytes.
ASSUME ByteValues == Radix \in Nat /\ Radix >= 8 /\ Radix % 4 = 0

Byte == 0 .. Radix - 1
Page == Radix * Radix
LongBit == Radix \div 2

\* Values of 15 and of 31 bits.
Half16 == LongBit * Radix
Half32 == LongBit * (Radix * Page)

Big2(v) == <<v \div Radix, v % Radix>>
FromBig2(b) == Radix * b[1] + b[2]

Big4(v) ==
    LET high == v \div Page
        low == v % Page
    IN  <<high \div Radix, high % Radix, low \div Radix, low % Radix>>
FromBig4(b) == Page * (Radix * b[1] + b[2]) + (Radix * b[3] + b[4])

\* The bytes of v, least significant first.
Little4(v) == <<Big4(v)[4], Big4(v)[3], Big4(v)[2], Big4(v)[1]>>
FromLittle4(b) == FromBig4(<<b[4], b[3], b[2], b[1]>>)

-----------------------------------------------------------------------------
(* The result of writing: the number of bytes, 0 when there is no room for *)
(* them, -1 when a number cannot be written; of reading: 0 when bytes are  *)
(* missing, -1 when there are none.                                        *)

Written(bytes, room) ==
    IF Len(bytes) <= room THEN [len |-> Len(bytes), bytes |-> bytes]
    ELSE [len |-> 0, bytes |-> <<>>]
OutOfRange == [len |-> -1, bytes |-> <<>>]

Read(len, value) == [len |-> len, value |-> value]

ShortLimit == LongBit - 1               \* NUMHEADER_SHORT_MSG_LIMIT
Limit16 == Half16 + ShortLimit          \* NUMHEADER16_LONG_MSG_LIMIT
Limit32 == Half32 - 1                   \* NUMHEADER32_LONG_MSG_LIMIT

SetLong(b) == [b EXCEPT ![1] = @ + LongBit]

\* Numbers from Half16 on take the codes that the short form leaves free.
Encode16(room, value) ==
    IF value <= ShortLimit THEN Written(<<value>>, room)
    ELSE IF value <= Limit16
    THEN Written(SetLong(Big2(IF value >= Half16 THEN value - Half16 ELSE value)), room)
    ELSE OutOfRange

Decode16(bytes) ==
    IF bytes = <<>> THEN Read(-1, 0)
    ELSE IF bytes[1] < LongBit THEN Read(1, bytes[1])
    ELSE IF Len(bytes) < 2 THEN Read(0, 0)
    ELSE LET low == FromBig2(bytes) % Half16
         IN  Read(2, IF low < LongBit THEN low + Half16 ELSE low)

Encode32(room, value) ==
    IF value <= ShortLimit THEN Written(<<value>>, room)
    ELSE IF value <= Limit32 THEN Written(SetLong(Big4(value)), room)
    ELSE OutOfRange

Decode32(bytes) ==
    IF bytes = <<>> THEN Read(-1, 0)
    ELSE IF bytes[1] < LongBit THEN Read(1, bytes[1])
    ELSE IF Len(bytes) < 4 THEN Read(0, 0)
    ELSE Read(4, FromBig4(bytes) % Half32)
=============================================================================
