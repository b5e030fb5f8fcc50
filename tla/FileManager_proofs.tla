------------------------- MODULE FileManager_proofs -------------------------
(***************************************************************************)
(* What the operators of RmfProto and FileManager do: what is written is   *)
(* what is read, for a byte of any size, the bytes of every message mean   *)
(* the message to the other side, a queue grows by what is sent, and the   *)
(* files of the node get addresses of their own.                           *)
(***************************************************************************)
EXTENDS FileManager, FileMapOps_proofs, SequenceTheorems, TLAPS

-----------------------------------------------------------------------------
(* Numbers and their digits. *)

\* The bits of a byte that have names.
LEMMA Sizes ==
    /\ Radix \in Nat /\ Radix >= 8
    /\ LongBit \in Nat /\ Radix = 2 * LongBit
    /\ MoreBit \in Nat /\ LongBit = 2 * MoreBit /\ MoreBit >= 2
BY ByteValues DEF LongBit, MoreBit

\* Division leaves a remainder below the divisor.
LEMMA Division ==
    ASSUME NEW a \in Nat, NEW b \in Nat \ {0}
    PROVE  /\ a \div b \in Nat /\ a % b \in 0 .. b - 1
           /\ a = b * (a \div b) + (a % b)
<1>1. a \div b \in Nat /\ a % b \in 0 .. b - 1
  OBVIOUS
<1>2. a = b * (a \div b) + (a % b)
  OBVIOUS
<1> QED BY <1>1, <1>2

\* The quotient of a number below b * c is below c.
LEMMA Quotient ==
    ASSUME NEW a \in Nat, NEW b \in Nat \ {0}, NEW c \in Nat, a < b * c
    PROVE  a \div b < c
OBVIOUS

\* A multiple of b does not change the remainder.
LEMMA Remainder ==
    ASSUME NEW q \in Nat, NEW b \in Nat \ {0}, NEW r \in 0 .. b - 1
    PROVE  (b * q + r) \div b = q /\ (b * q + r) % b = r
OBVIOUS

\* Products of numbers, in either order.
LEMMA Product ==
    ASSUME NEW a \in Nat, NEW b \in Nat
    PROVE  a * b \in Nat /\ a * b = b * a
OBVIOUS

\* The limits are the half, the quarter and the eighth of what two and four bytes hold.
LEMMA Powers ==
    /\ Page \in Nat \ {0} /\ Radix * Page \in Nat
    /\ Half16 \in Nat /\ Half16 + Half16 = Page
    /\ Half32 \in Nat /\ Half32 + Half32 = Page * Page
    /\ High \in Nat /\ High + High = Half16
    /\ TooHigh \in Nat /\ TooHigh + TooHigh = Half32
BY Sizes DEF Page, Half16, Half32, High, TooHigh

\* A number below n times Radix has two digits, the first of them below n.
LEMMA TwoDigits ==
    ASSUME NEW n \in Nat, n <= Radix, NEW v \in Nat, v < n * Radix
    PROVE  /\ Big2(v) = <<v \div Radix, v % Radix>>
           /\ v \div Radix \in 0 .. n - 1 /\ v % Radix \in Byte
           /\ v = Radix * (v \div Radix) + (v % Radix)
<1>1. Radix \in Nat \ {0}
  BY Sizes
<1>2. v < Radix * n
  BY Product, <1>1
<1>3. v \div Radix < n
  BY Quotient, <1>1, <1>2
<1>4. /\ v \div Radix \in Nat /\ v % Radix \in 0 .. Radix - 1
      /\ v = Radix * (v \div Radix) + (v % Radix)
  BY <1>1, Division
<1>5. v \div Radix \in 0 .. n - 1
  BY <1>3, <1>4
<1> QED BY <1>4, <1>5 DEF Big2, Byte

\* A number below n times Radix^3 has four digits, the first of them below n.
LEMMA FourDigits ==
    ASSUME NEW n \in Nat, n <= Radix, NEW v \in Nat, v < n * (Radix * Page)
    PROVE  /\ Len(Big4(v)) = 4
           /\ Big4(v)[1] \in 0 .. n - 1
           /\ Big4(v)[2] \in Byte /\ Big4(v)[3] \in Byte /\ Big4(v)[4] \in Byte
           /\ FromBig4(Big4(v)) = v
<1> DEFINE high == v \div Page
           low == v % Page
<1>1. Radix \in Nat \ {0} /\ Page \in Nat \ {0} /\ Page = Radix * Radix
  BY Sizes, Powers DEF Page
<1>2. high \in Nat /\ low \in 0 .. Page - 1 /\ v = Page * high + low
  BY <1>1, Division
<1>3. n * Radix \in Nat /\ n * (Radix * Page) = Page * (n * Radix)
  BY <1>1
<1>4. high < n * Radix
  BY <1>1, <1>3, Quotient
<1> HIDE DEF high, low
<1>5. /\ high \div Radix \in 0 .. n - 1 /\ high % Radix \in Byte
      /\ high = Radix * (high \div Radix) + (high % Radix)
  BY <1>2, <1>4, TwoDigits
<1>6. low < Radix * Radix
  BY <1>1, <1>2
<1>7. /\ low \div Radix \in Byte /\ low % Radix \in Byte
      /\ low = Radix * (low \div Radix) + (low % Radix)
  <2>1. Radix \in Nat /\ Radix <= Radix /\ low \in Nat
    BY <1>1, <1>2
  <2> QED BY <1>6, <2>1, TwoDigits, Zenon DEF Byte
<1>8. Big4(v) = <<high \div Radix, high % Radix, low \div Radix, low % Radix>>
  BY DEF Big4, high, low
<1>9. FromBig4(Big4(v)) = Page * high + low
  <2>1. FromBig4(Big4(v)) = Page * (Radix * (high \div Radix) + (high % Radix))
                              + (Radix * (low \div Radix) + (low % Radix))
    BY <1>8 DEF FromBig4
  <2> QED BY <2>1, <1>5, <1>7
<1> QED BY <1>2, <1>5, <1>7, <1>8, <1>9

\* What k more in the first digit adds to a number.
LEMMA Shifted ==
    ASSUME NEW p \in Nat, NEW r \in Nat, NEW k \in Nat, NEW x \in Int, NEW y \in Int
    PROVE  p * (r * (x + k) + y) = k * (r * p) + p * (r * x + y)
OBVIOUS

\* Bytes keep their places when others follow.
LEMMA Joined ==
    ASSUME NEW b \in Seq(Byte), NEW rest \in Seq(Byte)
    PROVE  /\ b \o rest \in Seq(Byte)
           /\ Len(b \o rest) = Len(b) + Len(rest)
           /\ Len(b) \in Nat /\ Len(rest) \in Nat
           /\ \A i \in 1 .. Len(b) : (b \o rest)[i] = b[i]
BY ConcatProperties, LenProperties

\* Bytes for which there is room are written.
LEMMA Fitting ==
    ASSUME NEW b, NEW room \in Nat, NEW n \in Nat, Len(b) = n, n <= room
    PROVE  Written(b, room) = [len |-> n, bytes |-> b]
BY DEF Written

\* Bytes with bits set in the first.
Marked(b, k) == [b EXCEPT ![1] = @ + k]

\* The four bytes of a number below n times Radix^3 leave room for bits worth k in the
\* first, and the number can be read with them, whatever follows.
LEMMA MarkedDigits ==
    ASSUME NEW n \in Nat, NEW k \in Nat, n + k <= Radix,
           NEW v \in Nat, v < n * (Radix * Page), NEW rest \in Seq(Byte)
    PROVE  /\ Marked(Big4(v), k) \o rest # <<>>
           /\ Len(Marked(Big4(v), k) \o rest) >= 4
           /\ (Marked(Big4(v), k) \o rest)[1] \in k .. k + n - 1
           /\ Marked(Big4(v), k) \in Seq(Byte) /\ Len(Marked(Big4(v), k)) = 4
           /\ Marked(Big4(v), k) \o rest \in Seq(Byte)
           /\ FromBig4(Marked(Big4(v), k) \o rest) = k * (Radix * Page) + v
<1> DEFINE d == Big4(v)
           c == Marked(d, k)
           b == c \o rest
<1>0. n <= Radix /\ Radix \in Nat /\ Page \in Nat /\ Radix * Page \in Nat
  BY Sizes, Powers
<1>1. /\ d[1] \in 0 .. n - 1 /\ d[2] \in Byte /\ d[3] \in Byte /\ d[4] \in Byte
      /\ FromBig4(d) = v
  BY <1>0, FourDigits
<1>2. c = <<d[1] + k, d[2], d[3], d[4]>>
  BY DEF Big4, Marked
<1> HIDE DEF d
<1>3. c[1] = d[1] + k /\ c[2] = d[2] /\ c[3] = d[3] /\ c[4] = d[4] /\ Len(c) = 4
  BY <1>2
<1>4. c \in Seq(Byte)
  <2>1. d[1] + k \in Byte
    BY <1>0, <1>1, SMTT(30) DEF Byte
  <2>2. \A e1, e2, e3, e4 \in Byte : <<e1, e2, e3, e4>> \in Seq(Byte)
    OBVIOUS
  <2>3. d[2] \in Byte /\ d[3] \in Byte /\ d[4] \in Byte
    BY <1>1
  <2>4. <<d[1] + k, d[2], d[3], d[4]>> \in Seq(Byte)
    BY <2>1, <2>2, <2>3, Zenon
  <2> QED BY <1>2, <2>4, Zenon
<1> HIDE DEF c
<1>5. /\ b \in Seq(Byte) /\ Len(b) >= 4 /\ Len(b) \in Nat
      /\ b[1] = c[1] /\ b[2] = c[2] /\ b[3] = c[3] /\ b[4] = c[4]
  <2>1. 1 \in 1 .. Len(c) /\ 2 \in 1 .. Len(c) /\ 3 \in 1 .. Len(c) /\ 4 \in 1 .. Len(c)
    BY <1>3
  <2>2. b[1] = c[1] /\ b[2] = c[2] /\ b[3] = c[3] /\ b[4] = c[4]
    BY <1>4, <2>1, Joined, Zenon
  <2>3. b \in Seq(Byte) /\ Len(b) = 4 + Len(rest) /\ Len(rest) \in Nat
    <3>1. /\ c \o rest \in Seq(Byte) /\ Len(c \o rest) = Len(c) + Len(rest)
          /\ Len(rest) \in Nat
      BY <1>4, Joined, Zenon
    <3> QED BY <1>3, <3>1
  <2> QED BY <2>2, <2>3
<1> HIDE DEF b
<1>6. FromBig4(b) = k * (Radix * Page) + v
  <2>1. FromBig4(b) = Page * (Radix * (d[1] + k) + d[2]) + (Radix * d[3] + d[4])
    BY <1>3, <1>5 DEF FromBig4
  <2>2. v = Page * (Radix * d[1] + d[2]) + (Radix * d[3] + d[4])
    BY <1>1 DEF FromBig4
  <2>3. d[1] \in Int /\ d[2] \in Int /\ d[3] \in Int /\ d[4] \in Int
    BY <1>0, <1>1 DEF Byte
  <2>4. Page * (Radix * (d[1] + k) + d[2])
          = k * (Radix * Page) + Page * (Radix * d[1] + d[2])
    BY <1>0, <2>3, Shifted, SMTT(30)
  <2>5. /\ Page * (Radix * d[1] + d[2]) \in Int /\ Radix * d[3] \in Int
        /\ k * (Radix * Page) \in Int
    BY <1>0, <2>3, SMTT(30)
  <2>6. Radix * d[3] + d[4] \in Int
    BY <2>3, <2>5, SMTT(30)
  <2> HIDE DEF d
  <2>7. FromBig4(b) = (k * (Radix * Page) + Page * (Radix * d[1] + d[2]))
                        + (Radix * d[3] + d[4])
    BY <2>1, <2>4, Zenon
  <2> QED BY <2>2, <2>5, <2>6, <2>7
<1>7. b # <<>> /\ b[1] \in k .. k + n - 1
  BY <1>1, <1>3, <1>5, SMTT(30)
<1> QED BY <1>3, <1>4, <1>5, <1>6, <1>7 DEF b, c, d

\* The same for two bytes.
LEMMA MarkedTwoDigits ==
    ASSUME NEW n \in Nat, NEW k \in Nat, n + k <= Radix,
           NEW v \in Nat, v < n * Radix, NEW rest \in Seq(Byte)
    PROVE  /\ Marked(Big2(v), k) \o rest # <<>>
           /\ Len(Marked(Big2(v), k) \o rest) >= 2
           /\ (Marked(Big2(v), k) \o rest)[1] \in k .. k + n - 1
           /\ Marked(Big2(v), k) \in Seq(Byte) /\ Len(Marked(Big2(v), k)) = 2
           /\ Marked(Big2(v), k) \o rest \in Seq(Byte)
           /\ FromBig2(Marked(Big2(v), k) \o rest) = k * Radix + v
<1> DEFINE c == Marked(Big2(v), k)
           b == c \o rest
           x == v \div Radix
           y == v % Radix
<1>0. n <= Radix /\ Radix \in Nat
  BY Sizes
<1>1. Big2(v) = <<x, y>> /\ x \in 0 .. n - 1 /\ y \in Byte /\ v = Radix * x + y
  BY <1>0, TwoDigits
<1> HIDE DEF x, y
<1>2. c = <<x + k, y>>
  BY <1>1 DEF Marked
<1>3. c[1] = x + k /\ c[2] = y /\ Len(c) = 2
  BY <1>2
<1>4. c \in Seq(Byte)
  <2>1. x + k \in Byte
    BY <1>0, <1>1 DEF Byte
  <2>2. \A e1, e2 \in Byte : <<e1, e2>> \in Seq(Byte)
    OBVIOUS
  <2> QED BY <1>1, <1>2, <2>1, <2>2, Zenon
<1> HIDE DEF c
<1>5. b \in Seq(Byte) /\ Len(b) >= 2 /\ Len(b) \in Nat /\ b[1] = c[1] /\ b[2] = c[2]
  <2>1. 1 \in 1 .. Len(c) /\ 2 \in 1 .. Len(c)
    BY <1>3
  <2>2. b[1] = c[1] /\ b[2] = c[2]
    BY <1>4, <2>1, Joined, Zenon
  <2>3. b \in Seq(Byte) /\ Len(b) = Len(c) + Len(rest) /\ Len(rest) \in Nat
    BY <1>4, Joined, Zenon
  <2> HIDE DEF b
  <2> QED BY <1>3, <2>2, <2>3
<1> HIDE DEF b
<1>6. FromBig2(b) = k * Radix + v
  <2>1. FromBig2(b) = Radix * (x + k) + y
    BY <1>3, <1>5 DEF FromBig2
  <2> QED BY <1>0, <1>1, <2>1 DEF Byte
<1>7. b # <<>> /\ b[1] \in k .. k + n - 1
  BY <1>1, <1>3, <1>5
<1> QED BY <1>3, <1>4, <1>5, <1>6, <1>7 DEF b, c

-----------------------------------------------------------------------------
(* Length headers. *)

\* decode32 finds the length encode32 has written, whatever follows it.
THEOREM Header32RoundTrip ==
    ASSUME NEW value \in 0 .. Limit32, NEW rest \in Seq(Byte)
    PROVE  LET e == Encode32(4, value)
           IN  e.len \in {1, 4} /\ Decode32(e.bytes \o rest) = Read(e.len, value)
<1>0. /\ value \in Nat /\ Half32 \in Nat /\ LongBit \in Nat /\ Radix \in Nat
      /\ LongBit + LongBit = Radix /\ LongBit >= 4
  BY Sizes, Powers DEF Limit32
<1>1. CASE value <= ShortLimit
  <2>1. Encode32(4, value) = [len |-> 1, bytes |-> <<value>>]
    BY <1>1 DEF Encode32, Written
  <2>2. <<value>> \in Seq(Byte) /\ Len(<<value>>) = 1 /\ <<value>>[1] = value
    BY <1>0, <1>1 DEF ShortLimit, Byte
  <2> DEFINE b == <<value>> \o rest
  <2>3. b \in Seq(Byte) /\ Len(b) = 1 + Len(rest) /\ Len(rest) \in Nat /\ b[1] = value
    BY <2>2, Joined
  <2> HIDE DEF b
  <2>4. b # <<>> /\ b[1] < LongBit
    BY <1>0, <1>1, <2>3 DEF ShortLimit
  <2>5. Decode32(b) = Read(1, value)
    BY <2>3, <2>4 DEF Decode32
  <2> QED BY <2>1, <2>5 DEF b
<1>2. CASE ~ (value <= ShortLimit)
  <2> DEFINE b == Marked(Big4(value), LongBit) \o rest
  <2>1. Len(SetLong(Big4(value))) = 4 /\ SetLong(Big4(value)) = Marked(Big4(value), LongBit)
    BY DEF SetLong, Big4, Marked
  <2>2. Encode32(4, value) = [len |-> 4, bytes |-> Marked(Big4(value), LongBit)]
    BY <1>0, <1>2, <2>1 DEF Encode32, Written, Limit32
  <2>3. value < LongBit * (Radix * Page)
    BY <1>0 DEF Limit32, Half32
  <2>4. LongBit + LongBit <= Radix
    BY <1>0
  <2>5. /\ b # <<>> /\ Len(b) >= 4 /\ b[1] \in LongBit .. LongBit + LongBit - 1
        /\ b \in Seq(Byte) /\ FromBig4(b) = Half32 + value
    <3>1. value \in Nat /\ LongBit \in Nat
      BY <1>0
    <3>2. /\ b # <<>> /\ Len(b) >= 4 /\ b[1] \in LongBit .. LongBit + LongBit - 1
          /\ b \in Seq(Byte) /\ FromBig4(b) = LongBit * (Radix * Page) + value
      BY <2>3, <2>4, <3>1, MarkedDigits, Zenon
    <3> QED BY <3>2 DEF Half32
  <2> HIDE DEF b
  <2>6. FromBig4(b) % Half32 = value
    <3>1. Half32 \in Nat \ {0} /\ value \in 0 .. Half32 - 1
      BY <1>0 DEF Limit32
    <3>2. (Half32 * 1 + value) % Half32 = value
      BY <3>1, Remainder
    <3> QED BY <1>0, <2>5, <3>2
  <2>7. ~ (b[1] < LongBit) /\ ~ (Len(b) < 4)
    BY <1>0, <2>5, LenProperties
  <2>8. Decode32(b) = Read(4, value)
    BY <2>5, <2>6, <2>7 DEF Decode32
  <2> QED BY <2>2, <2>8 DEF b
<1> QED BY <1>1, <1>2

\* decode16 finds the length encode16 has written, up to NUMHEADER16_LONG_MSG_LIMIT: the
\* lengths from 32768 to 32895, which take the codes of the short ones, are told apart.
THEOREM Header16RoundTrip ==
    ASSUME NEW value \in 0 .. Limit16, NEW rest \in Seq(Byte)
    PROVE  LET e == Encode16(2, value)
           IN  e.len \in {1, 2} /\ Decode16(e.bytes \o rest) = Read(e.len, value)
<1>0. /\ value \in Nat /\ Half16 \in Nat /\ LongBit \in Nat /\ Radix \in Nat
      /\ LongBit + LongBit = Radix /\ LongBit >= 4 /\ Half16 >= Radix
  <2>1. /\ value \in Nat /\ Half16 \in Nat /\ LongBit \in Nat /\ Radix \in Nat
        /\ LongBit + LongBit = Radix /\ LongBit >= 4
    BY Sizes, Powers DEF Limit16, ShortLimit
  <2> QED BY <2>1 DEF Half16
<1>1. CASE value <= ShortLimit
  <2>1. Encode16(2, value) = [len |-> 1, bytes |-> <<value>>]
    BY <1>1 DEF Encode16, Written
  <2>2. <<value>> \in Seq(Byte) /\ Len(<<value>>) = 1 /\ <<value>>[1] = value
    BY <1>0, <1>1 DEF ShortLimit, Byte
  <2> DEFINE b == <<value>> \o rest
  <2>3. b \in Seq(Byte) /\ Len(b) = 1 + Len(rest) /\ Len(rest) \in Nat /\ b[1] = value
    BY <2>2, Joined
  <2> HIDE DEF b
  <2>4. b # <<>> /\ b[1] < LongBit
    BY <1>0, <1>1, <2>3 DEF ShortLimit
  <2>5. Decode16(b) = Read(1, value)
    BY <2>3, <2>4 DEF Decode16
  <2> QED BY <2>1, <2>5 DEF b
<1>2. CASE ~ (value <= ShortLimit)
  <2> DEFINE v == IF value >= Half16 THEN value - Half16 ELSE value
             b == Marked(Big2(v), LongBit) \o rest
  <2>1. /\ v \in 0 .. Half16 - 1
        /\ value = IF v < LongBit THEN v + Half16 ELSE v
    BY <1>0, <1>2 DEF Limit16, ShortLimit
  <2>2. Len(SetLong(Big2(v))) = 2 /\ SetLong(Big2(v)) = Marked(Big2(v), LongBit)
    BY DEF SetLong, Big2, Marked
  <2>3. Encode16(2, value) = [len |-> 2, bytes |-> Marked(Big2(v), LongBit)]
    <3>1. value <= Limit16
      BY DEF Limit16
    <3>2. Encode16(2, value) = Written(SetLong(Big2(v)), 2)
      BY <1>2, <3>1, Zenon DEF Encode16
    <3> HIDE DEF v
    <3> QED BY <2>2, <3>2 DEF Written
  <2> HIDE DEF v
  <2>4. v \in Nat /\ v < LongBit * Radix
    BY <1>0, <2>1 DEF Half16
  <2>5. LongBit + LongBit <= Radix
    BY <1>0
  <2>6. /\ b # <<>> /\ Len(b) >= 2 /\ b[1] \in LongBit .. LongBit + LongBit - 1
        /\ b \in Seq(Byte) /\ FromBig2(b) = LongBit * Radix + v
    <3>1. LongBit \in Nat
      BY <1>0
    <3> QED BY <2>4, <2>5, <3>1, MarkedTwoDigits, Zenon
  <2> HIDE DEF b
  <2>7. FromBig2(b) % Half16 = v
    <3>1. Half16 \in Nat \ {0} /\ Half16 * 1 + v = LongBit * Radix + v
      BY <1>0, <2>4 DEF Half16
    <3>2. (Half16 * 1 + v) % Half16 = v
      BY <2>1, <3>1, Remainder
    <3> QED BY <2>6, <3>1, <3>2
  <2>8. ~ (b[1] < LongBit) /\ ~ (Len(b) < 2)
    BY <1>0, <2>6, LenProperties
  <2>9. Decode16(b) = Read(2, value)
    BY <2>1, <2>6, <2>7, <2>8 DEF Decode16
  <2> QED BY <2>3, <2>9 DEF b
<1> QED BY <1>1, <1>2

-----------------------------------------------------------------------------
(* Addresses. *)

\* The two bits in front of an address: m has one for "long" and one for "more".
LEMMA FirstByte ==
    ASSUME NEW m \in 0 .. 3, NEW byte \in m * MoreBit .. m * MoreBit + MoreBit - 1
    PROVE  byte \div MoreBit = m /\ (byte >= LongBit <=> m >= 2)
<1>1. MoreBit \in Nat \ {0} /\ LongBit = 2 * MoreBit
  BY Sizes
<1>2. byte - m * MoreBit \in 0 .. MoreBit - 1 /\ byte = MoreBit * m + (byte - m * MoreBit)
  BY <1>1
<1>3. byte \div MoreBit = m
  BY <1>1, <1>2, Remainder
<1>4. m = 0 \/ m = 1 \/ m = 2 \/ m = 3
  OBVIOUS
<1>5. byte >= LongBit <=> m >= 2
  BY <1>1, <1>4
<1> QED BY <1>3, <1>5

\* Two bytes with an address below High are read as that address.
LEMMA ShortAddress ==
    ASSUME NEW m \in 0 .. 1, NEW address \in 0 .. High - 1, NEW rest \in Seq(Byte)
    PROVE  UnpackHeader(Marked(Big2(address), m * MoreBit) \o rest)
             = [len |-> 2, address |-> address, more |-> m = 1]
<1> DEFINE b == Marked(Big2(address), m * MoreBit) \o rest
<1>0. /\ MoreBit \in Nat /\ Radix \in Nat /\ Radix = 4 * MoreBit /\ High \in Nat
      /\ m \in Nat /\ address \in Nat /\ (m = 0 \/ m = 1) /\ m \in 0 .. 3
  BY Sizes, Powers
<1>1. /\ m * MoreBit \in Nat /\ MoreBit + m * MoreBit <= Radix /\ address < MoreBit * Radix
  BY <1>0 DEF High
<1>2. /\ Len(b) >= 2 /\ b \in Seq(Byte)
      /\ b[1] \in m * MoreBit .. m * MoreBit + MoreBit - 1
      /\ FromBig2(b) = (m * MoreBit) * Radix + address
  <2>1. MoreBit \in Nat /\ address \in Nat
    BY <1>0
  <2> QED BY <1>1, <2>1, MarkedTwoDigits, ZenonT(30)
<1> HIDE DEF b
<1>3. b[1] \div MoreBit = m /\ ~ (b[1] >= LongBit)
  <2>1. b[1] \div MoreBit = m /\ (b[1] >= LongBit <=> m >= 2)
    BY <1>0, <1>2, FirstByte
  <2> QED BY <1>0, <2>1
<1>4. FromBig2(b) % High = address
  <2>1. High \in Nat \ {0} /\ High * m + address = (m * MoreBit) * Radix + address
    BY <1>0 DEF High
  <2>2. (High * m + address) % High = address
    BY <1>0, <2>1, Remainder
  <2> QED BY <1>2, <2>1, <2>2
<1>5. (m % 2 = 1) = (m = 1)
  BY <1>0
<1> QED BY <1>2, <1>3, <1>4, <1>5 DEF UnpackHeader, b

\* Four bytes with an address below TooHigh are read as that address.
LEMMA LongAddress ==
    ASSUME NEW m \in 2 .. 3, NEW address \in 0 .. TooHigh - 1, NEW rest \in Seq(Byte)
    PROVE  UnpackHeader(Marked(Big4(address), m * MoreBit) \o rest)
             = [len |-> 4, address |-> address, more |-> m = 3]
<1> DEFINE b == Marked(Big4(address), m * MoreBit) \o rest
           p == Radix * Page
<1>0. /\ MoreBit \in Nat /\ Radix = 4 * MoreBit /\ p \in Nat
      /\ TooHigh \in Nat /\ TooHigh = MoreBit * p
      /\ m \in Nat /\ address \in Nat /\ (m = 2 \/ m = 3) /\ m \in 0 .. 3
  BY Sizes, Powers DEF TooHigh
<1>1. m * MoreBit \in Nat /\ MoreBit + m * MoreBit <= Radix /\ address < MoreBit * p
  <2> HIDE DEF p
  <2> QED BY <1>0
<1>2. /\ Len(b) >= 4 /\ b \in Seq(Byte)
      /\ b[1] \in m * MoreBit .. m * MoreBit + MoreBit - 1
      /\ FromBig4(b) = (m * MoreBit) * p + address
  <2>1. MoreBit \in Nat /\ address \in Nat
    BY <1>0
  <2> QED BY <1>1, <2>1, MarkedDigits, ZenonT(30)
<1> HIDE DEF b, p
<1>3. b[1] \div MoreBit = m /\ b[1] >= LongBit
  <2>1. b[1] \div MoreBit = m /\ (b[1] >= LongBit <=> m >= 2)
    BY <1>0, <1>2, FirstByte
  <2> QED BY <1>0, <2>1
<1>4. FromBig4(b) % TooHigh = address
  <2>1. TooHigh \in Nat \ {0} /\ TooHigh * m = (m * MoreBit) * p
    BY <1>0
  <2>2. (TooHigh * m + address) % TooHigh = address
    BY <1>0, <2>1, Remainder
  <2> QED BY <1>2, <2>1, <2>2
<1>5. (m % 2 = 1) = (m = 3)
  BY <1>0
<1> QED BY <1>2, <1>3, <1>4, <1>5 DEF UnpackHeader, b

\* unpackHeader finds the address and the more bit packHeader has written, for low and
\* high addresses and whatever follows them.
THEOREM HeaderRoundTrip ==
    ASSUME NEW address \in 0 .. TooHigh - 1, NEW more \in BOOLEAN, NEW rest \in Seq(Byte)
    PROVE  LET h == PackHeader(4, address, more)
           IN  /\ h.len \in {2, 4}
               /\ UnpackHeader(h.bytes \o rest)
                    = [len |-> h.len, address |-> address, more |-> more]
<1>0. /\ MoreBit \in Nat /\ LongBit = 2 * MoreBit /\ LongBit \in Nat /\ Radix \in Nat
      /\ LongBit <= Radix /\ High \in Nat /\ TooHigh \in Nat /\ address \in Nat
  BY Sizes, Powers
<1>1. CASE address < High
  <2> DEFINE m == IF more THEN 1 ELSE 0
  <2>1. WithMore(Big2(address), more) = Marked(Big2(address), m * MoreBit)
    <3>1. Big2(address)[1] \in Int /\ Big2(address) = <<Big2(address)[1], Big2(address)[2]>>
      BY <1>0, Sizes DEF Big2
    <3>2. m * MoreBit = IF more THEN MoreBit ELSE 0
      BY <1>0
    <3> HIDE DEF m
    <3>3. CASE more
      BY <3>2, <3>3 DEF WithMore, Marked
    <3>4. CASE ~ more
      <4>1. Big2(address)[1] + 0 = Big2(address)[1]
        BY <3>1
      <4>2. Marked(Big2(address), 0) = Big2(address)
        BY <4>1 DEF Marked, Big2
      <4> QED BY <3>2, <3>4, <4>2 DEF WithMore
    <3> QED BY <3>3, <3>4
  <2>2. Len(Marked(Big2(address), m * MoreBit)) = 2
    BY DEF Marked, Big2
  <2>3. PackHeader(4, address, more) = Written(Marked(Big2(address), m * MoreBit), 4)
    BY <1>1, <2>1, Zenon DEF PackHeader
  <2>4. m \in 0 .. 1 /\ more = (m = 1)
    OBVIOUS
  <2> HIDE DEF m
  <2>5. PackHeader(4, address, more) = [len |-> 2, bytes |-> Marked(Big2(address), m * MoreBit)]
    <3>1. Written(Marked(Big2(address), m * MoreBit), 4)
            = [len |-> 2, bytes |-> Marked(Big2(address), m * MoreBit)]
      <4>1. 2 \in Nat /\ 4 \in Nat /\ 2 <= 4
        OBVIOUS
      <4> QED BY <2>2, <4>1, Fitting, Zenon
    <3> QED BY <2>3, <3>1, Zenon
  <2>6. UnpackHeader(Marked(Big2(address), m * MoreBit) \o rest)
          = [len |-> 2, address |-> address, more |-> m = 1]
    <3>1. address \in 0 .. High - 1
      BY <1>0, <1>1
    <3> QED BY <2>4, <3>1, ShortAddress
  <2> QED BY <2>4, <2>5, <2>6
<1>2. CASE ~ (address < High)
  <2> DEFINE m == IF more THEN 3 ELSE 2
  <2>1. WithMore(SetLong(Big4(address)), more) = Marked(Big4(address), m * MoreBit)
    <3> DEFINE x == Big4(address)[1]
    <3>1. x \in Int
      BY <1>0, Sizes, Powers DEF Big4
    <3>2. m * MoreBit = IF more THEN LongBit + MoreBit ELSE LongBit
      BY <1>0
    <3> HIDE DEF m, x
    <3>3. CASE more
      <4>1. (x + LongBit) + MoreBit = x + (LongBit + MoreBit)
        BY <1>0, <3>1
      <4>2. WithMore(SetLong(Big4(address)), more) = Marked(Big4(address), LongBit + MoreBit)
        BY <3>3, <4>1 DEF WithMore, SetLong, Marked, Big4, x
      <4> QED BY <3>2, <3>3, <4>2
    <3>4. CASE ~ more
      BY <3>2, <3>4 DEF WithMore, SetLong, Marked
    <3> QED BY <3>3, <3>4
  <2>2. Len(Marked(Big4(address), m * MoreBit)) = 4
    BY DEF Marked, Big4
  <2>3. PackHeader(4, address, more) = Written(Marked(Big4(address), m * MoreBit), 4)
    <3>1. address < TooHigh
      BY <1>0
    <3> QED BY <1>2, <2>1, <3>1, Zenon DEF PackHeader
  <2>4. m \in 2 .. 3 /\ more = (m = 3)
    OBVIOUS
  <2> HIDE DEF m
  <2>5. PackHeader(4, address, more) = [len |-> 4, bytes |-> Marked(Big4(address), m * MoreBit)]
    <3>1. Written(Marked(Big4(address), m * MoreBit), 4)
            = [len |-> 4, bytes |-> Marked(Big4(address), m * MoreBit)]
      <4>1. 4 \in Nat /\ 4 \in Nat /\ 4 <= 4
        OBVIOUS
      <4> QED BY <2>2, <4>1, Fitting, Zenon
    <3> QED BY <2>3, <3>1, Zenon
  <2>6. UnpackHeader(Marked(Big4(address), m * MoreBit) \o rest)
          = [len |-> 4, address |-> address, more |-> m = 3]
    BY <2>4, LongAddress
  <2> QED BY <2>4, <2>5, <2>6
<1> QED BY <1>1, <1>2

-----------------------------------------------------------------------------
(* Commands. *)

\* Bytes are joined in any grouping.
LEMMA Regrouped ==
    ASSUME NEW s \in Seq(Byte), NEW t \in Seq(Byte), NEW u \in Seq(Byte)
    PROVE  (s \o t) \o u = s \o (t \o u)
BY ConcatAssociative

\* Behind the first of two strings is the second.
LEMMA BehindJoined ==
    ASSUME NEW b \in Seq(Byte), NEW rest \in Seq(Byte)
    PROVE  Behind(b \o rest, Len(b)) = rest
<1>1. /\ Len(b) \in Nat /\ Len(rest) \in Nat /\ b \o rest \in Seq(Byte)
      /\ Len(b \o rest) = Len(b) + Len(rest)
      /\ \A i \in 1 .. Len(b) + Len(rest) :
           (b \o rest)[i] = IF i <= Len(b) THEN b[i] ELSE rest[i - Len(b)]
  BY ConcatProperties, LenProperties
<1> DEFINE s == b \o rest
           m == Len(b) + 1
           n == Len(s)
<1>2. m \in Int /\ n \in Int /\ \A i \in m .. n : s[i] \in Byte
  BY <1>1, ElementOfSeq
<1> HIDE DEF s
<1>3. /\ SubSeq(s, m, n) \in Seq(Byte) /\ Len(SubSeq(s, m, n)) = Len(rest)
      /\ \A i \in 1 .. Len(rest) : SubSeq(s, m, n)[i] = s[m + i - 1]
  <2>1. /\ SubSeq(s, m, n) \in Seq(Byte)
        /\ Len(SubSeq(s, m, n)) = IF m <= n THEN n - m + 1 ELSE 0
        /\ \A i \in 1 .. n - m + 1 : SubSeq(s, m, n)[i] = s[m + i - 1]
    BY <1>2, SubSeqProperties
  <2>2. n = Len(b) + Len(rest)
    BY <1>1 DEF s
  <2> QED BY <1>1, <2>1, <2>2
<1>4. \A i \in 1 .. Len(rest) : s[m + i - 1] = rest[i]
  BY <1>1 DEF s
<1> HIDE DEF m, n
<1>5. SubSeq(s, m, n) = rest
  BY <1>3, <1>4, SeqEqual
<1> QED BY <1>5 DEF Behind, s, m, n

\* A number is read from its four bytes, whatever follows them.
LEMMA CommandBytes ==
    ASSUME NEW v \in 0 .. Radix * (Radix * Page) - 1, NEW rest \in Seq(Byte)
    PROVE  /\ Little4(v) \in Seq(Byte) /\ Len(Little4(v)) = 4
           /\ FromLittle4(Little4(v) \o rest) = v
<1>1. Radix \in Nat /\ Radix <= Radix /\ Radix * (Radix * Page) \in Nat /\ v \in Nat
  BY Sizes, Powers
<1>2. v < Radix * (Radix * Page)
  BY <1>1
<1> DEFINE d == Big4(v)
           l == Little4(v)
           b == l \o rest
<1>3. /\ d[1] \in Byte /\ d[2] \in Byte /\ d[3] \in Byte /\ d[4] \in Byte
      /\ FromBig4(d) = v
  BY <1>1, <1>2, FourDigits, Zenon DEF Byte
<1> HIDE DEF d
<1>4. l = <<d[4], d[3], d[2], d[1]>>
  BY DEF Little4, d
<1>5. l \in Seq(Byte) /\ Len(l) = 4
      /\ l[1] = d[4] /\ l[2] = d[3] /\ l[3] = d[2] /\ l[4] = d[1]
  <2>1. \A e1, e2, e3, e4 \in Byte : <<e1, e2, e3, e4>> \in Seq(Byte)
    OBVIOUS
  <2>2. l \in Seq(Byte)
    BY <1>3, <1>4, <2>1, Zenon
  <2> QED BY <1>4, <2>2
<1> HIDE DEF l
<1>6. b[1] = l[1] /\ b[2] = l[2] /\ b[3] = l[3] /\ b[4] = l[4]
  <2>1. 1 \in 1 .. Len(l) /\ 2 \in 1 .. Len(l) /\ 3 \in 1 .. Len(l) /\ 4 \in 1 .. Len(l)
    BY <1>5
  <2> QED BY <1>5, <2>1, Joined, Zenon
<1> HIDE DEF b
<1>7. FromLittle4(b) = FromBig4(d)
  BY <1>5, <1>6 DEF FromLittle4, FromBig4
<1> QED BY <1>3, <1>5, <1>7 DEF b, l

\* What four bytes hold.
Number == 0 .. Radix * (Radix * Page) - 1

\* unpackFileOpen and unpackFileClose find the address that packFileOpen and
\* packFileClose have written, and each refuses the bytes of another command.
THEOREM CommandRoundTrip ==
    ASSUME NEW cmd \in Number, NEW other \in Number, NEW address \in Number,
           NEW rest \in Seq(Byte)
    PROVE  LET bytes == PackCommand(8, cmd, address).bytes \o rest
           IN  UnpackCommand(bytes, other) = IF other = cmd THEN Read(8, address) ELSE Read(-2, 0)
<1> DEFINE c == Little4(cmd)
           a == Little4(address)
           b == (c \o a) \o rest
<1>1. c \in Seq(Byte) /\ Len(c) = 4 /\ a \in Seq(Byte) /\ Len(a) = 4
  BY CommandBytes DEF Number
<1>2. a \o rest \in Seq(Byte) /\ FromLittle4(a \o rest) = address
  BY <1>1, CommandBytes, Joined DEF Number
<1>3. FromLittle4(c \o (a \o rest)) = cmd
  BY <1>2, CommandBytes DEF Number
<1> HIDE DEF c, a
<1>4. c \o a \in Seq(Byte) /\ Len(c \o a) = 8
  <2>1. c \o a \in Seq(Byte) /\ Len(c \o a) = Len(c) + Len(a)
    BY <1>1, Joined, Zenon
  <2> QED BY <1>1, <2>1
<1>5. b = c \o (a \o rest)
  BY <1>1, ConcatAssociative
<1>6. Len(b) = 8 + Len(rest) /\ Len(rest) \in Nat
  <2>1. Len(b) = Len(c \o a) + Len(rest) /\ Len(rest) \in Nat
    BY <1>4, Joined
  <2> QED BY <1>4, <2>1
<1> HIDE DEF b
<1>7. Behind(b, 4) = a \o rest
  BY <1>1, <1>2, <1>5, BehindJoined
<1>8. UnpackCommand(b, other) = IF other = cmd THEN Read(8, address) ELSE Read(-2, 0)
  <2>1. ~ (Len(b) < 8)
    BY <1>6
  <2>2. FromLittle4(b) = cmd /\ FromLittle4(Behind(b, 4)) = address
    BY <1>2, <1>3, <1>5, <1>7
  <2> QED BY <2>1, <2>2 DEF UnpackCommand
<1>9. PackCommand(8, cmd, address) = [len |-> 8, bytes |-> c \o a]
  <2>1. 8 \in Nat /\ 8 <= 8
    OBVIOUS
  <2>2. Written(c \o a, 8) = [len |-> 8, bytes |-> c \o a]
    BY <1>4, <2>1, Fitting, Zenon
  <2> QED BY <2>2, Zenon DEF PackCommand, c, a
<1>10. PackCommand(8, cmd, address).bytes \o rest = b
  <2>1. PackCommand(8, cmd, address).bytes = c \o a
    BY <1>9
  <2> QED BY <2>1, Zenon DEF b
<1> QED BY <1>8, <1>10

\* unpackFileInfo finds the address, the length and the name that packFileInfo has
\* written, whether or not there is more room than needed: a requested file is matched
\* by what the other side announced.  The zero behind the name is not part of it.
THEOREM FileInfoRoundTrip ==
    ASSUME NEW address \in Number, NEW length \in Number, NEW name \in Seq(Byte),
           Len(name) < MaxName,
           NEW room \in Nat, FileInfoBaseLen + Len(name) + 1 <= room
    PROVE  LET e == PackFileInfo(room, [address |-> address, length |-> length, name |-> name])
           IN  UnpackFileInfo(e.bytes)
                 = [len |-> FileInfoBaseLen + Len(name) + 1, address |-> address,
                    length |-> length, name |-> name]
<1> DEFINE c == Little4(RMF_CMD_FILE_INFO)
           a == Little4(address)
           l == Little4(length)
           z == <<0>>
           ca == c \o a
           cal == ca \o l
           fixed == cal \o NoDigest
           b == (fixed \o name) \o z
           t == (NoDigest \o name) \o z
<1>0. /\ Radix \in Nat /\ Radix >= 8 /\ DigestSize \in Nat /\ Len(name) \in Nat
      /\ 0 \in Byte /\ RMF_CMD_FILE_INFO \in Number
  <2>1. Radix \in Nat /\ Radix >= 8 /\ DigestSize \in Nat /\ Len(name) \in Nat
    BY Sizes, InfoSizes, LenProperties
  <2>2. Page \in Nat /\ Page >= 1
    BY Powers
  <2>3. Radix * Page >= 8 /\ Radix * Page \in Nat
    BY <2>1, <2>2
  <2>4. Radix * (Radix * Page) >= 64 /\ Radix * (Radix * Page) \in Nat
    BY <2>1, <2>3
  <2>5. 3 \in Number
    <3> DEFINE top == Radix * (Radix * Page)
    <3>1. top >= 64 /\ top \in Nat
      BY <2>4
    <3> HIDE DEF top
    <3>2. 3 \in 0 .. top - 1
      BY <3>1
    <3> QED BY <3>2 DEF Number, top
  <2> QED BY <2>1, <2>5 DEF Byte, RMF_CMD_FILE_INFO
<1>1. /\ c \in Seq(Byte) /\ Len(c) = 4 /\ a \in Seq(Byte) /\ Len(a) = 4
      /\ l \in Seq(Byte) /\ Len(l) = 4
  <2>1. \A v \in Number : Little4(v) \in Seq(Byte) /\ Len(Little4(v)) = 4
    BY CommandBytes DEF Number
  <2> QED BY <1>0, <2>1, Zenon
<1>2. NoDigest \in Seq(Byte) /\ Len(NoDigest) = 4 + DigestSize
  <2>1. 4 + DigestSize \in Nat
    BY <1>0
  <2> QED BY <1>0, <2>1 DEF NoDigest
<1>3. z \in Seq(Byte) /\ Len(z) = 1 /\ z[1] = 0
  BY <1>0
<1> HIDE DEF z
<1>4. name \o z \in Seq(Byte) /\ Len(name \o z) = Len(name) + 1
  <2>1. name \o z \in Seq(Byte) /\ Len(name \o z) = Len(name) + Len(z)
    BY <1>3, Joined, Zenon
  <2> QED BY <1>3, <2>1
<1>5. NameIn(name \o z) = name
  <2> DEFINE s == name \o z
             n == Len(name)
  <2>1. /\ s \in Seq(Byte) /\ Len(s) = n + 1 /\ n \in Nat
        /\ \A i \in 1 .. n + 1 : s[i] = IF i <= n THEN name[i] ELSE z[i - n]
    BY <1>0, <1>3, <1>4, ConcatProperties
  <2> HIDE DEF s
  <2>2. s # <<>> /\ s[Len(s)] = 0
    BY <1>3, <2>1
  <2>3. NameIn(s) = SubSeq(s, 1, n)
    <3>1. Len(s) - 1 = n
      BY <2>1
    <3> QED BY <2>2, <3>1 DEF NameIn
  <2>4. /\ SubSeq(s, 1, n) \in Seq(Byte) /\ Len(SubSeq(s, 1, n)) = n
        /\ \A i \in 1 .. n : SubSeq(s, 1, n)[i] = s[i]
    <3>1. \A i \in 1 .. n : s[i] \in Byte
      BY <2>1, ElementOfSeq
    <3>2. /\ SubSeq(s, 1, n) \in Seq(Byte)
          /\ Len(SubSeq(s, 1, n)) = IF 1 <= n THEN n - 1 + 1 ELSE 0
          /\ \A i \in 1 .. n - 1 + 1 : SubSeq(s, 1, n)[i] = s[1 + i - 1]
      <4>1. 1 \in Int /\ n \in Int
        BY <2>1
      <4> HIDE DEF n
      <4> QED BY <3>1, <4>1, SubSeqProperties
    <3> QED BY <2>1, <3>2
  <2>5. \A i \in 1 .. n : SubSeq(s, 1, n)[i] = name[i]
    BY <2>1, <2>4
  <2>6. SubSeq(s, 1, n) = name
    BY <2>4, <2>5, SeqEqual
  <2>7. NameIn(s) = name
    BY <2>3, <2>6
  <2> QED BY <2>7 DEF s
<1> HIDE DEF c, a, l, ca, cal, fixed, b, t
<1>6. t \in Seq(Byte) /\ t = NoDigest \o (name \o z)
  <2>1. t = NoDigest \o (name \o z)
    BY <1>2, <1>3, Regrouped, Zenon DEF t
  <2> QED BY <1>2, <1>4, <2>1, Joined, Zenon
<1>7. /\ ca \in Seq(Byte) /\ Len(ca) = 8
      /\ cal \in Seq(Byte) /\ Len(cal) = 12
      /\ fixed \in Seq(Byte) /\ Len(fixed) = FileInfoBaseLen
  <2>1. ca \in Seq(Byte) /\ Len(ca) = Len(c) + Len(a)
    BY <1>1, Joined, Zenon DEF ca
  <2>2. cal \in Seq(Byte) /\ Len(cal) = Len(ca) + Len(l)
    BY <1>1, <2>1, Joined, Zenon DEF cal
  <2>3. fixed \in Seq(Byte) /\ Len(fixed) = Len(cal) + Len(NoDigest)
    BY <1>2, <2>2, Joined, Zenon DEF fixed
  <2> QED BY <1>0, <1>1, <1>2, <2>1, <2>2, <2>3 DEF FileInfoBaseLen
<1>8. b = fixed \o (name \o z)
  BY <1>3, <1>7, Regrouped, ZenonT(30) DEF b
<1>9. b = cal \o t
  <2>1. (cal \o NoDigest) \o (name \o z) = cal \o (NoDigest \o (name \o z))
    <3>1. cal \in Seq(Byte) /\ NoDigest \in Seq(Byte) /\ name \o z \in Seq(Byte)
      BY <1>2, <1>4, <1>7, Zenon
    <3> QED BY <3>1, Regrouped, Zenon
  <2> QED BY <1>6, <1>8, <2>1, Zenon DEF fixed
<1>10. l \o t \in Seq(Byte) /\ b = ca \o (l \o t)
  <2>1. (ca \o l) \o t = ca \o (l \o t)
    <3>1. ca \in Seq(Byte) /\ l \in Seq(Byte) /\ t \in Seq(Byte)
      BY <1>1, <1>6, <1>7, Zenon
    <3> QED BY <3>1, Regrouped, ZenonT(30)
  <2>2. l \o t \in Seq(Byte)
    BY <1>1, <1>6, Joined, Zenon
  <2> QED BY <1>9, <2>1, <2>2, Zenon DEF cal
<1>11. a \o (l \o t) \in Seq(Byte) /\ b = c \o (a \o (l \o t))
  <2>1. (c \o a) \o (l \o t) = c \o (a \o (l \o t))
    BY <1>1, <1>10, Regrouped, ZenonT(30)
  <2>2. a \o (l \o t) \in Seq(Byte)
    BY <1>1, <1>10, Joined, Zenon
  <2> QED BY <1>10, <2>1, <2>2, Zenon DEF ca
<1>12. /\ Len(b) = FileInfoBaseLen + Len(name) + 1 /\ FileInfoBaseLen \in Nat
  <2>1. Len(b) = Len(fixed) + Len(name \o z)
    BY <1>4, <1>7, <1>8, Joined, Zenon
  <2> QED BY <1>0, <1>4, <1>7, <2>1 DEF FileInfoBaseLen
<1>13. FromLittle4(b) = RMF_CMD_FILE_INFO
  BY <1>0, <1>11, CommandBytes, Zenon DEF Number, c
<1>14. FromLittle4(Behind(b, 4)) = address
  <2>1. Behind(b, 4) = a \o (l \o t)
    BY <1>1, <1>11, BehindJoined, Zenon
  <2> QED BY <1>10, <2>1, CommandBytes, Zenon DEF Number, a
<1>15. FromLittle4(Behind(b, 8)) = length
  <2>1. Behind(b, 8) = l \o t
    BY <1>7, <1>10, BehindJoined, Zenon
  <2> QED BY <1>6, <2>1, CommandBytes, Zenon DEF Number, l
<1>16. Behind(b, FileInfoBaseLen) = name \o z
  BY <1>4, <1>7, <1>8, BehindJoined, Zenon
<1>17. UnpackFileInfo(b) = [len |-> FileInfoBaseLen + Len(name) + 1, address |-> address,
                            length |-> length, name |-> name]
  <2>1. ~ (Len(b) < FileInfoBaseLen)
    BY <1>0, <1>12
  <2> QED BY <1>5, <1>12, <1>13, <1>14, <1>15, <1>16, <2>1 DEF UnpackFileInfo
<1> DEFINE file == [address |-> address, length |-> length, name |-> name]
<1>18. PackFileInfo(room, file) = Written(b, room)
  BY DEF PackFileInfo, fixed, cal, ca, b, c, a, l, z
<1>19. Written(b, room).bytes = b
  BY <1>0, <1>12 DEF Written
<1> QED BY <1>17, <1>18, <1>19
-----------------------------------------------------------------------------
USE DEF Address, InvalidAddress

-----------------------------------------------------------------------------
(* Headers. *)

\* The sizes of the code fit each other.
LEMMA Limits ==
    /\ TooHigh \in Nat /\ USER_DATA_END \in Nat /\ RMF_CMD_START_ADDR \in 0 .. TooHigh - 1
    /\ USER_DATA_END <= RMF_CMD_START_ADDR
    /\ WordSize = Radix * (Radix * Page) /\ Limit32 \in Nat
<1>1. Radix \in Nat /\ Radix >= 8 /\ MoreBit \in Nat /\ MoreBit >= 2
  BY Sizes
<1>2. /\ Page \in Nat \ {0} /\ Page = Radix * Radix /\ Radix * Page \in Nat
      /\ Half32 \in Nat /\ TooHigh \in Nat /\ TooHigh = MoreBit * (Radix * Page)
  BY Powers DEF Page, TooHigh
<1>3. WordSize = Radix * (Radix * Page)
  <2>1. (Radix * Radix) * Page = Radix * (Radix * Page)
    BY <1>1, <1>2
  <2> QED BY <1>2, <2>1, Node
<1>4. USER_DATA_END \in Nat /\ USER_DATA_END <= RMF_CMD_START_ADDR
  BY AddressAreas, Node
<1>5. RMF_CMD_START_ADDR \in 0 .. TooHigh - 1
  <2>1. RMF_CMD_START_ADDR = TooHigh - 4 * Radix /\ 4 * Radix \in Nat /\ 4 * Radix > 0
    BY <1>1 DEF RMF_CMD_START_ADDR
  <2> HIDE DEF RMF_CMD_START_ADDR
  <2> QED BY <1>2, <1>4, <2>1
<1>6. Limit32 \in Nat
  <2>1. DigestSize \in Nat /\ MaxName \in Nat
    BY InfoSizes
  <2>2. 4 + FileInfoBaseLen + MaxName <= Limit32 /\ Limit32 \in Int
    BY <1>2, Sizeable DEF Limit32
  <2> QED BY <2>1, <2>2 DEF FileInfoBaseLen
<1> QED BY <1>2, <1>3, <1>4, <1>5, <1>6

\* The header of an address, whatever room there is for it, and whatever follows.
LEMMA AddressHeader ==
    ASSUME NEW address \in 0 .. TooHigh - 1, NEW room \in Nat, room >= 4,
           NEW rest \in Seq(Byte)
    PROVE  LET h == PackHeader(room, address, FALSE)
           IN  /\ h.len \in {2, 4} /\ h.bytes \in Seq(Byte) /\ Len(h.bytes) = h.len
               /\ UnpackHeader(h.bytes \o rest)
                    = [len |-> h.len, address |-> address, more |-> FALSE]
<1> DEFINE h == PackHeader(room, address, FALSE)
<1>0. /\ MoreBit \in Nat /\ LongBit \in Nat /\ LongBit = 2 * MoreBit /\ Radix = 2 * LongBit
      /\ High \in Nat /\ TooHigh \in Nat
  BY Sizes, Powers
<1>1. CASE address < High
  <2>1. Big2(address) \in Seq(Byte) /\ Len(Big2(address)) = 2
    <3>1. address < MoreBit * Radix /\ MoreBit <= Radix /\ address \in Nat
      BY <1>0, <1>1 DEF High
    <3>2. Big2(address) = <<address \div Radix, address % Radix>>
      BY DEF Big2
    <3>3. address \div Radix \in Byte /\ address % Radix \in Byte
      <4>1. address \div Radix \in 0 .. MoreBit - 1 /\ address % Radix \in Byte
        BY <1>0, <3>1, TwoDigits, Zenon
      <4> QED BY <1>0, <4>1 DEF Byte
    <3> QED BY <3>2, <3>3
  <2>2. ASSUME NEW r \in Nat, r >= 4
        PROVE  PackHeader(r, address, FALSE) = [len |-> 2, bytes |-> Big2(address)]
    <3>1. Written(Big2(address), r) = [len |-> 2, bytes |-> Big2(address)]
      BY <2>1, <2>2 DEF Written
    <3> QED BY <1>1, <3>1 DEF PackHeader, WithMore
  <2>3. h = [len |-> 2, bytes |-> Big2(address)]
    BY <2>2
  <2>4. PackHeader(4, address, FALSE) = h
    <3>1. 4 \in Nat /\ 4 >= 4
      OBVIOUS
    <3> QED BY <2>2, <2>3, <3>1, Zenon
  <2>5. UnpackHeader(h.bytes \o rest) = [len |-> h.len, address |-> address, more |-> FALSE]
    BY <2>4, HeaderRoundTrip DEF h
  <2> HIDE DEF h
  <2>6. h.len \in {2, 4} /\ h.bytes \in Seq(Byte) /\ Len(h.bytes) = h.len
    <3>1. h.len = 2 /\ h.bytes = Big2(address)
      BY <2>3, Zenon
    <3>2. 2 \in {2, 4}
      OBVIOUS
    <3> QED BY <2>1, <3>1, <3>2, Zenon
  <2> QED BY <2>5, <2>6, Zenon DEF h
<1>2. CASE ~ (address < High)
  <2> DEFINE b == SetLong(Big4(address))
  <2>1. b \in Seq(Byte) /\ Len(b) = 4
    <3>1. address \in Nat /\ address < MoreBit * (Radix * Page) /\ MoreBit + LongBit <= Radix
      BY <1>0 DEF TooHigh
    <3>2. Marked(Big4(address), LongBit) \in Seq(Byte) /\ Len(Marked(Big4(address), LongBit)) = 4
      BY <1>0, <3>1, MarkedDigits, EmptySeq, Zenon
    <3>3. b = Marked(Big4(address), LongBit)
      BY DEF SetLong, Marked
    <3> QED BY <3>2, <3>3
  <2>2. ASSUME NEW r \in Nat, r >= 4
        PROVE  PackHeader(r, address, FALSE) = [len |-> 4, bytes |-> b]
    <3> HIDE DEF b
    <3>1. Written(b, r) = [len |-> 4, bytes |-> b]
      BY <2>1, <2>2 DEF Written
    <3>2. address < TooHigh
      BY <1>0
    <3> QED BY <1>2, <3>1, <3>2 DEF PackHeader, WithMore, b
  <2> HIDE DEF b
  <2>3. h = [len |-> 4, bytes |-> b]
    BY <2>2
  <2>4. PackHeader(4, address, FALSE) = h
    <3>1. 4 \in Nat /\ 4 >= 4
      OBVIOUS
    <3> QED BY <2>2, <2>3, <3>1, Zenon
  <2>5. UnpackHeader(h.bytes \o rest) = [len |-> h.len, address |-> address, more |-> FALSE]
    BY <2>4, HeaderRoundTrip DEF h
  <2> HIDE DEF h
  <2>6. h.len \in {2, 4} /\ h.bytes \in Seq(Byte) /\ Len(h.bytes) = h.len
    <3>1. h.len = 4 /\ h.bytes = b
      BY <2>3, Zenon
    <3>2. 4 \in {2, 4}
      OBVIOUS
    <3> QED BY <2>1, <3>1, <3>2, Zenon
  <2> QED BY <2>5, <2>6, Zenon DEF h
<1> QED BY <1>1, <1>2

\* A message arrives as it was sent, without the length header.
LEMMA FrameRoundTrip ==
    ASSUME NEW body \in Seq(Byte), Len(body) <= Limit32
    PROVE  Unframed(Frame(body)) = body
<1> DEFINE n == Len(body)
           e == Encode32(4, n)
<1>0. /\ n \in Nat /\ n \in 0 .. Limit32
      /\ LongBit \in Nat /\ LongBit >= 4 /\ LongBit + LongBit = Radix /\ Radix \in Nat
  BY Limits, LenProperties, Sizes
<1>1. Frame(body) = e.bytes \o body
  BY <1>0 DEF Frame, Encode32, Written, ShortLimit
<1>2. e.len \in {1, 4} /\ Decode32(e.bytes \o body) = Read(e.len, n)
  BY <1>0, Header32RoundTrip
<1>3. e.bytes \in Seq(Byte) /\ Len(e.bytes) = e.len
  <2>1. CASE n <= ShortLimit
    <3>1. e = [len |-> 1, bytes |-> <<n>>]
      BY <2>1 DEF Encode32, Written
    <3>2. n \in Byte
      BY <1>0, <2>1 DEF ShortLimit, Byte
    <3> HIDE DEF n, e
    <3> QED BY <3>1, <3>2
  <2>2. CASE ~ (n <= ShortLimit)
    <3> DEFINE b == SetLong(Big4(n))
    <3>1. n < LongBit * (Radix * Page)
      BY <1>0, Powers DEF Limit32, Half32
    <3>2. b \in Seq(Byte) /\ Len(b) = 4
      <4>1. LongBit + LongBit <= Radix
        BY <1>0
      <4>2. Marked(Big4(n), LongBit) \in Seq(Byte) /\ Len(Marked(Big4(n), LongBit)) = 4
        BY <1>0, <3>1, <4>1, MarkedDigits, EmptySeq, Zenon
      <4> QED BY <4>2 DEF SetLong, Marked
    <3> HIDE DEF b
    <3>3. e = [len |-> 4, bytes |-> b]
      BY <1>0, <2>2, <3>2 DEF Encode32, Written, b
    <3> HIDE DEF e
    <3> QED BY <3>2, <3>3
  <2> QED BY <2>1, <2>2
<1> HIDE DEF e, n
<1>4. /\ e.bytes \o body \in Seq(Byte)
      /\ Len(e.bytes \o body) = e.len + n
  BY <1>3, Joined DEF n
<1>5. Behind(e.bytes \o body, e.len) = body
  BY <1>3, BehindJoined
<1>6. Unframed(e.bytes \o body) = SubSeq(e.bytes \o body, e.len + 1, e.len + n)
  <2> DEFINE bytes == e.bytes \o body
             l == e.len
  <2>1. Decode32(bytes) = [len |-> l, value |-> n]
    BY <1>2 DEF Read
  <2> HIDE DEF bytes, l
  <2>2. Unframed(bytes) = SubSeq(bytes, l + 1, l + n)
    <3>1. Decode32(bytes).len = l /\ Decode32(bytes).value = n
      BY <2>1
    <3> QED BY <3>1, Zenon DEF Unframed
  <2> QED BY <2>2 DEF bytes, l
<1> QED BY <1>1, <1>4, <1>5, <1>6 DEF Behind
-----------------------------------------------------------------------------
(* Messages. *)

\* The files of the node are File objects.
LEMMA NodeFiles ==
    /\ Local \subseteq File /\ Requested \subseteq File /\ Mirrored \subseteq File
    /\ \A f \in File : /\ Length[f] \in Nat \ {0} /\ Length[f] \in Number
                       /\ Name[f] \in Seq(Byte) /\ Len(Name[f]) \in Nat /\ Len(Name[f]) < MaxName
<1>1. Local \subseteq File /\ Requested \subseteq File
  <2>1. \A s \in Seq(File) : ToSet(s) \subseteq File
    BY ElementOfSeq, LenProperties DEF ToSet
  <2> QED BY <2>1, Node DEF Local, Requested
<1>2. ASSUME NEW f \in File
      PROVE  /\ Length[f] \in Nat \ {0} /\ Length[f] \in Number
             /\ Name[f] \in Seq(Byte) /\ Len(Name[f]) \in Nat /\ Len(Name[f]) < MaxName
  <2>1. Length[f] \in Nat \ {0} /\ 2 * Length[f] < WordSize /\ WordSize \in Nat
    BY Files, AddressAreas
  <2>2. Length[f] \in Number
    BY <2>1, Limits DEF Number
  <2>3. Name[f] \in Seq(Byte \ {0}) /\ Len(Name[f]) < MaxName
    BY Names
  <2>4. Name[f] \in Seq(Byte)
    BY <2>3, SeqMonotonic, Zenon
  <2> QED BY <2>1, <2>2, <2>3, <2>4, LenProperties
<1> QED BY <1>1, <1>2 DEF Mirrored

\* What a write carries is bytes, at least one.
LEMMA DataBytes ==
    ASSUME NEW data \in Data
    PROVE  /\ data \in Seq(Byte) /\ Len(data) \in Nat \ {0}
           /\ 4 + Len(data) <= Limit32
           /\ data \in Seq(0 .. MaxWrites)
<1>1. PICK n \in {1} \cup {Length[f] : f \in Mirrored} : data \in [1 .. n -> 0 .. MaxWrites]
  BY DEF Data
<1>2. n \in Nat \ {0} /\ 4 + n <= Limit32
  <2>1. Mirrored \subseteq File /\ \A f \in Mirrored : Length[f] \in Nat \ {0} /\ 4 + Length[f] <= Limit32
    BY NodeFiles, Sizeable
  <2>2. 4 + 1 <= Limit32
    <3>1. FileInfoBaseLen \in Nat /\ FileInfoBaseLen >= 16 /\ MaxName \in Nat
      BY InfoSizes DEF FileInfoBaseLen
    <3> QED BY <3>1, Sizeable, Limits
  <2> QED BY <1>1, <2>1, <2>2
<1>3. \A x \in 0 .. MaxWrites : x \in Byte
  BY Node, Sizes DEF Byte
<1>4. data \in Seq(Byte) /\ Len(data) = n
  <2>1. data \in [1 .. n -> Byte]
    BY <1>1, <1>3
  <2> QED BY <1>2, <2>1
<1>5. data \in Seq(0 .. MaxWrites)
  <2> DEFINE B == 0 .. MaxWrites
  <2> HIDE DEF B
  <2>1. data \in [1 .. n -> B]
    BY <1>1 DEF B
  <2>2. data \in Seq(B)
    BY <1>2, <2>1
  <2> QED BY <2>2 DEF B
<1> QED BY <1>2, <1>4, <1>5

\* Addresses and commands are numbers of four bytes.
LEMMA UserNumbers ==
    /\ \A a \in UserAddress : a \in Number /\ a \in 0 .. TooHigh - 1 /\ a < RMF_CMD_START_ADDR
    /\ RMF_CMD_FILE_OPEN \in Number /\ RMF_CMD_FILE_INFO \in Number
<1>1. ASSUME NEW a \in UserAddress
      PROVE  a \in Number /\ a \in 0 .. TooHigh - 1 /\ a < RMF_CMD_START_ADDR
  BY Limits, AddressAreas DEF UserAddress, Number
<1>2. 10 \in Number /\ 3 \in Number
  <2> DEFINE p == Radix * Page
  <2>1. Radix \in Nat /\ Radix >= 8 /\ p \in Nat /\ p >= 8
    BY Sizes, Powers
  <2> HIDE DEF p
  <2>2. Radix * p \in Nat /\ Radix * p >= 8 * p
    BY <2>1
  <2> QED BY <2>1, <2>2 DEF Number, p
<1> QED BY <1>1, <1>2 DEF RMF_CMD_FILE_OPEN, RMF_CMD_FILE_INFO

\* The bytes of a FILE_INFO.
LEMMA InfoBytes ==
    ASSUME NEW address \in Number, NEW length \in Number, NEW name \in Seq(Byte),
           NEW room \in Nat, FileInfoBaseLen + Len(name) + 1 <= room
    PROVE  LET b == PackFileInfo(room, [address |-> address, length |-> length, name |-> name]).bytes
           IN  b \in Seq(Byte) /\ Len(b) = FileInfoBaseLen + Len(name) + 1
<1> DEFINE c == Little4(RMF_CMD_FILE_INFO)
           a == Little4(address)
           l == Little4(length)
           z == <<0>>
           ca == c \o a
           cal == ca \o l
           fixed == cal \o NoDigest
           named == fixed \o name
           b == named \o z
<1>1. c \in Seq(Byte) /\ Len(c) = 4 /\ a \in Seq(Byte) /\ Len(a) = 4 /\ l \in Seq(Byte) /\ Len(l) = 4
  BY UserNumbers, CommandBytes, EmptySeq DEF Number
<1>2. NoDigest \in Seq(Byte) /\ Len(NoDigest) = 4 + DigestSize /\ DigestSize \in Nat
  <2>1. 4 + DigestSize \in Nat /\ 0 \in Byte
    BY InfoSizes, Sizes DEF Byte
  <2> QED BY <2>1, InfoSizes DEF NoDigest
<1>3. z \in Seq(Byte) /\ Len(z) = 1
  BY Sizes DEF Byte
<1> HIDE DEF c, a, l, z
<1>4. ca \in Seq(Byte) /\ Len(ca) = 8
  <2>1. ca \in Seq(Byte) /\ Len(ca) = Len(c) + Len(a)
    BY <1>1, Joined, Zenon
  <2> QED BY <1>1, <2>1
<1> HIDE DEF ca
<1>5. cal \in Seq(Byte) /\ Len(cal) = 12
  <2>1. cal \in Seq(Byte) /\ Len(cal) = Len(ca) + Len(l)
    BY <1>1, <1>4, Joined, Zenon
  <2> QED BY <1>1, <1>4, <2>1
<1> HIDE DEF cal
<1>6. fixed \in Seq(Byte) /\ Len(fixed) = FileInfoBaseLen
  <2>1. fixed \in Seq(Byte) /\ Len(fixed) = Len(cal) + Len(NoDigest)
    BY <1>2, <1>5, Joined, Zenon
  <2> QED BY <1>2, <1>5, <2>1 DEF FileInfoBaseLen
<1> HIDE DEF fixed
<1>7. named \in Seq(Byte) /\ Len(named) = FileInfoBaseLen + Len(name)
  BY <1>6, Joined
<1> HIDE DEF named
<1>8. b \in Seq(Byte) /\ Len(b) = FileInfoBaseLen + Len(name) + 1
  BY <1>3, <1>7, Joined
<1> HIDE DEF b
<1>9. Written(b, room).bytes = b
  BY <1>8 DEF Written
<1> DEFINE file == [address |-> address, length |-> length, name |-> name]
<1>10. PackFileInfo(room, file) = Written(b, room)
  BY DEF PackFileInfo, b, named, fixed, cal, ca, c, a, l, z
<1> QED BY <1>8, <1>9, <1>10

\* The kinds of messages.
LEMMA Kinds ==
    /\ Messages = InfoMessage(Mirrored \cup DOMAIN NewObject) \cup OpenMessage \cup WriteMessage({0})
    /\ \A m \in OpenMessage : m.type = "OPEN" /\ m.address \in UserAddress /\ m = Open(m.address)
    /\ \A m \in InfoMessage(File) :
         m.type = "INFO" /\ m.address \in UserAddress /\ m.file \in File
    /\ \A m \in WriteMessage(Nat) :
         m.type = "WRITE" /\ m.address \in UserAddress /\ m.data \in Data /\ m.version \in Nat
           /\ m = Write(m.address, m.data, m.version)
    /\ InfoMessage(Mirrored \cup DOMAIN NewObject) \subseteq InfoMessage(File)
    /\ WriteMessage({0}) \subseteq WriteMessage(Nat)
<1> DEFINE files == Mirrored \cup DOMAIN NewObject
           infos == {Info(f, a) : f \in files, a \in UserAddress}
           opens == {Open(a) : a \in UserAddress}
           writes == {Write(a, data, 0) : a \in UserAddress, data \in Data}
<1>1. InfoMessage(files) = infos
  <2> HIDE DEF files
  <2>1. \A m \in InfoMessage(files) :
          m = Info(m.file, m.address) /\ m.file \in files /\ m.address \in UserAddress
    BY DEF InfoMessage, Info
  <2>2. \A f \in files, a \in UserAddress : Info(f, a) \in InfoMessage(files)
    BY DEF InfoMessage, Info
  <2> QED BY <2>1, <2>2
<1>2. OpenMessage = opens
  <2>1. \A m \in OpenMessage : m = Open(m.address) /\ m.address \in UserAddress
    BY DEF OpenMessage, Open
  <2>2. \A a \in UserAddress : Open(a) \in OpenMessage
    BY DEF OpenMessage, Open
  <2> QED BY <2>1, <2>2
<1>3. WriteMessage({0}) = writes
  <2>1. \A m \in WriteMessage({0}) :
          m = Write(m.address, m.data, 0) /\ m.address \in UserAddress /\ m.data \in Data
    BY DEF WriteMessage, Write
  <2>2. \A a \in UserAddress, data \in Data : Write(a, data, 0) \in WriteMessage({0})
    BY DEF WriteMessage, Write
  <2> QED BY <2>1, <2>2
<1>4. Mirrored \cup DOMAIN NewObject \subseteq File
  BY NodeFiles, Node
<1>5. InfoMessage(Mirrored \cup DOMAIN NewObject) \subseteq InfoMessage(File)
  BY <1>4 DEF InfoMessage
<1>6. WriteMessage({0}) \subseteq WriteMessage(Nat)
  BY DEF WriteMessage
<1>7. \A m \in InfoMessage(File) :
        m.type = "INFO" /\ m.address \in UserAddress /\ m.file \in File
  BY DEF InfoMessage
<1>8. \A m \in WriteMessage(Nat) :
        m.type = "WRITE" /\ m.address \in UserAddress /\ m.data \in Data /\ m.version \in Nat
          /\ m = Write(m.address, m.data, m.version)
  BY DEF WriteMessage, Write
<1>9. \A m \in OpenMessage : m.type = "OPEN" /\ m.address \in UserAddress /\ m = Open(m.address)
  BY DEF OpenMessage, Open
<1>10. Messages = InfoMessage(files) \cup OpenMessage \cup WriteMessage({0})
  <2>1. Messages = (infos \cup opens) \cup writes
    BY DEF Messages
  <2> HIDE DEF infos, opens, writes, files
  <2> QED BY <1>1, <1>2, <1>3, <2>1
<1> QED BY <1>5, <1>6, <1>7, <1>8, <1>9, <1>10

\* The length of the buffer for a message.
LEMMA BufferBounds ==
    ASSUME NEW m \in Messages
    PROVE  BufferLength(m) \in Nat /\ BufferLength(m) >= 5 /\ BufferLength(m) <= Limit32
<1>0. FileInfoBaseLen \in Nat /\ FileInfoBaseLen >= 16 /\ MaxName \in Nat
  BY InfoSizes DEF FileInfoBaseLen
<1>1. CASE m \in WriteMessage({0})
  <2>1. m.type = "WRITE" /\ m.data \in Data
    BY <1>1, Kinds
  <2>2. BufferLength(m) = 4 + Len(m.data)
    BY <2>1 DEF BufferLength
  <2> QED BY <2>1, <2>2, DataBytes
<1>2. CASE m \in OpenMessage
  <2>1. BufferLength(m) = 12
    BY <1>2, Kinds DEF BufferLength
  <2> QED BY <1>0, <2>1, Sizeable, Limits
<1>3. CASE m \in InfoMessage(Mirrored \cup DOMAIN NewObject)
  <2>1. m.type = "INFO" /\ m.file \in File
    BY <1>3, Kinds
  <2>2. BufferLength(m) = 4 + (FileInfoBaseLen + Len(Name[m.file]) + 1)
    BY <2>1 DEF BufferLength
  <2>3. Len(Name[m.file]) \in Nat /\ Len(Name[m.file]) < MaxName
    BY <2>1, NodeFiles
  <2> QED BY <1>0, <2>2, <2>3, Sizeable, Limits
<1> QED BY <1>1, <1>2, <1>3, Kinds

\* The bytes behind the address.
LEMMA PayloadBytes ==
    ASSUME NEW m \in Messages, NEW room \in Nat, room + 4 >= BufferLength(m)
    PROVE  /\ Payload(m, room) \in Seq(Byte)
           /\ Len(Payload(m, room)) + 4 = BufferLength(m)
<1>1. CASE m \in WriteMessage({0})
  <2>1. m.type = "WRITE" /\ m.data \in Data
    BY <1>1, Kinds
  <2>2. Payload(m, room) = m.data /\ BufferLength(m) = 4 + Len(m.data)
    BY <2>1 DEF Payload, BufferLength
  <2> QED BY <2>1, <2>2, DataBytes
<1>2. CASE m \in OpenMessage
  <2>1. m.type = "OPEN" /\ m.address \in UserAddress
    BY <1>2, Kinds
  <2>2. /\ Payload(m, room) = PackCommand(room, RMF_CMD_FILE_OPEN, m.address).bytes
        /\ BufferLength(m) = 12
    BY <2>1 DEF Payload, BufferLength
  <2>3. m.address \in Number /\ RMF_CMD_FILE_OPEN \in Number
    BY <2>1, UserNumbers
  <2>4. /\ Little4(RMF_CMD_FILE_OPEN) \in Seq(Byte) /\ Len(Little4(RMF_CMD_FILE_OPEN)) = 4
        /\ Little4(m.address) \in Seq(Byte) /\ Len(Little4(m.address)) = 4
    BY <2>3, CommandBytes, EmptySeq DEF Number
  <2> DEFINE b == Little4(RMF_CMD_FILE_OPEN) \o Little4(m.address)
  <2>5. b \in Seq(Byte) /\ Len(b) = 8
    <3>1. b \in Seq(Byte) /\ Len(b) = Len(Little4(RMF_CMD_FILE_OPEN)) + Len(Little4(m.address))
      BY <2>4, Joined, Zenon
    <3> QED BY <2>4, <3>1
  <2> HIDE DEF b
  <2>6. Payload(m, room) = b
    BY <2>2, <2>5 DEF PackCommand, Written, b
  <2>7. Payload(m, room) \in Seq(Byte) /\ Len(Payload(m, room)) = 8
    BY <2>5, <2>6, Zenon
  <2>8. BufferLength(m) = 12
    BY <2>2
  <2> QED BY <2>7, <2>8
<1>3. CASE m \in InfoMessage(Mirrored \cup DOMAIN NewObject)
  <2>1. m.type = "INFO" /\ m.address \in UserAddress /\ m.file \in File
    BY <1>3, Kinds
  <2> DEFINE file == [address |-> m.address, length |-> Length[m.file], name |-> Name[m.file]]
             n == FileInfoBaseLen + Len(Name[m.file]) + 1
  <2>2. /\ Payload(m, room) = PackFileInfo(room, file).bytes
        /\ BufferLength(m) = 4 + n
    BY <2>1 DEF Payload, BufferLength
  <2>3. m.address \in Number
    BY <2>1, UserNumbers
  <2>4. /\ Length[m.file] \in Number /\ Name[m.file] \in Seq(Byte)
        /\ Len(Name[m.file]) \in Nat /\ Len(Name[m.file]) < MaxName
    BY <2>1, NodeFiles
  <2>5. n \in Nat /\ n >= 17 /\ 4 + n <= Limit32
    <3>1. FileInfoBaseLen \in Nat /\ FileInfoBaseLen >= 16 /\ MaxName \in Nat
      BY InfoSizes DEF FileInfoBaseLen
    <3> QED BY <2>4, <3>1, Sizeable, Limits
  <2>6. n <= room
    BY <2>2, <2>5
  <2>7. PackFileInfo(room, file).bytes \in Seq(Byte) /\ Len(PackFileInfo(room, file).bytes) = n
    BY <2>3, <2>4, <2>6, InfoBytes
  <2> HIDE DEF n
  <2> QED BY <2>2, <2>5, <2>7
<1> QED BY <1>1, <1>2, <1>3, Kinds
\* The address at the head of a message.
HeadAddress(m) == IF m.type = "WRITE" THEN m.address ELSE RMF_CMD_START_ADDR

\* A message is an address and its payload, and arrives as it was sent.
LEMMA PackedMessage ==
    ASSUME NEW m \in Messages
    PROVE  LET h == PackHeader(BufferLength(m), HeadAddress(m), FALSE)
               p == Payload(m, BufferLength(m) - h.len)
           IN  /\ Packed(m) = h.bytes \o p /\ h.len \in {2, 4} /\ Len(h.bytes) = h.len
               /\ h.bytes \in Seq(Byte) /\ p \in Seq(Byte) /\ Len(p) + 4 = BufferLength(m)
               /\ HeadAddress(m) \in 0 .. TooHigh - 1
               /\ UnpackHeader(Packed(m))
                    = [len |-> h.len, address |-> HeadAddress(m), more |-> FALSE]
               /\ Unframed(Frame(Packed(m))) = Packed(m)
<1> DEFINE room == BufferLength(m)
           a == HeadAddress(m)
           h == PackHeader(room, a, FALSE)
           p == Payload(m, room - h.len)
<1>1. room \in Nat /\ room >= 5 /\ room <= Limit32
  BY BufferBounds
<1>2. a \in 0 .. TooHigh - 1
  <2>1. m.address \in UserAddress
    BY Kinds
  <2> QED BY <2>1, UserNumbers, Limits DEF HeadAddress
<1>3. Packed(m) = h.bytes \o p
  BY DEF Packed, HeadAddress
<1> HIDE DEF a, h, room
<1>4. h.len \in {2, 4} /\ h.bytes \in Seq(Byte) /\ Len(h.bytes) = h.len
  <2>1. room >= 4
    BY <1>1
  <2> QED BY <1>1, <1>2, <2>1, AddressHeader, EmptySeq, Zenon DEF h
<1>5. p \in Seq(Byte) /\ Len(p) + 4 = room
  <2>1. room - h.len \in Nat /\ (room - h.len) + 4 >= room
    BY <1>1, <1>4
  <2> QED BY <2>1, PayloadBytes DEF room
<1> HIDE DEF p
<1>6. UnpackHeader(h.bytes \o p) = [len |-> h.len, address |-> a, more |-> FALSE]
  <2>1. room >= 4
    BY <1>1
  <2> QED BY <1>1, <1>2, <1>5, <2>1, AddressHeader, Zenon DEF h
<1>7. Packed(m) \in Seq(Byte) /\ Len(Packed(m)) <= Limit32
  <2>1. /\ Packed(m) \in Seq(Byte) /\ Len(Packed(m)) = Len(h.bytes) + Len(p)
        /\ Len(p) \in Nat
    BY <1>3, <1>4, <1>5, Joined
  <2> QED BY <1>1, <1>4, <1>5, <2>1, Limits
<1>8. Unframed(Frame(Packed(m))) = Packed(m)
  BY <1>7, FrameRoundTrip
<1> QED BY <1>2, <1>3, <1>4, <1>5, <1>6, <1>8 DEF h, p, a, room

\* What the other side takes each message for: the message, and a FILE_INFO for what it
\* says of the file.
LEMMA MessageRead ==
    ASSUME NEW m \in Messages
    PROVE  Reading[m] = IF m.type = "INFO"
                          THEN [type |-> "INFO", name |-> Name[m.file],
                                length |-> Length[m.file], address |-> m.address]
                          ELSE m
<1> DEFINE room == BufferLength(m)
           a == HeadAddress(m)
           h == PackHeader(room, a, FALSE)
           p == Payload(m, room - h.len)
           header == [len |-> h.len, address |-> a, more |-> FALSE]
<1>1. /\ Packed(m) = h.bytes \o p /\ h.len \in {2, 4} /\ Len(h.bytes) = h.len
      /\ h.bytes \in Seq(Byte) /\ p \in Seq(Byte) /\ Len(p) + 4 = room
      /\ UnpackHeader(Packed(m)) = header
      /\ Unframed(Frame(Packed(m))) = Packed(m)
  BY PackedMessage
<1>2. Behind(Packed(m), h.len) = p
  BY <1>1, BehindJoined
<1>3. Sent[m] = Packed(m)
  BY DEF Sent
<1>4. Reading[m] = Meaning(header, p)
  <2> DEFINE body == Unframed(Frame(Sent[m]))
             read == UnpackHeader(body)
  <2>1. Reading[m] = Meaning(read, Behind(body, read.len))
    BY DEF Reading
  <2>2. header.len = h.len
    OBVIOUS
  <2> HIDE DEF header, h, p
  <2>3. body = Packed(m)
    BY <1>1, <1>3
  <2> HIDE DEF body
  <2>4. read = header
    BY <1>1, <2>3
  <2> HIDE DEF read
  <2> QED BY <1>2, <2>1, <2>2, <2>3, <2>4
<1>5. CASE m \in WriteMessage({0})
  <2>1. /\ m = [type |-> "WRITE", address |-> m.address, data |-> m.data, version |-> 0]
        /\ m.type = "WRITE" /\ m.address \in UserAddress
    BY <1>5, Kinds DEF WriteMessage
  <2>2. a = m.address /\ a < RMF_CMD_START_ADDR /\ a # RMF_CMD_START_ADDR
    BY <2>1, UserNumbers, Limits DEF HeadAddress, UserAddress
  <2>3. p = m.data
    BY <2>1 DEF Payload
  <2> HIDE DEF a, h, p
  <2>4. header.len > 0 /\ header.address = a
    BY <1>1
  <2> HIDE DEF header
  <2>5. Meaning(header, p) = Write(a, p, 0)
    BY <2>2, <2>4 DEF Meaning
  <2>6. Reading[m] = m
    BY <1>4, <2>1, <2>2, <2>3, <2>5 DEF Write
  <2> QED BY <2>1, <2>6
<1>6. CASE m \in OpenMessage
  <2>1. m = Open(m.address) /\ m.type = "OPEN" /\ m.address \in Number
    BY <1>6, Kinds, UserNumbers
  <2>2. a = RMF_CMD_START_ADDR
    BY <2>1 DEF HeadAddress
  <2>3. p = PackCommand(8, RMF_CMD_FILE_OPEN, m.address).bytes
    <3> DEFINE b == Little4(RMF_CMD_FILE_OPEN) \o Little4(m.address)
    <3>1. p = PackCommand(room - h.len, RMF_CMD_FILE_OPEN, m.address).bytes
      BY <2>1 DEF Payload
    <3>2. room = 12
      BY <2>1 DEF BufferLength
    <3>3. Len(b) = 8
      <4>1. /\ Little4(RMF_CMD_FILE_OPEN) \in Seq(Byte) /\ Len(Little4(RMF_CMD_FILE_OPEN)) = 4
            /\ Little4(m.address) \in Seq(Byte) /\ Len(Little4(m.address)) = 4
        BY <2>1, UserNumbers, CommandBytes, EmptySeq DEF Number
      <4>2. Len(b) = Len(Little4(RMF_CMD_FILE_OPEN)) + Len(Little4(m.address))
        BY <4>1, Joined, Zenon
      <4> QED BY <4>1, <4>2
    <3> HIDE DEF b, room, h, p
    <3>4. room - h.len \in Nat /\ 8 <= room - h.len
      BY <1>1, <3>2
    <3>5. \A r \in Nat : 8 <= r => Written(b, r) = [len |-> 8, bytes |-> b]
      BY <3>3 DEF Written
    <3> QED BY <3>1, <3>4, <3>5 DEF PackCommand, b
  <2>4. UnpackCommand(p, RMF_CMD_FILE_OPEN) = Read(8, m.address)
    <3> HIDE DEF p
    <3>1. p \o <<>> = p
      BY <1>1, ConcatEmptySeq
    <3>2. UnpackCommand(p \o <<>>, RMF_CMD_FILE_OPEN) = Read(8, m.address)
      BY <2>1, <2>3, UserNumbers, CommandRoundTrip, EmptySeq
    <3> QED BY <3>1, <3>2
  <2> HIDE DEF a, h, p
  <2>5. /\ ~ (Len(p) < 8) /\ FromLittle4(p) = RMF_CMD_FILE_OPEN
        /\ UnpackCommand(p, RMF_CMD_FILE_OPEN).len = 8
        /\ UnpackCommand(p, RMF_CMD_FILE_OPEN).value = m.address
    BY <2>4 DEF UnpackCommand, Read
  <2>6. Command(p) = Open(m.address)
    <3>1. ~ (Len(p) < 4) /\ FromLittle4(p) # RMF_CMD_FILE_INFO
      BY <1>1, <2>5, LenProperties DEF RMF_CMD_FILE_OPEN, RMF_CMD_FILE_INFO
    <3> QED BY <2>5, <3>1 DEF Command
  <2>7. header.len > 0 /\ header.address = RMF_CMD_START_ADDR
    BY <1>1, <2>2
  <2> HIDE DEF header
  <2>8. Meaning(header, p) = Command(p)
    BY <2>7, Limits DEF Meaning
  <2>9. Reading[m] = m
    BY <1>4, <2>1, <2>6, <2>8
  <2> QED BY <2>1, <2>9
<1>7. CASE m \in InfoMessage(Mirrored \cup DOMAIN NewObject)
  <2>1. m.type = "INFO" /\ m.address \in Number /\ m.file \in File
    BY <1>7, Kinds, UserNumbers
  <2> DEFINE file == [address |-> m.address, length |-> Length[m.file], name |-> Name[m.file]]
             n == FileInfoBaseLen + Len(Name[m.file]) + 1
             info == [len |-> n, address |-> m.address, length |-> Length[m.file],
                      name |-> Name[m.file]]
  <2>2. a = RMF_CMD_START_ADDR
    BY <2>1 DEF HeadAddress
  <2>3. p = PackFileInfo(room - h.len, file).bytes /\ room = 4 + n
    BY <2>1 DEF Payload, BufferLength
  <2>4. /\ Length[m.file] \in Number /\ Name[m.file] \in Seq(Byte)
        /\ Len(Name[m.file]) \in Nat /\ Len(Name[m.file]) < MaxName
    BY <2>1, NodeFiles
  <2>5. n \in Nat /\ n >= 17 /\ FileInfoBaseLen \in Nat /\ FileInfoBaseLen >= 16
    <3>1. FileInfoBaseLen \in Nat /\ FileInfoBaseLen >= 16
      BY InfoSizes DEF FileInfoBaseLen
    <3> QED BY <2>4, <3>1
  <2>6. room - h.len \in Nat /\ n <= room - h.len
    <3> HIDE DEF n, room, h
    <3> QED BY <1>1, <2>3, <2>5
  <2>7. UnpackFileInfo(p) = info
    <3>1. UnpackFileInfo(PackFileInfo(room - h.len, file).bytes) = info
      <4> HIDE DEF room, h
      <4> QED BY <2>1, <2>4, <2>6, FileInfoRoundTrip
    <3> QED BY <2>3, <3>1
  <2> HIDE DEF a, h, p, room
  <2>8. /\ UnpackFileInfo(p).len = n /\ UnpackFileInfo(p).name = Name[m.file]
        /\ UnpackFileInfo(p).length = Length[m.file] /\ UnpackFileInfo(p).address = m.address
    BY <2>7
  <2>9. ~ (Len(p) < FileInfoBaseLen) /\ FromLittle4(p) = RMF_CMD_FILE_INFO
    <3> HIDE DEF n
    <3> QED BY <2>5, <2>8 DEF UnpackFileInfo
  <2>10. Command(p) = [type |-> "INFO", name |-> Name[m.file], length |-> Length[m.file],
                       address |-> m.address]
    <3> HIDE DEF n
    <3>1. ~ (Len(p) < 4) /\ n > 0
      BY <1>1, <2>5, <2>9, LenProperties
    <3>2. FromLittle4(p) = RMF_CMD_FILE_INFO /\ FromLittle4(p) # RMF_CMD_FILE_OPEN
      BY <2>9 DEF RMF_CMD_FILE_INFO, RMF_CMD_FILE_OPEN
    <3> QED BY <2>8, <3>1, <3>2 DEF Command
  <2>11. header.len > 0 /\ header.address = RMF_CMD_START_ADDR
    BY <1>1, <2>2
  <2> HIDE DEF header
  <2>12. Meaning(header, p) = Command(p)
    BY <2>11, Limits DEF Meaning
  <2> QED BY <1>4, <2>1, <2>10, <2>12
<1> HIDE DEF p, h, header, room, a
<1> QED BY <1>5, <1>6, <1>7, Kinds

\* The bytes of every message that is sent mean the message to the side that reads
\* them, the number of the state included.
THEOREM MessageRoundTrip ==
    /\ \A m \in InfoMessage(Mirrored \cup DOMAIN NewObject) :
         Received(m) = [type |-> "INFO", name |-> Name[m.file],
                        length |-> Length[m.file], address |-> m.address]
    /\ \A m \in OpenMessage \cup WriteMessage(Nat) : Received(m) = m
<1>1. ASSUME NEW m \in InfoMessage(Mirrored \cup DOMAIN NewObject)
      PROVE  Received(m) = [type |-> "INFO", name |-> Name[m.file],
                            length |-> Length[m.file], address |-> m.address]
  <2>1. m \in Messages /\ m.type = "INFO"
    BY Kinds
  <2>2. Bare(m) = m
    BY <2>1 DEF Bare
  <2>3. Reading[m] = [type |-> "INFO", name |-> Name[m.file],
                      length |-> Length[m.file], address |-> m.address]
    BY <2>1, MessageRead
  <2> QED BY <2>1, <2>2, <2>3 DEF Received
<1>2. ASSUME NEW m \in OpenMessage
      PROVE  Received(m) = m
  <2>1. m \in Messages /\ m.type = "OPEN"
    BY Kinds
  <2>2. Bare(m) = m
    BY <2>1 DEF Bare
  <2>3. Reading[m] = m
    BY <2>1, MessageRead
  <2> QED BY <2>1, <2>2, <2>3 DEF Received
<1>3. ASSUME NEW m \in WriteMessage(Nat)
      PROVE  Received(m) = m
  <2> DEFINE b == Write(m.address, m.data, 0)
  <2>1. /\ m.type = "WRITE" /\ m.address \in UserAddress /\ m.data \in Data
        /\ m = Write(m.address, m.data, m.version)
    BY Kinds
  <2>2. b \in Messages
    <3>1. b \in WriteMessage({0})
      BY <2>1 DEF WriteMessage, Write
    <3> QED BY <3>1, Kinds
  <2>3. Bare(m) = b
    BY <2>1 DEF Bare, Write
  <2>4. Reading[b] = b /\ b.type = "WRITE"
    BY <2>2, MessageRead DEF Write
  <2>5. [b EXCEPT !.version = m.version] = m
    BY <2>1 DEF Write
  <2> HIDE DEF b
  <2> QED BY <2>1, <2>3, <2>4, <2>5 DEF Received
<1> QED BY <1>1, <1>2, <1>3

\* A message of one byte, with its address, is not longer than five bytes.
LEMMA ShortWrite ==
    ASSUME NEW m \in WriteMessage(Nat), Len(m.data) = 1
    PROVE  SendLength(m) \in Nat /\ SendLength(m) <= 5 /\ BufferLength(m) = 5
<1> DEFINE b == Write(m.address, m.data, 0)
<1>1. m.type = "WRITE" /\ m.address \in UserAddress /\ m.data \in Data
  BY Kinds
<1>2. b \in Messages
  <2>1. b \in WriteMessage({0})
    BY <1>1 DEF WriteMessage, Write
  <2> QED BY <2>1, Kinds
<1>3. Bare(m) = b
  <2>1. m = Write(m.address, m.data, m.version)
    BY Kinds
  <2> QED BY <1>1, <2>1 DEF Bare, Write
<1>4. BufferLength(b) = 5 /\ BufferLength(m) = 5
  <2>1. b.type = "WRITE" /\ b.data = m.data
    BY DEF Write
  <2> HIDE DEF b
  <2>2. BufferLength(b) = 4 + Len(b.data) /\ BufferLength(m) = 4 + Len(m.data)
    BY <1>1, <2>1 DEF BufferLength
  <2> QED BY <2>1, <2>2
<1> HIDE DEF b
<1> DEFINE h == PackHeader(BufferLength(b), HeadAddress(b), FALSE)
           p == Payload(b, BufferLength(b) - h.len)
<1>5. /\ Packed(b) = h.bytes \o p /\ h.len \in {2, 4} /\ Len(h.bytes) = h.len
      /\ h.bytes \in Seq(Byte) /\ p \in Seq(Byte) /\ Len(p) + 4 = BufferLength(b)
  BY <1>2, PackedMessage
<1> HIDE DEF h, p
<1>6. Len(Packed(b)) = h.len + Len(p) /\ Len(p) = 1
  <2>1. Len(Packed(b)) = Len(h.bytes) + Len(p)
    BY <1>5, Joined
  <2> DEFINE n == Len(p)
  <2>2. n \in Nat
    BY <1>5, LenProperties
  <2>3. n + 4 = 5
    BY <1>4, <1>5, Zenon
  <2>4. Len(h.bytes) = h.len
    BY <1>5
  <2> HIDE DEF n
  <2>5. n = 1
    BY <2>2, <2>3
  <2> QED BY <2>1, <2>4, <2>5, Zenon DEF n
<1>7. SendLength(m) = Len(Packed(b))
  BY <1>2, <1>3 DEF SendLength, Sent
<1> QED BY <1>4, <1>5, <1>6, <1>7

-----------------------------------------------------------------------------
(* The send buffer and the queue. *)

Outgoing == InfoMessage(Mirrored \cup DOMAIN NewObject) \cup OpenMessage \cup WriteMessage(Nat)

\* No buffer yet, or one with room for a write of one byte.
Roomy(buffer) == buffer \in Nat /\ (buffer = 0 \/ buffer >= 9)

\* send puts the message at the end of the queue, or leaves the queue alone; a write
\* of one byte always fits.
LEMMA TransmitResult ==
    ASSUME NEW l, l = [buffer |-> l.buffer, queue |-> l.queue, dropped |-> l.dropped],
           Roomy(l.buffer), l.dropped \in BOOLEAN,
           NEW m \in Outgoing, NEW t, t = Transmit(l, m)
    PROVE  /\ t = [buffer |-> t.buffer, queue |-> t.queue, dropped |-> t.dropped]
           /\ Roomy(t.buffer) /\ t.dropped \in BOOLEAN
           /\ t.queue = l.queue \/ (link # "down" /\ t.queue = Append(l.queue, m))
           /\ m \in WriteMessage(Nat) /\ Len(m.data) = 1 /\ link # "down"
                => t.queue = Append(l.queue, m)
<1>1. BufferLength(m) \in Nat /\ BufferLength(m) >= 5
  <2>1. CASE m \in WriteMessage(Nat)
    <3>1. m.type = "WRITE" /\ m.data \in Data
      BY <2>1, Kinds
    <3>2. BufferLength(m) = 4 + Len(m.data)
      BY <3>1 DEF BufferLength
    <3> QED BY <3>1, <3>2, DataBytes
  <2>2. CASE m \in Messages
    BY <2>2, BufferBounds
  <2> QED BY <2>1, <2>2, Kinds DEF Outgoing
<1> DEFINE buffer == Resized(l.buffer, m)
<1>2. Roomy(buffer) /\ buffer >= 9
  BY <1>1 DEF Resized, Roomy, MaxNumHeaderLen
<1>3. \/ t = [l EXCEPT !.buffer = buffer, !.dropped = TRUE]
         /\ MaxNumHeaderLen + SendLength(m) > buffer
      \/ t = [l EXCEPT !.buffer = buffer,
                       !.queue = IF link = "down" THEN l.queue ELSE Append(l.queue, m)]
  BY DEF Transmit
<1>4. m \in WriteMessage(Nat) /\ Len(m.data) = 1 => ~ (MaxNumHeaderLen + SendLength(m) > buffer)
  BY <1>2, ShortWrite DEF MaxNumHeaderLen, Roomy
<1> HIDE DEF buffer
<1> QED BY <1>2, <1>3, <1>4

\* The list `longer` begins with q; what is behind it is in `new`.
Extends(longer, q, new) ==
    /\ DOMAIN q \subseteq DOMAIN longer
    /\ \A i \in DOMAIN q : longer[i] = q[i]
    /\ \A i \in DOMAIN longer \ DOMAIN q : longer[i] \in new

LEMMA ExtendsMore ==
    ASSUME NEW S, NEW q, NEW new, new \subseteq S, NEW longer \in Seq(S),
           Extends(longer, q, new), NEW m \in new
    PROVE  Append(longer, m) \in Seq(S) /\ Extends(Append(longer, m), q, new)
<1> DEFINE last == Len(longer) + 1
           more == Append(longer, m)
<1>1. /\ more \in Seq(S) /\ more[last] = m
      /\ \A i \in 1 .. Len(longer) : more[i] = longer[i]
      /\ DOMAIN more = 1 .. last /\ DOMAIN longer = 1 .. Len(longer) /\ Len(longer) \in Nat
  BY AppendProperties, LenProperties
<1> HIDE DEF more, last
<1>2. last = Len(longer) + 1
  BY DEF last
<1>3. DOMAIN more = DOMAIN longer \cup {last}
  BY <1>1, <1>2
<1> QED BY <1>1, <1>3 DEF Extends, more

\* Several messages in a row.
LEMMA SendAllResult ==
    ASSUME NEW S, toServer \in Seq(S), NEW new, new \subseteq S \cap Outgoing,
           NEW messages \in Seq(new),
           Roomy(mSendBuffer), dropped \in BOOLEAN, SendAll(messages)
    PROVE  /\ Roomy(mSendBuffer') /\ dropped' \in BOOLEAN
           /\ toServer' \in Seq(S) /\ Extends(toServer', toServer, new)
<1> DEFINE n == Len(messages)
           State == [buffer : {b \in Nat : Roomy(b)},
                     queue : {q \in Seq(S) : Extends(q, toServer, new)}, dropped : BOOLEAN]
           step == [x \in State \X (1 .. n) |-> Transmit(x[1], messages[x[2]])]
<1>1. n \in Nat /\ \A i \in 1 .. n : messages[i] \in new
  BY LenProperties, ElementOfSeq
<1>2. Sender \in State
  <2>1. Extends(toServer, toServer, new)
    BY DEF Extends
  <2>2. mSendBuffer \in Nat
    BY DEF Roomy
  <2> QED BY <2>1, <2>2 DEF Sender
<1>3. ASSUME NEW l \in State, NEW m \in new
      PROVE  Transmit(l, m) \in State
  <2> DEFINE t == Transmit(l, m)
  <2>1. /\ l = [buffer |-> l.buffer, queue |-> l.queue, dropped |-> l.dropped]
        /\ Roomy(l.buffer) /\ l.dropped \in BOOLEAN
        /\ l.queue \in Seq(S) /\ Extends(l.queue, toServer, new)
    OBVIOUS
  <2>2. m \in Outgoing /\ m \in S
    OBVIOUS
  <2>3. /\ t = [buffer |-> t.buffer, queue |-> t.queue, dropped |-> t.dropped]
        /\ Roomy(t.buffer) /\ t.dropped \in BOOLEAN
        /\ t.queue = l.queue \/ t.queue = Append(l.queue, m)
    BY <2>1, <2>2, TransmitResult
  <2> HIDE DEF t
  <2>4. t.queue \in Seq(S) /\ Extends(t.queue, toServer, new)
    <3>1. CASE t.queue = l.queue
      BY <2>1, <3>1
    <3>2. CASE t.queue = Append(l.queue, m)
      <4>1. Append(l.queue, m) \in Seq(S) /\ Extends(Append(l.queue, m), toServer, new)
        BY <2>1, ExtendsMore
      <4> QED BY <3>2, <4>1
    <3> QED BY <2>3, <3>1, <3>2
  <2>5. t.buffer \in Nat
    BY <2>3 DEF Roomy
  <2> QED BY <2>3, <2>4, <2>5 DEF t
<1>4. step \in [State \X (1 .. n) -> State]
  <2> HIDE DEF State, n
  <2> QED BY <1>1, <1>3
<1> HIDE DEF State
<1>5. PICK f \in [0 .. n -> State] :
        \A i \in 0 .. n : f[i] = IF i = 0 THEN Sender ELSE step[<<f[i-1], i>>]
  <2> HIDE DEF step, n
  <2>1. step \in Steps(State, n)
    BY <1>4 DEF Steps
  <2>2. \E f : f \in [0 .. n -> State] /\ Iterates(f, Sender, n, step)
    <3> HIDE DEF n, step
    <3> QED BY <1>1, <1>2, <2>1, Iteration, Zenon
  <2> QED BY <2>2 DEF Iterates
<1>6. f = [i \in 0 .. n |-> IF i = 0 THEN Sender ELSE Transmit(f[i-1], messages[i])]
  <2>1. ASSUME NEW i \in 0 .. n
        PROVE  f[i] = IF i = 0 THEN Sender ELSE Transmit(f[i-1], messages[i])
    <3>1. f[i] = IF i = 0 THEN Sender ELSE step[<<f[i-1], i>>]
      BY <1>5
    <3>2. i # 0 => <<f[i-1], i>> \in State \X (1 .. n)
      <4> HIDE DEF n, step
      <4>1. i # 0 => i - 1 \in 0 .. n /\ i \in 1 .. n
        BY <1>1
      <4>2. i # 0 => f[i-1] \in State
        BY <1>5, <4>1
      <4> QED BY <4>1, <4>2
    <3> QED BY <3>1, <3>2
  <2> HIDE DEF n, step
  <2> QED BY <1>5, <2>1
<1>7. PICK sent :
        /\ sent = [i \in 0 .. n |-> IF i = 0 THEN Sender ELSE Transmit(sent[i-1], messages[i])]
        /\ Becomes(sent[n])
  <2> HIDE DEF step, n
  <2>1. \E g : g = [i \in 0 .. n |-> IF i = 0 THEN Sender ELSE Transmit(g[i-1], messages[i])]
    BY <1>6
  <2> QED BY <2>1 DEF SendAll, n
<1>8. sent[n] \in State
  <2>1. sent[0] \in State
    BY <1>1, <1>2, <1>7
  <2>2. ASSUME NEW i \in 1 .. n, sent[i-1] \in State
        PROVE  sent[i] \in State
    <3>1. i \in 0 .. n /\ i # 0 /\ messages[i] \in new
      BY <1>1
    <3>2. sent[i] = Transmit(sent[i-1], messages[i])
      BY <1>7, <3>1
    <3> QED BY <1>3, <2>2, <3>1, <3>2
  <2>3. \A i \in 0 .. n : sent[i] \in State
    <3> HIDE DEF n
    <3> QED BY <1>1, <2>1, <2>2, Kept
  <2> QED BY <1>1, <2>3
<1> QED BY <1>7, <1>8 DEF State, Becomes

-----------------------------------------------------------------------------
(* The content of a file. *)

\* A write within the file leaves a content of the file; one of the whole file leaves
\* what is written.
LEMMA OverwriteContent ==
    ASSUME NEW f \in File, NEW c \in Content(f), NEW offset \in Nat,
           NEW data \in Seq(0 .. MaxWrites), offset + Len(data) <= Length[f]
    PROVE  /\ Overwrite(c, offset, data) \in Content(f)
           /\ Len(data) = Length[f] => Overwrite(c, offset, data) = data
<1> DEFINE n == Length[f]
           d == Len(data)
           l == SubSeq(c, 1, offset)
           r == SubSeq(c, offset + d + 1, Len(c))
           B == 0 .. MaxWrites
<1>1. n \in Nat /\ d \in Nat /\ data \in Seq(B) /\ offset + d <= n
  BY Files, LenProperties
<1>2. c \in Seq(B) /\ Len(c) = n /\ \A i \in 1 .. n : c[i] \in B
  <2>1. c \in [1 .. n -> B]
    BY DEF Content
  <2> HIDE DEF B, n
  <2> QED BY <1>1, <2>1
<1> HIDE DEF d, B, n
<1>3. l \in Seq(B) /\ Len(l) = offset
  <2>1. 1 \in Int /\ offset \in Int /\ \A i \in 1 .. offset : c[i] \in B
    BY <1>1, <1>2
  <2>2. l \in Seq(B) /\ Len(l) = IF 1 <= offset THEN offset - 1 + 1 ELSE 0
    BY <1>2, <2>1, SubSeqProperties
  <2> QED BY <2>2
<1>4. r \in Seq(B) /\ Len(r) = n - (offset + d)
  <2> DEFINE a == offset + d + 1
  <2>1. a \in Int /\ n \in Int /\ \A i \in a .. n : c[i] \in B
    BY <1>1, <1>2
  <2> HIDE DEF a
  <2>2. SubSeq(c, a, n) \in Seq(B) /\ Len(SubSeq(c, a, n)) = IF a <= n THEN n - a + 1 ELSE 0
    BY <1>2, <2>1, SubSeqProperties
  <2> QED BY <1>1, <1>2, <2>2 DEF a
<1> HIDE DEF l, r
<1> DEFINE ld == l \o data
           o == ld \o r
<1>5. ld \in Seq(B) /\ Len(ld) = offset + d
  <2>1. ld \in Seq(B) /\ Len(ld) = Len(l) + Len(data)
    BY <1>1, <1>3, ConcatProperties, Zenon
  <2> QED BY <1>3, <2>1 DEF d
<1> HIDE DEF ld
<1>6. o \in Seq(B) /\ Len(o) = n
  <2>1. o \in Seq(B) /\ Len(o) = Len(ld) + Len(r)
    BY <1>4, <1>5, ConcatProperties, Zenon
  <2> QED BY <1>1, <1>4, <1>5, <2>1
<1>7. Overwrite(c, offset, data) = o
  BY DEF Overwrite, o, ld, l, r, d
<1>8. o \in [1 .. n -> B]
  <2> HIDE DEF o
  <2> QED BY <1>6, LenProperties, ElementOfSeq
<1>9. d = n => o = data
  <2> SUFFICES ASSUME d = n PROVE o = data
    OBVIOUS
  <2>1. Len(l) = 0 /\ Len(r) = 0
    BY <1>1, <1>3, <1>4
  <2>2. l = <<>> /\ r = <<>>
    BY <1>3, <1>4, <2>1, EmptySeq
  <2>3. ld = data
    BY <1>1, <2>2, ConcatEmptySeq DEF ld
  <2> QED BY <1>1, <2>2, <2>3, ConcatEmptySeq
<1> QED BY <1>7, <1>8, <1>9 DEF Content, n, d, B

-----------------------------------------------------------------------------
(* The node is created. *)

FileMap == [files : Seq(File), address : [File -> Address]]

\* A file that is not in the map yet is put into it at a place of its own, or not at all.
LEMMA AttachedMap ==
    ASSUME NEW map \in FileMap, NEW f \in File, NEW new, new = Attached(map, f)
    PROVE  /\ new \in FileMap
           /\ \A g \in File \ {f} : new.address[g] = map.address[g]
           /\ ToSet(new.files) \subseteq ToSet(map.files) \cup {f}
           /\ f \notin ToSet(map.files) /\ PlacedList(map.files, map.address)
                => PlacedList(new.files, new.address)
<1> DEFINE a == AssignFileAddress(map.files, map.address, f, Area(f))
           after == [map.address EXCEPT ![f] = a]
           list == InsertDefault(map.files, after, f)
<1>1. map.files \in Seq(File) /\ map.address \in [File -> Address]
  BY DEF FileMap
<1>2. CASE a = InvalidAddress
  <2>1. new = map
    BY <1>2 DEF Attached
  <2> HIDE DEF a
  <2> QED BY <2>1
<1>3. CASE a # InvalidAddress
  <2>1. new = [files |-> list, address |-> after]
    BY <1>3 DEF Attached
  <2>2. a \in Address
    BY <1>1, <1>3, AssignAligned
  <2>3. list \in Seq(File) /\ ToSet(list) = ToSet(map.files) \cup {f}
    BY <1>1, InsertMembers
  <2>4. f \notin ToSet(map.files) /\ PlacedList(map.files, map.address) => PlacedList(list, after)
    BY <1>1, <1>3, InsertPlacedList
  <2> HIDE DEF a, list
  <2>5. after \in [File -> Address] /\ \A g \in File \ {f} : after[g] = map.address[g]
    BY <1>1, <2>2
  <2> HIDE DEF after
  <2> QED BY <2>1, <2>3, <2>4, <2>5 DEF FileMap
<1> QED BY <1>2, <1>3

LEMMA LocalIndices ==
    /\ Len(LocalFiles) \in Nat
    /\ \A i \in 1 .. Len(LocalFiles) : LocalFiles[i] \in Local /\ LocalFiles[i] \in File
    /\ \A i, j \in 1 .. Len(LocalFiles) : LocalFiles[i] = LocalFiles[j] => i = j
<1>1. LocalFiles \in Seq(File)
  BY Node
<1>2. Len(LocalFiles) \in Nat /\ DOMAIN LocalFiles = 1 .. Len(LocalFiles)
  BY <1>1, LenProperties
<1> QED BY <1>1, <1>2, Node, ElementOfSeq DEF Local, ToSet

\* createLocalNode places its files one after the other.
LEMMA CreatedMap ==
    ASSUME mLocalFiles = <<>>, mAddress \in [File -> Address], CreateLocalNode
    PROVE  /\ mLocalFiles' \in Seq(File) /\ mAddress' \in [File -> Address]
           /\ ToSet(mLocalFiles') \subseteq Local
           /\ PlacedList(mLocalFiles', mAddress')
           /\ \A f \in File \ Local : mAddress'[f] = mAddress[f]
<1> DEFINE n == Len(LocalFiles)
           start == [files |-> mLocalFiles, address |-> mAddress]
           step == [x \in FileMap \X (1 .. n) |-> Attached(x[1], LocalFiles[x[2]])]
<1>1. n \in Nat /\ \A i \in 1 .. n : LocalFiles[i] \in File
  BY LocalIndices
<1>2. start \in FileMap
  BY EmptySeq DEF FileMap
<1>3. step \in Steps(FileMap, n)
  <2>1. \A map \in FileMap, f \in File : Attached(map, f) \in FileMap
    BY AttachedMap
  <2> HIDE DEF n
  <2> QED BY <1>1, <2>1 DEF Steps
<1>4. \E map : map = [i \in 0 .. n |-> IF i = 0 THEN start ELSE Attached(map[i-1], LocalFiles[i])]
  <2>1. PICK f : f \in [0 .. n -> FileMap] /\ Iterates(f, start, n, step)
    <3> HIDE DEF n, step, start
    <3> QED BY <1>1, <1>2, <1>3, Iteration, Zenon
  <2>2. ASSUME NEW i \in 0 .. n
        PROVE  f[i] = IF i = 0 THEN start ELSE Attached(f[i-1], LocalFiles[i])
    <3>1. f[i] = IF i = 0 THEN start ELSE step[<<f[i-1], i>>]
      BY <2>1 DEF Iterates
    <3>2. i # 0 => <<f[i-1], i>> \in FileMap \X (1 .. n)
      <4> HIDE DEF n, step, start
      <4>1. i # 0 => i - 1 \in 0 .. n /\ i \in 1 .. n
        BY <1>1
      <4>2. i # 0 => f[i-1] \in FileMap
        BY <2>1, <4>1
      <4> QED BY <4>1, <4>2
    <3> HIDE DEF start
    <3> QED BY <3>1, <3>2
  <2>3. f = [i \in 0 .. n |-> IF i = 0 THEN start ELSE Attached(f[i-1], LocalFiles[i])]
    <3> HIDE DEF n, step, start
    <3> QED BY <2>1, <2>2
  <2> QED BY <2>3
<1>5. PICK map :
        /\ map = [i \in 0 .. n |-> IF i = 0 THEN start ELSE Attached(map[i-1], LocalFiles[i])]
        /\ mLocalFiles' = map[n].files /\ mAddress' = map[n].address
  BY <1>4 DEF CreateLocalNode
<1> DEFINE Good(i, m) ==
             /\ m \in FileMap /\ PlacedList(m.files, m.address)
             /\ ToSet(m.files) \subseteq {LocalFiles[j] : j \in 1 .. i}
             /\ \A f \in File \ Local : m.address[f] = mAddress[f]
           S == {x \in (0 .. n) \X FileMap : Good(x[1], x[2])}
           g == [i \in 0 .. n |-> <<i, map[i]>>]
<1>6. g[0] \in S
  <2>1. map[0] = start
    BY <1>1, <1>5
  <2>2. PlacedList(mLocalFiles, mAddress) /\ ToSet(mLocalFiles) = {}
    BY EmptySeq DEF PlacedList, Disjoint, ToSet
  <2>3. Good(0, start)
    BY <1>2, <2>2
  <2> HIDE DEF Good, start
  <2> QED BY <1>1, <1>2, <2>1, <2>3
<1>7. ASSUME NEW i \in 1 .. n, g[i-1] \in S
      PROVE  g[i] \in S
  <2> DEFINE f == LocalFiles[i]
             old == map[i-1]
  <2>1. i - 1 \in 0 .. n /\ i \in 0 .. n /\ i # 0
    BY <1>1
  <2>2. Good(i-1, old) /\ old \in FileMap
    <3>1. g[i-1] = <<i-1, old>>
      BY <2>1
    <3> HIDE DEF Good, g, old
    <3> QED BY <1>7, <3>1
  <2>3. map[i] = Attached(old, f)
    BY <1>5, <2>1
  <2>4. f \in File /\ f \in Local
    BY LocalIndices
  <2>5. f \notin ToSet(old.files)
    <3>1. \A j \in 1 .. i-1 : j \in 1 .. n /\ j # i
      BY <1>1
    <3>2. \A j \in 1 .. i-1 : LocalFiles[j] # f
      BY <3>1, LocalIndices
    <3> QED BY <2>2, <3>2
  <2> HIDE DEF old
  <2>6. Good(i, map[i])
    <3>1. /\ map[i] \in FileMap
          /\ \A h \in File \ {f} : map[i].address[h] = old.address[h]
          /\ ToSet(map[i].files) \subseteq ToSet(old.files) \cup {f}
          /\ PlacedList(map[i].files, map[i].address)
      <4>1. PlacedList(old.files, old.address)
        BY <2>2
      <4>2. old \in FileMap
        BY <2>2
      <4> HIDE DEF Good, f
      <4> DEFINE new == Attached(old, f)
      <4>3. new \in FileMap /\ \A h \in File \ {f} : new.address[h] = old.address[h]
        BY <2>4, <4>2, AttachedMap
      <4>4. ToSet(new.files) \subseteq ToSet(old.files) \cup {f}
        BY <2>4, <4>2, AttachedMap
      <4>5. PlacedList(new.files, new.address)
        BY <2>4, <2>5, <4>1, <4>2, AttachedMap
      <4> HIDE DEF new
      <4>6. map[i] = new
        BY <2>3 DEF new
      <4> QED BY <4>3, <4>4, <4>5, <4>6
    <3>2. ToSet(map[i].files) \subseteq {LocalFiles[j] : j \in 1 .. i}
      <4>1. \A j \in 1 .. i-1 : j \in 1 .. i
        BY <1>1
      <4>2. i \in 1 .. i
        BY <1>1
      <4> QED BY <2>2, <3>1, <4>1, <4>2
    <3>3. \A h \in File \ Local : map[i].address[h] = mAddress[h]
      BY <2>2, <2>4, <3>1
    <3> QED BY <3>1, <3>2, <3>3
  <2>7. g[i] = <<i, map[i]>>
    BY <2>1
  <2>8. map[i] \in FileMap
    BY <2>6
  <2> HIDE DEF Good, g
  <2> QED BY <2>1, <2>6, <2>7, <2>8
<1>8. g[n] \in S
  <2> HIDE DEF S, g, n
  <2>1. \A i \in 0 .. n : g[i] \in S
    BY <1>1, <1>6, <1>7, Kept
  <2> QED BY <1>1, <2>1
<1>9. Good(n, map[n])
  <2>1. g[n] = <<n, map[n]>>
    BY <1>1
  <2> HIDE DEF Good, g
  <2> QED BY <1>8, <2>1
<1>10. \A j \in 1 .. n : LocalFiles[j] \in Local
  BY LocalIndices
<1> QED BY <1>5, <1>9, <1>10 DEF FileMap
=============================================================================
