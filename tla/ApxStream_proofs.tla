-------------------------- MODULE ApxStream_proofs --------------------------
(***************************************************************************)
(* The stream parser and its users, for every definition text, every       *)
(* message an application composes and every way in which they arrive.     *)
(***************************************************************************)
EXTENDS ApxStream, ListLemmas, FiniteSetTheorems

-----------------------------------------------------------------------------
(* Numbers and their bytes. *)

LEMMA Powers ==
    /\ Radix \in 5 .. 256 /\ Power[0] = 1 /\ Power[1] = Radix /\ Power[2] = Radix * Radix
    /\ Power[3] = Radix * Radix * Radix /\ Power[4] = Radix * Radix * Radix * Radix
    /\ \A n \in 0 .. 4 : Power[n] \in Nat \ {0}
    /\ \A n \in 1 .. 4 : Power[n] = Power[n-1] * Radix
<1>1. Radix \in 5 .. 256
  BY RadixAssumption
<1>2. \A m, n \in Nat \ {0} : m * n \in Nat \ {0}
  OBVIOUS
<1>3. /\ Power[0] = 1 /\ Power[1] = Radix /\ Power[2] = Radix * Radix
      /\ Power[3] = Radix * Radix * Radix /\ Power[4] = Radix * Radix * Radix * Radix
  BY DEF Power
<1>4. Radix \in Nat \ {0} /\ 1 * Radix = Radix
  BY <1>1
<1>5. Radix * Radix \in Nat \ {0}
  BY <1>2, <1>4
<1>6. Radix * Radix * Radix \in Nat \ {0}
  BY <1>2, <1>4, <1>5
<1>7. Radix * Radix * Radix * Radix \in Nat \ {0}
  BY <1>2, <1>4, <1>6
<1>8. ASSUME NEW n \in 0 .. 4 PROVE Power[n] \in Nat \ {0}
  <2>1. n = 0 \/ n = 1 \/ n = 2 \/ n = 3 \/ n = 4
    OBVIOUS
  <2> QED BY <1>3, <1>4, <1>5, <1>6, <1>7, <2>1
<1>9. ASSUME NEW n \in 1 .. 4 PROVE Power[n] = Power[n-1] * Radix
  <2>1. CASE n = 1
    BY <1>3, <1>4, <2>1
  <2>2. CASE n = 2
    BY <1>3, <2>2
  <2>3. CASE n = 3
    BY <1>3, <2>3
  <2>4. CASE n = 4
    BY <1>3, <2>4
  <2> QED BY <2>1, <2>2, <2>3, <2>4
<1> QED BY <1>1, <1>3, <1>8, <1>9

\* A quotient taken of a quotient.
LEMMA QuotientOfQuotient ==
    ASSUME NEW v \in Nat, NEW p \in Nat \ {0}, NEW r \in Nat \ {0}
    PROVE  v \div p = (v \div (p * r)) * r + ((v \div p) % r)
<1> DEFINE q == v \div p
           a == v % p
           k == q \div r
           b == q % r
           pr == p * r
<1>1. q \in Nat /\ a \in 0 .. p - 1 /\ v = p * q + a
  OBVIOUS
<1>2. k \in Nat /\ b \in 0 .. r - 1 /\ q = r * k + b
  BY <1>1
<1> HIDE DEF q, a, k, b
<1>3. pr \in Nat \ {0}
  OBVIOUS
<1>4. v = pr * k + (p * b + a)
  <2>1. p * (r * k + b) = pr * k + p * b
    BY <1>2
  <2>2. p * b \in Int /\ pr * k \in Int
    BY <1>2, <1>3
  <2> QED BY <1>1, <1>2, <2>1, <2>2
<1>5. p * b + a \in 0 .. pr - 1
  <2>1. p * b \in Nat /\ p * b <= p * (r - 1) /\ p * (r - 1) = pr - p
    BY <1>2
  <2> QED BY <1>1, <1>3, <2>1
<1> HIDE DEF pr
<1>6. v \div pr = k
  <2> DEFINE z == p * b + a
  <2>1. z \in 0 .. pr - 1 /\ v = pr * k + z
    BY <1>4, <1>5
  <2> HIDE DEF z
  <2> QED BY <1>2, <1>3, <2>1
<1>7. q = k * r + b
  BY <1>2
<1> QED BY <1>6, <1>7 DEF q, k, b, pr

\* The numbers that the first bytes of a sequence make.
LEMMA FromBigEndianIs ==
    ASSUME NEW b \in Seq(Nat)
    PROVE  \E f \in [0 .. Len(b) -> Nat] :
             /\ f[0] = 0 /\ \A n \in 1 .. Len(b) : f[n] = f[n-1] * Radix + b[n]
             /\ FromBigEndian(b) = f[Len(b)]
<1> DEFINE m == Len(b)
           st == [x \in Nat \X (1 .. m) |-> x[1] * Radix + b[x[2]]]
           Is(f) == f = [n \in 0 .. m |-> IF n = 0 THEN 0 ELSE f[n-1] * Radix + b[n]]
<1>1. m \in Nat /\ (\A n \in 1 .. m : b[n] \in Nat) /\ Radix \in Nat
  <2>1. Radix \in Nat
    BY Powers
  <2> QED BY <2>1, LenProperties, ElementOfSeq
<1> HIDE DEF m
<1>2. st \in Steps(Nat, m)
  <2>1. \A x \in Nat \X (1 .. m) : x[1] \in Nat /\ b[x[2]] \in Nat
    BY <1>1
  <2>2. \A i, j \in Nat : i * Radix + j \in Nat
    BY <1>1
  <2> QED BY <2>1, <2>2 DEF Steps
<1>3. PICK f : f \in [0 .. m -> Nat] /\ Iterates(f, 0, m, st)
  <2> HIDE DEF st
  <2>1. 0 \in Nat
    OBVIOUS
  <2> QED BY <1>1, <1>2, <2>1, Iteration
<1>4. f[0] = 0 /\ \A n \in 1 .. m : f[n] = f[n-1] * Radix + b[n]
  <2>1. f[0] = 0
    <3>1. 0 \in 0 .. m
      BY <1>1
    <3> HIDE DEF st
    <3> QED BY <1>3, <3>1 DEF Iterates
  <2>2. ASSUME NEW n \in 1 .. m PROVE f[n] = f[n-1] * Radix + b[n]
    <3>1. n \in 0 .. m /\ n # 0 /\ n - 1 \in 0 .. m
      BY <1>1
    <3>2. f[n-1] \in Nat /\ f[n] = st[<<f[n-1], n>>]
      BY <1>3, <3>1 DEF Iterates
    <3>3. <<f[n-1], n>> \in Nat \X (1 .. m)
      BY <3>2
    <3> QED BY <3>2, <3>3
  <2> QED BY <2>1, <2>2
<1> HIDE DEF st
<1>5. Is(f)
  <2>1. ASSUME NEW n \in 0 .. m PROVE f[n] = IF n = 0 THEN 0 ELSE f[n-1] * Radix + b[n]
    <3>1. n = 0 \/ n \in 1 .. m
      BY <1>1
    <3> QED BY <1>4, <3>1
  <2> QED BY <1>3, <2>1
<1> DEFINE g == CHOOSE g : Is(g)
<1>6. Is(g)
  BY <1>5
<1>7. FromBigEndian(b) = g[m]
  BY DEF FromBigEndian, m
<1> HIDE DEF g
<1>8. g[0] = 0 /\ \A n \in 1 .. m : g[n] = g[n-1] * Radix + b[n]
  <2>1. \A n \in 0 .. m : g[n] = IF n = 0 THEN 0 ELSE g[n-1] * Radix + b[n]
    BY <1>6
  <2>2. 0 \in 0 .. m /\ \A n \in 1 .. m : n \in 0 .. m /\ n # 0
    BY <1>1
  <2> QED BY <2>1, <2>2
<1> DEFINE same == {n \in 0 .. m : g[n] = f[n]}
<1>9. 0 \in same
  BY <1>1, <1>4, <1>8
<1>10. ASSUME NEW n \in 1 .. m, n - 1 \in same PROVE n \in same
  <2>1. n \in 0 .. m
    BY <1>1
  <2> QED BY <1>4, <1>8, <1>10, <2>1
<1> HIDE DEF same
<1>11. 0 .. m \subseteq same
  BY <1>1, <1>9, <1>10, Reached
<1>12. g[m] = f[m]
  BY <1>1, <1>11 DEF same
<1> QED BY <1>3, <1>4, <1>7, <1>12 DEF m

\* What n bytes hold is read from them.
LEMMA BigEndianRead ==
    ASSUME NEW n \in 0 .. 4, NEW v \in 0 .. Power[n] - 1
    PROVE  /\ BigEndian(v, n) \in Seq(0 .. Radix - 1) /\ Len(BigEndian(v, n)) = n
           /\ FromBigEndian(BigEndian(v, n)) = v
<1> DEFINE b == BigEndian(v, n)
           q(i) == v \div Power[n-i]
<1>1. /\ Radix \in Nat \ {0} /\ v \in Nat
      /\ \A i \in 0 .. n : n - i \in 0 .. 4 /\ Power[n-i] \in Nat \ {0}
  <2>1. Power[n] \in Nat \ {0} /\ Radix \in 5 .. 256
    BY Powers
  <2>2. ASSUME NEW i \in 0 .. n PROVE n - i \in 0 .. 4 /\ Power[n-i] \in Nat \ {0}
    <3>1. n - i \in 0 .. 4
      OBVIOUS
    <3> QED BY <3>1, Powers
  <2> QED BY <2>1, <2>2
<1>2. \A i \in 0 .. n : q(i) \in Nat
  BY <1>1
<1>3. /\ DOMAIN b = 1 .. n /\ \A i \in 1 .. n : b[i] = q(i) % Radix
  BY DEF BigEndian
<1>4. \A i \in 1 .. n : b[i] \in 0 .. Radix - 1
  <2>1. \A i \in 1 .. n : i \in 0 .. n
    OBVIOUS
  <2>2. \A k \in Nat : k % Radix \in 0 .. Radix - 1
    BY <1>1
  <2> HIDE DEF b, q
  <2> QED BY <1>2, <1>3, <2>1, <2>2
<1>5. b \in Seq(0 .. Radix - 1) /\ Len(b) = n
  <2>1. b = [i \in 1 .. n |-> b[i]]
    BY DEF BigEndian
  <2>2. b \in [1 .. n -> 0 .. Radix - 1]
    <3> HIDE DEF b
    <3> QED BY <1>3, <1>4, <2>1
  <2> HIDE DEF b
  <2> DEFINE S == 0 .. Radix - 1
  <2>3. n \in Nat /\ b \in [1 .. n -> S]
    BY <2>2
  <2> HIDE DEF S
  <2>4. b \in Seq(S) /\ Len(b) = n
    BY <2>3, OfLength
  <2> QED BY <2>4 DEF S
<1> HIDE DEF b
<1>6. b \in Seq(Nat)
  <2>1. 0 .. Radix - 1 \subseteq Nat
    BY <1>1
  <2> QED BY <1>5, <2>1, SeqMonotonic
<1>7. PICK f \in [0 .. n -> Nat] :
        /\ f[0] = 0 /\ \A i \in 1 .. n : f[i] = f[i-1] * Radix + b[i]
        /\ FromBigEndian(b) = f[n]
  BY <1>5, <1>6, FromBigEndianIs
<1>8. \A i \in 1 .. n : q(i) = q(i-1) * Radix + b[i]
  <2> TAKE i \in 1 .. n
  <2> DEFINE p == Power[n-i]
             pr == Power[n-(i-1)]
  <2>1. n - (i - 1) \in 1 .. 4 /\ (n - (i - 1)) - 1 = n - i /\ i \in 0 .. n /\ i - 1 \in 0 .. n
    OBVIOUS
  <2>2. pr = p * Radix /\ p \in Nat \ {0}
    BY <1>1, <2>1, Powers
  <2>3. b[i] = (v \div p) % Radix
    BY <1>3
  <2> HIDE DEF p, pr
  <2>4. v \div p = (v \div (p * Radix)) * Radix + ((v \div p) % Radix)
    BY <1>1, <2>2, QuotientOfQuotient
  <2> QED BY <2>2, <2>3, <2>4 DEF p, pr
<1>9. q(0) = 0
  <2>1. n - 0 = n /\ Power[n] \in Nat \ {0}
    <3>1. n - 0 = n
      OBVIOUS
    <3> QED BY <3>1, Powers
  <2>2. \A p \in Nat \ {0} : \A k \in 0 .. p - 1 : k \div p = 0
    OBVIOUS
  <2> QED BY <2>1, <2>2
<1>10. q(n) = v
  <2>1. n - n = 0 /\ Power[0] = 1
    BY Powers
  <2>2. v \div 1 = v
    BY <1>1
  <2> QED BY <2>1, <2>2
<1> HIDE DEF q
<1> DEFINE same == {i \in 0 .. n : f[i] = q(i)}
<1>11. 0 \in same
  BY <1>7, <1>9
<1>12. ASSUME NEW i \in 1 .. n, i - 1 \in same PROVE i \in same
  <2>1. i \in 0 .. n
    OBVIOUS
  <2> QED BY <1>7, <1>8, <1>12, <2>1
<1> HIDE DEF same
<1>13. 0 .. n \subseteq same
  <2>1. n \in Nat
    OBVIOUS
  <2> QED BY <1>11, <1>12, <2>1, Reached
<1>14. f[n] = v
  BY <1>10, <1>13 DEF same
<1> QED BY <1>5, <1>7, <1>14 DEF b

-----------------------------------------------------------------------------
(* Data messages. *)

\* The type in the header of a message, and the data behind its port.
TypeOf(msg) ==
    IF msg.op \in {"write", "invoke", "return"} THEN APX_MSG.write ELSE APX_MSG[msg.op]

Payload(msg) ==
    CASE msg.op \in {"write", "invoke", "return"} -> msg.data
      [] msg.op \in {"rconnect", "pconnect"} -> ConnectData(msg.dataLen)
      [] OTHER -> <<>>

LEMMA ComposedData ==
    ASSUME NEW msg, IsDataMsg(msg)
    PROVE  /\ Compose(msg) = DataMsg(TypeOf(msg), msg.port, Payload(msg))
           /\ TypeOf(msg) \in 0 .. 15
           /\ Payload(msg) \in Seq(0 .. Radix - 1) /\ Len(Payload(msg)) + 2 < Power[4]
           /\ msg.op \in {"rconnect", "pconnect"} => DataLen(Payload(msg)) = msg.dataLen
<1>1. /\ msg.op \in Operations /\ msg.port \in 0 .. Power[2] - 1
      /\ msg.data \in Seq(0 .. Radix - 1) /\ Len(msg.data) + 2 < Power[4]
      /\ msg.dataLen \in 0 .. Power[4] - 1
  BY DEF IsDataMsg
<1>2. /\ Compose(msg) = Operation(msg.op, msg.port, msg.data, msg.dataLen)
  BY <1>1 DEF Compose, Operations
<1>3. CASE msg.op \in {"write", "invoke", "return"}
  <2>1. Payload(msg) = msg.data /\ TypeOf(msg) = 2 /\ APX_MSG.write = 2
    BY <1>3 DEF Payload, TypeOf, APX_MSG
  <2>2. msg.op \notin {"rconnect", "pconnect"}
    BY <1>3
  <2>3. Compose(msg) = DataMsg(2, msg.port, msg.data)
    BY <1>2, <1>3, <2>1 DEF Operation
  <2> QED BY <1>1, <2>1, <2>2, <2>3
<1>4. CASE msg.op \in {"rconnect", "pconnect"}
  <2> DEFINE v == msg.dataLen
             k == IF v < Radix THEN 1 ELSE IF v < Power[2] THEN 2 ELSE 4
             data == ConnectData(v)
  <2>1. Payload(msg) = data /\ TypeOf(msg) = APX_MSG[msg.op] /\ TypeOf(msg) \in 0 .. 15
    BY <1>4 DEF Payload, TypeOf, APX_MSG
  <2>2. Compose(msg) = DataMsg(TypeOf(msg), msg.port, data)
    BY <1>2, <1>4, <2>1 DEF Operation
  <2>3. k \in 0 .. 4 /\ v \in 0 .. Power[k] - 1 /\ k \in {1, 2, 4}
    <3>1. Power[1] = Radix /\ Power[2] \in Nat /\ Radix \in Nat /\ Power[4] \in Nat
      BY Powers
    <3>2. CASE v < Radix
      BY <1>1, <3>1, <3>2
    <3>3. CASE ~ (v < Radix) /\ v < Power[2]
      BY <1>1, <3>1, <3>3
    <3>4. CASE ~ (v < Radix) /\ ~ (v < Power[2])
      BY <1>1, <3>1, <3>4
    <3> QED BY <3>2, <3>3, <3>4
  <2>4. data = BigEndian(v, k)
    BY DEF ConnectData
  <2> HIDE DEF k, data, v
  <2>5. data \in Seq(0 .. Radix - 1) /\ Len(data) = k /\ FromBigEndian(data) = v
    BY <2>3, <2>4, BigEndianRead
  <2>6. DataLen(data) = v
    BY <2>3, <2>5 DEF DataLen
  <2>7. Len(data) + 2 < Power[4]
    <3>1. Radix * Radix * Radix * Radix >= 625
      <4>1. Radix \in Nat /\ Radix >= 5
        BY Powers
      <4>2. \A a \in Nat : a * Radix >= a * 5 /\ a * Radix \in Nat
        BY <4>1
      <4>3. Radix * Radix >= 25 /\ Radix * Radix \in Nat
        BY <4>1, <4>2
      <4> DEFINE r2 == Radix * Radix
      <4>4. r2 * Radix >= 125 /\ r2 * Radix \in Nat
        <5> HIDE DEF r2
        <5>1. r2 >= 25 /\ r2 \in Nat
          BY <4>3 DEF r2
        <5>2. r2 * Radix >= r2 * 5 /\ r2 * Radix \in Nat
          BY <4>2, <5>1
        <5> QED BY <5>1, <5>2
      <4> DEFINE r3 == r2 * Radix
      <4>5. r3 * Radix >= 625
        <5> HIDE DEF r3
        <5>1. r3 >= 125 /\ r3 \in Nat
          BY <4>4 DEF r3
        <5>2. r3 * Radix >= r3 * 5 /\ r3 * Radix \in Nat
          BY <4>2, <5>1
        <5> QED BY <5>1, <5>2
      <4> QED BY <4>5
    <3> QED BY <2>3, <2>5, <3>1, Powers
  <2> QED BY <2>1, <2>2, <2>5, <2>6, <2>7 DEF v
<1>5. CASE msg.op \notin {"write", "invoke", "return", "rconnect", "pconnect"}
  <2>1. Payload(msg) = <<>> /\ TypeOf(msg) = APX_MSG[msg.op] /\ TypeOf(msg) \in 0 .. 15
    <3>1. msg.op \in {"read", "rdisconnect", "pdisconnect", "rerror", "perror"}
      BY <1>1, <1>5 DEF Operations
    <3>2. Payload(msg) = <<>> /\ TypeOf(msg) = APX_MSG[msg.op]
      BY <1>5 DEF Payload, TypeOf
    <3>3. APX_MSG[msg.op] \in 0 .. 15
      BY <3>1 DEF APX_MSG
    <3> QED BY <3>2, <3>3
  <2>2. Compose(msg) = DataMsg(TypeOf(msg), msg.port, <<>>)
    BY <1>2, <1>5, <2>1 DEF Operation
  <2>3. <<>> \in Seq(0 .. Radix - 1) /\ Len(<<>>) + 2 < Power[4]
    <3>1. Len(<<>>) = 0 /\ Len(msg.data) \in Nat
      BY <1>1, LenProperties
    <3>2. Power[4] \in Nat
      BY Powers
    <3> QED BY <1>1, <3>1, <3>2
  <2> QED BY <1>5, <2>1, <2>2, <2>3
<1> QED BY <1>3, <1>4, <1>5

\* The cells of a data message of this type, for this port, with these data.
IsMessage(m, type, port, data, k) ==
    LET n == 2 + Len(data)
        t == LengthType(n)
    IN  /\ m \in Seq(0 .. 255) /\ Len(m) = 1 + k + n
        /\ m[1] \in 128 .. 255 /\ (m[1] \div 16) % 8 = t /\ m[1] % 16 = type
        /\ t \in 2 .. 7 /\ k = LengthBytes(t) /\ k \in 0 .. 4
        /\ t \in {5, 6, 7} => FromBigEndian(SubSeq(m, 2, 1 + k)) = n
        /\ t \notin {5, 6, 7} => k = 0 /\ t = n
        /\ SubSeq(m, 2 + k, Len(m)) \in Seq(0 .. 255)
        /\ Len(SubSeq(m, 2 + k, Len(m))) = n
        /\ SubSeq(SubSeq(m, 2 + k, Len(m)), 1, 2) = BigEndian(port, 2)
        /\ SubSeq(SubSeq(m, 2 + k, Len(m)), 3, n) = data

LEMMA DataMsgIs ==
    ASSUME NEW type \in 0 .. 15, NEW port \in 0 .. Power[2] - 1, NEW data \in Seq(0 .. Radix - 1),
           Len(data) + 2 < Power[4]
    PROVE  IsMessage(DataMsg(type, port, data), type, port, data,
                     LengthBytes(LengthType(2 + Len(data))))
<1> DEFINE n == 2 + Len(data)
           t == LengthType(n)
           k == LengthBytes(t)
           B == 0 .. 255
           h == 128 + 16 * t + type
           len == BigEndian(n, k)
           p == BigEndian(port, 2)
           front == <<h>> \o len \o p
           m == front \o data
<1>1. /\ Radix \in 5 .. 256 /\ Power[1] = Radix /\ Power[2] \in Nat /\ Power[4] \in Nat
  <2>1. Power[1] = Radix /\ Power[2] \in Nat \ {0} /\ Power[4] \in Nat \ {0} /\ Radix \in 5 .. 256
    BY Powers
  <2> QED BY <2>1
<1>2. Len(data) \in Nat
  BY LenProperties
<1>3. /\ t \in 2 .. 7 /\ k \in 0 .. 4
      /\ t \in {5, 6, 7} => n \in 0 .. Power[k] - 1
      /\ t \notin {5, 6, 7} => k = 0 /\ t = n
  <2>1. /\ n < 5 => t = n
        /\ ~ (n < 5) /\ n < Radix => t = 5
        /\ ~ (n < 5) /\ ~ (n < Radix) /\ n < Power[2] => t = 6
        /\ ~ (n < 5) /\ ~ (n < Radix) /\ ~ (n < Power[2]) => t = 7
    BY DEF LengthType, APX_LEN_BYTE, APX_LEN_SHORT, APX_LEN_LONG
  <2>2. t = 5 => k = 1
    BY DEF LengthBytes, APX_LEN_BYTE, APX_LEN_SHORT, APX_LEN_LONG
  <2>3. t = 6 => k = 2
    BY DEF LengthBytes, APX_LEN_BYTE, APX_LEN_SHORT, APX_LEN_LONG
  <2>4. t = 7 => k = 4
    BY DEF LengthBytes, APX_LEN_BYTE, APX_LEN_SHORT, APX_LEN_LONG
  <2>5. t \notin {5, 6, 7} => k = 0
    BY DEF LengthBytes, APX_LEN_BYTE, APX_LEN_SHORT, APX_LEN_LONG
  <2> HIDE DEF t, k
  <2>6. n \in Nat /\ n >= 2 /\ n < Power[4]
    BY <1>1, <1>2
  <2> HIDE DEF n
  <2>7. CASE n < 5
    BY <2>1, <2>5, <2>6, <2>7
  <2>8. CASE ~ (n < 5) /\ n < Radix
    BY <1>1, <2>1, <2>2, <2>6, <2>8
  <2>9. CASE ~ (n < 5) /\ ~ (n < Radix) /\ n < Power[2]
    BY <1>1, <2>1, <2>3, <2>6, <2>9
  <2>10. CASE ~ (n < 5) /\ ~ (n < Radix) /\ ~ (n < Power[2])
    BY <1>1, <2>1, <2>4, <2>6, <2>10
  <2> QED BY <2>7, <2>8, <2>9, <2>10
<1>4. h \in 128 .. 255 /\ h \in B /\ (h \div 16) % 8 = t /\ h % 16 = type
  <2> HIDE DEF t
  <2>1. t \in {2, 3, 4, 5, 6, 7}
    BY <1>3
  <2> QED BY <2>1
<1> DEFINE D == 0 .. Radix - 1
<1>5. D \subseteq B
  BY <1>1
<1>6. /\ len \in Seq(D) /\ Len(len) = k
      /\ t \in {5, 6, 7} => FromBigEndian(len) = n
  <2>1. CASE t \in {5, 6, 7}
    <3> HIDE DEF n, t, k
    <3> QED BY <1>3, <2>1, BigEndianRead
  <2>2. CASE t \notin {5, 6, 7}
    <3>1. k = 0
      BY <1>3, <2>2
    <3>2. len = <<>>
      <4>1. len = BigEndian(n, 0)
        BY <3>1
      <4>2. 1 .. 0 = {}
        OBVIOUS
      <4> HIDE DEF n
      <4> QED BY <4>1, <4>2 DEF BigEndian
    <3> HIDE DEF len, k, t
    <3> QED BY <2>2, <3>1, <3>2
  <2> QED BY <2>1, <2>2
<1>7. p \in Seq(D) /\ Len(p) = 2
  <2>1. 2 \in 0 .. 4
    OBVIOUS
  <2> QED BY <2>1, BigEndianRead
<1>8. /\ len \in Seq(B) /\ p \in Seq(B) /\ data \in Seq(B)
      /\ <<h>> \in Seq(B) /\ Len(<<h>>) = 1 /\ <<h>>[1] = h
  <2>1. data \in Seq(D)
    OBVIOUS
  <2>2. /\ <<h>> \in Seq(B) /\ Len(<<h>>) = 1 /\ <<h>>[1] = h
    <3> HIDE DEF h
    <3> QED BY <1>4
  <2> HIDE DEF h, B, D, len, p
  <2> QED BY <1>5, <1>6, <1>7, <2>1, <2>2, SeqMonotonic
<1>9. m = DataMsg(type, port, data)
  BY DEF DataMsg
<1>10. /\ m \in Seq(B) /\ Len(m) = 1 + k + 2 + Len(data) /\ m[1] = h
       /\ SubSeq(m, 2, 1 + k) = len
       /\ SubSeq(m, 2 + k, Len(m)) = p \o data
       /\ p \o data \in Seq(B) /\ Len(p \o data) = 2 + Len(data)
       /\ SubSeq(p \o data, 1, 2) = p /\ SubSeq(p \o data, 3, 2 + Len(data)) = data
  <2>1. m = FourOf(h, len, p, data)
    BY DEF FourOf
  <2>2. k \in Nat
    <3> HIDE DEF k
    <3> QED BY <1>3
  <2> HIDE DEF h, B, len, p, k, m
  <2>3. h \in B /\ len \in Seq(B) /\ p \in Seq(B) /\ data \in Seq(B)
    BY <1>4, <1>8
  <2> DEFINE q == p \o data
  <2> HIDE DEF q
  <2>4. /\ m \in Seq(B) /\ Len(m) = 1 + (Len(len) + (Len(p) + Len(data))) /\ m[1] = h
        /\ SubSeq(m, 1 + 1, 1 + Len(len)) = len
        /\ SubSeq(m, (1 + Len(len)) + 1, (1 + Len(len)) + (Len(p) + Len(data))) = q
        /\ q \in Seq(B) /\ Len(q) = Len(p) + Len(data)
        /\ SubSeq(q, 0 + 1, 0 + Len(p)) = p
        /\ SubSeq(q, Len(p) + 1, Len(p) + Len(data)) = data
    <3>1. FourParted(B, h, len, p, data)
      BY <2>3, FourParts
    <3> QED BY <2>1, <3>1 DEF FourParted, q
  <2>5. Len(len) = k /\ Len(p) = 2
    BY <1>6, <1>7
  <2>6. /\ 1 + 1 = 2 /\ 0 + 1 = 1 /\ 0 + 2 = 2 /\ 2 + 1 = 3
        /\ (1 + k) + 1 = 2 + k
        /\ 1 + (k + (2 + Len(data))) = 1 + k + 2 + Len(data)
        /\ (1 + k) + (2 + Len(data)) = 1 + k + 2 + Len(data)
    BY <1>2, <2>2
  <2>7. SubSeq(m, 2 + k, Len(m)) = q /\ Len(m) = 1 + k + 2 + Len(data)
    BY <2>4, <2>5, <2>6
  <2> QED BY <2>4, <2>5, <2>6, <2>7 DEF q
<1>11. Len(m) = 1 + k + n
  <2>1. k \in Nat
    <3> HIDE DEF k
    <3> QED BY <1>3
  <2> HIDE DEF k, m
  <2> QED BY <1>2, <1>10, <2>1
<1> HIDE DEF m, h, len, p
<1>12. /\ m[1] \in 128 .. 255 /\ (m[1] \div 16) % 8 = t /\ m[1] % 16 = type
       /\ m \in Seq(0 .. 255)
  <2> HIDE DEF t, k
  <2> QED BY <1>4, <1>10
<1>13. t \in {5, 6, 7} => FromBigEndian(SubSeq(m, 2, 1 + k)) = n
  <2> HIDE DEF t, n, k
  <2> QED BY <1>6, <1>10
<1>14. BigEndian(port, 2) = p
  BY DEF p
<1>15. /\ SubSeq(m, 2 + k, Len(m)) \in Seq(0 .. 255) /\ Len(SubSeq(m, 2 + k, Len(m))) = n
       /\ SubSeq(SubSeq(m, 2 + k, Len(m)), 1, 2) = BigEndian(port, 2)
       /\ SubSeq(SubSeq(m, 2 + k, Len(m)), 3, n) = data
  <2> DEFINE rest == p \o data
  <2>1. /\ SubSeq(m, 2 + k, Len(m)) = rest /\ rest \in Seq(B) /\ Len(rest) = n
        /\ SubSeq(rest, 1, 2) = p /\ SubSeq(rest, 3, n) = data
    BY <1>10
  <2> HIDE DEF rest, n, k
  <2> QED BY <1>14, <2>1
<1>16. IsMessage(m, type, port, data, k)
  <2>1. t = LengthType(2 + Len(data)) /\ n = 2 + Len(data) /\ k = LengthBytes(t)
    OBVIOUS
  <2> HIDE DEF k, t, n
  <2> QED BY <1>3, <1>11, <1>12, <1>13, <1>15, <2>1, ZenonT(30) DEF IsMessage
<1> HIDE DEF m
<1> QED BY <1>9, <1>16 DEF k, t, n

\* The event a data message means.
MeantBy(msg) == Meaning(msg)[1]

LEMMA OneMeaning ==
    ASSUME NEW msg, IsDataMsg(msg)
    PROVE  Meaning(msg) = <<MeantBy(msg)>> /\ MeantBy(msg).port = msg.port
<1>1. msg.op \in Operations
  BY DEF IsDataMsg
<1> USE DEF Meaning, MeantBy
<1>2. CASE msg.op \in {"write", "invoke", "return"}
  BY <1>2 DEF DataEvent
<1>3. CASE msg.op \in {"rconnect", "pconnect"}
  BY <1>3 DEF LenEvent
<1>4. CASE msg.op \in {"read", "rdisconnect", "pdisconnect", "rerror", "perror"}
  BY <1>4 DEF PortEvent
<1> QED BY <1>1, <1>2, <1>3, <1>4 DEF Operations

\* What is handed out for a message that is there is what it means.
LEMMA EmittedIs ==
    ASSUME NEW msg, IsDataMsg(msg), MsgType = TypeOf(msg), PortId = msg.port,
           MsgData = Payload(msg), EmitMessage
    PROVE  events' = Append(events, MeantBy(msg))
<1>1. msg.op \in Operations
  BY DEF IsDataMsg
<1>2. msg.op \in {"rconnect", "pconnect"} => DataLen(MsgData) = msg.dataLen
  BY ComposedData
<1> USE DEF EmitMessage, Emit, TypeOf, APX_MSG, Meaning, MeantBy
<1>3. CASE msg.op \in {"write", "invoke", "return"}
  <2>1. MsgType = 2 /\ MsgData = msg.data
    BY <1>3 DEF Payload
  <2>2. events' = Append(events, DataEvent("dataWrite", PortId, MsgData))
    BY <2>1
  <2>3. MeantBy(msg) = DataEvent("dataWrite", msg.port, msg.data)
    BY <1>3
  <2> QED BY <2>1, <2>2, <2>3
<1>4. CASE msg.op = "rconnect"
  <2>1. MsgType = 5
    BY <1>4
  <2>2. events' = Append(events, LenEvent("requirePortConnect", PortId, DataLen(MsgData)))
    BY <2>1
  <2>3. MeantBy(msg) = LenEvent("requirePortConnect", msg.port, msg.dataLen)
    BY <1>4
  <2> QED BY <1>2, <1>4, <2>2, <2>3
<1>5. CASE msg.op = "pconnect"
  <2>1. MsgType = 7
    BY <1>5
  <2>2. events' = Append(events, LenEvent("providePortConnect", PortId, DataLen(MsgData)))
    BY <2>1
  <2>3. MeantBy(msg) = LenEvent("providePortConnect", msg.port, msg.dataLen)
    BY <1>5
  <2> QED BY <1>2, <1>5, <2>2, <2>3
<1>6. CASE msg.op = "read"
  BY <1>6
<1>7. CASE msg.op = "rdisconnect"
  BY <1>7
<1>8. CASE msg.op = "pdisconnect"
  BY <1>8
<1>9. CASE msg.op = "rerror"
  BY <1>9
<1>10. CASE msg.op = "perror"
  BY <1>10
<1> QED BY <1>1, <1>3, <1>4, <1>5, <1>6, <1>7, <1>8, <1>9, <1>10 DEF Operations

Byte == 0 .. 255

\* A composed message that arrives is taken for what it is, once it is complete.
LEMMA MessageFound ==
    ASSUME NEW msg, IsDataMsg(msg), bytes \in Seq(Byte), pos \in Nat, pos < Len(bytes),
           Begins(bytes, pos, Compose(msg))
    PROVE  /\ Compose(msg) \in Seq(Byte) /\ Len(Compose(msg)) >= 3
           /\ bytes[pos+1] >= 128
           /\ Complete <=> pos + Len(Compose(msg)) <= Len(bytes)
           /\ Complete => /\ pos + HeaderLen + MsgLen = pos + Len(Compose(msg))
                          /\ EmitMessage => events' = Append(events, MeantBy(msg))
<1> DEFINE m == Compose(msg)
           data == Payload(msg)
           n == 2 + Len(data)
           t == LengthType(n)
           k == LengthBytes(t)
           type == TypeOf(msg)
           port == msg.port
           body == SubSeq(m, 2 + k, Len(m))
<1>1. m = DataMsg(type, port, data) /\ type \in 0 .. 15
      /\ data \in Seq(0 .. Radix - 1) /\ Len(data) + 2 < Power[4]
  BY ComposedData
<1>2. port \in 0 .. Power[2] - 1
  BY DEF IsDataMsg
<1>3. IsMessage(m, type, port, data, k)
  <2> HIDE DEF m, data, type, port
  <2> QED BY <1>1, <1>2, DataMsgIs
<1>4. FromBigEndian(BigEndian(port, 2)) = port
  <2> HIDE DEF port
  <2>1. 2 \in 0 .. 4
    OBVIOUS
  <2> QED BY <1>2, <2>1, BigEndianRead
<1> HIDE DEF data, type, port, m
<1>5. n \in Nat /\ n >= 2 /\ n = 2 + Len(data)
  <2>1. Len(data) \in Nat
    BY <1>1, LenProperties
  <2> QED BY <2>1
<1>6. /\ m \in Seq(Byte) /\ Len(m) = 1 + k + n
      /\ m[1] \in 128 .. 255 /\ (m[1] \div 16) % 8 = t /\ m[1] % 16 = type
      /\ t \in 2 .. 7 /\ k = LengthBytes(t) /\ k \in 0 .. 4
      /\ t \in {5, 6, 7} => FromBigEndian(SubSeq(m, 2, 1 + k)) = n
      /\ t \notin {5, 6, 7} => k = 0 /\ t = n
      /\ body \in Seq(Byte) /\ Len(body) = n
      /\ SubSeq(body, 1, 2) = BigEndian(port, 2)
      /\ SubSeq(body, 3, n) = data
  BY <1>3 DEF IsMessage, Byte
<1> HIDE DEF n, t, k, body
<1>l. /\ k \in Nat /\ n \in Nat /\ n >= 2 /\ Len(m) = 1 + k + n /\ Len(m) \in Nat /\ Len(m) >= 3
      /\ Len(bytes) \in Nat /\ pos \in Nat /\ pos < Len(bytes)
  <2>1. k \in Nat
    <3>1. k \in 0 .. 4
      BY <1>6
    <3> QED BY <3>1
  <2>2. Len(m) = 1 + k + n
    BY <1>6
  <2>3. Len(bytes) \in Nat
    BY LenProperties
  <2> QED BY <1>5, <2>1, <2>2, <2>3
<1>b. Begins(bytes, pos, m) /\ bytes \in Seq(Byte) /\ m \in Seq(Byte)
  BY <1>6 DEF m
<1>i. /\ m[1] \in 128 .. 255 /\ (m[1] \div 16) % 8 = t /\ m[1] % 16 = type
      /\ t \in 2 .. 7 /\ k = LengthBytes(t)
  BY <1>6
<1>t. /\ t \in {5, 6, 7} => FromBigEndian(SubSeq(m, 2, 1 + k)) = n
      /\ t \notin {5, 6, 7} => k = 0 /\ t = n
  BY <1>6
<1>y. /\ Len(body) = n /\ SubSeq(body, 1, 2) = BigEndian(port, 2) /\ SubSeq(body, 3, n) = data
  BY <1>6
<1>p. ASSUME NEW i \in Nat, NEW j \in Nat, 1 <= i, i <= j + 1, j <= Len(m), pos + j <= Len(bytes)
      PROVE  SubSeq(bytes, pos + i, pos + j) = SubSeq(m, i, j)
  <2> HIDE DEF m
  <2>1. /\ bytes \in Seq(Byte) /\ m \in Seq(Byte) /\ Begins(bytes, pos, m)
    BY <1>b
  <2>2. pos \in Nat
    OBVIOUS
  <2> QED BY <1>p, <2>1, <2>2, CommonPart, SMTT(30)
<1>7. MsgHeader = m[1] /\ bytes[pos+1] = m[1]
  <2>1. 1 \in 1 .. Len(m) /\ pos + 1 <= Len(bytes)
    BY <1>l
  <2> QED BY <1>b, <2>1 DEF Begins, MsgHeader
<1>8. LValType = t /\ MsgType = type /\ HeaderLen = 1 + k
  <2>1. LValType = t /\ MsgType = type
    BY <1>i, <1>7 DEF LValType, MsgType
  <2> QED BY <1>i, <2>1 DEF HeaderLen
<1>9. HasHeader => MsgLen = n
  <2>1. ASSUME HasHeader PROVE MsgLen = n
    <3>1. t # 0 /\ LValType # APX_LEN_INHERIT
      BY <1>i, <1>8 DEF APX_LEN_INHERIT
    <3>2. CASE t \in {5, 6, 7}
      <4>1. SubSeq(bytes, pos + 2, pos + HeaderLen) = SubSeq(m, 2, 1 + k)
        <5>1. /\ 1 + k \in Nat /\ 2 <= (1 + k) + 1 /\ 1 + k <= Len(m)
              /\ pos + (1 + k) <= Len(bytes)
          <6>1. pos + HeaderLen <= Len(bytes)
            BY <2>1 DEF HasHeader
          <6>2. k # 0
            BY <1>i, <3>2 DEF LengthBytes, APX_LEN_BYTE, APX_LEN_SHORT, APX_LEN_LONG
          <6> QED BY <1>l, <1>8, <6>1, <6>2
        <5>2. SubSeq(bytes, pos + 2, pos + (1 + k)) = SubSeq(m, 2, 1 + k)
          <6> DEFINE h == 1 + k
                     two == 2
          <6>1. /\ h \in Nat /\ two \in Nat /\ 1 <= two /\ two <= h + 1 /\ h <= Len(m)
                /\ pos + h <= Len(bytes)
            BY <5>1
          <6> HIDE DEF h, two, m
          <6>2. SubSeq(bytes, pos + two, pos + h) = SubSeq(m, two, h)
            BY <1>p, <6>1
          <6> QED BY <6>2 DEF h, two
        <5> QED BY <1>8, <5>2
      <4>3. MsgLen = FromBigEndian(SubSeq(bytes, pos + 2, pos + HeaderLen))
        BY <1>8, <3>1, <3>2 DEF MsgLen, APX_LEN_BYTE, APX_LEN_SHORT, APX_LEN_LONG
      <4> QED BY <1>t, <3>2, <4>1, <4>3
    <3>3. CASE t \notin {5, 6, 7}
      <4>1. MsgLen = LValType
        BY <1>8, <3>1, <3>3 DEF MsgLen, APX_LEN_BYTE, APX_LEN_SHORT, APX_LEN_LONG
      <4> QED BY <1>t, <1>8, <3>3, <4>1
    <3> QED BY <3>2, <3>3
  <2> QED BY <2>1
<1>10. Complete <=> pos + Len(m) <= Len(bytes)
  <2>1. HasHeader <=> pos + (1 + k) <= Len(bytes)
    BY <1>8 DEF HasHeader
  <2>3. CASE HasHeader
    <3>1. Complete <=> pos + (1 + k) + n <= Len(bytes)
      BY <1>l, <1>8, <1>9, <2>3 DEF Complete
    <3> QED BY <1>l, <3>1
  <2>4. CASE ~ HasHeader
    <3>1. ~ Complete
      BY <2>4 DEF Complete
    <3> QED BY <1>l, <2>1, <2>4, <3>1
  <2> QED BY <2>3, <2>4
<1>11. ASSUME Complete
       PROVE  /\ pos + HeaderLen + MsgLen = pos + Len(m)
              /\ EmitMessage => events' = Append(events, MeantBy(msg))
  <2>1. HeaderLen = 1 + k /\ MsgLen = n
    BY <1>8, <1>9, <1>11 DEF Complete
  <2>2. pos + HeaderLen + MsgLen = pos + Len(m)
    BY <1>l, <2>1
  <2>3. MsgBody = body
    <3>1. /\ 2 + k \in Nat /\ 1 <= 2 + k /\ 2 + k <= Len(m) + 1 /\ Len(m) \in Nat
          /\ pos + Len(m) <= Len(bytes) /\ pos + HeaderLen + 1 = pos + (2 + k)
      BY <1>l, <1>10, <1>11, <2>1
    <3>2. SubSeq(bytes, pos + (2 + k), pos + Len(m)) = SubSeq(m, 2 + k, Len(m))
      <4> DEFINE h == 2 + k
                 l == Len(m)
      <4>1. h \in Nat /\ l \in Nat /\ 1 <= h /\ h <= l + 1 /\ l <= Len(m) /\ pos + l <= Len(bytes)
        BY <3>1
      <4> HIDE DEF h, l, m
      <4>2. SubSeq(bytes, pos + h, pos + l) = SubSeq(m, h, l)
        BY <1>p, <4>1
      <4> QED BY <4>2 DEF h, l
    <3> QED BY <2>2, <3>1, <3>2 DEF MsgBody, body
  <2>4. PortId = port
    BY <1>4, <1>l, <1>y, <2>1, <2>3 DEF PortId
  <2>5. MsgData = data
    <3>1. MsgData = SubSeq(body, 2 + 1, Len(body))
      BY <1>l, <2>1, <2>3 DEF MsgData, Drop
    <3> QED BY <1>y, <3>1
  <2>6. EmitMessage => events' = Append(events, MeantBy(msg))
    BY <1>8, <2>4, <2>5, EmittedIs DEF type, port, data
  <2> QED BY <2>2, <2>6
<1>12. Len(m) >= 3 /\ bytes[pos+1] >= 128
  <2>1. m[1] \in 128 .. 255
    BY <1>i
  <2>2. bytes[pos+1] = m[1]
    BY <1>7
  <2>3. bytes[pos+1] >= 128
    <3> DEFINE x == bytes[pos+1]
    <3>1. x \in 128 .. 255
      BY <2>1, <2>2, Zenon
    <3> HIDE DEF x
    <3>2. x >= 128
      BY <3>1
    <3> QED BY <3>2 DEF x
  <2>4. Len(m) >= 3
    BY <1>l
  <2> QED BY <2>3, <2>4
<1> QED BY <1>b, <1>10, <1>11, <1>12 DEF m

-----------------------------------------------------------------------------
(* The messages composed together. *)

LEMMA DataCells ==
    ASSUME NEW msg, IsDataMsg(msg)
    PROVE  Compose(msg) \in Seq(Byte) /\ Len(Compose(msg)) >= 3
<1> DEFINE m == Compose(msg)
           data == Payload(msg)
           n == 2 + Len(data)
           t == LengthType(n)
           k == LengthBytes(t)
           type == TypeOf(msg)
           port == msg.port
<1>1. m = DataMsg(type, port, data) /\ type \in 0 .. 15
      /\ data \in Seq(0 .. Radix - 1) /\ Len(data) + 2 < Power[4]
  BY ComposedData
<1>2. port \in 0 .. Power[2] - 1
  BY DEF IsDataMsg
<1>3. IsMessage(m, type, port, data, k)
  <2> HIDE DEF m, data, type, port
  <2> QED BY <1>1, <1>2, DataMsgIs
<1>4. Len(data) \in Nat
  <2> HIDE DEF data
  <2> QED BY <1>1, LenProperties
<1> HIDE DEF m, data, t, k, type, port
<1>5. m \in Seq(Byte) /\ Len(m) = 1 + k + n /\ k \in 0 .. 4
  BY <1>3 DEF IsMessage, Byte
<1> QED BY <1>4, <1>5 DEF m

\* What each message is composed to, and where what the first n are composed to ends.
Parts(msgs) == [n \in DOMAIN msgs |-> Compose(msgs[n])]
End(msgs, n) == PartEnd(Parts(msgs), n)

IsList(msgs) == msgs \in Seq({msgs[i] : i \in DOMAIN msgs})

LEMMA ListIs ==
    ASSUME NEW msgs, IsList(msgs)
    PROVE  Len(msgs) \in Nat /\ DOMAIN msgs = 1 .. Len(msgs)
BY LenProperties DEF IsList

LEMMA ComposedTogether ==
    ASSUME NEW msgs, IsList(msgs), \A n \in DOMAIN msgs : Compose(msgs[n]) \in Seq(Byte)
    PROVE  /\ ComposeAll(msgs) \in Seq(Byte)
           /\ End(msgs, 0) = 0 /\ End(msgs, Len(msgs)) = Len(ComposeAll(msgs))
           /\ \A n \in 0 .. Len(msgs) :
                End(msgs, n) \in Nat /\ End(msgs, n) = Len(ComposeAll(SubSeq(msgs, 1, n)))
           /\ \A n \in 1 .. Len(msgs) :
                /\ End(msgs, n) = End(msgs, n - 1) + Len(Compose(msgs[n]))
                /\ StandsAt(ComposeAll(msgs), End(msgs, n - 1), Compose(msgs[n]))
           /\ \A n \in 0 .. Len(msgs) : \A m \in n .. Len(msgs) : End(msgs, n) <= End(msgs, m)
<1> DEFINE parts == Parts(msgs)
           L == Len(msgs)
<1>1. L \in Nat /\ DOMAIN msgs = 1 .. L
  BY ListIs
<1>2. /\ parts \in Seq(Seq(Byte)) /\ Len(parts) = L
      /\ \A n \in 1 .. L : parts[n] = Compose(msgs[n])
  <2> HIDE DEF L
  <2>1. parts \in [1 .. L -> Seq(Byte)]
    BY <1>1 DEF Parts
  <2>2. \A n \in 1 .. L : parts[n] = Compose(msgs[n])
    BY <1>1 DEF Parts
  <2> HIDE DEF parts
  <2> QED BY <1>1, <2>1, <2>2, OfLength
<1>3. FlattenSeq(parts) = ComposeAll(msgs)
  BY DEF ComposeAll, Parts
<1>4. ASSUME NEW n \in 0 .. L PROVE ComposeAll(SubSeq(msgs, 1, n)) = FirstJoined(parts, n)
  <2> DEFINE some == SubSeq(msgs, 0 + 1, n)
             a == Parts(some)
             b == SubSeq(parts, 0 + 1, n)
  <2>0. n \in Nat /\ n <= L /\ 0 <= n /\ n - 0 = n /\ 0 \in Nat
    BY <1>1
  <2>1. Len(some) = n /\ \A i \in 1 .. n : some[i] = msgs[i]
    <3> DEFINE S == {msgs[i] : i \in DOMAIN msgs}
    <3>1. msgs \in Seq(S)
      BY DEF IsList
    <3> HIDE DEF S
    <3>2. Len(some) = n - 0 /\ \A i \in 1 .. n - 0 : some[i] = msgs[0+i]
      BY <2>0, <3>1, PartIs
    <3> QED BY <2>0, <3>2
  <2>2. Len(b) = n /\ (\A i \in 1 .. n : b[i] = parts[i]) /\ b \in Seq(Seq(Byte))
    <3> DEFINE S == Seq(Byte)
    <3>1. parts \in Seq(S)
      BY <1>2
    <3> HIDE DEF S, parts
    <3>2. b \in Seq(S) /\ Len(b) = n - 0 /\ \A i \in 1 .. n - 0 : b[i] = parts[0+i]
      BY <1>2, <2>0, <3>1, PartIs
    <3> QED BY <2>0, <3>2 DEF S
  <2>3. DOMAIN some = 1 .. n
    <3> DEFINE S == {msgs[i] : i \in DOMAIN msgs}
    <3>1. msgs \in Seq(S)
      BY DEF IsList
    <3> HIDE DEF S
    <3>2. some \in Seq(S)
      BY <2>0, <3>1, PartIs
    <3> HIDE DEF some
    <3> QED BY <2>1, <3>2, LenProperties
  <2>4. a = [i \in 1 .. n |-> Compose(some[i])]
    BY <2>3 DEF Parts
  <2>5. b = [i \in 1 .. n |-> b[i]]
    <3> HIDE DEF b
    <3> QED BY <2>2, LenProperties
  <2> HIDE DEF some, b
  <2>6. \A i \in 1 .. n : Compose(some[i]) = b[i]
    <3> HIDE DEF parts
    <3> QED BY <1>1, <1>2, <2>0, <2>1, <2>2, SMTT(30)
  <2>7. a = b
    <3> HIDE DEF a
    <3> QED BY <2>4, <2>5, <2>6, Zenon
  <2>8. ComposeAll(some) = FlattenSeq(b)
    BY <2>7 DEF ComposeAll, Parts
  <2> QED BY <2>8 DEF some, b, FirstJoined
<1> HIDE DEF parts
<1>5. ComposeAll(msgs) \in Seq(Byte)
  <2>1. FirstJoined(parts, Len(parts)) \in Seq(Byte) /\ FirstJoined(parts, Len(parts)) = FlattenSeq(parts)
    <3>1. Len(parts) \in 0 .. Len(parts)
      BY <1>1, <1>2
    <3> QED BY <1>2, <3>1, JoinedIs
  <2> QED BY <1>3, <2>1
<1>6. \A n \in 0 .. L : End(msgs, n) = Len(FirstJoined(parts, n))
  BY DEF End, PartEnd, parts
<1>7. \A n \in 0 .. L : End(msgs, n) = PartEnd(parts, n)
  BY DEF End, parts
<1>8. /\ PartEnd(parts, 0) = 0 /\ PartEnd(parts, L) = Len(ComposeAll(msgs))
      /\ \A n \in 0 .. L : PartEnd(parts, n) \in Nat
      /\ \A n \in 1 .. L : PartEnd(parts, n) = PartEnd(parts, n - 1) + Len(parts[n])
      /\ \A n \in 0 .. L : \A m \in n .. L : PartEnd(parts, n) <= PartEnd(parts, m)
      /\ \A n \in 1 .. L : StandsAt(ComposeAll(msgs), PartEnd(parts, n - 1), parts[n])
  BY <1>2, <1>3, PartsIs
<1> HIDE DEF L
<1>9. \A n \in 1 .. L : /\ End(msgs, n) = End(msgs, n - 1) + Len(Compose(msgs[n]))
                        /\ StandsAt(ComposeAll(msgs), End(msgs, n - 1), Compose(msgs[n]))
  <2> TAKE n \in 1 .. L
  <2>1. n \in 0 .. L /\ n - 1 \in 0 .. L
    BY <1>1
  <2> QED BY <1>2, <1>7, <1>8, <2>1
<1>10. \A n \in 0 .. L : End(msgs, n) \in Nat /\ End(msgs, n) = Len(ComposeAll(SubSeq(msgs, 1, n)))
  BY <1>4, <1>6, <1>7, <1>8
<1>11. End(msgs, 0) = 0 /\ End(msgs, L) = Len(ComposeAll(msgs))
  <2>1. 0 \in 0 .. L /\ L \in 0 .. L
    BY <1>1
  <2> QED BY <1>7, <1>8, <2>1
<1>12. \A n \in 0 .. L : \A m \in n .. L : End(msgs, n) <= End(msgs, m)
  <2> TAKE n \in 0 .. L
  <2> TAKE m \in n .. L
  <2>1. m \in 0 .. L
    BY <1>1
  <2> QED BY <1>7, <1>8, <2>1
<1> QED BY <1>5, <1>9, <1>10, <1>11, <1>12 DEF L

LEMMA PlanCells ==
    ASSUME NEW msgs, IsList(msgs), IsDataMessages(msgs)
    PROVE  /\ \A n \in DOMAIN msgs : Compose(msgs[n]) \in Seq(Byte)
           /\ \A n \in 0 .. Len(msgs) : \A m \in 0 .. Len(msgs) : n < m => End(msgs, n) < End(msgs, m)
<1>1. \A n \in DOMAIN msgs : Compose(msgs[n]) \in Seq(Byte) /\ Len(Compose(msgs[n])) >= 3
  BY DataCells DEF IsDataMessages
<1>2. ASSUME NEW n \in 0 .. Len(msgs), NEW m \in 0 .. Len(msgs), n < m
      PROVE  End(msgs, n) < End(msgs, m)
  <2>1. Len(msgs) \in Nat /\ DOMAIN msgs = 1 .. Len(msgs)
    BY ListIs
  <2> DEFINE o == n + 1
  <2>2. o \in 1 .. Len(msgs) /\ m \in o .. Len(msgs) /\ o - 1 = n /\ o \in 0 .. Len(msgs)
    BY <1>2, <2>1
  <2> HIDE DEF o
  <2>3. End(msgs, o) = End(msgs, o - 1) + Len(Compose(msgs[o])) /\ End(msgs, o - 1) \in Nat
    BY <1>1, <2>2, ComposedTogether
  <2>4. End(msgs, o) <= End(msgs, m) /\ End(msgs, m) \in Nat
    BY <1>1, <2>2, ComposedTogether
  <2>5. Len(Compose(msgs[o])) >= 3 /\ Len(Compose(msgs[o])) \in Nat
    BY <1>1, <2>1, <2>2, LenProperties
  <2>6. End(msgs, o - 1) = End(msgs, n)
    BY <2>2
  <2> QED BY <2>3, <2>4, <2>5, <2>6
<1> QED BY <1>1, <1>2

\* Data messages that an application composes together.
IsPlan(msgs) == IsList(msgs) /\ IsDataMessages(msgs)

LEMMA PlanIs ==
    ASSUME NEW plan, IsPlan(plan)
    PROVE  /\ Len(plan) \in Nat /\ DOMAIN plan = 1 .. Len(plan) /\ ComposeAll(plan) \in Seq(Byte)
           /\ Len(ComposeAll(plan)) \in Nat
           /\ End(plan, 0) = 0 /\ End(plan, Len(plan)) = Len(ComposeAll(plan))
           /\ \A n \in 0 .. Len(plan) : End(plan, n) \in Nat
           /\ \A n \in 0 .. Len(plan) : \A m \in 0 .. Len(plan) : n < m => End(plan, n) < End(plan, m)
           /\ \A n \in 1 .. Len(plan) :
                /\ End(plan, n) = End(plan, n - 1) + Len(Compose(plan[n]))
                /\ StandsAt(ComposeAll(plan), End(plan, n - 1), Compose(plan[n]))
                /\ IsDataMsg(plan[n]) /\ Compose(plan[n]) \in Seq(Byte)
<1>1. IsList(plan) /\ IsDataMessages(plan)
  BY DEF IsPlan
<1>2. Len(plan) \in Nat /\ DOMAIN plan = 1 .. Len(plan)
  BY <1>1, ListIs
<1>3. \A n \in DOMAIN plan : Compose(plan[n]) \in Seq(Byte)
  BY <1>1, PlanCells
<1>4. \A n \in DOMAIN plan : IsDataMsg(plan[n])
  BY <1>1 DEF IsDataMessages
<1>5. ComposeAll(plan) \in Seq(Byte)
  BY <1>1, <1>3, ComposedTogether
<1>6. Len(ComposeAll(plan)) \in Nat
  BY <1>5, LenProperties
<1> QED BY <1>1, <1>2, <1>3, <1>4, <1>5, <1>6, PlanCells, ComposedTogether

\* Of the cells up to r, those behind the first k messages start, behind the first j,
\* with the next message.
LEMMA NextMessage ==
    ASSUME NEW plan, IsPlan(plan), NEW k \in 0 .. Len(plan), NEW j \in 0 .. Len(plan), k <= j,
           NEW r \in Nat, End(plan, k) <= r, r <= Len(ComposeAll(plan)),
           NEW b \in {SubSeq(ComposeAll(plan), End(plan, k) + 1, r)},
           NEW p \in {End(plan, j) - End(plan, k)}
    PROVE  /\ b \in Seq(Byte) /\ Len(b) = r - End(plan, k) /\ p \in Nat
           /\ p < Len(b) => j < Len(plan) /\ Begins(b, p, Compose(plan[j+1]))
<1> DEFINE T == ComposeAll(plan)
           K == End(plan, k)
           J == End(plan, j)
           N == Len(plan)
<1>1. N \in Nat /\ K \in Nat /\ J \in Nat /\ K <= J /\ T \in Seq(Byte) /\ Len(T) \in Nat
  <2>1. N \in Nat /\ K \in Nat /\ J \in Nat /\ T \in Seq(Byte) /\ Len(T) \in Nat
    BY PlanIs
  <2>2. CASE k = j
    BY <2>1, <2>2
  <2>3. CASE k < j
    <3>1. K < J
      BY <2>3, PlanIs
    <3> QED BY <2>1, <3>1
  <2> QED BY <2>1, <2>2, <2>3
<1>2. b \in Seq(Byte) /\ Len(b) = r - K /\ \A i \in 1 .. r - K : b[i] = T[K+i]
  <2> HIDE DEF T, K
  <2>1. K \in Nat /\ T \in Seq(Byte) /\ b = SubSeq(T, K + 1, r) /\ K <= r /\ r <= Len(T)
    BY <1>1 DEF T, K
  <2>2. /\ SubSeq(T, K + 1, r) \in Seq(Byte) /\ Len(SubSeq(T, K + 1, r)) = r - K
        /\ \A i \in 1 .. r - K : SubSeq(T, K + 1, r)[i] = T[K+i]
    BY <2>1, PartIs
  <2> QED BY <2>1, <2>2
<1>3. p \in Nat
  BY <1>1
<1>4. ASSUME p < Len(b) PROVE j < N /\ Begins(b, p, Compose(plan[j+1]))
  <2>1. J < Len(T)
    BY <1>1, <1>2, <1>4
  <2>2. j # N
    BY <1>1, <2>1, PlanIs
  <2> DEFINE n == j + 1
             c == Compose(plan[n])
  <2>3. j < N /\ n \in 1 .. N /\ n - 1 = j
    BY <1>1, <2>2
  <2>4. StandsAt(T, J, c) /\ c \in Seq(Byte)
    <3> HIDE DEF n
    <3>1. StandsAt(T, End(plan, n - 1), c) /\ c \in Seq(Byte)
      BY <2>3, PlanIs
    <3> QED BY <2>3, <3>1
  <2>5. K <= r /\ r <= Len(T) /\ b = SubSeq(T, K + 1, r) /\ p = J - K
    OBVIOUS
  <2> HIDE DEF T, K, J, c
  <2>6. Begins(b, p, c)
    <3>1. Begins(SubSeq(T, K + 1, r), J - K, c)
      BY <1>1, <2>4, <2>5, PartBegins
    <3> QED BY <2>5, <3>1, Zenon
  <2> QED BY <2>3, <2>6 DEF c
<1> QED BY <1>2, <1>3, <1>4

-----------------------------------------------------------------------------
(* Data messages in pieces. *)

\* A message of the plan was handed out; event i is one of those that arrived, and the
\* one before it was handed out earlier.
Seen(plan, n) == \E i \in DOMAIN events : events[i] = MeantBy(plan[n])

Follows(plan, i) ==
    \E n \in DOMAIN plan :
      /\ End(plan, n) <= received /\ events[i] = MeantBy(plan[n])
      /\ n = 1 \/ \E j \in 1 .. i - 1 : events[j] = MeantBy(plan[n-1])

\* write() has read the messages behind the first k as far as the first j.
ReadTo(plan, k, j) ==
    /\ k <= j /\ End(plan, j) <= received /\ pos = End(plan, j) - End(plan, k)
    /\ \A n \in 1 .. j : Seen(plan, n)
    /\ pc = "loop" => pos = 0 \/ pos = Len(bytes)

\* The buffer has what arrived behind the first k messages.
Holds(plan, k) ==
    /\ End(plan, k) <= received
    /\ m_buf = SubSeq(ComposeAll(plan), End(plan, k) + 1, received)
    /\ \/ pc = "idle" /\ \A n \in DOMAIN plan : End(plan, n) <= received => Seen(plan, n)
       \/ /\ pc \in {"loop", "data"} /\ bytes = m_buf
          /\ \E j \in 0 .. Len(plan) : ReadTo(plan, k, j)

PieceState(plan) ==
    /\ step \in {"begin", "write"} /\ chunks = <<>> /\ mark = 0
    /\ received \in Nat /\ received <= Len(ComposeAll(plan))
    /\ IsList(events) /\ \A i \in DOMAIN events : Follows(plan, i)
    /\ \E k \in 0 .. Len(plan) : Holds(plan, k)

PiecesInv == user = "pieces" => \E plan \in Plans : sent = plan /\ PieceState(plan)

LEMMA PlansArePlans ==
    ASSUME NEW plan \in Plans
    PROVE  IsPlan(plan) /\ \A i, j \in DOMAIN plan : plan[i].port = plan[j].port => i = j
BY Messages, DistinctPorts DEF IsPlan, IsList

\* One more event at the end.
LEMMA AppendedEvent ==
    ASSUME NEW s, IsList(s), NEW e
    PROVE  /\ IsList(Append(s, e)) /\ Len(Append(s, e)) = Len(s) + 1 /\ Len(s) \in Nat
           /\ DOMAIN s = 1 .. Len(s) /\ DOMAIN Append(s, e) = 1 .. Len(s) + 1
           /\ \A i \in DOMAIN s : Append(s, e)[i] = s[i]
           /\ Append(s, e)[Len(s)+1] = e
<1> DEFINE S == {s[i] : i \in DOMAIN s} \cup {e}
           a == Append(s, e)
<1>1. s \in Seq({s[i] : i \in DOMAIN s})
  BY DEF IsList
<1>2. s \in Seq(S)
  <2> DEFINE R == {s[i] : i \in DOMAIN s}
  <2>1. R \subseteq S /\ s \in Seq(R)
    BY <1>1
  <2> HIDE DEF R, S
  <2> QED BY <2>1, SeqMonotonic
<1>3. e \in S
  OBVIOUS
<1> HIDE DEF S
<1>4. /\ a \in Seq(S) /\ Len(a) = Len(s) + 1 /\ Len(s) \in Nat
      /\ \A i \in 1 .. Len(s) : a[i] = s[i]
      /\ a[Len(s)+1] = e
  BY <1>2, <1>3, AppendProperties, LenProperties
<1>5. DOMAIN s = 1 .. Len(s)
  BY <1>2, LenProperties
<1> HIDE DEF a
<1>6. DOMAIN a = 1 .. Len(s) + 1
  BY <1>4, LenProperties
<1>7. IsList(a)
  <2> DEFINE R == {a[i] : i \in DOMAIN a}
  <2>1. a \in [1 .. Len(s) + 1 -> R] /\ Len(s) + 1 \in Nat
    <3>1. DOMAIN a = 1 .. Len(s) + 1 /\ a = [i \in DOMAIN a |-> a[i]]
      BY <1>4, <1>6, LenProperties
    <3> QED BY <1>4, <3>1
  <2>2. a \in Seq(R)
    <3> HIDE DEF R
    <3> QED BY <2>1, OfLength
  <2> QED BY <2>2 DEF IsList
<1> QED BY <1>4, <1>5, <1>6, <1>7 DEF a

\* What a message means stays the same.
LEMMA SameMeaning ==
    ASSUME NEW msg, asserts' = asserts
    PROVE  MeantBy(msg)' = MeantBy(msg) /\ Meaning(msg)' = Meaning(msg)
<1>1. Meaning(msg)' = Meaning(msg)
  BY DEF Meaning
<1> QED BY <1>1 DEF MeantBy

\* What was handed out stays so.
LEMMA SeenStays ==
    ASSUME NEW plan, IsPlan(plan), IsList(events), \A i \in DOMAIN events : Follows(plan, i),
           NEW m \in DOMAIN plan, End(plan, m) <= received,
           m = 1 \/ Seen(plan, m - 1), events' = Append(events, MeantBy(plan[m])),
           received' = received, asserts' = asserts
    PROVE  /\ IsList(events)' /\ \A i \in DOMAIN events' : Follows(plan, i)'
           /\ \A n : Seen(plan, n) => Seen(plan, n)'
           /\ Seen(plan, m)'
<1> DEFINE e == MeantBy(plan[m])
           L == Len(events)
<1>1. /\ IsList(Append(events, e)) /\ L \in Nat
      /\ DOMAIN events = 1 .. L /\ DOMAIN Append(events, e) = 1 .. L + 1
      /\ \A i \in DOMAIN events : Append(events, e)[i] = events[i]
      /\ Append(events, e)[L+1] = e
  BY AppendedEvent
<1>2. /\ IsList(events') /\ DOMAIN events' = 1 .. L + 1
      /\ (\A i \in 1 .. L : events'[i] = events[i]) /\ events'[L+1] = e
  BY <1>1
<1> HIDE DEF L
<1>m. \A n : MeantBy(plan[n])' = MeantBy(plan[n])
  BY SameMeaning
<1>3. \A n : Seen(plan, n) => Seen(plan, n)'
  <2> SUFFICES ASSUME NEW n, Seen(plan, n) PROVE Seen(plan, n)'
    OBVIOUS
  <2>1. PICK i \in 1 .. L : events[i] = MeantBy(plan[n])
    BY <1>1 DEF Seen
  <2>2. i \in DOMAIN events' /\ events'[i] = MeantBy(plan[n])
    BY <1>1, <1>2, <2>1
  <2> QED BY <1>m, <2>2 DEF Seen
<1>4. Seen(plan, m)'
  BY <1>1, <1>2, <1>m DEF Seen
<1>5. ASSUME NEW i \in DOMAIN events' PROVE Follows(plan, i)'
  <2>1. CASE i \in 1 .. L
    <3>1. PICK n \in DOMAIN plan :
            /\ End(plan, n) <= received /\ events[i] = MeantBy(plan[n])
            /\ n = 1 \/ \E j \in 1 .. i - 1 : events[j] = MeantBy(plan[n-1])
      BY <1>1, <2>1 DEF Follows
    <3>2. events'[i] = MeantBy(plan[n]) /\ End(plan, n) <= received'
      BY <1>2, <2>1, <3>1
    <3>3. n = 1 \/ \E j \in 1 .. i - 1 : events'[j] = MeantBy(plan[n-1])
      <4>1. \A j \in 1 .. i - 1 : events'[j] = events[j]
        BY <1>1, <1>2, <2>1
      <4> QED BY <3>1, <4>1
    <3> QED BY <1>m, <3>2, <3>3 DEF Follows
  <2>2. CASE i = L + 1
    <3>1. m = 1 \/ \E j \in 1 .. i - 1 : events'[j] = MeantBy(plan[m-1])
      <4>1. CASE Seen(plan, m - 1)
        <5>1. PICK j \in 1 .. L : events[j] = MeantBy(plan[m-1])
          BY <1>1, <4>1 DEF Seen
        <5>2. j \in 1 .. i - 1 /\ events'[j] = MeantBy(plan[m-1])
          BY <1>1, <1>2, <2>2, <5>1
        <5> QED BY <5>2
      <4> QED BY <4>1
    <3>2. events'[i] = MeantBy(plan[m]) /\ End(plan, m) <= received'
      BY <1>2, <2>2
    <3> QED BY <1>m, <3>1, <3>2 DEF Follows
  <2> QED BY <1>1, <1>2, <2>1, <2>2
<1> QED BY <1>2, <1>3, <1>4, <1>5

LEMMA SeenSame ==
    ASSUME NEW plan, IsPlan(plan), IsList(events), \A i \in DOMAIN events : Follows(plan, i),
           events' = events, asserts' = asserts, received \in Nat, received' \in Nat,
           received <= received'
    PROVE  /\ IsList(events)' /\ \A i \in DOMAIN events' : Follows(plan, i)'
           /\ \A n : Seen(plan, n) => Seen(plan, n)'
<1>1. \A n : MeantBy(plan[n])' = MeantBy(plan[n])
  BY SameMeaning
<1>2. \A n : Seen(plan, n) => Seen(plan, n)'
  BY <1>1 DEF Seen
<1>3. IsList(events')
  OBVIOUS
<1>4. ASSUME NEW i \in DOMAIN events' PROVE Follows(plan, i)'
  <2>1. PICK n \in DOMAIN plan :
          /\ End(plan, n) <= received /\ events[i] = MeantBy(plan[n])
          /\ n = 1 \/ \E j \in 1 .. i - 1 : events[j] = MeantBy(plan[n-1])
    BY DEF Follows
  <2>2. End(plan, n) \in Nat
    <3>1. n \in 0 .. Len(plan)
      BY PlanIs
    <3> QED BY <3>1, PlanIs
  <2>3. End(plan, n) <= received'
    BY <2>1, <2>2
  <2> QED BY <1>1, <2>1, <2>3 DEF Follows
<1> QED BY <1>2, <1>3, <1>4

\* Where write() is in the cells, and what comes next there.
LEMMA ReadingAt ==
    ASSUME NEW plan, IsPlan(plan), received \in Nat, received <= Len(ComposeAll(plan)),
           NEW k \in 0 .. Len(plan), Holds(plan, k), pc # "idle",
           NEW j \in 0 .. Len(plan), ReadTo(plan, k, j)
    PROVE  /\ bytes \in Seq(Byte) /\ Len(bytes) = received - End(plan, k) /\ Len(bytes) \in Nat
           /\ pos \in Nat /\ pos <= Len(bytes)
           /\ End(plan, k) \in Nat /\ End(plan, j) \in Nat
           /\ pos < Len(bytes) =>
                /\ j + 1 \in 1 .. Len(plan)
                /\ End(plan, j + 1) \in Nat
                /\ End(plan, j + 1) = End(plan, j) + Len(Compose(plan[j+1]))
                /\ bytes[pos+1] >= 128
                /\ Complete <=> End(plan, j + 1) <= received
                /\ Complete => /\ pos + HeaderLen + MsgLen = End(plan, j + 1) - End(plan, k)
                               /\ EmitMessage => events' = Append(events, MeantBy(plan[j+1]))
<1>1. /\ End(plan, k) <= received /\ bytes = SubSeq(ComposeAll(plan), End(plan, k) + 1, received)
  BY DEF Holds
<1>2. k <= j /\ End(plan, j) <= received /\ pos = End(plan, j) - End(plan, k)
  BY DEF ReadTo
<1>3. /\ bytes \in Seq(Byte) /\ Len(bytes) = received - End(plan, k) /\ pos \in Nat
      /\ pos < Len(bytes) => j < Len(plan) /\ Begins(bytes, pos, Compose(plan[j+1]))
  <2>1. /\ bytes \in {SubSeq(ComposeAll(plan), End(plan, k) + 1, received)}
        /\ pos \in {End(plan, j) - End(plan, k)}
    BY <1>1, <1>2
  <2> QED BY <1>1, <1>2, <2>1, NextMessage
<1>4. End(plan, k) \in Nat /\ End(plan, j) \in Nat /\ Len(plan) \in Nat
  BY PlanIs
<1>5. pos <= Len(bytes) /\ Len(bytes) \in Nat
  BY <1>1, <1>2, <1>3, <1>4, SMTT(30)
<1>6. ASSUME pos < Len(bytes)
      PROVE  /\ j + 1 \in 1 .. Len(plan)
             /\ End(plan, j + 1) \in Nat
             /\ End(plan, j + 1) = End(plan, j) + Len(Compose(plan[j+1]))
             /\ bytes[pos+1] >= 128
             /\ Complete <=> End(plan, j + 1) <= received
             /\ Complete => /\ pos + HeaderLen + MsgLen = End(plan, j + 1) - End(plan, k)
                            /\ EmitMessage => events' = Append(events, MeantBy(plan[j+1]))
  <2> DEFINE n == j + 1
             c == Compose(plan[n])
             mb == MeantBy(plan[n])
  <2>1. n \in 1 .. Len(plan) /\ n \in 0 .. Len(plan) /\ n - 1 = j /\ Begins(bytes, pos, c)
    BY <1>3, <1>4, <1>6
  <2> HIDE DEF n
  <2>2. /\ End(plan, n) = End(plan, n - 1) + Len(c) /\ IsDataMsg(plan[n]) /\ c \in Seq(Byte)
        /\ End(plan, n) \in Nat
    BY <2>1, PlanIs
  <2>3. End(plan, n) = End(plan, j) + Len(c)
    BY <2>1, <2>2
  <2>4. /\ bytes[pos+1] >= 128
        /\ Complete <=> pos + Len(c) <= Len(bytes)
        /\ Complete => /\ pos + HeaderLen + MsgLen = pos + Len(c)
                       /\ EmitMessage => events' = Append(events, mb)
    <3> DEFINE msg == plan[n]
    <3>1. IsDataMsg(msg) /\ Begins(bytes, pos, Compose(msg)) /\ bytes \in Seq(Byte) /\ pos \in Nat
      BY <1>3, <2>1, <2>2
    <3> HIDE DEF msg
    <3>2. /\ bytes[pos+1] >= 128
          /\ Complete <=> pos + Len(Compose(msg)) <= Len(bytes)
          /\ Complete => /\ pos + HeaderLen + MsgLen = pos + Len(Compose(msg))
                         /\ EmitMessage => events' = Append(events, MeantBy(msg))
      BY <1>6, <3>1, MessageFound
    <3> QED BY <3>2 DEF msg
  <2>5. Len(c) \in Nat
    BY <2>2, LenProperties
  <2> HIDE DEF c, mb
  <2>6. pos + Len(c) <= Len(bytes) <=> End(plan, n) <= received
    BY <1>2, <1>3, <1>4, <2>3, <2>5, SMTT(30)
  <2>7. pos + Len(c) = End(plan, n) - End(plan, k)
    BY <1>2, <1>4, <2>3, <2>5
  <2> QED BY <2>1, <2>2, <2>3, <2>4, <2>6, <2>7 DEF n, c, mb
<1> QED BY <1>3, <1>4, <1>5, <1>6

\* Any piece may arrive.
LEMMA PieceStep ==
    ASSUME NEW plan, IsPlan(plan), PieceState(plan), sent = plan, Piece
    PROVE  PieceState(plan)'
<1> USE DEF PieceState
<1> DEFINE T == ComposeAll(plan)
<1>1. PICK n \in received + 1 .. Len(T) : Write(SubSeq(T, received + 1, n)) /\ received' = n
  BY DEF Piece, SentCells
<1>2. UNCHANGED <<parseVars, chunks, sent>>
  BY DEF Piece
<1>3. /\ pc = "idle" /\ m_buf' = m_buf \o SubSeq(T, received + 1, n) /\ bytes' = m_buf'
      /\ pos' = 0 /\ mark' = 0 /\ pc' = "loop" /\ events' = events /\ asserts' = asserts
  BY <1>1 DEF Write
<1>4. PICK k \in 0 .. Len(plan) : Holds(plan, k)
  OBVIOUS
<1>5. /\ End(plan, k) <= received /\ m_buf = SubSeq(T, End(plan, k) + 1, received)
      /\ \A i \in DOMAIN plan : End(plan, i) <= received => Seen(plan, i)
  BY <1>3, <1>4 DEF Holds
<1>6. T \in Seq(Byte) /\ Len(T) \in Nat /\ End(plan, k) \in Nat /\ Len(plan) \in Nat /\ DOMAIN plan = 1 .. Len(plan)
  BY PlanIs
<1>7. received' \in Nat /\ received <= received' /\ received' <= Len(T)
  BY <1>1, <1>6
<1>8. /\ IsList(events)' /\ \A i \in DOMAIN events' : Follows(plan, i)'
      /\ \A i : Seen(plan, i) => Seen(plan, i)'
  BY <1>3, <1>7, SeenSame
<1> HIDE DEF T
<1>9. m_buf' = SubSeq(T, End(plan, k) + 1, received')
  <2> DEFINE K == End(plan, k)
             r == received
  <2> HIDE DEF K, r
  <2>1. K \in Nat /\ r \in Nat /\ n \in Nat /\ K <= r /\ r <= n /\ n <= Len(T) /\ T \in Seq(Byte)
    BY <1>1, <1>5, <1>6 DEF K, r
  <2>2. SubSeq(T, K + 1, r) \o SubSeq(T, r + 1, n) = SubSeq(T, K + 1, n)
    <3>1. K + 1 \in 1 .. Len(T) + 1 /\ r \in (K + 1) - 1 .. Len(T) /\ n \in r .. Len(T)
      BY <1>6, <2>1
    <3> DEFINE o == K + 1
    <3> HIDE DEF o
    <3> QED BY <2>1, <3>1, ConcatAdjacentSubSeq DEF o
  <2> QED BY <1>1, <1>3, <1>5, <2>2 DEF K, r
<1>10. \A i \in 1 .. k : Seen(plan, i)
  <2> TAKE i \in 1 .. k
  <2>1. i \in DOMAIN plan /\ i \in 0 .. Len(plan) /\ (i = k \/ i < k)
    BY <1>6
  <2>2. End(plan, i) <= End(plan, k) /\ End(plan, i) \in Nat
    <3>1. i < k => End(plan, i) < End(plan, k)
      BY <2>1, PlanIs
    <3>2. End(plan, i) \in Nat
      BY <2>1, PlanIs
    <3> QED BY <1>6, <2>1, <3>1, <3>2
  <2>3. End(plan, i) <= received
    <3>1. received \in Nat /\ End(plan, k) \in Nat /\ End(plan, k) <= received
      BY <1>5, <1>6
    <3> QED BY <2>2, <3>1
  <2> QED BY <1>5, <2>1, <2>3
<1>11. End(plan, k) <= received'
  BY <1>5, <1>6, <1>7
<1>12. ReadTo(plan, k, k)'
  <2>1. pos' = End(plan, k) - End(plan, k) /\ k <= k
    BY <1>3, <1>6
  <2>2. \A i \in 1 .. k : Seen(plan, i)'
    BY <1>8, <1>10
  <2> QED BY <1>3, <1>11, <2>1, <2>2 DEF ReadTo
<1>13. Holds(plan, k)'
  BY <1>3, <1>9, <1>11, <1>12 DEF Holds, T
<1> QED BY <1>2, <1>3, <1>7, <1>8, <1>13 DEF T, parseVars

\* The messages that are complete are handed out, in order.
LEMMA PieceData ==
    ASSUME NEW plan, IsPlan(plan), PieceState(plan), DataLoop, UNCHANGED <<parseVars, linkVars>>
    PROVE  PieceState(plan)'
<1> USE DEF PieceState
<1>1. step' = step /\ chunks' = chunks /\ received' = received
  BY DEF parseVars, linkVars
<1>2. pc = "data"
  BY DEF DataLoop, Message, Incomplete, LeaveData, AtData
<1>3. PICK k \in 0 .. Len(plan) : Holds(plan, k)
  OBVIOUS
<1>4. /\ End(plan, k) <= received /\ bytes = m_buf
      /\ m_buf = SubSeq(ComposeAll(plan), End(plan, k) + 1, received)
  BY <1>2, <1>3 DEF Holds
<1>5. PICK j \in 0 .. Len(plan) : ReadTo(plan, k, j)
  BY <1>2, <1>3 DEF Holds
<1>6. /\ k <= j /\ End(plan, j) <= received /\ pos = End(plan, j) - End(plan, k)
      /\ \A n \in 1 .. j : Seen(plan, n)
  BY <1>5 DEF ReadTo
<1> DEFINE m == j + 1
           e == MeantBy(plan[m])
<1>7. /\ bytes \in Seq(Byte) /\ Len(bytes) = received - End(plan, k) /\ Len(bytes) \in Nat
      /\ pos \in Nat /\ pos <= Len(bytes) /\ End(plan, k) \in Nat /\ End(plan, j) \in Nat
      /\ pos < Len(bytes) =>
           /\ m \in 1 .. Len(plan)
           /\ Complete <=> End(plan, m) <= received
           /\ Complete => /\ pos + HeaderLen + MsgLen = End(plan, m) - End(plan, k)
                          /\ EmitMessage => events' = Append(events, e)
  BY <1>2, <1>3, <1>5, ReadingAt
<1>8. /\ Len(plan) \in Nat /\ DOMAIN plan = 1 .. Len(plan) /\ m = j + 1 /\ m - 1 = j
      /\ \A n \in 1 .. m - 1 : Seen(plan, n)
  BY <1>6, PlanIs
<1> HIDE DEF m, e
<1>9. CASE Message
  <2>1. /\ pos < Len(bytes) /\ Complete /\ EmitMessage
        /\ asserts' = asserts /\ m_buf' = m_buf /\ pc' = pc /\ bytes' = bytes /\ mark' = mark
        /\ pos' = pos + HeaderLen + MsgLen
    BY <1>9 DEF Message, AtData, loopVars
  <2>2. /\ m \in DOMAIN plan /\ m \in 0 .. Len(plan) /\ End(plan, m) <= received
        /\ pos' = End(plan, m) - End(plan, k) /\ events' = Append(events, e)
    BY <1>7, <1>8, <2>1
  <2>3. m = 1 \/ Seen(plan, m - 1)
    <3>1. m - 1 \in 1 .. m - 1 \/ m = 1
      BY <1>8
    <3> QED BY <1>8, <3>1
  <2>4. /\ IsList(events)' /\ \A i \in DOMAIN events' : Follows(plan, i)'
        /\ \A n : Seen(plan, n) => Seen(plan, n)'
        /\ Seen(plan, m)'
    <3>1. events' = Append(events, MeantBy(plan[m]))
      BY <2>2 DEF e
    <3> QED BY <1>1, <2>1, <2>2, <2>3, <3>1, SeenStays
  <2>5. ReadTo(plan, k, m)'
    <3>1. k <= m /\ \A n \in 1 .. m : n = m \/ n \in 1 .. m - 1
      BY <1>6, <1>8
    <3>2. \A n \in 1 .. m : Seen(plan, n)'
      BY <1>8, <2>4, <3>1
    <3> QED BY <1>1, <1>2, <2>1, <2>2, <3>1, <3>2 DEF ReadTo
  <2>6. Holds(plan, k)'
    BY <1>1, <1>2, <1>4, <2>1, <2>2, <2>5 DEF Holds
  <2> QED BY <1>1, <2>1, <2>4, <2>6
<1>10. CASE Incomplete
  <2>1. /\ pos < Len(bytes) /\ ~ Complete
        /\ m_buf' = Drop(m_buf, 0) /\ pc' = "idle" /\ mark' = 0
        /\ asserts' = asserts /\ events' = events
    BY <1>10 DEF Incomplete, AtData, Finish
  <2>2. /\ IsList(events)' /\ \A i \in DOMAIN events' : Follows(plan, i)'
        /\ \A n : Seen(plan, n) => Seen(plan, n)'
    BY <1>1, <2>1, SeenSame
  <2>3. m_buf' = m_buf
    <3>1. m_buf \in Seq(Byte)
      BY <1>4, <1>7
    <3>2. m_buf' = SubSeq(m_buf, 1, Len(m_buf))
      BY <2>1 DEF Drop
    <3> QED BY <3>1, <3>2, SubSeqFull
  <2>4. ASSUME NEW n \in DOMAIN plan, End(plan, n) <= received PROVE Seen(plan, n)'
    <3>1. m \in 1 .. Len(plan) /\ received < End(plan, m)
      <4>1. m \in 1 .. Len(plan) /\ ~ (End(plan, m) <= received)
        BY <1>7, <2>1
      <4>2. End(plan, m) \in Nat
        BY <4>1, PlanIs
      <4> QED BY <4>1, <4>2
    <3>2. n < m
      <4>1. n \in 0 .. Len(plan) /\ m \in 0 .. Len(plan) /\ End(plan, n) \in Nat /\ End(plan, m) \in Nat
        BY <1>8, <3>1, PlanIs
      <4>2. m < n => End(plan, m) < End(plan, n)
        BY <4>1, PlanIs
      <4>3. n # m
        BY <2>4, <3>1, <4>1
      <4> QED BY <2>4, <3>1, <4>1, <4>2, <4>3
    <3>3. n \in 1 .. m - 1
      BY <1>8, <3>1, <3>2
    <3> QED BY <1>8, <2>2, <3>3
  <2>5. Holds(plan, k)'
    BY <1>1, <1>4, <2>1, <2>3, <2>4 DEF Holds
  <2> QED BY <1>1, <2>1, <2>2, <2>5
<1>11. CASE LeaveData
  <2>1. /\ pos >= Len(bytes) /\ pc' = "loop" /\ asserts' = asserts /\ m_buf' = m_buf
        /\ bytes' = bytes /\ mark' = mark /\ pos' = pos /\ events' = events
    BY <1>11 DEF LeaveData, loopVars
  <2>2. /\ IsList(events)' /\ \A i \in DOMAIN events' : Follows(plan, i)'
        /\ \A n : Seen(plan, n) => Seen(plan, n)'
    BY <1>1, <2>1, SeenSame
  <2>3. pos' = Len(bytes')
    BY <1>7, <2>1
  <2>4. ReadTo(plan, k, j)'
    BY <1>1, <1>6, <2>1, <2>2, <2>3 DEF ReadTo
  <2>5. Holds(plan, k)'
    BY <1>1, <1>4, <2>1, <2>4 DEF Holds
  <2> QED BY <1>1, <2>1, <2>2, <2>5
<1> QED BY <1>9, <1>10, <1>11 DEF DataLoop

\* What remains of write() around the messages; there are no lines.
LEMMA PieceLoop ==
    ASSUME NEW plan, IsPlan(plan), PieceState(plan), TextLoop, UNCHANGED <<parseVars, linkVars>>
    PROVE  PieceState(plan)'
<1> USE DEF PieceState
<1>1. step' = step /\ chunks' = chunks /\ received' = received
  BY DEF parseVars, linkVars
<1>2. pc = "loop"
  BY DEF TextLoop, EmptyLine, HeaderLine, FirstLine, DiscoveryLine, Declaration,
         BadFirstDeclaration, BadDeclaration, OtherLine, EnterData, WriteEnd, AtText
<1>3. PICK k \in 0 .. Len(plan) : Holds(plan, k)
  OBVIOUS
<1>4. /\ End(plan, k) <= received /\ bytes = m_buf
      /\ m_buf = SubSeq(ComposeAll(plan), End(plan, k) + 1, received)
  BY <1>2, <1>3 DEF Holds
<1>5. PICK j \in 0 .. Len(plan) : ReadTo(plan, k, j)
  BY <1>2, <1>3 DEF Holds
<1>6. /\ k <= j /\ End(plan, j) <= received /\ pos = End(plan, j) - End(plan, k)
      /\ \A n \in 1 .. j : Seen(plan, n)
      /\ pos = 0 \/ pos = Len(bytes)
  BY <1>2, <1>5 DEF ReadTo
<1>7. /\ bytes \in Seq(Byte) /\ Len(bytes) = received - End(plan, k) /\ Len(bytes) \in Nat
      /\ pos \in Nat /\ pos <= Len(bytes) /\ End(plan, k) \in Nat /\ End(plan, j) \in Nat
      /\ pos < Len(bytes) => bytes[pos+1] >= 128
  BY <1>2, <1>3, <1>5, ReadingAt
<1>8. ~ AtText
  <2>1. SUFFICES ASSUME AtText PROVE FALSE
    OBVIOUS
  <2>2. bytes[pos+1] < 128 /\ bytes[pos+1] >= 128 /\ pos + 1 \in 1 .. Len(bytes)
    BY <1>7, <2>1 DEF AtText
  <2>3. bytes[pos+1] \in Byte
    BY <1>7, <2>2, ElementOfSeq
  <2> DEFINE x == bytes[pos+1]
  <2>4. x \in 0 .. 255 /\ x < 128 /\ x >= 128
    BY <2>2, <2>3 DEF Byte
  <2> HIDE DEF x
  <2> QED BY <2>4
<1>9. EnterData \/ WriteEnd
  BY <1>8 DEF TextLoop, EmptyLine, HeaderLine, FirstLine, DiscoveryLine, Declaration,
              BadFirstDeclaration, BadDeclaration, OtherLine
<1>10. events' = events /\ asserts' = asserts
  BY <1>9 DEF EnterData, WriteEnd
<1>11. /\ IsList(events)' /\ \A i \in DOMAIN events' : Follows(plan, i)'
       /\ \A n : Seen(plan, n) => Seen(plan, n)'
  BY <1>1, <1>10, SeenSame
<1>12. CASE EnterData
  <2>1. /\ pos < Len(bytes) /\ pc' = "data" /\ mark' = pos /\ m_buf' = m_buf /\ bytes' = bytes
        /\ pos' = pos
    BY <1>12 DEF EnterData
  <2>2. mark' = 0
    BY <1>6, <1>7, <2>1
  <2>3. ReadTo(plan, k, j)'
    BY <1>1, <1>6, <1>11, <2>1 DEF ReadTo
  <2>4. Holds(plan, k)'
    BY <1>1, <1>4, <2>1, <2>3 DEF Holds
  <2> QED BY <1>1, <1>11, <2>2, <2>4
<1>13. CASE WriteEnd
  <2>1. /\ pos >= Len(bytes) /\ m_buf' = Drop(m_buf, pos) /\ pc' = "idle" /\ mark' = 0
    BY <1>13 DEF WriteEnd, Finish
  <2>2. pos = Len(bytes) /\ End(plan, j) = received
    BY <1>6, <1>7, <2>1
  <2>3. m_buf' = <<>>
    <3>1. m_buf' = SubSeq(m_buf, pos + 1, pos)
      BY <1>4, <2>1, <2>2 DEF Drop
    <3>2. pos + 1 \in Int /\ pos \in Int /\ pos < pos + 1
      BY <1>7
    <3> QED BY <3>1, <3>2, SubSeqEmpty
  <2>4. m_buf' = SubSeq(ComposeAll(plan), End(plan, j) + 1, received)
    <3>1. received + 1 \in Int /\ received \in Int /\ received < received + 1
      OBVIOUS
    <3> QED BY <2>2, <2>3, <3>1, SubSeqEmpty
  <2>5. ASSUME NEW n \in DOMAIN plan, End(plan, n) <= received PROVE Seen(plan, n)'
    <3>1. n \in 0 .. Len(plan) /\ n >= 1 /\ End(plan, n) \in Nat
      BY PlanIs
    <3>2. j < n => End(plan, j) < End(plan, n)
      BY <3>1, PlanIs
    <3>3. n \in 1 .. j
      <4>1. End(plan, n) <= End(plan, j)
        BY <2>2, <2>5
      <4>2. ~ (j < n)
        BY <1>7, <3>1, <3>2, <4>1
      <4>3. j \in Nat
        OBVIOUS
      <4> QED BY <3>1, <4>2, <4>3
    <3> QED BY <1>6, <1>11, <3>3
  <2>6. Holds(plan, j)'
    BY <1>1, <1>6, <2>1, <2>4, <2>5 DEF Holds
  <2> QED BY <1>1, <1>11, <2>1, <2>6
<1> QED BY <1>9, <1>12, <1>13

LEMMA PieceOpen ==
    ASSUME NEW plan, IsPlan(plan), PieceState(plan), OpenStream, user = "pieces"
    PROVE  PieceState(plan)'
<1> USE DEF PieceState
<1>1. /\ step' = "write" /\ chunks' = <<>> /\ received' = received /\ mark' = mark /\ pc = "idle"
      /\ pc' = pc /\ m_buf' = m_buf /\ events' = events /\ asserts' = asserts
  BY DEF OpenStream, Open, loopVars
<1>2. /\ IsList(events)' /\ \A i \in DOMAIN events' : Follows(plan, i)'
      /\ \A n : Seen(plan, n) => Seen(plan, n)'
  BY <1>1, SeenSame
<1>3. PICK k \in 0 .. Len(plan) : Holds(plan, k)
  OBVIOUS
<1>4. Holds(plan, k)'
  BY <1>1, <1>2, <1>3 DEF Holds
<1> QED BY <1>1, <1>2, <1>4

LEMMA PieceStart ==
    ASSUME NEW plan, IsPlan(plan), Init
    PROVE  PieceState(plan)
<1>1. /\ step = "begin" /\ chunks = <<>> /\ mark = 0 /\ received = 0 /\ events = <<>>
      /\ pc = "idle" /\ m_buf = <<>>
  BY DEF Init, IStreamInit
<1>2. /\ Len(plan) \in Nat /\ DOMAIN plan = 1 .. Len(plan) /\ ComposeAll(plan) \in Seq(Byte)
      /\ Len(ComposeAll(plan)) \in Nat /\ End(plan, 0) = 0
  BY PlanIs
<1>3. IsList(events) /\ DOMAIN events = {}
  <2>1. DOMAIN events = {}
    BY <1>1
  <2>2. <<>> \in Seq({})
    OBVIOUS
  <2>3. {events[i] : i \in DOMAIN events} = {}
    BY <2>1
  <2> QED BY <1>1, <2>1, <2>2, <2>3 DEF IsList
<1>4. 0 \in 0 .. Len(plan)
  BY <1>2
<1>5. SubSeq(ComposeAll(plan), 0 + 1, 0) = <<>>
  BY SubSeqEmpty
<1>6. ASSUME NEW n \in DOMAIN plan PROVE ~ (End(plan, n) <= 0)
  <2>1. n \in 0 .. Len(plan) /\ 0 < n
    BY <1>2
  <2>2. End(plan, 0) < End(plan, n) /\ End(plan, n) \in Nat
    BY <1>4, <2>1, PlanIs
  <2> QED BY <1>2, <2>2
<1>7. Holds(plan, 0)
  BY <1>1, <1>2, <1>5, <1>6 DEF Holds
<1> QED BY <1>1, <1>2, <1>3, <1>4, <1>7 DEF PieceState

\* The invariant of pieces.
LEMMA PiecesStep ==
    ASSUME PiecesInv, [Next]_vars
    PROVE  PiecesInv'
<1> SUFFICES ASSUME user' = "pieces" PROVE \E plan \in Plans : sent' = plan /\ PieceState(plan)'
  BY DEF PiecesInv
<1>1. user = "pieces" /\ (step # "begin" \/ step = "begin") /\ UNCHANGED user
  BY DEF Next, vars, parseVars, OpenStream, FileMissing, WriteChunk, CloseStream, Return, Transmit,
         Piece
<1>2. PICK plan \in Plans : sent = plan /\ PieceState(plan)
  BY <1>1 DEF PiecesInv
<1>3. IsPlan(plan)
  BY PlansArePlans
<1>4. step \in {"begin", "write"} /\ chunks = <<>>
  BY <1>2 DEF PieceState
<1>5. sent' = sent
  BY <1>1 DEF Next, vars, parseVars, linkVars, OpenStream, FileMissing, WriteChunk, CloseStream,
              Return, Transmit, Piece
<1>6. PieceState(plan)'
  <2>1. CASE OpenStream
    BY <1>1, <1>2, <1>3, <2>1, PieceOpen
  <2>2. CASE Piece
    BY <1>2, <1>3, <2>2, PieceStep
  <2>3. CASE TextLoop /\ UNCHANGED <<parseVars, linkVars>>
    BY <1>2, <1>3, <2>3, PieceLoop
  <2>4. CASE DataLoop /\ UNCHANGED <<parseVars, linkVars>>
    BY <1>2, <1>3, <2>4, PieceData
  <2>5. CASE UNCHANGED vars
    <3>1. /\ step' = step /\ chunks' = chunks /\ mark' = mark /\ received' = received
          /\ events' = events /\ asserts' = asserts /\ pc' = pc /\ bytes' = bytes /\ pos' = pos
          /\ m_buf' = m_buf
      BY <2>5 DEF vars, istreamVars, parserVars, parseVars, linkVars
    <3>2. received \in Nat /\ IsList(events) /\ \A i \in DOMAIN events : Follows(plan, i)
      BY <1>2 DEF PieceState
    <3>3. /\ IsList(events)' /\ \A i \in DOMAIN events' : Follows(plan, i)'
          /\ \A n : Seen(plan, n) => Seen(plan, n)'
      BY <1>3, <3>1, <3>2, SeenSame
    <3>4. PICK k \in 0 .. Len(plan) : Holds(plan, k)
      BY <1>2 DEF PieceState
    <3>5. \A j \in 0 .. Len(plan) : ReadTo(plan, k, j) => ReadTo(plan, k, j)'
      BY <3>1, <3>3 DEF ReadTo
    <3>6. Holds(plan, k)'
      BY <3>1, <3>3, <3>4, <3>5 DEF Holds
    <3> QED BY <1>2, <3>1, <3>3, <3>6 DEF PieceState
  <2>6. ~ FileMissing /\ ~ WriteChunk /\ ~ CloseStream /\ ~ Return
    BY <1>1, <1>4 DEF FileMissing, WriteChunk, CloseStream, Return
  <2>7. ~ \E msgs \in Transmissions : Transmit(msgs)
    BY <1>1 DEF Transmit
  <2> QED BY <2>1, <2>2, <2>3, <2>4, <2>5, <2>6, <2>7 DEF Next
<1> QED BY <1>2, <1>5, <1>6

\* What the invariant says of what was handed out.
LEMMA PiecesHandedOut ==
    ASSUME PiecesInv
    PROVE  NoMessageSkipped
<1> SUFFICES ASSUME user = "pieces"
             PROVE  /\ \A i \in DOMAIN events : \E n \in DOMAIN sent :
                         /\ Meaning(sent[n]) = <<events[i]>>
                         /\ n = 1 \/ \E j \in 1 .. i - 1 : Meaning(sent[n-1]) = <<events[j]>>
                    /\ pc = "idle" =>
                         Arrived = {n \in DOMAIN sent :
                                      \E i \in DOMAIN events : Meaning(sent[n]) = <<events[i]>>}
  BY DEF NoMessageSkipped
<1>1. PICK plan \in Plans : sent = plan /\ PieceState(plan)
  BY DEF PiecesInv
<1>2. IsPlan(plan) /\ \A i, j \in DOMAIN plan : plan[i].port = plan[j].port => i = j
  BY PlansArePlans
<1>3. DOMAIN plan = 1 .. Len(plan) /\ Len(plan) \in Nat /\ \A n \in DOMAIN plan : IsDataMsg(plan[n])
  BY <1>2, PlanIs
<1>4. \A n \in DOMAIN plan : /\ Meaning(plan[n]) = <<MeantBy(plan[n])>>
                             /\ MeantBy(plan[n]).port = plan[n].port
  BY <1>3, OneMeaning
<1>5. /\ received \in Nat /\ IsList(events) /\ \A i \in DOMAIN events : Follows(plan, i)
      /\ \E k \in 0 .. Len(plan) : Holds(plan, k)
  BY <1>1 DEF PieceState
<1>6. ASSUME NEW i \in DOMAIN events
      PROVE  \E n \in DOMAIN plan :
               /\ Meaning(plan[n]) = <<events[i]>>
               /\ n = 1 \/ \E j \in 1 .. i - 1 : Meaning(plan[n-1]) = <<events[j]>>
  <2>1. PICK n \in DOMAIN plan :
          /\ End(plan, n) <= received /\ events[i] = MeantBy(plan[n])
          /\ n = 1 \/ \E j \in 1 .. i - 1 : events[j] = MeantBy(plan[n-1])
    BY <1>5 DEF Follows
  <2>2. Meaning(plan[n]) = <<events[i]>>
    BY <1>4, <2>1
  <2>3. CASE n = 1
    BY <2>2, <2>3
  <2>4. CASE n # 1
    <3>1. n - 1 \in DOMAIN plan
      BY <1>3, <2>4
    <3>2. PICK j \in 1 .. i - 1 : events[j] = MeantBy(plan[n-1])
      BY <2>1, <2>4
    <3>3. Meaning(plan[n-1]) = <<events[j]>>
      BY <1>4, <3>1, <3>2
    <3> QED BY <2>2, <3>3
  <2> QED BY <2>3, <2>4
<1>7. Arrived = {n \in DOMAIN plan : End(plan, n) <= received}
  <2>1. \A n \in DOMAIN plan : End(plan, n) = Len(ComposeAll(SubSeq(plan, 1, n)))
    <3>1. \A n \in DOMAIN plan : Compose(plan[n]) \in Seq(Byte)
      BY <1>2, <1>3, PlanIs
    <3>2. \A n \in DOMAIN plan : n \in 0 .. Len(plan)
      BY <1>3
    <3>3. IsList(plan)
      BY <1>2 DEF IsPlan
    <3> QED BY <3>1, <3>2, <3>3, ComposedTogether
  <2> QED BY <1>1, <2>1 DEF Arrived
<1>8. ASSUME pc = "idle", NEW n \in DOMAIN plan
      PROVE  End(plan, n) <= received <=>
               \E i \in DOMAIN events : Meaning(plan[n]) = <<events[i]>>
  <2>1. End(plan, n) <= received => Seen(plan, n)
    BY <1>5, <1>8 DEF Holds
  <2>2. Seen(plan, n) => \E i \in DOMAIN events : Meaning(plan[n]) = <<events[i]>>
    BY <1>4 DEF Seen
  <2>3. ASSUME NEW i \in DOMAIN events, Meaning(plan[n]) = <<events[i]>>
        PROVE  End(plan, n) <= received
    <3>1. PICK m \in DOMAIN plan : End(plan, m) <= received /\ events[i] = MeantBy(plan[m])
      BY <1>5 DEF Follows
    <3>2. events[i] = MeantBy(plan[n])
      BY <1>4, <2>3
    <3>3. plan[m].port = plan[n].port
      BY <1>4, <3>1, <3>2
    <3>4. m = n
      BY <1>2, <3>3
    <3> QED BY <3>1, <3>4
  <2> QED BY <2>1, <2>2, <2>3
<1> QED BY <1>1, <1>6, <1>7, <1>8

LEMMA PiecesInit == Init => PiecesInv
<1> SUFFICES ASSUME Init, user = "pieces" PROVE \E plan \in Plans : sent = plan /\ PieceState(plan)
  BY DEF PiecesInv
<1>1. sent \in Plans
  BY DEF Init, ParserInit, LinkInit
<1>2. IsPlan(sent)
  BY <1>1, PlansArePlans
<1>3. PICK plan \in Plans : plan = sent
  BY <1>1
<1>4. PieceState(plan)
  BY <1>2, <1>3, PieceStart
<1> QED BY <1>3, <1>4

\* Of data messages in pieces none is skipped.
THEOREM NoMessageSkippedAlways == FairSpec => []NoMessageSkipped
<1>1. Init => PiecesInv
  BY PiecesInit
<1>2. PiecesInv /\ [Next]_vars => PiecesInv'
  BY PiecesStep
<1>3. PiecesInv => NoMessageSkipped
  BY PiecesHandedOut
<1> QED BY <1>1, <1>2, <1>3, PTL DEF FairSpec

-----------------------------------------------------------------------------
(* Types. *)

States == {"NONE", "HEADER", "NODENAME_RQST", "NODENAME_RSP", "NODEQUERY_RQST", "NODEQUERY_RSP"}

StreamTypes ==
    /\ asserts \in BOOLEAN /\ mIsOpen \in BOOLEAN /\ mException \in BOOLEAN
    /\ mParseState \in States
    /\ pc \in {"idle", "loop", "data", "aborted", "undefined"}
    /\ m_buf \in Seq(Byte) /\ bytes \in Seq(Byte) /\ shared \in BOOLEAN
    /\ pos \in Nat /\ pos <= Len(bytes) + 1 /\ mark \in Nat /\ mark <= pos
    /\ pc \in {"loop", "data"} => m_buf \in {bytes, <<>>}
    /\ pc = "data" => pos <= Len(bytes) /\ mark < Len(bytes)

\* What a line can do.
LEMMA TextCases ==
    ASSUME TextLoop
    PROVE  \/ /\ AtText
              /\ \/ NextLine /\ mParseState' \in States \cup {mParseState}
                 \/ Abort
                 \/ Reset
           \/ EmptyLine \/ BadDeclaration \/ EnterData \/ WriteEnd
<1>1. CASE HeaderLine
  BY <1>1 DEF HeaderLine, AssertThenReset, States
<1>2. CASE FirstLine
  BY <1>2 DEF FirstLine, States
<1>3. CASE DiscoveryLine
  BY <1>3 DEF DiscoveryLine, AssertThenReset
<1>4. CASE Declaration
  BY <1>4 DEF Declaration, States
<1>5. CASE BadFirstDeclaration
  BY <1>5 DEF BadFirstDeclaration, AssertThenReset
<1>6. CASE OtherLine
  BY <1>6 DEF OtherLine
<1> QED BY <1>1, <1>2, <1>3, <1>4, <1>5, <1>6 DEF TextLoop

\* The end of a line is the first end behind pos, or the end of what there is.
LEMMA LineEndIs ==
    ASSUME bytes \in Seq(Byte), pos \in Nat, AtText
    PROVE  /\ Len(bytes) \in Nat /\ LineEnd \in Nat /\ pos <= LineEnd /\ LineEnd <= Len(bytes)
           /\ pos < Len(bytes)
           /\ \A i \in pos + 1 .. LineEnd : bytes[i] # NL
           /\ LineEnd < Len(bytes) => bytes[LineEnd+1] = NL
<1> DEFINE hits == {i \in pos + 1 .. Len(bytes) : bytes[i] = NL}
           p == SearchUntil(bytes, pos + 1, NL)
<1>1. Len(bytes) \in Nat /\ pos < Len(bytes)
  BY LenProperties DEF AtText
<1>2. p = IF hits = {} THEN 0 ELSE Min(hits)
  BY <1>1 DEF SearchUntil
<1>3. hits \in SUBSET Nat
  OBVIOUS
<1>4. hits # {} => Min(hits) \in hits /\ \A y \in hits : Min(hits) <= y
  <2> HIDE DEF hits
  <2> QED BY <1>3, MinOfNat
<1>5. LineEnd = IF p = 0 THEN Len(bytes) ELSE p - 1
  BY DEF LineEnd
<1> HIDE DEF p
<1>6. CASE hits = {}
  <2>1. LineEnd = Len(bytes)
    BY <1>2, <1>5, <1>6
  <2> QED BY <1>1, <1>6, <2>1
<1>7. CASE hits # {}
  <2>1. p \in hits /\ \A y \in hits : p <= y
    BY <1>2, <1>4, <1>7
  <2>2. p \in pos + 1 .. Len(bytes) /\ bytes[p] = NL
    BY <2>1
  <2>3. LineEnd = p - 1 /\ LineEnd + 1 = p
    BY <1>5, <2>2
  <2>4. \A i \in pos + 1 .. LineEnd : bytes[i] # NL
    <3> SUFFICES ASSUME NEW i \in pos + 1 .. LineEnd, bytes[i] = NL PROVE FALSE
      OBVIOUS
    <3>1. i \in hits /\ i < p
      BY <1>1, <2>2, <2>3
    <3>2. p <= i
      BY <2>1, <3>1
    <3> HIDE DEF hits
    <3> QED BY <2>2, <3>1, <3>2
  <2> HIDE DEF hits
  <2> QED BY <1>1, <2>2, <2>3, <2>4
<1> QED BY <1>6, <1>7

LEMMA DropIs ==
    ASSUME NEW S, NEW s \in Seq(S), NEW n \in Nat
    PROVE  Drop(s, n) \in Seq(S)
<1> DEFINE first == n + 1
<1>1. Len(s) \in Int /\ first \in Int /\ \A i \in first .. Len(s) : s[i] \in S
  BY LenProperties, ElementOfSeq
<1> HIDE DEF first
<1>2. SubSeq(s, first, Len(s)) \in Seq(S)
  BY <1>1, SubSeqProperties
<1> QED BY <1>2 DEF Drop, first

LEMMA FinishTypes ==
    ASSUME StreamTypes, NEW n \in Nat, Finish(n), asserts' = asserts, mIsOpen' = mIsOpen,
           mException' \in BOOLEAN, mParseState' \in States
    PROVE  StreamTypes'
<1>1. m_buf' \in Seq(Byte)
  BY DropIs DEF Finish, StreamTypes
<1>2. /\ pc' = "idle" /\ bytes' = <<>> /\ shared' = FALSE /\ pos' = 0 /\ mark' = 0
  BY DEF Finish
<1>3. bytes' \in Seq(Byte) /\ pos' <= Len(bytes') + 1 /\ mark' <= pos'
  BY <1>2
<1> QED BY <1>1, <1>2, <1>3 DEF StreamTypes

LEMMA TextTypes ==
    ASSUME StreamTypes, TextLoop
    PROVE  StreamTypes'
<1> USE DEF StreamTypes
<1>1. CASE AtText /\ NextLine /\ mParseState' \in States \cup {mParseState}
  <2>1. /\ asserts' = asserts /\ mIsOpen' = mIsOpen /\ mException' = mException /\ m_buf' = m_buf
        /\ bytes' = bytes /\ shared' = shared /\ mark' = mark /\ pos' = LineEnd + 1 /\ pc' = "loop"
        /\ pc = "loop"
    BY <1>1 DEF NextLine, loopVars, AtText
  <2>2. pos' \in Nat /\ pos' <= Len(bytes) + 1 /\ mark <= pos'
    BY <1>1, <2>1, LineEndIs
  <2> QED BY <1>1, <2>1, <2>2
<1>2. CASE AtText /\ Abort
  <2>1. /\ asserts' = asserts /\ mIsOpen' = mIsOpen /\ mException' = mException /\ m_buf' = m_buf
        /\ bytes' = bytes /\ shared' = shared /\ mark' = mark /\ pos' = pos /\ pc' = "aborted"
        /\ mParseState' = mParseState
    BY <1>2 DEF Abort, loopVars
  <2> QED BY <2>1
<1>3. CASE AtText /\ Reset
  <2>1. /\ asserts' = asserts /\ mIsOpen' = mIsOpen /\ mException' = FALSE /\ m_buf' = <<>>
        /\ bytes' = bytes /\ shared' = shared /\ mark' = mark /\ pos' = LineEnd + 1
        /\ pc' \in {"loop", "undefined"} /\ mParseState' = "NONE"
    BY <1>3 DEF Reset, loopVars
  <2>2. pos' \in Nat /\ pos' <= Len(bytes) + 1 /\ mark <= pos'
    BY <1>3, <2>1, LineEndIs
  <2>3. m_buf' \in Seq(Byte)
    BY <2>1
  <2> QED BY <2>1, <2>2, <2>3 DEF States
<1>4. CASE EmptyLine
  <2>1. /\ Finish(pos + 1) /\ asserts' = asserts /\ mIsOpen' = mIsOpen /\ mException' = mException
        /\ mParseState' = "NONE"
    BY <1>4 DEF EmptyLine
  <2>2. pos + 1 \in Nat /\ mException' \in BOOLEAN /\ mParseState' \in States
    BY <2>1 DEF States
  <2> QED BY <2>1, <2>2, FinishTypes
<1>5. CASE BadDeclaration
  <2>1. /\ asserts' = asserts /\ mIsOpen' = mIsOpen /\ mException' = TRUE /\ m_buf' = m_buf
        /\ pc' = "idle" /\ bytes' = <<>> /\ shared' = FALSE /\ pos' = 0 /\ mark' = 0
        /\ mParseState' = mParseState
    BY <1>5 DEF BadDeclaration
  <2>2. bytes' \in Seq(Byte) /\ pos' <= Len(bytes') + 1 /\ mark' <= pos' /\ pos' \in Nat
    BY <2>1
  <2> QED BY <2>1, <2>2
<1>6. CASE EnterData
  <2>1. /\ asserts' = asserts /\ mIsOpen' = mIsOpen /\ mException' = mException /\ m_buf' = m_buf
        /\ bytes' = bytes /\ shared' = shared /\ mark' = pos /\ pos' = pos /\ pc' = "data"
        /\ mParseState' = mParseState /\ pos < Len(bytes) /\ pc = "loop"
    BY <1>6 DEF EnterData
  <2>2. Len(bytes) \in Nat
    BY LenProperties
  <2> QED BY <2>1, <2>2
<1>7. CASE WriteEnd
  <2>1. /\ Finish(pos) /\ asserts' = asserts /\ mIsOpen' = mIsOpen /\ mException' = mException
        /\ mParseState' = mParseState
    BY <1>7 DEF WriteEnd
  <2>2. pos \in Nat /\ mException' \in BOOLEAN /\ mParseState' \in States
    BY <2>1
  <2> QED BY <2>1, <2>2, FinishTypes
<1> QED BY <1>1, <1>2, <1>3, <1>4, <1>5, <1>6, <1>7, TextCases

\* The number in some bytes.
LEMMA NumberIs ==
    ASSUME NEW b \in Seq(Byte)
    PROVE  FromBigEndian(b) \in Nat
<1>1. b \in Seq(Nat)
  <2>1. Byte \subseteq Nat
    BY DEF Byte
  <2> QED BY <2>1, SeqMonotonic
<1>2. PICK f \in [0 .. Len(b) -> Nat] : FromBigEndian(b) = f[Len(b)]
  BY <1>1, FromBigEndianIs
<1>3. Len(b) \in 0 .. Len(b)
  BY LenProperties
<1> QED BY <1>2, <1>3

LEMMA DataTypes ==
    ASSUME StreamTypes, DataLoop
    PROVE  StreamTypes'
<1> USE DEF StreamTypes
<1>1. Len(bytes) \in Nat
  BY LenProperties
<1>2. CASE Message
  <2>1. /\ asserts' = asserts /\ mIsOpen' = mIsOpen /\ mException' = mException /\ m_buf' = m_buf
        /\ bytes' = bytes /\ shared' = shared /\ mark' = mark /\ pos' = pos + HeaderLen + MsgLen
        /\ pc' = "data" /\ mParseState' = mParseState /\ pc = "data"
        /\ pos + HeaderLen + MsgLen <= Len(bytes) /\ MsgLen > 0 /\ pos < Len(bytes)
        /\ pos + HeaderLen <= Len(bytes)
    BY <1>2 DEF Message, loopVars, AtData, Complete, HasHeader
  <2>2. MsgHeader \in 0 .. 255
    <3>1. pos + 1 \in 1 .. Len(bytes)
      BY <1>1, <2>1
    <3> QED BY <3>1, ElementOfSeq DEF MsgHeader, Byte
  <2>3. LValType \in 0 .. 7
    BY <2>2 DEF LValType
  <2>4. HeaderLen \in 1 .. 5
    BY <2>3 DEF HeaderLen, LengthBytes
  <2>5. MsgLen \in Int
    <3>1. CASE LValType = APX_LEN_INHERIT
      BY <1>1, <3>1 DEF MsgLen, APX_LEN_INHERIT, APX_LEN_BYTE, APX_LEN_SHORT, APX_LEN_LONG
    <3>2. CASE LValType # APX_LEN_INHERIT /\ LValType \in {APX_LEN_BYTE, APX_LEN_SHORT, APX_LEN_LONG}
      <4> DEFINE b == SubSeq(bytes, pos + 2, pos + HeaderLen)
      <4>1. b \in Seq(Byte)
        <5> DEFINE i == pos + 2
                   j == pos + HeaderLen
        <5>1. i \in Int /\ j \in Int /\ \A n \in i .. j : n \in 1 .. Len(bytes)
          BY <1>1, <2>1, <2>4
        <5>2. \A n \in i .. j : bytes[n] \in Byte
          BY <5>1, ElementOfSeq
        <5> HIDE DEF i, j
        <5>3. SubSeq(bytes, i, j) \in Seq(Byte)
          BY <5>1, <5>2, SubSeqProperties
        <5> QED BY <5>3 DEF i, j
      <4> HIDE DEF b
      <4>2. FromBigEndian(b) \in Nat
        BY <4>1, NumberIs
      <4>3. MsgLen = FromBigEndian(b)
        BY <3>2 DEF MsgLen, b
      <4> QED BY <4>2, <4>3
    <3>3. CASE LValType # APX_LEN_INHERIT /\ LValType \notin {APX_LEN_BYTE, APX_LEN_SHORT, APX_LEN_LONG}
      <4>1. MsgLen = LValType
        BY <3>3 DEF MsgLen
      <4> QED BY <2>3, <4>1
    <3> QED BY <3>1, <3>2, <3>3
  <2>6. pos' \in Nat /\ pos' <= Len(bytes) /\ pos <= pos'
    BY <1>1, <2>1, <2>4, <2>5
  <2> QED BY <1>1, <2>1, <2>6
<1>3. CASE Incomplete
  <2>1. /\ Finish(mark) /\ asserts' = asserts /\ mIsOpen' = mIsOpen /\ mException' = mException
        /\ mParseState' = mParseState
    BY <1>3 DEF Incomplete
  <2>2. mark \in Nat /\ mException' \in BOOLEAN /\ mParseState' \in States
    BY <2>1
  <2> QED BY <2>1, <2>2, FinishTypes
<1>4. CASE LeaveData
  <2>1. /\ asserts' = asserts /\ mIsOpen' = mIsOpen /\ mException' = mException /\ m_buf' = m_buf
        /\ bytes' = bytes /\ shared' = shared /\ mark' = mark /\ pos' = pos /\ pc' = "loop"
        /\ mParseState' = mParseState /\ pc = "data"
    BY <1>4 DEF LeaveData, loopVars
  <2> QED BY <2>1
<1> QED BY <1>2, <1>3, <1>4 DEF DataLoop

LEMMA WriteTypes ==
    ASSUME StreamTypes, NEW chunk \in Seq(Byte), Write(chunk)
    PROVE  StreamTypes'
<1> USE DEF StreamTypes
<1>1. /\ asserts' = asserts /\ mIsOpen' = mIsOpen /\ mException' = mException
      /\ m_buf' = m_buf \o chunk /\ bytes' = m_buf' /\ shared' = (m_buf = <<>>) /\ mark' = 0
      /\ pos' = 0 /\ pc' = "loop" /\ mParseState' = mParseState
  BY DEF Write
<1>2. m_buf' \in Seq(Byte) /\ Len(bytes') \in Nat
  BY <1>1, ConcatProperties, LenProperties
<1> QED BY <1>1, <1>2

-----------------------------------------------------------------------------
(* Text messages. *)

\* The characters of a line.
Letter == Character \ {NL}

\* The line that a text message is composed to, without its end; some are to nothing.
LineOf(msg) ==
    CASE msg.op = "start" -> <<APX, 49, Dot, 50>>
      [] msg.op = "nodeNameRqst" -> <<63, 78, 42>>
      [] msg.op = "nodeNameRsp" -> <<43, 78, Quote>> \o msg.name \o <<Quote>>
      [] msg.op = "nodeQueryRqst" -> <<63, 78, Quote>> \o msg.name \o <<Quote>>
      [] msg.op = "nodeQueryRspStart" ->
           <<78, Quote>> \o msg.name \o <<Quote>> \o NodeDim(1, 0, 2)
      [] msg.op \in {"typedef", "provide", "require"} ->
           <<LineType[msg.op], Quote>> \o msg.name \o <<Quote>> \o msg.dsg
             \o (IF msg.attr = <<>> THEN <<>> ELSE <<Colon>> \o msg.attr)
      [] OTHER -> <<>>

Silent(msg) == msg.op = "nodeNameRsp" /\ msg.name = <<>>

IsTextPart(msg) ==
    \/ msg.op \in {"start", "end", "nodeNameRqst"}
    \/ msg.op = "nodeNameRsp" /\ IsText(msg.name, {})
    \/ msg.op = "nodeQueryRqst" /\ IsName(msg.name)
    \/ IsDeclarationMsg(msg)

\* The texts in messages have the characters of a line.
LEMMA TextIs ==
    ASSUME NEW s, NEW cs, IsText(s, cs)
    PROVE  s \in Seq(Letter) /\ \A i \in DOMAIN s : s[i] \notin cs
<1>1. s \in Seq(Character) /\ \A i \in DOMAIN s : s[i] \notin cs \cup {NL}
  BY DEF IsText
<1>2. \A i \in 1 .. Len(s) : s[i] \in Letter
  <2>1. DOMAIN s = 1 .. Len(s)
    BY <1>1, LenProperties
  <2>2. \A i \in 1 .. Len(s) : s[i] \in Character
    BY <1>1, ElementOfSeq
  <2> QED BY <1>1, <2>1, <2>2 DEF Letter
<1>3. s \in Seq(Letter)
  BY <1>1, <1>2, SameElements
<1> QED BY <1>1, <1>3

\* Three texts, the last of which has the end of the line.
LEMMA EndsInNL ==
    ASSUME NEW a \in Seq(Letter), NEW b \in Seq(Letter), NEW c \in Seq(Letter),
           NEW d \in Seq(Byte)
    PROVE  /\ a \o b \o (c \o d) = (a \o b \o c) \o d
           /\ a \o b \o c \in Seq(Letter)
<1>1. Letter \subseteq Byte
  BY DEF Letter, Character, Byte
<1>2. a \in Seq(Byte) /\ b \in Seq(Byte) /\ c \in Seq(Byte)
  BY <1>1, SeqMonotonic
<1>3. a \o b \in Seq(Byte) /\ a \o b \in Seq(Letter)
  BY <1>2, ConcatProperties
<1>4. (a \o b) \o (c \o d) = ((a \o b) \o c) \o d
  <2> DEFINE ab == a \o b
  <2>1. ab \in Seq(Byte)
    BY <1>3
  <2> HIDE DEF ab
  <2>2. ab \in Seq(Byte) /\ c \in Seq(Byte) /\ d \in Seq(Byte)
    BY <1>2, <2>1
  <2>3. (ab \o c) \o d = ab \o (c \o d)
    BY <2>2, ConcatAssociative, SMTT(30)
  <2> QED BY <2>3 DEF ab
<1>5. (a \o b) \o c \in Seq(Letter)
  BY <1>3, ConcatProperties
<1> QED BY <1>4, <1>5

\* The parts of lines that are the same in every message of a kind.
LEMMA FixedParts ==
    /\ <<APX, 49, Dot, 50>> \in Seq(Letter) /\ <<63, 78, 42>> \in Seq(Letter)
    /\ <<43, 78, Quote>> \in Seq(Letter) /\ <<63, 78, Quote>> \in Seq(Letter)
    /\ <<Quote>> \in Seq(Letter) /\ <<Colon>> \in Seq(Letter) /\ NodeDim(1, 0, 2) \in Seq(Letter)
    /\ <<78, Quote>> \in Seq(Letter)
    /\ \A op \in {"typedef", "provide", "require"} : <<LineType[op], Quote>> \in Seq(Letter)
    /\ <<NL>> \in Seq(Byte) /\ <<Quote, NL>> = <<Quote>> \o <<NL>>
<1> DEFINE L == Letter
<1>1. /\ 63 \in L /\ 78 \in L /\ 42 \in L /\ 43 \in L /\ 34 \in L /\ 58 \in L /\ 65 \in L
      /\ 49 \in L /\ 46 \in L /\ 50 \in L /\ 84 \in L /\ 80 \in L /\ 82 \in L /\ 40 \in L
      /\ 44 \in L /\ 48 \in L /\ 41 \in L /\ 10 \in Byte
  BY DEF Letter, Character, NL, Byte
<1> HIDE DEF L
<1>2. /\ <<65, 49, 46, 50>> \in Seq(L) /\ <<63, 78, 42>> \in Seq(L) /\ <<43, 78, 34>> \in Seq(L)
      /\ <<63, 78, 34>> \in Seq(L) /\ <<34>> \in Seq(L) /\ <<58>> \in Seq(L)
      /\ <<40, 49, 44, 48, 44, 50, 41>> \in Seq(L) /\ <<78, 34>> \in Seq(L)
      /\ <<84, 34>> \in Seq(L) /\ <<80, 34>> \in Seq(L) /\ <<82, 34>> \in Seq(L)
      /\ <<10>> \in Seq(Byte)
  BY <1>1
<1>3. NodeDim(1, 0, 2) = <<40, 49, 44, 48, 44, 50, 41>>
  BY DEF NodeDim
<1>4. \A op \in {"typedef", "provide", "require"} : LineType[op] \in {84, 80, 82}
  BY DEF LineType
<1>5. <<34, 10>> = <<34>> \o <<10>>
  OBVIOUS
<1> QED BY <1>2, <1>3, <1>4, <1>5, ZenonT(30) DEF L, APX, Dot, Quote, Colon, NL

\* A text message is composed to a line and its end.
LEMMA TextCells ==
    ASSUME NEW msg, IsTextPart(msg)
    PROVE  /\ Silent(msg) => Compose(msg) = <<>>
           /\ ~ Silent(msg) => Compose(msg) = LineOf(msg) \o <<NL>> /\ LineOf(msg) \in Seq(Letter)
<1> USE DEF Compose, LineOf, Silent
<1>1. CASE msg.op = "start"
  <2>1. <<APX, 49, Dot, 50, NL>> = <<APX, 49, Dot, 50>> \o <<NL>>
    OBVIOUS
  <2> QED BY <1>1, <2>1, FixedParts DEF StartTextMsg
<1>2. CASE msg.op = "end"
  <2>1. <<>> \o <<NL>> = <<NL>> /\ <<>> \in Seq(Letter)
    OBVIOUS
  <2> QED BY <1>2, <2>1 DEF EndTextMsg
<1>3. CASE msg.op = "nodeNameRqst"
  <2>1. <<63, 78, 42, NL>> = <<63, 78, 42>> \o <<NL>>
    OBVIOUS
  <2> QED BY <1>3, <2>1, FixedParts, ZenonT(30) DEF NodeNameRqst
<1>4. CASE msg.op = "nodeNameRsp"
  <2>1. Compose(msg) = NodeNameRsp(msg.name)
    BY <1>4
  <2>2. CASE Silent(msg)
    BY <2>1, <2>2 DEF NodeNameRsp
  <2>3. CASE ~ Silent(msg)
    <3>1. msg.name # <<>> /\ IsText(msg.name, {})
      BY <1>4, <2>3 DEF IsTextPart, IsDeclarationMsg
    <3>2. msg.name \in Seq(Letter)
      BY <3>1, TextIs
    <3> DEFINE a == <<43, 78, Quote>>
               b == msg.name
               c == <<Quote>>
               d == <<NL>>
    <3>3. Compose(msg) = a \o b \o <<Quote, NL>> /\ LineOf(msg) = a \o b \o c
      BY <1>4, <2>1, <3>1 DEF NodeNameRsp
    <3>4. <<Quote, NL>> = c \o d /\ a \in Seq(Letter) /\ c \in Seq(Letter) /\ d \in Seq(Byte)
      BY FixedParts
    <3> HIDE DEF a, b, c, d
    <3>5. a \o b \o (c \o d) = (a \o b \o c) \o d /\ a \o b \o c \in Seq(Letter)
      BY <3>2, <3>4, EndsInNL, ZenonT(30) DEF b
    <3> QED BY <2>3, <3>3, <3>4, <3>5 DEF d
  <2> QED BY <2>2, <2>3
<1>5. CASE msg.op = "nodeQueryRqst"
  <2>1. Compose(msg) = NodeQueryRqst(msg.name) /\ ~ Silent(msg)
    BY <1>5
  <2>2. msg.name # <<>> /\ msg.name \in Seq(Letter)
    <3>1. IsName(msg.name)
      BY <1>5 DEF IsTextPart, IsDeclarationMsg
    <3> QED BY <3>1, TextIs DEF IsName
  <2> DEFINE a == <<63, 78, Quote>>
             b == msg.name
             c == <<Quote>>
             d == <<NL>>
  <2>3. Compose(msg) = a \o b \o <<Quote, NL>> /\ LineOf(msg) = a \o b \o c
    BY <1>5, <2>1, <2>2 DEF NodeQueryRqst
  <2>4. <<Quote, NL>> = c \o d /\ a \in Seq(Letter) /\ c \in Seq(Letter) /\ d \in Seq(Byte)
    BY FixedParts
  <2> HIDE DEF a, b, c, d
  <2>5. a \o b \o (c \o d) = (a \o b \o c) \o d /\ a \o b \o c \in Seq(Letter)
    BY <2>2, <2>4, EndsInNL, ZenonT(30) DEF b
  <2> QED BY <2>1, <2>3, <2>4, <2>5 DEF d
<1>6. CASE msg.op = "nodeQueryRspStart"
  <2>1. Compose(msg) = NodeQueryRspStart(msg.name, 1, 0, 2) /\ ~ Silent(msg)
    BY <1>6
  <2>2. msg.name # <<>> /\ msg.name \in Seq(Letter)
    <3>1. IsName(msg.name)
      BY <1>6 DEF IsTextPart, IsDeclarationMsg
    <3> QED BY <3>1, TextIs DEF IsName
  <2> DEFINE a == <<78, Quote>>
             b == msg.name
             c == <<Quote>>
             e == NodeDim(1, 0, 2)
  <2>3. e \in Seq(Letter) /\ e # <<>>
    BY FixedParts DEF NodeDim
  <2>4. LineOf(msg) = a \o b \o c \o e
    BY <1>6
  <2>5. Compose(msg) = a \o b \o c \o e \o <<>> \o <<NL>>
    BY <2>1, <2>2, <2>3 DEF NodeQueryRspStart, DeclarationLine
  <2>6. a \o b \o c \o e \in Seq(Letter)
    <3>1. a \in Seq(Letter) /\ c \in Seq(Letter)
      BY FixedParts
    <3> HIDE DEF a, b, c, e
    <3> QED BY <2>2, <2>3, <3>1, Together DEF b
  <2> HIDE DEF a, b, c, e
  <2>7. (a \o b \o c \o e) \o <<>> = a \o b \o c \o e
    <3> DEFINE l == a \o b \o c \o e
    <3>1. l \in Seq(Letter)
      BY <2>6
    <3> HIDE DEF l
    <3>2. l \o <<>> = l
      BY <3>1, ConcatEmptySeq
    <3> QED BY <3>2 DEF l
  <2> QED BY <2>1, <2>4, <2>5, <2>6, <2>7
<1>7. CASE msg.op \in {"typedef", "provide", "require"}
  <2>1. ~ Silent(msg) /\ Compose(msg) = DeclarationLine(LineType[msg.op], msg.name, msg.dsg, msg.attr)
    BY <1>7
  <2>2. IsName(msg.name) /\ IsText(msg.dsg, {Colon}) /\ msg.dsg # <<>> /\ IsText(msg.attr, {})
    BY <1>7 DEF IsTextPart, IsDeclarationMsg
  <2>3. msg.name \in Seq(Letter) /\ msg.name # <<>> /\ msg.dsg \in Seq(Letter) /\ msg.attr \in Seq(Letter)
    BY <2>2, TextIs DEF IsName
  <2> DEFINE a == <<LineType[msg.op], Quote>>
             b == msg.name
             c == <<Quote>>
             e == msg.dsg
             f == IF msg.attr = <<>> THEN <<>> ELSE <<Colon>> \o msg.attr
  <2>4. LineOf(msg) = a \o b \o c \o e \o f
    BY <1>7
  <2>5. Compose(msg) = a \o b \o c \o e \o f \o <<NL>>
    BY <2>1, <2>2, <2>3 DEF DeclarationLine
  <2>6. a \o b \o c \o e \o f \in Seq(Letter)
    <3>1. a \in Seq(Letter) /\ c \in Seq(Letter) /\ <<Colon>> \in Seq(Letter)
      BY <1>7, FixedParts
    <3>2. f \in Seq(Letter)
      <4>1. <<Colon>> \o msg.attr \in Seq(Letter) /\ <<>> \in Seq(Letter)
        BY <2>3, <3>1, ConcatProperties
      <4> QED BY <4>1
    <3>3. b \in Seq(Letter) /\ e \in Seq(Letter)
      BY <2>3
    <3> HIDE DEF a, b, c, e, f
    <3>4. a \o b \o c \o e \in Seq(Letter)
      BY <3>1, <3>3, Together
    <3> QED BY <3>2, <3>4, ConcatProperties
  <2> QED BY <2>1, <2>4, <2>5, <2>6, ZenonT(30)
<1> QED BY <1>1, <1>2, <1>3, <1>4, <1>5, <1>6, <1>7 DEF IsTextPart, IsDeclarationMsg

-----------------------------------------------------------------------------
(* Definition texts. *)

\* Bytes without the end of a line.
Inner == Byte \ {NL}

\* One list more or a longer last one.
Cut(ls, c) == IF c = NL THEN Append(ls, <<>>) ELSE [ls EXCEPT ![Len(ls)] = Append(@, c)]

LEMMA CutTypes ==
    ASSUME NEW ls \in Seq(Seq(Inner)) \ {<<>>}, NEW c \in Byte
    PROVE  Cut(ls, c) \in Seq(Seq(Inner)) \ {<<>>}
<1> DEFINE S == Seq(Inner)
           n == Len(ls)
<1>1. ls \in Seq(S) /\ n \in Nat /\ n # 0
  BY LenProperties, EmptySeq
<1>2. <<>> \in S
  OBVIOUS
<1>3. CASE c = NL
  <2> HIDE DEF S
  <2>1. Append(ls, <<>>) \in Seq(S) /\ Append(ls, <<>>) # <<>>
    BY <1>1, <1>2, AppendProperties
  <2> QED BY <1>3, <2>1 DEF Cut, S
<1>4. CASE c # NL
  <2>1. ls[n] \in S /\ c \in Inner
    BY <1>1, <1>4, ElementOfSeq DEF Inner
  <2>2. Append(ls[n], c) \in S
    BY <2>1, AppendProperties
  <2> DEFINE m == [ls EXCEPT ![n] = Append(@, c)]
  <2> HIDE DEF S
  <2>3. ls = [i \in 1 .. n |-> ls[i]] /\ \A i \in 1 .. n : ls[i] \in S
    BY <1>1, LenProperties, ElementOfSeq
  <2>4. DOMAIN ls = 1 .. n
    BY <1>1, LenProperties
  <2>5. m = [i \in 1 .. n |-> IF i = n THEN Append(ls[n], c) ELSE ls[i]]
    BY <2>4, ZenonT(30)
  <2>6. m \in [1 .. n -> S]
    BY <2>2, <2>3, <2>5
  <2> HIDE DEF m
  <2>7. m \in Seq(S) /\ Len(m) = n
    BY <1>1, <2>6, OfLength
  <2>8. m # <<>>
    BY <1>1, <2>7, EmptySeq
  <2> QED BY <1>4, <2>7, <2>8 DEF Cut, S, m, n
<1> QED BY <1>3, <1>4

\* Lines(text) splits it byte by byte.
SplitBy(g, text) == g[0] = <<<<>>>> /\ \A n \in 1 .. Len(text) : g[n] = Cut(g[n-1], text[n])

LEMMA LinesCut ==
    ASSUME NEW text \in Seq(Byte)
    PROVE  \E h : /\ SplitBy(h, text)
                 /\ Lines(text) = IF Last(h[Len(text)]) = <<>> THEN Front(h[Len(text)]) ELSE h[Len(text)]
<1> DEFINE m == Len(text)
           L == Seq(Seq(Inner)) \ {<<>>}
           first == <<<<>>>>
           st == [x \in L \X (1 .. m) |-> Cut(x[1], text[x[2]])]
           Is(f) == f = [n \in 0 .. m |-> IF n = 0 THEN <<<<>>>>
                                          ELSE LET ls == f[n-1] IN
                                               IF text[n] = NL THEN Append(ls, <<>>)
                                               ELSE [ls EXCEPT ![Len(ls)] = Append(@, text[n])]]
<1>1. m \in Nat /\ \A n \in 1 .. m : text[n] \in Byte
  BY LenProperties, ElementOfSeq
<1>2. st \in Steps(L, m)
  <2>1. \A x \in L \X (1 .. m) : Cut(x[1], text[x[2]]) \in L
    <3> SUFFICES ASSUME NEW x \in L \X (1 .. m) PROVE Cut(x[1], text[x[2]]) \in L
      OBVIOUS
    <3>1. x[1] \in L /\ text[x[2]] \in Byte
      BY <1>1
    <3> QED BY <3>1, CutTypes
  <2> HIDE DEF L, m
  <2> QED BY <2>1 DEF Steps
<1>3. first \in L
  <2>1. <<>> \in Seq(Inner)
    OBVIOUS
  <2>2. <<<<>>>> \in Seq(Seq(Inner))
    <3> DEFINE S == Seq(Inner)
    <3>1. <<>> \in S
      BY <2>1
    <3> HIDE DEF S
    <3>2. <<<<>>>> \in Seq(S)
      BY <3>1
    <3> QED BY <3>2 DEF S
  <2>3. Len(<<<<>>>>) = 1
    OBVIOUS
  <2>4. <<<<>>>> # <<>>
    BY <2>3
  <2> QED BY <2>2, <2>4
<1> HIDE DEF m, L, first
<1>4. PICK f : f \in [0 .. m -> L] /\ Iterates(f, first, m, st)
  <2> HIDE DEF st
  <2> QED BY <1>1, <1>2, <1>3, Iteration
<1>5. f[0] = first /\ \A n \in 1 .. m : f[n] = Cut(f[n-1], text[n])
  <2>1. f[0] = first
    <3>1. 0 \in 0 .. m
      BY <1>1
    <3> HIDE DEF st
    <3> QED BY <1>4, <3>1 DEF Iterates
  <2>2. ASSUME NEW n \in 1 .. m PROVE f[n] = Cut(f[n-1], text[n])
    <3>1. n \in 0 .. m /\ n # 0 /\ n - 1 \in 0 .. m
      BY <1>1
    <3>2. f[n-1] \in L /\ f[n] = st[<<f[n-1], n>>]
      BY <1>4, <3>1 DEF Iterates
    <3>3. <<f[n-1], n>> \in L \X (1 .. m)
      BY <3>2
    <3> QED BY <3>2, <3>3
  <2> QED BY <2>1, <2>2
<1> HIDE DEF st
<1>6. Is(f)
  <2>1. ASSUME NEW n \in 0 .. m
        PROVE  f[n] = IF n = 0 THEN <<<<>>>>
                      ELSE LET ls == f[n-1] IN
                           IF text[n] = NL THEN Append(ls, <<>>)
                           ELSE [ls EXCEPT ![Len(ls)] = Append(@, text[n])]
    <3>1. n = 0 \/ (n # 0 /\ n \in 1 .. m)
      BY <1>1
    <3> QED BY <1>5, <3>1 DEF Cut, first
  <2> QED BY <1>4, <2>1
<1> DEFINE g == CHOOSE g : Is(g)
           all == g[m]
<1>7. Is(g)
  BY <1>6
<1>8. Lines(text) = IF Last(all) = <<>> THEN Front(all) ELSE all
  BY DEF Lines, m
<1> HIDE DEF g
<1>9. g[0] = first /\ \A n \in 1 .. m : g[n] = Cut(g[n-1], text[n])
  <2>1. \A n \in 0 .. m : g[n] = IF n = 0 THEN first ELSE Cut(g[n-1], text[n])
    BY <1>7 DEF Cut, first
  <2>2. 0 \in 0 .. m /\ \A n \in 1 .. m : n \in 0 .. m /\ n # 0
    BY <1>1
  <2> QED BY <2>1, <2>2
<1>10. SplitBy(g, text)
  BY <1>9 DEF SplitBy, m, first
<1> QED BY <1>8, <1>10 DEF m

\* The lines that are read from a file are bytes without the ends of lines.
LEMMA LinesAre ==
    ASSUME NEW text \in Seq(Byte)
    PROVE  Lines(text) \in Seq(Seq(Inner))
<1> DEFINE m == Len(text)
           L == Seq(Seq(Inner)) \ {<<>>}
           S == Seq(Inner)
<1>1. m \in Nat /\ \A n \in 1 .. m : text[n] \in Byte
  BY LenProperties, ElementOfSeq
<1>2. PICK g : /\ SplitBy(g, text)
               /\ Lines(text) = IF Last(g[m]) = <<>> THEN Front(g[m]) ELSE g[m]
  BY LinesCut
<1> DEFINE all == g[m]
<1>3. g[0] \in L
  <2>1. <<>> \in S
    OBVIOUS
  <2> HIDE DEF S
  <2>2. <<<<>>>> \in Seq(S) /\ Len(<<<<>>>>) = 1
    BY <2>1
  <2> QED BY <1>2, <2>2 DEF SplitBy, S
<1>4. \A n \in 1 .. m : g[n-1] \in L => g[n] \in L
  BY <1>1, <1>2, CutTypes DEF SplitBy
<1> HIDE DEF m, L
<1>5. all \in L
  <2>1. m \in 0 .. m
    BY <1>1
  <2> QED BY <1>1, <1>3, <1>4, <2>1, Kept
<1>6. all \in Seq(S) /\ all # <<>>
  BY <1>5 DEF L
<1> HIDE DEF all, S
<1>7. Front(all) \in Seq(S)
  <2> DEFINE k == Len(all) - 1
  <2>1. k \in Int /\ \A i \in 1 .. k : all[i] \in S
    BY <1>6, LenProperties, ElementOfSeq
  <2> HIDE DEF k
  <2>2. 1 \in Int
    OBVIOUS
  <2>3. SubSeq(all, 1, k) \in Seq(S)
    BY <2>1, <2>2, SubSeqProperties
  <2> QED BY <2>3 DEF Front, k
<1> QED BY <1>2, <1>6, <1>7 DEF S, all

LEMMA DefinitionIs ==
    ASSUME NEW d \in Definitions
    PROVE  DefinitionText(d) \in Seq(Byte)
<1> DEFINE n == Len(d.lines)
           parts == [i \in DOMAIN d.lines |-> d.lines[i].text \o <<NL>>]
<1>1. n \in Nat /\ DOMAIN d.lines = 1 .. n /\ d.version \in Seq(Byte)
      /\ \A i \in 1 .. n : d.lines[i].text \in Seq(Byte)
  <2>1. /\ d.version \in Seq(0 .. 255) /\ d.lines \in Seq({d.lines[i] : i \in DOMAIN d.lines})
        /\ \A i \in DOMAIN d.lines : d.lines[i].text \in Seq(0 .. 255)
    BY Texts, ZenonT(30)
  <2> DEFINE L == {d.lines[i] : i \in DOMAIN d.lines}
  <2>2. d.lines \in Seq(L)
    BY <2>1
  <2> HIDE DEF L
  <2>3. n \in Nat /\ DOMAIN d.lines = 1 .. n
    BY <2>2, LenProperties
  <2>4. 0 .. 255 = Byte
    BY DEF Byte
  <2> QED BY <2>1, <2>3, <2>4, Zenon
<1>2. <<NL>> \in Seq(Byte) /\ <<APX>> \in Seq(Byte)
  <2>1. 10 \in Byte /\ 65 \in Byte
    BY DEF Byte
  <2> QED BY <2>1 DEF NL, APX
<1>3. \A i \in 1 .. n : d.lines[i].text \o <<NL>> \in Seq(Byte)
  BY <1>1, <1>2, ConcatProperties
<1> HIDE DEF n
<1>4. parts \in [1 .. n -> Seq(Byte)]
  BY <1>1, <1>3
<1> HIDE DEF parts
<1>5. parts \in Seq(Seq(Byte)) /\ Len(parts) = n
  BY <1>1, <1>4, OfLength
<1>6. FlattenSeq(parts) \in Seq(Byte)
  <2>1. Len(parts) \in 0 .. Len(parts)
    BY <1>1, <1>5
  <2>2. FirstJoined(parts, Len(parts)) \in Seq(Byte) /\ FirstJoined(parts, Len(parts)) = FlattenSeq(parts)
    BY <1>5, <2>1, JoinedIs
  <2> QED BY <2>2
<1>7. <<APX>> \o d.version \o <<NL>> \o FlattenSeq(parts) \in Seq(Byte)
  BY <1>1, <1>2, <1>6, Together
<1> QED BY <1>7 DEF DefinitionText, parts

LEMMA TextBytes ==
    ASSUME definition \in Definitions, cut \in 1 .. Len(DefinitionText(definition))
    PROVE  Text \in Seq(Byte)
<1> DEFINE t == DefinitionText(definition)
<1>1. t \in Seq(Byte)
  BY DefinitionIs
<1> HIDE DEF t
<1>2. 1 \in Int /\ cut \in Int /\ \A i \in 1 .. cut : t[i] \in Byte
  <2>1. Len(t) \in Nat /\ cut \in 1 .. Len(t)
    BY <1>1, LenProperties DEF t
  <2> QED BY <1>1, <2>1, ElementOfSeq
<1>3. SubSeq(t, 1, cut) \in Seq(Byte)
  BY <1>2, SubSeqProperties
<1> QED BY <1>3 DEF Text, t

-----------------------------------------------------------------------------
(* The messages that are sent. *)

LEMMA PartsOfText ==
    ASSUME NEW msgs, IsList(msgs), IsTextMessage(msgs)
    PROVE  \A i \in DOMAIN msgs : IsTextPart(msgs[i])
<1>1. Len(msgs) \in Nat /\ DOMAIN msgs = 1 .. Len(msgs)
  BY ListIs
<1>2. Len(msgs) >= 2 /\ msgs[1].op = "start" /\ msgs[Len(msgs)].op = "end"
  BY DEF IsTextMessage
<1>3. ASSUME NEW i \in 2 .. Len(msgs) - 1 PROVE IsTextPart(msgs[i])
  <2>1. \/ Len(msgs) = 3 /\ msgs[2].op = "nodeNameRqst"
        \/ msgs[i].op = "nodeNameRsp" /\ IsText(msgs[i].name, {})
        \/ msgs[i].op = "nodeQueryRqst" /\ IsName(msgs[i].name)
        \/ IsDeclarationMsg(msgs[i])
    BY DEF IsTextMessage
  <2>2. Len(msgs) = 3 => i = 2
    BY <1>1
  <2> QED BY <2>1, <2>2 DEF IsTextPart
<1>4. ASSUME NEW i \in DOMAIN msgs PROVE IsTextPart(msgs[i])
  <2>1. i = 1 \/ i = Len(msgs) \/ i \in 2 .. Len(msgs) - 1
    BY <1>1
  <2> QED BY <1>2, <1>3, <2>1 DEF IsTextPart
<1> QED BY <1>4

LEMMA TextCellsAreBytes ==
    ASSUME NEW msg, IsTextPart(msg)
    PROVE  Compose(msg) \in Seq(Byte)
<1>1. CASE Silent(msg)
  <2>1. Compose(msg) = <<>>
    BY <1>1, TextCells
  <2> QED BY <2>1
<1>2. CASE ~ Silent(msg)
  <2>1. Compose(msg) = LineOf(msg) \o <<NL>> /\ LineOf(msg) \in Seq(Letter)
    BY <1>2, TextCells
  <2>2. Letter \subseteq Byte
    BY DEF Letter, Character, Byte
  <2>3. LineOf(msg) \in Seq(Byte) /\ <<NL>> \in Seq(Byte)
    BY <2>1, <2>2, SeqMonotonic, FixedParts
  <2>4. LineOf(msg) \o <<NL>> \in Seq(Byte)
    BY <2>3, ConcatProperties
  <2> QED BY <2>1, <2>4
<1> QED BY <1>1, <1>2

LEMMA TransmissionIs ==
    ASSUME NEW msgs \in Transmissions
    PROVE  /\ IsList(msgs) /\ \A n \in DOMAIN msgs : Compose(msgs[n]) \in Seq(Byte)
           /\ ComposeAll(msgs) \in Seq(Byte)
<1>1. IsList(msgs) /\ (IsTextMessage(msgs) \/ IsDataMessages(msgs))
  BY Messages DEF IsList
<1>2. \A n \in DOMAIN msgs : Compose(msgs[n]) \in Seq(Byte)
  BY <1>1, PartsOfText, TextCellsAreBytes, DataCells DEF IsDataMessages
<1> QED BY <1>1, <1>2, ComposedTogether

-----------------------------------------------------------------------------
(* Users. *)

UserTypes ==
    /\ user \in {"bytearray", "file", "missing", "link", "pieces"}
    /\ user \in {"bytearray", "file", "missing"} =>
         definition \in Definitions /\ cut \in 1 .. Len(DefinitionText(definition))
    /\ step \in {"begin", "write", "closed", "returned"}
    /\ chunks \in Seq(Seq(Byte))
    /\ result = {} \/ (step = "returned" /\ \E node : result = {node})

LEMMA ChunksFollow ==
    ASSUME chunks \in Seq(Seq(Byte)), chunks # <<>>
    PROVE  Head(chunks) \in Seq(Byte) /\ Tail(chunks) \in Seq(Seq(Byte))
<1> DEFINE S == Seq(Byte)
<1>1. chunks \in Seq(S)
  OBVIOUS
<1> HIDE DEF S
<1>2. Head(chunks) \in S /\ Tail(chunks) \in Seq(S)
  BY <1>1, HeadTailProperties
<1> QED BY <1>2 DEF S

LEMMA InitTypes ==
    ASSUME Init
    PROVE  StreamTypes /\ UserTypes
<1>1. StreamTypes
  <2>1. /\ asserts \in BOOLEAN /\ mIsOpen = FALSE /\ mParseState = "NONE" /\ mException = FALSE
        /\ m_buf = <<>> /\ pc = "idle" /\ bytes = <<>> /\ shared = FALSE /\ pos = 0 /\ mark = 0
    BY DEF Init, IStreamInit
  <2>2. m_buf \in Seq(Byte) /\ bytes \in Seq(Byte) /\ Len(bytes) \in Nat
    BY <2>1
  <2>3. pos \in Nat /\ pos <= Len(bytes) + 1 /\ mark \in Nat /\ mark <= pos
    BY <2>1, <2>2
  <2>4. asserts \in BOOLEAN /\ mIsOpen \in BOOLEAN /\ mException \in BOOLEAN /\ shared \in BOOLEAN
    BY <2>1
  <2>5. /\ mParseState \in States
        /\ pc \in {"idle", "loop", "data", "aborted", "undefined"} /\ pc \notin {"loop", "data"}
        /\ pc # "data"
    BY <2>1 DEF States
  <2> QED BY <2>2, <2>3, <2>4, <2>5 DEF StreamTypes
<1>2. UserTypes
  <2>1. chunks \in Seq(Seq(Byte)) /\ step = "begin" /\ result = {}
    BY DEF Init
  <2>2. user \in {"bytearray", "file", "missing", "link", "pieces"}
        /\ (user \in {"bytearray", "file", "missing"} =>
              definition \in Definitions /\ cut \in 1 .. Len(DefinitionText(definition)))
    BY DEF Init, ParserInit, LinkInit
  <2> QED BY <2>1, <2>2 DEF UserTypes
<1> QED BY <1>1, <1>2

LEMMA StepTypes ==
    ASSUME StreamTypes, UserTypes, PiecesInv, Next
    PROVE  StreamTypes' /\ UserTypes'
<1>1. CASE OpenStream
  <2>1. /\ Open /\ step' = "write" /\ user' = user /\ definition' = definition /\ cut' = cut
        /\ result' = result /\ step = "begin" /\ user # "missing"
        /\ chunks' = CASE user = "bytearray" -> <<Text>> [] user = "file" -> Lines(Text)
                       [] OTHER -> <<>>
    BY <1>1 DEF OpenStream
  <2>2. StreamTypes'
    BY <2>1 DEF Open, StreamTypes, loopVars
  <2>3. user \in {"bytearray", "file"} => Text \in Seq(Byte)
    BY TextBytes DEF UserTypes
  <2>4. chunks' \in Seq(Seq(Byte))
    <3>1. CASE user = "bytearray"
      <4> DEFINE S == Seq(Byte)
      <4>1. Text \in S /\ chunks' = <<Text>>
        BY <2>1, <2>3, <3>1
      <4> HIDE DEF S
      <4>2. <<Text>> \in Seq(S)
        BY <4>1
      <4> QED BY <4>1, <4>2 DEF S
    <3>2. CASE user = "file"
      <4> DEFINE S == Seq(Byte)
                 R == Seq(Inner)
      <4>1. Lines(Text) \in Seq(R)
        BY <2>3, <3>2, LinesAre
      <4>2. R \subseteq S
        <5>1. Inner \subseteq Byte
          BY DEF Inner
        <5> QED BY <5>1, SeqMonotonic
      <4>3. chunks' = Lines(Text)
        BY <2>1, <3>2
      <4> HIDE DEF S, R
      <4>4. Lines(Text) \in Seq(S)
        BY <4>1, <4>2, SeqMonotonic
      <4> QED BY <4>3, <4>4 DEF S
    <3>3. CASE user \notin {"bytearray", "file"}
      <4>1. chunks' = <<>>
        BY <2>1, <3>3
      <4> QED BY <4>1
    <3> QED BY <3>1, <3>2, <3>3
  <2>5. UserTypes'
    BY <2>1, <2>4 DEF UserTypes
  <2> QED BY <2>2, <2>5
<1>2. CASE FileMissing
  <2>1. StreamTypes'
    BY <1>2 DEF FileMissing, istreamVars, parserVars, StreamTypes
  <2>2. UserTypes'
    BY <1>2 DEF FileMissing, linkVars, UserTypes
  <2> QED BY <2>1, <2>2
<1>3. CASE WriteChunk
  <2>1. chunks # <<>> /\ Write(Head(chunks)) /\ chunks' = Tail(chunks) /\ UNCHANGED parseVars
        /\ step = "write"
    BY <1>3 DEF WriteChunk
  <2>2. Head(chunks) \in Seq(Byte) /\ Tail(chunks) \in Seq(Seq(Byte))
    BY <2>1, ChunksFollow DEF UserTypes
  <2>3. StreamTypes'
    BY <2>1, <2>2, WriteTypes
  <2>4. UserTypes'
    BY <2>1, <2>2 DEF UserTypes, parseVars
  <2> QED BY <2>3, <2>4
<1>4. CASE CloseStream
  <2>1. StreamTypes'
    BY <1>4 DEF CloseStream, Close, loopVars, StreamTypes
  <2>2. UserTypes'
    BY <1>4 DEF CloseStream, linkVars, UserTypes
  <2> QED BY <2>1, <2>2
<1>5. CASE Return
  <2>1. StreamTypes'
    BY <1>5 DEF Return, istreamVars, parserVars, StreamTypes
  <2>2. result' = {} \/ \E node : result' = {node}
    BY <1>5 DEF Return, ByteArrayResult, FileResult
  <2>3. UserTypes'
    BY <1>5, <2>2 DEF Return, linkVars, UserTypes
  <2> QED BY <2>1, <2>3
<1>6. ASSUME NEW msgs \in Transmissions, Transmit(msgs) PROVE StreamTypes' /\ UserTypes'
  <2>1. StreamTypes'
    BY <1>6 DEF Transmit, istreamVars, parserVars, StreamTypes
  <2>2. chunks' = Append(chunks, ComposeAll(msgs)) /\ UNCHANGED parseVars /\ step = "write"
    BY <1>6 DEF Transmit
  <2>3. chunks' \in Seq(Seq(Byte))
    <3> DEFINE S == Seq(Byte)
               c == ComposeAll(msgs)
    <3>1. c \in S /\ chunks \in Seq(S)
      BY TransmissionIs DEF UserTypes
    <3> HIDE DEF S, c
    <3>2. Append(chunks, c) \in Seq(S)
      BY <3>1, AppendProperties
    <3> QED BY <2>2, <3>2 DEF S, c
  <2>4. UserTypes'
    BY <2>2, <2>3 DEF UserTypes, parseVars
  <2> QED BY <2>1, <2>4
<1>7. CASE Piece
  <2>1. UNCHANGED <<parseVars, chunks>>
    BY <1>7 DEF Piece
  <2>2. PICK n \in received + 1 .. Len(SentCells) : Write(SubSeq(SentCells, received + 1, n))
    BY <1>7 DEF Piece
  <2> DEFINE first == received + 1
             T == SentCells
  <2>3. T \in Seq(Byte) /\ received \in Nat
    BY <1>7, PlansArePlans, PlanIs DEF Piece, PiecesInv, PieceState, SentCells
  <2> HIDE DEF T
  <2>4. first \in Int /\ n \in Int /\ \A i \in first .. n : i \in 1 .. Len(T)
    <3>1. n \in received + 1 .. Len(T)
      BY <2>2 DEF T
    <3>2. Len(T) \in Nat
      BY <2>3, LenProperties
    <3> QED BY <2>3, <3>1, <3>2
  <2>5. SubSeq(T, first, n) \in Seq(Byte)
    <3>1. \A i \in first .. n : T[i] \in Byte
      BY <2>3, <2>4, ElementOfSeq
    <3> HIDE DEF first
    <3> QED BY <2>4, <3>1, SubSeqProperties
  <2>6. StreamTypes'
    BY <2>2, <2>5, WriteTypes DEF T
  <2>7. UserTypes'
    BY <2>1 DEF UserTypes, parseVars
  <2> QED BY <2>6, <2>7
<1>8. CASE TextLoop /\ UNCHANGED <<parseVars, linkVars>>
  <2>1. UserTypes'
    BY <1>8 DEF UserTypes, parseVars, linkVars
  <2> QED BY <1>8, <2>1, TextTypes
<1>9. CASE DataLoop /\ UNCHANGED <<parseVars, linkVars>>
  <2>1. UserTypes'
    BY <1>9 DEF UserTypes, parseVars, linkVars
  <2> QED BY <1>9, <2>1, DataTypes
<1> QED BY <1>1, <1>2, <1>3, <1>4, <1>5, <1>6, <1>7, <1>8, <1>9 DEF Next

TypesInv == StreamTypes /\ UserTypes /\ PiecesInv

LEMMA TypesHold == FairSpec => []TypesInv
<1>1. Init => TypesInv
  BY InitTypes, PiecesInit DEF TypesInv
<1>2. TypesInv /\ [Next]_vars => TypesInv'
  <2> SUFFICES ASSUME TypesInv, [Next]_vars PROVE TypesInv'
    OBVIOUS
  <2>1. PiecesInv'
    BY PiecesStep DEF TypesInv
  <2>2. CASE Next
    BY <2>1, <2>2, StepTypes DEF TypesInv
  <2>3. CASE UNCHANGED vars
    <3>1. StreamTypes'
      BY <2>3 DEF TypesInv, vars, istreamVars, parserVars, StreamTypes
    <3>2. UserTypes'
      BY <2>3 DEF TypesInv, vars, parseVars, linkVars, UserTypes
    <3> QED BY <2>1, <3>1, <3>2 DEF TypesInv
  <2> QED BY <2>2, <2>3
<1> QED BY <1>1, <1>2, PTL DEF FairSpec

LEMMA TypesSuffice ==
    ASSUME TypesInv
    PROVE  TypeOK
<1>1. IStreamTypeOK
  <2>1. /\ asserts \in BOOLEAN /\ mIsOpen \in BOOLEAN /\ mException \in BOOLEAN
        /\ mParseState \in {"NONE", "HEADER", "NODENAME_RQST", "NODENAME_RSP",
                            "NODEQUERY_RQST", "NODEQUERY_RSP"}
        /\ pc \in {"idle", "loop", "data", "aborted", "undefined"}
        /\ m_buf \in Seq(0 .. 255) /\ bytes \in Seq(0 .. 255) /\ shared \in BOOLEAN
    BY DEF TypesInv, StreamTypes, States, Byte
  <2>2. Len(bytes) \in Nat
    BY LenProperties DEF TypesInv, StreamTypes
  <2>3. /\ pos \in 0 .. Len(bytes) + 1 /\ mark \in 0 .. pos
        /\ m_buf \in {bytes, <<>>} \/ pc \notin {"loop", "data"}
        /\ pc = "data" => pos <= Len(bytes) /\ mark < Len(bytes)
    <3>1. /\ pos \in Nat /\ pos <= Len(bytes) + 1 /\ mark \in Nat /\ mark <= pos
          /\ pc \in {"loop", "data"} => m_buf \in {bytes, <<>>}
      BY DEF TypesInv, StreamTypes
    <3>2. pc = "data" => pos <= Len(bytes) /\ mark < Len(bytes)
      BY DEF TypesInv, StreamTypes
    <3> QED BY <2>2, <3>1, <3>2
  <2> QED BY <2>1, <2>3 DEF IStreamTypeOK
<1>2. Cardinality(result) <= (IF step = "returned" THEN 1 ELSE 0)
  <2>1. result = {} \/ (step = "returned" /\ \E node : result = {node})
    BY DEF TypesInv, UserTypes
  <2>2. Cardinality({}) = 0
    BY FS_EmptySet
  <2>3. CASE result = {}
    <3>1. Cardinality(result) = 0
      BY <2>2, <2>3
    <3> QED BY <3>1
  <2>4. ASSUME step = "returned", NEW node, result = {node}
        PROVE  Cardinality(result) <= (IF step = "returned" THEN 1 ELSE 0)
    <3>1. Cardinality({node}) = 1
      BY FS_Singleton
    <3>2. Cardinality(result) = 1
      BY <2>4, <3>1
    <3> QED BY <2>4, <3>2
  <2> QED BY <2>1, <2>3, <2>4
<1>3. user = "pieces" => received \in 0 .. Len(SentCells)
  <2> SUFFICES ASSUME user = "pieces" PROVE received \in 0 .. Len(SentCells)
    OBVIOUS
  <2>1. PICK plan \in Plans : sent = plan /\ PieceState(plan)
    BY DEF TypesInv, PiecesInv
  <2>2. received \in Nat /\ received <= Len(SentCells) /\ Len(SentCells) \in Nat
    BY <2>1, PlansArePlans, PlanIs DEF PieceState, SentCells
  <2> QED BY <2>2
<1>4. step \in {"begin", "write", "closed", "returned"}
  BY DEF TypesInv, UserTypes
<1> QED BY <1>1, <1>2, <1>3, <1>4 DEF TypeOK

\* The stream and its users keep their types, whatever arrives: no pointer of write() goes
\* further than the cell behind the bytes it reads, and only a parser that returned has a node.
THEOREM TypeCorrect == FairSpec => []TypeOK
<1>1. TypesInv => TypeOK
  BY TypesSuffice
<1> QED BY <1>1, TypesHold, PTL

-----------------------------------------------------------------------------
(* Lines and what is found in them. *)

\* A line that is there up to its end is the one that is read.
LEMMA LineIs ==
    ASSUME bytes \in Seq(Byte), pos \in Nat, NEW l \in Seq(Letter), StandsAt(bytes, pos, l \o <<NL>>),
           pc = "loop"
    PROVE  /\ AtText /\ Line = l /\ LineEnd = pos + Len(l)
           /\ pos < Len(bytes) /\ bytes[pos+1] < 128
<1> DEFINE c == l \o <<NL>>
           n == Len(l)
           e == <<NL>>
<1>1. l \in Seq(Byte) /\ e \in Seq(Byte) /\ Len(e) = 1 /\ e[1] = NL
  <2>1. Letter \subseteq Byte
    BY DEF Letter, Character, Byte
  <2> QED BY <2>1, SeqMonotonic, FixedParts
<1>2. /\ n \in Nat /\ Len(c) = n + 1 /\ (\A i \in 1 .. n : c[i] = l[i]) /\ c[n+1] = NL
      /\ \A i \in 1 .. n : l[i] \in Letter
  <2> HIDE DEF e
  <2>1. /\ Len(l \o e) = Len(l) + Len(e) /\ StandsAt(l \o e, 0, l) /\ StandsAt(l \o e, Len(l), e)
        /\ Len(l) \in Nat
    BY <1>1, Concats
  <2>2. c = l \o e
    BY DEF e
  <2> HIDE DEF c
  <2>3. \A i \in 1 .. n : c[i] = l[i]
    <3> TAKE i \in 1 .. n
    <3>1. 0 + i = i
      BY <2>1
    <3> QED BY <2>1, <2>2, <3>1 DEF StandsAt
  <2>4. c[n+1] = NL
    <3>1. 1 \in 1 .. Len(e)
      BY <1>1
    <3> QED BY <1>1, <2>1, <2>2, <3>1 DEF StandsAt
  <2>5. \A i \in 1 .. n : l[i] \in Letter
    BY ElementOfSeq
  <2> QED BY <1>1, <2>1, <2>2, <2>3, <2>4, <2>5
<1>3. pos + (n + 1) <= Len(bytes) /\ \A i \in 1 .. n + 1 : bytes[pos+i] = c[i]
  BY <1>2 DEF StandsAt
<1> HIDE DEF c, n
<1>4. Len(bytes) \in Nat /\ pos < Len(bytes)
  BY <1>2, <1>3, LenProperties
<1>5. bytes[pos+1] < 128
  <2>1. bytes[pos+1] = c[1]
    <3>1. 1 \in 1 .. n + 1
      BY <1>2
    <3> QED BY <1>3, <3>1
  <2>2. CASE n = 0
    BY <1>2, <2>1, <2>2 DEF NL
  <2>3. CASE n # 0
    <3>1. 1 \in 1 .. n
      BY <1>2, <2>3
    <3>2. l[1] \in Letter
      BY <1>2, <3>1
    <3>3. bytes[pos+1] = l[1]
      BY <1>2, <2>1, <3>1
    <3>4. \A x \in Letter : x < 128
      BY DEF Letter, Character
    <3>5. l[1] < 128
      BY <3>2, <3>4
    <3> QED BY <3>3, <3>5
  <2> QED BY <2>2, <2>3
<1>6. AtText
  BY <1>4, <1>5 DEF AtText
<1>7. /\ LineEnd \in Nat /\ pos <= LineEnd /\ LineEnd <= Len(bytes)
      /\ \A i \in pos + 1 .. LineEnd : bytes[i] # NL
      /\ LineEnd < Len(bytes) => bytes[LineEnd+1] = NL
  BY <1>6, LineEndIs
<1>8. ~ (LineEnd > pos + n)
  <2> SUFFICES ASSUME LineEnd > pos + n PROVE FALSE
    OBVIOUS
  <2>1. pos + (n + 1) \in pos + 1 .. LineEnd /\ n + 1 \in 1 .. n + 1
    BY <1>2, <1>7
  <2>2. bytes[pos+(n+1)] = c[n+1]
    BY <1>3, <2>1
  <2> QED BY <1>2, <1>7, <2>1, <2>2
<1>9. ~ (LineEnd < pos + n)
  <2> SUFFICES ASSUME LineEnd < pos + n PROVE FALSE
    OBVIOUS
  <2> DEFINE i == LineEnd + 1 - pos
  <2>1. i \in 1 .. n /\ i \in 1 .. n + 1 /\ pos + i = LineEnd + 1 /\ LineEnd < Len(bytes)
    BY <1>2, <1>3, <1>4, <1>7
  <2> HIDE DEF i
  <2>2. bytes[pos+i] = c[i] /\ c[i] = l[i] /\ l[i] \in Letter
    BY <1>2, <1>3, <2>1
  <2>3. bytes[LineEnd+1] # NL
    BY <2>1, <2>2 DEF Letter
  <2> QED BY <1>7, <2>1, <2>3
<1>10. LineEnd = pos + n
  BY <1>2, <1>7, <1>8, <1>9
<1>11. StandsAt(bytes, pos, l)
  <2>1. pos + Len(l) <= Len(bytes)
    BY <1>2, <1>3 DEF n
  <2>2. ASSUME NEW i \in 1 .. Len(l) PROVE bytes[pos+i] = l[i]
    <3>1. i \in 1 .. n /\ i \in 1 .. n + 1
      BY <1>2 DEF n
    <3> QED BY <1>2, <1>3, <3>1
  <2> QED BY <2>1, <2>2 DEF StandsAt
<1>12. SubSeq(bytes, pos + 1, pos + Len(l)) = l
  BY <1>1, <1>11, CutOut
<1>13. Line = SubSeq(bytes, pos + 1, LineEnd)
  BY DEF Line
<1> QED BY <1>4, <1>5, <1>6, <1>10, <1>12, <1>13 DEF n

\* A character that is escaped follows an escape character.
LEMMA EscapedIs ==
    ASSUME NEW s \in Seq(Byte), NEW p \in Nat
    PROVE  \A k \in Escaped(s, p) : k > p + 1 /\ s[k-1] = Backslash
<1> DEFINE m == Len(s)
           st == [x \in BOOLEAN \X (1 .. m) |-> x[2] > p + 1 /\ s[x[2]-1] = Backslash /\ ~ x[1]]
           Is(f) == f = [k \in 0 .. m |-> k > p + 1 /\ s[k-1] = Backslash /\ ~ f[k-1]]
<1>1. m \in Nat
  BY LenProperties
<1> HIDE DEF m
<1>2. st \in Steps(BOOLEAN, m)
  BY DEF Steps
<1>3. PICK f : f \in [0 .. m -> BOOLEAN] /\ Iterates(f, FALSE, m, st)
  <2> HIDE DEF st
  <2>1. FALSE \in BOOLEAN
    OBVIOUS
  <2> QED BY <1>1, <1>2, <2>1, Iteration
<1>4. Is(f)
  <2>1. ASSUME NEW k \in 0 .. m PROVE f[k] = (k > p + 1 /\ s[k-1] = Backslash /\ ~ f[k-1])
    <3>1. CASE k = 0
      <4>1. f[k] = FALSE
        <5> HIDE DEF st
        <5> QED BY <1>3, <3>1 DEF Iterates
      <4>2. ~ (k > p + 1)
        BY <3>1
      <4> QED BY <4>1, <4>2
    <3>2. CASE k # 0
      <4>1. k - 1 \in 0 .. m /\ k \in 1 .. m
        BY <1>1, <3>2
      <4>2. f[k-1] \in BOOLEAN /\ f[k] = st[<<f[k-1], k>>]
        <5> HIDE DEF st
        <5> QED BY <1>3, <3>2, <4>1 DEF Iterates
      <4>3. <<f[k-1], k>> \in BOOLEAN \X (1 .. m)
        BY <4>1, <4>2
      <4> QED BY <4>2, <4>3
    <3> QED BY <3>1, <3>2
  <2> QED BY <1>3, <2>1
<1> DEFINE g == CHOOSE g : Is(g)
<1>5. Is(g)
  BY <1>4
<1>6. Escaped(s, p) = {k \in p .. m : g[k]}
  BY DEF Escaped, m
<1> HIDE DEF g
<1>7. \A k \in 0 .. m : g[k] = (k > p + 1 /\ s[k-1] = Backslash /\ ~ g[k-1])
  BY <1>5
<1>8. ASSUME NEW k \in Escaped(s, p) PROVE k > p + 1 /\ s[k-1] = Backslash
  <2>1. k \in p .. m /\ g[k]
    BY <1>6
  <2>2. k \in 0 .. m
    BY <1>1, <2>1
  <2> QED BY <1>7, <2>1, <2>2
<1> QED BY <1>8

\* A name between quotes is found.
LEMMA QuotedName ==
    ASSUME NEW s \in Seq(Byte), NEW name, IsName(name), NEW p \in Nat, p # 0,
           NEW q \in {p + Len(name) + 1}, q <= Len(s), s[p] = Quote, StandsAt(s, p, name), s[q] = Quote
    PROVE  MatchPair(s, p, Quote, Quote) = q + 1 /\ SubSeq(s, p + 1, q - 1) = name
<1> DEFINE n == Len(name)
           last == {k \in p+1 .. Len(s) :
                      k \notin Escaped(s, p) /\ s[k] # Backslash /\ At(s, k + 1) = Quote}
           z == p + n
<1>1. /\ name \in Seq(Letter) /\ name # <<>> /\ n \in Nat /\ n # 0
      /\ \A i \in 1 .. n : name[i] # Quote /\ name[i] # Backslash
  <2>1. name # <<>> /\ IsText(name, {Quote, Backslash})
    BY DEF IsName
  <2>2. name \in Seq(Letter) /\ \A i \in DOMAIN name : name[i] \notin {Quote, Backslash}
    BY <2>1, TextIs
  <2>3. DOMAIN name = 1 .. n /\ n \in Nat
    BY <2>2, LenProperties
  <2>4. n # 0
    BY <2>1, <2>2, EmptySeq
  <2> QED BY <2>1, <2>2, <2>3, <2>4
<1>2. Len(s) \in Nat /\ DOMAIN s = 1 .. Len(s)
  BY LenProperties
<1>3. \A i \in 1 .. n : s[p+i] = name[i]
  BY DEF StandsAt
<1>4. SubSeq(s, p + 1, p + n) = name
  <2>1. name \in Seq(Byte)
    <3>1. Letter \subseteq Byte
      BY DEF Letter, Character, Byte
    <3> QED BY <1>1, <3>1, SeqMonotonic
  <2> QED BY <2>1, CutOut
<1> HIDE DEF n
<1>5. q = z + 1 /\ z \in p + 1 .. Len(s) /\ q - 1 = z
  BY <1>1, <1>2 DEF n
<1>6. z \in last
  <2>1. s[z] = name[n] /\ n \in 1 .. n
    <3>1. n \in 1 .. n
      BY <1>1
    <3> QED BY <1>3, <3>1
  <2>2. s[z] # Backslash
    BY <1>1, <2>1
  <2>3. At(s, z + 1) = Quote
    BY <1>2, <1>5 DEF At
  <2>4. z \notin Escaped(s, p)
    <3> SUFFICES ASSUME z \in Escaped(s, p) PROVE FALSE
      OBVIOUS
    <3>1. z > p + 1 /\ s[z-1] = Backslash
      BY EscapedIs
    <3> DEFINE i == n - 1
    <3>2. i \in 1 .. n /\ p + i = z - 1
      BY <1>1, <3>1
    <3> HIDE DEF i
    <3>3. s[z-1] = name[i]
      BY <1>3, <3>2
    <3> QED BY <1>1, <3>1, <3>2, <3>3
  <2> QED BY <1>5, <2>2, <2>3, <2>4
<1>7. \A k \in last : z <= k
  <2> SUFFICES ASSUME NEW k \in last, ~ (z <= k) PROVE FALSE
    OBVIOUS
  <2>1. k \in p + 1 .. Len(s) /\ At(s, k + 1) = Quote
    OBVIOUS
  <2> DEFINE i == k + 1 - p
  <2>2. i \in 1 .. n /\ p + i = k + 1 /\ k + 1 \in 1 .. Len(s)
    BY <1>1, <1>2, <1>5, <2>1
  <2> HIDE DEF i
  <2>3. s[k+1] = name[i]
    BY <1>3, <2>2
  <2>4. s[k+1] = Quote
    BY <1>2, <2>1, <2>2 DEF At
  <2> QED BY <1>1, <2>2, <2>3, <2>4
<1>8. last \in SUBSET Nat
  BY <1>2
<1>9. Min(last) = z
  <2>1. last # {}
    BY <1>6
  <2> HIDE DEF last
  <2>2. Min(last) \in last /\ \A y \in last : Min(last) <= y
    BY <1>8, <2>1, MinOfNat
  <2>3. Min(last) <= z /\ z <= Min(last) /\ Min(last) \in Nat
    BY <1>6, <1>7, <1>8, <2>2
  <2> QED BY <1>5, <2>3
<1>10. At(s, p) = Quote
  <2>1. p \in 1 .. Len(s)
    BY <1>2, <1>5
  <2> QED BY <1>2, <2>1 DEF At
<1>11. MatchPair(s, p, Quote, Quote) = IF At(s, p) # Quote \/ last = {} THEN 0 ELSE Min(last) + 2
  BY DEF MatchPair
<1>12. last # {}
  BY <1>6
<1> HIDE DEF last
<1>13. MatchPair(s, p, Quote, Quote) = z + 2
  BY <1>9, <1>10, <1>11, <1>12
<1>14. z + 2 = q + 1
  BY <1>1, <1>5
<1>15. SubSeq(s, p + 1, q - 1) = name
  BY <1>4, <1>5
<1> QED BY <1>13, <1>14, <1>15

\* The colon behind a signature is the first behind the name, if there is one.
LEMMA ColonFound ==
    ASSUME NEW s \in Seq(Byte), NEW p \in Nat, p # 0, NEW dsg \in Seq(Letter), dsg # <<>>,
           \A i \in DOMAIN dsg : dsg[i] # Colon, StandsAt(s, p - 1, dsg), NEW q \in {p + Len(dsg)}
    PROVE  /\ Len(s) = q - 1 => SearchUntil(s, p, Colon) = 0
           /\ q <= Len(s) /\ s[q] = Colon => SearchUntil(s, p, Colon) = q
           /\ q > p
<1> DEFINE n == Len(dsg)
           hits == {i \in p .. Len(s) : s[i] = Colon}
<1>1. n \in Nat /\ n # 0 /\ DOMAIN dsg = 1 .. n /\ Len(s) \in Nat
  BY LenProperties, EmptySeq
<1>2. (p - 1) + n <= Len(s) /\ \A i \in 1 .. n : s[(p-1)+i] = dsg[i]
  BY DEF StandsAt
<1> HIDE DEF n
<1>3. q = p + n /\ p <= Len(s)
  BY <1>1, <1>2 DEF n
<1>4. \A i \in hits : q <= i
  <2> SUFFICES ASSUME NEW i \in hits, ~ (q <= i) PROVE FALSE
    OBVIOUS
  <2>1. i \in p .. Len(s) /\ s[i] = Colon
    OBVIOUS
  <2> DEFINE j == i - p + 1
  <2>2. j \in 1 .. n /\ (p - 1) + j = i
    BY <1>1, <1>3, <2>1
  <2> HIDE DEF j
  <2> QED BY <1>1, <1>2, <2>1, <2>2
<1>5. SearchUntil(s, p, Colon) = IF hits = {} THEN 0 ELSE Min(hits)
  <2>1. ~ (p > Len(s))
    BY <1>1, <1>3
  <2> QED BY <2>1 DEF SearchUntil
<1>6. ASSUME Len(s) = q - 1 PROVE hits = {}
  <2> SUFFICES ASSUME NEW i \in hits PROVE FALSE
    OBVIOUS
  <2>1. i \in p .. Len(s) /\ q <= i
    BY <1>4
  <2> QED BY <1>1, <1>3, <1>6, <2>1
<1>7. ASSUME q <= Len(s), s[q] = Colon PROVE hits # {} /\ Min(hits) = q
  <2>1. q \in hits
    BY <1>1, <1>3, <1>7
  <2>2. hits \in SUBSET Nat
    BY <1>1
  <2> HIDE DEF hits
  <2>3. Min(hits) \in hits /\ \A y \in hits : Min(hits) <= y
    BY <2>1, <2>2, MinOfNat
  <2>4. Min(hits) <= q /\ q <= Min(hits) /\ Min(hits) \in Nat /\ q \in Nat
    BY <1>4, <2>1, <2>2, <2>3
  <2> QED BY <2>1, <2>4
<1>8. q > p
  BY <1>1, <1>3
<1> HIDE DEF hits
<1> QED BY <1>5, <1>6, <1>7, <1>8

\* What is behind a cell is somewhere in the whole.
LEMMA HasRest ==
    ASSUME NEW S, NEW s \in Seq(S), NEW c \in S, NEW r \in Seq(S), NEW at \in Nat,
           StandsAt(s, at, <<c>> \o r)
    PROVE  StandsAt(s, at + 1, r) /\ s[at+1] = c /\ Len(<<c>> \o r) = Len(r) + 1 /\ Len(r) \in Nat
<1> DEFINE one == <<c>>
           whole == one \o r
<1>1. one \in Seq(S) /\ Len(one) = 1 /\ one[1] = c
  OBVIOUS
<1> HIDE DEF one
<1>2. /\ whole \in Seq(S) /\ Len(r) \in Nat /\ Len(whole) = Len(one) + Len(r)
      /\ StandsAt(whole, 0, one) /\ StandsAt(whole, Len(one), r)
  BY <1>1, Concats
<1>3. StandsAt(s, at, whole)
  BY DEF one
<1> HIDE DEF whole
<1>4. at + Len(whole) <= Len(s) /\ \A i \in 1 .. Len(whole) : s[at+i] = whole[i]
  BY <1>3 DEF StandsAt
<1>5. Len(whole) = 1 + Len(r) /\ whole[1] = c
  <2>1. 1 \in 1 .. Len(one) /\ 0 + 1 = 1
    BY <1>1
  <2>2. whole[0+1] = one[1]
    BY <1>2, <2>1 DEF StandsAt
  <2> QED BY <1>1, <1>2, <2>1, <2>2
<1>6. s[at+1] = c
  <2>1. 1 \in 1 .. Len(whole)
    BY <1>2, <1>5
  <2> QED BY <1>4, <1>5, <2>1
<1>7. StandsAt(s, at + 1, r)
  <2>1. ASSUME NEW i \in 1 .. Len(r) PROVE s[(at+1)+i] = r[i]
    <3>1. 1 + i \in 1 .. Len(whole) /\ at + (1 + i) = (at + 1) + i /\ Len(one) + i = 1 + i
      BY <1>1, <1>2, <1>5
    <3>2. whole[Len(one)+i] = r[i]
      BY <1>2 DEF StandsAt
    <3>3. s[at+(1+i)] = whole[1+i]
      BY <1>4, <3>1
    <3> QED BY <3>1, <3>2, <3>3
  <2>2. Len(s) \in Nat
    BY LenProperties
  <2>3. (at + 1) + Len(r) <= Len(s)
    BY <1>2, <1>4, <1>5, <2>2
  <2> QED BY <2>1, <2>3 DEF StandsAt
<1>8. Len(whole) = Len(r) + 1
  BY <1>2, <1>5
<1> QED BY <1>2, <1>6, <1>7, <1>8 DEF whole, one

DeclarationText(type, name, dsg, attr) ==
    <<type, Quote>> \o name \o <<Quote>> \o dsg \o (IF attr = <<>> THEN <<>> ELSE <<Colon>> \o attr)

\* What the parser finds in a declaration.
LEMMA DeclarationIs ==
    ASSUME NEW t \in Letter, NEW name, IsName(name), NEW dsg \in Seq(Letter), dsg # <<>>,
           \A i \in DOMAIN dsg : dsg[i] # Colon, NEW attr \in Seq(Letter)
    PROVE  LET l == DeclarationText(t, name, dsg, attr) IN
           /\ l # <<>> /\ l[1] = t /\ NameEnd(l) # 0 /\ DeclName(l) = name /\ DeclDsg(l) = dsg
           /\ DeclAttr(l) = IF attr # <<>> /\ ~ asserts THEN <<Colon>> \o attr ELSE attr
           /\ ColonAt(l) # Len(l)
<1> DEFINE a == <<t, Quote>>
           c == <<Quote>>
           f == IF attr = <<>> THEN <<>> ELSE <<Colon>> \o attr
           n == Len(name)
           d == Len(dsg)
           g == Len(f)
           p == 2
           q == n + 3
           z == n + 4
           y == z + d
           l == DeclarationText(t, name, dsg, attr)
<1>1. Letter \subseteq Byte /\ Quote \in Byte /\ Colon \in Byte
  BY DEF Letter, Character, Byte, Quote, Colon
<1>2. /\ a \in Seq(Byte) /\ Len(a) = 2 /\ a[1] = t /\ a[2] = Quote
      /\ c \in Seq(Byte) /\ Len(c) = 1 /\ c[1] = Quote
  <2>1. t \in Byte
    BY <1>1
  <2> QED BY <1>1, <2>1
<1>3. name \in Seq(Byte) /\ dsg \in Seq(Byte) /\ attr \in Seq(Byte) /\ f \in Seq(Byte)
  <2>1. name \in Seq(Letter)
    BY TextIs DEF IsName
  <2>2. name \in Seq(Byte) /\ dsg \in Seq(Byte) /\ attr \in Seq(Byte)
    BY <1>1, <2>1, SeqMonotonic
  <2>3. <<Colon>> \in Seq(Byte)
    BY <1>1
  <2>4. <<Colon>> \o attr \in Seq(Byte) /\ <<>> \in Seq(Byte)
    BY <2>2, <2>3, ConcatProperties
  <2> QED BY <2>2, <2>4
<1>4. l = a \o name \o c \o dsg \o f
  BY DEF DeclarationText
<1> HIDE DEF a, c, f, l
<1>5. /\ l \in Seq(Byte) /\ Len(l) = Len(a) + n + Len(c) + d + g
      /\ StandsAt(l, 0, a) /\ StandsAt(l, Len(a), name) /\ StandsAt(l, Len(a) + n, c)
      /\ StandsAt(l, Len(a) + n + Len(c), dsg) /\ StandsAt(l, Len(a) + n + Len(c) + d, f)
  <2> DEFINE M == Five(a, name, c, dsg, f)
  <2>1. l = M
    BY <1>4 DEF Five
  <2>3. /\ a \in Seq(Byte) /\ name \in Seq(Byte) /\ c \in Seq(Byte) /\ dsg \in Seq(Byte)
        /\ f \in Seq(Byte)
    BY <1>2, <1>3
  <2>4. /\ M \in Seq(Byte) /\ Len(M) = Len(a) + n + Len(c) + d + g
        /\ StandsAt(M, 0, a) /\ StandsAt(M, Len(a), name) /\ StandsAt(M, Len(a) + n, c)
        /\ StandsAt(M, Len(a) + n + Len(c), dsg) /\ StandsAt(M, Len(a) + n + Len(c) + d, f)
    BY <2>3, FiveParts
  <2> HIDE DEF M
  <2> QED BY <2>1, <2>4
<1>6. n \in Nat /\ d \in Nat /\ g \in Nat /\ d # 0 /\ n # 0
  <2>1. n # 0
    BY <1>3, EmptySeq DEF IsName
  <2>2. d # 0
    BY <1>3, EmptySeq
  <2> QED BY <1>3, <2>1, <2>2, LenProperties
<1> HIDE DEF n, d, g
<1>7. /\ Len(l) = n + 3 + d + g /\ q \in Nat /\ z \in Nat /\ y \in Nat /\ q = p + n + 1 /\ q <= Len(l)
      /\ z - 1 = n + 3 /\ y - 1 = n + 3 + d /\ p \in Nat /\ p # 0
  BY <1>2, <1>5, <1>6
<1>8. /\ StandsAt(l, 2, name) /\ StandsAt(l, n + 2, c) /\ StandsAt(l, z - 1, dsg) /\ StandsAt(l, y - 1, f)
  <2>1. Len(a) = 2 /\ Len(a) + n = n + 2 /\ Len(a) + n + Len(c) = z - 1 /\ Len(a) + n + Len(c) + d = y - 1
    BY <1>2, <1>6
  <2> QED BY <1>5, <2>1
<1>9. l[1] = t /\ l[2] = Quote
  <2>1. 1 \in 1 .. Len(a) /\ 2 \in 1 .. Len(a) /\ 0 + 1 = 1 /\ 0 + 2 = 2
    BY <1>2
  <2>2. l[0+1] = a[1] /\ l[0+2] = a[2]
    BY <1>5, <2>1 DEF StandsAt
  <2> QED BY <1>2, <2>1, <2>2
<1>10. l[q] = Quote
  <2>1. 1 \in 1 .. Len(c) /\ (n + 2) + 1 = q
    BY <1>2, <1>6
  <2>2. l[(n+2)+1] = c[1]
    BY <1>8, <2>1 DEF StandsAt
  <2> QED BY <1>2, <2>1, <2>2
<1>11. l # <<>>
  <2>1. Len(l) # 0
    BY <1>6, <1>7
  <2> QED BY <1>5, <2>1, EmptySeq
<1>12. StandsAt(l, p, name) /\ l[p] = Quote
  BY <1>8, <1>9
<1> HIDE DEF p, q, z, y
<1>13. MatchPair(l, p, Quote, Quote) = q + 1 /\ SubSeq(l, p + 1, q - 1) = name
  <2>1. q \in {p + Len(name) + 1}
    BY <1>7 DEF n
  <2> QED BY <1>5, <1>7, <1>10, <1>12, <2>1, QuotedName
<1>14. NameEnd(l) = z /\ DeclName(l) = name
  <2>1. q + 1 = z /\ z - 2 = q - 1 /\ p + 1 = 3
    BY <1>6 DEF p, q, z
  <2>2. NameEnd(l) = z
    BY <1>13, <2>1 DEF NameEnd, p
  <2>3. DeclName(l) = SubSeq(l, 3, z - 2)
    BY <2>2 DEF DeclName
  <2> QED BY <1>13, <2>1, <2>2, <2>3
<1>15. NameEnd(l) # 0 /\ z # 0
  BY <1>6, <1>14 DEF z
<1>16. y \in {z + Len(dsg)} /\ StandsAt(l, z - 1, dsg)
  BY <1>8 DEF y, d
<1>17. /\ Len(l) = y - 1 => SearchUntil(l, z, Colon) = 0
       /\ y <= Len(l) /\ l[y] = Colon => SearchUntil(l, z, Colon) = y
       /\ y > z
  BY <1>5, <1>7, <1>15, <1>16, ColonFound
<1>18. ColonAt(l) = IF SearchUntil(l, z, Colon) > z THEN SearchUntil(l, z, Colon) ELSE 0
  BY <1>14 DEF ColonAt
<1>19. SubSeq(l, z, y - 1) = dsg
  <2> DEFINE o == z - 1
  <2>1. o \in Nat /\ o + 1 = z /\ o + Len(dsg) = y - 1
    BY <1>6, <1>7 DEF z, y, d
  <2> HIDE DEF o
  <2>2. SubSeq(l, o + 1, o + Len(dsg)) = dsg
    BY <1>3, <1>5, <1>16, <2>1, CutOut DEF o
  <2> QED BY <2>1, <2>2
<1> DEFINE Found == /\ l # <<>> /\ l[1] = t /\ NameEnd(l) # 0 /\ DeclName(l) = name
                    /\ DeclDsg(l) = dsg
                    /\ DeclAttr(l) = IF attr # <<>> /\ ~ asserts THEN <<Colon>> \o attr ELSE attr
                    /\ ColonAt(l) # Len(l)
<1>20. ASSUME attr = <<>> PROVE Found
  <2>1. f = <<>> /\ g = 0
    BY <1>20 DEF f, g
  <2>2. Len(l) = y - 1 /\ Len(l) # 0
    BY <1>6, <1>7, <2>1
  <2>3. ColonAt(l) = 0
    <3>1. ~ (0 > z)
      BY <1>7
    <3> QED BY <1>17, <1>18, <2>2, <3>1
  <2>4. DeclDsg(l) = dsg
    BY <1>14, <1>19, <2>2, <2>3 DEF DeclDsg
  <2>5. DeclAttr(l) = <<>>
    BY <2>3 DEF DeclAttr
  <2> QED BY <1>9, <1>11, <1>14, <1>15, <1>20, <2>2, <2>3, <2>4, <2>5
<1>21. ASSUME attr # <<>> PROVE Found
  <2>1. f = <<Colon>> \o attr
    BY <1>21 DEF f
  <2> DEFINE o == y - 1
  <2>2. o \in Nat /\ o + 1 = y
    BY <1>6, <1>7
  <2>3. StandsAt(l, o, <<Colon>> \o attr)
    BY <1>8, <2>1
  <2> HIDE DEF o
  <2>4. StandsAt(l, o + 1, attr) /\ l[o+1] = Colon /\ Len(<<Colon>> \o attr) = Len(attr) + 1 /\ Len(attr) \in Nat
    BY <1>1, <1>3, <1>5, <2>2, <2>3, HasRest
  <2>5. g = Len(attr) + 1 /\ Len(attr) # 0
    <3>1. Len(attr) # 0
      BY <1>3, <1>21, EmptySeq
    <3> QED BY <2>1, <2>4, <3>1 DEF g
  <2>6. y <= Len(l) /\ Len(l) = y + Len(attr) /\ Len(l) # y /\ Len(l) = o + g
    <3>1. Len(l) = (n + 3 + d) + g /\ y - 1 = n + 3 + d /\ y \in Nat /\ n + 3 + d \in Nat
      BY <1>6, <1>7
    <3>2. Len(l) = o + g
      BY <2>2, <3>1
    <3>3. Len(l) = o + (Len(attr) + 1) /\ o \in Nat /\ y = o + 1 /\ Len(attr) \in Nat /\ Len(attr) # 0
      BY <2>2, <2>4, <2>5, <3>2
    <3>4. y <= Len(l) /\ Len(l) = y + Len(attr) /\ Len(l) # y
      BY <3>3
    <3> QED BY <3>2, <3>4
  <2>7. ColonAt(l) = y /\ y # 0
    <3>1. l[y] = Colon
      BY <2>2, <2>4
    <3>2. SearchUntil(l, z, Colon) = y /\ y > z
      BY <1>17, <2>6, <3>1
    <3>3. y # 0
      BY <1>7, <3>2
    <3> QED BY <1>18, <3>2, <3>3
  <2>8. DeclDsg(l) = dsg
    BY <1>14, <1>19, <2>7 DEF DeclDsg
  <2>9. SubSeq(l, y + 1, Len(l)) = attr
    <3>1. StandsAt(l, y, attr)
      BY <2>2, <2>4
    <3>2. SubSeq(l, y + 1, y + Len(attr)) = attr
      BY <1>3, <1>5, <1>7, <3>1, CutOut
    <3> QED BY <2>6, <3>2
  <2>10. SubSeq(l, y, Len(l)) = f
    <3>1. StandsAt(l, o, f)
      BY <2>1, <2>3
    <3>2. SubSeq(l, o + 1, o + Len(f)) = f
      BY <1>3, <1>5, <2>2, <3>1, CutOut
    <3> QED BY <2>2, <2>6, <3>2 DEF g
  <2>11. DeclAttr(l) = SubSeq(l, IF asserts THEN y + 1 ELSE y, Len(l))
    BY <2>7 DEF DeclAttr
  <2>12. DeclAttr(l) = IF attr # <<>> /\ ~ asserts THEN <<Colon>> \o attr ELSE attr
    <3>1. CASE asserts
      BY <2>9, <2>11, <3>1
    <3>2. CASE ~ asserts
      BY <1>21, <2>1, <2>10, <2>11, <3>2
    <3> QED BY <3>1, <3>2
  <2> QED BY <1>9, <1>11, <1>14, <1>15, <2>6, <2>7, <2>8, <2>12
<1> QED BY <1>20, <1>21 DEF l

\* A line starts with the characters that are at its begin.
LEMMA StartsIs ==
    ASSUME NEW l \in Seq(Byte), NEW chars \in Seq(Byte)
    PROVE  StartsWith(l, chars) <=> StandsAt(l, 0, chars)
<1> DEFINE n == Len(chars)
<1>1. n \in Nat /\ Len(l) \in Nat
  BY LenProperties
<1>2. ASSUME StandsAt(l, 0, chars) PROVE StartsWith(l, chars)
  <2>1. 0 \in Nat /\ 0 + 1 = 1 /\ 0 + n = n
    BY <1>1
  <2>2. SubSeq(l, 0 + 1, 0 + Len(chars)) = chars
    BY <1>2, <2>1, CutOut
  <2>3. Len(l) >= Len(chars)
    BY <1>1, <1>2 DEF StandsAt
  <2> QED BY <2>1, <2>2, <2>3 DEF StartsWith
<1>3. ASSUME StartsWith(l, chars) PROVE StandsAt(l, 0, chars)
  <2>1. n <= Len(l) /\ SubSeq(l, 1, n) = chars
    BY <1>1, <1>3 DEF StartsWith
  <2> DEFINE z == 0
  <2>2. z \in Nat /\ z <= n /\ z = 0
    BY <1>1
  <2> HIDE DEF z, n
  <2>3. \A i \in 1 .. n - z : SubSeq(l, z + 1, n)[i] = l[z+i]
    BY <1>1, <2>1, <2>2, PartIs
  <2>4. z + 1 = 1 /\ n - z = n
    BY <1>1, <2>2
  <2>5. \A i \in 1 .. n : chars[i] = l[0+i]
    BY <2>1, <2>2, <2>3, <2>4
  <2>6. 0 + n <= Len(l)
    BY <1>1, <2>1
  <2> QED BY <2>5, <2>6 DEF StandsAt, n
<1> QED BY <1>2, <1>3

\* The beginnings the parser tells apart.
LEMMA Beginnings ==
    ASSUME NEW l \in Seq(Byte), Len(l) >= 3, l[2] = 78
    PROVE  /\ l[1] = 63 => StartsWith(l, <<63, 78>>) /\ ~ IsNameAnswer(l)
           /\ l[1] = 63 /\ l[3] = 42 => StartsWith(l, <<63, 78, 42>>) /\ ~ IsNameQuery(l)
           /\ l[1] = 63 /\ l[3] = Quote => IsNameQuery(l) /\ ~ StartsWith(l, <<63, 78, 42>>)
           /\ l[1] = 43 /\ l[3] = Quote => /\ IsNameAnswer(l) /\ ~ IsNameQuery(l)
                                           /\ ~ StartsWith(l, <<63, 78>>)
                                           /\ ~ StartsWith(l, <<63, 78, 42>>)
<1>1. Len(l) \in Nat
  BY LenProperties
<1>2. ASSUME NEW a \in Byte, NEW b \in Byte
      PROVE  StartsWith(l, <<a, b>>) <=> Len(l) >= 2 /\ l[1] = a /\ l[2] = b
  <2> DEFINE c == <<a, b>>
  <2>1. c \in Seq(Byte) /\ Len(c) = 2 /\ c[1] = a /\ c[2] = b
    OBVIOUS
  <2> HIDE DEF c
  <2>2. StartsWith(l, c) <=> StandsAt(l, 0, c)
    BY <2>1, StartsIs
  <2>3. StandsAt(l, 0, c) <=> Len(l) >= 2 /\ l[1] = c[1] /\ l[2] = c[2]
    <3>1. \A i \in 1 .. 2 : i = 1 \/ i = 2
      OBVIOUS
    <3>2. StandsAt(l, 0, c) <=> 2 <= Len(l) /\ \A i \in 1 .. 2 : l[i] = c[i]
      BY <1>1, <2>1 DEF StandsAt
    <3> QED BY <1>1, <3>1, <3>2
  <2> QED BY <2>1, <2>2, <2>3 DEF c
<1>3. ASSUME NEW a \in Byte, NEW b \in Byte, NEW d \in Byte
      PROVE  StartsWith(l, <<a, b, d>>) <=> Len(l) >= 3 /\ l[1] = a /\ l[2] = b /\ l[3] = d
  <2> DEFINE c == <<a, b, d>>
  <2>1. c \in Seq(Byte) /\ Len(c) = 3 /\ c[1] = a /\ c[2] = b /\ c[3] = d
    OBVIOUS
  <2> HIDE DEF c
  <2>2. StartsWith(l, c) <=> StandsAt(l, 0, c)
    BY <2>1, StartsIs
  <2>3. StandsAt(l, 0, c) <=> Len(l) >= 3 /\ l[1] = c[1] /\ l[2] = c[2] /\ l[3] = c[3]
    <3>1. \A i \in 1 .. 3 : i = 1 \/ i = 2 \/ i = 3
      OBVIOUS
    <3>2. StandsAt(l, 0, c) <=> 3 <= Len(l) /\ \A i \in 1 .. 3 : l[i] = c[i]
      BY <1>1, <2>1 DEF StandsAt
    <3> QED BY <1>1, <3>1, <3>2
  <2> QED BY <2>1, <2>2, <2>3 DEF c
<1>4. 63 \in Byte /\ 78 \in Byte /\ 42 \in Byte /\ 43 \in Byte /\ Quote \in Byte
  BY DEF Byte, Quote
<1>5. StartsWith(l, <<63, 78>>) <=> l[1] = 63
  <2>1. Len(l) >= 2
    BY <1>1
  <2> QED BY <1>2, <1>4, <2>1
<1>6. StartsWith(l, <<63, 78, 42>>) <=> l[1] = 63 /\ l[3] = 42
  BY <1>3, <1>4
<1>7. IsNameQuery(l) <=> l[1] = 63 /\ l[3] = Quote
  BY <1>3, <1>4 DEF IsNameQuery
<1>8. IsNameAnswer(l) <=> l[1] = 43 /\ l[3] = Quote
  BY <1>3, <1>4 DEF IsNameAnswer
<1>9. 43 # 63 /\ Quote # 42
  BY DEF Quote
<1> QED BY <1>5, <1>6, <1>7, <1>8, <1>9

\* What a line and the state of the parser decide.
LEMMA WhichLine ==
    ASSUME AtText, TextLoop, bytes \in Seq(Byte), pos \in Nat
    PROVE  /\ Line = <<>> => EmptyLine
           /\ Line # <<>> /\ mParseState = "NONE" => HeaderLine
           /\ Line # <<>> /\ mParseState = "HEADER" /\ ~ IsAlpha(Line[1]) => FirstLine
           /\ Line # <<>> /\ mParseState \in {"NODENAME_RQST", "NODENAME_RSP", "NODEQUERY_RQST"}
                => DiscoveryLine
           /\ /\ Line # <<>> /\ mParseState \in {"HEADER", "NODEQUERY_RSP"}
              /\ IsAlpha(Line[1]) /\ NameEnd(Line) # 0
              => Declaration
           /\ /\ Line # <<>> /\ mParseState \in {"HEADER", "NODEQUERY_RSP"}
              /\ IsAlpha(Line[1]) /\ NameEnd(Line) = 0
              => BadFirstDeclaration \/ BadDeclaration
           /\ Line # <<>> /\ mParseState = "NODEQUERY_RSP" /\ ~ IsAlpha(Line[1]) => OtherLine
<1>1. ~ EnterData /\ ~ WriteEnd
  <2>1. Len(bytes) \in Nat /\ pos < Len(bytes) /\ bytes[pos+1] < 128
    BY LenProperties DEF AtText
  <2>2. bytes[pos+1] \in Byte
    <3>1. pos + 1 \in 1 .. Len(bytes)
      BY <2>1
    <3> QED BY <3>1, ElementOfSeq
  <2>3. bytes[pos+1] \in Int
    <3>1. \A x \in Byte : x \in Int
      BY DEF Byte
    <3> QED BY <2>2, <3>1
  <2>4. ~ (bytes[pos+1] >= 128) /\ ~ (pos >= Len(bytes))
    BY <2>1, <2>3
  <2> QED BY <2>4 DEF EnterData, WriteEnd
<1>2. \/ EmptyLine \/ HeaderLine \/ FirstLine \/ DiscoveryLine \/ Declaration
      \/ BadFirstDeclaration \/ BadDeclaration \/ OtherLine
  BY <1>1 DEF TextLoop
<1>3. /\ EmptyLine => Line = <<>>
      /\ HeaderLine => Line # <<>> /\ mParseState = "NONE"
      /\ FirstLine => Line # <<>> /\ mParseState = "HEADER" /\ ~ IsAlpha(Line[1])
      /\ DiscoveryLine => /\ Line # <<>>
                          /\ mParseState \in {"NODENAME_RQST", "NODENAME_RSP", "NODEQUERY_RQST"}
      /\ Declaration => /\ Line # <<>> /\ IsAlpha(Line[1])
                        /\ mParseState \in {"HEADER", "NODEQUERY_RSP"}
      /\ BadFirstDeclaration => Line # <<>> /\ IsAlpha(Line[1]) /\ mParseState = "HEADER"
                                /\ NameEnd(Line) = 0
      /\ BadDeclaration => Line # <<>> /\ IsAlpha(Line[1]) /\ mParseState = "NODEQUERY_RSP"
                           /\ NameEnd(Line) = 0
      /\ OtherLine => Line # <<>> /\ ~ IsAlpha(Line[1]) /\ mParseState = "NODEQUERY_RSP"
  BY DEF EmptyLine, HeaderLine, FirstLine, DiscoveryLine, Declaration, BadFirstDeclaration,
         BadDeclaration, OtherLine
<1>4. /\ Line # <<>> /\ mParseState \in {"HEADER", "NODEQUERY_RSP"}
      /\ IsAlpha(Line[1]) /\ NameEnd(Line) = 0
      => BadFirstDeclaration \/ BadDeclaration
  <2>1. Declaration => NameEnd(Line) # 0
    BY DEF Declaration
  <2> QED BY <1>2, <1>3, <2>1
<1>5. Line # <<>> /\ mParseState = "NODEQUERY_RSP" /\ ~ IsAlpha(Line[1]) => OtherLine
  BY <1>2, <1>3
<1>6. /\ Line # <<>> /\ mParseState \in {"HEADER", "NODEQUERY_RSP"}
      /\ IsAlpha(Line[1]) /\ NameEnd(Line) # 0
      => Declaration
  <2>1. BadFirstDeclaration \/ BadDeclaration => NameEnd(Line) = 0
    BY DEF BadFirstDeclaration, BadDeclaration
  <2> QED BY <1>2, <1>3, <2>1
<1> QED BY <1>2, <1>3, <1>4, <1>5, <1>6

\* The header line.
LEMMA HeaderStep ==
    ASSUME AtText, TextLoop, bytes \in Seq(Byte), pos \in Nat, Line = <<APX, 49, Dot, 50>>,
           mParseState = "NONE"
    PROVE  mParseState' = "HEADER" /\ NextLine /\ events' = events
<1>1. Line # <<>> /\ Line[2] = 49 /\ Line[4] = 50 /\ 50 >= 50
  OBVIOUS
<1>2. IsHeader(Line)
  <2>1. Len(Line) = 4 /\ Line[1] = APX /\ Line[2] = 49 /\ Line[3] = Dot /\ Line[4] = 50
    OBVIOUS
  <2>2. IsDigit(49) /\ IsDigit(50)
    BY DEF IsDigit
  <2> QED BY <2>1, <2>2 DEF IsHeader
<1>3. HeaderLine
  BY <1>1, WhichLine
<1> QED BY <1>1, <1>2, <1>3 DEF HeaderLine

\* The question for names, as the first line.
LEMMA RequestStep ==
    ASSUME AtText, TextLoop, bytes \in Seq(Byte), pos \in Nat, Line = <<63, 78, 42>>,
           mParseState = "HEADER"
    PROVE  /\ mParseState' = "NODENAME_RQST" /\ NextLine
           /\ events' = Append(events, Event("nodeNameRqst"))
<1>1. Line # <<>> /\ Len(Line) = 3 /\ Line[1] = 63 /\ Line[2] = 78 /\ Line[3] = 42
  OBVIOUS
<1>2. ~ IsAlpha(Line[1])
  BY <1>1 DEF IsAlpha
<1>3. FirstLine
  BY <1>1, <1>2, WhichLine
<1>4. Line \in Seq(Byte)
  <2>1. 63 \in Byte /\ 78 \in Byte /\ 42 \in Byte
    BY DEF Byte
  <2> QED BY <2>1
<1>5. /\ StartsWith(Line, <<63, 78, 42>>) /\ StartsWith(Line, <<63, 78>>)
      /\ ~ IsNameQuery(Line) /\ ~ IsNameAnswer(Line)
  <2>1. Len(Line) >= 3
    BY <1>1
  <2> QED BY <1>1, <1>4, <2>1, Beginnings
<1> QED BY <1>3, <1>5 DEF FirstLine, Emit

\* What has three characters in front of a name in quotes.
LEMMA NamedLine ==
    ASSUME NEW a \in Byte, NEW name \in Seq(Letter),
           NEW l \in {<<a, 78, Quote>> \o name \o <<Quote>>}
    PROVE  /\ l \in Seq(Byte) /\ l # <<>> /\ l[1] = a /\ l[2] = 78 /\ l[3] = Quote /\ Len(l) >= 3
           /\ Len(l) = Len(name) + 4 /\ StandsAt(l, 3, name) /\ l[Len(name)+4] = Quote
<1> DEFINE c == <<a, 78, Quote>>
           e == <<Quote>>
           f == c \o name
           n == Len(name)
<1>1. c \in Seq(Byte) /\ Len(c) = 3 /\ c[1] = a /\ c[2] = 78 /\ c[3] = Quote
  <2>1. 78 \in Byte /\ Quote \in Byte
    BY DEF Byte, Quote
  <2> QED BY <2>1
<1>2. e \in Seq(Byte) /\ Len(e) = 1 /\ e[1] = Quote
  <2>1. Quote \in Byte
    BY DEF Byte, Quote
  <2> QED BY <2>1
<1>3. name \in Seq(Byte)
  <2>1. Letter \subseteq Byte
    BY DEF Letter, Character, Byte
  <2> QED BY <2>1, SeqMonotonic
<1>4. l = f \o e
  OBVIOUS
<1> HIDE DEF c, e
<1>5. /\ f \in Seq(Byte) /\ n \in Nat /\ Len(f) = Len(c) + n /\ StandsAt(f, 0, c)
      /\ StandsAt(f, Len(c), name)
  <2>1. c \in Seq(Byte) /\ name \in Seq(Byte)
    BY <1>1, <1>3
  <2> QED BY <2>1, Concats
<1> HIDE DEF f, n
<1>6. l \in Seq(Byte) /\ Len(l) = Len(f) + Len(e) /\ StandsAt(l, Len(f), e)
  BY <1>2, <1>4, <1>5, Concats
<1>7. StandsAt(l, 0, c) /\ StandsAt(l, Len(c), name)
  <2>1. 0 \in Nat /\ Len(c) \in Nat
    BY <1>1
  <2> QED BY <1>1, <1>2, <1>3, <1>4, <1>5, <2>1, HasStays
<1>8. Len(l) = n + 4 /\ Len(l) >= 3
  BY <1>1, <1>2, <1>5, <1>6
<1>9. l[1] = a /\ l[2] = 78 /\ l[3] = Quote
  <2>1. 1 \in 1 .. 3 /\ 2 \in 1 .. 3 /\ 3 \in 1 .. 3 /\ 0 + 1 = 1 /\ 0 + 2 = 2 /\ 0 + 3 = 3
    OBVIOUS
  <2>2. \A i \in 1 .. 3 : l[0+i] = c[i]
    BY <1>1, <1>7 DEF StandsAt
  <2> QED BY <1>1, <2>1, <2>2
<1>10. l[n+4] = Quote
  <2>1. 1 \in 1 .. Len(e) /\ Len(f) + 1 = n + 4
    BY <1>1, <1>2, <1>5
  <2>2. l[Len(f)+1] = e[1]
    BY <1>6, <2>1 DEF StandsAt
  <2> QED BY <1>2, <2>1, <2>2
<1>11. l # <<>>
  BY <1>5, <1>6, <1>8, EmptySeq
<1> QED BY <1>1, <1>6, <1>7, <1>8, <1>9, <1>10, <1>11 DEF n

\* An answer to a question for names, as the first line or behind others.
LEMMA AnswerStep ==
    ASSUME AtText, TextLoop, bytes \in Seq(Byte), pos \in Nat, NEW name \in Seq(Letter),
           Line = <<43, 78, Quote>> \o name \o <<Quote>>, mParseState \in {"HEADER", "NODENAME_RSP"}
    PROVE  mParseState' = "NODENAME_RSP" /\ NextLine /\ events' = events
<1> DEFINE l == <<43, 78, Quote>> \o name \o <<Quote>>
<1>1. l \in Seq(Byte) /\ l # <<>> /\ l[1] = 43 /\ l[2] = 78 /\ l[3] = Quote /\ Len(l) >= 3
  <2>1. 43 \in Byte
    BY DEF Byte
  <2>2. l \in {<<43, 78, Quote>> \o name \o <<Quote>>}
    OBVIOUS
  <2> QED BY <2>1, <2>2, NamedLine
<1>2. Line = l
  OBVIOUS
<1> HIDE DEF l
<1>3. /\ IsNameAnswer(Line) /\ ~ StartsWith(Line, <<63, 78>>) /\ ~ StartsWith(Line, <<63, 78, 42>>)
      /\ ~ IsNameQuery(Line)
  <2>1. l \in Seq(Byte) /\ Len(l) >= 3 /\ l[1] = 43 /\ l[2] = 78 /\ l[3] = Quote
    BY <1>1
  <2>2. IsNameAnswer(l) /\ ~ StartsWith(l, <<63, 78>>) /\ ~ StartsWith(l, <<63, 78, 42>>)
    BY <2>1, Beginnings
  <2>3. ~ IsNameQuery(l)
    BY <2>1, Beginnings
  <2> QED BY <1>2, <2>2, <2>3
<1>4. CASE mParseState = "HEADER"
  <2>1. ~ IsAlpha(43)
    BY DEF IsAlpha
  <2>2. FirstLine
    BY <1>1, <1>2, <1>4, <2>1, WhichLine
  <2> QED BY <1>3, <2>2 DEF FirstLine
<1>5. CASE mParseState = "NODENAME_RSP"
  <2>1. DiscoveryLine
    BY <1>1, <1>2, <1>5, WhichLine
  <2> QED BY <1>3, <1>5, <2>1 DEF DiscoveryLine
<1> QED BY <1>4, <1>5

\* A question for a node, as the first line or behind others.
LEMMA QueryStep ==
    ASSUME AtText, TextLoop, bytes \in Seq(Byte), pos \in Nat, NEW name, IsName(name),
           Line = <<63, 78, Quote>> \o name \o <<Quote>>, mParseState \in {"HEADER", "NODEQUERY_RQST"}
    PROVE  /\ mParseState' = "NODEQUERY_RQST" /\ NextLine
           /\ events' = Append(events, NameEvent("nodeQueryRqst", name))
<1> DEFINE l == <<63, 78, Quote>> \o name \o <<Quote>>
           n == Len(name)
<1>1. name \in Seq(Letter) /\ n \in Nat
  BY TextIs, LenProperties DEF IsName
<1>2. /\ l \in Seq(Byte) /\ l # <<>> /\ l[1] = 63 /\ l[2] = 78 /\ l[3] = Quote /\ Len(l) >= 3
      /\ Len(l) = n + 4 /\ StandsAt(l, 3, name) /\ l[n+4] = Quote
  <2>1. 63 \in Byte
    BY DEF Byte
  <2>2. l \in {<<63, 78, Quote>> \o name \o <<Quote>>}
    OBVIOUS
  <2> QED BY <1>1, <2>1, <2>2, NamedLine, SMTT(30)
<1>3. Line = l
  OBVIOUS
<1> HIDE DEF l
<1> DEFINE p == 3
           q == n + 4
<1>4. MatchPair(l, 3, Quote, Quote) = q + 1 /\ SubSeq(l, 3 + 1, q - 1) = name
  <2>1. p \in Nat /\ p # 0 /\ q \in {p + Len(name) + 1} /\ q <= Len(l)
    BY <1>1, <1>2
  <2>2. l[p] = Quote /\ StandsAt(l, p, name) /\ l[q] = Quote
    BY <1>2
  <2> HIDE DEF p, q, n
  <2>3. MatchPair(l, p, Quote, Quote) = q + 1 /\ SubSeq(l, p + 1, q - 1) = name
    BY <1>2, <2>1, <2>2, QuotedName
  <2> QED BY <2>3 DEF p
<1>5. EmitNodeQuery => events' = Append(events, NameEvent("nodeQueryRqst", name))
  <2>1. q + 1 # 0 /\ (q + 1) - 2 = q - 1 /\ 3 + 1 = 4
    BY <1>1
  <2> HIDE DEF q
  <2>2. SubSeq(l, 4, (q + 1) - 2) = name
    BY <1>4, <2>1
  <2> QED BY <1>3, <1>4, <2>1, <2>2 DEF EmitNodeQuery, Emit
<1>6. /\ IsNameQuery(Line) /\ ~ StartsWith(Line, <<63, 78, 42>>) /\ StartsWith(Line, <<63, 78>>)
      /\ ~ IsNameAnswer(Line)
  <2>1. l \in Seq(Byte) /\ Len(l) >= 3 /\ l[1] = 63 /\ l[2] = 78 /\ l[3] = Quote
    BY <1>2
  <2>2. IsNameQuery(l) /\ ~ StartsWith(l, <<63, 78, 42>>) /\ StartsWith(l, <<63, 78>>)
    BY <2>1, Beginnings
  <2>3. ~ IsNameAnswer(l)
    BY <2>1, Beginnings
  <2> QED BY <1>3, <2>2, <2>3
<1> HIDE DEF q
<1>7. CASE mParseState = "HEADER"
  <2>1. ~ IsAlpha(63)
    BY DEF IsAlpha
  <2>2. FirstLine
    BY <1>2, <1>3, <1>7, <2>1, WhichLine
  <2> QED BY <1>5, <1>6, <2>2 DEF FirstLine
<1>8. CASE mParseState = "NODEQUERY_RQST"
  <2>1. DiscoveryLine
    BY <1>2, <1>3, <1>8, WhichLine
  <2> QED BY <1>5, <1>6, <1>8, <2>1 DEF DiscoveryLine
<1> QED BY <1>7, <1>8

\* A declaration, as the first line or behind others.
LEMMA DeclarationStep ==
    ASSUME AtText, TextLoop, bytes \in Seq(Byte), pos \in Nat, NEW msg, IsDeclarationMsg(msg),
           Line = LineOf(msg), mParseState \in {"HEADER", "NODEQUERY_RSP"}
    PROVE  mParseState' = "NODEQUERY_RSP" /\ NextLine /\ events' = events \o Meaning(msg)
<1> DEFINE t == IF msg.op = "nodeQueryRspStart" THEN 78 ELSE LineType[msg.op]
           dsg == IF msg.op = "nodeQueryRspStart" THEN NodeDim(1, 0, 2) ELSE msg.dsg
           attr == IF msg.op = "nodeQueryRspStart" THEN <<>> ELSE msg.attr
           l == DeclarationText(t, msg.name, dsg, attr)
           kept == IF attr # <<>> /\ ~ asserts THEN <<Colon>> \o attr ELSE attr
<1>1. msg.op = "nodeQueryRspStart" \/ msg.op \in {"typedef", "provide", "require"}
  BY DEF IsDeclarationMsg
<1>2. t \in {78, 84, 80, 82} /\ t \in Letter /\ IsAlpha(t)
  <2>1. t \in {78, 84, 80, 82}
    BY <1>1 DEF LineType
  <2>2. \A x \in {78, 84, 80, 82} : x \in Letter /\ IsAlpha(x)
    BY DEF Letter, Character, NL, IsAlpha
  <2> QED BY <2>1, <2>2
<1>3. /\ dsg \in Seq(Letter) /\ dsg # <<>> /\ (\A i \in DOMAIN dsg : dsg[i] # Colon)
      /\ attr \in Seq(Letter) /\ IsName(msg.name)
  <2>1. CASE msg.op = "nodeQueryRspStart"
    <3>1. dsg = NodeDim(1, 0, 2) /\ attr = <<>>
      BY <2>1
    <3>2. NodeDim(1, 0, 2) \in Seq(Letter) /\ <<>> \in Seq(Letter)
      BY FixedParts
    <3>3. NodeDim(1, 0, 2) # <<>> /\ \A i \in DOMAIN NodeDim(1, 0, 2) : NodeDim(1, 0, 2)[i] # Colon
      BY DEF NodeDim, Colon
    <3> QED BY <3>1, <3>2, <3>3 DEF IsDeclarationMsg
  <2>2. CASE msg.op \in {"typedef", "provide", "require"}
    <3>1. dsg = msg.dsg /\ attr = msg.attr
      BY <2>2
    <3>2. IsText(msg.dsg, {Colon}) /\ msg.dsg # <<>> /\ IsText(msg.attr, {}) /\ IsName(msg.name)
      BY <2>2 DEF IsDeclarationMsg
    <3>3. msg.dsg \in Seq(Letter) /\ msg.attr \in Seq(Letter)
          /\ \A i \in DOMAIN msg.dsg : msg.dsg[i] \notin {Colon}
      BY <3>2, TextIs
    <3> QED BY <3>1, <3>2, <3>3
  <2> QED BY <1>1, <2>1, <2>2
<1>4. Line = l
  <2>1. CASE msg.op = "nodeQueryRspStart"
    <3>1. LineOf(msg) = <<78, Quote>> \o msg.name \o <<Quote>> \o NodeDim(1, 0, 2)
      BY <2>1 DEF LineOf
    <3>2. l = <<78, Quote>> \o msg.name \o <<Quote>> \o NodeDim(1, 0, 2) \o <<>>
      BY <2>1 DEF DeclarationText
    <3> DEFINE w == <<78, Quote>> \o msg.name \o <<Quote>> \o NodeDim(1, 0, 2)
    <3>3. w \in Seq(Letter)
      <4>1. msg.name \in Seq(Letter)
        BY <1>3, TextIs DEF IsName
      <4>2. <<78, Quote>> \in Seq(Letter) /\ <<Quote>> \in Seq(Letter) /\ NodeDim(1, 0, 2) \in Seq(Letter)
        BY FixedParts
      <4> QED BY <4>1, <4>2, Together
    <3> HIDE DEF w
    <3>4. w \o <<>> = w
      BY <3>3, ConcatEmptySeq
    <3> QED BY <3>1, <3>2, <3>4 DEF w
  <2>2. CASE msg.op \in {"typedef", "provide", "require"}
    BY <2>2 DEF LineOf, DeclarationText
  <2> QED BY <1>1, <2>1, <2>2
<1> DEFINE name == msg.name
<1>5. l = DeclarationText(t, name, dsg, attr)
  OBVIOUS
<1> HIDE DEF t, dsg, attr, l, name
<1>7. /\ l # <<>> /\ l[1] = t /\ NameEnd(l) # 0 /\ DeclName(l) = name /\ DeclDsg(l) = dsg
      /\ DeclAttr(l) = kept /\ ColonAt(l) # Len(l)
  <2>1. IsName(name)
    BY <1>3 DEF name
  <2>2. t \in Letter
    BY <1>2
  <2>3. /\ dsg \in Seq(Letter) /\ dsg # <<>> /\ (\A i \in DOMAIN dsg : dsg[i] # Colon)
        /\ attr \in Seq(Letter)
    BY <1>3
  <2> QED BY <1>5, <2>1, <2>2, <2>3, DeclarationIs
<1> HIDE DEF kept
<1>8. Declaration
  BY <1>2, <1>4, <1>7, WhichLine
<1>9. mParseState' = "NODEQUERY_RSP" /\ EmitDeclaration(l) /\ NextLine
  BY <1>4, <1>7, <1>8 DEF Declaration
<1>10. events' = events \o Meaning(msg)
  <2> DEFINE e(ev) == LineEvent(ev, name, dsg, kept)
             ne == NameEvent("nodeQueryRspStart", name)
  <2>0. \A x : events \o <<x>> = Append(events, x)
    OBVIOUS
  <2>1. CASE msg.op = "nodeQueryRspStart"
    <3>1. l[1] = 78
      BY <1>7, <2>1 DEF t
    <3>2. events' = Append(events, ne)
      BY <1>7, <1>9, <3>1 DEF EmitDeclaration, Emit
    <3>3. Meaning(msg) = <<ne>>
      BY <2>1 DEF Meaning, name
    <3> QED BY <2>0, <3>2, <3>3
  <2>2. CASE msg.op = "typedef"
    <3>1. l[1] = 84
      BY <1>7, <2>2 DEF t, LineType
    <3>2. events' = Append(events, e("typedef"))
      BY <1>7, <1>9, <3>1 DEF EmitDeclaration, Emit
    <3>3. Meaning(msg) = <<e("typedef")>>
      BY <2>2 DEF Meaning, name, dsg, attr, kept
    <3> QED BY <2>0, <3>2, <3>3
  <2>3. CASE msg.op = "provide"
    <3>1. l[1] = 80
      BY <1>7, <2>3 DEF t, LineType
    <3>2. events' = Append(events, e("provide"))
      BY <1>7, <1>9, <3>1 DEF EmitDeclaration, Emit
    <3>3. Meaning(msg) = <<e("provide")>>
      BY <2>3 DEF Meaning, name, dsg, attr, kept
    <3> QED BY <2>0, <3>2, <3>3
  <2>4. CASE msg.op = "require"
    <3>1. l[1] = 82
      BY <1>7, <2>4 DEF t, LineType
    <3>2. events' = Append(events, e("require"))
      BY <1>7, <1>9, <3>1 DEF EmitDeclaration, Emit
    <3>3. Meaning(msg) = <<e("require")>>
      BY <2>4 DEF Meaning, name, dsg, attr, kept
    <3> QED BY <2>0, <3>2, <3>3
  <2> QED BY <1>1, <2>1, <2>2, <2>3, <2>4
<1> QED BY <1>9, <1>10

-----------------------------------------------------------------------------
(* Transmissions that arrive as they were sent. *)

Meanings(msgs) == [n \in DOMAIN msgs |-> Meaning(msgs[n])]

Among(msgs) == 2 .. Len(msgs) - 1

\* The state fits what is left of a text message behind its first j messages.
Suits(state, msgs, j) ==
    \/ state = "HEADER"
    \/ state = "NODENAME_RQST" /\ j >= Len(msgs) - 1
    \/ state = "NODENAME_RSP" /\ \A i \in Among(msgs) : msgs[i].op = "nodeNameRsp"
    \/ state = "NODEQUERY_RQST" /\ \A i \in Among(msgs) : msgs[i].op = "nodeQueryRqst"
    \/ state = "NODEQUERY_RSP" /\ \A i \in Among(msgs) : IsDeclarationMsg(msgs[i])

LEMMA SuitsLater ==
    ASSUME NEW state, NEW msgs, Len(msgs) \in Nat, NEW j \in Nat, NEW k \in Nat, j <= k,
           Suits(state, msgs, j)
    PROVE  Suits(state, msgs, k)
BY DEF Suits

\* What every message of a text message is.
LEMMA TextMessageIs ==
    ASSUME NEW msgs, IsList(msgs), IsTextMessage(msgs)
    PROVE  /\ Len(msgs) \in Nat /\ Len(msgs) >= 2 /\ DOMAIN msgs = 1 .. Len(msgs)
           /\ msgs[1].op = "start" /\ msgs[Len(msgs)].op = "end"
           /\ \A i \in 1 .. Len(msgs) : IsTextPart(msgs[i])
           /\ \/ Len(msgs) = 3 /\ msgs[2].op = "nodeNameRqst"
              \/ \A i \in Among(msgs) : msgs[i].op = "nodeNameRsp" /\ IsText(msgs[i].name, {})
              \/ \A i \in Among(msgs) : msgs[i].op = "nodeQueryRqst" /\ IsName(msgs[i].name)
              \/ \A i \in Among(msgs) : IsDeclarationMsg(msgs[i])
BY ListIs, PartsOfText DEF IsTextMessage, Among

\* Its line is what is read at its begin.
LEMMA LineOfMessage ==
    ASSUME NEW msgs, IsList(msgs), IsTextMessage(msgs), NEW i \in 1 .. Len(msgs), ~ Silent(msgs[i]),
           bytes = ComposeAll(msgs), pc = "loop", pos = End(msgs, i - 1)
    PROVE  /\ bytes \in Seq(Byte) /\ pos \in Nat /\ AtText /\ Line = LineOf(msgs[i])
           /\ LineEnd + 1 = End(msgs, i)
           /\ LineOf(msgs[i]) = <<>> => pos + 1 = End(msgs, i)
<1>1. Len(msgs) \in Nat /\ DOMAIN msgs = 1 .. Len(msgs) /\ IsTextPart(msgs[i])
  BY TextMessageIs
<1>2. \A n \in DOMAIN msgs : Compose(msgs[n]) \in Seq(Byte)
  BY <1>1, TextMessageIs, TextCellsAreBytes
<1>3. /\ ComposeAll(msgs) \in Seq(Byte) /\ End(msgs, i - 1) \in Nat
      /\ End(msgs, i) = End(msgs, i - 1) + Len(Compose(msgs[i]))
      /\ StandsAt(ComposeAll(msgs), End(msgs, i - 1), Compose(msgs[i]))
  <2>1. i - 1 \in 0 .. Len(msgs)
    BY <1>1
  <2> QED BY <1>2, <2>1, ComposedTogether
<1> DEFINE l == LineOf(msgs[i])
<1>4. Compose(msgs[i]) = l \o <<NL>> /\ l \in Seq(Letter)
  BY <1>1, TextCells
<1> HIDE DEF l
<1>5. StandsAt(bytes, pos, l \o <<NL>>) /\ bytes \in Seq(Byte) /\ pos \in Nat
  BY <1>3, <1>4
<1>6. AtText /\ Line = l /\ LineEnd = pos + Len(l)
  BY <1>4, <1>5, LineIs
<1>7. Len(Compose(msgs[i])) = Len(l) + 1 /\ Len(l) \in Nat
  <2> DEFINE e == <<NL>>
  <2>1. e \in Seq(Byte) /\ Len(e) = 1
    BY FixedParts
  <2>2. l \in Seq(Byte)
    <3>1. Letter \subseteq Byte
      BY DEF Letter, Character, Byte
    <3> QED BY <1>4, <3>1, SeqMonotonic
  <2> HIDE DEF e
  <2>3. Len(l \o e) = Len(l) + Len(e) /\ Len(l) \in Nat
    BY <2>1, <2>2, Concats
  <2> QED BY <1>4, <2>1, <2>3 DEF e
<1>8. LineEnd + 1 = End(msgs, i)
  BY <1>3, <1>5, <1>6, <1>7
<1>9. l = <<>> => pos + 1 = End(msgs, i)
  <2>1. l = <<>> => Len(l) = 0
    OBVIOUS
  <2> QED BY <1>3, <1>5, <1>7, <2>1
<1> QED BY <1>5, <1>6, <1>8, <1>9 DEF l

\* A line among the messages is handed out as it is meant, and the state goes on to suit.
LEMMA InnerStep ==
    ASSUME NEW msgs, IsList(msgs), IsTextMessage(msgs), NEW i \in Among(msgs), ~ Silent(msgs[i]),
           AtText, TextLoop, bytes \in Seq(Byte), pos \in Nat, Line = LineOf(msgs[i]),
           Suits(mParseState, msgs, i - 1), events \in Seq({events[n] : n \in DOMAIN events})
    PROVE  /\ NextLine /\ events' = events \o Meaning(msgs[i])
           /\ Suits(mParseState', msgs, i)
<1> DEFINE m == msgs[i]
<1>1. Len(msgs) \in Nat /\ i \in 1 .. Len(msgs) /\ i <= Len(msgs) - 1 /\ i \in Int
  BY TextMessageIs DEF Among
<1>2. events \o <<>> = events /\ \A x : events \o <<x>> = Append(events, x)
  BY ConcatEmptySeq
<1>3. CASE Len(msgs) = 3 /\ msgs[2].op = "nodeNameRqst"
  <2>1. i = 2 /\ m.op = "nodeNameRqst"
    BY <1>1, <1>3 DEF Among
  <2>2. mParseState = "HEADER"
    <3>1. ~ (i - 1 >= Len(msgs) - 1)
      BY <1>3, <2>1
    <3>2. m.op # "nodeNameRsp" /\ m.op # "nodeQueryRqst" /\ ~ IsDeclarationMsg(m)
      BY <2>1 DEF IsDeclarationMsg
    <3> QED BY <3>1, <3>2 DEF Suits
  <2>3. Line = <<63, 78, 42>>
    BY <2>1 DEF LineOf
  <2>4. /\ mParseState' = "NODENAME_RQST" /\ NextLine
        /\ events' = Append(events, Event("nodeNameRqst"))
    BY <2>2, <2>3, RequestStep
  <2>5. Meaning(m) = <<Event("nodeNameRqst")>>
    BY <2>1 DEF Meaning
  <2>6. i >= Len(msgs) - 1
    BY <1>3, <2>1
  <2> QED BY <1>2, <2>4, <2>5, <2>6 DEF Suits
<1>4. CASE \A n \in Among(msgs) : msgs[n].op = "nodeNameRsp" /\ IsText(msgs[n].name, {})
  <2>1. m.op = "nodeNameRsp" /\ IsText(m.name, {})
    BY <1>4
  <2>2. mParseState \in {"HEADER", "NODENAME_RSP"}
    <3>1. ~ (i - 1 >= Len(msgs) - 1)
      BY <1>1
    <3>2. m.op # "nodeQueryRqst" /\ ~ IsDeclarationMsg(m)
      BY <2>1 DEF IsDeclarationMsg
    <3> QED BY <3>1, <3>2 DEF Suits
  <2>3. Line = <<43, 78, Quote>> \o m.name \o <<Quote>>
    BY <2>1 DEF LineOf
  <2>4. mParseState' = "NODENAME_RSP" /\ NextLine /\ events' = events
    <3>1. m.name \in Seq(Letter)
      BY <2>1, TextIs
    <3> DEFINE name == m.name
    <3>2. name \in Seq(Letter) /\ Line = <<43, 78, Quote>> \o name \o <<Quote>>
      BY <2>3, <3>1
    <3> HIDE DEF name
    <3> QED BY <2>2, <3>2, AnswerStep
  <2>5. Meaning(m) = <<>>
    BY <2>1 DEF Meaning
  <2> QED BY <1>2, <1>4, <2>4, <2>5 DEF Suits
<1>5. CASE \A n \in Among(msgs) : msgs[n].op = "nodeQueryRqst" /\ IsName(msgs[n].name)
  <2>1. m.op = "nodeQueryRqst" /\ IsName(m.name)
    BY <1>5
  <2>2. mParseState \in {"HEADER", "NODEQUERY_RQST"}
    <3>1. ~ (i - 1 >= Len(msgs) - 1)
      BY <1>1
    <3>2. m.op # "nodeNameRsp" /\ ~ IsDeclarationMsg(m)
      BY <2>1 DEF IsDeclarationMsg
    <3> QED BY <3>1, <3>2 DEF Suits
  <2>3. Line = <<63, 78, Quote>> \o m.name \o <<Quote>>
    BY <2>1 DEF LineOf
  <2>4. /\ mParseState' = "NODEQUERY_RQST" /\ NextLine
        /\ events' = Append(events, NameEvent("nodeQueryRqst", m.name))
    <3> DEFINE name == m.name
    <3>1. IsName(name) /\ Line = <<63, 78, Quote>> \o name \o <<Quote>>
      BY <2>1, <2>3
    <3> HIDE DEF name
    <3>2. /\ mParseState' = "NODEQUERY_RQST" /\ NextLine
          /\ events' = Append(events, NameEvent("nodeQueryRqst", name))
      BY <2>2, <3>1, QueryStep
    <3> QED BY <3>2 DEF name
  <2>5. Meaning(m) = <<NameEvent("nodeQueryRqst", m.name)>>
    BY <2>1 DEF Meaning
  <2> QED BY <1>2, <1>5, <2>4, <2>5 DEF Suits
<1>6. CASE \A n \in Among(msgs) : IsDeclarationMsg(msgs[n])
  <2>1. IsDeclarationMsg(m)
    BY <1>6
  <2>2. mParseState \in {"HEADER", "NODEQUERY_RSP"}
    <3>1. ~ (i - 1 >= Len(msgs) - 1)
      BY <1>1
    <3>2. m.op # "nodeQueryRqst" /\ m.op # "nodeNameRsp"
      BY <2>1 DEF IsDeclarationMsg
    <3> QED BY <3>1, <3>2 DEF Suits
  <2>3. mParseState' = "NODEQUERY_RSP" /\ NextLine /\ events' = events \o Meaning(m)
    BY <2>1, <2>2, DeclarationStep
  <2> QED BY <1>6, <2>3 DEF Suits
<1> QED BY <1>3, <1>4, <1>5, <1>6, TextMessageIs

\* One line of a text message.
LEMMA MessageLine ==
    ASSUME NEW msgs, IsList(msgs), IsTextMessage(msgs), NEW i \in 1 .. Len(msgs), ~ Silent(msgs[i]),
           bytes = ComposeAll(msgs), pc = "loop", pos = End(msgs, i - 1), TextLoop,
           i = 1 => mParseState = "NONE", i # 1 => Suits(mParseState, msgs, i - 1),
           events \in Seq({events[n] : n \in DOMAIN events})
    PROVE  /\ events' = events \o Meaning(msgs[i])
           /\ i # Len(msgs) =>
                NextLine /\ LineEnd + 1 = End(msgs, i) /\ Suits(mParseState', msgs, i)
           /\ i = Len(msgs) => EmptyLine /\ pos + 1 = End(msgs, i)
<1>1. /\ Len(msgs) \in Nat /\ Len(msgs) >= 2 /\ i \in Int
      /\ msgs[1].op = "start" /\ msgs[Len(msgs)].op = "end"
  BY TextMessageIs
<1>2. /\ bytes \in Seq(Byte) /\ pos \in Nat /\ AtText /\ Line = LineOf(msgs[i])
      /\ LineEnd + 1 = End(msgs, i) /\ (LineOf(msgs[i]) = <<>> => pos + 1 = End(msgs, i))
  BY LineOfMessage
<1>3. events \o <<>> = events /\ \A x : events \o <<x>> = Append(events, x)
  BY ConcatEmptySeq
<1>4. CASE i = 1
  <2>1. Line = <<APX, 49, Dot, 50>> /\ Meaning(msgs[i]) = <<>>
    BY <1>1, <1>2, <1>4 DEF LineOf, Meaning
  <2>2. mParseState' = "HEADER" /\ NextLine /\ events' = events
    BY <1>2, <1>4, <2>1, HeaderStep
  <2>3. i # Len(msgs)
    BY <1>1, <1>4
  <2> QED BY <1>2, <1>3, <2>1, <2>2, <2>3 DEF Suits
<1>5. CASE i = Len(msgs)
  <2>1. Line = <<>> /\ LineOf(msgs[i]) = <<>> /\ Meaning(msgs[i]) = <<Event("endTextMsg")>>
    <3>1. msgs[i].op = "end"
      BY <1>1, <1>5
    <3>2. LineOf(msgs[i]) = <<>>
      BY <3>1 DEF LineOf
    <3>3. Meaning(msgs[i]) = <<Event("endTextMsg")>>
      BY <3>1 DEF Meaning
    <3> QED BY <1>2, <3>2, <3>3
  <2>2. EmptyLine
    BY <1>2, <2>1, WhichLine
  <2>3. events' = Append(events, Event("endTextMsg"))
    BY <2>2 DEF EmptyLine, Emit
  <2> QED BY <1>2, <1>3, <1>5, <2>1, <2>2, <2>3
<1>6. CASE i # 1 /\ i # Len(msgs)
  <2>1. i \in Among(msgs)
    BY <1>1, <1>6 DEF Among
  <2>2. NextLine /\ events' = events \o Meaning(msgs[i]) /\ Suits(mParseState', msgs, i)
    BY <1>2, <1>6, <2>1, InnerStep
  <2> QED BY <1>2, <1>6, <2>2
<1> QED BY <1>4, <1>5, <1>6

\* What the messages of all transmissions may hand out.
Handed == {MeantBy(msg) : msg \in UNION {{msgs[i] : i \in DOMAIN msgs} : msgs \in Transmissions}}

LEMMA MeaningIs ==
    ASSUME NEW msg, IsTextPart(msg) \/ IsDataMsg(msg)
    PROVE  Meaning(msg) = <<>> \/ Meaning(msg) = <<MeantBy(msg)>>
<1>1. CASE IsDataMsg(msg)
  BY <1>1, OneMeaning
<1>2. CASE IsTextPart(msg)
  <2>1. \/ msg.op \in {"start", "end", "nodeNameRqst", "nodeNameRsp", "nodeQueryRqst"}
        \/ msg.op \in {"nodeQueryRspStart", "typedef", "provide", "require"}
    BY <1>2 DEF IsTextPart, IsDeclarationMsg
  <2>2. \/ Meaning(msg) = <<>> \/ \E e : Meaning(msg) = <<e>>
    <3>1. CASE msg.op \in {"start", "nodeNameRsp"}
      BY <3>1 DEF Meaning
    <3>2. CASE msg.op = "end"
      BY <3>2 DEF Meaning
    <3>3. CASE msg.op = "nodeNameRqst"
      BY <3>3 DEF Meaning
    <3>4. CASE msg.op \in {"nodeQueryRqst", "nodeQueryRspStart"}
      BY <3>4 DEF Meaning
    <3>5. CASE msg.op \in {"typedef", "provide", "require"}
      BY <3>5 DEF Meaning
    <3> QED BY <2>1, <3>1, <3>2, <3>3, <3>4, <3>5
  <2> QED BY <2>2 DEF MeantBy
<1> QED BY <1>1, <1>2

LEMMA MeaningsAre ==
    ASSUME NEW msgs \in Transmissions
    PROVE  /\ Meanings(msgs) \in Seq(Seq(Handed)) /\ Len(Meanings(msgs)) = Len(msgs)
           /\ \A n \in 1 .. Len(msgs) : Meanings(msgs)[n] = Meaning(msgs[n])
           /\ MeaningOfAll(msgs) = FlattenSeq(Meanings(msgs))
           /\ MeaningOfAll(msgs) \in Seq(Handed)
           /\ Len(msgs) \in Nat
<1>1. IsList(msgs) /\ Len(msgs) \in Nat /\ DOMAIN msgs = 1 .. Len(msgs)
  BY TransmissionIs, ListIs
<1>2. ASSUME NEW n \in DOMAIN msgs PROVE Meaning(msgs[n]) \in Seq(Handed)
  <2>1. MeantBy(msgs[n]) \in Handed
    BY DEF Handed
  <2>2. IsTextPart(msgs[n]) \/ IsDataMsg(msgs[n])
    <3>1. IsTextMessage(msgs) \/ IsDataMessages(msgs)
      BY Messages
    <3> QED BY <1>1, <3>1, PartsOfText DEF IsDataMessages
  <2>3. Meaning(msgs[n]) = <<>> \/ Meaning(msgs[n]) = <<MeantBy(msgs[n])>>
    BY <2>2, MeaningIs
  <2> DEFINE e == MeantBy(msgs[n])
  <2> HIDE DEF e
  <2>4. e \in Handed
    BY <2>1 DEF e
  <2>5. <<>> \in Seq(Handed) /\ <<e>> \in Seq(Handed)
    BY <2>4
  <2> QED BY <2>3, <2>5 DEF e
<1> DEFINE ms == Meanings(msgs)
           R == Seq(Handed)
<1>3. ms \in [1 .. Len(msgs) -> R] /\ \A n \in 1 .. Len(msgs) : ms[n] = Meaning(msgs[n])
  BY <1>1, <1>2 DEF Meanings
<1> HIDE DEF ms
<1>4. ms \in Seq(R) /\ Len(ms) = Len(msgs)
  <2> HIDE DEF R
  <2> QED BY <1>1, <1>3, OfLength
<1>5. MeaningOfAll(msgs) = FlattenSeq(ms)
  BY DEF MeaningOfAll, Meanings, ms
<1>6. FirstJoined(ms, Len(ms)) = FlattenSeq(ms) /\ FirstJoined(ms, Len(ms)) \in Seq(Handed)
  <2>1. Len(ms) \in 0 .. Len(ms)
    BY <1>1, <1>4
  <2> QED BY <1>4, <2>1, JoinedIs
<1> QED BY <1>1, <1>3, <1>4, <1>5, <1>6 DEF ms

\* Messages without characters are passed over: the next line is that of one behind them.
LEMMA NextHeard ==
    ASSUME NEW msgs \in Transmissions, IsTextMessage(msgs), NEW j \in 0 .. Len(msgs), j < Len(msgs),
           NEW meant \in {Meanings(msgs)}
    PROVE  \E i \in j + 1 .. Len(msgs) :
             /\ ~ Silent(msgs[i]) /\ (j = 0 => i = 1)
             /\ End(msgs, i - 1) = End(msgs, j) /\ FirstJoined(meant, i - 1) = FirstJoined(meant, j)
<1>1. /\ IsList(msgs) /\ Len(msgs) \in Nat /\ Len(msgs) >= 2 /\ DOMAIN msgs = 1 .. Len(msgs)
      /\ msgs[1].op = "start" /\ msgs[Len(msgs)].op = "end"
      /\ \A i \in 1 .. Len(msgs) : IsTextPart(msgs[i])
  BY TransmissionIs, TextMessageIs
<1> DEFINE heard == {i \in j + 1 .. Len(msgs) : ~ Silent(msgs[i])}
<1>2. Len(msgs) \in heard /\ heard \in SUBSET Nat
  <2>1. ~ Silent(msgs[Len(msgs)])
    BY <1>1 DEF Silent
  <2>2. Len(msgs) \in j + 1 .. Len(msgs)
    BY <1>1
  <2> QED BY <1>1, <2>1, <2>2
<1> DEFINE i == Min(heard)
<1>3. i \in heard /\ \A y \in heard : i <= y
  <2>1. heard # {}
    BY <1>2
  <2> HIDE DEF heard
  <2> QED BY <1>2, <2>1, MinOfNat
<1>4. i \in j + 1 .. Len(msgs) /\ ~ Silent(msgs[i])
  BY <1>3
<1>5. \A y \in j + 1 .. Len(msgs) : y < i => Silent(msgs[y])
  <2> SUFFICES ASSUME NEW y \in j + 1 .. Len(msgs), y < i, ~ Silent(msgs[y]) PROVE FALSE
    OBVIOUS
  <2>1. y \in heard
    OBVIOUS
  <2>2. i <= y
    BY <1>3, <2>1
  <2> HIDE DEF heard
  <2>3. i \in Int /\ y \in Int
    BY <1>1, <1>4
  <2> HIDE DEF i
  <2> QED BY <2>2, <2>3
<1> HIDE DEF heard, i
<1>6. j = 0 => i = 1
  <2> SUFFICES ASSUME j = 0, i # 1 PROVE FALSE
    OBVIOUS
  <2>1. 1 \in j + 1 .. Len(msgs) /\ 1 < i
    BY <1>1, <1>4
  <2>2. Silent(msgs[1])
    BY <1>5, <2>1
  <2> QED BY <1>1, <2>2 DEF Silent
<1> DEFINE n == (i - 1) - j
           good == {k \in 0 .. n : End(msgs, j + k) = End(msgs, j) /\ FirstJoined(meant, j + k) = FirstJoined(meant, j)}
<1>7. n \in Nat /\ j + n = i - 1 /\ i - 1 <= Len(msgs)
  BY <1>1, <1>4
<1>8. 0 .. n \subseteq good
  <2>1. 0 \in good
    BY <1>7
  <2>2. ASSUME NEW k \in 1 .. n, k - 1 \in good PROVE k \in good
    <3> DEFINE y == j + k
    <3>0. End(msgs, j + (k - 1)) = End(msgs, j) /\ FirstJoined(meant, j + (k - 1)) = FirstJoined(meant, j)
      BY <2>2
    <3> HIDE DEF good, n
    <3>1. /\ y \in 1 .. Len(msgs) /\ y \in j + 1 .. Len(msgs) /\ y < i /\ y - 1 = j + (k - 1)
          /\ k \in 0 .. n
      <4>1. j \in Nat /\ n \in Nat /\ k \in Nat /\ 1 <= k /\ k <= n /\ i \in Int /\ Len(msgs) \in Nat
        BY <1>1, <1>4, <1>7
      <4> QED BY <1>7, <4>1
    <3>2. End(msgs, y - 1) = End(msgs, j) /\ FirstJoined(meant, y - 1) = FirstJoined(meant, j)
      BY <3>0, <3>1
    <3> HIDE DEF y
    <3>3. Silent(msgs[y])
      BY <1>5, <3>1
    <3>4. Compose(msgs[y]) = <<>> /\ Meaning(msgs[y]) = <<>>
      <4>1. Compose(msgs[y]) = <<>>
        BY <1>1, <3>1, <3>3, TextCells
      <4>2. msgs[y].op = "nodeNameRsp"
        BY <3>3 DEF Silent
      <4> QED BY <4>1, <4>2 DEF Meaning
    <3>5. End(msgs, y) = End(msgs, y - 1)
      <4>1. End(msgs, y) = End(msgs, y - 1) + Len(Compose(msgs[y])) /\ End(msgs, y - 1) \in Nat
        <5>1. y - 1 \in 0 .. Len(msgs)
          BY <1>1, <3>1
        <5> QED BY <1>1, <3>1, <5>1, TransmissionIs, ComposedTogether
      <4>2. Len(Compose(msgs[y])) = 0
        BY <3>4
      <4> QED BY <4>1, <4>2
    <3>6. FirstJoined(meant, y) = FirstJoined(meant, y - 1)
      <4>1. /\ meant \in Seq(Seq(Handed)) /\ Len(meant) = Len(msgs)
            /\ meant[y] = <<>>
        BY <3>1, <3>4, MeaningsAre
      <4>2. FirstJoined(meant, y) = FirstJoined(meant, y - 1) \o meant[y] /\ FirstJoined(meant, y - 1) \in Seq(Handed)
        <5>1. y - 1 \in 0 .. Len(meant) /\ y \in 1 .. Len(meant)
          BY <1>1, <3>1, <4>1
        <5>2. meant \in Seq(Seq(Handed))
          BY <4>1
        <5> HIDE DEF n
        <5> QED BY <5>1, <5>2, JoinedIs
      <4> QED BY <4>1, <4>2, ConcatEmptySeq
    <3>7. End(msgs, y) = End(msgs, j) /\ FirstJoined(meant, y) = FirstJoined(meant, j)
      BY <3>2, <3>5, <3>6
    <3> QED BY <3>1, <3>7 DEF y, good
  <2> HIDE DEF good, n
  <2> QED BY <1>7, <2>1, <2>2, Reached
<1>9. End(msgs, i - 1) = End(msgs, j) /\ FirstJoined(meant, i - 1) = FirstJoined(meant, j)
  <2>1. n \in good
    BY <1>7, <1>8
  <2> QED BY <1>7, <2>1
<1> QED BY <1>4, <1>6, <1>9

\* Of a transmission the first j messages are done with.
ReadText(msgs, j) ==
    /\ IsTextMessage(msgs) /\ pc = "loop" /\ j < Len(msgs)
    /\ j = 0 => mParseState = "NONE"
    /\ j # 0 => Suits(mParseState, msgs, j)

ReadData(msgs) ==
    /\ IsDataMessages(msgs) /\ mark = 0 /\ mParseState = "NONE"
    /\ pc = "loop" => pos = 0 \/ pos = Len(bytes)

\* A transmission that means ms is read, its messages handed out after the events before.
Reading(before, msgs, ms) ==
    /\ pc \in {"loop", "data"} /\ shared /\ bytes = ComposeAll(msgs) /\ m_buf = bytes
    /\ \E j \in 0 .. Len(msgs) :
         /\ pos = End(msgs, j) /\ events = before \o FirstJoined(ms, j)
         /\ ReadText(msgs, j) \/ ReadData(msgs)

\* Nothing is left of those that were read.
AllRead(meant) == pc = "idle" /\ m_buf = <<>> /\ mParseState = "NONE" /\ events = meant

\* The end of write() behind the whole buffer.
LEMMA WholeFinished ==
    ASSUME NEW n \in Nat, Finish(n), m_buf \in Seq(Byte), n = Len(m_buf)
    PROVE  m_buf' = <<>> /\ pc' = "idle"
<1>1. m_buf' = SubSeq(m_buf, n + 1, Len(m_buf)) /\ pc' = "idle"
  BY DEF Finish, Drop
<1>2. SubSeq(m_buf, n + 1, Len(m_buf)) = <<>>
  <2>1. SubSeq(m_buf, n + 1, n) \in Seq(Byte) /\ Len(SubSeq(m_buf, n + 1, n)) = n - n
    BY PartIs
  <2> DEFINE e == SubSeq(m_buf, n + 1, n)
  <2>2. e \in Seq(Byte) /\ Len(e) = 0
    BY <2>1
  <2> HIDE DEF e
  <2>3. e = <<>>
    BY <2>2, EmptySeq
  <2> QED BY <2>3 DEF e
<1> QED BY <1>1, <1>2

LEMMA Associates ==
    ASSUME NEW S
    PROVE  \A s, t, u \in Seq(S) : (s \o t) \o u = s \o (t \o u)
BY ConcatAssociative

\* The next events follow those before.
LEMMA NextMeant ==
    ASSUME NEW S, NEW ms \in Seq(Seq(S)), NEW before \in Seq(S), NEW i \in 1 .. Len(ms)
    PROVE  /\ (before \o FirstJoined(ms, i - 1)) \o ms[i] = before \o FirstJoined(ms, i)
           /\ before \o FirstJoined(ms, i) \in Seq(S) /\ before \o FirstJoined(ms, i - 1) \in Seq(S)
           /\ FirstJoined(ms, Len(ms)) = FlattenSeq(ms)
<1>1. i - 1 \in 0 .. Len(ms) /\ i \in 0 .. Len(ms)
  BY LenProperties
<1>2. /\ FirstJoined(ms, i) = FirstJoined(ms, i - 1) \o ms[i] /\ FirstJoined(ms, i - 1) \in Seq(S)
      /\ FirstJoined(ms, i) \in Seq(S) /\ FirstJoined(ms, Len(ms)) = FlattenSeq(ms)
  BY <1>1, JoinedIs
<1>3. ms[i] \in Seq(S)
  <2> DEFINE R == Seq(S)
  <2>1. ms \in Seq(R)
    OBVIOUS
  <2> HIDE DEF R
  <2>2. ms[i] \in R
    BY <2>1, ElementOfSeq
  <2> QED BY <2>2 DEF R
<1> DEFINE a == FirstJoined(ms, i - 1)
           b == ms[i]
<1>4. a \in Seq(S) /\ b \in Seq(S)
  BY <1>2, <1>3
<1> HIDE DEF a, b
<1>5. (before \o a) \o b = before \o (a \o b)
  <2>1. \A s, t, u \in Seq(S) : (s \o t) \o u = s \o (t \o u)
    BY Associates, SMTT(30)
  <2> QED BY <1>4, <2>1, Zenon
<1>6. before \o a \in Seq(S) /\ before \o (a \o b) \in Seq(S)
  <2>1. a \o b \in Seq(S)
    BY <1>4, ConcatProperties
  <2> QED BY <1>4, <2>1, ConcatProperties
<1> QED BY <1>2, <1>5, <1>6 DEF a, b

\* A step of the loop in a text message.
LEMMA TextRead ==
    ASSUME NEW msgs \in Transmissions, NEW ms \in {Meanings(msgs)}, NEW before \in Seq(Handed),
           pc \in {"loop", "data"}, shared, bytes = ComposeAll(msgs), m_buf = bytes,
           NEW j \in 0 .. Len(msgs), pos = End(msgs, j), events = before \o FirstJoined(ms, j),
           ReadText(msgs, j), TextLoop \/ DataLoop
    PROVE  Reading(before, msgs, ms)' \/ AllRead(before \o FlattenSeq(ms))'
<1>1. /\ IsList(msgs) /\ IsTextMessage(msgs) /\ pc = "loop" /\ j < Len(msgs) /\ j \in Nat
      /\ Len(msgs) \in Nat /\ \A n \in DOMAIN msgs : Compose(msgs[n]) \in Seq(Byte)
  <2>1. IsTextMessage(msgs) /\ pc = "loop" /\ j < Len(msgs)
    BY DEF ReadText
  <2> QED BY <2>1, TransmissionIs, ListIs
<1>2. TextLoop
  BY <1>1 DEF DataLoop, Message, AtData, Incomplete, LeaveData
<1>3. PICK i \in j + 1 .. Len(msgs) :
        /\ ~ Silent(msgs[i]) /\ (j = 0 => i = 1)
        /\ End(msgs, i - 1) = End(msgs, j) /\ FirstJoined(ms, i - 1) = FirstJoined(ms, j)
  BY <1>1, NextHeard
<1>4. i \in 1 .. Len(msgs) /\ i \in Nat /\ j <= i - 1 /\ i - 1 \in Nat /\ (i = 1 => j = 0)
  BY <1>1
<1>5. ms \in Seq(Seq(Handed)) /\ Len(ms) = Len(msgs) /\ ms[i] = Meaning(msgs[i])
  BY <1>4, MeaningsAre
<1>6. /\ (before \o FirstJoined(ms, i - 1)) \o ms[i] = before \o FirstJoined(ms, i)
      /\ before \o FirstJoined(ms, i - 1) \in Seq(Handed) /\ FirstJoined(ms, Len(ms)) = FlattenSeq(ms)
  <2>1. i \in 1 .. Len(ms) /\ ms \in Seq(Seq(Handed))
    BY <1>4, <1>5
  <2> QED BY <2>1, NextMeant
<1>7. events = before \o FirstJoined(ms, i - 1) /\ pos = End(msgs, i - 1)
  BY <1>3
<1>8. events \in Seq({events[n] : n \in DOMAIN events})
  <2>1. events \in Seq(Handed)
    BY <1>6, <1>7
  <2> DEFINE R == {events[n] : n \in DOMAIN events}
  <2>2. \A n \in 1 .. Len(events) : events[n] \in R
    <3>1. DOMAIN events = 1 .. Len(events)
      BY <2>1, LenProperties
    <3> QED BY <3>1
  <2> HIDE DEF R
  <2>3. events \in Seq(R)
    BY <2>1, <2>2, SameElements
  <2> QED BY <2>3 DEF R
<1>9. (i = 1 => mParseState = "NONE") /\ (i # 1 => Suits(mParseState, msgs, i - 1))
  <2>1. i = 1 => mParseState = "NONE"
    BY <1>4 DEF ReadText
  <2>2. i # 1 => j # 0
    BY <1>3
  <2>3. i # 1 => Suits(mParseState, msgs, j)
    BY <2>2 DEF ReadText
  <2>4. i # 1 => Suits(mParseState, msgs, i - 1)
    BY <1>1, <1>4, <2>3, SuitsLater
  <2> QED BY <2>1, <2>4
<1>10. /\ events' = events \o Meaning(msgs[i])
       /\ i # Len(msgs) => NextLine /\ LineEnd + 1 = End(msgs, i) /\ Suits(mParseState', msgs, i)
       /\ i = Len(msgs) => EmptyLine /\ pos + 1 = End(msgs, i)
  BY <1>1, <1>2, <1>3, <1>4, <1>7, <1>8, <1>9, MessageLine
<1>11. events' = before \o FirstJoined(ms, i)
  BY <1>5, <1>6, <1>7, <1>10
<1>12. CASE i # Len(msgs)
  <2>1. /\ pos' = End(msgs, i) /\ pc' = "loop" /\ m_buf' = m_buf /\ bytes' = bytes /\ shared' = shared
        /\ Suits(mParseState', msgs, i)
    BY <1>10, <1>12 DEF NextLine, loopVars
  <2>2. i < Len(msgs) /\ i # 0 /\ i \in 0 .. Len(msgs)
    BY <1>1, <1>4, <1>12
  <2>3. ReadText(msgs, i)'
    BY <1>1, <2>1, <2>2 DEF ReadText
  <2> QED BY <1>11, <2>1, <2>2, <2>3 DEF Reading
<1>13. CASE i = Len(msgs)
  <2>1. mParseState' = "NONE" /\ Finish(pos + 1)
    BY <1>10, <1>13 DEF EmptyLine
  <2>2. pos + 1 \in Nat /\ pos + 1 = Len(m_buf) /\ m_buf \in Seq(Byte)
    <3>1. /\ ComposeAll(msgs) \in Seq(Byte) /\ End(msgs, Len(msgs)) = Len(ComposeAll(msgs))
      BY <1>1, ComposedTogether
    <3> QED BY <1>10, <1>13, <3>1, LenProperties
  <2>3. m_buf' = <<>> /\ pc' = "idle"
    BY <2>1, <2>2, WholeFinished
  <2>4. events' = before \o FlattenSeq(ms)
    BY <1>5, <1>6, <1>11, <1>13
  <2> QED BY <2>1, <2>3, <2>4 DEF AllRead
<1> QED BY <1>12, <1>13

\* A step of the loops in data messages.
LEMMA DataRead ==
    ASSUME NEW msgs \in Transmissions, NEW ms \in {Meanings(msgs)}, NEW before \in Seq(Handed),
           pc \in {"loop", "data"}, shared, bytes = ComposeAll(msgs), m_buf = bytes,
           NEW j \in 0 .. Len(msgs), pos = End(msgs, j), events = before \o FirstJoined(ms, j),
           ReadData(msgs), TextLoop \/ DataLoop
    PROVE  Reading(before, msgs, ms)' \/ AllRead(before \o FlattenSeq(ms))'
<1>1. IsPlan(msgs) /\ IsDataMessages(msgs) /\ mark = 0 /\ mParseState = "NONE"
  BY TransmissionIs DEF ReadData, IsPlan
<1>2. /\ Len(msgs) \in Nat /\ bytes \in Seq(Byte) /\ Len(bytes) \in Nat /\ pos \in Nat
      /\ End(msgs, 0) = 0 /\ End(msgs, Len(msgs)) = Len(bytes)
      /\ \A n \in 0 .. Len(msgs) : End(msgs, n) \in Nat
      /\ \A n \in 0 .. Len(msgs) : \A m \in 0 .. Len(msgs) : n < m => End(msgs, n) < End(msgs, m)
      /\ \A n \in 1 .. Len(msgs) : /\ End(msgs, n) = End(msgs, n - 1) + Len(Compose(msgs[n]))
                                   /\ StandsAt(bytes, End(msgs, n - 1), Compose(msgs[n]))
                                   /\ IsDataMsg(msgs[n]) /\ Compose(msgs[n]) \in Seq(Byte)
  BY <1>1, PlanIs
<1>3. pos <= Len(bytes) /\ (pos = Len(bytes) => j = Len(msgs))
  <2>1. j \in 0 .. Len(msgs) /\ Len(msgs) \in 0 .. Len(msgs) /\ (j < Len(msgs) \/ j = Len(msgs))
    BY <1>2
  <2>2. j < Len(msgs) => pos < Len(bytes)
    BY <1>2, <2>1
  <2> QED BY <1>2, <2>1, <2>2
<1>4. ms \in Seq(Seq(Handed)) /\ Len(ms) = Len(msgs) /\ \A n \in 1 .. Len(msgs) : ms[n] = Meaning(msgs[n])
  BY MeaningsAre
<1>5. pos < Len(bytes) =>
        /\ j + 1 \in 1 .. Len(msgs) /\ bytes[pos+1] >= 128
        /\ bytes[pos+1] \in Int
        /\ Complete /\ pos + HeaderLen + MsgLen = End(msgs, j + 1)
        /\ EmitMessage => events' = Append(events, MeantBy(msgs[j+1]))
  <2> SUFFICES ASSUME pos < Len(bytes)
               PROVE  /\ j + 1 \in 1 .. Len(msgs) /\ bytes[pos+1] >= 128
                      /\ bytes[pos+1] \in Int
                      /\ Complete /\ pos + HeaderLen + MsgLen = End(msgs, j + 1)
                      /\ EmitMessage => events' = Append(events, MeantBy(msgs[j+1]))
    OBVIOUS
  <2> DEFINE i == j + 1
             m == msgs[i]
  <2>1. i \in 1 .. Len(msgs) /\ i - 1 = j /\ i \in 0 .. Len(msgs)
    <3>1. j # Len(msgs)
      BY <1>2
    <3> QED BY <1>2, <3>1
  <2> HIDE DEF i
  <2>2. /\ IsDataMsg(m) /\ Compose(m) \in Seq(Byte) /\ StandsAt(bytes, pos, Compose(m))
        /\ End(msgs, i) = pos + Len(Compose(m))
    BY <1>2, <2>1
  <2>3. Begins(bytes, pos, Compose(m)) /\ pos + Len(Compose(m)) <= Len(bytes)
    BY <2>2 DEF StandsAt, Begins
  <2> HIDE DEF m
  <2>4. /\ bytes[pos+1] >= 128 /\ Complete /\ pos + HeaderLen + MsgLen = pos + Len(Compose(m))
        /\ EmitMessage => events' = Append(events, MeantBy(m))
    BY <1>2, <2>2, <2>3, MessageFound
  <2>5. bytes[pos+1] \in Int
    <3>1. pos + 1 \in 1 .. Len(bytes)
      BY <1>2
    <3>2. bytes[pos+1] \in Byte
      BY <1>2, <3>1, ElementOfSeq
    <3>3. \A x \in Byte : x \in Int
      BY DEF Byte
    <3> QED BY <3>2, <3>3
  <2> QED BY <2>1, <2>2, <2>4, <2>5 DEF i, m
<1>6. ~ AtText
  <2> SUFFICES ASSUME AtText PROVE FALSE
    OBVIOUS
  <2>1. pos < Len(bytes) /\ bytes[pos+1] < 128
    BY DEF AtText
  <2> QED BY <1>5, <2>1
<1>7. EnterData \/ WriteEnd \/ DataLoop
  BY <1>6 DEF TextLoop, EmptyLine, HeaderLine, FirstLine, DiscoveryLine, Declaration,
              BadFirstDeclaration, BadDeclaration, OtherLine
<1>8. CASE EnterData
  <2>1. /\ pc' = "data" /\ mark' = pos /\ pc = "loop" /\ pos < Len(bytes)
        /\ UNCHANGED <<mParseState, m_buf, bytes, shared, pos, events>>
    BY <1>8 DEF EnterData
  <2>2. pos = 0
    BY <1>2, <2>1 DEF ReadData
  <2>3. ReadData(msgs)'
    BY <1>1, <2>1, <2>2 DEF ReadData
  <2> QED BY <2>1, <2>3 DEF Reading
<1>9. CASE WriteEnd
  <2>1. pos >= Len(bytes) /\ Finish(pos) /\ mParseState' = mParseState /\ events' = events
    BY <1>9 DEF WriteEnd
  <2>2. pos = Len(m_buf) /\ j = Len(msgs)
    BY <1>2, <1>3, <2>1
  <2>3. m_buf' = <<>> /\ pc' = "idle"
    BY <1>2, <2>1, <2>2, WholeFinished
  <2>4. events = before \o FlattenSeq(ms)
    BY <1>4, <2>2, JoinedIs
  <2> QED BY <1>1, <2>1, <2>3, <2>4 DEF AllRead
<1>10. CASE Message
  <2> DEFINE i == j + 1
  <2>1. /\ pos < Len(bytes) /\ EmitMessage /\ pos' = pos + HeaderLen + MsgLen /\ pc = "data"
        /\ UNCHANGED <<mParseState, m_buf, pc, bytes, shared, mark>>
    BY <1>10 DEF Message, AtData, loopVars
  <2>2. /\ i \in 1 .. Len(msgs) /\ i \in 0 .. Len(msgs) /\ i - 1 = j /\ pos' = End(msgs, i)
        /\ events' = Append(events, MeantBy(msgs[i]))
    <3>1. i \in 1 .. Len(msgs) /\ pos' = End(msgs, i)
      BY <1>5, <2>1
    <3>2. events' = Append(events, MeantBy(msgs[i]))
      BY <1>5, <2>1
    <3>3. i \in 0 .. Len(msgs)
      BY <1>2, <3>1
    <3>4. i - 1 = j
      BY <1>2
    <3> HIDE DEF i
    <3> QED BY <3>1, <3>2, <3>3, <3>4
  <2> HIDE DEF i
  <2>3. events' = before \o FirstJoined(ms, i)
    <3>1. IsDataMsg(msgs[i])
      BY <1>2, <2>2
    <3>2. ms[i] = <<MeantBy(msgs[i])>>
      BY <1>4, <2>2, <3>1, OneMeaning
    <3>3. i \in 1 .. Len(ms) /\ ms \in Seq(Seq(Handed))
      BY <1>4, <2>2
    <3>4. /\ (before \o FirstJoined(ms, i - 1)) \o ms[i] = before \o FirstJoined(ms, i)
      BY <3>3, NextMeant
    <3> DEFINE e == MeantBy(msgs[i])
    <3>5. events' = Append(events, e) /\ ms[i] = <<e>> /\ events = before \o FirstJoined(ms, i - 1)
      BY <2>2, <3>2
    <3> HIDE DEF e
    <3>6. events \o <<e>> = Append(events, e)
      OBVIOUS
    <3> QED BY <3>4, <3>5, <3>6
  <2>4. ReadData(msgs)'
    BY <1>1, <2>1 DEF ReadData
  <2> QED BY <2>1, <2>2, <2>3, <2>4 DEF Reading
<1>11. CASE Incomplete
  BY <1>5, <1>11 DEF Incomplete, AtData
<1>12. CASE LeaveData
  <2>1. /\ pc' = "loop" /\ pos >= Len(bytes)
        /\ UNCHANGED <<mParseState, m_buf, bytes, shared, mark, pos, events>>
    BY <1>12 DEF LeaveData, loopVars
  <2>2. pos = Len(bytes)
    BY <1>2, <1>3, <2>1
  <2>3. ReadData(msgs)'
    BY <1>1, <2>1, <2>2 DEF ReadData
  <2> QED BY <2>1, <2>3 DEF Reading
<1> QED BY <1>7, <1>8, <1>9, <1>10, <1>11, <1>12 DEF DataLoop

-----------------------------------------------------------------------------
(* What the transmissions sent so far mean. *)

MeantAll == [n \in DOMAIN sent |-> MeaningOfAll(sent[n])]

LEMMA MeantAre ==
    ASSUME sent \in Seq(Transmissions)
    PROVE  /\ MeantAll \in Seq(Seq(Handed)) /\ Len(MeantAll) = Len(sent) /\ Len(sent) \in Nat
           /\ DOMAIN sent = 1 .. Len(sent)
           /\ \A n \in 1 .. Len(sent) : MeantAll[n] = MeaningOfAll(sent[n]) /\ sent[n] \in Transmissions
<1>1. DOMAIN sent = 1 .. Len(sent) /\ Len(sent) \in Nat
  BY LenProperties
<1>2. \A n \in 1 .. Len(sent) : sent[n] \in Transmissions
  BY ElementOfSeq
<1> DEFINE ms == MeantAll
           R == Seq(Handed)
<1>3. ms \in [1 .. Len(sent) -> R] /\ \A n \in 1 .. Len(sent) : ms[n] = MeaningOfAll(sent[n])
  <2>1. \A n \in 1 .. Len(sent) : MeaningOfAll(sent[n]) \in R
    BY <1>2, MeaningsAre
  <2> QED BY <1>1, <2>1 DEF MeantAll
<1> HIDE DEF ms, R
<1>4. ms \in Seq(R) /\ Len(ms) = Len(sent)
  BY <1>1, <1>3, OfLength
<1> QED BY <1>1, <1>2, <1>3, <1>4 DEF ms, R

LEMMA SameMeant ==
    ASSUME asserts' = asserts
    PROVE  /\ \A msgs : Meanings(msgs)' = Meanings(msgs) /\ MeaningOfAll(msgs)' = MeaningOfAll(msgs)
           /\ sent' = sent => MeantAll' = MeantAll
<1>1. ASSUME NEW msgs PROVE Meanings(msgs)' = Meanings(msgs) /\ MeaningOfAll(msgs)' = MeaningOfAll(msgs)
  <2>1. \A n : Meaning(msgs[n])' = Meaning(msgs[n])
    BY SameMeaning
  <2> QED BY <2>1 DEF Meanings, MeaningOfAll
<1>2. ASSUME sent' = sent PROVE MeantAll' = MeantAll
  <2>1. MeantAll' = [n \in DOMAIN sent' |-> MeaningOfAll(sent[n])']
    BY DEF MeantAll
  <2>2. \A n : MeaningOfAll(sent[n])' = MeaningOfAll(sent[n])
    <3> TAKE n
    <3>1. MeaningOfAll(sent[n])' = FlattenSeq([k \in DOMAIN sent'[n] |-> Meaning(sent[n][k])'])
      BY DEF MeaningOfAll
    <3>2. \A k : Meaning(sent[n][k])' = Meaning(sent[n][k])
      BY <1>2 DEF Meaning
    <3> QED BY <1>2, <3>1, <3>2 DEF MeaningOfAll
  <2> QED BY <1>2, <2>1, <2>2 DEF MeantAll
<1> QED BY <1>1, <1>2

\* The w-th transmission is being read.
InProgress(w, meant) ==
    w # 0 /\ \E msgs \in Transmissions : \E ms :
               msgs = sent[w] /\ ms = Meanings(msgs) /\ Reading(FirstJoined(meant, w - 1), msgs, ms)

\* The first w transmissions were passed to write(), of which the last may still be read.
LinkState(w, meant) ==
    /\ step \in {"begin", "write"} /\ (step = "begin" => sent = <<>>)
    /\ sent \in Seq(Transmissions) /\ Len(sent) = w + Len(chunks)
    /\ \A i \in 1 .. Len(chunks) : chunks[i] = ComposeAll(sent[w+i])
    /\ AllRead(FirstJoined(meant, w)) \/ InProgress(w, meant)

LinkInv == user = "link" => \E w \in Nat : \E meant : meant = MeantAll /\ LinkState(w, meant)

LEMMA LinkStart ==
    ASSUME Init
    PROVE  LinkInv
<1> SUFFICES ASSUME user = "link" PROVE \E w \in Nat : \E meant : meant = MeantAll /\ LinkState(w, meant)
  BY DEF LinkInv
<1>1. sent = <<>> /\ chunks = <<>> /\ step = "begin" /\ IStreamInit
  BY DEF Init, ParserInit, LinkInit
<1>2. sent \in Seq(Transmissions)
  BY <1>1
<1>3. FirstJoined(MeantAll, 0) = <<>>
  BY <1>2, MeantAre, JoinedIs
<1>4. AllRead(FirstJoined(MeantAll, 0))
  BY <1>1, <1>3 DEF AllRead, IStreamInit
<1>5. Len(sent) = 0 + Len(chunks) /\ 1 .. Len(chunks) = {}
  BY <1>1
<1> DEFINE meant == MeantAll
           w == 0
<1>6. w \in Nat /\ LinkState(w, meant)
  BY <1>1, <1>2, <1>4, <1>5 DEF LinkState
<1> HIDE DEF meant, w
<1>7. meant = MeantAll
  BY DEF meant
<1> QED BY <1>6, <1>7

\* What depends on the stream only stays when the stream does not move.
LEMMA StreamStays ==
    ASSUME UNCHANGED <<asserts, pc, m_buf, mParseState, events, shared, bytes, pos, mark>>, NEW meant,
           NEW w
    PROVE  /\ AllRead(meant) => AllRead(meant)'
           /\ InProgress(w, meant) /\ sent'[w] = sent[w] => InProgress(w, meant)'
<1>1. AllRead(meant) => AllRead(meant)'
  BY DEF AllRead
<1>2. ASSUME InProgress(w, meant), sent'[w] = sent[w] PROVE InProgress(w, meant)'
  <2>1. w # 0
    BY <1>2 DEF InProgress
  <2>2. PICK msgs, ms :
          msgs \in Transmissions /\ msgs = sent[w] /\ ms = Meanings(msgs) /\ Reading(FirstJoined(meant, w - 1), msgs, ms)
    BY <1>2 DEF InProgress
  <2>3. ms = Meanings(msgs)' /\ msgs = sent'[w]
    BY <1>2, <2>2, SameMeant
  <2>4. Reading(FirstJoined(meant, w - 1), msgs, ms)'
    BY <2>2 DEF Reading, ReadText, ReadData
  <2> QED BY <2>1, <2>2, <2>3, <2>4 DEF InProgress
<1> QED BY <1>1, <1>2

LEMMA LinkOpen ==
    ASSUME NEW w \in Nat, NEW meant \in {MeantAll}, LinkState(w, meant), chunks \in Seq(Seq(Byte)),
           OpenStream, user = "link"
    PROVE  meant = MeantAll' /\ LinkState(w, meant)'
<1>1. /\ step = "begin" /\ Open /\ step' = "write" /\ chunks' = <<>> /\ sent' = sent
  BY DEF OpenStream
<1>2. /\ pc = "idle" /\ UNCHANGED <<asserts, pc, m_buf, mParseState, events, shared, bytes, pos, mark>>
  BY <1>1 DEF Open, loopVars
<1>3. sent = <<>> /\ sent \in Seq(Transmissions) /\ Len(sent) = w + Len(chunks)
  BY <1>1 DEF LinkState
<1>4. w = 0 /\ Len(sent) = w + Len(chunks')
  <2>1. Len(chunks) \in Nat /\ Len(sent) = 0 /\ Len(chunks') = 0
    BY <1>1, <1>3, LenProperties
  <2> QED BY <1>3, <2>1
<1>5. AllRead(FirstJoined(meant, w))
  BY <1>4 DEF LinkState, InProgress
<1>6. AllRead(FirstJoined(meant, w))'
  BY <1>2, <1>5 DEF AllRead
<1>7. meant = MeantAll'
  BY <1>1, <1>2, SameMeant
<1>8. 1 .. Len(chunks') = {}
  BY <1>1
<1> QED BY <1>1, <1>3, <1>4, <1>6, <1>7, <1>8 DEF LinkState

LEMMA LinkTransmit ==
    ASSUME NEW w \in Nat, NEW meant \in {MeantAll}, LinkState(w, meant), chunks \in Seq(Seq(Byte)),
           NEW msgs \in Transmissions, Transmit(msgs)
    PROVE  \E all : all = MeantAll' /\ LinkState(w, all)'
<1>1. /\ step = "write" /\ sent' = Append(sent, msgs) /\ chunks' = Append(chunks, ComposeAll(msgs))
      /\ step' = step /\ istreamVars' = istreamVars
  BY DEF Transmit, parseVars
<1>2. UNCHANGED <<asserts, pc, m_buf, mParseState, events, shared, bytes, pos, mark>>
  BY <1>1 DEF istreamVars, parserVars
<1>3. /\ sent \in Seq(Transmissions) /\ Len(sent) = w + Len(chunks)
      /\ \A i \in 1 .. Len(chunks) : chunks[i] = ComposeAll(sent[w+i])
      /\ AllRead(FirstJoined(meant, w)) \/ InProgress(w, meant)
  BY DEF LinkState
<1>4. Len(sent) \in Nat /\ Len(chunks) \in Nat /\ w <= Len(sent)
  BY <1>3, LenProperties
<1>5. /\ sent' \in Seq(Transmissions) /\ Len(sent') = Len(sent) + 1
      /\ \A i \in 1 .. Len(sent) : sent'[i] = sent[i]
      /\ sent'[Len(sent)+1] = msgs
  BY <1>1, <1>3, AppendProperties
<1>6. /\ Len(chunks') = Len(chunks) + 1 /\ \A i \in 1 .. Len(chunks) : chunks'[i] = chunks[i]
      /\ chunks'[Len(chunks)+1] = ComposeAll(msgs)
  <2> DEFINE c == ComposeAll(msgs)
             R == Seq(Byte)
  <2>1. c \in R /\ chunks \in Seq(R)
    BY TransmissionIs
  <2> HIDE DEF c, R
  <2>2. chunks' = Append(chunks, c)
    BY <1>1 DEF c
  <2> QED BY <2>1, <2>2, AppendProperties DEF c
<1>7. PICK all : all = MeantAll'
  OBVIOUS
<1>8. /\ meant \in Seq(Seq(Handed)) /\ Len(meant) = Len(sent)
      /\ \A n \in 1 .. Len(sent) : meant[n] = MeaningOfAll(sent[n])
  BY <1>3, MeantAre
<1>9. \A k \in 0 .. Len(sent) : FirstJoined(all, k) = FirstJoined(meant, k)
  <2> DEFINE R == Seq(Handed)
  <2>1. all = [n \in 1 .. Len(sent) + 1 |-> MeaningOfAll(sent'[n])]
    <3>1. DOMAIN sent' = 1 .. Len(sent) + 1
      BY <1>5, LenProperties
    <3>2. all = [n \in DOMAIN sent' |-> MeaningOfAll(sent[n])']
      BY <1>7 DEF MeantAll
    <3>3. \A n : MeaningOfAll(sent[n])' = MeaningOfAll(sent'[n])
      <4> TAKE n
      <4>1. MeaningOfAll(sent[n])' = FlattenSeq([k \in DOMAIN sent'[n] |-> Meaning(sent[n][k])'])
        BY DEF MeaningOfAll
      <4>2. \A k : Meaning(sent[n][k])' = Meaning(sent'[n][k])
        BY <1>2 DEF Meaning
      <4> QED BY <4>1, <4>2 DEF MeaningOfAll
    <3> QED BY <3>1, <3>2, <3>3
  <2>2. \A n \in 1 .. Len(sent) + 1 : sent'[n] \in Transmissions
    <3>1. \A n \in 1 .. Len(sent') : sent'[n] \in Transmissions
      <4> DEFINE s == sent'
      <4>1. s \in Seq(Transmissions)
        BY <1>5
      <4> HIDE DEF s
      <4>2. \A n \in 1 .. Len(s) : s[n] \in Transmissions
        BY <4>1, ElementOfSeq
      <4> QED BY <4>2 DEF s
    <3> QED BY <1>5, <3>1
  <2>3. all \in [1 .. Len(sent) + 1 -> R] /\ \A n \in 1 .. Len(sent) : all[n] = meant[n]
    <3>1. \A n \in 1 .. Len(sent) + 1 : MeaningOfAll(sent'[n]) \in R
      BY <2>2, MeaningsAre
    <3>2. \A n \in 1 .. Len(sent) : n \in 1 .. Len(sent) + 1 /\ MeaningOfAll(sent'[n]) = meant[n]
      BY <1>4, <1>5, <1>8
    <3> QED BY <2>1, <3>1, <3>2
  <2> HIDE DEF R
  <2>4. all \in Seq(R) /\ Len(all) = Len(sent) + 1
    <3>1. Len(sent) + 1 \in Nat
      BY <1>4
    <3> QED BY <2>3, <3>1, OfLength
  <2> SUFFICES ASSUME NEW k \in 0 .. Len(sent) PROVE FirstJoined(all, k) = FirstJoined(meant, k)
    OBVIOUS
  <2>5. meant \in Seq(R) /\ k \in Nat /\ k <= Len(all) /\ k <= Len(meant)
    BY <1>4, <1>8, <2>4 DEF R
  <2>6. \A i \in 1 .. k : all[i] = meant[i]
    BY <1>4, <2>3
  <2> QED BY <2>4, <2>5, <2>6, JoinedSame
<1>10. FirstJoined(all, w) = FirstJoined(meant, w) /\ (w # 0 => FirstJoined(all, w - 1) = FirstJoined(meant, w - 1))
  <2>1. w \in 0 .. Len(sent) /\ (w # 0 => w - 1 \in 0 .. Len(sent))
    BY <1>4
  <2> QED BY <1>9, <2>1
<1>11. AllRead(FirstJoined(all, w))' \/ InProgress(w, all)'
  <2>1. CASE AllRead(FirstJoined(meant, w))
    <3>1. AllRead(FirstJoined(all, w))
      BY <1>10, <2>1
    <3> QED BY <1>2, <3>1 DEF AllRead
  <2>2. CASE InProgress(w, meant)
    <3>1. w # 0
      BY <2>2 DEF InProgress
    <3>2. InProgress(w, all)
      BY <1>10, <2>2, <3>1 DEF InProgress
    <3>3. sent'[w] = sent[w]
      <4>1. w \in 1 .. Len(sent)
        BY <1>4, <3>1
      <4> QED BY <1>5, <4>1
    <3> QED BY <1>2, <3>2, <3>3, StreamStays
  <2> QED BY <1>3, <2>1, <2>2
<1>12. ASSUME NEW i \in 1 .. Len(chunks') PROVE chunks'[i] = ComposeAll(sent'[w+i])
  <2>1. CASE i <= Len(chunks)
    <3>1. i \in 1 .. Len(chunks) /\ w + i \in 1 .. Len(sent)
      BY <1>3, <1>4, <1>6, <2>1
    <3> QED BY <1>3, <1>5, <1>6, <3>1
  <2>2. CASE ~ (i <= Len(chunks))
    <3>1. i = Len(chunks) + 1 /\ w + i = Len(sent) + 1
      <4>1. i \in 1 .. Len(chunks) + 1
        BY <1>6
      <4>2. i = Len(chunks) + 1
        BY <1>4, <2>2, <4>1
      <4> QED BY <1>3, <1>4, <4>2
    <3>2. chunks'[i] = ComposeAll(msgs)
      BY <1>6, <3>1
    <3>3. sent'[w+i] = msgs
      BY <1>5, <3>1
    <3> QED BY <3>2, <3>3
  <2> QED BY <2>1, <2>2
<1>13. Len(sent') = w + Len(chunks')
  BY <1>3, <1>4, <1>5, <1>6
<1>14. LinkState(w, all)'
  BY <1>1, <1>5, <1>11, <1>12, <1>13 DEF LinkState
<1> QED BY <1>7, <1>14

LEMMA LinkWrite ==
    ASSUME NEW w \in Nat, NEW meant \in {MeantAll}, LinkState(w, meant), chunks \in Seq(Seq(Byte)),
           WriteChunk
    PROVE  meant = MeantAll' /\ \E v \in Nat : LinkState(v, meant)'
<1>1. /\ step = "write" /\ chunks # <<>> /\ Write(Head(chunks)) /\ chunks' = Tail(chunks)
      /\ step' = step /\ sent' = sent
  BY DEF WriteChunk, parseVars
<1>2. /\ pc = "idle" /\ m_buf' = m_buf \o Head(chunks) /\ bytes' = m_buf' /\ shared' = (m_buf = <<>>)
      /\ pos' = 0 /\ mark' = 0 /\ pc' = "loop"
      /\ asserts' = asserts /\ mParseState' = mParseState /\ events' = events
  BY <1>1 DEF Write
<1>3. /\ sent \in Seq(Transmissions) /\ Len(sent) = w + Len(chunks)
      /\ \A i \in 1 .. Len(chunks) : chunks[i] = ComposeAll(sent[w+i])
      /\ AllRead(FirstJoined(meant, w)) \/ InProgress(w, meant)
  BY DEF LinkState
<1>4. AllRead(FirstJoined(meant, w))
  BY <1>2, <1>3 DEF InProgress, Reading
<1>5. m_buf = <<>> /\ mParseState = "NONE" /\ events = FirstJoined(meant, w)
  BY <1>4 DEF AllRead
<1> DEFINE v == w + 1
<1>6. /\ Len(chunks) \in Nat /\ Len(chunks) # 0 /\ Head(chunks) = chunks[1] /\ chunks[1] \in Seq(Byte)
      /\ Len(chunks') = Len(chunks) - 1 /\ \A i \in 1 .. Len(chunks') : chunks'[i] = chunks[i+1]
  <2> DEFINE R == Seq(Byte)
  <2>1. chunks \in Seq(R)
    OBVIOUS
  <2> HIDE DEF R
  <2>2. /\ Len(chunks) \in Nat /\ Len(chunks) # 0 /\ Head(chunks) = chunks[1]
    BY <1>1, <2>1, EmptySeq, LenProperties, HeadTailProperties
  <2>3. chunks[1] \in R
    BY <2>1, <2>2, ElementOfSeq
  <2>4. Len(Tail(chunks)) = Len(chunks) - 1 /\ \A i \in 1 .. Len(chunks) - 1 : Tail(chunks)[i] = chunks[i+1]
    BY <1>1, <2>1, <2>2, HeadTailProperties
  <2> QED BY <1>1, <2>2, <2>3, <2>4 DEF R
<1>7. /\ v \in Nat /\ v # 0 /\ v - 1 = w /\ v \in 1 .. Len(sent) /\ Len(sent) = v + Len(chunks')
      /\ chunks[1] = ComposeAll(sent[v])
  <2>1. Len(sent) = w + Len(chunks) /\ 1 \in 1 .. Len(chunks)
    BY <1>3, <1>6
  <2>2. chunks[1] = ComposeAll(sent[w+1])
    BY <1>3, <2>1
  <2> QED BY <1>6, <2>1, <2>2
<1>8. ASSUME NEW i \in 1 .. Len(chunks') PROVE chunks'[i] = ComposeAll(sent'[v+i])
  <2>1. i + 1 \in 1 .. Len(chunks) /\ w + (i + 1) = v + i
    BY <1>6
  <2>2. chunks'[i] = chunks[i+1]
    BY <1>6
  <2>3. chunks[i+1] = ComposeAll(sent[w+(i+1)])
    BY <1>3, <2>1
  <2> QED BY <1>1, <2>1, <2>2, <2>3
<1> HIDE DEF v
<1>9. PICK msgs, ms : msgs \in Transmissions /\ msgs = sent[v] /\ ms = Meanings(msgs)
  BY <1>3, <1>7, ElementOfSeq
<1>10. /\ ComposeAll(msgs) \in Seq(Byte) /\ IsList(msgs) /\ Len(msgs) \in Nat
       /\ \A n \in DOMAIN msgs : Compose(msgs[n]) \in Seq(Byte)
  BY <1>9, TransmissionIs, ListIs
<1>11. m_buf' = ComposeAll(msgs) /\ bytes' = ComposeAll(msgs) /\ shared'
  <2>1. Head(chunks) = ComposeAll(msgs)
    BY <1>6, <1>7, <1>9
  <2> QED BY <1>2, <1>5, <1>10, <2>1, ConcatEmptySeq
<1>12. Reading(FirstJoined(meant, v - 1), msgs, ms)'
  <2> DEFINE j == 0
  <2>1. j \in 0 .. Len(msgs) /\ pos' = End(msgs, j)
    BY <1>2, <1>10, ComposedTogether
  <2>2. events' = FirstJoined(meant, v - 1) \o FirstJoined(ms, j)
    <3>1. FirstJoined(ms, 0) = <<>>
      BY <1>9, MeaningsAre, JoinedIs
    <3>2. FirstJoined(meant, w) \in Seq(Handed)
      <4>1. meant \in Seq(Seq(Handed)) /\ w \in 0 .. Len(meant)
        BY <1>3, <1>7, MeantAre
      <4> QED BY <4>1, JoinedIs
    <3> QED BY <1>2, <1>5, <1>7, <3>1, <3>2, ConcatEmptySeq
  <2>3. ReadText(msgs, j)' \/ ReadData(msgs)'
    <3>1. CASE IsTextMessage(msgs)
      <4>1. Len(msgs) >= 2
        BY <3>1 DEF IsTextMessage
      <4>2. j < Len(msgs)
        BY <1>10, <4>1
      <4> QED BY <1>2, <1>5, <3>1, <4>2 DEF ReadText
    <3>2. CASE IsDataMessages(msgs)
      BY <1>2, <1>5, <3>2 DEF ReadData
    <3> QED BY <1>9, <3>1, <3>2, Messages
  <2> HIDE DEF j
  <2> QED BY <1>2, <1>11, <2>1, <2>2, <2>3 DEF Reading
<1>13. meant = MeantAll' /\ ms = Meanings(msgs)'
  BY <1>1, <1>2, <1>9, SameMeant
<1>14. InProgress(v, meant)'
  BY <1>1, <1>7, <1>9, <1>12, <1>13 DEF InProgress
<1>15. LinkState(v, meant)'
  BY <1>1, <1>3, <1>7, <1>8, <1>14 DEF LinkState
<1> QED BY <1>7, <1>13, <1>15

LEMMA LinkLoop ==
    ASSUME NEW w \in Nat, NEW meant \in {MeantAll}, LinkState(w, meant), chunks \in Seq(Seq(Byte)),
           TextLoop \/ DataLoop, UNCHANGED <<parseVars, linkVars>>
    PROVE  meant = MeantAll' /\ LinkState(w, meant)'
<1>1. step' = step /\ sent' = sent /\ chunks' = chunks
  BY DEF parseVars, linkVars
<1>2. pc \in {"loop", "data"} /\ asserts' = asserts
  BY DEF TextLoop, DataLoop, EmptyLine, HeaderLine, FirstLine, DiscoveryLine, Declaration,
         BadFirstDeclaration, BadDeclaration, OtherLine, EnterData, WriteEnd, AtText, Message, AtData,
         Incomplete, LeaveData, NextLine, AssertThenReset, Abort, Reset
<1>3. /\ sent \in Seq(Transmissions) /\ Len(sent) = w + Len(chunks)
      /\ \A i \in 1 .. Len(chunks) : chunks[i] = ComposeAll(sent[w+i])
      /\ InProgress(w, meant) /\ step \in {"begin", "write"} /\ (step = "begin" => sent = <<>>)
  BY <1>2 DEF LinkState, AllRead
<1>4. w # 0
  BY <1>3 DEF InProgress
<1>5. PICK msgs, ms :
        /\ msgs \in Transmissions /\ msgs = sent[w] /\ ms = Meanings(msgs)
        /\ Reading(FirstJoined(meant, w - 1), msgs, ms)
  BY <1>3 DEF InProgress
<1>6. w \in 1 .. Len(sent) /\ w \in 0 .. Len(sent) /\ w - 1 \in 0 .. Len(sent)
  <2>1. Len(chunks) \in Nat
    BY LenProperties
  <2> QED BY <1>3, <1>4, <2>1
<1>7. /\ meant \in Seq(Seq(Handed)) /\ Len(meant) = Len(sent)
      /\ meant[w] = MeaningOfAll(msgs)
  BY <1>3, <1>5, <1>6, MeantAre
<1>8. /\ FirstJoined(meant, w - 1) \in Seq(Handed)
      /\ FirstJoined(meant, w) = FirstJoined(meant, w - 1) \o meant[w]
  <2>1. meant \in Seq(Seq(Handed)) /\ w \in 1 .. Len(meant) /\ w - 1 \in 0 .. Len(meant)
    BY <1>6, <1>7
  <2> QED BY <2>1, JoinedIs
<1>9. meant[w] = FlattenSeq(ms)
  BY <1>5, <1>7, MeaningsAre
<1> DEFINE before == FirstJoined(meant, w - 1)
<1>10. Reading(before, msgs, ms)' \/ AllRead(before \o FlattenSeq(ms))'
  <2>1. before \in Seq(Handed) /\ ms \in {Meanings(msgs)} /\ msgs \in Transmissions
    BY <1>5, <1>8
  <2>2. Reading(before, msgs, ms)
    BY <1>5
  <2> HIDE DEF before
  <2>3. PICK j \in 0 .. Len(msgs) :
          /\ pos = End(msgs, j) /\ events = before \o FirstJoined(ms, j)
          /\ ReadText(msgs, j) \/ ReadData(msgs)
    BY <2>2 DEF Reading
  <2>4. pc \in {"loop", "data"} /\ shared /\ bytes = ComposeAll(msgs) /\ m_buf = bytes
    BY <2>2 DEF Reading
  <2>5. CASE ReadText(msgs, j)
    BY <2>1, <2>3, <2>4, <2>5, TextRead
  <2>6. CASE ReadData(msgs)
    BY <2>1, <2>3, <2>4, <2>6, DataRead
  <2> QED BY <2>3, <2>5, <2>6
<1>11. meant = MeantAll' /\ ms = Meanings(msgs)' /\ msgs = sent'[w]
  BY <1>1, <1>2, <1>5, SameMeant
<1>12. AllRead(FirstJoined(meant, w))' \/ InProgress(w, meant)'
  <2>1. CASE Reading(before, msgs, ms)'
    BY <1>4, <1>5, <1>11, <2>1 DEF InProgress
  <2>2. CASE AllRead(before \o FlattenSeq(ms))'
    <3>1. before \o FlattenSeq(ms) = FirstJoined(meant, w)
      BY <1>8, <1>9
    <3> HIDE DEF before
    <3> QED BY <2>2, <3>1 DEF AllRead
  <2> QED BY <1>10, <2>1, <2>2
<1>13. LinkState(w, meant)'
  BY <1>1, <1>3, <1>12 DEF LinkState
<1> QED BY <1>11, <1>13

LEMMA LinkStep ==
    ASSUME TypesInv, LinkInv, [Next]_vars
    PROVE  LinkInv'
<1>1. user' = user
  BY DEF Next, vars, parseVars, OpenStream, FileMissing, WriteChunk, CloseStream, Return, Transmit, Piece
<1> SUFFICES ASSUME user = "link" PROVE \E w \in Nat : \E meant : meant = MeantAll' /\ LinkState(w, meant)'
  BY <1>1 DEF LinkInv
<1>2. PICK w \in Nat : \E meant : meant = MeantAll /\ LinkState(w, meant)
  BY DEF LinkInv
<1>3. PICK meant : meant = MeantAll /\ LinkState(w, meant)
  BY <1>2
<1>4. meant \in {MeantAll} /\ LinkState(w, meant) /\ chunks \in Seq(Seq(Byte))
  BY <1>3 DEF TypesInv, UserTypes
<1>5. step \in {"begin", "write"}
  BY <1>3 DEF LinkState
<1>6. CASE UNCHANGED vars
  <2>1. /\ UNCHANGED <<asserts, pc, m_buf, mParseState, events, shared, bytes, pos, mark>>
        /\ UNCHANGED <<step, sent, chunks>>
    BY <1>6 DEF vars, istreamVars, parserVars, parseVars, linkVars
  <2>2. meant = MeantAll'
    BY <1>3, <2>1, SameMeant
  <2>3. AllRead(FirstJoined(meant, w))' \/ InProgress(w, meant)'
    <3> DEFINE x == FirstJoined(meant, w)
    <3>1. AllRead(x) \/ InProgress(w, meant)
      BY <1>3 DEF LinkState
    <3> HIDE DEF x
    <3>2. AllRead(x)' \/ InProgress(w, meant)'
      BY <2>1, <3>1, StreamStays
    <3> QED BY <3>2 DEF x, AllRead
  <2>4. LinkState(w, meant)'
    BY <1>3, <2>1, <2>3 DEF LinkState
  <2> QED BY <2>2, <2>4
<1>7. CASE OpenStream
  BY <1>4, <1>7, LinkOpen
<1>8. CASE WriteChunk
  <2>1. meant = MeantAll' /\ \E v \in Nat : LinkState(v, meant)'
    BY <1>4, <1>8, LinkWrite
  <2> QED BY <2>1
<1>9. CASE \E msgs \in Transmissions : Transmit(msgs)
  <2>1. PICK msgs \in Transmissions : Transmit(msgs)
    BY <1>9
  <2>2. \E all : all = MeantAll' /\ LinkState(w, all)'
    BY <1>4, <2>1, LinkTransmit
  <2> QED BY <2>2
<1>10. CASE (TextLoop \/ DataLoop) /\ UNCHANGED <<parseVars, linkVars>>
  <2>1. meant = MeantAll' /\ LinkState(w, meant)'
    BY <1>4, <1>10, LinkLoop
  <2> QED BY <2>1
<1>11. ~ FileMissing /\ ~ CloseStream /\ ~ Return /\ ~ Piece
  BY <1>5 DEF FileMissing, CloseStream, Return, Piece
<1> QED BY <1>6, <1>7, <1>8, <1>9, <1>10, <1>11 DEF Next

\* The events are the begin of what was sent, and all of it when nothing is left to read.
LEMMA LinkHandsOut ==
    ASSUME TypesInv, LinkInv
    PROVE  Delivered
<1> SUFFICES ASSUME user = "link"
             PROVE  /\ IsPrefix(events, FlattenSeq(MeantAll))
                    /\ pc = "idle" /\ chunks = <<>> => events = FlattenSeq(MeantAll)
                    /\ pc # "aborted"
  BY DEF Delivered, MeantAll
<1>1. PICK w \in Nat : \E meant : meant = MeantAll /\ LinkState(w, meant)
  BY DEF LinkInv
<1>2. PICK meant : meant = MeantAll /\ LinkState(w, meant)
  BY <1>1
<1>3. /\ sent \in Seq(Transmissions) /\ Len(sent) = w + Len(chunks)
      /\ AllRead(FirstJoined(meant, w)) \/ InProgress(w, meant)
  BY <1>2 DEF LinkState
<1>4. Len(chunks) \in Nat /\ w \in 0 .. Len(sent)
  <2>1. Len(chunks) \in Nat
    BY LenProperties DEF TypesInv, UserTypes
  <2> QED BY <1>3, <2>1
<1>5. /\ meant \in Seq(Seq(Handed)) /\ Len(meant) = Len(sent)
      /\ \A n \in 1 .. Len(sent) : meant[n] = MeaningOfAll(sent[n]) /\ sent[n] \in Transmissions
  BY <1>2, <1>3, MeantAre
<1>6. FirstJoined(meant, w) \in Seq(Handed) /\ FirstJoined(meant, Len(meant)) = FlattenSeq(meant)
      /\ FlattenSeq(meant) \in Seq(Handed)
  <2>1. w \in 0 .. Len(meant) /\ Len(meant) \in 0 .. Len(meant)
    BY <1>4, <1>5
  <2> QED BY <1>5, <2>1, JoinedIs
<1>7. CASE AllRead(FirstJoined(meant, w))
  <2>1. pc = "idle" /\ events = FirstJoined(meant, w)
    BY <1>7 DEF AllRead
  <2>2. StandsAt(FirstJoined(meant, w), 0, events) /\ events \in Seq(Handed)
    BY <1>6, <2>1, HasSelf
  <2>3. IsPrefix(events, FlattenSeq(meant))
    <3>1. w \in 0 .. Len(meant)
      BY <1>4, <1>5
    <3>2. StandsAt(FlattenSeq(meant), 0, events)
      BY <1>5, <2>2, <3>1, JoinedBegins
    <3> QED BY <1>6, <2>2, <3>2, BeginIsPrefix
  <2>4. chunks = <<>> => events = FlattenSeq(meant)
    <3>1. chunks = <<>> => w = Len(meant)
      BY <1>3, <1>5
    <3> QED BY <1>6, <2>1, <3>1
  <2> QED BY <1>2, <2>1, <2>3, <2>4
<1>8. CASE InProgress(w, meant)
  <2>1. PICK msgs, ms :
          /\ msgs \in Transmissions /\ msgs = sent[w] /\ ms = Meanings(msgs)
          /\ Reading(FirstJoined(meant, w - 1), msgs, ms)
    BY <1>8 DEF InProgress
  <2>2. pc \in {"loop", "data"}
    BY <2>1 DEF Reading
  <2>3. PICK j \in 0 .. Len(msgs) : events = FirstJoined(meant, w - 1) \o FirstJoined(ms, j)
    BY <2>1 DEF Reading
  <2>4. w \in 1 .. Len(meant) /\ w - 1 \in 0 .. Len(meant) /\ w \in 0 .. Len(meant)
    <3>1. w # 0
      BY <1>8 DEF InProgress
    <3> QED BY <1>4, <1>5, <3>1
  <2>5. /\ FirstJoined(meant, w) = FirstJoined(meant, w - 1) \o meant[w]
        /\ FirstJoined(meant, w - 1) \in Seq(Handed)
    BY <1>5, <2>4, JoinedIs
  <2>6. ms \in Seq(Seq(Handed)) /\ Len(ms) = Len(msgs) /\ MeaningOfAll(msgs) = FlattenSeq(ms)
        /\ FlattenSeq(ms) \in Seq(Handed)
    BY <2>1, MeaningsAre
  <2>7. meant[w] = FlattenSeq(ms)
    BY <1>5, <2>1, <2>4, <2>6
  <2> DEFINE a == FirstJoined(meant, w - 1)
             b == FlattenSeq(ms)
             s == FirstJoined(ms, j)
  <2>8. s \in Seq(Handed) /\ StandsAt(b, 0, s)
    <3>1. j \in 0 .. Len(ms)
      BY <2>6
    <3>2. FirstJoined(ms, j) \in Seq(Handed)
      BY <2>6, <3>1, JoinedIs
    <3>3. StandsAt(FirstJoined(ms, j), 0, FirstJoined(ms, j))
      BY <3>2, HasSelf
    <3> QED BY <2>6, <3>1, <3>2, <3>3, JoinedBegins
  <2>9. a \in Seq(Handed) /\ b \in Seq(Handed) /\ events = a \o s /\ FirstJoined(meant, w) = a \o b
    BY <2>3, <2>5, <2>6, <2>7
  <2> HIDE DEF a, b, s
  <2>10. StandsAt(a \o b, 0, a \o s) /\ a \o s \in Seq(Handed)
    BY <2>8, <2>9, HasBehind, ConcatProperties
  <2>11. StandsAt(FlattenSeq(meant), 0, events)
    BY <1>5, <2>4, <2>9, <2>10, JoinedBegins
  <2>12. IsPrefix(events, FlattenSeq(meant))
    BY <1>6, <2>9, <2>10, <2>11, BeginIsPrefix
  <2> QED BY <1>2, <2>2, <2>12
<1> QED BY <1>3, <1>7, <1>8

LEMMA LinkHolds == FairSpec => []LinkInv
<1>1. Init => LinkInv
  BY LinkStart
<1>2. TypesInv /\ LinkInv /\ [Next]_vars => LinkInv'
  BY LinkStep
<1> QED BY <1>1, <1>2, TypesHold, PTL DEF FairSpec

\* Over a link that keeps transmissions in one piece, the messages that a peer composed
\* with QApxOStreamBuf come out of QApxIStreamBuf as they were sent, each once and in
\* order, whatever was composed together and whenever the peer sends more: no line takes
\* a state of the parser it does not suit, and no assertion fails.
THEOREM DeliveredAlways == FairSpec => []Delivered
<1>1. TypesInv /\ LinkInv => Delivered
  BY LinkHandsOut
<1> QED BY <1>1, TypesHold, LinkHolds, PTL

-----------------------------------------------------------------------------
(* No user lets the loop read on in bytes that reset() freed. *)

\* What a round of the loops does to the buffer and to the bytes it reads.
LEMMA LoopKeeps ==
    ASSUME StreamTypes, TextLoop \/ DataLoop
    PROVE  /\ pc \in {"loop", "data"}
           /\ \/ /\ pc' = "idle" /\ bytes' = <<>>
                 /\ m_buf' = m_buf \/ \E n \in Nat : m_buf' = Drop(m_buf, n)
              \/ /\ pc' \in {"loop", "data", "aborted"} /\ bytes' = bytes /\ shared' = shared
                 /\ m_buf' = m_buf
              \/ /\ pc' \in {"loop", "undefined"} /\ bytes' = bytes /\ shared' = shared
                 /\ m_buf' = <<>>
                 /\ pc' = "undefined" => AtText /\ LineEnd + 1 < Len(bytes) /\ ~ shared
<1>1. pos \in Nat /\ pos + 1 \in Nat /\ mark \in Nat
  BY DEF StreamTypes
<1>2. CASE TextLoop
  <2>1. CASE AtText /\ NextLine
    BY <2>1 DEF AtText, NextLine, loopVars
  <2>2. CASE AtText /\ Abort
    BY <2>2 DEF AtText, Abort, loopVars
  <2>3. CASE AtText /\ Reset
    BY <2>3 DEF AtText, Reset, loopVars
  <2>4. CASE EmptyLine
    BY <1>1, <2>4 DEF EmptyLine, AtText, Finish
  <2>5. CASE BadDeclaration
    BY <2>5 DEF BadDeclaration, AtText
  <2>6. CASE EnterData
    BY <2>6 DEF EnterData
  <2>7. CASE WriteEnd
    BY <1>1, <2>7 DEF WriteEnd, Finish
  <2> QED BY <1>2, <2>1, <2>2, <2>3, <2>4, <2>5, <2>6, <2>7, TextCases
<1>3. CASE DataLoop
  <2>1. CASE Message
    BY <2>1 DEF Message, AtData, loopVars
  <2>2. CASE Incomplete
    BY <1>1, <2>2 DEF Incomplete, AtData, Finish
  <2>3. CASE LeaveData
    BY <2>3 DEF LeaveData, loopVars
  <2> QED BY <1>3, <2>1, <2>2, <2>3 DEF DataLoop
<1> QED BY <1>2, <1>3

\* ByteArrayParser writes once, into an empty buffer: the bytes are its caller's too.
OneWrite ==
    /\ step = "begin" \/ chunks # <<>> => pc = "idle" /\ m_buf = <<>>
    /\ step = "begin" => chunks = <<>>
    /\ chunks # <<>> => Tail(chunks) = <<>>
    /\ pc \in {"loop", "data"} => shared

\* Of a file no line has an end: nothing is left in the buffer behind a line.
NoLineEnds == m_buf \in Seq(Inner) /\ bytes \in Seq(Inner) /\ chunks \in Seq(Seq(Inner))

ParsersInv ==
    /\ user \in {"bytearray", "file", "missing"} => pc # "undefined"
    /\ user = "bytearray" => OneWrite
    /\ user = "file" => NoLineEnds
    /\ user = "missing" => pc = "idle" /\ chunks = <<>>

LEMMA ParsersStart ==
    ASSUME Init
    PROVE  ParsersInv
<1>1. m_buf = <<>> /\ bytes = <<>> /\ chunks = <<>> /\ pc = "idle"
  BY DEF Init, IStreamInit
<1>2. <<>> \in Seq(Inner) /\ <<>> \in Seq(Seq(Inner))
  OBVIOUS
<1> QED BY <1>1, <1>2 DEF ParsersInv, OneWrite, NoLineEnds

LEMMA ParsersOpen ==
    ASSUME StreamTypes, UserTypes, ParsersInv, OpenStream
    PROVE  ParsersInv'
<1>1. /\ step = "begin" /\ pc = "idle" /\ user # "missing" /\ step' = "write"
      /\ chunks' = CASE user = "bytearray" -> <<Text>> [] user = "file" -> Lines(Text)
                     [] OTHER -> <<>>
      /\ UNCHANGED <<user, pc, m_buf, bytes, shared>>
  BY DEF OpenStream, Open, loopVars
<1>2. CASE user = "bytearray"
  <2>1. chunks' = <<Text>> /\ m_buf = <<>>
    BY <1>1, <1>2 DEF ParsersInv, OneWrite
  <2>2. Tail(chunks') = <<>>
    BY <2>1
  <2> QED BY <1>1, <1>2, <2>1, <2>2 DEF ParsersInv, OneWrite
<1>3. CASE user = "file"
  <2>1. chunks' \in Seq(Seq(Inner))
    <3>1. Text \in Seq(Byte)
      BY <1>3, TextBytes DEF UserTypes
    <3>2. chunks' = Lines(Text)
      BY <1>1, <1>3
    <3> QED BY <3>1, <3>2, LinesAre
  <2> QED BY <1>1, <1>3, <2>1 DEF ParsersInv, NoLineEnds
<1>4. CASE user \notin {"bytearray", "file"}
  BY <1>1, <1>4 DEF ParsersInv
<1> QED BY <1>2, <1>3, <1>4

LEMMA ParsersWrite ==
    ASSUME StreamTypes, UserTypes, ParsersInv, WriteChunk
    PROVE  ParsersInv'
<1>1. /\ step = "write" /\ chunks # <<>> /\ chunks' = Tail(chunks)
      /\ m_buf' = m_buf \o Head(chunks) /\ bytes' = m_buf' /\ shared' = (m_buf = <<>>)
      /\ pc' = "loop" /\ user' = user /\ step' = step
  BY DEF WriteChunk, Write, parseVars
<1>2. CASE user = "bytearray"
  <2>1. Tail(chunks) = <<>> /\ m_buf = <<>>
    BY <1>1, <1>2 DEF ParsersInv, OneWrite
  <2> QED BY <1>1, <1>2, <2>1 DEF ParsersInv, OneWrite
<1>3. CASE user = "file"
  <2>1. m_buf \in Seq(Inner) /\ chunks \in Seq(Seq(Inner))
    BY <1>3 DEF ParsersInv, NoLineEnds
  <2>2. Head(chunks) \in Seq(Inner) /\ Tail(chunks) \in Seq(Seq(Inner))
    <3> DEFINE R == Seq(Inner)
    <3>1. chunks \in Seq(R)
      BY <2>1
    <3> HIDE DEF R
    <3>2. Head(chunks) \in R /\ Tail(chunks) \in Seq(R)
      BY <1>1, <3>1, HeadTailProperties
    <3> QED BY <3>2 DEF R
  <2>3. m_buf \o Head(chunks) \in Seq(Inner)
    BY <2>1, <2>2, ConcatProperties
  <2> QED BY <1>1, <1>3, <2>2, <2>3 DEF ParsersInv, NoLineEnds
<1>4. CASE user \notin {"bytearray", "file"}
  BY <1>1, <1>4 DEF ParsersInv
<1> QED BY <1>2, <1>3, <1>4

LEMMA ParsersLoop ==
    ASSUME StreamTypes, UserTypes, ParsersInv, TextLoop \/ DataLoop, UNCHANGED <<parseVars, linkVars>>
    PROVE  ParsersInv'
<1>1. user' = user /\ step' = step /\ chunks' = chunks
  BY DEF parseVars, linkVars
<1>2. /\ pc \in {"loop", "data"}
      /\ \/ /\ pc' = "idle" /\ bytes' = <<>>
            /\ m_buf' = m_buf \/ \E n \in Nat : m_buf' = Drop(m_buf, n)
         \/ /\ pc' \in {"loop", "data", "aborted"} /\ bytes' = bytes /\ shared' = shared
            /\ m_buf' = m_buf
         \/ /\ pc' \in {"loop", "undefined"} /\ bytes' = bytes /\ shared' = shared
            /\ m_buf' = <<>>
            /\ pc' = "undefined" => AtText /\ LineEnd + 1 < Len(bytes) /\ ~ shared
  BY LoopKeeps
<1>3. CASE user = "bytearray"
  <2>1. /\ shared /\ step # "begin" /\ chunks = <<>>
    BY <1>2, <1>3 DEF ParsersInv, OneWrite
  <2>2. pc' # "undefined" /\ (pc' \in {"loop", "data"} => shared')
    BY <1>2, <2>1
  <2> QED BY <1>1, <1>3, <2>1, <2>2 DEF ParsersInv, OneWrite
<1>4. CASE user = "file"
  <2>1. m_buf \in Seq(Inner) /\ bytes \in Seq(Inner) /\ chunks \in Seq(Seq(Inner))
    BY <1>4 DEF ParsersInv, NoLineEnds
  <2>2. <<>> \in Seq(Inner) /\ \A n \in Nat : Drop(m_buf, n) \in Seq(Inner)
    BY <2>1, DropIs
  <2>3. m_buf' \in Seq(Inner) /\ bytes' \in Seq(Inner)
    BY <1>2, <2>1, <2>2
  <2>4. pc' # "undefined"
    <3> SUFFICES ASSUME AtText, LineEnd + 1 < Len(bytes) PROVE FALSE
      BY <1>2
    <3>1. /\ Len(bytes) \in Nat /\ LineEnd \in Nat
          /\ LineEnd < Len(bytes) => bytes[LineEnd+1] = NL
      BY LineEndIs DEF StreamTypes
    <3>2. LineEnd + 1 \in 1 .. Len(bytes) /\ LineEnd < Len(bytes)
      BY <3>1
    <3>3. bytes[LineEnd+1] \in Inner
      BY <2>1, <3>2, ElementOfSeq
    <3> QED BY <3>1, <3>2, <3>3 DEF Inner
  <2> QED BY <1>1, <1>4, <2>1, <2>3, <2>4 DEF ParsersInv, NoLineEnds
<1>5. CASE user \notin {"bytearray", "file"}
  BY <1>1, <1>2, <1>5 DEF ParsersInv
<1> QED BY <1>3, <1>4, <1>5

LEMMA ParsersStep ==
    ASSUME TypesInv, ParsersInv, [Next]_vars
    PROVE  ParsersInv'
<1>1. StreamTypes /\ UserTypes
  BY DEF TypesInv
<1>2. CASE OpenStream
  BY <1>1, <1>2, ParsersOpen
<1>3. CASE WriteChunk
  BY <1>1, <1>3, ParsersWrite
<1>4. CASE (TextLoop \/ DataLoop) /\ UNCHANGED <<parseVars, linkVars>>
  BY <1>1, <1>4, ParsersLoop
<1>5. CASE FileMissing
  <2>1. user = "missing" /\ UNCHANGED <<user, pc, chunks>>
    BY <1>5 DEF FileMissing, istreamVars, parserVars, linkVars
  <2> QED BY <2>1 DEF ParsersInv
<1>6. CASE CloseStream
  <2>1. /\ step' = "closed" /\ UNCHANGED <<user, pc, m_buf, bytes, shared, chunks>>
    BY <1>6 DEF CloseStream, Close, loopVars, linkVars
  <2> QED BY <2>1 DEF ParsersInv, OneWrite, NoLineEnds
<1>7. CASE Return
  <2>1. /\ step' = "returned" /\ UNCHANGED <<user, pc, m_buf, bytes, shared, chunks>>
    BY <1>7 DEF Return, istreamVars, parserVars, linkVars
  <2> QED BY <2>1 DEF ParsersInv, OneWrite, NoLineEnds
<1>8. CASE (\E msgs \in Transmissions : Transmit(msgs)) \/ Piece
  <2>1. user \in {"link", "pieces"} /\ user' = user
    BY <1>8 DEF Transmit, Piece, parseVars
  <2> QED BY <2>1 DEF ParsersInv
<1>9. CASE UNCHANGED vars
  <2>1. UNCHANGED <<user, step, pc, m_buf, bytes, shared, chunks>>
    BY <1>9 DEF vars, istreamVars, parserVars, parseVars, linkVars
  <2> QED BY <2>1 DEF ParsersInv, OneWrite, NoLineEnds
<1> QED BY <1>2, <1>3, <1>4, <1>5, <1>6, <1>7, <1>8, <1>9 DEF Next

LEMMA ParsersHold == FairSpec => []ParsersInv
<1>1. Init => ParsersInv
  BY ParsersStart
<1>2. TypesInv /\ ParsersInv /\ [Next]_vars => ParsersInv'
  BY ParsersStep
<1> QED BY <1>1, <1>2, TypesHold, PTL DEF FairSpec

\* Whatever user writes whatever definition, transmission or pieces of them, the loop of
\* write() does not go on in bytes that reset() freed within it: the buffer it lets go of
\* is shared with the caller, or has nothing behind the line, or no line resets it.
THEOREM DefinedAlways == FairSpec => []Defined
<1>1. ASSUME TypesInv, LinkInv, ParsersInv PROVE Defined
  <2>1. user \in {"bytearray", "file", "missing", "link", "pieces"}
    BY <1>1 DEF TypesInv, UserTypes
  <2>2. CASE user \in {"bytearray", "file", "missing"}
    BY <1>1, <2>2 DEF ParsersInv, Defined
  <2>3. CASE user = "link"
    <3>1. \E w, meant : LinkState(w, meant)
      BY <1>1, <2>3 DEF LinkInv
    <3> QED BY <3>1 DEF LinkState, AllRead, InProgress, Reading, Defined
  <2>4. CASE user = "pieces"
    <3>1. PICK plan : PieceState(plan)
      BY <1>1, <2>4 DEF TypesInv, PiecesInv
    <3> QED BY <3>1 DEF PieceState, Holds, Defined
  <2> QED BY <2>1, <2>2, <2>3, <2>4
<1>2. TypesInv /\ LinkInv /\ ParsersInv => Defined
  BY <1>1
<1> QED BY <1>2, TypesHold, LinkHolds, ParsersHold, PTL

-----------------------------------------------------------------------------
(* Nodes, step by step. *)

Handled(parser, node, e) ==
    IF parser = "bytearray" THEN ByteArrayHandler(node, e) ELSE FileHandler(node, e)

\* node is what the handlers make of the events.
Made(parser, evs, node) ==
    \E f : /\ f[0] = EmptyNode /\ f[Len(evs)] = node
           /\ \A n \in 1 .. Len(evs) : f[n] = Handled(parser, f[n-1], evs[n])

LEMMA MadeIs ==
    ASSUME NEW parser, NEW evs, Len(evs) \in Nat, NEW node, Made(parser, evs, node)
    PROVE  NodeFrom(parser, evs) = node
<1> DEFINE m == Len(evs)
           Is(g) == g = [n \in 0 .. m |->
                           IF n = 0 THEN EmptyNode
                           ELSE IF parser = "bytearray" THEN ByteArrayHandler(g[n-1], evs[n])
                           ELSE FileHandler(g[n-1], evs[n])]
           g == CHOOSE g : Is(g)
<1>1. PICK f : /\ f[0] = EmptyNode /\ f[m] = node
               /\ \A n \in 1 .. m : f[n] = Handled(parser, f[n-1], evs[n])
  BY DEF Made
<1> DEFINE h == [n \in 0 .. m |-> f[n]]
<1>2. Is(h)
  <2>1. ASSUME NEW n \in 0 .. m
        PROVE  h[n] = IF n = 0 THEN EmptyNode
                      ELSE IF parser = "bytearray" THEN ByteArrayHandler(h[n-1], evs[n])
                      ELSE FileHandler(h[n-1], evs[n])
    <3>1. CASE n = 0
      BY <1>1, <3>1
    <3>2. CASE n # 0
      <4>1. n \in 1 .. m /\ n - 1 \in 0 .. m
        BY <3>2
      <4>2. h[n] = f[n] /\ h[n-1] = f[n-1]
        BY <4>1
      <4> QED BY <1>1, <3>2, <4>1, <4>2 DEF Handled
    <3> QED BY <3>1, <3>2
  <2> HIDE DEF m
  <2> QED BY <2>1
<1>3. Is(g)
  BY <1>2
<1>4. NodeFrom(parser, evs) = g[m]
  BY DEF NodeFrom
<1> HIDE DEF g, m
<1>5. m \in Nat
  BY DEF m
<1> DEFINE same == {n \in 0 .. m : g[n] = f[n]}
<1>6. 0 \in same
  <2>1. 0 \in 0 .. m
    BY <1>5
  <2>2. g[0] = EmptyNode
    BY <1>3, <2>1
  <2> QED BY <1>1, <2>1, <2>2
<1>7. ASSUME NEW n \in 1 .. m, n - 1 \in same PROVE n \in same
  <2>1. n \in 0 .. m /\ n # 0
    BY <1>5
  <2>2. g[n] = Handled(parser, g[n-1], evs[n])
    BY <1>3, <2>1 DEF Handled
  <2>3. g[n-1] = f[n-1]
    BY <1>7
  <2> QED BY <1>1, <2>1, <2>2, <2>3
<1> HIDE DEF same
<1>8. 0 .. m \subseteq same
  BY <1>5, <1>6, <1>7, Reached
<1>9. m \in same
  BY <1>5, <1>8
<1> QED BY <1>1, <1>4, <1>9 DEF same

LEMMA MadeOfNone ==
    ASSUME NEW parser
    PROVE  Made(parser, <<>>, EmptyNode)
<1> DEFINE f == [n \in {0} |-> EmptyNode]
<1>1. /\ f[0] = EmptyNode /\ f[Len(<<>>)] = EmptyNode
      /\ \A n \in 1 .. Len(<<>>) : f[n] = Handled(parser, f[n-1], <<>>[n])
  OBVIOUS
<1> HIDE DEF f
<1> QED BY <1>1 DEF Made

LEMMA MadeWith ==
    ASSUME NEW parser, NEW S, NEW evs \in Seq(S), NEW node, Made(parser, evs, node), NEW e
    PROVE  Made(parser, Append(evs, e), Handled(parser, node, e))
<1> DEFINE m == Len(evs)
           more == Append(evs, e)
           last == Handled(parser, node, e)
<1>1. m \in Nat /\ Len(more) = m + 1 /\ more[m+1] = e /\ \A n \in 1 .. m : more[n] = evs[n]
  <2>1. evs \in Seq(S \cup {e}) /\ e \in S \cup {e}
    <3>1. S \subseteq S \cup {e}
      OBVIOUS
    <3> QED BY <3>1, SeqMonotonic
  <2> QED BY <2>1, AppendProperties, LenProperties
<1>2. PICK f : /\ f[0] = EmptyNode /\ f[m] = node
               /\ \A n \in 1 .. m : f[n] = Handled(parser, f[n-1], evs[n])
  BY DEF Made
<1> HIDE DEF m, more
<1> DEFINE g == [n \in 0 .. m + 1 |-> IF n = m + 1 THEN last ELSE f[n]]
<1>3. g[m+1] = last /\ \A n \in 0 .. m : g[n] = f[n]
  BY <1>1
<1> HIDE DEF g
<1>4. ASSUME NEW n \in 1 .. m + 1 PROVE g[n] = Handled(parser, g[n-1], more[n])
  <2>1. CASE n = m + 1
    <3>1. n - 1 = m /\ m \in 0 .. m
      BY <1>1, <2>1
    <3>2. g[n-1] = node
      BY <1>2, <1>3, <3>1
    <3> QED BY <1>1, <1>3, <2>1, <3>2
  <2>2. CASE n # m + 1
    <3>1. n \in 1 .. m /\ n \in 0 .. m /\ n - 1 \in 0 .. m
      BY <1>1, <2>2
    <3> QED BY <1>1, <1>2, <1>3, <3>1
  <2> QED BY <2>1, <2>2
<1>5. g[0] = EmptyNode
  BY <1>1, <1>2, <1>3
<1> HIDE DEF last
<1>6. \E h : /\ h[0] = EmptyNode /\ h[Len(more)] = last
             /\ \A n \in 1 .. Len(more) : h[n] = Handled(parser, h[n-1], more[n])
  BY <1>1, <1>3, <1>4, <1>5
<1> QED BY <1>6 DEF Made, more, last

-----------------------------------------------------------------------------
(* What the lines of a definition describe. *)

Adds(l, list, typedOnly) == l.list = list /\ (list = "types" \/ l.typed \/ ~typedOnly)

\* The items of a list when the line is added to them.
More(items, l, list, typedOnly) ==
    IF Adds(l, list, typedOnly) THEN Append(items, l.item) ELSE items

\* f has the items line by line.
Gathers(f, d, n, list, typedOnly) ==
    f[0] = <<>> /\ \A k \in 1 .. n : f[k] = More(f[k-1], d.lines[k], list, typedOnly)

\* The last entry is what Described returns.
LEMMA DescribedOnce ==
    ASSUME NEW d, NEW n \in Nat, NEW list, NEW typedOnly, NEW f, Gathers(f, d, n, list, typedOnly)
    PROVE  Described(d, n, list, typedOnly) = f[n]
<1> USE DEF Gathers
<1> DEFINE Is(g) == g = [k \in 0 .. n |->
                           IF k = 0 THEN <<>>
                           ELSE IF d.lines[k].list = list /\ (list = "types" \/ d.lines[k].typed \/ ~typedOnly)
                           THEN Append(g[k-1], d.lines[k].item) ELSE g[k-1]]
           g == CHOOSE g : Is(g)
           h == [k \in 0 .. n |-> f[k]]
<1>1. Is(h)
  <2>1. ASSUME NEW k \in 0 .. n
        PROVE  h[k] = IF k = 0 THEN <<>>
                      ELSE IF d.lines[k].list = list /\ (list = "types" \/ d.lines[k].typed \/ ~typedOnly)
                      THEN Append(h[k-1], d.lines[k].item) ELSE h[k-1]
    <3>1. CASE k = 0
      BY <3>1
    <3>2. CASE k # 0
      <4>1. k \in 1 .. n /\ k - 1 \in 0 .. n
        BY <3>2
      <4>2. h[k] = f[k] /\ h[k-1] = f[k-1]
        BY <4>1
      <4>3. f[k] = More(f[k-1], d.lines[k], list, typedOnly)
        BY <4>1
      <4> HIDE DEF h
      <4> QED BY <3>2, <4>2, <4>3, ZenonT(30) DEF More, Adds
    <3> QED BY <3>1, <3>2
  <2> QED BY <2>1
<1>2. Is(g)
  <2>1. \E x : Is(x)
    BY <1>1
  <2> HIDE DEF h, Is
  <2> QED BY <2>1
<1>3. Described(d, n, list, typedOnly) = g[n]
  BY DEF Described
<1> HIDE DEF g
<1> DEFINE same == {k \in 0 .. n : g[k] = f[k]}
<1>4. 0 \in same
  <2>1. 0 \in 0 .. n
    OBVIOUS
  <2>2. g[0] = <<>>
    BY <1>2, <2>1
  <2> QED BY <2>1, <2>2
<1>5. ASSUME NEW k \in 1 .. n, k - 1 \in same PROVE k \in same
  <2>1. k \in 0 .. n /\ k # 0
    OBVIOUS
  <2>2. g[k] = More(g[k-1], d.lines[k], list, typedOnly)
    <3>1. g[k] = IF d.lines[k].list = list /\ (list = "types" \/ d.lines[k].typed \/ ~typedOnly)
                 THEN Append(g[k-1], d.lines[k].item) ELSE g[k-1]
      BY <1>2, <2>1
    <3> QED BY <3>1, ZenonT(30) DEF More, Adds
  <2>3. g[k-1] = f[k-1]
    BY <1>5
  <2>4. g[k] = f[k]
    BY <2>2, <2>3
  <2> QED BY <2>1, <2>4
<1> HIDE DEF same
<1>6. 0 .. n \subseteq same
  BY <1>4, <1>5, Reached
<1>7. n \in same
  BY <1>6
<1> QED BY <1>3, <1>7 DEF same

HasLines(d) == Len(d.lines) \in Nat /\ DOMAIN d.lines = 1 .. Len(d.lines)

Items(d) == {d.lines[k].item : k \in DOMAIN d.lines}

\* What the first lines describe, line by line.
LEMMA DescribedIs ==
    ASSUME NEW d, HasLines(d), NEW list, NEW typedOnly
    PROVE  /\ Described(d, 0, list, typedOnly) = <<>>
           /\ \A k \in 1 .. Len(d.lines) :
                Described(d, k, list, typedOnly)
                  = More(Described(d, k - 1, list, typedOnly), d.lines[k], list, typedOnly)
           /\ \A k \in 0 .. Len(d.lines) : Described(d, k, list, typedOnly) \in Seq(Items(d))
<1> DEFINE n == Len(d.lines)
           S == Seq(Items(d))
           first == <<>>
           st == [x \in S \X (1 .. n) |-> More(x[1], d.lines[x[2]], list, typedOnly)]
<1>1. n \in Nat /\ \A k \in 1 .. n : d.lines[k].item \in Items(d)
  BY DEF HasLines, Items
<1>2. ASSUME NEW x \in S \X (1 .. n) PROVE More(x[1], d.lines[x[2]], list, typedOnly) \in S
  <2> DEFINE I == Items(d)
  <2>1. x[1] \in Seq(I) /\ d.lines[x[2]].item \in I
    BY <1>1
  <2> HIDE DEF I
  <2>2. Append(x[1], d.lines[x[2]].item) \in Seq(I)
    BY <2>1, AppendProperties
  <2> QED BY <2>1, <2>2 DEF More, I
<1>3. first \in S
  OBVIOUS
<1> HIDE DEF n, S, first
<1>4. st \in Steps(S, n)
  BY <1>2 DEF Steps
<1>5. PICK f : f \in [0 .. n -> S] /\ Iterates(f, first, n, st)
  <2> HIDE DEF st
  <2> QED BY <1>1, <1>3, <1>4, Iteration
<1>6. f[0] = first
  <2>1. 0 \in 0 .. n
    BY <1>1
  <2> HIDE DEF st
  <2> QED BY <1>5, <2>1 DEF Iterates
<1>7. ASSUME NEW k \in 1 .. n PROVE f[k] = More(f[k-1], d.lines[k], list, typedOnly)
  <2>1. k \in 0 .. n /\ k # 0 /\ k - 1 \in 0 .. n
    BY <1>1
  <2>2. f[k-1] \in S /\ f[k] = st[<<f[k-1], k>>]
    BY <1>5, <2>1 DEF Iterates
  <2>3. <<f[k-1], k>> \in S \X (1 .. n)
    BY <2>2
  <2> QED BY <2>2, <2>3
<1>8. ASSUME NEW k \in 0 .. n PROVE Described(d, k, list, typedOnly) = f[k]
  <2>1. k \in Nat /\ \A i \in 1 .. k : i \in 1 .. n
    BY <1>1
  <2>2. \A i \in 1 .. k : f[i] = More(f[i-1], d.lines[i], list, typedOnly)
    BY <1>7, <2>1
  <2>3. f[0] = <<>>
    BY <1>6 DEF first
  <2>4. Gathers(f, d, k, list, typedOnly)
    BY <2>2, <2>3 DEF Gathers
  <2> QED BY <2>1, <2>4, DescribedOnce
<1>9. ASSUME NEW k \in 1 .. n
      PROVE  Described(d, k, list, typedOnly)
               = More(Described(d, k - 1, list, typedOnly), d.lines[k], list, typedOnly)
  <2>1. k \in 0 .. n /\ k - 1 \in 0 .. n
    BY <1>1
  <2>2. Described(d, k, list, typedOnly) = f[k] /\ Described(d, k - 1, list, typedOnly) = f[k-1]
    BY <1>8, <2>1
  <2> QED BY <1>7, <2>2
<1>10. Described(d, 0, list, typedOnly) = <<>>
  <2>1. 0 \in 0 .. n
    BY <1>1
  <2> QED BY <1>6, <1>8, <2>1 DEF first
<1>11. \A k \in 0 .. n : Described(d, k, list, typedOnly) \in S
  BY <1>5, <1>8
<1> QED BY <1>9, <1>10, <1>11 DEF n, S

\* Of the types a parser keeps all.
LEMMA TypesKept ==
    ASSUME NEW d, HasLines(d), NEW typedOnly
    PROVE  \A k \in 0 .. Len(d.lines) :
             Described(d, k, "types", typedOnly) = Described(d, k, "types", FALSE)
<1> DEFINE n == Len(d.lines)
           D(k, o) == Described(d, k, "types", o)
           same == {k \in 0 .. n : D(k, typedOnly) = D(k, FALSE)}
<1>1. n \in Nat
  BY DEF HasLines
<1>2. \A o : D(0, o) = <<>> /\ \A k \in 1 .. n : D(k, o) = More(D(k-1, o), d.lines[k], "types", o)
  BY DescribedIs
<1>3. \A l, items, o : More(items, l, "types", o) = More(items, l, "types", FALSE)
  BY DEF More, Adds
<1> HIDE DEF n, D
<1>4. 0 \in same
  <2>1. 0 \in 0 .. n
    BY <1>1
  <2>2. D(0, typedOnly) = <<>> /\ D(0, FALSE) = <<>>
    BY <1>2
  <2> QED BY <2>1, <2>2
<1>5. ASSUME NEW k \in 1 .. n, k - 1 \in same PROVE k \in same
  <2>1. k \in 0 .. n
    BY <1>1
  <2>2. D(k-1, typedOnly) = D(k-1, FALSE)
    BY <1>5
  <2>3. D(k, typedOnly) = More(D(k-1, typedOnly), d.lines[k], "types", typedOnly)
        /\ D(k, FALSE) = More(D(k-1, FALSE), d.lines[k], "types", FALSE)
    BY <1>2
  <2> QED BY <1>3, <2>1, <2>2, <2>3
<1> HIDE DEF same
<1>6. 0 .. n \subseteq same
  BY <1>1, <1>4, <1>5, Reached
<1> QED BY <1>6 DEF same, n, D

-----------------------------------------------------------------------------
(* Nodes and what is added to them. *)

ListNames == {"types", "requires", "provides"}

IsNode(node) ==
    /\ node = [name |-> node.name, types |-> node.types, requires |-> node.requires,
               provides |-> node.provides]
    /\ \A list \in ListNames : IsList(node[list])

\* What a declaration in a list of the node declares.
ItemOf(x) == [name |-> x.name, elem |-> ParseDataSignature(x.dsg), init |-> AttrInit(x.attr)]

Put(node, list, x) == [node EXCEPT ![list] = Append(@, x)]

LEMMA ListWith ==
    ASSUME NEW s, IsList(s), NEW x
    PROVE  /\ IsList(Append(s, x)) /\ Len(s) \in Nat /\ DOMAIN s = 1 .. Len(s)
           /\ Len(Append(s, x)) = Len(s) + 1 /\ DOMAIN Append(s, x) = 1 .. Len(s) + 1
           /\ Append(s, x)[Len(s)+1] = x /\ \A i \in 1 .. Len(s) : Append(s, x)[i] = s[i]
<1> DEFINE S == {s[i] : i \in DOMAIN s}
           R == S \cup {x}
           t == Append(s, x)
           n == Len(s)
<1>1. s \in Seq(S) /\ n \in Nat /\ DOMAIN s = 1 .. n
  BY ListIs DEF IsList
<1>2. S \subseteq R /\ x \in R
  OBVIOUS
<1> HIDE DEF S, R
<1>3. s \in Seq(R)
  BY <1>1, <1>2, SeqMonotonic
<1>4. t \in Seq(R) /\ Len(t) = n + 1 /\ t[n+1] = x /\ \A i \in 1 .. n : t[i] = s[i]
  BY <1>2, <1>3, AppendProperties
<1> HIDE DEF t
<1>5. DOMAIN t = 1 .. n + 1 /\ DOMAIN t = 1 .. Len(t)
  BY <1>4, LenProperties
<1>6. IsList(t)
  <2> DEFINE Q == {t[i] : i \in DOMAIN t}
  <2>1. \A i \in 1 .. Len(t) : t[i] \in Q
    BY <1>5
  <2> HIDE DEF Q
  <2>2. t \in Seq(Q)
    BY <1>4, <2>1, SameElements
  <2> QED BY <2>2 DEF Q, IsList
<1> QED BY <1>1, <1>4, <1>5, <1>6 DEF t

LEMMA PutIs ==
    ASSUME NEW node, IsNode(node), NEW list \in ListNames, NEW x
    PROVE  /\ IsNode(Put(node, list, x)) /\ Put(node, list, x).name = node.name
           /\ Put(node, list, x)[list] = Append(node[list], x)
           /\ \A l \in ListNames : l # list => Put(node, list, x)[l] = node[l]
<1> DEFINE p == Put(node, list, x)
<1>1. node = [name |-> node.name, types |-> node.types, requires |-> node.requires,
              provides |-> node.provides]
  BY DEF IsNode
<1>2. DOMAIN node = {"name", "types", "requires", "provides"}
  BY <1>1
<1>3. list \in DOMAIN node
  BY <1>2 DEF ListNames
<1>4. /\ DOMAIN p = {"name", "types", "requires", "provides"} /\ p[list] = Append(node[list], x)
      /\ \A l \in DOMAIN node : l # list => p[l] = node[l]
  BY <1>2, <1>3 DEF Put
<1>5. p = [name |-> p.name, types |-> p.types, requires |-> p.requires, provides |-> p.provides]
  <2>1. p = [l \in {"name", "types", "requires", "provides"} |-> p[l]]
    <3>1. p = [l \in DOMAIN node |-> IF l = list THEN Append(node[list], x) ELSE node[l]]
      BY <1>3 DEF Put
    <3> HIDE DEF p
    <3> QED BY <1>2, <1>4, <3>1
  <2> HIDE DEF p
  <2> QED BY <2>1
<1> HIDE DEF p
<1>6. p.name = node.name
  BY <1>2, <1>4 DEF ListNames
<1>7. \A l \in ListNames : l # list => p[l] = node[l]
  BY <1>2, <1>4 DEF ListNames
<1>8. \A l \in ListNames : IsList(p[l])
  <2>1. IsList(Append(node[list], x)) /\ \A l \in ListNames : IsList(node[l])
    <3>1. \A l \in ListNames : IsList(node[l])
      BY DEF IsNode
    <3> QED BY <3>1, ListWith
  <2> QED BY <1>4, <1>7, <2>1
<1> QED BY <1>4, <1>5, <1>6, <1>7, <1>8 DEF p, IsNode

LEMMA ContentIs ==
    ASSUME NEW node, NEW list \in ListNames
    PROVE  Content(node, list) = [i \in DOMAIN node[list] |-> ItemOf(node[list][i])]
<1>1. list # "name"
  BY DEF ListNames
<1> QED BY <1>1 DEF Content, ItemOf

LEMMA ContentPut ==
    ASSUME NEW node, IsNode(node), NEW list \in ListNames, NEW x
    PROVE  /\ Content(Put(node, list, x), list) = Append(Content(node, list), ItemOf(x))
           /\ \A l \in Lists : l # list => Content(Put(node, list, x), l) = Content(node, l)
<1> DEFINE p == Put(node, list, x)
           s == node[list]
           t == Append(s, x)
           n == Len(s)
<1>1. /\ p.name = node.name /\ p[list] = t /\ \A l \in ListNames : l # list => p[l] = node[l]
  BY PutIs
<1> HIDE DEF p
<1>2. IsList(s)
  BY DEF IsNode
<1> HIDE DEF s
<1>3. /\ n \in Nat /\ DOMAIN s = 1 .. n /\ DOMAIN t = 1 .. n + 1 /\ t[n+1] = x
      /\ \A i \in 1 .. n : t[i] = s[i]
  BY <1>2, ListWith
<1> HIDE DEF t
<1> DEFINE before == [i \in 1 .. n |-> ItemOf(s[i])]
           after == [i \in 1 .. n + 1 |-> ItemOf(t[i])]
<1>4. Content(node, list) = before /\ Content(p, list) = after
  <2>1. Content(node, list) = [i \in DOMAIN s |-> ItemOf(s[i])]
    BY ContentIs DEF s
  <2>2. Content(p, list) = [i \in DOMAIN t |-> ItemOf(t[i])]
    BY <1>1, ContentIs
  <2> QED BY <1>3, <2>1, <2>2
<1>5. after = Append(before, ItemOf(x))
  <2> DEFINE S == {ItemOf(s[i]) : i \in 1 .. n} \cup {ItemOf(x)}
             k == n + 1
  <2>1. before \in [1 .. n -> S] /\ ItemOf(x) \in S
    OBVIOUS
  <2> HIDE DEF S, before
  <2>2. before \in Seq(S) /\ Len(before) = n
    BY <1>3, <2>1, OfLength
  <2>3. /\ Append(before, ItemOf(x)) \in Seq(S) /\ Len(Append(before, ItemOf(x))) = n + 1
        /\ Append(before, ItemOf(x))[n+1] = ItemOf(x)
        /\ \A i \in 1 .. n : Append(before, ItemOf(x))[i] = before[i]
    BY <2>1, <2>2, AppendProperties
  <2> DEFINE w == Append(before, ItemOf(x))
  <2> HIDE DEF w
  <2>4. w = [i \in 1 .. n + 1 |-> w[i]]
    <3>1. w \in Seq(S) /\ Len(w) = n + 1
      BY <2>3 DEF w
    <3> QED BY <3>1, LenProperties
  <2>5. ASSUME NEW i \in 1 .. n + 1 PROVE w[i] = ItemOf(t[i])
    <3>1. CASE i = n + 1
      BY <1>3, <2>3, <3>1 DEF w
    <3>2. CASE i # n + 1
      <4>1. i \in 1 .. n
        BY <1>3, <3>2
      <4>2. w[i] = before[i] /\ before[i] = ItemOf(s[i]) /\ t[i] = s[i]
        BY <1>3, <2>3, <4>1 DEF w, before
      <4> QED BY <4>2
    <3> QED BY <3>1, <3>2
  <2>6. after = [i \in 1 .. n + 1 |-> w[i]]
    BY <2>5
  <2> HIDE DEF after
  <2> QED BY <2>4, <2>6 DEF w
<1>6. ASSUME NEW l \in Lists, l # list PROVE Content(p, l) = Content(node, l)
  <2>1. CASE l = "name"
    BY <1>1, <2>1 DEF Content
  <2>2. CASE l # "name"
    <3>1. l \in ListNames
      BY <2>2 DEF Lists, ListNames
    <3>2. p[l] = node[l]
      BY <1>1, <1>6, <3>1
    <3> QED BY <3>1, <3>2, ContentIs
  <2> QED BY <2>1, <2>2
<1> QED BY <1>4, <1>5, <1>6 DEF p

-----------------------------------------------------------------------------
(* Initial values. *)

\* One further on.
Shifted(P) == {i + 1 : i \in P}

LEMMA ShiftedEnds ==
    ASSUME NEW n \in Nat, NEW P, P \subseteq 1 .. n, P # {}
    PROVE  /\ Min(P) \in P /\ Max(P) \in P /\ Shifted(P) # {}
           /\ Min(Shifted(P)) = Min(P) + 1 /\ Max(Shifted(P)) = Max(P) + 1
<1> DEFINE Q == Shifted(P)
           a == Min(P)
           b == Max(P)
           c == Min(Q)
           d == Max(Q)
           k == n + 1
<1>1. P \in SUBSET Nat /\ P \subseteq 0 .. n
  OBVIOUS
<1>2. (\A i \in P : i + 1 \in Q) /\ (\A j \in Q : j \in Int /\ j - 1 \in P) /\ \A i \in P : i \in Int
  <2>1. \A i \in P : i + 1 \in Q
    BY DEF Shifted
  <2>2. \A j \in Q : j \in Int /\ j - 1 \in P
    <3> SUFFICES ASSUME NEW j \in Q PROVE j \in Int /\ j - 1 \in P
      OBVIOUS
    <3>1. PICK i \in P : j = i + 1
      BY DEF Shifted
    <3>2. i \in Int
      BY <1>1
    <3>3. j - 1 = i
      BY <3>1, <3>2
    <3> QED BY <3>1, <3>2, <3>3
  <2>3. \A i \in P : i \in Int
    OBVIOUS
  <2> QED BY <2>1, <2>2, <2>3
<1>3. Q # {}
  BY <1>2
<1>4. Q \in SUBSET Nat /\ Q \subseteq 0 .. k /\ k \in Nat
  <2>1. ASSUME NEW j \in Q PROVE j \in Nat /\ j \in 0 .. k
    <3>1. j - 1 \in 1 .. n /\ j \in Int
      BY <1>2
    <3> QED BY <3>1
  <2> QED BY <2>1
<1> HIDE DEF Q, k
<1>5. a \in P /\ \A y \in P : a <= y
  BY <1>1, MinOfNat
<1>6. b \in P /\ \A y \in P : y <= b
  BY <1>1, MaxOfNat
<1>7. c \in Q /\ \A y \in Q : c <= y
  BY <1>3, <1>4, MinOfNat
<1>8. d \in Q /\ \A y \in Q : y <= d
  BY <1>3, <1>4, MaxOfNat
<1> HIDE DEF a, b, c, d
<1>9. a + 1 \in Q /\ b + 1 \in Q /\ c - 1 \in P /\ d - 1 \in P
      /\ a \in Int /\ b \in Int /\ c \in Int /\ d \in Int
  BY <1>2, <1>5, <1>6, <1>7, <1>8
<1>10. c <= a + 1 /\ b + 1 <= d /\ a <= c - 1 /\ d - 1 <= b
  BY <1>5, <1>6, <1>7, <1>8, <1>9
<1>11. c = a + 1 /\ d = b + 1
  BY <1>9, <1>10
<1> QED BY <1>3, <1>5, <1>6, <1>11 DEF a, b, c, d, Q

\* s is a with one element more in front.
Prefixed(s, a, n) == Len(a) = n /\ Len(s) = n + 1 /\ \A i \in 1 .. n : s[i+1] = a[i]

LEMMA PositionsShift ==
    ASSUME NEW a, NEW s, NEW n \in Nat, Prefixed(s, a, n), NEW from \in Nat, from >= 1, NEW c
    PROVE  /\ Positions(s, from + 1, c) = Shifted(Positions(a, from, c))
           /\ Positions(a, from, c) \subseteq 1 .. n
<1> USE DEF Prefixed
<1> DEFINE P == Positions(a, from, c)
           Q == Positions(s, from + 1, c)
<1>1. P = {i \in from .. n : a[i] = c} /\ Q = {i \in from + 1 .. n + 1 : s[i] = c}
  BY DEF Positions
<1> HIDE DEF P, Q
<1>2. ASSUME NEW j \in Q PROVE j \in Shifted(P)
  <2>1. j \in from + 1 .. n + 1 /\ s[j] = c
    BY <1>1
  <2>2. j - 1 \in from .. n /\ j - 1 \in 1 .. n /\ (j - 1) + 1 = j
    BY <2>1
  <2>3. a[j-1] = c
    BY <2>1, <2>2
  <2>4. j - 1 \in P
    BY <1>1, <2>2, <2>3
  <2> QED BY <2>2, <2>4 DEF Shifted
<1>3. ASSUME NEW j \in Shifted(P) PROVE j \in Q
  <2>1. PICK i \in P : j = i + 1
    BY DEF Shifted
  <2>2. i \in from .. n /\ a[i] = c
    BY <1>1
  <2>3. i \in 1 .. n /\ i + 1 \in from + 1 .. n + 1
    BY <2>2
  <2>4. s[i+1] = c
    BY <2>2, <2>3
  <2> QED BY <1>1, <2>1, <2>3, <2>4
<1>4. P \subseteq 1 .. n
  BY <1>1
<1> QED BY <1>2, <1>3, <1>4 DEF P, Q

\* The end of an initial value that begins at from.
ValueEnd(attr, from) ==
    IF Positions(attr, from, 125) # {} THEN Max(Positions(attr, from, 125))
    ELSE IF Positions(attr, from, Quote) # {} THEN Max(Positions(attr, from, Quote))
    ELSE IF Positions(attr, from, 44) # {} THEN Min(Positions(attr, from, 44)) - 1
    ELSE Len(attr)

LEMMA ValueEndShift ==
    ASSUME NEW a, NEW s, NEW n \in Nat, Prefixed(s, a, n), NEW from \in Nat, from >= 1
    PROVE  /\ ValueEnd(s, from + 1) = ValueEnd(a, from) + 1
           /\ ValueEnd(a, from) \in Int /\ ValueEnd(a, from) <= n
<1> DEFINE P(c) == Positions(a, from, c)
           Q(c) == Positions(s, from + 1, c)
<1>1. \A c : Q(c) = Shifted(P(c)) /\ P(c) \subseteq 1 .. n
  BY PositionsShift
<1> HIDE DEF P, Q
<1>2. ASSUME NEW c, P(c) # {}
      PROVE  /\ Q(c) # {} /\ Min(Q(c)) = Min(P(c)) + 1 /\ Max(Q(c)) = Max(P(c)) + 1
             /\ Min(P(c)) \in 1 .. n /\ Max(P(c)) \in 1 .. n
  BY <1>1, <1>2, ShiftedEnds
<1>3. ASSUME NEW c, P(c) = {} PROVE Q(c) = {}
  BY <1>1, <1>3 DEF Shifted
<1> DEFINE va == ValueEnd(a, from)
           vs == ValueEnd(s, from + 1)
<1>4. /\ va = IF P(125) # {} THEN Max(P(125)) ELSE IF P(Quote) # {} THEN Max(P(Quote))
              ELSE IF P(44) # {} THEN Min(P(44)) - 1 ELSE n
      /\ vs = IF Q(125) # {} THEN Max(Q(125)) ELSE IF Q(Quote) # {} THEN Max(Q(Quote))
              ELSE IF Q(44) # {} THEN Min(Q(44)) - 1 ELSE n + 1
  BY DEF ValueEnd, P, Q, Prefixed
<1> SUFFICES vs = va + 1 /\ va \in Int /\ va <= n
  OBVIOUS
<1> HIDE DEF va, vs
<1>5. CASE P(125) # {}
  BY <1>2, <1>4, <1>5
<1>6. CASE P(125) = {} /\ P(Quote) # {}
  <2>1. Q(125) = {}
    BY <1>3, <1>6
  <2>2. Q(Quote) # {} /\ Max(Q(Quote)) = Max(P(Quote)) + 1 /\ Max(P(Quote)) \in 1 .. n
    BY <1>2, <1>6
  <2>3. va = Max(P(Quote)) /\ vs = Max(Q(Quote))
    BY <1>4, <1>6, <2>1, <2>2, Zenon
  <2> QED BY <2>2, <2>3
<1>7. CASE P(125) = {} /\ P(Quote) = {} /\ P(44) # {}
  <2>1. Q(125) = {} /\ Q(Quote) = {}
    BY <1>3, <1>7
  <2>2. Q(44) # {} /\ Min(Q(44)) = Min(P(44)) + 1 /\ Min(P(44)) \in 1 .. n
    BY <1>2, <1>7
  <2>3. va = Min(P(44)) - 1 /\ vs = Min(Q(44)) - 1
    BY <1>4, <1>7, <2>1, <2>2, Zenon
  <2> QED BY <2>2, <2>3
<1>8. CASE P(125) = {} /\ P(Quote) = {} /\ P(44) = {}
  BY <1>3, <1>4, <1>8
<1> QED BY <1>5, <1>6, <1>7, <1>8

\* The colon that a release build leaves in front of the attributes is no part of the value.
LEMMA ColonIgnored ==
    ASSUME NEW attr \in Seq(Byte)
    PROVE  AttrInit(<<Colon>> \o attr) = AttrInit(attr)
<1> DEFINE s == <<Colon>> \o attr
           n == Len(attr)
           one == 1
<1>1. s \in Seq(Byte) /\ n \in Nat /\ Len(s) = n + 1 /\ s[1] = Colon /\ \A i \in 1 .. n : s[i+1] = attr[i]
  <2> DEFINE c == <<Colon>>
  <2>1. c \in Seq(Byte) /\ Len(c) = 1 /\ c[1] = Colon
    <3>1. Colon \in Byte
      BY DEF Colon, Byte
    <3> QED BY <3>1
  <2> HIDE DEF c
  <2>2. /\ c \o attr \in Seq(Byte) /\ n \in Nat /\ Len(c \o attr) = Len(c) + n
        /\ \A i \in 1 .. Len(c) + n : (c \o attr)[i] = IF i <= Len(c) THEN c[i] ELSE attr[i-Len(c)]
    BY <2>1, ConcatProperties, LenProperties
  <2> DEFINE w == c \o attr
  <2>3. w = s
    BY DEF c
  <2> HIDE DEF w, s, n
  <2>4. w[1] = Colon /\ Len(w) = n + 1
    BY <2>1, <2>2 DEF w
  <2>5. ASSUME NEW i \in 1 .. n PROVE w[i+1] = attr[i]
    <3>1. i + 1 \in 1 .. Len(c) + n /\ ~ (i + 1 <= Len(c)) /\ (i + 1) - Len(c) = i
      BY <2>1, <2>2
    <3> QED BY <2>2, <3>1 DEF w
  <2> QED BY <2>2, <2>3, <2>4, <2>5 DEF w
<1> HIDE DEF s, n, one
<1> DEFINE P == Positions(attr, one, 61)
           Q == Positions(s, one, 61)
<1>2. Q = Shifted(P) /\ P \subseteq 1 .. n
  <2>1. one \in Nat /\ one >= 1
    BY DEF one
  <2>2. Positions(s, one + 1, 61) = Shifted(P) /\ P \subseteq 1 .. n
    <3>1. Prefixed(s, attr, n)
      BY <1>1 DEF n, Prefixed
    <3> QED BY <1>1, <2>1, <3>1, PositionsShift
  <2>3. Q = Positions(s, one + 1, 61)
    <3>1. Q = {i \in 1 .. n + 1 : s[i] = 61} /\ Positions(s, one + 1, 61) = {i \in 2 .. n + 1 : s[i] = 61}
      BY <1>1 DEF Positions, one
    <3>2. s[1] # 61
      BY <1>1 DEF Colon
    <3>3. \A i \in 1 .. n + 1 : i = 1 \/ i \in 2 .. n + 1
      BY <1>1
    <3>4. \A i \in 2 .. n + 1 : i \in 1 .. n + 1
      BY <1>1
    <3> HIDE DEF Q
    <3> QED BY <3>1, <3>2, <3>3, <3>4
  <2> QED BY <2>2, <2>3
<1> HIDE DEF P, Q
<1>3. AttrInit(attr) = IF P = {} THEN {} ELSE {SubSeq(attr, Min(P) + 1, ValueEnd(attr, Min(P) + 1))}
  BY DEF AttrInit, P, one, ValueEnd
<1>4. AttrInit(s) = IF Q = {} THEN {} ELSE {SubSeq(s, Min(Q) + 1, ValueEnd(s, Min(Q) + 1))}
  BY DEF AttrInit, Q, one, ValueEnd
<1>5. CASE P = {}
  <2>1. Q = {}
    BY <1>2, <1>5 DEF Shifted
  <2> QED BY <1>3, <1>4, <1>5, <2>1 DEF s
<1>6. CASE P # {}
  <2> DEFINE from == Min(P) + 1
             last == ValueEnd(attr, from)
             next == from + 1
             end == last + 1
  <2>1. Min(P) \in P /\ Q # {} /\ Min(Q) = Min(P) + 1
    BY <1>1, <1>2, <1>6, ShiftedEnds
  <2>2. from \in Nat /\ from >= 1 /\ Min(Q) + 1 = next
    <3> DEFINE m == Min(P)
    <3>1. m \in 1 .. n
      BY <1>2, <2>1
    <3> HIDE DEF m
    <3>2. m + 1 \in Nat /\ m + 1 >= 1
      BY <3>1
    <3> QED BY <2>1, <3>2 DEF m
  <2> HIDE DEF from
  <2>3. ValueEnd(s, next) = end /\ last \in Int /\ last <= n
    <3>1. Prefixed(s, attr, n)
      BY <1>1 DEF n, Prefixed
    <3>2. from \in Nat /\ from >= 1 /\ n \in Nat
      BY <1>1, <2>2
    <3>3. /\ ValueEnd(s, from + 1) = ValueEnd(attr, from) + 1
          /\ ValueEnd(attr, from) \in Int /\ ValueEnd(attr, from) <= n
      BY <3>1, <3>2, ValueEndShift
    <3> QED BY <3>3
  <2> HIDE DEF last
  <2> DEFINE a == SubSeq(attr, from, last)
             b == SubSeq(s, next, end)
  <2>4. a \in Seq(Byte) /\ Len(a) = (IF from <= last THEN last - from + 1 ELSE 0)
        /\ \A i \in 1 .. last - from + 1 : a[i] = attr[from+i-1]
    <3>1. \A i \in from .. last : attr[i] \in Byte
      <4>1. \A i \in from .. last : i \in 1 .. n
        BY <1>1, <2>2, <2>3
      <4> QED BY <4>1, ElementOfSeq DEF n
    <3>2. from \in Int
      BY <2>2
    <3> QED BY <2>3, <3>1, <3>2, SubSeqProperties
  <2>5. b \in Seq(Byte) /\ Len(b) = (IF next <= end THEN end - next + 1 ELSE 0)
        /\ \A i \in 1 .. end - next + 1 : b[i] = s[next+i-1]
    <3>1. next \in Int /\ end \in Int /\ \A i \in next .. end : i \in 1 .. n + 1
      BY <1>1, <2>2, <2>3
    <3>2. \A i \in 1 .. n + 1 : s[i] \in Byte
      BY <1>1, ElementOfSeq
    <3>3. \A i \in next .. end : s[i] \in Byte
      BY <3>1, <3>2
    <3> HIDE DEF next, end
    <3> QED BY <3>1, <3>3, SubSeqProperties
  <2> HIDE DEF a, b
  <2>6. Len(a) = Len(b)
    BY <2>2, <2>3, <2>4, <2>5
  <2>7. ASSUME NEW i \in 1 .. Len(a) PROVE a[i] = b[i]
    <3>1. Len(a) \in Nat
      BY <2>4, LenProperties
    <3>2. from <= last
      BY <2>4, <3>1
    <3>3. i \in 1 .. last - from + 1 /\ i \in 1 .. end - next + 1 /\ next + i - 1 = (from + i - 1) + 1
          /\ from + i - 1 \in 1 .. n
      BY <1>1, <2>2, <2>3, <2>4, <3>1, <3>2
    <3>4. a[i] = attr[from+i-1] /\ b[i] = s[next+i-1]
      BY <2>4, <2>5, <3>3
    <3> QED BY <1>1, <3>3, <3>4
  <2>8. a = b
    BY <2>4, <2>5, <2>6, <2>7, SeqEqual
  <2>9. AttrInit(attr) = {a}
    BY <1>3, <1>6 DEF a, last, from
  <2>10. AttrInit(s) = {b}
    <3>1. AttrInit(s) = {SubSeq(s, next, ValueEnd(s, next))}
      BY <1>4, <2>1, <2>2
    <3> QED BY <2>3, <3>1 DEF b
  <2> QED BY <2>8, <2>9, <2>10 DEF s
<1> QED BY <1>5, <1>6

-----------------------------------------------------------------------------
(* Definitions that are well written. *)

Item(name, elem, attr) == [name |-> name, elem |-> elem, init |-> AttrInit(attr)]

\* A reference to one of the first n types, and one to none of them.
Known(dsg, n) == MatchPair(dsg, 2, 91, 93) # 0 /\ ToInt(dsg, 3) \in Nat /\ ToInt(dsg, 3) < n
Unknown(dsg, n) == MatchPair(dsg, 2, 91, 93) = 0 \/ ToInt(dsg, 3) >= n

IsComment(l) == l.text \in Seq(Letter) /\ l.text # <<>> /\ l.text[1] = 35 /\ l.list = "none"

Names(l) ==
    \E name, rest :
      /\ IsName(name) /\ IsText(rest, {Colon})
      /\ l.text = DeclarationText(78, name, rest, <<>>)
      /\ l.list = "name" /\ l.item = name /\ l.typed = FALSE

Declares(l, op, name, dsg, attr) ==
    /\ IsName(name) /\ IsText(dsg, {Colon}) /\ dsg # <<>> /\ IsText(attr, {})
    /\ l.text = DeclarationText(LineType[op], name, dsg, attr)

TellsType(l, name, dsg, attr) == l.list = "types" /\ l.item = Item(name, ParseDataSignature(dsg), attr)

\* A port has its own signature or that of a type.
TellsPort(l, types, op, name, dsg, attr) ==
    \/ /\ ~IsReference(dsg) /\ l.list = ListOf[op] /\ l.typed = FALSE
       /\ l.item = Item(name, ParseDataSignature(dsg), attr)
    \/ /\ IsReference(dsg) /\ Known(dsg, Len(types)) /\ l.list = ListOf[op] /\ l.typed = TRUE
       /\ l.item = Item(name, types[ToInt(dsg, 3) + 1].elem, attr)
    \/ IsReference(dsg) /\ Unknown(dsg, Len(types)) /\ l.list = "none"

DeclaresType(l) ==
    \E name, dsg, attr : Declares(l, "typedef", name, dsg, attr) /\ TellsType(l, name, dsg, attr)

DeclaresPort(l, types) ==
    \E op \in {"require", "provide"} : \E name, dsg, attr :
      Declares(l, op, name, dsg, attr) /\ TellsPort(l, types, op, name, dsg, attr)

\* The text of each line declares what the line adds to the node; there is one name.
IsWellWritten(d) ==
    /\ \E v \in 50 .. 57 : d.version = <<49, Dot, v>>
    /\ \A k \in 1 .. Len(d.lines) :
         \/ IsComment(d.lines[k])
         \/ Names(d.lines[k]) /\ Described(d, k - 1, "name", FALSE) = <<>>
         \/ DeclaresType(d.lines[k])
         \/ DeclaresPort(d.lines[k], Described(d, k - 1, "types", FALSE))

-----------------------------------------------------------------------------
(* Handlers. *)

Entry(name, dsg, attr) == [name |-> name, dsg |-> dsg, attr |-> attr]

LEMMA TypeHandled ==
    ASSUME NEW parser, NEW node, NEW name, NEW dsg, NEW attr
    PROVE  Handled(parser, node, LineEvent("typedef", name, dsg, attr))
             = Put(node, "types", Entry(name, dsg, attr))
<1> DEFINE e == LineEvent("typedef", name, dsg, attr)
<1>1. e.ev = "typedef" /\ e.name = name /\ e.dsg = dsg /\ e.attr = attr
  BY DEF LineEvent
<1> HIDE DEF e
<1>2. Appended(node, e, dsg) = Put(node, "types", Entry(name, dsg, attr))
  BY <1>1 DEF Appended, ListOf, Put, Entry
<1>3. ByteArrayHandler(node, e) = Appended(node, e, dsg)
  BY <1>1 DEF ByteArrayHandler
<1>4. FileHandler(node, e) = Appended(node, e, dsg)
  BY <1>1 DEF FileHandler
<1> QED BY <1>2, <1>3, <1>4 DEF Handled, e

LEMMA NameHandled ==
    ASSUME NEW node, NEW name
    PROVE  /\ Handled("bytearray", node, NameEvent("nodeQueryRspStart", name))
                = [node EXCEPT !.name = name]
           /\ Handled("file", node, NameEvent("nodeQueryRspStart", name)) = node
<1> DEFINE e == NameEvent("nodeQueryRspStart", name)
<1>1. e.ev = "nodeQueryRspStart" /\ e.name = name
  BY DEF NameEvent
<1> HIDE DEF e
<1>2. ByteArrayHandler(node, e) = [node EXCEPT !.name = name]
  BY <1>1 DEF ByteArrayHandler
<1>3. FileHandler(node, e) = node
  BY <1>1 DEF FileHandler
<1> QED BY <1>2, <1>3 DEF Handled, e

\* What becomes of a port: its signature, that of its type or nothing.
PortTreated(node, op, name, dsg, attr) ==
    LET e == LineEvent(op, name, dsg, attr)
        n == Len(node.types)
        put(own) == Put(node, ListOf[op], Entry(name, own, attr))
    IN  /\ ~ IsReference(dsg) =>
             Handled("bytearray", node, e) = put(dsg) /\ Handled("file", node, e) = node
        /\ IsReference(dsg) /\ Known(dsg, n) /\ n \in Nat => \A parser :
             Handled(parser, node, e) = put(node.types[ToInt(dsg, 3) + 1].dsg)
        /\ IsReference(dsg) /\ Unknown(dsg, n) => \A parser : Handled(parser, node, e) = node

LEMMA PortHandled ==
    ASSUME NEW node, NEW op \in {"require", "provide"}, NEW name, NEW dsg \in Seq(Byte), dsg # <<>>,
           NEW attr
    PROVE  PortTreated(node, op, name, dsg, attr)
<1> DEFINE e == LineEvent(op, name, dsg, attr)
           n == Len(node.types)
           put(own) == Put(node, ListOf[op], Entry(name, own, attr))
           id == ToInt(dsg, 3)
<1>1. e.ev = op /\ e.name = name /\ e.dsg = dsg /\ e.attr = attr
  BY DEF LineEvent
<1>2. op # "nodeQueryRspStart" /\ op # "typedef"
  OBVIOUS
<1> HIDE DEF e, n
<1>3. \A own : WithPort(node, e, {own}) = put(own)
  <2> TAKE own
  <2>1. (CHOOSE x \in {own} : TRUE) = own /\ {own} # {}
    OBVIOUS
  <2>2. WithPort(node, e, {own}) = Appended(node, e, own)
    BY <2>1 DEF WithPort
  <2> QED BY <1>1, <2>2 DEF Appended, Put, Entry
<1>4. WithPort(node, e, {}) = node
  BY DEF WithPort
<1> HIDE DEF put
<1>5. ByteArrayHandler(node, e)
        = WithPort(node, e, IF IsReference(dsg) THEN ReferredDsg(node, dsg) ELSE {dsg})
  BY <1>1, <1>2 DEF ByteArrayHandler
<1>6. /\ Len(dsg) >= 2 /\ IsReference(dsg) =>
           FileHandler(node, e) = WithPort(node, e, ReferredDsg(node, dsg))
      /\ ~ (Len(dsg) >= 2 /\ IsReference(dsg)) => FileHandler(node, e) = node
  BY <1>1, <1>2 DEF FileHandler
<1>7. ASSUME ~ IsReference(dsg)
      PROVE  Handled("bytearray", node, e) = put(dsg) /\ Handled("file", node, e) = node
  BY <1>3, <1>5, <1>6, <1>7 DEF Handled
<1>8. ReferredDsg(node, dsg) = IF MatchPair(dsg, 2, 91, 93) = 0 \/ id >= n THEN {}
                               ELSE {node.types[id+1].dsg}
  BY DEF ReferredDsg, n
<1> HIDE DEF id
<1>9. ASSUME IsReference(dsg), Known(dsg, n), n \in Nat, NEW parser
      PROVE  Handled(parser, node, e) = put(node.types[id+1].dsg)
  <2>1. MatchPair(dsg, 2, 91, 93) # 0 /\ id \in Nat /\ id < n
    BY <1>9 DEF Known, id
  <2>2. ReferredDsg(node, dsg) = {node.types[id+1].dsg}
    <3>1. ~ (id >= n)
      BY <1>9, <2>1
    <3> QED BY <1>8, <2>1, <3>1
  <2>3. Len(dsg) >= 2
    <3>1. At(dsg, 2) = 91
      BY <2>1, ZenonT(30) DEF MatchPair
    <3>2. 2 \in DOMAIN dsg
      BY <3>1 DEF At
    <3>3. DOMAIN dsg = 1 .. Len(dsg) /\ Len(dsg) \in Nat
      BY LenProperties
    <3> QED BY <3>2, <3>3
  <2> QED BY <1>3, <1>5, <1>6, <1>9, <2>2, <2>3 DEF Handled
<1>10. ASSUME IsReference(dsg), Unknown(dsg, n), NEW parser
       PROVE  Handled(parser, node, e) = node
  <2>1. ReferredDsg(node, dsg) = {}
    BY <1>8, <1>10 DEF Unknown, id
  <2> QED BY <1>4, <1>5, <1>6, <1>10, <2>1 DEF Handled
<1> QED BY <1>7, <1>9, <1>10 DEF e, n, put, id, PortTreated

-----------------------------------------------------------------------------
(* A node that has what the first k lines describe. *)

Matches(node, d, k, typedOnly) ==
    IsNode(node) /\ \A list \in Lists : Content(node, list) = Described(d, k, list, typedOnly)

LEMMA MatchesNone ==
    ASSUME NEW d, HasLines(d), NEW typedOnly
    PROVE  Matches(EmptyNode, d, 0, typedOnly)
<1>1. IsNode(EmptyNode)
  <2>1. <<>> \in Seq({<<>>[i] : i \in DOMAIN <<>>})
    OBVIOUS
  <2>2. \A list \in ListNames : EmptyNode[list] = <<>>
    BY DEF EmptyNode, ListNames
  <2>3. EmptyNode = [name |-> EmptyNode.name, types |-> EmptyNode.types,
                     requires |-> EmptyNode.requires, provides |-> EmptyNode.provides]
    BY DEF EmptyNode
  <2> QED BY <2>1, <2>2, <2>3 DEF IsNode, IsList
<1>2. ASSUME NEW list \in Lists PROVE Content(EmptyNode, list) = <<>>
  <2>1. CASE list = "name"
    BY <2>1 DEF Content, EmptyNode
  <2>2. CASE list # "name"
    <3>1. list \in ListNames
      BY <2>2 DEF Lists, ListNames
    <3>2. EmptyNode[list] = <<>>
      BY <3>1 DEF EmptyNode, ListNames
    <3>3. Content(EmptyNode, list) = [i \in DOMAIN <<>> |-> ItemOf(<<>>[i])]
      BY <3>1, <3>2, ContentIs
    <3> QED BY <3>3
  <2> QED BY <2>1, <2>2
<1>3. \A list : Described(d, 0, list, typedOnly) = <<>>
  BY DescribedIs
<1> QED BY <1>1, <1>2, <1>3 DEF Matches

\* A line that adds nothing.
LEMMA MatchesSkipped ==
    ASSUME NEW d, HasLines(d), NEW k \in 1 .. Len(d.lines), NEW typedOnly, NEW node,
           Matches(node, d, k - 1, typedOnly),
           \A list \in Lists : ~ Adds(d.lines[k], list, typedOnly)
    PROVE  Matches(node, d, k, typedOnly)
<1>1. ASSUME NEW list \in Lists
      PROVE  Described(d, k, list, typedOnly) = Described(d, k - 1, list, typedOnly)
  <2>1. Described(d, k, list, typedOnly)
          = More(Described(d, k - 1, list, typedOnly), d.lines[k], list, typedOnly)
    BY DescribedIs
  <2> QED BY <2>1 DEF More
<1> QED BY <1>1 DEF Matches

\* A line that adds an item to a list.
LEMMA MatchesPut ==
    ASSUME NEW d, HasLines(d), NEW k \in 1 .. Len(d.lines), NEW typedOnly, NEW node,
           Matches(node, d, k - 1, typedOnly), NEW list \in ListNames, NEW x,
           d.lines[k].list = list, Adds(d.lines[k], list, typedOnly), d.lines[k].item = ItemOf(x)
    PROVE  Matches(Put(node, list, x), d, k, typedOnly)
<1> DEFINE l == d.lines[k]
           D(j, a) == Described(d, j, a, typedOnly)
<1>1. IsNode(node) /\ \A a \in Lists : Content(node, a) = D(k-1, a)
  BY DEF Matches
<1>2. \A a : D(k, a) = More(D(k-1, a), l, a, typedOnly)
  BY DescribedIs
<1>3. /\ Content(Put(node, list, x), list) = Append(Content(node, list), ItemOf(x))
      /\ \A a \in Lists : a # list => Content(Put(node, list, x), a) = Content(node, a)
      /\ IsNode(Put(node, list, x))
  BY <1>1, ContentPut, PutIs
<1>4. list \in Lists
  BY DEF Lists, ListNames
<1> HIDE DEF D
<1>5. D(k, list) = Append(D(k-1, list), ItemOf(x))
  BY <1>2 DEF More
<1>6. ASSUME NEW a \in Lists, a # list PROVE D(k, a) = D(k-1, a)
  BY <1>2, <1>6 DEF More, Adds
<1>7. ASSUME NEW a \in Lists PROVE Content(Put(node, list, x), a) = D(k, a)
  BY <1>1, <1>3, <1>4, <1>5, <1>6
<1> QED BY <1>3, <1>7 DEF Matches, D

\* The line of the name.
LEMMA MatchesName ==
    ASSUME NEW d, HasLines(d), NEW k \in 1 .. Len(d.lines), NEW node,
           Matches(node, d, k - 1, FALSE), NEW name, name # <<>>,
           d.lines[k].list = "name", d.lines[k].item = name,
           Described(d, k - 1, "name", FALSE) = <<>>
    PROVE  Matches([node EXCEPT !.name = name], d, k, FALSE)
<1> DEFINE l == d.lines[k]
           p == [node EXCEPT !.name = name]
           D(j, a) == Described(d, j, a, FALSE)
<1>1. IsNode(node) /\ \A a \in Lists : Content(node, a) = D(k-1, a)
  BY DEF Matches
<1>2. \A a : D(k, a) = More(D(k-1, a), l, a, FALSE)
  BY DescribedIs
<1>3. D(k-1, "name") = <<>>
  OBVIOUS
<1> HIDE DEF D
<1>4. node = [name |-> node.name, types |-> node.types, requires |-> node.requires,
              provides |-> node.provides]
  BY <1>1 DEF IsNode
<1>5. p = [name |-> name, types |-> node.types, requires |-> node.requires,
           provides |-> node.provides]
  BY <1>4
<1>6. /\ p.name = name /\ (\A a \in ListNames : p[a] = node[a])
      /\ p = [name |-> p.name, types |-> p.types, requires |-> p.requires, provides |-> p.provides]
  BY <1>5 DEF ListNames
<1> HIDE DEF p
<1>7. IsNode(p)
  BY <1>1, <1>6 DEF IsNode
<1>8. D(k, "name") = <<name>>
  <2>1. Adds(l, "name", FALSE)
    BY DEF Adds
  <2>2. D(k, "name") = Append(<<>>, name)
    BY <1>2, <1>3, <2>1 DEF More
  <2> QED BY <2>2
<1>9. ASSUME NEW a \in Lists PROVE Content(p, a) = D(k, a)
  <2>1. CASE a = "name"
    <3>1. Content(p, a) = <<name>>
      BY <1>6, <2>1 DEF Content
    <3> QED BY <1>8, <2>1, <3>1
  <2>2. CASE a # "name"
    <3>1. a \in ListNames
      BY <2>2 DEF Lists, ListNames
    <3>2. D(k, a) = D(k-1, a)
      BY <1>2, <2>2 DEF More, Adds
    <3>3. Content(p, a) = Content(node, a)
      BY <1>6, <3>1, ContentIs
    <3> QED BY <1>1, <3>2, <3>3
  <2> QED BY <2>1, <2>2
<1> QED BY <1>7, <1>9 DEF Matches, p, D

-----------------------------------------------------------------------------
(* What the handlers make of the event of a line. *)

OnlyTyped(parser) == parser = "file"

HasTypes(node, types) ==
    /\ Len(types) = Len(node.types) /\ Len(node.types) \in Nat
    /\ \A i \in 1 .. Len(node.types) : types[i].elem = ParseDataSignature(node.types[i].dsg)

\* The types of the node are those described.
LEMMA TypesOf ==
    ASSUME NEW d, HasLines(d), NEW k \in 0 .. Len(d.lines), NEW typedOnly, NEW node,
           Matches(node, d, k, typedOnly)
    PROVE  HasTypes(node, Described(d, k, "types", FALSE))
<1> DEFINE s == node.types
           n == Len(s)
           c == [i \in 1 .. n |-> ItemOf(s[i])]
<1>1. "types" \in ListNames /\ "types" \in Lists /\ node["types"] = s
  BY DEF ListNames, Lists
<1>2. IsList(s) /\ Content(node, "types") = Described(d, k, "types", typedOnly)
  BY <1>1 DEF Matches, IsNode
<1>3. Described(d, k, "types", typedOnly) = Described(d, k, "types", FALSE)
  BY TypesKept
<1>4. n \in Nat /\ DOMAIN s = 1 .. n
  BY <1>2, ListIs
<1>5. Content(node, "types") = c
  BY <1>1, <1>4, ContentIs
<1> HIDE DEF s, n
<1>6. Len(c) = n /\ \A i \in 1 .. n : c[i] = ItemOf(s[i])
  <2> DEFINE S == {ItemOf(s[i]) : i \in 1 .. n}
  <2>1. c \in [1 .. n -> S] /\ \A i \in 1 .. n : c[i] = ItemOf(s[i])
    OBVIOUS
  <2> HIDE DEF S, c
  <2> QED BY <1>4, <2>1, OfLength
<1>7. \A x : ItemOf(x).elem = ParseDataSignature(x.dsg)
  BY DEF ItemOf
<1> HIDE DEF c
<1>8. Described(d, k, "types", FALSE) = c
  BY <1>2, <1>3, <1>5
<1> QED BY <1>4, <1>6, <1>7, <1>8 DEF n, s, HasTypes

LEMMA TypeMatches ==
    ASSUME NEW d, HasLines(d), NEW k \in 1 .. Len(d.lines), NEW parser, NEW node,
           Matches(node, d, k - 1, OnlyTyped(parser)), NEW name, NEW dsg, NEW attr, NEW a,
           AttrInit(a) = AttrInit(attr), TellsType(d.lines[k], name, dsg, attr)
    PROVE  Matches(Handled(parser, node, LineEvent("typedef", name, dsg, a)), d, k, OnlyTyped(parser))
<1> DEFINE x == Entry(name, dsg, a)
           l == d.lines[k]
           list == "types"
<1>1. l.list = list /\ l.item = Item(name, ParseDataSignature(dsg), attr)
  BY DEF TellsType
<1>2. l.item = ItemOf(x)
  BY <1>1 DEF ItemOf, Entry, Item
<1>3. list \in ListNames /\ Adds(l, list, OnlyTyped(parser))
  BY <1>1 DEF ListNames, Adds
<1>4. Handled(parser, node, LineEvent("typedef", name, dsg, a)) = Put(node, list, x)
  BY TypeHandled
<1> HIDE DEF x, list, l
<1>5. Matches(Put(node, list, x), d, k, OnlyTyped(parser))
  BY <1>1, <1>2, <1>3, MatchesPut DEF l
<1> QED BY <1>4, <1>5

LEMMA PortMatches ==
    ASSUME NEW d, HasLines(d), NEW k \in 1 .. Len(d.lines), NEW parser \in {"bytearray", "file"},
           NEW node, Matches(node, d, k - 1, OnlyTyped(parser)), NEW op \in {"require", "provide"},
           NEW name, NEW dsg \in Seq(Byte), dsg # <<>>, NEW attr, NEW a,
           AttrInit(a) = AttrInit(attr),
           TellsPort(d.lines[k], Described(d, k - 1, "types", FALSE), op, name, dsg, attr)
    PROVE  Matches(Handled(parser, node, LineEvent(op, name, dsg, a)), d, k, OnlyTyped(parser))
<1> DEFINE l == d.lines[k]
           e == LineEvent(op, name, dsg, a)
           n == Len(node.types)
           o == OnlyTyped(parser)
           list == ListOf[op]
           types == Described(d, k - 1, "types", FALSE)
           id == ToInt(dsg, 3)
           put(own) == Put(node, list, Entry(name, own, a))
<1>1. list \in ListNames /\ list \in Lists /\ list # "types" /\ list # "name"
  BY DEF ListOf, ListNames, Lists
<1>2. /\ Len(types) = n /\ n \in Nat
      /\ \A i \in 1 .. n : types[i].elem = ParseDataSignature(node.types[i].dsg)
  <2> DEFINE j == k - 1
  <2>1. j \in 0 .. Len(d.lines)
    BY DEF HasLines
  <2>2. Matches(node, d, j, o)
    OBVIOUS
  <2> HIDE DEF j, o
  <2>3. HasTypes(node, Described(d, j, "types", FALSE))
    BY <2>1, <2>2, TypesOf
  <2> QED BY <2>3 DEF j, HasTypes
<1>3. /\ ~ IsReference(dsg) => /\ Handled("bytearray", node, e) = put(dsg)
                               /\ Handled("file", node, e) = node
      /\ IsReference(dsg) /\ Known(dsg, n) /\ n \in Nat =>
           Handled(parser, node, e) = put(node.types[id+1].dsg)
      /\ IsReference(dsg) /\ Unknown(dsg, n) => Handled(parser, node, e) = node
  <2>1. PortTreated(node, op, name, dsg, a)
    BY PortHandled
  <2> QED BY <2>1 DEF PortTreated
<1>4. \/ /\ ~IsReference(dsg) /\ l.list = list /\ l.typed = FALSE
         /\ l.item = Item(name, ParseDataSignature(dsg), attr)
      \/ /\ IsReference(dsg) /\ Known(dsg, n) /\ l.list = list /\ l.typed = TRUE
         /\ l.item = Item(name, types[id+1].elem, attr)
      \/ IsReference(dsg) /\ Unknown(dsg, n) /\ l.list = "none"
  BY <1>2 DEF TellsPort
<1>5. ASSUME NEW own, l.list = list, l.item = Item(name, ParseDataSignature(own), attr),
             Adds(l, list, o)
      PROVE  Matches(put(own), d, k, o)
  <2> DEFINE x == Entry(name, own, a)
  <2>1. l.item = ItemOf(x)
    BY <1>5 DEF ItemOf, Entry, Item
  <2>2. Matches(node, d, k - 1, o)
    OBVIOUS
  <2> HIDE DEF x, list, l, o
  <2> QED BY <1>1, <1>5, <2>1, <2>2, MatchesPut DEF l, x
<1>6. ASSUME \A b \in Lists : ~ Adds(l, b, o) PROVE Matches(node, d, k, o)
  <2>1. Matches(node, d, k - 1, o)
    OBVIOUS
  <2> HIDE DEF o
  <2> QED BY <1>6, <2>1, MatchesSkipped
<1> SUFFICES Matches(Handled(parser, node, e), d, k, o)
  OBVIOUS
<1> HIDE DEF l, n, list, types, id, put, e
<1>7. CASE ~ IsReference(dsg)
  <2>1. l.list = list /\ l.typed = FALSE /\ l.item = Item(name, ParseDataSignature(dsg), attr)
    BY <1>4, <1>7
  <2>2. CASE parser = "bytearray"
    <3>1. Adds(l, list, o)
      BY <2>1, <2>2 DEF Adds, OnlyTyped
    <3> QED BY <1>3, <1>5, <1>7, <2>1, <2>2, <3>1
  <2>3. CASE parser = "file"
    <3>1. \A b \in Lists : ~ Adds(l, b, o)
      BY <1>1, <2>1, <2>3 DEF Adds, OnlyTyped
    <3> QED BY <1>3, <1>6, <1>7, <2>3, <3>1
  <2> QED BY <2>2, <2>3
<1>8. CASE IsReference(dsg) /\ Known(dsg, n) /\ l.list = list
  <2>1. l.typed = TRUE /\ l.item = Item(name, types[id+1].elem, attr)
    BY <1>1, <1>4, <1>8 DEF Lists
  <2>2. id + 1 \in 1 .. n
    BY <1>2, <1>8 DEF Known, id
  <2>3. l.item = Item(name, ParseDataSignature(node.types[id+1].dsg), attr)
    BY <1>2, <2>1, <2>2
  <2>4. Adds(l, list, o)
    BY <1>8, <2>1 DEF Adds
  <2> QED BY <1>2, <1>3, <1>5, <1>8, <2>3, <2>4
<1>9. CASE IsReference(dsg) /\ Unknown(dsg, n) /\ l.list = "none"
  <2>1. \A b \in Lists : ~ Adds(l, b, o)
    BY <1>9 DEF Adds, Lists
  <2> QED BY <1>3, <1>6, <1>9, <2>1
<1> QED BY <1>4, <1>7, <1>8, <1>9

LEMMA NameMatches ==
    ASSUME NEW d, HasLines(d), NEW k \in 1 .. Len(d.lines), NEW parser \in {"bytearray", "file"},
           NEW node, Matches(node, d, k - 1, OnlyTyped(parser)), NEW name, name # <<>>,
           d.lines[k].list = "name", d.lines[k].item = name, d.lines[k].typed = FALSE,
           Described(d, k - 1, "name", FALSE) = <<>>
    PROVE  Matches(Handled(parser, node, NameEvent("nodeQueryRspStart", name)), d, k,
                   OnlyTyped(parser))
<1> DEFINE e == NameEvent("nodeQueryRspStart", name)
<1>1. CASE parser = "bytearray"
  <2>1. OnlyTyped(parser) = FALSE
    BY <1>1 DEF OnlyTyped
  <2>2. Handled(parser, node, e) = [node EXCEPT !.name = name]
    BY <1>1, NameHandled
  <2>3. Matches([node EXCEPT !.name = name], d, k, FALSE)
    BY <2>1, MatchesName
  <2> QED BY <2>1, <2>2, <2>3
<1>2. CASE parser = "file"
  <2>1. OnlyTyped(parser) = TRUE
    BY <1>2 DEF OnlyTyped
  <2>2. Handled(parser, node, e) = node
    BY <1>2, NameHandled
  <2>3. \A b \in Lists : ~ Adds(d.lines[k], b, TRUE)
    BY DEF Adds, Lists
  <2>4. Matches(node, d, k, TRUE)
    BY <2>1, <2>3, MatchesSkipped
  <2> QED BY <2>1, <2>2, <2>4
<1> QED BY <1>1, <1>2

-----------------------------------------------------------------------------
(* What the parser does with the lines of a well written definition. *)

Declaring == {"HEADER", "NODEQUERY_RSP"}

\* The parser read the line and handed e out, or nothing.
Passed == mParseState' \in Declaring /\ NextLine
Told(e) == Passed /\ events' = Append(events, e)
Silently == Passed /\ events' = events

\* A name with nothing behind it.
LEMMA BareName ==
    ASSUME NEW t \in Letter, NEW name, IsName(name)
    PROVE  LET l == DeclarationText(t, name, <<>>, <<>>) IN
           l # <<>> /\ l[1] = t /\ NameEnd(l) # 0 /\ DeclName(l) = name /\ ColonAt(l) # Len(l)
<1> DEFINE a == <<t, Quote>>
           c == <<Quote>>
           f == <<>>
           n == Len(name)
           p == 2
           q == n + 3
           z == n + 4
           l == DeclarationText(t, name, f, f)
<1>1. /\ a \in Seq(Byte) /\ Len(a) = 2 /\ a[1] = t /\ a[2] = Quote
      /\ c \in Seq(Byte) /\ Len(c) = 1 /\ c[1] = Quote /\ f \in Seq(Byte) /\ Len(f) = 0
  <2>1. t \in Byte /\ Quote \in Byte
    BY DEF Letter, Character, Byte, Quote
  <2> QED BY <2>1
<1>2. name \in Seq(Byte) /\ n \in Nat /\ n # 0
  <2>1. name \in Seq(Letter) /\ Letter \subseteq Byte
    <3>1. name \in Seq(Letter)
      BY TextIs DEF IsName
    <3> QED BY <3>1 DEF Letter, Character, Byte
  <2>2. name \in Seq(Byte)
    BY <2>1, SeqMonotonic
  <2>3. name # <<>>
    BY DEF IsName
  <2> QED BY <2>2, <2>3, EmptySeq, LenProperties
<1>3. l = a \o name \o c \o f \o f
  BY DEF DeclarationText
<1> SUFFICES l # <<>> /\ l[1] = t /\ NameEnd(l) # 0 /\ DeclName(l) = name /\ ColonAt(l) # Len(l)
  OBVIOUS
<1> HIDE DEF a, c, f, l
<1>4. /\ l \in Seq(Byte) /\ Len(l) = n + 3
      /\ StandsAt(l, 0, a) /\ StandsAt(l, 2, name) /\ StandsAt(l, n + 2, c)
  <2> DEFINE M == Five(a, name, c, f, f)
  <2>1. l = M
    BY <1>3 DEF Five
  <2>2. /\ M \in Seq(Byte) /\ Len(M) = Len(a) + n + Len(c) + Len(f) + Len(f)
        /\ StandsAt(M, 0, a) /\ StandsAt(M, Len(a), name) /\ StandsAt(M, Len(a) + n, c)
    <3>1. a \in Seq(Byte) /\ name \in Seq(Byte) /\ c \in Seq(Byte) /\ f \in Seq(Byte)
      BY <1>1, <1>2
    <3> QED BY <3>1, FiveParts
  <2> HIDE DEF M, n
  <2>3. Len(a) + n + Len(c) + Len(f) + Len(f) = n + 3 /\ Len(a) + n = n + 2 /\ Len(a) = 2
    BY <1>1, <1>2
  <2> QED BY <2>1, <2>2, <2>3
<1> HIDE DEF n
<1>5. q \in Nat /\ q = p + n + 1 /\ q <= Len(l) /\ p \in Nat /\ p # 0
  BY <1>2, <1>4
<1>6. l[1] = t /\ l[2] = Quote
  <2>1. 1 \in 1 .. Len(a) /\ 2 \in 1 .. Len(a) /\ 0 + 1 = 1 /\ 0 + 2 = 2
    BY <1>1
  <2>2. l[0+1] = a[1] /\ l[0+2] = a[2]
    BY <1>4, <2>1 DEF StandsAt
  <2> QED BY <1>1, <2>1, <2>2
<1>7. l[q] = Quote
  <2>1. 1 \in 1 .. Len(c) /\ (n + 2) + 1 = q
    BY <1>1, <1>2
  <2>2. l[(n+2)+1] = c[1]
    BY <1>4, <2>1 DEF StandsAt
  <2> QED BY <1>1, <2>1, <2>2
<1>8. StandsAt(l, p, name) /\ l[p] = Quote
  BY <1>4, <1>6
<1>9. l # <<>>
  <2>1. Len(l) # 0
    BY <1>2, <1>4
  <2> QED BY <1>4, <2>1, EmptySeq
<1> HIDE DEF p, q
<1>10. MatchPair(l, p, Quote, Quote) = q + 1 /\ SubSeq(l, p + 1, q - 1) = name
  <2>1. q \in {p + Len(name) + 1}
    BY <1>5 DEF n
  <2> QED BY <1>4, <1>5, <1>7, <1>8, <2>1, QuotedName
<1>11. NameEnd(l) = z /\ DeclName(l) = name /\ z # 0
  <2>1. q + 1 = z /\ z - 2 = q - 1 /\ p + 1 = 3 /\ z # 0
    BY <1>2 DEF p, q
  <2>2. NameEnd(l) = z
    BY <1>10, <2>1 DEF NameEnd, p
  <2>3. DeclName(l) = SubSeq(l, 3, z - 2)
    BY <2>2 DEF DeclName
  <2> QED BY <1>10, <2>1, <2>2, <2>3
<1>12. ColonAt(l) = 0 /\ Len(l) # 0
  <2>1. z > Len(l) /\ Len(l) # 0 /\ ~ (z > z)
    BY <1>2, <1>4
  <2> HIDE DEF z
  <2>2. SearchUntil(l, z, Colon) = z
    BY <2>1 DEF SearchUntil
  <2> QED BY <1>11, <2>1, <2>2 DEF ColonAt
<1> QED BY <1>6, <1>9, <1>11, <1>12

\* The name, with or without anything behind it.
LEMMA NameRead ==
    ASSUME AtText, TextLoop, bytes \in Seq(Byte), pos \in Nat, mParseState \in Declaring,
           NEW name, IsName(name), NEW rest, IsText(rest, {Colon}),
           Line = DeclarationText(78, name, rest, <<>>)
    PROVE  Told(NameEvent("nodeQueryRspStart", name))
<1> DEFINE l == Line
           t == 78
<1>1. t \in Letter /\ IsAlpha(t)
  BY DEF Letter, Character, NL, IsAlpha
<1>2. l # <<>> /\ l[1] = t /\ NameEnd(l) # 0 /\ DeclName(l) = name /\ ColonAt(l) # Len(l)
  <2> HIDE DEF t
  <2>1. CASE rest = <<>>
    BY <1>1, <2>1, BareName DEF t
  <2>2. CASE rest # <<>>
    <3> DEFINE attr == <<>>
    <3>1. rest \in Seq(Letter) /\ (\A i \in DOMAIN rest : rest[i] # Colon) /\ attr \in Seq(Letter)
      BY TextIs
    <3>2. l = DeclarationText(t, name, rest, attr)
      BY DEF t
    <3> HIDE DEF l, attr
    <3> QED BY <1>1, <2>2, <3>1, <3>2, DeclarationIs
  <2> QED BY <2>1, <2>2
<1>3. mParseState \in {"HEADER", "NODEQUERY_RSP"}
  BY DEF Declaring
<1>4. Declaration
  BY <1>1, <1>2, <1>3, WhichLine
<1>5. mParseState' = "NODEQUERY_RSP" /\ EmitDeclaration(l) /\ NextLine
  BY <1>2, <1>4 DEF Declaration
<1>6. events' = Append(events, NameEvent("nodeQueryRspStart", name))
  BY <1>2, <1>5 DEF EmitDeclaration, Emit
<1> QED BY <1>5, <1>6 DEF Told, Passed, Declaring

\* Attributes as they are handed out.
AsRead(attr) == IF attr # <<>> /\ ~ asserts THEN <<Colon>> \o attr ELSE attr

\* A type or a port.
LEMMA DeclarationRead ==
    ASSUME AtText, TextLoop, bytes \in Seq(Byte), pos \in Nat, mParseState \in Declaring,
           NEW l, NEW op \in {"typedef", "require", "provide"}, NEW name, NEW dsg, NEW attr,
           Declares(l, op, name, dsg, attr), Line = l.text
    PROVE  Told(LineEvent(op, name, dsg, AsRead(attr)))
<1> DEFINE msg == [op |-> op, name |-> name, dsg |-> dsg, attr |-> attr]
           e == LineEvent(op, name, dsg, AsRead(attr))
<1>1. msg.op = op /\ msg.name = name /\ msg.dsg = dsg /\ msg.attr = attr
  OBVIOUS
<1> HIDE DEF msg
<1>2. IsDeclarationMsg(msg)
  BY <1>1 DEF IsDeclarationMsg, Declares
<1>3. LineOf(msg) = l.text
  <2>1. LineOf(msg) = DeclarationText(LineType[op], name, dsg, attr)
    BY <1>1 DEF LineOf, DeclarationText
  <2> QED BY <2>1 DEF Declares
<1>4. mParseState' = "NODEQUERY_RSP" /\ NextLine /\ events' = events \o Meaning(msg)
  BY <1>2, <1>3, DeclarationStep DEF Declaring
<1>5. Meaning(msg) = <<e>>
  BY <1>1 DEF Meaning, AsRead
<1> HIDE DEF e
<1>6. events \o <<e>> = Append(events, e)
  OBVIOUS
<1> QED BY <1>4, <1>5, <1>6 DEF Told, Passed, Declaring, e

\* A line that starts with another character than a letter or those of a question.
LEMMA CommentRead ==
    ASSUME AtText, TextLoop, bytes \in Seq(Byte), pos \in Nat, mParseState \in Declaring,
           Line \in Seq(Byte), Line # <<>>, Line[1] = 35
    PROVE  Silently
<1>1. ~ IsAlpha(Line[1])
  BY DEF IsAlpha
<1>2. ASSUME NEW chars \in Seq(Byte), Len(chars) # 0, chars[1] # 35
      PROVE  ~ StartsWith(Line, chars)
  <2>1. StartsWith(Line, chars) => StandsAt(Line, 0, chars)
    BY StartsIs
  <2>2. 1 \in 1 .. Len(chars) /\ 0 + 1 = 1
    BY <1>2, LenProperties
  <2>3. StandsAt(Line, 0, chars) => Line[1] = chars[1]
    BY <2>2 DEF StandsAt
  <2> QED BY <1>2, <2>1, <2>3
<1>3. /\ ~ StartsWith(Line, <<63, 78, 42>>) /\ ~ IsNameQuery(Line) /\ ~ IsNameAnswer(Line)
      /\ ~ StartsWith(Line, <<63, 78>>)
  <2>1. 63 \in Byte /\ 78 \in Byte /\ 42 \in Byte /\ 43 \in Byte /\ Quote \in Byte /\ 63 # 35 /\ 43 # 35
    BY DEF Byte, Quote
  <2> DEFINE B == Byte
  <2> HIDE DEF B
  <2>2. ASSUME NEW x \in B, NEW y \in B, NEW z \in B
        PROVE  /\ <<x, y, z>> \in Seq(B) /\ Len(<<x, y, z>>) # 0 /\ <<x, y, z>>[1] = x
               /\ <<x, y>> \in Seq(B) /\ Len(<<x, y>>) # 0 /\ <<x, y>>[1] = x
    OBVIOUS
  <2>3. ASSUME NEW x \in B, NEW y \in B, NEW z \in B, x # 35
        PROVE  ~ StartsWith(Line, <<x, y, z>>) /\ ~ StartsWith(Line, <<x, y>>)
    <3> DEFINE c == <<x, y, z>>
               d == <<x, y>>
    <3>1. c \in Seq(B) /\ Len(c) # 0 /\ c[1] # 35 /\ d \in Seq(B) /\ Len(d) # 0 /\ d[1] # 35
      BY <2>2, <2>3
    <3> HIDE DEF c, d
    <3>2. ~ StartsWith(Line, c) /\ ~ StartsWith(Line, d)
      BY <1>2, <3>1 DEF B
    <3> QED BY <3>2 DEF c, d
  <2> QED BY <2>1, <2>3, ZenonT(30) DEF IsNameQuery, IsNameAnswer, B
<1>4. CASE mParseState = "HEADER"
  <2>1. FirstLine
    BY <1>1, <1>4, WhichLine
  <2> QED BY <1>3, <1>4, <2>1 DEF FirstLine, Silently, Passed, Declaring
<1>5. CASE mParseState = "NODEQUERY_RSP"
  <2>1. OtherLine
    BY <1>1, <1>5, WhichLine
  <2> QED BY <1>5, <2>1 DEF OtherLine, Silently, Passed, Declaring
<1> QED BY <1>4, <1>5 DEF Declaring

-----------------------------------------------------------------------------
(* What the parser has made of the first lines. *)

Gathered(parser, evs, d, k) ==
    IsList(evs) /\ \E node : Made(parser, evs, node) /\ Matches(node, d, k, OnlyTyped(parser))

\* One event more.
LEMMA EventAdded ==
    ASSUME NEW parser, NEW evs, IsList(evs), NEW node, Made(parser, evs, node), NEW e
    PROVE  IsList(Append(evs, e)) /\ Made(parser, Append(evs, e), Handled(parser, node, e))
<1> DEFINE S == {evs[i] : i \in DOMAIN evs}
<1>1. evs \in Seq(S)
  BY DEF IsList
<1> HIDE DEF S
<1>2. Made(parser, Append(evs, e), Handled(parser, node, e))
  BY <1>1, MadeWith
<1> QED BY <1>2, AppendedEvent

\* A line of a well written definition is read and what it describes is there.
LEMMA LineRead ==
    ASSUME AtText, TextLoop, bytes \in Seq(Byte), pos \in Nat, mParseState \in Declaring,
           NEW d, HasLines(d), IsWellWritten(d), NEW k \in 1 .. Len(d.lines),
           Line = d.lines[k].text, NEW parser \in {"bytearray", "file"},
           Gathered(parser, events, d, k - 1)
    PROVE  Passed /\ Gathered(parser, events', d, k)
<1> DEFINE l == d.lines[k]
           o == OnlyTyped(parser)
<1>1. PICK node : Made(parser, events, node) /\ Matches(node, d, k - 1, o)
  BY DEF Gathered
<1>2. IsList(events)
  BY DEF Gathered
<1>3. \/ IsComment(l)
      \/ Names(l) /\ Described(d, k - 1, "name", FALSE) = <<>>
      \/ DeclaresType(l)
      \/ DeclaresPort(l, Described(d, k - 1, "types", FALSE))
  BY DEF IsWellWritten
<1>4. ASSUME NEW e, Told(e), Matches(Handled(parser, node, e), d, k, o)
      PROVE  Passed /\ Gathered(parser, events', d, k)
  <2>1. Passed /\ events' = Append(events, e)
    BY <1>4 DEF Told
  <2>2. IsList(Append(events, e)) /\ Made(parser, Append(events, e), Handled(parser, node, e))
    BY <1>1, <1>2, EventAdded
  <2> QED BY <1>4, <2>1, <2>2 DEF Gathered
<1>5. \A attr \in Seq(Letter) : AttrInit(AsRead(attr)) = AttrInit(attr)
  <2> TAKE attr \in Seq(Letter)
  <2>1. attr \in Seq(Byte)
    <3>1. Letter \subseteq Byte
      BY DEF Letter, Character, Byte
    <3> QED BY <3>1, SeqMonotonic
  <2>2. AttrInit(<<Colon>> \o attr) = AttrInit(attr)
    BY <2>1, ColonIgnored
  <2> QED BY <2>2 DEF AsRead
<1>6. CASE IsComment(l)
  <2>1. Silently
    <3>1. l.text \in Seq(Byte) /\ l.text # <<>> /\ l.text[1] = 35
      <4>1. Letter \subseteq Byte
        BY DEF Letter, Character, Byte
      <4> QED BY <1>6, <4>1, SeqMonotonic DEF IsComment
    <3> QED BY <3>1, CommentRead
  <2>2. \A b \in Lists : ~ Adds(l, b, o)
    BY <1>6 DEF IsComment, Adds, Lists
  <2>3. Matches(node, d, k, o)
    <3> HIDE DEF o
    <3> QED BY <1>1, <2>2, MatchesSkipped
  <2> QED BY <1>1, <1>2, <2>1, <2>3 DEF Silently, Gathered
<1>7. CASE Names(l) /\ Described(d, k - 1, "name", FALSE) = <<>>
  <2>1. PICK name, rest :
          /\ IsName(name) /\ IsText(rest, {Colon})
          /\ l.text = DeclarationText(78, name, rest, <<>>)
          /\ l.list = "name" /\ l.item = name /\ l.typed = FALSE
    BY <1>7 DEF Names
  <2>2. Told(NameEvent("nodeQueryRspStart", name))
    BY <2>1, NameRead
  <2>3. name # <<>>
    BY <2>1 DEF IsName
  <2>4. Matches(Handled(parser, node, NameEvent("nodeQueryRspStart", name)), d, k, o)
    BY <1>1, <1>7, <2>1, <2>3, NameMatches
  <2> QED BY <1>4, <2>2, <2>4
<1>8. CASE DeclaresType(l)
  <2>1. PICK name, dsg, attr : Declares(l, "typedef", name, dsg, attr) /\ TellsType(l, name, dsg, attr)
    BY <1>8 DEF DeclaresType
  <2> DEFINE a == AsRead(attr)
  <2>2. Told(LineEvent("typedef", name, dsg, a))
    BY <2>1, DeclarationRead
  <2>3. AttrInit(a) = AttrInit(attr)
    BY <1>5, <2>1, TextIs DEF Declares
  <2> HIDE DEF a
  <2>4. Matches(Handled(parser, node, LineEvent("typedef", name, dsg, a)), d, k, o)
    BY <1>1, <2>1, <2>3, TypeMatches
  <2> QED BY <1>4, <2>2, <2>4
<1>9. CASE DeclaresPort(l, Described(d, k - 1, "types", FALSE))
  <2>1. PICK op \in {"require", "provide"} : \E name, dsg, attr :
          /\ Declares(l, op, name, dsg, attr)
          /\ TellsPort(l, Described(d, k - 1, "types", FALSE), op, name, dsg, attr)
    BY <1>9 DEF DeclaresPort
  <2>2. PICK name, dsg, attr :
          /\ Declares(l, op, name, dsg, attr)
          /\ TellsPort(l, Described(d, k - 1, "types", FALSE), op, name, dsg, attr)
    BY <2>1
  <2> DEFINE a == AsRead(attr)
  <2>3. Told(LineEvent(op, name, dsg, a))
    BY <2>2, DeclarationRead
  <2>4. AttrInit(a) = AttrInit(attr)
    BY <1>5, <2>2, TextIs DEF Declares
  <2>5. dsg \in Seq(Byte) /\ dsg # <<>>
    <3>1. dsg \in Seq(Letter) /\ dsg # <<>>
      BY <2>2, TextIs DEF Declares
    <3>2. Letter \subseteq Byte
      BY DEF Letter, Character, Byte
    <3> QED BY <3>1, <3>2, SeqMonotonic
  <2> HIDE DEF a
  <2>6. Matches(Handled(parser, node, LineEvent(op, name, dsg, a)), d, k, o)
    BY <1>1, <2>2, <2>4, <2>5, PortMatches
  <2> QED BY <1>4, <2>3, <2>6
<1> QED BY <1>3, <1>6, <1>7, <1>8, <1>9

-----------------------------------------------------------------------------
(* What the parser does with a line that was cut off. *)

\* Any event adds one item at most.
LEMMA AnyHandled ==
    ASSUME NEW parser, NEW node, NEW e
    PROVE  \/ Handled(parser, node, e) = node
           \/ /\ parser = "bytearray" /\ e.ev = "nodeQueryRspStart"
              /\ Handled(parser, node, e) = [node EXCEPT !.name = e.name]
           \/ \E list \in ListNames : \E x : Handled(parser, node, e) = Put(node, list, x)
<1>1. ASSUME NEW own, e.ev \in {"typedef", "require", "provide"}
      PROVE  \E list \in ListNames : \E x : Appended(node, e, own) = Put(node, list, x)
  <2> DEFINE x == [name |-> e.name, dsg |-> own, attr |-> e.attr]
             list == ListOf[e.ev]
  <2>1. Appended(node, e, own) = Put(node, list, x)
    BY DEF Appended, Put
  <2>2. list \in ListNames
    BY <1>1 DEF ListOf, ListNames
  <2> QED BY <2>1, <2>2
<1>2. ASSUME NEW owns, e.ev \in {"require", "provide"}
      PROVE  \/ WithPort(node, e, owns) = node
             \/ \E list \in ListNames : \E x : WithPort(node, e, owns) = Put(node, list, x)
  <2> DEFINE own == CHOOSE dsg \in owns : TRUE
  <2>1. WithPort(node, e, owns) = node \/ WithPort(node, e, owns) = Appended(node, e, own)
    BY DEF WithPort
  <2> HIDE DEF own
  <2>2. \E list \in ListNames : \E x : Appended(node, e, own) = Put(node, list, x)
    BY <1>1, <1>2
  <2> QED BY <2>1, <2>2
<1>3. CASE parser = "bytearray"
  <2>1. Handled(parser, node, e) = ByteArrayHandler(node, e)
    BY <1>3 DEF Handled
  <2>2. CASE e.ev = "nodeQueryRspStart"
    BY <1>3, <2>1, <2>2 DEF ByteArrayHandler
  <2>3. CASE e.ev = "typedef"
    <3>1. ByteArrayHandler(node, e) = Appended(node, e, e.dsg)
      BY <2>3 DEF ByteArrayHandler
    <3> QED BY <1>1, <2>1, <2>3, <3>1
  <2>4. CASE e.ev \in {"require", "provide"} /\ e.dsg # <<>>
    <3> DEFINE owns == IF IsReference(e.dsg) THEN ReferredDsg(node, e.dsg) ELSE {e.dsg}
    <3>1. ByteArrayHandler(node, e) = WithPort(node, e, owns)
      BY <2>4 DEF ByteArrayHandler
    <3> HIDE DEF owns
    <3> QED BY <1>2, <2>1, <2>4, <3>1
  <2>5. CASE e.ev # "nodeQueryRspStart" /\ e.ev # "typedef"
             /\ ~ (e.ev \in {"require", "provide"} /\ e.dsg # <<>>)
    BY <2>1, <2>5 DEF ByteArrayHandler
  <2> QED BY <2>2, <2>3, <2>4, <2>5
<1>4. CASE parser # "bytearray"
  <2>1. Handled(parser, node, e) = FileHandler(node, e)
    BY <1>4 DEF Handled
  <2>2. CASE e.ev = "typedef"
    <3>1. FileHandler(node, e) = Appended(node, e, e.dsg)
      BY <2>2 DEF FileHandler
    <3> QED BY <1>1, <2>1, <2>2, <3>1
  <2>3. CASE e.ev \in {"require", "provide"} /\ Len(e.dsg) >= 2 /\ IsReference(e.dsg)
    <3> DEFINE owns == ReferredDsg(node, e.dsg)
    <3>1. FileHandler(node, e) = WithPort(node, e, owns)
      BY <2>3 DEF FileHandler
    <3> HIDE DEF owns
    <3> QED BY <1>2, <2>1, <2>3, <3>1
  <2>4. CASE e.ev # "typedef"
             /\ ~ (e.ev \in {"require", "provide"} /\ Len(e.dsg) >= 2 /\ IsReference(e.dsg))
    BY <2>1, <2>4 DEF FileHandler
  <2> QED BY <2>2, <2>3, <2>4
<1> QED BY <1>3, <1>4

\* The node has what the first k lines describe and one item more at most.
Covers(node, d, k, typedOnly) ==
    LET listed(list) == Described(d, k, list, typedOnly)
    IN  /\ \A list \in Lists : IsPrefix(listed(list), Content(node, list))
        /\ NumItems(node) - (Len(listed("types")) + Len(listed("requires"))
                               + Len(listed("provides"))) <= 1

Nearly(parser, evs, d, k) ==
    IsList(evs) /\ \E node : Made(parser, evs, node) /\ Covers(node, d, k, OnlyTyped(parser))

LEMMA ContentLen ==
    ASSUME NEW node, IsNode(node), NEW list \in ListNames
    PROVE  Len(Content(node, list)) = Len(node[list]) /\ Len(node[list]) \in Nat
<1> DEFINE s == node[list]
           n == Len(s)
           c == [i \in 1 .. n |-> ItemOf(s[i])]
           S == {ItemOf(s[i]) : i \in 1 .. n}
<1>1. n \in Nat /\ DOMAIN s = 1 .. n
  BY ListIs DEF IsNode
<1>2. Content(node, list) = c
  BY <1>1, ContentIs
<1> HIDE DEF n
<1>3. c \in [1 .. n -> S]
  OBVIOUS
<1> HIDE DEF S, c
<1>4. Len(c) = n
  BY <1>1, <1>3, OfLength
<1> QED BY <1>1, <1>2, <1>4 DEF n

\* The numbers of items of the node and of those described.
LEMMA Sizes ==
    ASSUME NEW d, NEW k, NEW typedOnly, NEW node, Matches(node, d, k, typedOnly)
    PROVE  \A list \in ListNames : /\ Len(node[list]) = Len(Described(d, k, list, typedOnly))
                                   /\ Len(node[list]) \in Nat
<1> SUFFICES ASSUME NEW list \in ListNames
             PROVE  /\ Len(node[list]) = Len(Described(d, k, list, typedOnly))
                    /\ Len(node[list]) \in Nat
  OBVIOUS
<1>1. IsNode(node) /\ list \in Lists /\ Content(node, list) = Described(d, k, list, typedOnly)
  BY DEF Matches, ListNames, Lists
<1> QED BY <1>1, ContentLen

LEMMA MatchesCovers ==
    ASSUME NEW d, HasLines(d), NEW k \in 0 .. Len(d.lines), NEW typedOnly, NEW node,
           Matches(node, d, k, typedOnly)
    PROVE  Covers(node, d, k, typedOnly)
<1> DEFINE D(list) == Described(d, k, list, typedOnly)
<1>1. \A list \in Lists : Content(node, list) = D(list)
  BY DEF Matches
<1>2. \A list \in Lists : IsPrefix(D(list), D(list))
  <2> TAKE list \in Lists
  <2> DEFINE S == Items(d)
  <2>1. D(list) \in Seq(S)
    BY DescribedIs
  <2> HIDE DEF S, D
  <2> QED BY <2>1, PrefixOfMore
<1>3. /\ "types" \in ListNames /\ "requires" \in ListNames /\ "provides" \in ListNames
      /\ node["types"] = node.types /\ node["requires"] = node.requires
      /\ node["provides"] = node.provides
  BY DEF ListNames
<1>4. /\ Len(node.types) = Len(D("types")) /\ Len(node.requires) = Len(D("requires"))
      /\ Len(node.provides) = Len(D("provides"))
      /\ Len(node.types) \in Nat /\ Len(node.requires) \in Nat /\ Len(node.provides) \in Nat
  BY <1>3, Sizes
<1> HIDE DEF D
<1>5. NumItems(node) - (Len(D("types")) + Len(D("requires")) + Len(D("provides"))) <= 1
  BY <1>4 DEF NumItems
<1> QED BY <1>1, <1>2, <1>5 DEF Covers, D

\* One item more.
LEMMA PutCovers ==
    ASSUME NEW d, HasLines(d), NEW k \in 0 .. Len(d.lines), NEW typedOnly, NEW node,
           Matches(node, d, k, typedOnly), NEW list \in ListNames, NEW x
    PROVE  Covers(Put(node, list, x), d, k, typedOnly)
<1> DEFINE D(a) == Described(d, k, a, typedOnly)
           p == Put(node, list, x)
<1>1. IsNode(node) /\ \A a \in Lists : Content(node, a) = D(a)
  BY DEF Matches
<1>2. ASSUME NEW a \in Lists PROVE IsPrefix(D(a), Content(p, a))
  <2> DEFINE S == Items(d)
  <2>1. D(a) \in Seq(S)
    BY DescribedIs
  <2>2. Content(p, a) = D(a) \/ Content(p, a) = Append(D(a), ItemOf(x))
    <3>1. list \in Lists
      BY DEF Lists, ListNames
    <3> HIDE DEF D
    <3> QED BY <1>1, <3>1, ContentPut
  <2> HIDE DEF S, D, p
  <2> QED BY <2>1, <2>2, PrefixOfMore
<1>3. /\ "types" \in ListNames /\ "requires" \in ListNames /\ "provides" \in ListNames
      /\ node["types"] = node.types /\ node["requires"] = node.requires
      /\ node["provides"] = node.provides /\ p["types"] = p.types
      /\ p["requires"] = p.requires /\ p["provides"] = p.provides
  BY DEF ListNames
<1>4. /\ Len(node.types) = Len(D("types")) /\ Len(node.requires) = Len(D("requires"))
      /\ Len(node.provides) = Len(D("provides"))
      /\ Len(node.types) \in Nat /\ Len(node.requires) \in Nat /\ Len(node.provides) \in Nat
  BY <1>3, Sizes
<1>5. \A a \in ListNames : Len(p[a]) = IF a = list THEN Len(node[a]) + 1 ELSE Len(node[a])
  <2>1. \A a \in ListNames : a # list => p[a] = node[a]
    BY <1>1, PutIs
  <2>2. p[list] = Append(node[list], x) /\ IsList(node[list])
    BY <1>1, PutIs DEF IsNode
  <2>3. Len(p[list]) = Len(node[list]) + 1
    BY <2>2, ListWith
  <2> HIDE DEF p
  <2> QED BY <2>1, <2>3
<1> DEFINE at == Len(p.types)
           rq == Len(p.requires)
           pr == Len(p.provides)
           nt == Len(node.types)
           nr == Len(node.requires)
           np == Len(node.provides)
           dt == Len(D("types"))
           dr == Len(D("requires"))
           dp == Len(D("provides"))
<1>6. \/ at = nt + 1 /\ rq = nr /\ pr = np
      \/ at = nt /\ rq = nr + 1 /\ pr = np
      \/ at = nt /\ rq = nr /\ pr = np + 1
  <2>1. /\ at = IF "types" = list THEN nt + 1 ELSE nt
        /\ rq = IF "requires" = list THEN nr + 1 ELSE nr
        /\ pr = IF "provides" = list THEN np + 1 ELSE np
    BY <1>3, <1>5
  <2>2. /\ "types" # "requires" /\ "types" # "provides" /\ "requires" # "provides"
    OBVIOUS
  <2> HIDE DEF p, at, rq, pr, nt, nr, np
  <2>3. CASE list = "types"
    BY <2>1, <2>2, <2>3
  <2>4. CASE list = "requires"
    BY <2>1, <2>2, <2>4
  <2>5. CASE list = "provides"
    BY <2>1, <2>2, <2>5
  <2> QED BY <2>3, <2>4, <2>5 DEF ListNames
<1>7. NumItems(p) - (dt + dr + dp) <= 1
  <2>1. nt = dt /\ nr = dr /\ np = dp /\ nt \in Nat /\ nr \in Nat /\ np \in Nat
    BY <1>4
  <2>2. NumItems(p) = at + rq + pr
    BY DEF NumItems
  <2> HIDE DEF D, p, at, rq, pr, nt, nr, np, dt, dr, dp
  <2> QED BY <1>6, <2>1, <2>2
<1> HIDE DEF D, p
<1> QED BY <1>2, <1>7 DEF Covers, D, p

\* A name where there was none.
LEMMA NameCovers ==
    ASSUME NEW d, HasLines(d), NEW k \in 0 .. Len(d.lines), NEW typedOnly, NEW node,
           Matches(node, d, k, typedOnly), NEW name, Described(d, k, "name", typedOnly) = <<>>
    PROVE  Covers([node EXCEPT !.name = name], d, k, typedOnly)
<1> DEFINE D(a) == Described(d, k, a, typedOnly)
           p == [node EXCEPT !.name = name]
<1>1. Covers(node, d, k, typedOnly)
  BY MatchesCovers
<1>2. p.name = name /\ \A a \in ListNames : p[a] = node[a]
  <2>1. node = [name |-> node.name, types |-> node.types, requires |-> node.requires,
                provides |-> node.provides]
    BY DEF Matches, IsNode
  <2>2. p = [name |-> name, types |-> node.types, requires |-> node.requires,
             provides |-> node.provides]
    BY <2>1
  <2> HIDE DEF p
  <2> QED BY <2>2 DEF ListNames
<1> HIDE DEF p
<1>3. ASSUME NEW a \in Lists PROVE IsPrefix(D(a), Content(p, a))
  <2>1. CASE a = "name"
    <3>1. D(a) = <<>>
      BY <2>1
    <3>2. Content(p, a) = <<>> \/ Content(p, a) = Append(<<>>, name)
      BY <1>2, <2>1 DEF Content
    <3>3. <<>> \in Seq({name})
      OBVIOUS
    <3>4. IsPrefix(<<>>, <<>>) /\ IsPrefix(<<>>, Append(<<>>, name))
      BY <3>3, PrefixOfMore
    <3> QED BY <3>1, <3>2, <3>4
  <2>2. CASE a # "name"
    <3>1. a \in ListNames
      BY <2>2 DEF Lists, ListNames
    <3>2. Content(p, a) = Content(node, a)
      BY <1>2, <3>1, ContentIs
    <3>3. IsPrefix(D(a), Content(node, a))
      BY <1>1 DEF Covers
    <3> QED BY <3>2, <3>3
  <2> QED BY <2>1, <2>2
<1>4. NumItems(p) = NumItems(node)
  <2>1. p["types"] = node["types"] /\ p["requires"] = node["requires"] /\ p["provides"] = node["provides"]
    BY <1>2 DEF ListNames
  <2> QED BY <2>1 DEF NumItems
<1> HIDE DEF D
<1>5. NumItems(p) - (Len(D("types")) + Len(D("requires")) + Len(D("provides"))) <= 1
  BY <1>1, <1>4 DEF Covers, D
<1> QED BY <1>3, <1>5 DEF Covers, D, p

\* What can become of any line among declarations.
LEMMA AnyLine ==
    ASSUME AtText, TextLoop, bytes \in Seq(Byte), pos \in Nat, mParseState \in Declaring,
           Line # <<>>
    PROVE  /\ \/ events' = events
              \/ \E e : /\ events' = Append(events, e)
                        /\ e.ev = "nodeQueryRspStart" => Line[1] = 78
           /\ NextLine \/ Abort \/ Reset \/ BadDeclaration
<1>1. CASE mParseState = "HEADER" /\ ~ IsAlpha(Line[1])
  <2>1. FirstLine
    BY <1>1, WhichLine
  <2>2. NextLine \/ Abort
    BY <2>1 DEF FirstLine
  <2>3. events' = events \/ \E e : events' = Append(events, e) /\ e.ev # "nodeQueryRspStart"
    <3>1. \A name : NameEvent("nodeQueryRqst", name).ev # "nodeQueryRspStart"
      BY DEF NameEvent
    <3>2. Event("nodeNameRqst").ev # "nodeQueryRspStart"
      BY DEF Event
    <3>3. EmitNodeQuery => events' = events \/ \E e : events' = Append(events, e) /\ e.ev # "nodeQueryRspStart"
      BY <3>1 DEF EmitNodeQuery, Emit
    <3>4. Emit(Event("nodeNameRqst")) => events' = Append(events, Event("nodeNameRqst"))
      BY DEF Emit
    <3>5. Abort => events' = events
      BY DEF Abort
    <3> QED BY <2>1, <3>2, <3>3, <3>4, <3>5 DEF FirstLine
  <2> QED BY <2>2, <2>3
<1>2. CASE mParseState = "NODEQUERY_RSP" /\ ~ IsAlpha(Line[1])
  <2>1. OtherLine
    BY <1>2, WhichLine
  <2> QED BY <2>1 DEF OtherLine
<1>3. CASE IsAlpha(Line[1]) /\ NameEnd(Line) # 0
  <2>1. Declaration
    BY <1>3, WhichLine DEF Declaring
  <2>2. Abort \/ (EmitDeclaration(Line) /\ NextLine)
    BY <2>1 DEF Declaration
  <2>3. Abort => events' = events
    BY DEF Abort
  <2>4. \A name : NameEvent("nodeQueryRspStart", name).ev = "nodeQueryRspStart"
    BY DEF NameEvent
  <2>5. \A op, name, dsg, attr : LineEvent(op, name, dsg, attr).ev = op
    BY DEF LineEvent
  <2>6. ASSUME EmitDeclaration(Line)
        PROVE  \/ events' = events
               \/ \E e : events' = Append(events, e) /\ (e.ev = "nodeQueryRspStart" => Line[1] = 78)
    <3>1. CASE Line[1] = 78
      BY <2>6, <3>1 DEF EmitDeclaration, Emit
    <3>2. CASE Line[1] = 84
      <4>1. events' = Append(events, LineEvent("typedef", DeclName(Line), DeclDsg(Line), DeclAttr(Line)))
        BY <2>6, <3>2 DEF EmitDeclaration, Emit
      <4> QED BY <2>5, <4>1
    <3>3. CASE Line[1] = 80
      <4>1. events' = Append(events, LineEvent("provide", DeclName(Line), DeclDsg(Line), DeclAttr(Line)))
        BY <2>6, <3>3 DEF EmitDeclaration, Emit
      <4> QED BY <2>5, <4>1
    <3>4. CASE Line[1] = 82
      <4>1. events' = Append(events, LineEvent("require", DeclName(Line), DeclDsg(Line), DeclAttr(Line)))
        BY <2>6, <3>4 DEF EmitDeclaration, Emit
      <4> QED BY <2>5, <4>1
    <3>5. CASE Line[1] \notin {78, 84, 80, 82}
      BY <2>6, <3>5 DEF EmitDeclaration
    <3> QED BY <3>1, <3>2, <3>3, <3>4, <3>5
  <2> QED BY <2>2, <2>3, <2>6
<1>4. CASE IsAlpha(Line[1]) /\ NameEnd(Line) = 0
  <2>1. BadFirstDeclaration \/ BadDeclaration
    BY <1>4, WhichLine DEF Declaring
  <2>2. BadFirstDeclaration => Abort \/ Reset
    BY DEF BadFirstDeclaration, AssertThenReset
  <2>3. Abort \/ Reset \/ BadDeclaration => events' = events
    BY DEF Abort, Reset, BadDeclaration
  <2> QED BY <2>1, <2>2, <2>3
<1> QED BY <1>1, <1>2, <1>3, <1>4 DEF Declaring

\* What is left of a line loses nothing and adds one item at most.
LEMMA PartRead ==
    ASSUME AtText, TextLoop, bytes \in Seq(Byte), pos \in Nat, mParseState \in Declaring,
           Line # <<>>, NEW d, HasLines(d), NEW k \in 0 .. Len(d.lines),
           Line[1] = 78 => Described(d, k, "name", FALSE) = <<>>,
           NEW parser \in {"bytearray", "file"}, Gathered(parser, events, d, k)
    PROVE  /\ Nearly(parser, events', d, k)
           /\ NextLine \/ Abort \/ Reset \/ BadDeclaration
<1> DEFINE o == OnlyTyped(parser)
<1>1. IsList(events)
  BY DEF Gathered
<1>2. PICK node : Made(parser, events, node) /\ Matches(node, d, k, o)
  BY DEF Gathered
<1>3. /\ \/ events' = events
         \/ \E e : events' = Append(events, e) /\ (e.ev = "nodeQueryRspStart" => Line[1] = 78)
      /\ NextLine \/ Abort \/ Reset \/ BadDeclaration
  BY AnyLine
<1> HIDE DEF o
<1>4. CASE events' = events
  BY <1>1, <1>2, <1>4, MatchesCovers, <1>3 DEF Nearly, o
<1>5. ASSUME NEW e, events' = Append(events, e), e.ev = "nodeQueryRspStart" => Line[1] = 78
      PROVE  Nearly(parser, events', d, k)
  <2> DEFINE after == Handled(parser, node, e)
  <2>1. IsList(Append(events, e)) /\ Made(parser, Append(events, e), after)
    BY <1>1, <1>2, EventAdded
  <2>2. \/ after = node
        \/ /\ parser = "bytearray" /\ e.ev = "nodeQueryRspStart"
           /\ after = [node EXCEPT !.name = e.name]
        \/ \E list \in ListNames : \E x : after = Put(node, list, x)
    BY AnyHandled
  <2> HIDE DEF after
  <2>3. CASE after = node
    BY <1>2, <1>5, <2>1, <2>3, MatchesCovers DEF Nearly, o
  <2>4. CASE /\ parser = "bytearray" /\ e.ev = "nodeQueryRspStart"
             /\ after = [node EXCEPT !.name = e.name]
    <3>1. o = FALSE /\ Described(d, k, "name", o) = <<>>
      BY <1>5, <2>4 DEF o, OnlyTyped
    <3>2. Covers(after, d, k, o)
      BY <1>2, <2>4, <3>1, NameCovers
    <3> QED BY <1>5, <2>1, <3>2 DEF Nearly, o
  <2>5. CASE \E list \in ListNames : \E x : after = Put(node, list, x)
    <3>1. Covers(after, d, k, o)
      BY <1>2, <2>5, PutCovers
    <3> QED BY <1>5, <2>1, <3>1 DEF Nearly, o
  <2> QED BY <2>2, <2>3, <2>4, <2>5
<1> QED BY <1>3, <1>4, <1>5

-----------------------------------------------------------------------------
(* The lines of a definition text: the header and those behind it. *)

Rows(d) ==
    [j \in 1 .. Len(d.lines) + 1 |-> IF j = 1 THEN <<APX>> \o d.version ELSE d.lines[j-1].text]

\* A declaration is made of characters, the first of them its type.
LEMMA DeclarationCells ==
    ASSUME NEW t \in Letter, NEW name \in Seq(Letter), NEW dsg \in Seq(Letter),
           NEW attr \in Seq(Letter)
    PROVE  LET l == DeclarationText(t, name, dsg, attr)
           IN  l \in Seq(Letter) /\ l # <<>> /\ l[1] = t
<1> DEFINE a == <<t, Quote>>
           c == <<Quote>>
           f == IF attr = <<>> THEN <<>> ELSE <<Colon>> \o attr
           M == Five(a, name, c, dsg, f)
<1>1. /\ a \in Seq(Letter) /\ Len(a) = 2 /\ a[1] = t /\ c \in Seq(Letter) /\ Len(c) = 1
      /\ <<Colon>> \in Seq(Letter)
  <2>1. Quote \in Letter /\ Colon \in Letter
    BY DEF Letter, Character, Quote, Colon, NL
  <2> QED BY <2>1
<1>2. f \in Seq(Letter)
  <2>1. <<Colon>> \o attr \in Seq(Letter) /\ <<>> \in Seq(Letter)
    BY <1>1, ConcatProperties
  <2> QED BY <2>1
<1>3. DeclarationText(t, name, dsg, attr) = M
  BY DEF DeclarationText, Five
<1> HIDE DEF a, c, f
<1>4. M \in Seq(Letter) /\ StandsAt(M, 0, a)
  BY <1>1, <1>2, FiveParts
<1> HIDE DEF M
<1>5. M[1] = t /\ M # <<>>
  <2>1. 1 \in 1 .. Len(a) /\ 0 + 1 = 1
    BY <1>1
  <2>2. M[0+1] = a[1] /\ 0 + Len(a) <= Len(M)
    BY <1>4, <2>1 DEF StandsAt
  <2>3. Len(M) \in Nat /\ Len(M) # 0
    BY <1>1, <1>4, <2>2, LenProperties
  <2>4. M # <<>>
    BY <1>4, <2>3, EmptySeq
  <2> QED BY <1>1, <2>1, <2>2, <2>4
<1> QED BY <1>3, <1>4, <1>5

\* The lines of a well written definition.
LEMMA LinesWritten ==
    ASSUME NEW d, IsWellWritten(d), NEW k \in 1 .. Len(d.lines)
    PROVE  /\ d.lines[k].text \in Seq(Letter) /\ d.lines[k].text # <<>>
           /\ d.lines[k].text[1] = 78 => Described(d, k - 1, "name", FALSE) = <<>>
<1> DEFINE l == d.lines[k]
<1>1. \/ IsComment(l)
      \/ Names(l) /\ Described(d, k - 1, "name", FALSE) = <<>>
      \/ DeclaresType(l)
      \/ DeclaresPort(l, Described(d, k - 1, "types", FALSE))
  BY DEF IsWellWritten
<1> HIDE DEF l
<1>2. CASE IsComment(l)
  BY <1>2 DEF IsComment, l
<1>3. ASSUME NEW op \in {"typedef", "require", "provide"}, NEW name, NEW dsg, NEW attr,
             Declares(l, op, name, dsg, attr)
      PROVE  l.text \in Seq(Letter) /\ l.text # <<>> /\ l.text[1] # 78
  <2> DEFINE t == LineType[op]
  <2>1. t \in Letter /\ t # 78
    <3>1. t = 84 \/ t = 82 \/ t = 80
      BY DEF LineType
    <3>2. 84 \in Letter /\ 82 \in Letter /\ 80 \in Letter
      BY DEF Letter, Character, NL
    <3> QED BY <3>1, <3>2
  <2>2. name \in Seq(Letter) /\ dsg \in Seq(Letter) /\ attr \in Seq(Letter)
    BY <1>3, TextIs DEF Declares, IsName
  <2>3. l.text = DeclarationText(t, name, dsg, attr)
    BY <1>3 DEF Declares
  <2> HIDE DEF t
  <2> QED BY <2>1, <2>2, <2>3, DeclarationCells
<1>4. CASE Names(l) /\ Described(d, k - 1, "name", FALSE) = <<>>
  <2>1. PICK name, rest :
          /\ IsName(name) /\ IsText(rest, {Colon})
          /\ l.text = DeclarationText(78, name, rest, <<>>)
    BY <1>4 DEF Names
  <2> DEFINE t == 78
             e == <<>>
  <2>2. t \in Letter /\ e \in Seq(Letter)
    BY DEF Letter, Character, NL
  <2>3. name \in Seq(Letter) /\ rest \in Seq(Letter)
    BY <2>1, TextIs DEF IsName
  <2>4. l.text = DeclarationText(t, name, rest, e)
    BY <2>1
  <2> HIDE DEF t, e
  <2>5. l.text \in Seq(Letter) /\ l.text # <<>>
    BY <2>2, <2>3, <2>4, DeclarationCells
  <2> QED BY <1>4, <2>5 DEF l
<1>5. CASE DeclaresType(l)
  <2>1. PICK name, dsg, attr : Declares(l, "typedef", name, dsg, attr)
    BY <1>5 DEF DeclaresType
  <2> QED BY <1>3, <2>1 DEF l
<1>6. CASE DeclaresPort(l, Described(d, k - 1, "types", FALSE))
  <2>1. PICK op \in {"require", "provide"} : \E name, dsg, attr : Declares(l, op, name, dsg, attr)
    BY <1>6 DEF DeclaresPort
  <2>2. PICK name, dsg, attr : Declares(l, op, name, dsg, attr)
    BY <2>1
  <2>3. op \in {"typedef", "require", "provide"}
    OBVIOUS
  <2> QED BY <1>3, <2>2, <2>3 DEF l
<1> QED BY <1>1, <1>2, <1>4, <1>5, <1>6

RowsAre(d) ==
    /\ HasLines(d) /\ Rows(d) \in Seq(Seq(Letter)) /\ Len(Rows(d)) = Len(d.lines) + 1
    /\ \E v \in 50 .. 57 : Rows(d)[1] = <<APX, 49, Dot, v>>
    /\ \A k \in 1 .. Len(d.lines) : Rows(d)[k+1] = d.lines[k].text
    /\ \A j \in 1 .. Len(d.lines) + 1 :
         Rows(d)[j] \in Seq(Letter) /\ Len(Rows(d)[j]) \in Nat \ {0}

LEMMA RowsWritten ==
    ASSUME NEW d \in Definitions, IsWellWritten(d)
    PROVE  RowsAre(d)
<1> DEFINE n == Len(d.lines)
           m == n + 1
           r == Rows(d)
           S == Seq(Letter)
<1>1. HasLines(d)
  <2>1. d.lines \in Seq({d.lines[i] : i \in DOMAIN d.lines})
    BY Texts, ZenonT(30)
  <2> DEFINE L == {d.lines[i] : i \in DOMAIN d.lines}
  <2>2. d.lines \in Seq(L)
    BY <2>1
  <2> HIDE DEF L
  <2> QED BY <2>2, LenProperties DEF HasLines
<1>2. n \in Nat /\ m \in Nat
  BY <1>1 DEF HasLines
<1>3. PICK v \in 50 .. 57 : d.version = <<49, Dot, v>>
  BY DEF IsWellWritten
<1>4. r[1] = <<APX, 49, Dot, v>>
  <2>1. 1 \in 1 .. m
    BY <1>2
  <2>2. r[1] = <<APX>> \o d.version
    BY <2>1 DEF Rows
  <2>3. <<APX>> \o <<49, Dot, v>> = <<APX, 49, Dot, v>>
    <3> DEFINE a == <<APX>>
               b == <<49, Dot, v>>
               c == <<APX, 49, Dot, v>>
    <3>1. /\ a \in Seq(Nat) /\ b \in Seq(Nat) /\ c \in Seq(Nat)
          /\ Len(a) = 1 /\ Len(b) = 3 /\ Len(c) = 4
          /\ a[1] = c[1] /\ b[1] = c[2] /\ b[2] = c[3] /\ b[3] = c[4]
      BY DEF APX, Dot
    <3> HIDE DEF a, b, c
    <3>2. /\ a \o b \in Seq(Nat) /\ Len(a \o b) = Len(a) + Len(b)
          /\ \A i \in 1 .. Len(a) + Len(b) : (a \o b)[i] = IF i <= Len(a) THEN a[i] ELSE b[i-Len(a)]
      BY <3>1, ConcatProperties
    <3>3. \A i \in 1 .. 4 : (a \o b)[i] = c[i]
      BY <3>1, <3>2, SMTT(30)
    <3> DEFINE ab == a \o b
    <3>4. ab \in Seq(Nat) /\ \A i \in 1 .. 4 : ab[i] = c[i]
      BY <3>2, <3>3
    <3>5. Len(ab) = 4
      BY <3>1, <3>2
    <3> HIDE DEF ab
    <3>6. Len(ab) = Len(c) /\ \A i \in 1 .. Len(ab) : ab[i] = c[i]
      BY <3>1, <3>4, <3>5
    <3>7. ab = c
      BY <3>1, <3>4, <3>6, SeqEqual
    <3> QED BY <3>7 DEF a, b, c, ab
  <2> QED BY <1>3, <2>2, <2>3
<1>5. r[1] \in S /\ Len(r[1]) \in Nat \ {0}
  <2>1. APX \in Letter /\ 49 \in Letter /\ Dot \in Letter /\ v \in Letter
    BY DEF APX, Dot, Letter, Character, NL
  <2> HIDE DEF r
  <2> QED BY <1>4, <2>1
<1>6. ASSUME NEW k \in 1 .. n PROVE r[k+1] = d.lines[k].text
  <2>1. k + 1 \in 1 .. m /\ k + 1 # 1 /\ (k + 1) - 1 = k
    BY <1>2
  <2>2. r[k+1] = d.lines[(k+1)-1].text
    BY <2>1 DEF Rows
  <2> QED BY <2>1, <2>2
<1>7. ASSUME NEW j \in 1 .. m PROVE r[j] \in S /\ Len(r[j]) \in Nat \ {0}
  <2>1. CASE j = 1
    BY <1>5, <2>1
  <2>2. CASE j # 1
    <3> DEFINE k == j - 1
    <3>1. k \in 1 .. n /\ k + 1 = j
      BY <1>2, <2>2
    <3> HIDE DEF k, n, r
    <3>2. r[j] = d.lines[k].text
      BY <1>6, <3>1
    <3>3. d.lines[k].text \in Seq(Letter) /\ d.lines[k].text # <<>>
      BY <3>1, LinesWritten DEF n
    <3> DEFINE s == d.lines[k].text
    <3>4. s \in Seq(Letter) /\ s # <<>>
      BY <3>3
    <3> HIDE DEF s
    <3>5. Len(s) \in Nat /\ Len(s) # 0
      BY <3>4, LenProperties, EmptySeq
    <3> QED BY <3>2, <3>4, <3>5 DEF s
  <2> QED BY <2>1, <2>2
<1>8. r \in Seq(S) /\ Len(r) = m
  <2>1. r = [j \in 1 .. m |-> r[j]]
    BY DEF Rows
  <2> HIDE DEF r, S, m
  <2>2. r \in [1 .. m -> S]
    BY <1>7, <2>1
  <2> QED BY <1>2, <2>2, OfLength
<1> HIDE DEF r, S
<1>9. \A k \in 1 .. n : r[k+1] = d.lines[k].text
  BY <1>6
<1>10. \A j \in 1 .. m : r[j] \in S /\ Len(r[j]) \in Nat \ {0}
  BY <1>7
<1> QED BY <1>1, <1>4, <1>8, <1>9, <1>10 DEF RowsAre, r, S

-----------------------------------------------------------------------------
(* Where the lines are in the text. *)

RowParts(d) == [j \in 1 .. Len(d.lines) + 1 |-> Rows(d)[j] \o <<NL>>]
RowEnd(d, j) == PartEnd(RowParts(d), j)

LEMMA RowPartsAre ==
    ASSUME NEW d, RowsAre(d)
    PROVE  /\ RowParts(d) \in Seq(Seq(Byte)) /\ Len(RowParts(d)) = Len(d.lines) + 1
           /\ Len(d.lines) \in Nat
           /\ \A j \in 1 .. Len(d.lines) + 1 :
                /\ RowParts(d)[j] = Rows(d)[j] \o <<NL>>
                /\ Len(RowParts(d)[j]) = Len(Rows(d)[j]) + 1
<1> DEFINE m == Len(d.lines) + 1
           p == RowParts(d)
           S == Seq(Byte)
           e == <<NL>>
<1>1. m \in Nat /\ Len(d.lines) \in Nat
  BY DEF RowsAre, HasLines
<1>2. e \in Seq(Byte) /\ Len(e) = 1
  BY FixedParts
<1>3. ASSUME NEW j \in 1 .. m
      PROVE  p[j] = Rows(d)[j] \o e /\ p[j] \in S /\ Len(p[j]) = Len(Rows(d)[j]) + 1
  <2> DEFINE s == Rows(d)[j]
  <2>0. s \in Seq(Letter)
    BY DEF RowsAre
  <2>1. Letter \subseteq Byte
    BY DEF Letter, Character, Byte
  <2>2. s \in Seq(Byte)
    BY <2>0, <2>1, SeqMonotonic
  <2>3. p[j] = s \o e
    BY DEF RowParts
  <2> HIDE DEF s, e, p
  <2>4. s \o e \in Seq(Byte) /\ Len(s \o e) = Len(s) + Len(e)
    BY <1>2, <2>2, Concats
  <2> QED BY <1>2, <2>3, <2>4 DEF s
<1>4. p = [j \in 1 .. m |-> p[j]]
  BY DEF RowParts
<1> HIDE DEF p, S, m
<1>5. p \in [1 .. m -> S]
  BY <1>3, <1>4
<1>6. p \in Seq(S) /\ Len(p) = m
  BY <1>1, <1>5, OfLength
<1> QED BY <1>1, <1>3, <1>6 DEF p, S, m, e

\* Where each line starts and ends.
LEMMA RowEnds ==
    ASSUME NEW d, RowsAre(d)
    PROVE  /\ RowEnd(d, 0) = 0
           /\ RowEnd(d, Len(d.lines) + 1) = Len(FlattenSeq(RowParts(d)))
           /\ \A j \in 0 .. Len(d.lines) + 1 : RowEnd(d, j) \in Nat
           /\ \A j \in 1 .. Len(d.lines) + 1 :
                /\ RowEnd(d, j) = RowEnd(d, j - 1) + Len(Rows(d)[j]) + 1
                /\ StandsAt(FlattenSeq(RowParts(d)), RowEnd(d, j - 1), Rows(d)[j] \o <<NL>>)
           /\ \A j \in 0 .. Len(d.lines) + 1 : \A k \in j .. Len(d.lines) + 1 :
                RowEnd(d, j) <= RowEnd(d, k)
<1> DEFINE p == RowParts(d)
           m == Len(d.lines) + 1
           E(j) == PartEnd(p, j)
           t == FlattenSeq(p)
<1>1. p \in Seq(Seq(Byte)) /\ Len(p) = m /\ \A j \in 1 .. m :
        p[j] = Rows(d)[j] \o <<NL>> /\ Len(p[j]) = Len(Rows(d)[j]) + 1
  BY RowPartsAre
<1>2. m \in Nat /\ \A j \in 1 .. m : Len(Rows(d)[j]) \in Nat
  BY DEF RowsAre, HasLines
<1> HIDE DEF p, m
<1>3. /\ E(0) = 0 /\ E(m) = Len(t) /\ \A j \in 0 .. m : E(j) \in Nat
      /\ \A j \in 1 .. m : E(j) = E(j-1) + Len(p[j])
      /\ \A j \in 0 .. m : \A k \in j .. m : E(j) <= E(k)
      /\ \A j \in 1 .. m : StandsAt(t, E(j-1), p[j])
  BY <1>1, PartsIs
<1> HIDE DEF E, t
<1>4. ASSUME NEW j \in 1 .. m
      PROVE  E(j) = E(j-1) + Len(Rows(d)[j]) + 1 /\ StandsAt(t, E(j-1), Rows(d)[j] \o <<NL>>)
  <2>1. j - 1 \in 0 .. m
    BY <1>2
  <2>2. E(j) = E(j-1) + (Len(Rows(d)[j]) + 1) /\ E(j-1) \in Nat /\ Len(Rows(d)[j]) \in Nat
    BY <1>1, <1>2, <1>3, <2>1
  <2>3. StandsAt(t, E(j-1), p[j])
    BY <1>3
  <2>4. p[j] = Rows(d)[j] \o <<NL>>
    BY <1>1
  <2> QED BY <2>2, <2>3, <2>4
<1> QED BY <1>3, <1>4 DEF p, m, E, t, RowEnd

\* The text is its lines with their ends.
LEMMA TextOfRows ==
    ASSUME NEW d, RowsAre(d)
    PROVE  DefinitionText(d) = FlattenSeq(RowParts(d))
<1> DEFINE n == Len(d.lines)
           m == n + 1
           p == RowParts(d)
           q == [i \in DOMAIN d.lines |-> d.lines[i].text \o <<NL>>]
           h == <<APX>> \o d.version \o <<NL>>
           S == Seq(Byte)
<1>1. n \in Nat /\ DOMAIN d.lines = 1 .. n
  BY DEF RowsAre, HasLines
<1>2. /\ p \in Seq(S) /\ Len(p) = m
      /\ \A j \in 1 .. m : p[j] = Rows(d)[j] \o <<NL>>
  BY RowPartsAre
<1>3. p[1] = h
  <2>1. 1 \in 1 .. m
    BY <1>1
  <2>2. Rows(d)[1] = <<APX>> \o d.version
    BY <2>1 DEF Rows
  <2> QED BY <1>2, <2>1, <2>2
<1>4. ASSUME NEW k \in 1 .. n PROVE p[k+1] = q[k]
  <2>1. k + 1 \in 1 .. m
    BY <1>1
  <2>2. Rows(d)[k+1] = d.lines[k].text
    BY DEF RowsAre
  <2>3. q[k] = d.lines[k].text \o <<NL>>
    BY <1>1
  <2>4. p[k+1] = Rows(d)[k+1] \o <<NL>>
    BY <1>2, <2>1
  <2> HIDE DEF p, q
  <2> QED BY <2>2, <2>3, <2>4
<1>5. DefinitionText(d) = h \o FlattenSeq(q)
  BY DEF DefinitionText
<1>6. q \in Seq(S) /\ Len(q) = n
  <2>1. \A k \in 1 .. n : q[k] \in S
    <3> TAKE k \in 1 .. n
    <3>1. k + 1 \in 1 .. Len(p)
      BY <1>1, <1>2
    <3> HIDE DEF p, q, S
    <3>2. p[k+1] \in S
      BY <1>2, <3>1, ElementOfSeq
    <3> QED BY <1>4, <3>2
  <2>2. q = [k \in 1 .. n |-> q[k]]
    BY <1>1, SMTT(30)
  <2> HIDE DEF q, S
  <2>3. q \in [1 .. n -> S]
    BY <2>1, <2>2
  <2> QED BY <1>1, <2>3, OfLength
<1>7. h \in S
  <2>1. 1 \in 1 .. Len(p)
    BY <1>1, <1>2
  <2> HIDE DEF p, h, S
  <2>2. p[1] \in S
    BY <1>2, <2>1, ElementOfSeq
  <2> QED BY <1>3, <2>2
<1> DEFINE P(k) == FirstJoined(p, k)
           Q(k) == FirstJoined(q, k)
           good == {k \in 0 .. n : P(k + 1) = h \o Q(k)}
<1> HIDE DEF p, q, h
<1>8. /\ P(0) = <<>> /\ (\A j \in 1 .. m : P(j) = P(j-1) \o p[j]) /\ P(m) = FlattenSeq(p)
      /\ Q(0) = <<>> /\ (\A k \in 1 .. n : Q(k) = Q(k-1) \o q[k]) /\ Q(n) = FlattenSeq(q)
      /\ \A k \in 0 .. n : Q(k) \in S
  <2>1. p \in Seq(Seq(Byte)) /\ q \in Seq(Seq(Byte))
    BY <1>2, <1>6
  <2>2. P(0) = <<>> /\ (\A j \in 1 .. Len(p) : P(j) = P(j-1) \o p[j]) /\ P(Len(p)) = FlattenSeq(p)
    BY <2>1, JoinedIs
  <2>3. /\ Q(0) = <<>> /\ (\A k \in 1 .. Len(q) : Q(k) = Q(k-1) \o q[k]) /\ Q(Len(q)) = FlattenSeq(q)
        /\ \A k \in 0 .. Len(q) : Q(k) \in Seq(Byte)
    BY <2>1, JoinedIs
  <2> QED BY <1>2, <1>6, <2>2, <2>3
<1> HIDE DEF P, Q
<1>9. 0 \in good
  <2>1. 0 \in 0 .. n /\ 0 + 1 = 1 /\ 1 \in 1 .. m /\ 1 - 1 = 0
    BY <1>1
  <2>2. P(1) = <<>> \o p[1]
    BY <1>8, <2>1
  <2>3. h \in Seq(Byte)
    BY <1>7
  <2>4. <<>> \o h = h /\ h \o <<>> = h
    BY <2>3, ConcatEmptySeq
  <2> QED BY <1>3, <1>8, <2>1, <2>2, <2>4
<1>10. ASSUME NEW k \in 1 .. n, k - 1 \in good PROVE k \in good
  <2>1. k + 1 \in 1 .. m /\ (k + 1) - 1 = k /\ (k - 1) + 1 = k /\ k - 1 \in 0 .. n /\ k \in 0 .. n
    BY <1>1
  <2>2. P(k) = h \o Q(k-1)
    BY <1>10, <2>1
  <2>3. P(k+1) = P(k) \o p[k+1]
    BY <1>8, <2>1
  <2>4. P(k+1) = (h \o Q(k-1)) \o q[k]
    BY <1>4, <2>2, <2>3
  <2> DEFINE a == Q(k-1)
             b == q[k]
  <2>5. a \in Seq(Byte) /\ b \in Seq(Byte) /\ h \in Seq(Byte)
    <3>1. a \in S
      BY <1>8, <2>1
    <3>2. b \in S
      <4> HIDE DEF S
      <4> QED BY <1>6, ElementOfSeq
    <3> QED BY <1>7, <3>1, <3>2
  <2> HIDE DEF a, b
  <2>6. (h \o a) \o b = h \o (a \o b)
    BY <2>5, ConcatAssociative, SMTT(30)
  <2>7. Q(k) = a \o b
    BY <1>8 DEF a, b
  <2> QED BY <2>1, <2>4, <2>6, <2>7 DEF a, b
<1> HIDE DEF good
<1>11. n \in good
  <2>1. 0 .. n \subseteq good
    BY <1>1, <1>9, <1>10, Reached
  <2> QED BY <1>1, <2>1
<1>12. P(m) = h \o Q(n)
  BY <1>11 DEF good
<1> QED BY <1>5, <1>8, <1>12, ZenonT(30) DEF p, q, h

-----------------------------------------------------------------------------
(* A text that was cut. *)

\* r lines are there up to their end.
Ahead(d, r) ==
    /\ r \in 0 .. Len(d.lines) + 1 /\ RowEnd(d, r) <= cut
    /\ r < Len(d.lines) + 1 => cut < RowEnd(d, r + 1)

\* Those of them that are behind the header.
BehindHeader(r) == IF r = 0 THEN 0 ELSE r - 1

LEMMA CompleteRows ==
    ASSUME NEW d, RowsAre(d), cut \in Nat
    PROVE  \E r : Ahead(d, r)
<1> DEFINE m == Len(d.lines) + 1
           E(j) == RowEnd(d, j)
           far == {j \in 0 .. m : j = m \/ cut < E(j + 1)}
           r == Min(far)
<1>1. m \in Nat
  BY DEF RowsAre, HasLines
<1>2. E(0) = 0 /\ \A j \in 0 .. m : E(j) \in Nat
  BY RowEnds
<1> HIDE DEF m, E
<1>3. far \in SUBSET Nat /\ far # {}
  <2>1. m \in far
    BY <1>1
  <2> QED BY <1>1, <2>1
<1>4. r \in far /\ \A y \in far : r <= y
  <2> HIDE DEF far
  <2> QED BY <1>3, MinOfNat
<1> HIDE DEF r
<1>5. r \in 0 .. m /\ (r < m => cut < E(r + 1))
  BY <1>1, <1>4
<1>6. E(r) <= cut
  <2>1. CASE r = 0
    BY <1>2, <2>1
  <2>2. CASE r # 0
    <3> DEFINE k == r - 1
    <3>1. k \in 0 .. m /\ k # m /\ k + 1 = r /\ ~ (r <= k)
      BY <1>1, <1>5, <2>2
    <3> HIDE DEF k
    <3>2. k \notin far
      BY <1>4, <3>1
    <3>3. ~ (cut < E(k + 1))
      BY <3>1, <3>2
    <3>4. E(r) \in Nat
      BY <1>2, <1>5
    <3> QED BY <3>1, <3>3, <3>4
  <2> QED BY <2>1, <2>2
<1>7. Ahead(d, r)
  BY <1>5, <1>6 DEF Ahead, m, E
<1> QED BY <1>7

\* The first k lines behind the header as a text.
LEMMA FirstRows ==
    ASSUME NEW d, RowsAre(d), IsList(d.lines), NEW k \in 0 .. Len(d.lines)
    PROVE  Len(DefinitionText([version |-> d.version, lines |-> SubSeq(d.lines, 1, k)]))
             = RowEnd(d, k + 1)
<1> DEFINE n == Len(d.lines)
           s == SubSeq(d.lines, 1, k)
           e == [version |-> d.version, lines |-> s]
           L == {d.lines[i] : i \in DOMAIN d.lines}
           z == 0
<1>1. n \in Nat /\ k \in Nat /\ k <= n /\ d.lines \in Seq(L)
  BY DEF RowsAre, HasLines, IsList
<1>2. s \in Seq(L) /\ Len(s) = k /\ \A i \in 1 .. k : s[i] = d.lines[i]
  <2>1. z \in Nat /\ z <= k /\ z + 1 = 1 /\ k - z = k /\ \A i \in 1 .. k : z + i = i
    BY <1>1
  <2> HIDE DEF z, L, s, n
  <2>2. /\ SubSeq(d.lines, z + 1, k) \in Seq(L) /\ Len(SubSeq(d.lines, z + 1, k)) = k - z
        /\ \A i \in 1 .. k - z : SubSeq(d.lines, z + 1, k)[i] = d.lines[z+i]
    BY <1>1, <2>1, PartIs DEF n
  <2> QED BY <2>1, <2>2 DEF s
<1> HIDE DEF s, L
<1>3. e.version = d.version /\ e.lines = s
  OBVIOUS
<1> HIDE DEF e
<1>4. HasLines(e)
  BY <1>1, <1>2, <1>3, LenProperties DEF HasLines
<1>5. ASSUME NEW j \in 1 .. k + 1 PROVE Rows(e)[j] = Rows(d)[j] /\ j \in 1 .. n + 1
  <2>1. j \in 1 .. n + 1 /\ (j # 1 => j - 1 \in 1 .. k)
    BY <1>1
  <2>2. Rows(e)[j] = IF j = 1 THEN <<APX>> \o e.version ELSE e.lines[j-1].text
    BY <1>2, <1>3 DEF Rows
  <2>3. Rows(d)[j] = IF j = 1 THEN <<APX>> \o d.version ELSE d.lines[j-1].text
    BY <2>1 DEF Rows
  <2> QED BY <1>2, <1>3, <2>1, <2>2, <2>3
<1>6. RowsAre(e)
  <2>1. Len(e.lines) = k /\ 1 \in 1 .. k + 1
    BY <1>1, <1>2, <1>3
  <2> DEFINE S == Seq(Letter)
  <2>2. \A j \in 1 .. k + 1 : Rows(e)[j] \in S /\ Len(Rows(e)[j]) \in Nat \ {0}
    BY <1>5 DEF RowsAre, n
  <2>3. \E v \in 50 .. 57 : Rows(e)[1] = <<APX, 49, Dot, v>>
    <3>1. PICK v \in 50 .. 57 : Rows(d)[1] = <<APX, 49, Dot, v>>
      BY DEF RowsAre
    <3>2. Rows(e)[1] = Rows(d)[1]
      BY <1>5, <2>1
    <3> QED BY <3>1, <3>2
  <2>4. \A i \in 1 .. k : Rows(e)[i+1] = e.lines[i].text
    <3> TAKE i \in 1 .. k
    <3>1. i + 1 \in 1 .. k + 1 /\ i + 1 # 1 /\ (i + 1) - 1 = i
      BY <1>1
    <3> QED BY <2>1, <3>1 DEF Rows
  <2>5. Rows(e) \in Seq(S) /\ Len(Rows(e)) = k + 1
    <3>1. Rows(e) = [j \in 1 .. k + 1 |-> Rows(e)[j]]
      BY <2>1 DEF Rows
    <3> DEFINE r == Rows(e)
               m == k + 1
    <3> HIDE DEF S, r, m
    <3>2. r \in [1 .. m -> S]
      BY <2>2, <3>1 DEF r, m
    <3>3. m \in Nat
      BY <1>1 DEF m
    <3>4. r \in Seq(S) /\ Len(r) = m
      BY <3>2, <3>3, OfLength
    <3> QED BY <3>4 DEF r, m
  <2> QED BY <1>4, <2>1, <2>2, <2>3, <2>4, <2>5 DEF RowsAre
<1>7. DefinitionText(e) = FlattenSeq(RowParts(e)) /\ RowEnd(e, k + 1) = Len(FlattenSeq(RowParts(e)))
  <2>1. Len(e.lines) = k
    BY <1>2, <1>3
  <2> QED BY <1>6, <2>1, TextOfRows, RowEnds
<1>8. FirstJoined(RowParts(e), k + 1) = FirstJoined(RowParts(d), k + 1)
  <2> DEFINE a == RowParts(e)
             b == RowParts(d)
             S == Seq(Byte)
             j == k + 1
  <2>1. /\ a \in Seq(S) /\ Len(a) = k + 1 /\ \A i \in 1 .. k + 1 : a[i] = Rows(e)[i] \o <<NL>>
    <3>1. Len(e.lines) = k
      BY <1>2, <1>3
    <3> QED BY <1>6, <3>1, RowPartsAre
  <2>2. /\ b \in Seq(S) /\ Len(b) = n + 1 /\ \A i \in 1 .. n + 1 : b[i] = Rows(d)[i] \o <<NL>>
    BY RowPartsAre
  <2> HIDE DEF a, b, S, n
  <2>3. j \in Nat /\ j <= Len(a) /\ j <= Len(b) /\ \A i \in 1 .. j : a[i] = b[i]
    <3>1. j \in Nat /\ j <= Len(a) /\ j <= Len(b)
      <4>1. k \in Nat /\ n \in Nat /\ k <= n /\ Len(a) = k + 1 /\ Len(b) = n + 1
        BY <1>1, <2>1, <2>2 DEF n
      <4> QED BY <4>1
    <3>2. ASSUME NEW i \in 1 .. j PROVE a[i] = b[i]
      <4>1. i \in 1 .. k + 1
        BY <3>2
      <4>2. Rows(e)[i] = Rows(d)[i] /\ i \in 1 .. n + 1
        BY <1>5, <4>1 DEF n
      <4> QED BY <2>1, <2>2, <4>1, <4>2
    <3> QED BY <3>1, <3>2
  <2> HIDE DEF j
  <2>4. FirstJoined(a, j) = FirstJoined(b, j)
    BY <2>1, <2>2, <2>3, JoinedSame
  <2> QED BY <2>4 DEF a, b, j
<1> QED BY <1>7, <1>8 DEF RowEnd, PartEnd, e, s

LEMMA CompleteAre ==
    ASSUME RowsAre(definition), IsList(definition.lines), cut \in Nat,
           NEW r, Ahead(definition, r)
    PROVE  CompleteLines = BehindHeader(r)
<1> DEFINE d == definition
           n == Len(d.lines)
           E(j) == RowEnd(d, j)
           c == BehindHeader(r)
           ends(k) == Len(DefinitionText([version |-> d.version, lines |-> SubSeq(d.lines, 1, k)]))
           there == {k \in 1 .. n : ends(k) <= cut}
<1>1. n \in Nat /\ DOMAIN d.lines = 1 .. n
  BY DEF RowsAre, HasLines
<1>2. CompleteLines = Cardinality(there)
  BY <1>1 DEF CompleteLines
<1>3. ASSUME NEW k \in 1 .. n PROVE ends(k) = E(k + 1)
  <2>1. k \in 0 .. n
    BY <1>1
  <2> QED BY <2>1, FirstRows
<1>4. r \in 0 .. n + 1 /\ E(r) <= cut /\ (r < n + 1 => cut < E(r + 1))
  BY DEF Ahead
<1>5. /\ \A j \in 0 .. n + 1 : E(j) \in Nat
      /\ \A j \in 0 .. n + 1 : \A k \in j .. n + 1 : E(j) <= E(k)
  BY RowEnds
<1>6. c \in 0 .. n /\ \A k \in 1 .. n : k <= c <=> k + 1 <= r
  BY <1>1, <1>4 DEF BehindHeader
<1> HIDE DEF E, c, n, ends
<1>7. \A k \in 1 .. n : k <= c <=> ends(k) <= cut
  <2> TAKE k \in 1 .. n
  <2> DEFINE j == k + 1
  <2>1. j \in 0 .. n + 1 /\ ends(k) = E(j) /\ E(j) \in Nat
    BY <1>1, <1>3, <1>5
  <2>2. k <= c <=> j <= r
    BY <1>6
  <2> HIDE DEF j
  <2>3. CASE j <= r
    <3>1. r \in j .. n + 1
      BY <1>1, <1>4, <2>1, <2>3
    <3>2. E(j) <= E(r) /\ E(r) \in Nat
      BY <1>4, <1>5, <2>1, <3>1
    <3>3. E(j) <= cut
      BY <1>4, <2>1, <3>2
    <3> QED BY <2>1, <2>2, <2>3, <3>3
  <2>4. CASE ~ (j <= r)
    <3> DEFINE i == r + 1
    <3>1. r < n + 1 /\ i \in 0 .. n + 1 /\ j \in i .. n + 1
      BY <1>1, <1>4, <2>1, <2>4
    <3>2. cut < E(i)
      BY <1>4, <3>1
    <3> HIDE DEF i
    <3>3. E(i) <= E(j) /\ E(i) \in Nat
      BY <1>5, <3>1
    <3>4. ~ (E(j) <= cut)
      BY <2>1, <3>2, <3>3
    <3> QED BY <2>1, <2>2, <2>4, <3>4
  <2> QED BY <2>3, <2>4
<1>8. there = 1 .. c
  <2> DEFINE Q(k) == ends(k) <= cut
  <2>1. \A k \in 1 .. n : k <= c <=> Q(k)
    BY <1>7
  <2> HIDE DEF Q
  <2>2. {k \in 1 .. n : Q(k)} = 1 .. c
    BY <1>1, <1>6, <2>1
  <2> QED BY <2>2 DEF Q
<1>9. Cardinality(1 .. c) = c
  <2> DEFINE a == 1
  <2>1. a \in Int /\ c \in Int /\ c \in Nat
    BY <1>6
  <2>2. Cardinality(a .. c) = IF a > c THEN 0 ELSE c - a + 1
    <3> HIDE DEF a
    <3> QED BY <2>1, FS_Interval
  <2> QED BY <2>1, <2>2
<1> QED BY <1>2, <1>8, <1>9 DEF c

-----------------------------------------------------------------------------
(* Lines of a well written definition are read. *)

\* What the parser has made of the first j lines, the header among them.
ReadRows(parser, state, evs, d, j) ==
    IF j = 0 THEN state = "NONE" /\ evs = <<>>
    ELSE state \in Declaring /\ Gathered(parser, evs, d, j - 1)

LEMMA GatheredNone ==
    ASSUME NEW parser, NEW d, HasLines(d)
    PROVE  Gathered(parser, <<>>, d, 0)
<1>1. IsList(<<>>)
  <2>1. <<>> \in Seq({<<>>[i] : i \in DOMAIN <<>>})
    OBVIOUS
  <2> QED BY <2>1 DEF IsList
<1>2. Made(parser, <<>>, EmptyNode) /\ Matches(EmptyNode, d, 0, OnlyTyped(parser))
  BY MadeOfNone, MatchesNone
<1> QED BY <1>1, <1>2 DEF Gathered

\* What was gathered loses nothing and has nothing more.
LEMMA GatheredNearly ==
    ASSUME NEW parser, NEW evs, NEW d, HasLines(d), NEW k \in 0 .. Len(d.lines),
           Gathered(parser, evs, d, k)
    PROVE  Nearly(parser, evs, d, k)
<1>1. PICK node : Made(parser, evs, node) /\ Matches(node, d, k, OnlyTyped(parser))
  BY DEF Gathered
<1> DEFINE o == OnlyTyped(parser)
<1>2. Matches(node, d, k, o)
  BY <1>1
<1> HIDE DEF o
<1>3. Covers(node, d, k, o)
  BY <1>2, MatchesCovers
<1> QED BY <1>1, <1>3 DEF Gathered, Nearly, o

LEMMA HeaderRead ==
    ASSUME AtText, TextLoop, bytes \in Seq(Byte), pos \in Nat, NEW v \in 50 .. 57,
           Line = <<APX, 49, Dot, v>>, mParseState = "NONE"
    PROVE  mParseState' = "HEADER" /\ NextLine /\ events' = events
<1>1. Line # <<>> /\ Line[2] = 49 /\ Line[4] = v /\ v >= 50
  OBVIOUS
<1>2. IsHeader(Line)
  <2>1. Len(Line) = 4 /\ Line[1] = APX /\ Line[2] = 49 /\ Line[3] = Dot /\ Line[4] = v
    OBVIOUS
  <2>2. IsDigit(49) /\ IsDigit(v)
    BY DEF IsDigit
  <2> QED BY <2>1, <2>2 DEF IsHeader
<1>3. HeaderLine
  BY <1>1, WhichLine
<1> QED BY <1>1, <1>2, <1>3 DEF HeaderLine

LEMMA RowRead ==
    ASSUME AtText, TextLoop, bytes \in Seq(Byte), pos \in Nat, NEW d, RowsAre(d), IsWellWritten(d),
           NEW j \in 1 .. Len(d.lines) + 1, Line = Rows(d)[j], NEW parser \in {"bytearray", "file"},
           ReadRows(parser, mParseState, events, d, j - 1)
    PROVE  NextLine /\ ReadRows(parser, mParseState', events', d, j)
<1>1. HasLines(d) /\ Len(d.lines) \in Nat
  BY DEF RowsAre, HasLines
<1>2. CASE j = 1
  <2>1. mParseState = "NONE" /\ events = <<>>
    BY <1>2 DEF ReadRows
  <2>2. PICK v \in 50 .. 57 : Line = <<APX, 49, Dot, v>>
    BY <1>2 DEF RowsAre
  <2>3. mParseState' = "HEADER" /\ NextLine /\ events' = events
    BY <2>1, <2>2, HeaderRead
  <2>4. Gathered(parser, <<>>, d, 0)
    BY <1>1, GatheredNone
  <2> QED BY <1>2, <2>1, <2>3, <2>4 DEF ReadRows, Declaring
<1>3. CASE j # 1
  <2> DEFINE k == j - 1
  <2>1. k \in 1 .. Len(d.lines) /\ k + 1 = j /\ k # 0 /\ j # 0
    BY <1>1, <1>3
  <2>2. mParseState \in Declaring /\ Gathered(parser, events, d, k - 1)
    BY <2>1 DEF ReadRows
  <2> HIDE DEF k
  <2>3. Line = d.lines[k].text
    BY <2>1 DEF RowsAre
  <2>4. Passed /\ Gathered(parser, events', d, k)
    BY <1>1, <2>1, <2>2, <2>3, LineRead
  <2> QED BY <2>1, <2>4 DEF ReadRows, Passed, k
<1> QED BY <1>2, <1>3

\* What there is of the line behind.
LEMMA PartOfRowRead ==
    ASSUME AtText, TextLoop, bytes \in Seq(Byte), pos \in Nat, NEW d, RowsAre(d), IsWellWritten(d),
           NEW j \in 0 .. Len(d.lines), Line # <<>>, Line[1] = Rows(d)[j+1][1],
           NEW parser \in {"bytearray", "file"}, ReadRows(parser, mParseState, events, d, j)
    PROVE  /\ NextLine \/ Abort \/ Reset \/ BadDeclaration
           /\ Nearly(parser, events', d, BehindHeader(j))
<1>1. HasLines(d) /\ Len(d.lines) \in Nat
  BY DEF RowsAre, HasLines
<1>2. CASE j = 0
  <2>1. mParseState = "NONE" /\ events = <<>>
    BY <1>2 DEF ReadRows
  <2>2. HeaderLine
    BY <2>1, WhichLine
  <2>3. /\ NextLine \/ Abort \/ Reset
        /\ events' = events
    BY <2>2 DEF HeaderLine, AssertThenReset, Abort, Reset
  <2>4. Gathered(parser, <<>>, d, j)
    BY <1>1, <1>2, GatheredNone
  <2>5. Nearly(parser, <<>>, d, j)
    BY <1>1, <2>4, GatheredNearly
  <2> QED BY <1>2, <2>1, <2>3, <2>5 DEF BehindHeader
<1>3. CASE j # 0
  <2> DEFINE k == j - 1
  <2>1. k \in 0 .. Len(d.lines) /\ j \in 1 .. Len(d.lines) /\ BehindHeader(j) = k
    BY <1>1, <1>3 DEF BehindHeader
  <2>2. mParseState \in Declaring /\ Gathered(parser, events, d, k)
    BY <1>3 DEF ReadRows
  <2>3. Line[1] = d.lines[j].text[1]
    BY <2>1 DEF RowsAre
  <2>4. Line[1] = 78 => Described(d, k, "name", FALSE) = <<>>
    <3>1. d.lines[j].text[1] = 78 => Described(d, j - 1, "name", FALSE) = <<>>
      BY <2>1, LinesWritten
    <3> QED BY <2>3, <3>1
  <2> HIDE DEF k
  <2>5. /\ Nearly(parser, events', d, k)
        /\ NextLine \/ Abort \/ Reset \/ BadDeclaration
    BY <1>1, <2>1, <2>2, <2>4, PartRead
  <2> QED BY <2>1, <2>5
<1> QED BY <1>2, <1>3

\* The node that is made of the events.
LEMMA NodeOf ==
    ASSUME NEW parser, NEW evs, NEW d, NEW k
    PROVE  /\ Gathered(parser, evs, d, k) => Matches(NodeFrom(parser, evs), d, k, OnlyTyped(parser))
           /\ Nearly(parser, evs, d, k) => Covers(NodeFrom(parser, evs), d, k, OnlyTyped(parser))
<1>1. IsList(evs) => Len(evs) \in Nat
  BY ListIs
<1>2. ASSUME NEW node, IsList(evs), Made(parser, evs, node)
      PROVE  NodeFrom(parser, evs) = node
  BY <1>1, <1>2, MadeIs
<1>3. Gathered(parser, evs, d, k) => Matches(NodeFrom(parser, evs), d, k, OnlyTyped(parser))
  BY <1>2 DEF Gathered
<1>4. Nearly(parser, evs, d, k) => Covers(NodeFrom(parser, evs), d, k, OnlyTyped(parser))
  BY <1>2 DEF Nearly
<1> QED BY <1>3, <1>4

-----------------------------------------------------------------------------
(* Lines in a text that was cut. *)

LEMMA TextHolds ==
    ASSUME RowsAre(definition), cut \in 1 .. Len(DefinitionText(definition)),
           NEW r, Ahead(definition, r)
    PROVE  /\ Text \in Seq(Byte) /\ Len(Text) = cut
           /\ \A j \in 1 .. r : StandsAt(Text, RowEnd(definition, j - 1), Rows(definition)[j] \o <<NL>>)
           /\ r < Len(definition.lines) + 1 =>
                \A i \in 1 .. cut - RowEnd(definition, r) :
                  /\ i <= Len(Rows(definition)[r+1])
                  /\ Text[RowEnd(definition, r) + i] = Rows(definition)[r+1][i]
           /\ Whole <=> r = Len(definition.lines) + 1
           /\ Whole => RowEnd(definition, r) = cut
<1> DEFINE d == definition
           m == Len(d.lines) + 1
           E(j) == RowEnd(d, j)
           w == DefinitionText(d)
           t == Text
           row(j) == Rows(d)[j]
<1>1. m \in Nat /\ \A j \in 1 .. m : row(j) \in Seq(Letter) /\ Len(row(j)) \in Nat
  <2>1. /\ Len(d.lines) \in Nat
        /\ \A j \in 1 .. Len(d.lines) + 1 :
             Rows(d)[j] \in Seq(Letter) /\ Len(Rows(d)[j]) \in Nat \ {0}
    BY DEF RowsAre, HasLines
  <2> HIDE DEF d
  <2> QED BY <2>1
<1>2. /\ E(0) = 0 /\ E(m) = Len(w) /\ \A j \in 0 .. m : E(j) \in Nat
      /\ \A j \in 1 .. m : E(j) = E(j-1) + Len(row(j)) + 1 /\ StandsAt(w, E(j-1), row(j) \o <<NL>>)
      /\ \A j \in 0 .. m : \A k \in j .. m : E(j) <= E(k)
      /\ w \in Seq(Byte)
  <2>1. w = FlattenSeq(RowParts(d))
    BY TextOfRows
  <2>2. w \in Seq(Byte)
    <3> DEFINE p == RowParts(d)
    <3>1. p \in Seq(Seq(Byte)) /\ Len(p) \in 0 .. Len(p)
      BY <1>1, RowPartsAre
    <3> HIDE DEF p
    <3>2. FirstJoined(p, Len(p)) \in Seq(Byte) /\ FirstJoined(p, Len(p)) = FlattenSeq(p)
      BY <3>1, JoinedIs
    <3> QED BY <2>1, <3>2 DEF p
  <2> QED BY <2>1, <2>2, RowEnds
<1>3. r \in 0 .. m /\ E(r) <= cut /\ (r < m => cut < E(r + 1))
  BY DEF Ahead
<1>4. cut \in Nat /\ cut <= Len(w) /\ Len(w) \in Nat
  BY <1>2, LenProperties
<1>5. t \in Seq(Byte) /\ Len(t) = cut /\ \A i \in 1 .. cut : t[i] = w[i]
  <2> DEFINE z == 0
  <2>1. z \in Nat /\ z <= cut /\ z + 1 = 1 /\ cut - z = cut /\ \A i \in 1 .. cut : z + i = i
    BY <1>4
  <2> HIDE DEF z, w
  <2>2. /\ SubSeq(w, z + 1, cut) \in Seq(Byte) /\ Len(SubSeq(w, z + 1, cut)) = cut - z
        /\ \A i \in 1 .. cut - z : SubSeq(w, z + 1, cut)[i] = w[z+i]
    BY <1>2, <1>4, <2>1, PartIs
  <2>3. t = SubSeq(w, 1, cut)
    BY DEF Text, w
  <2> HIDE DEF t
  <2> QED BY <2>1, <2>2, <2>3
<1> HIDE DEF m, E, w, t, row
<1>6. ASSUME NEW j \in 1 .. r PROVE StandsAt(t, E(j-1), row(j) \o <<NL>>)
  <2> DEFINE s == row(j) \o <<NL>>
             at == E(j-1)
  <2>1. j \in 1 .. m /\ j - 1 \in 0 .. m /\ j \in 0 .. m /\ r \in j .. m
    BY <1>1, <1>3
  <2>2. StandsAt(w, at, s) /\ at \in Nat
    BY <1>2, <2>1
  <2>3. Len(s) = Len(row(j)) + 1 /\ Len(s) \in Nat
    <3>1. row(j) \in Seq(Byte)
      <4>1. row(j) \in Seq(Letter) /\ Letter \subseteq Byte
        BY <1>1, <2>1 DEF Letter, Character, Byte
      <4> QED BY <4>1, SeqMonotonic
    <3>2. <<NL>> \in Seq(Byte) /\ Len(<<NL>>) = 1
      BY FixedParts
    <3> DEFINE e == <<NL>>
               a == row(j)
    <3>3. e \in Seq(Byte) /\ Len(e) = 1 /\ a \in Seq(Byte)
      BY <3>1, <3>2
    <3> HIDE DEF e, a
    <3>4. Len(a \o e) = Len(a) + Len(e) /\ Len(a) \in Nat
      BY <3>3, Concats
    <3>5. Len(a \o e) = Len(a) + 1 /\ Len(a \o e) \in Nat
      BY <3>3, <3>4
    <3> QED BY <3>5 DEF a, e
  <2> DEFINE x == Len(row(j))
             y == Len(s)
             ej == E(j)
             er == E(r)
  <2>4. ej = at + x + 1 /\ ej <= er /\ x \in Nat /\ er \in Nat /\ ej \in Nat /\ y = x + 1 /\ er <= cut
    BY <1>1, <1>2, <1>3, <2>1, <2>3
  <2>5. at + y <= cut
    <3> HIDE DEF s, at, x, y, ej, er
    <3> QED BY <1>4, <2>2, <2>4
  <2> HIDE DEF s, at, x
  <2>6. ASSUME NEW i \in 1 .. Len(s) PROVE t[at+i] = s[i]
    <3>1. w[at+i] = s[i]
      BY <2>2 DEF StandsAt
    <3>2. at + i \in 1 .. cut
      BY <1>4, <2>2, <2>3, <2>5
    <3> QED BY <1>5, <3>1, <3>2
  <2>7. StandsAt(t, at, s)
    BY <1>5, <2>5, <2>6 DEF StandsAt
  <2> QED BY <2>7 DEF s, at
<1>7. ASSUME r < m, NEW i \in 1 .. cut - E(r)
      PROVE  i <= Len(row(r+1)) /\ t[E(r)+i] = row(r+1)[i]
  <2> DEFINE k == r + 1
             s == row(k)
             e == <<NL>>
             at == E(r)
  <2>1. k \in 1 .. m /\ k - 1 = r /\ r \in 0 .. m /\ at \in Nat
    BY <1>1, <1>2, <1>3, <1>7
  <2>2. E(k) = at + Len(s) + 1 /\ StandsAt(w, at, s \o e) /\ Len(s) \in Nat /\ s \in Seq(Byte)
    <3>1. s \in Seq(Letter) /\ Letter \subseteq Byte /\ Len(s) \in Nat
      BY <1>1, <2>1 DEF Letter, Character, Byte
    <3>2. s \in Seq(Byte)
      BY <3>1, SeqMonotonic
    <3>3. E(k) = E(k-1) + Len(row(k)) + 1 /\ StandsAt(w, E(k-1), row(k) \o <<NL>>)
      BY <1>2, <2>1
    <3> QED BY <2>1, <3>1, <3>2, <3>3
  <2>3. cut < E(k)
    BY <1>3, <1>7
  <2>4. e \in Seq(Byte) /\ Len(e) = 1
    BY FixedParts
  <2> HIDE DEF k, s, e, at
  <2>5. i \in Nat /\ 1 <= i /\ i <= cut - at
    BY <1>4, <1>7, <2>1 DEF at
  <2>6. i <= Len(s)
    BY <1>4, <2>1, <2>2, <2>3, <2>5
  <2>7. Len(s \o e) = Len(s) + Len(e) /\ StandsAt(s \o e, 0, s)
    BY <2>2, <2>4, Concats
  <2>8. i \in 1 .. Len(s) /\ i \in 1 .. Len(s \o e) /\ 0 + i = i
    BY <2>2, <2>4, <2>5, <2>6, <2>7
  <2>9. (s \o e)[i] = s[i]
    <3>1. (s \o e)[0+i] = s[i]
      BY <2>7, <2>8 DEF StandsAt
    <3> QED BY <2>8, <3>1
  <2>10. w[at+i] = (s \o e)[i]
    BY <2>2, <2>8 DEF StandsAt
  <2>11. at + i \in 1 .. cut
    BY <1>4, <2>1, <2>5
  <2>12. t[at+i] = s[i]
    BY <1>5, <2>9, <2>10, <2>11
  <2> QED BY <2>6, <2>12 DEF s, at, k
<1>8. (cut = Len(w) <=> r = m) /\ (cut = Len(w) => E(r) = cut)
  <2>1. CASE r = m
    BY <1>2, <1>3, <1>4, <2>1
  <2>2. CASE r # m
    <3> DEFINE k == r + 1
    <3>1. r < m /\ k \in 0 .. m /\ m \in k .. m
      BY <1>1, <1>3, <2>2
    <3>2. cut < E(k)
      BY <1>3, <3>1
    <3> HIDE DEF k
    <3>3. E(k) <= E(m) /\ E(k) \in Nat
      BY <1>2, <3>1
    <3> QED BY <1>2, <1>4, <2>2, <3>2, <3>3
  <2> QED BY <2>1, <2>2
<1>9. Whole <=> cut = Len(w)
  BY DEF Whole, w
<1> QED BY <1>5, <1>6, <1>7, <1>8, <1>9 DEF m, E, w, t, row

\* A line without an end reaches to that of what there is.
LEMMA OpenLine ==
    ASSUME bytes \in Seq(Byte), pos \in Nat, pos < Len(bytes), NEW s \in Seq(Letter),
           \A i \in 1 .. Len(bytes) - pos : i <= Len(s) /\ bytes[pos+i] = s[i],
           pc = "loop"
    PROVE  /\ AtText /\ Line # <<>> /\ Line[1] = s[1] /\ LineEnd = Len(bytes)
           /\ Len(bytes) - pos = Len(s) => Line = s
<1> DEFINE n == Len(bytes) - pos
<1>1. n \in Nat /\ 1 \in 1 .. n /\ pos + n = Len(bytes) /\ Len(bytes) \in Nat
  BY LenProperties
<1>2. ASSUME NEW i \in 1 .. n PROVE bytes[pos+i] = s[i] /\ s[i] \in Letter
  <2>1. i <= Len(s) /\ bytes[pos+i] = s[i]
    OBVIOUS
  <2>2. i \in 1 .. Len(s)
    BY <2>1, LenProperties
  <2> QED BY <2>1, <2>2, ElementOfSeq
<1>3. AtText
  <2>1. bytes[pos+1] \in Letter
    BY <1>1, <1>2
  <2>2. \A x \in Letter : x < 128
    BY DEF Letter, Character
  <2> QED BY <2>1, <2>2 DEF AtText
<1>4. /\ LineEnd \in Nat /\ pos <= LineEnd /\ LineEnd <= Len(bytes)
      /\ LineEnd < Len(bytes) => bytes[LineEnd+1] = NL
  BY <1>3, LineEndIs
<1>5. LineEnd = Len(bytes)
  <2> SUFFICES ASSUME LineEnd < Len(bytes) PROVE FALSE
    BY <1>1, <1>4
  <2> DEFINE i == LineEnd + 1 - pos
  <2>1. i \in 1 .. n /\ pos + i = LineEnd + 1
    BY <1>1, <1>4
  <2> HIDE DEF i, n
  <2>2. bytes[pos+i] \in Letter
    BY <1>2, <2>1
  <2> QED BY <1>4, <2>1, <2>2 DEF Letter
<1> DEFINE l == SubSeq(bytes, pos + 1, Len(bytes))
<1>6. l \in Seq(Byte) /\ Len(l) = n /\ \A i \in 1 .. n : l[i] = bytes[pos+i]
  <2> DEFINE k == Len(bytes)
  <2>1. k \in Nat /\ pos <= k /\ k <= Len(bytes)
    BY <1>1
  <2> HIDE DEF k
  <2>2. /\ SubSeq(bytes, pos + 1, k) \in Seq(Byte) /\ Len(SubSeq(bytes, pos + 1, k)) = k - pos
        /\ \A i \in 1 .. k - pos : SubSeq(bytes, pos + 1, k)[i] = bytes[pos+i]
    BY <2>1, PartIs
  <2> QED BY <2>2 DEF k
<1>7. Line = l
  BY <1>5 DEF Line
<1> HIDE DEF l, n
<1>8. l # <<>> /\ l[1] = s[1]
  <2>1. Len(l) # 0
    BY <1>1, <1>6
  <2> QED BY <1>1, <1>2, <1>6, <2>1, EmptySeq
<1>9. n = Len(s) => l = s
  <2> SUFFICES ASSUME n = Len(s) PROVE l = s
    OBVIOUS
  <2>1. s \in Seq(Byte)
    <3>1. Letter \subseteq Byte
      BY DEF Letter, Character, Byte
    <3> QED BY <3>1, SeqMonotonic
  <2>2. Len(l) = Len(s) /\ \A i \in 1 .. Len(l) : l[i] = s[i]
    BY <1>2, <1>6
  <2> QED BY <1>6, <2>1, <2>2, SeqEqual
<1> QED BY <1>3, <1>5, <1>7, <1>8, <1>9 DEF n

-----------------------------------------------------------------------------
(* A parser behind its text. *)

\* Everything was read: of a whole text the node it describes is made.
Done(parser, d, r) ==
    /\ step # "begin" /\ chunks = <<>>
    /\ pc \in {"idle", "aborted"} \/ (pc = "loop" /\ pos >= Len(bytes))
    /\ Nearly(parser, events, d, BehindHeader(r))
    /\ Whole => pc # "aborted" /\ Gathered(parser, events, d, Len(d.lines))
    /\ result \subseteq {NodeFrom(parser, events)}

LEMMA UserStays ==
    ASSUME [Next]_vars
    PROVE  user' = user /\ definition' = definition /\ cut' = cut /\ asserts' = asserts
<1>1. CASE OpenStream
  BY <1>1 DEF OpenStream, Open
<1>2. CASE FileMissing
  BY <1>2 DEF FileMissing, istreamVars
<1>3. CASE WriteChunk
  BY <1>3 DEF WriteChunk, Write, parseVars
<1>4. CASE CloseStream
  BY <1>4 DEF CloseStream, Close
<1>5. CASE Return
  BY <1>5 DEF Return, istreamVars
<1>6. CASE \E msgs \in Transmissions : Transmit(msgs)
  BY <1>6 DEF Transmit, parseVars, istreamVars
<1>7. CASE Piece
  BY <1>7 DEF Piece, Write, parseVars
<1>8. CASE TextLoop /\ UNCHANGED <<parseVars, linkVars>>
  <2>1. user' = user /\ definition' = definition /\ cut' = cut
    BY <1>8 DEF parseVars
  <2>2. asserts' = asserts
    BY <1>8, TextCases DEF NextLine, Abort, Reset, EmptyLine, BadDeclaration, EnterData, WriteEnd
  <2> QED BY <2>1, <2>2
<1>9. CASE DataLoop /\ UNCHANGED <<parseVars, linkVars>>
  BY <1>9 DEF parseVars, DataLoop, Message, Incomplete, LeaveData
<1>10. CASE UNCHANGED vars
  BY <1>10 DEF vars, istreamVars, parseVars
<1> QED BY <1>1, <1>2, <1>3, <1>4, <1>5, <1>6, <1>7, <1>8, <1>9, <1>10 DEF Next

LEMMA LoopEnds ==
    ASSUME StreamTypes, TextLoop, pos >= Len(bytes)
    PROVE  WriteEnd
<1>1. ~ AtText /\ ~ EnterData
  <2>1. pos \in Nat /\ Len(bytes) \in Nat
    BY LenProperties DEF StreamTypes
  <2>2. ~ (pos < Len(bytes))
    BY <2>1
  <2> QED BY <2>2 DEF AtText, EnterData
<1> QED BY <1>1, TextCases DEF EmptyLine, BadDeclaration

LEMMA DoneStays ==
    ASSUME StreamTypes, NEW parser \in {"bytearray", "file"}, user = parser, NEW d, NEW r,
           Done(parser, d, r), [Next]_vars
    PROVE  Done(parser, d, r)'
<1>1. Whole' = Whole
  BY UserStays DEF Whole
<1>2. CASE UNCHANGED <<step, chunks, pc, pos, bytes, events, result>>
  BY <1>1, <1>2 DEF Done
<1>3. CASE OpenStream \/ FileMissing \/ WriteChunk \/ Piece \/ \E msgs \in Transmissions : Transmit(msgs)
  <2>1. FALSE
    BY <1>3 DEF Done, OpenStream, FileMissing, WriteChunk, Piece, Transmit
  <2> QED BY <2>1
<1>4. CASE CloseStream
  <2>1. pc = "idle" /\ step' = "closed" /\ UNCHANGED <<chunks, pc, pos, bytes, events, result>>
    BY <1>4 DEF CloseStream, Close, loopVars, linkVars
  <2> QED BY <1>1, <2>1 DEF Done
<1>5. CASE Return
  <2>1. /\ step' = "returned" /\ UNCHANGED <<chunks, pc, pos, bytes, events>>
        /\ result' = IF user = "bytearray" THEN ByteArrayResult ELSE FileResult
    BY <1>5 DEF Return, istreamVars, parserVars, linkVars
  <2>2. result' \subseteq {NodeFrom(parser, events)}
    BY <2>1 DEF ByteArrayResult, FileResult
  <2> QED BY <1>1, <2>1, <2>2 DEF Done
<1>6. CASE TextLoop /\ UNCHANGED <<parseVars, linkVars>>
  <2>1. pc = "loop"
    BY <1>6, TextCases DEF AtText, EmptyLine, BadDeclaration, EnterData, WriteEnd
  <2>2. WriteEnd
    BY <1>6, <2>1, LoopEnds DEF Done
  <2>3. pc' = "idle" /\ events' = events /\ UNCHANGED <<step, chunks, result>>
    BY <1>6, <2>2 DEF WriteEnd, Finish, parseVars, linkVars
  <2> QED BY <1>1, <2>3 DEF Done
<1>7. CASE DataLoop /\ UNCHANGED <<parseVars, linkVars>>
  <2>1. pc = "data"
    BY <1>7 DEF DataLoop, Message, Incomplete, LeaveData, AtData
  <2> QED BY <2>1 DEF Done
<1>8. CASE UNCHANGED vars
  <2>1. UNCHANGED <<step, chunks, pc, pos, bytes, events, result>>
    BY <1>8 DEF vars, istreamVars, parserVars, parseVars, linkVars, loopVars
  <2> QED BY <1>2, <2>1
<1> QED BY <1>3, <1>4, <1>5, <1>6, <1>7, <1>8 DEF Next

\* The line at the end of a text that was cut.
LEMMA PartEnds ==
    ASSUME StreamTypes, AtText, TextLoop, UNCHANGED <<parseVars, linkVars>>,
           NEW d, RowsAre(d), IsWellWritten(d), NEW r \in 0 .. Len(d.lines), ~ Whole,
           Line # <<>>, Line[1] = Rows(d)[r+1][1], LineEnd = Len(bytes),
           NEW parser \in {"bytearray", "file"}, ReadRows(parser, mParseState, events, d, r),
           chunks = <<>>, step = "write", result = {}
    PROVE  Done(parser, d, r)'
<1>1. bytes \in Seq(Byte) /\ pos \in Nat /\ Len(bytes) \in Nat
  BY LenProperties DEF StreamTypes
<1>2. /\ NextLine \/ Abort \/ Reset \/ BadDeclaration
      /\ Nearly(parser, events', d, BehindHeader(r))
  BY <1>1, PartOfRowRead
<1>3. Whole' = Whole /\ UNCHANGED <<chunks, step, result>>
  BY DEF Whole, parseVars, linkVars
<1>4. Len(bytes) + 1 >= Len(bytes) /\ ~ (Len(bytes) + 1 < Len(bytes))
  BY <1>1
<1>5. pc' \in {"idle", "aborted"} \/ (pc' = "loop" /\ pos' >= Len(bytes'))
  <2>1. CASE NextLine
    BY <1>4, <2>1 DEF NextLine, loopVars
  <2>2. CASE Abort
    BY <2>2 DEF Abort
  <2>3. CASE Reset
    <3>1. bytes' = bytes /\ pos' = Len(bytes) + 1 /\ pc' = "loop"
      BY <1>4, <2>3 DEF Reset, loopVars
    <3> QED BY <1>4, <3>1
  <2>4. CASE BadDeclaration
    BY <2>4 DEF BadDeclaration
  <2> QED BY <1>2, <2>1, <2>2, <2>3, <2>4
<1> QED BY <1>2, <1>3, <1>5 DEF Done

-----------------------------------------------------------------------------
(* ByteArrayParser. *)

Fresh == pc = "idle" /\ m_buf = <<>> /\ mParseState = "NONE" /\ events = <<>> /\ result = {}

\* The whole text is in the buffer and j of its lines were read.
InText(d, r) ==
    /\ step = "write" /\ chunks = <<>> /\ result = {} /\ pc = "loop" /\ bytes = Text
    /\ \E j \in 0 .. r : pos = RowEnd(d, j) /\ ReadRows("bytearray", mParseState, events, d, j)

ByteArrayState(d, r) ==
    \/ step = "begin" /\ Fresh
    \/ step = "write" /\ chunks = <<Text>> /\ Fresh
    \/ InText(d, r)
    \/ Done("bytearray", d, r)

\* A round of the loop in the text.
LEMMA InTextStep ==
    ASSUME StreamTypes, NEW d, d = definition, RowsAre(d), IsWellWritten(d),
           cut \in 1 .. Len(DefinitionText(d)), NEW r, Ahead(d, r), InText(d, r), TextLoop,
           UNCHANGED <<parseVars, linkVars>>
    PROVE  InText(d, r)' \/ Done("bytearray", d, r)'
<1> DEFINE N == Len(d.lines)
           E(j) == RowEnd(d, j)
           row(j) == Rows(d)[j]
           B == "bytearray"
<1>1. PICK j \in 0 .. r : pos = E(j) /\ ReadRows(B, mParseState, events, d, j)
  BY DEF InText
<1>2. /\ step = "write" /\ chunks = <<>> /\ result = {} /\ pc = "loop" /\ bytes = Text
      /\ bytes \in Seq(Byte) /\ pos \in Nat
  BY DEF InText, StreamTypes
<1>3. /\ Len(bytes) = cut
      /\ \A k \in 1 .. r : StandsAt(bytes, E(k-1), row(k) \o <<NL>>)
      /\ r < N + 1 => \A i \in 1 .. cut - E(r) : i <= Len(row(r+1)) /\ bytes[E(r)+i] = row(r+1)[i]
      /\ Whole <=> r = N + 1
      /\ Whole => E(r) = cut
  BY <1>2, TextHolds
<1>4. /\ E(0) = 0 /\ \A k \in 0 .. N + 1 : E(k) \in Nat
      /\ \A k \in 1 .. N + 1 : E(k) = E(k-1) + Len(row(k)) + 1
      /\ \A k \in 0 .. N + 1 : \A l \in k .. N + 1 : E(k) <= E(l)
  BY RowEnds
<1>5. /\ N \in Nat /\ HasLines(d)
      /\ \A k \in 1 .. N + 1 : row(k) \in Seq(Letter) /\ Len(row(k)) \in Nat \ {0}
  BY DEF RowsAre, HasLines
<1>6. r \in 0 .. N + 1 /\ E(r) <= cut /\ cut \in Nat /\ cut # 0
  <2>1. d = definition
    OBVIOUS
  <2> QED BY LenProperties DEF Ahead
<1>7. /\ UNCHANGED <<chunks, step, result, user, definition, cut>>
      /\ Text' = Text /\ Whole' = Whole
  BY DEF parseVars, linkVars, Text, Whole
<1>8. B \in {"bytearray", "file"}
  OBVIOUS
<1> HIDE DEF N, E, row, B
<1>9. CASE j # r
  <2> DEFINE k == j + 1
  <2>1. k \in 1 .. N + 1 /\ k \in 0 .. r /\ k \in 1 .. r /\ k - 1 = j
    BY <1>5, <1>6, <1>9
  <2> HIDE DEF k
  <2>2. StandsAt(bytes, pos, row(k) \o <<NL>>) /\ row(k) \in Seq(Letter)
    BY <1>1, <1>3, <1>5, <2>1
  <2>3. AtText /\ Line = row(k) /\ LineEnd = pos + Len(row(k))
    BY <1>2, <2>2, LineIs
  <2>4. ReadRows(B, mParseState, events, d, k - 1)
    BY <1>1, <2>1
  <2>5. NextLine /\ ReadRows(B, mParseState', events', d, k)
    BY <1>2, <1>8, <2>1, <2>3, <2>4, RowRead DEF N, row
  <2>6. pos' = E(k)
    <3>1. pos' = pos + Len(row(k)) + 1
      BY <2>3, <2>5 DEF NextLine
    <3> QED BY <1>1, <1>4, <2>1, <3>1
  <2>7. pc' = "loop" /\ bytes' = bytes
    BY <2>5 DEF NextLine, loopVars
  <2>8. InText(d, r)'
    BY <1>2, <1>7, <2>1, <2>5, <2>6, <2>7 DEF InText, E, B
  <2> QED BY <2>8
<1>10. CASE j = r /\ pos < Len(bytes)
  <2>1. r < N + 1 /\ ~ Whole /\ r \in 0 .. N /\ r + 1 \in 1 .. N + 1
    <3>1. ~ Whole
      <4>1. E(r) = pos /\ pos < cut
        BY <1>1, <1>3, <1>10
      <4>2. E(r) # cut
        BY <1>2, <1>6, <4>1
      <4> QED BY <1>3, <4>2
    <3>2. r # N + 1
      BY <1>3, <3>1
    <3> QED BY <1>5, <1>6, <3>1, <3>2
  <2>2. \A i \in 1 .. Len(bytes) - pos : i <= Len(row(r+1)) /\ bytes[pos+i] = row(r+1)[i]
    BY <1>1, <1>3, <1>10, <2>1
  <2> DEFINE s == row(r+1)
  <2>3. s \in Seq(Letter)
    BY <1>5, <2>1
  <2> HIDE DEF s
  <2>4. AtText /\ Line # <<>> /\ Line[1] = s[1] /\ LineEnd = Len(bytes)
    BY <1>2, <1>10, <2>2, <2>3, OpenLine DEF s
  <2>5. ReadRows(B, mParseState, events, d, r)
    BY <1>1, <1>10
  <2>6. Done(B, d, r)'
    BY <1>2, <1>8, <2>1, <2>4, <2>5, PartEnds DEF s, row, N
  <2> QED BY <2>6 DEF B
<1>11. CASE ~ (pos < Len(bytes))
  <2>1. pos >= Len(bytes)
    BY <1>2, <1>3, <1>6, <1>11
  <2>2. WriteEnd
    BY <2>1, LoopEnds
  <2>3. pc' = "idle" /\ events' = events
    BY <2>2 DEF WriteEnd, Finish
  <2>4. j = r /\ r # 0
    <3>1. j \in 0 .. N + 1 /\ E(j) >= cut
      BY <1>1, <1>3, <1>5, <1>6, <2>1
    <3>2. r # 0
      <4>1. CASE r = 0
        <5>1. j = 0
          BY <1>1, <4>1
        <5> QED BY <1>4, <1>6, <3>1, <5>1
      <4> QED BY <4>1
    <3>3. CASE j # r
      <4> DEFINE k == j + 1
      <4>1. k \in 1 .. N + 1 /\ k \in 0 .. N + 1 /\ r \in k .. N + 1 /\ k - 1 = j
        BY <1>5, <1>6, <3>3
      <4> HIDE DEF k
      <4>2. E(k) = E(j) + Len(row(k)) + 1 /\ Len(row(k)) \in Nat /\ E(k) <= E(r)
        BY <1>4, <1>5, <4>1
      <4>3. E(j) \in Nat /\ E(k) \in Nat /\ E(r) \in Nat
        BY <1>4, <1>6, <3>1, <4>1
      <4> QED BY <1>6, <3>1, <4>2, <4>3
    <3> QED BY <3>2, <3>3
  <2>5. r - 1 \in 0 .. N /\ BehindHeader(r) = r - 1 /\ (Whole => r - 1 = N)
    BY <1>3, <1>5, <1>6, <2>4 DEF BehindHeader
  <2>6. Gathered(B, events, d, r - 1)
    BY <1>1, <2>4 DEF ReadRows
  <2>7. Nearly(B, events, d, BehindHeader(r))
    <3> DEFINE k == r - 1
    <3>1. k \in 0 .. Len(d.lines) /\ Gathered(B, events, d, k)
      BY <2>5, <2>6 DEF N
    <3> HIDE DEF k
    <3>2. Nearly(B, events, d, k)
      BY <1>5, <3>1, GatheredNearly
    <3> QED BY <2>5, <3>2 DEF k
  <2>8. Done(B, d, r)'
    BY <1>2, <1>7, <2>3, <2>5, <2>6, <2>7 DEF Done, N
  <2> QED BY <2>8 DEF B
<1> QED BY <1>9, <1>10, <1>11

LEMMA ParserSteps ==
    ASSUME user \in {"bytearray", "file"}, [Next]_vars
    PROVE  \/ OpenStream /\ step = "begin"
           \/ WriteChunk /\ step = "write" /\ chunks # <<>> /\ pc = "idle"
           \/ CloseStream /\ step = "write" /\ chunks = <<>> /\ pc = "idle"
           \/ Return /\ step = "closed"
           \/ TextLoop /\ UNCHANGED <<parseVars, linkVars>> /\ pc = "loop"
           \/ DataLoop /\ UNCHANGED <<parseVars, linkVars>> /\ pc = "data"
           \/ UNCHANGED vars
<1>1. ~ FileMissing /\ ~ Piece /\ ~ \E msgs \in Transmissions : Transmit(msgs)
  BY DEF FileMissing, Piece, Transmit
<1>2. OpenStream => step = "begin"
  BY DEF OpenStream
<1>3. WriteChunk => step = "write" /\ chunks # <<>> /\ pc = "idle"
  BY DEF WriteChunk, Write
<1>4. CloseStream => step = "write" /\ chunks = <<>> /\ pc = "idle"
  BY DEF CloseStream, Close
<1>5. Return => step = "closed"
  BY DEF Return
<1>6. TextLoop => pc = "loop"
  BY TextCases DEF AtText, EmptyLine, BadDeclaration, EnterData, WriteEnd
<1>7. DataLoop => pc = "data"
  BY DEF DataLoop, Message, Incomplete, LeaveData, AtData
<1> QED BY <1>1, <1>2, <1>3, <1>4, <1>5, <1>6, <1>7 DEF Next

LEMMA TextStays ==
    ASSUME [Next]_vars
    PROVE  Text' = Text /\ Whole' = Whole
BY UserStays DEF Text, Whole

LEMMA ByteArrayStep ==
    ASSUME TypesInv, user = "bytearray", NEW d, d = definition, RowsAre(d), IsWellWritten(d),
           NEW r, Ahead(d, r), ByteArrayState(d, r), [Next]_vars
    PROVE  ByteArrayState(d, r)'
<1>1. /\ StreamTypes /\ UserTypes /\ cut \in 1 .. Len(DefinitionText(d))
  BY DEF TypesInv, UserTypes
<1>2. Text' = Text
  BY TextStays
<1>3. CASE step = "begin" /\ Fresh
  <2>1. OpenStream \/ UNCHANGED vars
    BY <1>3, ParserSteps DEF Fresh
  <2>2. CASE OpenStream
    <3>1. /\ step' = "write" /\ chunks' = <<Text>> /\ result' = result
          /\ UNCHANGED <<pc, m_buf, mParseState, events>>
      BY <2>2 DEF OpenStream, Open
    <3> QED BY <1>2, <1>3, <3>1 DEF ByteArrayState, Fresh
  <2>3. CASE UNCHANGED vars
    <3>1. UNCHANGED <<step, pc, m_buf, mParseState, events, result>>
      BY <2>3 DEF vars, istreamVars, parserVars, parseVars
    <3> QED BY <1>3, <3>1 DEF ByteArrayState, Fresh
  <2> QED BY <2>1, <2>2, <2>3
<1>4. CASE step = "write" /\ chunks = <<Text>> /\ Fresh
  <2>1. chunks # <<>> /\ Head(chunks) = Text /\ Tail(chunks) = <<>>
    BY <1>4
  <2>2. WriteChunk \/ UNCHANGED vars
    BY <1>4, <2>1, ParserSteps DEF Fresh
  <2>3. CASE WriteChunk
    <3>1. /\ m_buf' = m_buf \o Text /\ bytes' = m_buf' /\ pos' = 0 /\ pc' = "loop"
          /\ chunks' = <<>> /\ step' = "write"
          /\ UNCHANGED <<mParseState, events, result>>
      BY <1>4, <2>1, <2>3 DEF WriteChunk, Write, parseVars
    <3>2. <<>> \o Text = Text
      <4>1. Text \in Seq(Byte)
        BY <1>1, TextHolds
      <4> QED BY <4>1, ConcatEmptySeq
    <3>3. bytes' = Text'
      BY <1>2, <1>4, <3>1, <3>2 DEF Fresh
    <3>4. RowEnd(d, 0) = 0 /\ 0 \in 0 .. r
      BY RowEnds DEF Ahead
    <3>5. ReadRows("bytearray", mParseState', events', d, 0)
      BY <1>4, <3>1 DEF ReadRows, Fresh
    <3>6. InText(d, r)'
      BY <1>4, <3>1, <3>3, <3>4, <3>5 DEF InText, Fresh
    <3> QED BY <3>6 DEF ByteArrayState
  <2>4. CASE UNCHANGED vars
    <3>1. UNCHANGED <<step, chunks, pc, m_buf, mParseState, events, result>>
      BY <2>4 DEF vars, istreamVars, parserVars, parseVars, linkVars
    <3> QED BY <1>2, <1>4, <3>1 DEF ByteArrayState, Fresh
  <2> QED BY <2>2, <2>3, <2>4
<1>5. CASE InText(d, r)
  <2>1. (TextLoop /\ UNCHANGED <<parseVars, linkVars>>) \/ UNCHANGED vars
    BY <1>5, ParserSteps DEF InText
  <2>2. CASE TextLoop /\ UNCHANGED <<parseVars, linkVars>>
    <3>1. InText(d, r)' \/ Done("bytearray", d, r)'
      BY <1>1, <1>5, <2>2, InTextStep
    <3> QED BY <3>1 DEF ByteArrayState
  <2>3. CASE UNCHANGED vars
    <3>1. UNCHANGED <<step, chunks, result, pc, bytes, pos, mParseState, events>>
      BY <2>3 DEF vars, istreamVars, parserVars, parseVars, linkVars, loopVars
    <3>2. InText(d, r)'
      BY <1>2, <1>5, <3>1 DEF InText
    <3> QED BY <3>2 DEF ByteArrayState
  <2> QED BY <2>1, <2>2, <2>3
<1>6. CASE Done("bytearray", d, r)
  <2> DEFINE B == "bytearray"
  <2>1. B \in {"bytearray", "file"} /\ user = B /\ Done(B, d, r)
    BY <1>6
  <2> HIDE DEF B
  <2>2. Done(B, d, r)'
    BY <1>1, <2>1, DoneStays
  <2> QED BY <2>2 DEF ByteArrayState, B
<1> QED BY <1>3, <1>4, <1>5, <1>6 DEF ByteArrayState

ByteArrayRead ==
    user = "bytearray" /\ IsWellWritten(definition) =>
      \E d : \E r : d = definition /\ Ahead(d, r) /\ ByteArrayState(d, r)

\* How far the text goes.
LEMMA SomeAhead ==
    ASSUME UserTypes, user \in {"bytearray", "file", "missing"}, IsWellWritten(definition)
    PROVE  RowsAre(definition) /\ IsList(definition.lines) /\ cut \in Nat
           /\ \E r : Ahead(definition, r)
<1>1. definition \in Definitions /\ cut \in 1 .. Len(DefinitionText(definition))
  BY DEF UserTypes
<1>2. RowsAre(definition)
  BY <1>1, RowsWritten
<1>3. IsList(definition.lines)
  BY <1>1, Texts, ZenonT(30) DEF IsList
<1>4. cut \in Nat
  <2>1. \A n : cut \in 1 .. n => cut \in Nat
    OBVIOUS
  <2> QED BY <1>1, <2>1
<1> QED BY <1>2, <1>3, <1>4, CompleteRows

LEMMA ByteArrayHolds == FairSpec => []ByteArrayRead
<1>1. ASSUME Init PROVE ByteArrayRead
  <2> SUFFICES ASSUME user = "bytearray", IsWellWritten(definition)
               PROVE  \E d : \E r : d = definition /\ Ahead(d, r) /\ ByteArrayState(d, r)
    BY DEF ByteArrayRead
  <2>1. UserTypes
    BY <1>1, InitTypes
  <2>2. PICK r : Ahead(definition, r)
    BY <2>1, SomeAhead
  <2>3. ByteArrayState(definition, r)
    BY <1>1 DEF Init, IStreamInit, ByteArrayState, Fresh
  <2> QED BY <2>2, <2>3
<1>2. ASSUME TypesInv, ByteArrayRead, [Next]_vars PROVE ByteArrayRead'
  <2> SUFFICES ASSUME user' = "bytearray", IsWellWritten(definition)'
               PROVE  \E d : \E r : d = definition' /\ Ahead(d, r)' /\ ByteArrayState(d, r)'
    BY DEF ByteArrayRead
  <2>1. user' = user /\ definition' = definition /\ cut' = cut
    BY <1>2, UserStays
  <2>2. user = "bytearray" /\ IsWellWritten(definition)
    BY <2>1 DEF IsWellWritten
  <2>3. PICK d, r : d = definition /\ Ahead(d, r) /\ ByteArrayState(d, r)
    BY <1>2, <2>2 DEF ByteArrayRead
  <2>4. RowsAre(d) /\ IsWellWritten(d)
    BY <1>2, <2>2, <2>3, SomeAhead DEF TypesInv
  <2>5. ByteArrayState(d, r)'
    BY <1>2, <2>2, <2>3, <2>4, ByteArrayStep
  <2>6. Ahead(d, r)'
    BY <2>1, <2>3 DEF Ahead
  <2> QED BY <2>1, <2>3, <2>5, <2>6
<1> QED BY <1>1, <1>2, TypesHold, PTL DEF FairSpec

-----------------------------------------------------------------------------
(* The lines of a file. *)

LEMMA RowCells ==
    ASSUME NEW d, RowsAre(d), NEW j \in 0 .. Len(d.lines)
    PROVE  LET w == DefinitionText(d)
               s == Rows(d)[j+1]
           IN  /\ \A i \in 1 .. Len(s) : w[RowEnd(d, j) + i] = s[i] /\ s[i] \in Letter
               /\ w[RowEnd(d, j) + Len(s) + 1] = NL
               /\ RowEnd(d, j + 1) = RowEnd(d, j) + Len(s) + 1
               /\ RowEnd(d, j) \in Nat /\ Len(s) \in Nat \ {0} /\ s \in Seq(Letter)
<1> DEFINE w == DefinitionText(d)
           k == j + 1
           s == Rows(d)[k]
           at == RowEnd(d, j)
           e == <<NL>>
           n == Len(s)
<1>1. k \in 1 .. Len(d.lines) + 1 /\ k - 1 = j /\ j \in 0 .. Len(d.lines) + 1
  BY DEF RowsAre, HasLines
<1>2. s \in Seq(Letter) /\ n \in Nat \ {0}
  BY <1>1 DEF RowsAre
<1>3. /\ w = FlattenSeq(RowParts(d)) /\ at \in Nat
      /\ RowEnd(d, k) = RowEnd(d, k - 1) + Len(Rows(d)[k]) + 1
      /\ StandsAt(FlattenSeq(RowParts(d)), RowEnd(d, k - 1), Rows(d)[k] \o <<NL>>)
  BY <1>1, TextOfRows, RowEnds
<1>4. StandsAt(w, at, s \o e) /\ RowEnd(d, j + 1) = at + n + 1
  BY <1>1, <1>3
<1>5. s \in Seq(Byte) /\ e \in Seq(Byte) /\ Len(e) = 1 /\ e[1] = NL
  <2>1. Letter \subseteq Byte
    BY DEF Letter, Character, Byte
  <2> QED BY <1>2, <2>1, SeqMonotonic, FixedParts
<1> SUFFICES /\ \A i \in 1 .. n : w[at+i] = s[i] /\ s[i] \in Letter
             /\ w[at+n+1] = NL
  BY <1>2, <1>3, <1>4
<1> HIDE DEF w, s, at, e
<1>6. Len(s \o e) = Len(s) + Len(e) /\ StandsAt(s \o e, 0, s) /\ StandsAt(s \o e, Len(s), e)
  BY <1>5, Concats
<1>7. ASSUME NEW i \in 1 .. n PROVE w[at+i] = s[i] /\ s[i] \in Letter
  <2>1. i \in 1 .. Len(s \o e) /\ 0 + i = i /\ i \in 1 .. Len(s)
    BY <1>2, <1>5, <1>6
  <2>2. w[at+i] = (s \o e)[i]
    BY <1>4, <2>1 DEF StandsAt
  <2>3. (s \o e)[0+i] = s[i]
    BY <1>6, <2>1 DEF StandsAt
  <2>4. s[i] \in Letter
    BY <1>2, <2>1, ElementOfSeq
  <2> QED BY <2>1, <2>2, <2>3, <2>4
<1>8. w[at+n+1] = NL
  <2> DEFINE i == n + 1
  <2>0. Len(s \o e) = i /\ Len(s) = n /\ Len(e) = 1 /\ n \in Nat
    <3>1. n = Len(s)
      BY DEF s
    <3>2. n \in Nat
      BY <1>2
    <3> HIDE DEF n
    <3> QED BY <1>5, <1>6, <3>1, <3>2
  <2>1. i \in 1 .. Len(s \o e) /\ Len(s) + 1 = i /\ 1 \in 1 .. Len(e) /\ at + i = at + n + 1
    <3>1. at \in Nat
      BY <1>3
    <3> HIDE DEF n
    <3> QED BY <2>0, <3>1
  <2> HIDE DEF i
  <2>2. w[at+i] = (s \o e)[i]
    BY <1>4, <2>1 DEF StandsAt
  <2>3. (s \o e)[Len(s)+1] = e[1]
    BY <1>6, <2>1 DEF StandsAt
  <2> QED BY <1>5, <2>1, <2>2, <2>3
<1> QED BY <1>7, <1>8

\* The first j lines and i cells of the next.
Opened(ls, d, j, i) ==
    /\ ls \in Seq(Seq(Byte)) /\ Len(ls) = j + 1
    /\ \A k \in 1 .. j : ls[k] = Rows(d)[k]
    /\ Len(ls[j+1]) = i /\ \A k \in 1 .. i : ls[j+1][k] = Rows(d)[j+1][k]

\* The end of a line.
LEMMA CutAtEnd ==
    ASSUME NEW d, RowsAre(d), NEW j \in 0 .. Len(d.lines), NEW ls,
           Opened(ls, d, j, Len(Rows(d)[j+1]))
    PROVE  Opened(Cut(ls, NL), d, j + 1, 0)
<1> DEFINE S == Seq(Byte)
           k == j + 1
           s == Rows(d)[k]
           last == ls[k]
           e == <<>>
           more == Append(ls, e)
<1>1. /\ ls \in Seq(S) /\ Len(ls) = k /\ \A i \in 1 .. j : ls[i] = Rows(d)[i]
      /\ Len(last) = Len(s) /\ \A i \in 1 .. Len(s) : last[i] = s[i]
  BY DEF Opened
<1>2. k \in Nat /\ k \in 1 .. k /\ s \in S
  <2>1. k \in 1 .. Len(d.lines) + 1
    BY DEF RowsAre, HasLines
  <2>2. s \in Seq(Letter)
    BY <2>1 DEF RowsAre
  <2>3. Letter \subseteq Byte
    BY DEF Letter, Character, Byte
  <2>4. s \in Seq(Byte)
    BY <2>2, <2>3, SeqMonotonic
  <2> QED BY <2>1, <2>4
<1>3. e \in S
  OBVIOUS
<1>4. Cut(ls, NL) = more
  BY DEF Cut
<1> HIDE DEF S, k, s, last, e, more
<1>5. last \in S
  BY <1>1, <1>2, ElementOfSeq DEF last
<1>6. last = s
  <2>1. last \in Seq(Byte) /\ s \in Seq(Byte)
    BY <1>2, <1>5 DEF S
  <2>2. \A i \in 1 .. Len(last) : last[i] = s[i]
    BY <1>1
  <2> QED BY <1>1, <2>1, <2>2, SeqEqual
<1>7. /\ more \in Seq(S) /\ Len(more) = Len(ls) + 1 /\ more[Len(ls)+1] = e
      /\ \A i \in 1 .. Len(ls) : more[i] = ls[i]
  BY <1>1, <1>3, AppendProperties DEF more
<1>8. \A i \in 1 .. k : more[i] = Rows(d)[i]
  <2> TAKE i \in 1 .. k
  <2>1. more[i] = ls[i]
    BY <1>1, <1>7
  <2>2. CASE i = k
    BY <1>6, <2>1, <2>2 DEF last, s
  <2>3. CASE i # k
    <3>1. i \in 1 .. j
      BY <2>3 DEF k
    <3> QED BY <1>1, <2>1, <3>1
  <2> QED BY <2>2, <2>3
<1>9. Len(more[k+1]) = 0 /\ Len(more) = k + 1
  <2>1. more[k+1] = e /\ Len(e) = 0
    BY <1>1, <1>7 DEF e
  <2> QED BY <1>1, <1>7, <2>1
<1>10. Opened(more, d, k, 0)
  <2>1. \A i \in 1 .. 0 : more[k+1][i] = Rows(d)[k+1][i]
    OBVIOUS
  <2> QED BY <1>7, <1>8, <1>9, <2>1 DEF Opened, S
<1> QED BY <1>4, <1>10 DEF k

\* A cell of a line.
LEMMA CutWithin ==
    ASSUME NEW d, RowsAre(d), NEW j \in 0 .. Len(d.lines), NEW ls, NEW i \in Nat,
           i < Len(Rows(d)[j+1]), Opened(ls, d, j, i)
    PROVE  Opened(Cut(ls, Rows(d)[j+1][i+1]), d, j, i + 1)
<1> DEFINE S == Seq(Byte)
           k == j + 1
           s == Rows(d)[k]
           last == ls[k]
           x == i + 1
           c == s[x]
           longer == Append(last, c)
           m == [ls EXCEPT ![Len(ls)] = Append(@, c)]
<1>1. /\ ls \in Seq(S) /\ Len(ls) = k /\ \A y \in 1 .. j : ls[y] = Rows(d)[y]
      /\ Len(last) = i /\ \A y \in 1 .. i : last[y] = s[y]
  BY DEF Opened
<1>2. k \in Nat /\ k \in 1 .. k /\ j \in Nat
  BY DEF RowsAre, HasLines
<1>3. c \in Letter
  <2>1. k \in 1 .. Len(d.lines) + 1
    BY DEF RowsAre, HasLines
  <2>2. s \in Seq(Letter) /\ Len(s) \in Nat
    BY <2>1 DEF RowsAre
  <2>3. x \in 1 .. Len(s)
    BY <2>2
  <2> HIDE DEF s, x
  <2> QED BY <2>2, <2>3, ElementOfSeq
<1>4. c # NL /\ c \in Byte
  BY <1>3 DEF Letter, Character, Byte
<1>5. Cut(ls, c) = m
  <2> HIDE DEF c
  <2> QED BY <1>4 DEF Cut
<1> HIDE DEF S, k, s, c
<1>6. last \in S
  BY <1>1, <1>2, ElementOfSeq
<1>7. longer \in S /\ Len(longer) = i + 1 /\ longer[i+1] = c /\ \A y \in 1 .. i : longer[y] = last[y]
  <2>1. last \in Seq(Byte)
    BY <1>6 DEF S
  <2> HIDE DEF last
  <2>2. /\ Append(last, c) \in Seq(Byte) /\ Len(Append(last, c)) = Len(last) + 1
        /\ Append(last, c)[Len(last)+1] = c /\ \A y \in 1 .. Len(last) : Append(last, c)[y] = last[y]
    BY <1>4, <2>1, AppendProperties
  <2> QED BY <1>1, <2>2 DEF S, last
<1>8. m = [y \in 1 .. k |-> IF y = k THEN longer ELSE ls[y]]
  <2>1. DOMAIN ls = 1 .. k
    BY <1>1, LenProperties
  <2> QED BY <1>1, <2>1, ZenonT(30)
<1> HIDE DEF longer, m, last
<1>9. m \in Seq(S) /\ Len(m) = k
  <2>1. \A y \in 1 .. k : ls[y] \in S
    BY <1>1, ElementOfSeq
  <2>2. m \in [1 .. k -> S]
    BY <1>7, <1>8, <2>1
  <2> QED BY <1>2, <2>2, OfLength
<1>10. m[k] = longer /\ \A y \in 1 .. j : m[y] = Rows(d)[y]
  <2>1. m[k] = longer
    BY <1>2, <1>8
  <2>2. ASSUME NEW y \in 1 .. j PROVE m[y] = Rows(d)[y]
    <3>1. y \in 1 .. k /\ y # k
      BY <1>2 DEF k
    <3>2. m[y] = ls[y]
      BY <1>8, <3>1
    <3> QED BY <1>1, <3>2
  <2> QED BY <2>1, <2>2
<1>11. \A y \in 1 .. x : longer[y] = s[y]
  <2> TAKE y \in 1 .. x
  <2>1. CASE y = x
    BY <1>7, <2>1 DEF c
  <2>2. CASE y # x
    <3>1. y \in 1 .. i
      BY <2>2
    <3> QED BY <1>1, <1>7, <3>1
  <2> QED BY <2>1, <2>2
<1>12. Opened(m, d, j, x)
  BY <1>7, <1>9, <1>10, <1>11 DEF Opened, S, k, s
<1> QED BY <1>5, <1>12 DEF c, s, k

\* After x bytes: the first lines of the text and the cells of the next.
Split(ls, d, x) ==
    \E j \in 0 .. Len(d.lines) + 1 : \E i \in Nat :
       /\ x = RowEnd(d, j) + i /\ Opened(ls, d, j, i)
       /\ j <= Len(d.lines) => i <= Len(Rows(d)[j+1])
       /\ j = Len(d.lines) + 1 => i = 0

LEMMA SplitOn ==
    ASSUME NEW d, RowsAre(d), NEW x \in Nat, x < RowEnd(d, Len(d.lines) + 1), NEW ls, Split(ls, d, x)
    PROVE  Split(Cut(ls, DefinitionText(d)[x+1]), d, x + 1)
<1> DEFINE N == Len(d.lines)
           w == DefinitionText(d)
           E(j) == RowEnd(d, j)
           row(j) == Rows(d)[j]
<1>1. N \in Nat
  BY DEF RowsAre, HasLines
<1>2. PICK j \in 0 .. N + 1, i \in Nat :
        /\ x = E(j) + i /\ Opened(ls, d, j, i)
        /\ j <= N => i <= Len(row(j+1))
        /\ j = N + 1 => i = 0
  BY DEF Split
<1>3. \A k \in 0 .. N + 1 : E(k) \in Nat
  BY RowEnds
<1> DEFINE s == row(j+1)
           n == Len(s)
           at == E(j)
<1>4. j \in 0 .. N
  <2>1. CASE j = N + 1
    <3>1. x = E(N + 1) /\ E(N + 1) \in Nat
      BY <1>2, <1>3, <2>1
    <3> QED BY <3>1
  <2> QED BY <1>1, <1>2, <2>1
<1>5. /\ \A k \in 1 .. n : w[at+k] = s[k]
      /\ w[at+n+1] = NL
      /\ E(j + 1) = at + n + 1
      /\ at \in Nat /\ n \in Nat \ {0}
  BY <1>4, RowCells
<1>6. i <= n
  BY <1>1, <1>2, <1>4
<1> HIDE DEF N, w, E, row, s, n, at
<1>7. CASE i = n
  <2>1. x + 1 = at + n + 1
    BY <1>2, <1>7 DEF at
  <2>2. w[x+1] = NL
    BY <1>5, <2>1
  <2>3. Opened(ls, d, j, n)
    BY <1>2, <1>7
  <2>4. Opened(Cut(ls, NL), d, j + 1, 0)
    BY <1>4, <2>3, CutAtEnd DEF n, s, row, N
  <2> DEFINE k == j + 1
             more == Cut(ls, NL)
  <2>5. k \in 0 .. N + 1 /\ x + 1 = E(k) + 0 /\ 0 \in Nat
    <3>1. E(k) \in Nat /\ k \in 0 .. N + 1
      BY <1>1, <1>3, <1>4
    <3>2. E(k) = at + n + 1
      BY <1>5
    <3> HIDE DEF k
    <3> QED BY <2>1, <3>1, <3>2
  <2>6. k <= N => 0 <= Len(row(k+1))
    <3> SUFFICES ASSUME k <= N PROVE 0 <= Len(row(k+1))
      OBVIOUS
    <3>1. k + 1 \in 1 .. N + 1
      BY <1>1, <1>4
    <3>2. Len(row(k+1)) \in Nat
      BY <3>1 DEF RowsAre, row, N
    <3> QED BY <3>2
  <2>7. Opened(more, d, k, 0)
    BY <2>4
  <2> HIDE DEF k, more
  <2>8. Split(more, d, x + 1)
    BY <2>5, <2>6, <2>7 DEF Split, N, E, row
  <2> QED BY <2>2, <2>8 DEF more, w
<1>8. CASE i # n
  <2> DEFINE k == i + 1
  <2>1. i < n /\ k \in 1 .. n /\ k \in Nat /\ k <= n
    BY <1>2, <1>5, <1>6, <1>8
  <2>2. x + 1 = at + k
    BY <1>2, <1>5 DEF at
  <2>3. w[x+1] = s[k]
    BY <1>5, <2>1, <2>2
  <2>4. Opened(Cut(ls, s[k]), d, j, k)
    BY <1>2, <1>4, <2>1, CutWithin DEF s, row, N, n
  <2> HIDE DEF k
  <2>5. j \in 0 .. N + 1 /\ j # N + 1 /\ k <= Len(row(j+1))
    <3>1. j \in 0 .. N + 1 /\ j # N + 1
      BY <1>1, <1>4
    <3> QED BY <2>1, <3>1 DEF n, s
  <2>6. Split(Cut(ls, s[k]), d, x + 1)
    BY <2>1, <2>2, <2>4, <2>5 DEF Split, N, E, row, at
  <2> QED BY <2>3, <2>6 DEF w
<1> QED BY <1>7, <1>8

LEMMA SplitAlways ==
    ASSUME NEW d, RowsAre(d), NEW text, NEW c \in Nat, Len(text) = c,
           c <= RowEnd(d, Len(d.lines) + 1), \A x \in 1 .. c : text[x] = DefinitionText(d)[x],
           NEW g, SplitBy(g, text)
    PROVE  Split(g[c], d, c)
<1> DEFINE good == {x \in 0 .. c : Split(g[x], d, x)}
           N == Len(d.lines)
           e == RowEnd(d, N + 1)
<1>1. N \in Nat /\ e \in Nat /\ RowEnd(d, 0) = 0
  <2>1. N \in Nat
    BY DEF RowsAre, HasLines
  <2>2. N + 1 \in 0 .. N + 1
    BY <2>1
  <2> QED BY <2>1, <2>2, RowEnds
<1>2. 0 \in good
  <2> DEFINE z == 0
             S == Seq(Byte)
             none == <<>>
             ls == <<none>>
  <2>1. ls \in Seq(S) /\ Len(ls) = z + 1 /\ Len(ls[z+1]) = 0 /\ none \in S
    <3>1. none \in S /\ Len(none) = 0
      OBVIOUS
    <3> HIDE DEF S, none
    <3>2. ls \in Seq(S) /\ Len(ls) = 1 /\ ls[1] = none
      BY <3>1
    <3> QED BY <3>1, <3>2
  <2>2. g[0] = ls
    BY DEF SplitBy
  <2> HIDE DEF ls
  <2>3. Opened(ls, d, 0, 0)
    BY <2>1 DEF Opened, S
  <2>4. 0 \in 0 .. c /\ 0 \in 0 .. N + 1 /\ 0 = RowEnd(d, 0) + 0 /\ 0 # N + 1
    BY <1>1
  <2>5. 0 <= Len(Rows(d)[0+1])
    <3>1. 0 + 1 \in 1 .. Len(d.lines) + 1
      BY <1>1
    <3>2. Len(Rows(d)[0+1]) \in Nat
      BY <3>1 DEF RowsAre
    <3> QED BY <3>2
  <2>6. Split(ls, d, 0)
    BY <2>3, <2>4, <2>5 DEF Split, N
  <2> QED BY <2>2, <2>4, <2>6
<1>3. \A n \in 1 .. c : n - 1 \in good => n \in good
  <2> SUFFICES ASSUME NEW n \in 1 .. c, n - 1 \in good PROVE n \in good
    OBVIOUS
  <2> DEFINE x == n - 1
  <2>1. x \in Nat /\ x < e /\ x + 1 = n /\ n \in 0 .. c /\ n \in 1 .. Len(text)
    BY <1>1
  <2>2. Split(g[x], d, x)
    OBVIOUS
  <2> HIDE DEF x
  <2>3. g[n] = Cut(g[x], DefinitionText(d)[n])
    BY <2>1 DEF SplitBy, x
  <2>4. Split(Cut(g[x], DefinitionText(d)[x+1]), d, x + 1)
    BY <2>1, <2>2, SplitOn DEF e, N
  <2> QED BY <2>1, <2>3, <2>4
<1> HIDE DEF good
<1>4. 0 .. c \subseteq good
  BY <1>2, <1>3, Reached
<1>5. c \in good
  BY <1>4
<1> QED BY <1>5 DEF good

LEMMA OneAhead ==
    ASSUME NEW d, RowsAre(d), cut \in Nat, NEW r, Ahead(d, r), NEW j, Ahead(d, j)
    PROVE  j = r
<1> DEFINE m == Len(d.lines) + 1
           E(k) == RowEnd(d, k)
<1>1. m \in Nat
  BY DEF RowsAre, HasLines
<1>2. /\ \A k \in 0 .. m : E(k) \in Nat
      /\ \A k \in 0 .. m : \A l \in k .. m : E(k) <= E(l)
  BY RowEnds
<1>3. /\ r \in 0 .. m /\ E(r) <= cut /\ (r < m => cut < E(r + 1))
      /\ j \in 0 .. m /\ E(j) <= cut /\ (j < m => cut < E(j + 1))
  BY DEF Ahead
<1> HIDE DEF m, E
<1>4. ASSUME NEW a \in 0 .. m, NEW b \in 0 .. m, E(b) <= cut, a < m => cut < E(a + 1), a < b PROVE FALSE
  <2> DEFINE k == a + 1
  <2>1. k \in 0 .. m /\ b \in k .. m /\ a < m
    BY <1>1, <1>4
  <2> HIDE DEF k
  <2>2. E(k) <= E(b) /\ E(k) \in Nat /\ E(b) \in Nat /\ cut < E(k)
    BY <1>2, <1>4, <2>1 DEF k
  <2> QED BY <1>4, <2>2
<1>5. ~ (j < r) /\ ~ (r < j)
  BY <1>3, <1>4
<1> QED BY <1>1, <1>3, <1>5

\* What loadDefinitionFile reads of a text that was cut.
FileLines(ls, d, r) ==
    /\ ls \in Seq(Seq(Byte))
    /\ \A j \in 1 .. r : ls[j] = Rows(d)[j]
    /\ cut = RowEnd(d, r) => Len(ls) = r
    /\ cut # RowEnd(d, r) =>
         /\ Len(ls) = r + 1 /\ r \in 0 .. Len(d.lines) /\ ls[r+1] # <<>>
         /\ \A i \in 1 .. Len(ls[r+1]) : i <= Len(Rows(d)[r+1]) /\ ls[r+1][i] = Rows(d)[r+1][i]

LEMMA LinesOfFile ==
    ASSUME RowsAre(definition), cut \in 1 .. Len(DefinitionText(definition)),
           NEW r, Ahead(definition, r)
    PROVE  FileLines(Lines(Text), definition, r)
<1> DEFINE d == definition
           N == Len(d.lines)
           w == DefinitionText(d)
           t == Text
<1>1. /\ N \in Nat
      /\ \A j \in 1 .. N + 1 : Rows(d)[j] \in Seq(Letter) /\ Len(Rows(d)[j]) \in Nat
  BY DEF RowsAre, HasLines
<1>2. /\ t \in Seq(Byte) /\ Len(t) = cut
  BY TextHolds
<1>3. /\ RowEnd(d, N + 1) = Len(w) /\ w \in Seq(Byte) /\ \A j \in 0 .. N + 1 : RowEnd(d, j) \in Nat
      /\ \A j \in 1 .. N + 1 : RowEnd(d, j) = RowEnd(d, j - 1) + Len(Rows(d)[j]) + 1
  <2>1. w = FlattenSeq(RowParts(d))
    BY TextOfRows
  <2>2. w \in Seq(Byte)
    <3> DEFINE p == RowParts(d)
    <3>1. p \in Seq(Seq(Byte)) /\ Len(p) \in 0 .. Len(p)
      BY <1>1, RowPartsAre
    <3> HIDE DEF p
    <3>2. FirstJoined(p, Len(p)) \in Seq(Byte) /\ FirstJoined(p, Len(p)) = FlattenSeq(p)
      BY <3>1, JoinedIs
    <3> QED BY <2>1, <3>2 DEF p
  <2> QED BY <2>1, <2>2, RowEnds
<1>4. cut \in Nat /\ cut <= Len(w) /\ Len(w) \in Nat /\ cut # 0
  BY <1>3, LenProperties
<1>5. \A i \in 1 .. cut : t[i] = w[i]
  <2> DEFINE z == 0
  <2>1. z \in Nat /\ z <= cut /\ z + 1 = 1 /\ cut - z = cut /\ \A i \in 1 .. cut : z + i = i
    BY <1>4
  <2> HIDE DEF z, w
  <2>2. \A i \in 1 .. cut - z : SubSeq(w, z + 1, cut)[i] = w[z+i]
    BY <1>3, <1>4, <2>1, PartIs
  <2>3. t = SubSeq(w, 1, cut)
    BY DEF Text, w
  <2> HIDE DEF t
  <2> QED BY <2>1, <2>2, <2>3
<1>6. PICK g : /\ SplitBy(g, t)
               /\ Lines(t) = IF Last(g[Len(t)]) = <<>> THEN Front(g[Len(t)]) ELSE g[Len(t)]
  <2> HIDE DEF t
  <2> QED BY <1>2, LinesCut
<1> HIDE DEF w, t
<1>7. Split(g[cut], d, cut)
  BY <1>2, <1>3, <1>4, <1>5, <1>6, SplitAlways DEF N, w
<1> DEFINE all == g[cut]
<1>8. Lines(t) = IF Last(all) = <<>> THEN Front(all) ELSE all
  BY <1>2, <1>6
<1>9. PICK j \in 0 .. N + 1, i \in Nat :
        /\ cut = RowEnd(d, j) + i /\ Opened(all, d, j, i)
        /\ j <= N => i <= Len(Rows(d)[j+1])
        /\ j = N + 1 => i = 0
  BY <1>7 DEF Split
<1> HIDE DEF all, N
<1>10. Ahead(d, j)
  <2>1. RowEnd(d, j) \in Nat
    BY <1>3
  <2>2. RowEnd(d, j) <= cut
    BY <1>9, <2>1
  <2>3. j < N + 1 => cut < RowEnd(d, j + 1)
    <3> SUFFICES ASSUME j < N + 1 PROVE cut < RowEnd(d, j + 1)
      OBVIOUS
    <3> DEFINE k == j + 1
               n == Len(Rows(d)[k])
    <3>1. k \in 1 .. N + 1 /\ k - 1 = j /\ j <= N
      BY <1>1
    <3>2. n \in Nat /\ i <= n
      BY <1>1, <1>9, <3>1
    <3>3. RowEnd(d, k) = RowEnd(d, j) + n + 1
      BY <1>3, <3>1
    <3> HIDE DEF n
    <3> QED BY <1>9, <2>1, <3>2, <3>3
  <2> QED BY <2>2, <2>3 DEF Ahead, N
<1>11. j = r
  <2> HIDE DEF d
  <2>1. RowsAre(d) /\ Ahead(d, r)
    BY DEF d
  <2> QED BY <1>4, <1>10, <2>1, OneAhead
<1>12. RowEnd(d, r) \in Nat /\ r \in 0 .. N + 1 /\ cut = RowEnd(d, r) + i /\ (cut = RowEnd(d, r) <=> i = 0)
  BY <1>3, <1>9, <1>11
<1> DEFINE S == Seq(Byte)
<1>13. /\ all \in Seq(S) /\ Len(all) = r + 1 /\ \A k \in 1 .. r : all[k] = Rows(d)[k]
       /\ Len(all[r+1]) = i /\ \A k \in 1 .. i : all[r+1][k] = Rows(d)[r+1][k]
  BY <1>9, <1>11 DEF Opened
<1>14. Last(all) = all[r+1]
  BY <1>13 DEF Last
<1>15. all[r+1] \in Seq(Byte)
  <2>1. r + 1 \in 1 .. Len(all)
    BY <1>1, <1>12, <1>13
  <2> HIDE DEF S
  <2>2. all[r+1] \in S
    BY <1>13, <2>1, ElementOfSeq
  <2> QED BY <2>2 DEF S
<1> HIDE DEF S
<1>16. CASE i = 0
  <2>1. all[r+1] = <<>>
    BY <1>13, <1>15, <1>16, EmptySeq
  <2>2. Lines(t) = SubSeq(all, 1, r)
    <3>1. Lines(t) = Front(all)
      BY <1>8, <1>14, <2>1
    <3>2. Len(all) - 1 = r
      BY <1>12, <1>13
    <3> QED BY <3>1, <3>2 DEF Front
  <2> DEFINE z == 0
  <2>3. z \in Nat /\ r \in Nat /\ z <= r /\ r <= Len(all) /\ z + 1 = 1 /\ r - z = r /\ \A k \in 1 .. r : z + k = k
    BY <1>12, <1>13
  <2> HIDE DEF z
  <2>4. /\ SubSeq(all, z + 1, r) \in Seq(S) /\ Len(SubSeq(all, z + 1, r)) = r - z
        /\ \A k \in 1 .. r - z : SubSeq(all, z + 1, r)[k] = all[z+k]
    BY <1>13, <2>3, PartIs
  <2>5. /\ Lines(t) \in Seq(S) /\ Len(Lines(t)) = r
        /\ \A k \in 1 .. r : Lines(t)[k] = Rows(d)[k]
    BY <1>13, <2>2, <2>3, <2>4
  <2> QED BY <1>12, <1>16, <2>5 DEF FileLines, S, t
<1>17. CASE i # 0
  <2>1. all[r+1] # <<>>
    <3>1. Len(all[r+1]) # 0
      BY <1>13, <1>17
    <3> QED BY <3>1
  <2>2. Lines(t) = all
    BY <1>8, <1>14, <2>1
  <2>3. r \in 0 .. N /\ i <= Len(Rows(d)[r+1])
    BY <1>1, <1>9, <1>11, <1>17
  <2>4. \A k \in 1 .. Len(all[r+1]) : k <= Len(Rows(d)[r+1]) /\ all[r+1][k] = Rows(d)[r+1][k]
    <3> TAKE k \in 1 .. Len(all[r+1])
    <3>1. k \in 1 .. i /\ k <= i
      BY <1>13
    <3>2. r + 1 \in 1 .. N + 1
      BY <1>1, <2>3
    <3>3. Len(Rows(d)[r+1]) \in Nat
      BY <1>1, <3>2
    <3> QED BY <1>13, <2>3, <3>1, <3>3
  <2> QED BY <1>12, <1>13, <1>17, <2>1, <2>2, <2>3, <2>4 DEF FileLines, S, t, N
<1> QED BY <1>16, <1>17

-----------------------------------------------------------------------------
(* FileParser. *)

\* The lines behind the first j.
Remaining(rest, ls, j) ==
    /\ rest \in Seq(Seq(Byte)) /\ Len(rest) = Len(ls) - j
    /\ \A i \in 1 .. Len(rest) : rest[i] = ls[j+i]

\* j lines were read.
BetweenLines(d, r) ==
    /\ step = "write" /\ result = {}
    /\ (pc = "idle" /\ m_buf = <<>>) \/ (pc = "loop" /\ pos = Len(bytes) + 1 /\ m_buf = bytes)
    /\ \E j \in 0 .. r : /\ Remaining(chunks, Lines(Text), j)
                         /\ ReadRows("file", mParseState, events, d, j)

\* The next one is in the buffer.
AtRow(d, r) ==
    /\ step = "write" /\ result = {} /\ pc = "loop" /\ pos = 0 /\ m_buf = bytes
    /\ \E j \in 1 .. r : /\ Remaining(chunks, Lines(Text), j) /\ bytes = Rows(d)[j]
                         /\ ReadRows("file", mParseState, events, d, j - 1)

\* The rest of the text is, without the end of a line.
AtPart(d, r) ==
    /\ step = "write" /\ result = {} /\ pc = "loop" /\ pos = 0 /\ chunks = <<>>
    /\ cut # RowEnd(d, r) /\ bytes = Lines(Text)[r+1]
    /\ ReadRows("file", mParseState, events, d, r)

FileState(d, r) ==
    \/ step = "begin" /\ Fresh
    \/ BetweenLines(d, r)
    \/ AtRow(d, r)
    \/ AtPart(d, r)
    \/ Done("file", d, r)

LEMMA Emptied ==
    ASSUME NEW S, NEW s \in Seq(S), NEW n \in Nat, n >= Len(s)
    PROVE  Drop(s, n) = <<>>
<1> DEFINE first == n + 1
           k == Len(s)
<1>1. first \in Int /\ k \in Int /\ ~ (first <= k) /\ \A i \in first .. k : s[i] \in S
  BY LenProperties
<1> HIDE DEF first, k
<1>2. SubSeq(s, first, k) \in Seq(S) /\ Len(SubSeq(s, first, k)) = 0
  BY <1>1, SubSeqProperties
<1>3. SubSeq(s, first, k) = <<>>
  BY <1>2, EmptySeq
<1> QED BY <1>3 DEF Drop, first, k

LEMMA NextRemaining ==
    ASSUME NEW rest, NEW ls, NEW j \in Nat, Len(ls) \in Nat, Remaining(rest, ls, j), rest # <<>>
    PROVE  /\ Head(rest) = ls[j+1] /\ j + 1 <= Len(ls)
           /\ Remaining(Tail(rest), ls, j + 1)
<1> DEFINE S == Seq(Byte)
<1>1. rest \in Seq(S) /\ Len(rest) = Len(ls) - j /\ \A i \in 1 .. Len(rest) : rest[i] = ls[j+i]
  BY DEF Remaining
<1> HIDE DEF S
<1>2. /\ Tail(rest) \in Seq(S) /\ Len(Tail(rest)) = Len(rest) - 1
      /\ \A i \in 1 .. Len(Tail(rest)) : Tail(rest)[i] = rest[i+1]
  BY <1>1, HeadTailProperties
<1>3. Len(rest) \in Nat /\ Len(rest) # 0 /\ Head(rest) = rest[1]
  <2>1. Len(rest) \in Nat /\ Len(rest) # 0
    BY <1>1, LenProperties, EmptySeq
  <2> QED BY <1>1, <2>1
<1>4. Head(rest) = ls[j+1] /\ j + 1 <= Len(ls)
  BY <1>1, <1>3
<1>5. \A i \in 1 .. Len(Tail(rest)) : Tail(rest)[i] = ls[j+1+i]
  <2> TAKE i \in 1 .. Len(Tail(rest))
  <2> DEFINE k == i + 1
  <2>1. k \in 1 .. Len(rest) /\ j + k = j + 1 + i
    BY <1>2, <1>3
  <2>2. Tail(rest)[i] = rest[k]
    BY <1>2
  <2> HIDE DEF k
  <2>3. rest[k] = ls[j+k]
    BY <1>1, <2>1
  <2> QED BY <2>1, <2>2, <2>3
<1>6. Len(Tail(rest)) = Len(ls) - (j + 1)
  BY <1>1, <1>2, <1>3
<1> QED BY <1>2, <1>4, <1>5, <1>6 DEF Remaining, S

\* A line is given to the parser.
LEMMA LineWritten ==
    ASSUME StreamTypes, NEW d, d = definition, RowsAre(d), cut \in 1 .. Len(DefinitionText(d)),
           NEW r, Ahead(d, r), BetweenLines(d, r), WriteChunk
    PROVE  AtRow(d, r)' \/ AtPart(d, r)'
<1> DEFINE L == Lines(Text)
           N == Len(d.lines)
<1>1. /\ step' = "write" /\ pc' = "loop" /\ pos' = 0 /\ m_buf' = m_buf \o Head(chunks)
      /\ bytes' = m_buf' /\ chunks' = Tail(chunks) /\ chunks # <<>> /\ pc = "idle"
      /\ UNCHANGED <<result, user, definition, cut, mParseState, events>>
  BY DEF WriteChunk, Write, parseVars, BetweenLines
<1>2. m_buf = <<>> /\ result = {}
  BY <1>1 DEF BetweenLines
<1>3. PICK j \in 0 .. r : Remaining(chunks, L, j) /\ ReadRows("file", mParseState, events, d, j)
  BY DEF BetweenLines
<1>4. L' = L
  BY <1>1 DEF Text
<1>5. FileLines(L, d, r)
  BY LinesOfFile
<1>6. r \in 0 .. N + 1 /\ N \in Nat /\ j \in Nat
  BY DEF Ahead, RowsAre, HasLines
<1> HIDE DEF L
<1>7. Len(L) \in Nat /\ (Len(L) = r \/ (Len(L) = r + 1 /\ cut # RowEnd(d, r)))
  BY <1>5, LenProperties DEF FileLines
<1>8. /\ Head(chunks) = L[j+1] /\ j + 1 <= Len(L) /\ Remaining(Tail(chunks), L, j + 1)
  BY <1>1, <1>3, <1>6, <1>7, NextRemaining
<1>9. bytes' = L[j+1] /\ m_buf' = bytes'
  <2>1. L[j+1] \in Seq(Byte)
    <3> DEFINE S == Seq(Byte)
               k == j + 1
    <3>1. L \in Seq(S) /\ k \in 1 .. Len(L)
      BY <1>5, <1>6, <1>7, <1>8 DEF FileLines
    <3> HIDE DEF S, k
    <3>2. L[k] \in S
      BY <3>1, ElementOfSeq
    <3> QED BY <3>2 DEF S, k
  <2>2. <<>> \o L[j+1] = L[j+1]
    BY <2>1, ConcatEmptySeq
  <2> QED BY <1>1, <1>2, <1>8, <2>2
<1>10. CASE j # r
  <2> DEFINE k == j + 1
  <2>1. k \in 1 .. r /\ k - 1 = j
    BY <1>3, <1>6, <1>10
  <2>2. Remaining(chunks', L', k)
    BY <1>1, <1>4, <1>8
  <2> HIDE DEF k
  <2>3. bytes' = Rows(d)[k]
    <3>1. L[k] = Rows(d)[k]
      BY <1>5, <2>1 DEF FileLines
    <3> QED BY <1>9, <3>1 DEF k
  <2>4. ReadRows("file", mParseState', events', d, k - 1)
    BY <1>1, <1>3, <2>1
  <2>5. AtRow(d, r)'
    BY <1>1, <1>2, <1>9, <2>1, <2>2, <2>3, <2>4 DEF AtRow, L
  <2> QED BY <2>5
<1>11. CASE j = r
  <2>1. Len(L) = r + 1 /\ cut # RowEnd(d, r)
    BY <1>6, <1>7, <1>8, <1>11
  <2>2. Tail(chunks) = <<>>
    <3> DEFINE S == Seq(Byte)
    <3>1. Tail(chunks) \in Seq(S) /\ Len(Tail(chunks)) = Len(L) - (j + 1)
      BY <1>8 DEF Remaining
    <3> HIDE DEF S
    <3>2. Len(Tail(chunks)) = 0
      BY <1>6, <1>11, <2>1, <3>1
    <3> QED BY <3>1, <3>2, EmptySeq
  <2>3. cut' # RowEnd(d, r)
    BY <1>1, <2>1
  <2>4. bytes' = L'[r+1]
    BY <1>4, <1>9, <1>11
  <2>5. ReadRows("file", mParseState', events', d, r)
    BY <1>1, <1>3, <1>11
  <2>6. AtPart(d, r)'
    BY <1>1, <1>2, <2>2, <2>3, <2>4, <2>5 DEF AtPart, L
  <2> QED BY <2>6
<1> QED BY <1>10, <1>11

\* The file is read and the parser closed.
LEMMA FileEnds ==
    ASSUME StreamTypes, NEW d, d = definition, RowsAre(d), cut \in 1 .. Len(DefinitionText(d)),
           NEW r, Ahead(d, r), BetweenLines(d, r), CloseStream
    PROVE  Done("file", d, r)'
<1> DEFINE L == Lines(Text)
           N == Len(d.lines)
           F == "file"
<1>1. /\ step' = "closed" /\ pc = "idle" /\ chunks = <<>>
      /\ UNCHANGED <<chunks, pc, pos, bytes, events, result, definition, cut>>
  BY DEF CloseStream, Close, loopVars, linkVars
<1>2. PICK j \in 0 .. r : Remaining(chunks, L, j) /\ ReadRows(F, mParseState, events, d, j)
  BY DEF BetweenLines
<1>3. FileLines(L, d, r)
  BY LinesOfFile
<1>4. r \in 0 .. N + 1 /\ N \in Nat /\ HasLines(d)
  BY DEF Ahead, RowsAre, HasLines
<1>5. Whole => r = N + 1
  BY TextHolds
<1> HIDE DEF L, F
<1>6. Len(L) \in Nat /\ ((Len(L) = r /\ cut = RowEnd(d, r)) \/ (Len(L) = r + 1 /\ cut # RowEnd(d, r)))
  BY <1>3, LenProperties DEF FileLines
<1>7. j = r /\ cut = RowEnd(d, r)
  <2>1. Len(chunks) = Len(L) - j /\ Len(chunks) = 0
    BY <1>1, <1>2 DEF Remaining
  <2>2. j = Len(L)
    BY <1>4, <1>6, <2>1
  <2> QED BY <1>2, <1>4, <1>6, <2>2
<1>8. r # 0
  <2>1. RowEnd(d, 0) = 0
    BY RowEnds
  <2>2. cut # 0
    BY LenProperties
  <2> QED BY <1>7, <2>1, <2>2
<1>9. r - 1 \in 0 .. N /\ BehindHeader(r) = r - 1 /\ (Whole => r - 1 = N)
  BY <1>4, <1>5, <1>8 DEF BehindHeader
<1>10. Gathered(F, events, d, r - 1)
  BY <1>2, <1>7, <1>8 DEF ReadRows
<1>11. Nearly(F, events, d, BehindHeader(r))
  <2> DEFINE k == r - 1
  <2>1. k \in 0 .. Len(d.lines) /\ Gathered(F, events, d, k)
    BY <1>9, <1>10 DEF N
  <2> HIDE DEF k
  <2>2. Nearly(F, events, d, k)
    BY <1>4, <2>1, GatheredNearly
  <2> QED BY <1>9, <2>2 DEF k
<1>12. Whole' = Whole /\ result = {}
  BY <1>1 DEF Whole, BetweenLines
<1>13. Done(F, d, r)'
  BY <1>1, <1>9, <1>10, <1>11, <1>12 DEF Done, N
<1> QED BY <1>13 DEF F

\* A round of the loop in a file.
LEMMA FileLoop ==
    ASSUME StreamTypes, NEW d, d = definition, RowsAre(d), IsWellWritten(d),
           cut \in 1 .. Len(DefinitionText(d)), NEW r, Ahead(d, r),
           BetweenLines(d, r) \/ AtRow(d, r) \/ AtPart(d, r),
           TextLoop, UNCHANGED <<parseVars, linkVars>>
    PROVE  BetweenLines(d, r)' \/ Done("file", d, r)'
<1> DEFINE L == Lines(Text)
           N == Len(d.lines)
           row(j) == Rows(d)[j]
           F == "file"
<1>1. /\ UNCHANGED <<chunks, step, result, user, definition, cut>>
      /\ L' = L /\ pc = "loop"
  <2>1. pc = "loop"
    BY TextCases DEF AtText, EmptyLine, BadDeclaration, EnterData, WriteEnd
  <2> QED BY <2>1 DEF parseVars, linkVars, Text
<1>2. FileLines(L, d, r)
  BY LinesOfFile
<1>3. /\ r \in 0 .. N + 1 /\ N \in Nat
      /\ \A j \in 1 .. N + 1 : row(j) \in Seq(Letter) /\ Len(row(j)) \in Nat \ {0}
  BY DEF Ahead, RowsAre, HasLines
<1>4. bytes \in Seq(Byte) /\ pos \in Nat /\ m_buf \in Seq(Byte) /\ F \in {"bytearray", "file"}
  BY DEF StreamTypes
<1> HIDE DEF L, N, row, F
<1>5. CASE BetweenLines(d, r)
  <2>1. step = "write" /\ result = {} /\ pos = Len(bytes) + 1 /\ m_buf = bytes
    BY <1>1, <1>5 DEF BetweenLines
  <2>2. PICK j \in 0 .. r : Remaining(chunks, L, j) /\ ReadRows(F, mParseState, events, d, j)
    BY <1>5 DEF BetweenLines, L, F
  <2>3. Len(bytes) \in Nat /\ pos >= Len(bytes) /\ pos >= Len(m_buf)
    <3>1. Len(bytes) \in Nat
      BY <1>4, LenProperties
    <3> QED BY <2>1, <3>1
  <2>4. WriteEnd
    BY <2>3, LoopEnds
  <2>5. m_buf' = Drop(m_buf, pos) /\ pc' = "idle" /\ UNCHANGED <<mParseState, events>>
    BY <2>4 DEF WriteEnd, Finish
  <2>6. Drop(m_buf, pos) = <<>>
    BY <1>4, <2>3, Emptied
  <2>7. Remaining(chunks', L', j) /\ ReadRows(F, mParseState', events', d, j)
    BY <1>1, <2>2, <2>5
  <2>8. BetweenLines(d, r)'
    BY <1>1, <2>1, <2>5, <2>6, <2>7 DEF BetweenLines, L, F
  <2> QED BY <2>8
<1>6. CASE AtRow(d, r)
  <2>1. step = "write" /\ result = {} /\ pos = 0 /\ m_buf = bytes
    BY <1>6 DEF AtRow
  <2>2. PICK j \in 1 .. r : /\ Remaining(chunks, L, j) /\ bytes = row(j)
                            /\ ReadRows(F, mParseState, events, d, j - 1)
    BY <1>6 DEF AtRow, L, F, row
  <2>3. j \in 1 .. N + 1 /\ j \in 0 .. r
    BY <1>3
  <2> DEFINE s == row(j)
  <2>4. s \in Seq(Letter) /\ Len(s) \in Nat \ {0}
    BY <1>3, <2>3
  <2>5. /\ pos < Len(bytes) /\ Len(bytes) - pos = Len(s)
        /\ \A i \in 1 .. Len(bytes) - pos : i <= Len(s) /\ bytes[pos+i] = s[i]
    <3>1. bytes = s
      BY <2>2
    <3> HIDE DEF s
    <3> QED BY <2>1, <2>4, <3>1
  <2> HIDE DEF s
  <2>6. AtText /\ LineEnd = Len(bytes) /\ Line = s
    BY <1>1, <1>4, <2>4, <2>5, OpenLine
  <2>7. NextLine /\ ReadRows(F, mParseState', events', d, j)
    BY <1>4, <2>2, <2>3, <2>6, RowRead DEF s, row, N
  <2>8. pos' = Len(bytes') + 1 /\ pc' = "loop" /\ m_buf' = bytes'
    BY <2>1, <2>6, <2>7 DEF NextLine, loopVars
  <2>9. Remaining(chunks', L', j)
    BY <1>1, <2>2
  <2>10. BetweenLines(d, r)'
    BY <1>1, <2>1, <2>3, <2>7, <2>8, <2>9 DEF BetweenLines, L, F
  <2> QED BY <2>10
<1>7. CASE AtPart(d, r)
  <2> DEFINE s == row(r+1)
  <2>1. /\ step = "write" /\ result = {} /\ pos = 0 /\ chunks = <<>>
        /\ cut # RowEnd(d, r) /\ bytes = L[r+1] /\ ReadRows(F, mParseState, events, d, r)
    BY <1>7 DEF AtPart, L, F
  <2>2. /\ r \in 0 .. N /\ L[r+1] # <<>>
        /\ \A i \in 1 .. Len(L[r+1]) : i <= Len(s) /\ L[r+1][i] = s[i]
    BY <1>2, <2>1 DEF FileLines, N, row
  <2>3. r + 1 \in 1 .. N + 1
    BY <1>3, <2>2
  <2>4. s \in Seq(Letter)
    BY <1>3, <2>3
  <2> HIDE DEF s
  <2>5. /\ pos < Len(bytes)
        /\ \A i \in 1 .. Len(bytes) - pos : i <= Len(s) /\ bytes[pos+i] = s[i]
    <3>1. bytes # <<>> /\ \A i \in 1 .. Len(bytes) : i <= Len(s) /\ bytes[i] = s[i]
      BY <2>1, <2>2
    <3>2. Len(bytes) \in Nat /\ Len(bytes) # 0
      BY <1>4, <3>1, LenProperties, EmptySeq
    <3> QED BY <2>1, <3>1, <3>2
  <2>6. AtText /\ Line # <<>> /\ Line[1] = s[1] /\ LineEnd = Len(bytes)
    BY <1>1, <1>4, <2>4, <2>5, OpenLine
  <2>7. ~ Whole
    <3>1. Whole => RowEnd(d, r) = cut
      BY TextHolds
    <3> QED BY <2>1, <3>1
  <2>8. Done(F, d, r)'
    BY <1>4, <2>1, <2>2, <2>6, <2>7, PartEnds DEF s, row, N
  <2> QED BY <2>8 DEF F
<1> QED BY <1>5, <1>6, <1>7

LEMMA FileStep ==
    ASSUME TypesInv, user = "file", NEW d, d = definition, RowsAre(d), IsWellWritten(d),
           NEW r, Ahead(d, r), FileState(d, r), [Next]_vars
    PROVE  FileState(d, r)'
<1>1. /\ StreamTypes /\ UserTypes /\ cut \in 1 .. Len(DefinitionText(d))
  BY DEF TypesInv, UserTypes
<1>2. Text' = Text /\ definition' = definition /\ cut' = cut
  BY TextStays, UserStays
<1>3. CASE step = "begin" /\ Fresh
  <2>1. OpenStream \/ UNCHANGED vars
    BY <1>3, ParserSteps DEF Fresh
  <2>2. CASE OpenStream
    <3> DEFINE L == Lines(Text)
    <3>1. /\ step' = "write" /\ chunks' = L /\ result' = result
          /\ UNCHANGED <<pc, m_buf, mParseState, events>>
      BY <2>2 DEF OpenStream, Open
    <3>2. L' = L
      BY <1>2
    <3>3. Remaining(chunks', L', 0)
      <4>1. L \in Seq(Seq(Byte))
        BY <1>1, LinesOfFile DEF FileLines
      <4>2. Len(L) \in Nat
        <5> DEFINE S == Seq(Byte)
        <5>1. L \in Seq(S)
          BY <4>1
        <5> HIDE DEF S, L
        <5> QED BY <5>1, LenProperties
      <4> HIDE DEF L
      <4>3. Len(L) = Len(L) - 0 /\ \A i \in 1 .. Len(L) : L[i] = L[0+i]
        BY <4>2
      <4> QED BY <3>1, <3>2, <4>1, <4>3 DEF Remaining
    <3>4. 0 \in 0 .. r
      BY DEF Ahead
    <3>5. ReadRows("file", mParseState', events', d, 0)
      BY <1>3, <3>1 DEF ReadRows, Fresh
    <3>6. BetweenLines(d, r)'
      BY <1>3, <3>1, <3>3, <3>4, <3>5 DEF BetweenLines, Fresh
    <3> QED BY <3>6 DEF FileState
  <2>3. CASE UNCHANGED vars
    <3>1. UNCHANGED <<step, pc, m_buf, mParseState, events, result>>
      BY <2>3 DEF vars, istreamVars, parserVars, parseVars
    <3> QED BY <1>3, <3>1 DEF FileState, Fresh
  <2> QED BY <2>1, <2>2, <2>3
<1>4. CASE BetweenLines(d, r) \/ AtRow(d, r) \/ AtPart(d, r)
  <2>1. step = "write" /\ pc \in {"idle", "loop"}
    BY <1>4 DEF BetweenLines, AtRow, AtPart
  <2>2. \/ WriteChunk /\ pc = "idle"
        \/ CloseStream /\ pc = "idle"
        \/ TextLoop /\ UNCHANGED <<parseVars, linkVars>>
        \/ UNCHANGED vars
    BY <2>1, ParserSteps
  <2>3. CASE WriteChunk /\ pc = "idle"
    <3>1. BetweenLines(d, r)
      BY <1>4, <2>3 DEF AtRow, AtPart
    <3>2. AtRow(d, r)' \/ AtPart(d, r)'
      BY <1>1, <2>3, <3>1, LineWritten
    <3> QED BY <3>2 DEF FileState
  <2>4. CASE CloseStream /\ pc = "idle"
    <3>1. BetweenLines(d, r)
      BY <1>4, <2>4 DEF AtRow, AtPart
    <3>2. Done("file", d, r)'
      BY <1>1, <2>4, <3>1, FileEnds
    <3> QED BY <3>2 DEF FileState
  <2>5. CASE TextLoop /\ UNCHANGED <<parseVars, linkVars>>
    <3>1. BetweenLines(d, r)' \/ Done("file", d, r)'
      BY <1>1, <1>4, <2>5, FileLoop
    <3> QED BY <3>1 DEF FileState
  <2>6. CASE UNCHANGED vars
    <3>1. UNCHANGED <<step, chunks, result, pc, m_buf, bytes, pos, mParseState, events>>
      BY <2>6 DEF vars, istreamVars, parserVars, parseVars, linkVars, loopVars
    <3>2. BetweenLines(d, r)' \/ AtRow(d, r)' \/ AtPart(d, r)'
      BY <1>2, <1>4, <3>1 DEF BetweenLines, AtRow, AtPart
    <3> QED BY <3>2 DEF FileState
  <2> QED BY <2>2, <2>3, <2>4, <2>5, <2>6
<1>5. CASE Done("file", d, r)
  <2> DEFINE F == "file"
  <2>1. F \in {"bytearray", "file"} /\ user = F /\ Done(F, d, r)
    BY <1>5
  <2> HIDE DEF F
  <2>2. Done(F, d, r)'
    BY <1>1, <2>1, DoneStays
  <2> QED BY <2>2 DEF FileState, F
<1> QED BY <1>3, <1>4, <1>5 DEF FileState

FileRead ==
    user = "file" /\ IsWellWritten(definition) =>
      \E d : \E r : d = definition /\ Ahead(d, r) /\ FileState(d, r)

LEMMA FileHolds == FairSpec => []FileRead
<1>1. ASSUME Init PROVE FileRead
  <2> SUFFICES ASSUME user = "file", IsWellWritten(definition)
               PROVE  \E d : \E r : d = definition /\ Ahead(d, r) /\ FileState(d, r)
    BY DEF FileRead
  <2>1. UserTypes
    BY <1>1, InitTypes
  <2>2. PICK r : Ahead(definition, r)
    BY <2>1, SomeAhead
  <2>3. FileState(definition, r)
    BY <1>1 DEF Init, IStreamInit, FileState, Fresh
  <2> QED BY <2>2, <2>3
<1>2. ASSUME TypesInv, FileRead, [Next]_vars PROVE FileRead'
  <2> SUFFICES ASSUME user' = "file", IsWellWritten(definition)'
               PROVE  \E d : \E r : d = definition' /\ Ahead(d, r)' /\ FileState(d, r)'
    BY DEF FileRead
  <2>1. user' = user /\ definition' = definition /\ cut' = cut
    BY <1>2, UserStays
  <2>2. user = "file" /\ IsWellWritten(definition)
    BY <2>1 DEF IsWellWritten
  <2>3. PICK d, r : d = definition /\ Ahead(d, r) /\ FileState(d, r)
    BY <1>2, <2>2 DEF FileRead
  <2>4. RowsAre(d) /\ IsWellWritten(d)
    BY <1>2, <2>2, <2>3, SomeAhead DEF TypesInv
  <2>5. FileState(d, r)'
    BY <1>2, <2>2, <2>3, <2>4, FileStep
  <2>6. Ahead(d, r)'
    BY <2>1, <2>3 DEF Ahead
  <2> QED BY <2>1, <2>3, <2>5, <2>6
<1> QED BY <1>1, <1>2, TypesHold, PTL DEF FairSpec

-----------------------------------------------------------------------------
(* What is returned. *)

\* Without a file the node is empty, and the users of the link make none.
NoNode ==
    /\ user = "missing" => cut = 1 /\ result \subseteq {EmptyNode} /\ step # "closed"
    /\ user \notin {"bytearray", "file", "missing"} => result = {} /\ step # "closed"

LEMMA NoNodeHolds == FairSpec => []NoNode
<1>1. ASSUME Init PROVE NoNode
  <2>1. result = {} /\ step # "closed" /\ (user = "missing" => cut = 1)
    BY <1>1 DEF Init, ParserInit, LinkInit
  <2> QED BY <2>1 DEF NoNode
<1>2. ASSUME NoNode, [Next]_vars PROVE NoNode'
  <2>1. user' = user /\ cut' = cut
    BY <1>2, UserStays
  <2> SUFFICES ASSUME user \notin {"bytearray", "file"} PROVE NoNode'
    BY <2>1 DEF NoNode
  <2>2. step # "closed"
    BY <1>2 DEF NoNode
  <2>3. \/ FileMissing
        \/ result' = result /\ step' # "closed"
    <3>1. ~ CloseStream /\ ~ Return
      BY <2>2 DEF CloseStream, Return
    <3>2. CASE OpenStream
      BY <3>2 DEF OpenStream
    <3>3. CASE WriteChunk \/ Piece \/ \E msgs \in Transmissions : Transmit(msgs)
      BY <2>2, <3>3 DEF WriteChunk, Piece, Transmit, parseVars, parserVars
    <3>4. CASE (TextLoop \/ DataLoop) /\ UNCHANGED <<parseVars, linkVars>>
      BY <2>2, <3>4 DEF parseVars
    <3>5. CASE UNCHANGED vars
      BY <2>2, <3>5 DEF vars, parserVars, parseVars
    <3> QED BY <1>2, <3>1, <3>2, <3>3, <3>4, <3>5 DEF Next
  <2>4. CASE FileMissing
    <3>1. user = "missing" /\ result' = {EmptyNode} /\ step' = "returned"
      BY <2>4 DEF FileMissing
    <3> QED BY <1>2, <2>1, <3>1 DEF NoNode
  <2> QED BY <1>2, <2>1, <2>3, <2>4 DEF NoNode
<1> QED BY <1>1, <1>2, PTL DEF FairSpec

\* The node a parser returns and what it comes from.
LEMMA NodeReturned ==
    ASSUME UserTypes, NEW parser \in {"bytearray", "file"}, user = parser,
           IsWellWritten(definition), NEW r, Ahead(definition, r),
           result = {} \/ Done(parser, definition, r), NEW node \in result
    PROVE  /\ Whole => \A list \in Lists :
                Content(node, list)
                  = Described(definition, Len(definition.lines), list, OnlyTyped(parser))
           /\ Covers(node, definition, CompleteLines, OnlyTyped(parser))
<1> DEFINE d == definition
           made == NodeFrom(parser, events)
           n == Len(d.lines)
           k == BehindHeader(r)
<1>1. RowsAre(d) /\ IsList(d.lines) /\ cut \in Nat
  BY SomeAhead
<1>2. Done(parser, d, r)
  OBVIOUS
<1>3. /\ node = made /\ Nearly(parser, events, d, k) /\ (Whole => Gathered(parser, events, d, n))
  BY <1>2 DEF Done
<1>4. CompleteLines = k
  BY <1>1, CompleteAre
<1> HIDE DEF d, made, n, k
<1>5. Covers(made, d, k, OnlyTyped(parser))
  BY <1>3, NodeOf DEF made
<1>6. Whole => Matches(made, d, n, OnlyTyped(parser))
  BY <1>3, NodeOf DEF made
<1>7. Whole => \A list \in Lists : Content(node, list) = Described(d, n, list, OnlyTyped(parser))
  BY <1>3, <1>6 DEF Matches
<1> QED BY <1>3, <1>4, <1>5, <1>7 DEF d, n

\* From a text that ends before its first line does.
LEMMA NothingRead ==
    ASSUME UserTypes, user = "missing", IsWellWritten(definition), cut = 1
    PROVE  Covers(EmptyNode, definition, CompleteLines, FALSE)
<1> DEFINE d == definition
           n == Len(d.lines)
<1>1. RowsAre(d) /\ IsList(d.lines) /\ cut \in Nat /\ \E r : Ahead(d, r)
  BY SomeAhead
<1>2. PICK r : Ahead(d, r)
  BY <1>1
<1>3. n \in Nat /\ HasLines(d) /\ Len(Rows(d)[1]) = 4
  <2>1. PICK v \in 50 .. 57 : Rows(d)[1] = <<APX, 49, Dot, v>>
    BY <1>1 DEF RowsAre
  <2> QED BY <1>1, <2>1 DEF RowsAre, HasLines
<1>4. r = 0
  <2> SUFFICES ASSUME r # 0 PROVE FALSE
    OBVIOUS
  <2>1. r \in 1 .. n + 1 /\ 1 \in 1 .. n + 1 /\ 1 \in 0 .. n + 1 /\ 1 - 1 = 0 /\ r \in 0 .. n + 1
    BY <1>2, <1>3 DEF Ahead
  <2>2. RowEnd(d, 0) = 0 /\ RowEnd(d, 1) = RowEnd(d, 1 - 1) + Len(Rows(d)[1]) + 1
        /\ RowEnd(d, 1) <= RowEnd(d, r) /\ RowEnd(d, r) \in Nat
    BY <1>1, <2>1, RowEnds
  <2>3. RowEnd(d, r) <= 1
    BY <1>2 DEF Ahead
  <2> QED BY <1>3, <2>1, <2>2, <2>3
<1>5. CompleteLines = 0
  <2>1. CompleteLines = BehindHeader(r)
    BY <1>1, <1>2, CompleteAre
  <2> QED BY <1>4, <2>1 DEF BehindHeader
<1> HIDE DEF d, n
<1>6. Matches(EmptyNode, d, 0, FALSE)
  BY <1>3, MatchesNone
<1> DEFINE z == 0
           typed == FALSE
<1>7. z \in 0 .. Len(d.lines) /\ Matches(EmptyNode, d, z, typed)
  <2>1. Len(d.lines) \in Nat
    BY <1>3 DEF n
  <2>2. z \in 0 .. Len(d.lines)
    BY <2>1
  <2> QED BY <1>6, <2>2
<1> HIDE DEF z, typed
<1>8. Covers(EmptyNode, d, z, typed)
  BY <1>3, <1>7, MatchesCovers
<1> QED BY <1>5, <1>8 DEF d, z, typed

\* Whatever well written definition a byte array holds: all of it is parsed into the node
\* it describes, with its name, its types and its ports in order, each with its element
\* and its initial value and without those that refer to no type; no assertion fails.
THEOREM ParsedAlways == FairSpec => [](IsWellWritten(definition) => ParsedAsDescribed)
<1>1. TypesInv /\ ByteArrayRead => (IsWellWritten(definition) => ParsedAsDescribed)
  <2> SUFFICES ASSUME TypesInv, ByteArrayRead, IsWellWritten(definition), user = "bytearray", Whole
               PROVE  /\ definition.version = <<49, Dot, 50>> => pc # "aborted"
                      /\ \A node \in result, list \in Lists :
                           Content(node, list)
                             = Described(definition, Len(definition.lines), list, FALSE)
    BY DEF ParsedAsDescribed
  <2>1. PICK r : Ahead(definition, r) /\ ByteArrayState(definition, r)
    BY DEF ByteArrayRead
  <2>2. pc # "aborted"
    BY <2>1 DEF ByteArrayState, Fresh, InText, Done
  <2>3. result = {} \/ Done("bytearray", definition, r)
    BY <2>1 DEF ByteArrayState, Fresh, InText
  <2> DEFINE B == "bytearray"
  <2>4. /\ UserTypes /\ B \in {"bytearray", "file"} /\ user = B /\ OnlyTyped(B) = FALSE
        /\ result = {} \/ Done(B, definition, r)
    BY <2>3 DEF TypesInv, OnlyTyped
  <2> HIDE DEF B
  <2>5. ASSUME NEW node \in result, NEW list \in Lists
        PROVE  Content(node, list) = Described(definition, Len(definition.lines), list, OnlyTyped(B))
    BY <2>1, <2>4, <2>5, NodeReturned
  <2> QED BY <2>2, <2>4, <2>5
<1> QED BY <1>1, TypesHold, ByteArrayHolds, PTL

\* Of a file with a well written definition, given to the parser line by line, the node
\* has the same types and, of the ports, those that refer to one.
THEOREM FileKeptAlways == FairSpec => [](IsWellWritten(definition) => FileKeepsTyped)
<1>1. TypesInv /\ FileRead => (IsWellWritten(definition) => FileKeepsTyped)
  <2> SUFFICES ASSUME TypesInv, FileRead, IsWellWritten(definition), user = "file", Whole,
                      NEW node \in result, NEW list \in Lists
               PROVE  Content(node, list)
                        = Described(definition, Len(definition.lines), list, TRUE)
    BY DEF FileKeepsTyped
  <2>1. PICK r : Ahead(definition, r) /\ FileState(definition, r)
    BY DEF FileRead
  <2>2. result = {} \/ Done("file", definition, r)
    BY <2>1 DEF FileState, Fresh, BetweenLines, AtRow, AtPart
  <2> DEFINE F == "file"
  <2>3. /\ UserTypes /\ F \in {"bytearray", "file"} /\ user = F /\ OnlyTyped(F) = TRUE
        /\ result = {} \/ Done(F, definition, r)
    BY <2>2 DEF TypesInv, OnlyTyped
  <2> HIDE DEF F
  <2>4. Content(node, list) = Described(definition, Len(definition.lines), list, OnlyTyped(F))
    BY <2>1, <2>3, NodeReturned
  <2> QED BY <2>3, <2>4
<1> QED BY <1>1, TypesHold, FileHolds, PTL

\* Wherever the text of a well written definition was cut, the node that either parser
\* returns has all that its complete lines describe and one item more at most; a file
\* that is missing gives a node without any.
THEOREM LinesKeptAlways == FairSpec => [](IsWellWritten(definition) => CompleteLinesKept)
<1>1. TypesInv /\ ByteArrayRead /\ FileRead /\ NoNode => (IsWellWritten(definition) => CompleteLinesKept)
  <2> SUFFICES ASSUME TypesInv, ByteArrayRead, FileRead, NoNode, IsWellWritten(definition),
                      NEW node \in result
               PROVE  Covers(node, definition, CompleteLines, user = "file")
    BY DEF CompleteLinesKept, Covers
  <2>1. UserTypes /\ user \in {"bytearray", "file", "missing"}
    BY DEF NoNode, TypesInv
  <2>2. CASE user = "bytearray"
    <3>1. PICK r : Ahead(definition, r) /\ ByteArrayState(definition, r)
      BY <2>2 DEF ByteArrayRead
    <3>2. result = {} \/ Done("bytearray", definition, r)
      BY <3>1 DEF ByteArrayState, Fresh, InText
    <3> DEFINE B == "bytearray"
    <3>3. /\ B \in {"bytearray", "file"} /\ user = B /\ OnlyTyped(B) = (user = "file")
          /\ result = {} \/ Done(B, definition, r)
      BY <2>2, <3>2 DEF OnlyTyped
    <3> HIDE DEF B
    <3>4. Covers(node, definition, CompleteLines, OnlyTyped(B))
      BY <2>1, <3>1, <3>3, NodeReturned
    <3> QED BY <3>3, <3>4
  <2>3. CASE user = "file"
    <3>1. PICK r : Ahead(definition, r) /\ FileState(definition, r)
      BY <2>3 DEF FileRead
    <3>2. result = {} \/ Done("file", definition, r)
      BY <3>1 DEF FileState, Fresh, BetweenLines, AtRow, AtPart
    <3> DEFINE F == "file"
    <3>3. /\ F \in {"bytearray", "file"} /\ user = F /\ OnlyTyped(F) = (user = "file")
          /\ result = {} \/ Done(F, definition, r)
      BY <2>3, <3>2 DEF OnlyTyped
    <3> HIDE DEF F
    <3>4. Covers(node, definition, CompleteLines, OnlyTyped(F))
      BY <2>1, <3>1, <3>3, NodeReturned
    <3> QED BY <3>3, <3>4
  <2>4. CASE user = "missing"
    <3>1. node = EmptyNode /\ cut = 1 /\ (user = "file") = FALSE
      BY <2>4 DEF NoNode
    <3>2. Covers(EmptyNode, definition, CompleteLines, FALSE)
      BY <2>1, <2>4, <3>1, NothingRead
    <3> QED BY <3>1, <3>2
  <2> QED BY <2>1, <2>2, <2>3, <2>4
<1> QED BY <1>1, TypesHold, ByteArrayHolds, FileHolds, NoNodeHolds, PTL
=============================================================================
