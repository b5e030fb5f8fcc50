-------------------------- MODULE NodeData_proofs --------------------------
(***************************************************************************)
(* Data and nodes.                                                         *)
(*                                                                         *)
(* Part 1: byte code keeps what PortValues promises: which values are      *)
(* packed, what their bytes hold, and what is read from bytes, for all     *)
(* elements.                                                               *)
(*                                                                         *)
(* Part 2: the invariants of Apx::NodeData, for every node definition,     *)
(* every value an application may set and every content of the file of     *)
(* require ports.                                                          *)
(***************************************************************************)
EXTENDS NodeData, ListLemmas

-----------------------------------------------------------------------------
(* Induction, sums. *)

\* The sums of integers add them one by one ...
LEMMA SumsProperties ==
    ASSUME NEW s \in Seq(Int)
    PROVE  /\ Sums(s) \in [0 .. Len(s) -> Int] /\ Sums(s)[0] = 0
           /\ \A i \in 1 .. Len(s) : Sums(s)[i] = Sums(s)[i-1] + s[i]
<1> DEFINE n == Len(s)
           Is(f) == f = [i \in 0 .. n |-> IF i = 0 THEN 0 ELSE f[i-1] + s[i]]
           step == [x \in Int \X (1 .. n) |-> x[1] + s[x[2]]]
<1>1. n \in Nat /\ \A i \in 1 .. n : s[i] \in Int
  BY LenProperties, ElementOfSeq
<1>2. step \in Steps(Int, n)
  BY <1>1 DEF Steps
<1> HIDE DEF n
<1>3. PICK f : f \in [0 .. n -> Int] /\ Iterates(f, 0, n, step)
  <2> HIDE DEF step
  <2>1. 0 \in Int
    OBVIOUS
  <2> QED BY <1>1, <1>2, <2>1, Iteration
<1>4. Is(f)
  <2>1. ASSUME NEW i \in 0 .. n PROVE f[i] = IF i = 0 THEN 0 ELSE f[i-1] + s[i]
    <3>1. CASE i = 0
      BY <1>3, <3>1 DEF Iterates
    <3>2. CASE i # 0
      <4>1. i - 1 \in 0 .. n /\ i \in 1 .. n
        BY <1>1, <3>2
      <4>2. f[i-1] \in Int /\ f[i] = step[<<f[i-1], i>>]
        BY <1>3, <3>2, <4>1 DEF Iterates
      <4>3. <<f[i-1], i>> \in Int \X (1 .. n)
        BY <4>1, <4>2
      <4> QED BY <3>2, <4>2, <4>3
    <3> QED BY <3>1, <3>2
  <2> HIDE DEF step
  <2> QED BY <1>3, <2>1
<1> DEFINE g == CHOOSE g : Is(g)
<1>5. Is(g)
  BY <1>4
<1>6. Sums(s) = g
  BY DEF Sums, n
<1> HIDE DEF g
<1>7. /\ DOMAIN g = 0 .. n /\ g[0] = 0
      /\ \A i \in 1 .. n : g[i] = g[i-1] + s[i]
  BY <1>1, <1>5
<1>8. \A i \in 0 .. n : g[i] \in Int
  <2>1. ASSUME NEW i \in 1 .. n, g[i-1] \in Int PROVE g[i] \in Int
    <3>1. s[i] \in Int /\ g[i] = g[i-1] + s[i]
      BY <1>1, <1>7
    <3> QED BY <2>1, <3>1
  <2>2. g[0] \in Int /\ \A i \in 1 .. n : g[i-1] \in Int => g[i] \in Int
    BY <1>7, <2>1
  <2> QED BY <1>1, <2>2, Kept
<1>9. g \in [0 .. n -> Int]
  BY <1>5, <1>8
<1> QED BY <1>6, <1>7, <1>9 DEF n

\* ... and those of naturals grow.
LEMMA SumsGrow ==
    ASSUME NEW s \in Seq(Nat)
    PROVE  /\ Sums(s) \in [0 .. Len(s) -> Nat] /\ Sums(s)[0] = 0
           /\ \A i \in 1 .. Len(s) : Sums(s)[i] = Sums(s)[i-1] + s[i]
           /\ \A i \in 0 .. Len(s) : \A j \in i .. Len(s) : Sums(s)[i] <= Sums(s)[j]
<1> DEFINE n == Len(s)
           g == Sums(s)
<1>1. n \in Nat /\ s \in Seq(Int) /\ \A i \in 1 .. n : s[i] \in Nat
  BY LenProperties, ElementOfSeq, SeqMonotonic
<1>2. /\ g \in [0 .. n -> Int] /\ g[0] = 0
      /\ \A i \in 1 .. n : g[i] = g[i-1] + s[i]
  BY <1>1, SumsProperties
<1> HIDE DEF n, g
<1>3. \A i \in 0 .. n : g[i] \in Nat
  <2>1. ASSUME NEW i \in 1 .. n, g[i-1] \in Nat PROVE g[i] \in Nat
    <3>1. s[i] \in Nat /\ g[i] = g[i-1] + s[i]
      BY <1>1, <1>2
    <3> QED BY <2>1, <3>1
  <2>2. g[0] \in Nat /\ \A i \in 1 .. n : g[i-1] \in Nat => g[i] \in Nat
    BY <1>2, <2>1
  <2> QED BY <1>1, <2>2, Kept
<1>4. ASSUME NEW i \in 0 .. n PROVE \A j \in i .. n : g[i] <= g[j]
  <2> DEFINE good == {j \in 0 .. n : i <= j => g[i] <= g[j]}
  <2>1. 0 \in good
    BY <1>1, <1>3
  <2>2. ASSUME NEW j \in 1 .. n, j - 1 \in good PROVE j \in good
    <3>1. g[j] = g[j-1] + s[j] /\ g[j-1] \in Int /\ g[i] \in Int /\ g[j] \in Int /\ s[j] \in Nat
      BY <1>1, <1>2
    <3>2. i <= j - 1 \/ i = j \/ i > j
      BY <1>1
    <3> QED BY <1>1, <2>2, <3>1, <3>2
  <2> HIDE DEF good
  <2>3. 0 .. n \subseteq good
    BY <1>1, <2>1, <2>2, Reached
  <2> QED BY <2>3, <1>1 DEF good
<1>5. g \in [0 .. n -> Nat]
  BY <1>2, <1>3
<1> QED BY <1>2, <1>4, <1>5 DEF n, g

\* Of parts that lie one behind the other, every place is in one only.
LEMMA PlaceOfPart ==
    ASSUME NEW s \in Seq(Nat \ {0}), NEW k \in 1 .. Sums(s)[Len(s)]
    PROVE  /\ \E i \in 1 .. Len(s) : Sums(s)[i-1] < k /\ k <= Sums(s)[i]
           /\ \A i, j \in 1 .. Len(s) :
                Sums(s)[i-1] < k /\ k <= Sums(s)[i] /\ Sums(s)[j-1] < k /\ k <= Sums(s)[j]
                => i = j
<1> DEFINE n == Len(s)
           g == Sums(s)
<1>1. s \in Seq(Nat) /\ n \in Nat
  BY SeqMonotonic, LenProperties
<1>2. /\ g \in [0 .. n -> Nat] /\ g[0] = 0
      /\ \A i \in 0 .. n : \A j \in i .. n : g[i] <= g[j]
  BY <1>1, SumsGrow
<1>3. k \in Nat \ {0} /\ k <= g[n]
  BY <1>1, <1>2
<1> HIDE DEF n, g
<1>4. \E i \in 1 .. n : g[i-1] < k /\ k <= g[i]
  <2>1. SUFFICES ASSUME \A i \in 1 .. n : ~ (g[i-1] < k /\ k <= g[i]) PROVE FALSE
    OBVIOUS
  <2> DEFINE good == {i \in 0 .. n : g[i] < k}
  <2>2. 0 \in good
    BY <1>1, <1>2, <1>3
  <2>3. ASSUME NEW i \in 1 .. n, i - 1 \in good PROVE i \in good
    <3>1. g[i] \in Nat /\ ~ (k <= g[i])
      BY <1>1, <1>2, <2>1, <2>3
    <3> QED BY <1>1, <1>3, <3>1
  <2> HIDE DEF good
  <2>4. 0 .. n \subseteq good
    BY <1>1, <2>2, <2>3, Reached
  <2>5. n \in good
    BY <1>1, <2>4
  <2> QED BY <1>1, <1>2, <1>3, <2>5 DEF good
<1>5. ASSUME NEW i \in 1 .. n, NEW j \in 1 .. n,
             g[i-1] < k, k <= g[i], g[j-1] < k, k <= g[j], i < j
      PROVE  FALSE
  <2>1. i \in 0 .. n /\ j - 1 \in i .. n /\ j - 1 \in 0 .. n
    BY <1>1, <1>5
  <2>2. g[i] <= g[j-1] /\ g[i] \in Nat /\ g[j-1] \in Nat
    BY <1>2, <2>1
  <2> QED BY <1>3, <1>5, <2>2
<1>6. \A i, j \in 1 .. n : g[i-1] < k /\ k <= g[i] /\ g[j-1] < k /\ k <= g[j] => i = j
  <2>1. TAKE i, j \in 1 .. n
  <2>2. i < j \/ j < i \/ i = j
    BY <1>1
  <2>3. HAVE g[i-1] < k /\ k <= g[i] /\ g[j-1] < k /\ k <= g[j]
  <2> QED BY <1>5, <2>2, <2>3
<1> QED BY <1>4, <1>6, Zenon DEF n, g
-----------------------------------------------------------------------------
(* Numbers and their bytes. *)

\* An integer is the quotient times the divisor and the remainder.
LEMMA Division ==
    ASSUME NEW a \in Int, NEW b \in Nat \ {0}
    PROVE  a \div b \in Int /\ a % b \in 0 .. b - 1 /\ a = b * (a \div b) + (a % b)
<1>1. a \div b \in Int /\ a % b \in 0 .. b - 1
  OBVIOUS
<1>2. a = b * (a \div b) + (a % b)
  OBVIOUS
<1> QED BY <1>1, <1>2

\* A multiple of b does not change the remainder.
LEMMA Remainder ==
    ASSUME NEW q \in Int, NEW b \in Nat \ {0}, NEW r \in 0 .. b - 1
    PROVE  (b * q + r) \div b = q /\ (b * q + r) % b = r
OBVIOUS

\* Dividing twice is dividing by the product.
DividedTwice(a, b, c) == a \div (b * c) = (a \div b) \div c

LEMMA Twice ==
    ASSUME NEW a \in Int, NEW b \in Nat \ {0}, NEW c \in Nat \ {0}
    PROVE  DividedTwice(a, b, c)
<1> DEFINE q == a \div b
           r == a % b
           p == q \div c
           s == q % c
<1>1. q \in Int /\ r \in 0 .. b - 1 /\ a = b * q + r
  BY Division
<1>2. p \in Int /\ s \in 0 .. c - 1 /\ q = c * p + s
  BY <1>1, Division
<1> HIDE DEF q, r, p, s
<1>3. b * c \in Nat \ {0}
  OBVIOUS
<1>4. a = (b * c) * p + (b * s + r)
  <2>1. b * (c * p + s) = (b * c) * p + b * s
    BY <1>2
  <2>2. b * s \in Int /\ (b * c) * p \in Int
    BY <1>2, <1>3
  <2> QED BY <1>1, <1>2, <2>1, <2>2
<1>5. b * s + r \in 0 .. (b * c) - 1
  <2>1. b * s \in Nat /\ b * s <= b * (c - 1) /\ b * (c - 1) = b * c - b
    BY <1>2
  <2> QED BY <1>1, <1>3, <2>1
<1>6. a \div (b * c) = p
  BY <1>2, <1>3, <1>4, <1>5, Remainder
<1> QED BY <1>6 DEF DividedTwice, p, q

\* What a byte of each place counts.
LEMMA Weights ==
    /\ Radix \in Nat \ {0} /\ Radix * Radix \in Nat \ {0}
    /\ Radix * Radix * Radix \in Nat \ {0} /\ Radix * Radix * Radix * Radix \in Nat \ {0}
    /\ Weight[1] = 1 /\ Weight[2] = Radix
    /\ Weight[3] = Radix * Radix /\ Weight[4] = Radix * Radix * Radix
    /\ NumbersOf(1) = Radix /\ NumbersOf(2) = Radix * Radix
    /\ NumbersOf(4) = Radix * Radix * Radix * Radix
<1>1. Radix \in Nat \ {0}
  BY Sizes
<1>2. \A m, n \in Nat \ {0} : m * n \in Nat \ {0} /\ m * n = n * m
  OBVIOUS
<1>3. Weight[1] = 1 /\ Weight[2] = Radix /\ Weight[3] = Radix * Radix
      /\ Weight[4] = Radix * Radix * Radix
  BY DEF Weight
<1>4. Radix * Radix \in Nat \ {0}
  BY <1>1, <1>2
<1>5. Radix * Radix * Radix \in Nat \ {0}
  BY <1>1, <1>2, <1>4
<1>6. Radix * (Radix * Radix * Radix) = Radix * Radix * Radix * Radix
      /\ Radix * Radix * Radix * Radix \in Nat \ {0}
  BY <1>1, <1>2, <1>5
<1>7. Radix * 1 = Radix
  BY <1>1
<1> QED BY <1>1, <1>3, <1>4, <1>5, <1>6, <1>7 DEF NumbersOf

\* The sums of up to four numbers.
LEMMA FewSummands ==
    ASSUME NEW s \in Seq(Int)
    PROVE  /\ Len(s) = 1 => Sums(s)[Len(s)] = s[1]
           /\ Len(s) = 2 => Sums(s)[Len(s)] = s[1] + s[2]
           /\ Len(s) = 4 => Sums(s)[Len(s)] = s[1] + s[2] + s[3] + s[4]
<1> DEFINE g == Sums(s)
<1>1. /\ g[0] = 0 /\ \A i \in 1 .. Len(s) : g[i] = g[i-1] + s[i]
      /\ \A i \in 1 .. Len(s) : s[i] \in Int
  BY SumsProperties, ElementOfSeq
<1> HIDE DEF g
<1>2. CASE Len(s) = 1
  BY <1>1, <1>2 DEF g
<1>3. CASE Len(s) = 2
  BY <1>1, <1>3 DEF g
<1>4. CASE Len(s) = 4
  <2>1. 1 \in 1 .. 4 /\ 2 \in 1 .. 4 /\ 3 \in 1 .. 4 /\ 4 \in 1 .. 4
    OBVIOUS
  <2>2. g[1] = g[0] + s[1] /\ g[2] = g[1] + s[2] /\ g[3] = g[2] + s[3] /\ g[4] = g[3] + s[4]
    BY <1>1, <1>4, <2>1
  <2> QED BY <1>1, <1>4, <2>1, <2>2 DEF g
<1> QED BY <1>2, <1>3, <1>4

Widths == {1, 2, 4}

\* The number of one, two and four bytes.
LEMMA NumberOfBytes ==
    ASSUME NEW w \in Widths, NEW bytes \in Bytes(w)
    PROVE  /\ w = 1 => LittleEndian(bytes) = bytes[1]
           /\ w = 2 => LittleEndian(bytes) = bytes[1] + bytes[2] * Radix
           /\ w = 4 => LittleEndian(bytes) = bytes[1] + bytes[2] * Radix
                                              + bytes[3] * (Radix * Radix)
                                              + bytes[4] * (Radix * Radix * Radix)
<1> DEFINE s == [i \in DOMAIN bytes |-> bytes[i] * Weight[i]]
<1>1. w \in Nat /\ DOMAIN bytes = 1 .. w /\ \A i \in 1 .. w : bytes[i] \in Int
  BY Sizes DEF Bytes, Byte, Widths
<1>2. \A i \in 1 .. w : Weight[i] \in Int
  <2>1. TAKE i \in 1 .. w
  <2>2. i \in {1, 2, 3, 4}
    BY DEF Widths
  <2> QED BY <2>2, Weights
<1>3. \A i \in 1 .. w : bytes[i] * Weight[i] \in Int
  BY <1>1, <1>2
<1>4. s \in [1 .. w -> Int] /\ s \in Seq(Int) /\ Len(s) = w /\ Len(bytes) = w
  <2>1. s \in [1 .. w -> Int]
    BY <1>1, <1>3
  <2>2. bytes \in [1 .. w -> Int]
    BY <1>1 DEF Bytes
  <2> HIDE DEF s
  <2> QED BY <1>1, <2>1, <2>2, OfLength
<1>5. \A i \in 1 .. w : s[i] = bytes[i] * Weight[i]
  BY <1>1
<1>6. LittleEndian(bytes) = Sums(s)[Len(s)]
  BY <1>4 DEF LittleEndian
<1> HIDE DEF s
<1>7. CASE w = 1
  <2>1. s[1] = bytes[1] /\ 1 \in 1 .. w
    BY <1>1, <1>5, <1>7, Weights
  <2>2. LittleEndian(bytes) = s[1]
    BY <1>4, <1>6, <1>7, FewSummands
  <2> QED BY <1>7, <2>1, <2>2
<1>8. CASE w = 2
  <2>1. s[1] = bytes[1] /\ s[2] = bytes[2] * Radix
    BY <1>1, <1>5, <1>8, Weights
  <2>2. LittleEndian(bytes) = s[1] + s[2]
    BY <1>4, <1>6, <1>8, FewSummands
  <2> QED BY <1>8, <2>1, <2>2
<1>9. CASE w = 4
  <2>1. /\ s[1] = bytes[1] /\ s[2] = bytes[2] * Radix /\ s[3] = bytes[3] * (Radix * Radix)
        /\ s[4] = bytes[4] * (Radix * Radix * Radix)
    BY <1>1, <1>5, <1>9, Weights
  <2>2. LittleEndian(bytes) = s[1] + s[2] + s[3] + s[4]
    BY <1>4, <1>6, <1>9, FewSummands
  <2> QED BY <1>9, <2>1, <2>2
<1> QED BY <1>7, <1>8, <1>9

\* The bytes of a number taken w bytes wide hold it.
LEMMA IntBytesHold ==
    ASSUME NEW w \in Widths, NEW n \in Int
    PROVE  IntBytes(n, w) \in Bytes(w) /\ IsNumberIn(IntBytes(n, w), n, w)
<1> DEFINE b == IntBytes(n, w)
           q == n \div Radix
           q2 == q \div Radix
           q3 == q2 \div Radix
           q4 == q3 \div Radix
<1>1. /\ Radix \in Nat \ {0} /\ Radix * Radix \in Nat \ {0} /\ Radix * Radix * Radix \in Nat \ {0}
      /\ w \in Nat
  BY Weights DEF Widths
<1>2. /\ q \in Int /\ n % Radix \in Byte /\ n = Radix * q + (n % Radix)
      /\ q2 \in Int /\ q % Radix \in Byte /\ q = Radix * q2 + (q % Radix)
      /\ q3 \in Int /\ q2 % Radix \in Byte /\ q2 = Radix * q3 + (q2 % Radix)
      /\ q4 \in Int /\ q3 % Radix \in Byte /\ q3 = Radix * q4 + (q3 % Radix)
  <2>1. q \in Int /\ n % Radix \in Byte /\ n = Radix * q + (n % Radix)
    BY <1>1, Division DEF Byte
  <2>2. q2 \in Int /\ q % Radix \in Byte /\ q = Radix * q2 + (q % Radix)
    BY <1>1, <2>1, Division DEF Byte
  <2>3. q3 \in Int /\ q2 % Radix \in Byte /\ q2 = Radix * q3 + (q2 % Radix)
    BY <1>1, <2>2, Division DEF Byte
  <2>4. q4 \in Int /\ q3 % Radix \in Byte /\ q3 = Radix * q4 + (q3 % Radix)
    BY <1>1, <2>3, Division DEF Byte
  <2> QED BY <2>1, <2>2, <2>3, <2>4
<1>3. n \div 1 = n /\ n \div (Radix * Radix) = q2 /\ n \div (Radix * Radix * Radix) = q3
  <2>1. n \div (Radix * Radix) = q2
    <3>1. DividedTwice(n, Radix, Radix)
      BY <1>1, Twice
    <3> QED BY <3>1 DEF DividedTwice
  <2> DEFINE h == Radix * Radix
  <2>2. n \div (h * Radix) = (n \div h) \div Radix
    <3>1. h \in Nat \ {0}
      BY <1>1
    <3> HIDE DEF h
    <3>2. Radix \in Nat \ {0}
      BY <1>1
    <3>3. DividedTwice(n, h, Radix)
      BY <1>1, <3>1, <3>2, Twice
    <3> QED BY <3>3 DEF DividedTwice
  <2> QED BY <2>1, <2>2
<1> HIDE DEF q, q2, q3, q4
<1>4. /\ b \in Bytes(w) /\ b[1] = n % Radix
      /\ w \in {2, 4} => b[2] = q % Radix
      /\ w = 4 => b[3] = q2 % Radix /\ b[4] = q3 % Radix
  <2>1. \A i \in 1 .. w : (n \div Weight[i]) % Radix \in Byte
    <3>1. TAKE i \in 1 .. w
    <3>2. i \in {1, 2, 3, 4}
      BY DEF Widths
    <3>3. n \div Weight[i] \in {n, q, q2, q3}
      BY <1>3, <3>2, Weights DEF q
    <3> QED BY <1>2, <3>3
  <2>2. b \in Bytes(w) /\ \A i \in 1 .. w : b[i] = (n \div Weight[i]) % Radix
    BY <2>1 DEF IntBytes, Bytes
  <2>3. 1 \in 1 .. w /\ (w \in {2, 4} => 2 \in 1 .. w) /\ (w = 4 => 3 \in 1 .. w /\ 4 \in 1 .. w)
    BY DEF Widths
  <2> HIDE DEF b
  <2>4. b[1] = n % Radix
    BY <1>3, <2>2, <2>3, Weights
  <2>5. w \in {2, 4} => b[2] = q % Radix
    BY <2>2, <2>3, Weights DEF q
  <2>6. w = 4 => b[3] = q2 % Radix /\ b[4] = q3 % Radix
    BY <1>3, <2>2, <2>3, Weights
  <2> QED BY <2>2, <2>4, <2>5, <2>6
<1> HIDE DEF b
\* What is lost is a multiple of the numbers of w bytes.
<1>5. \E k \in Int : LittleEndian(b) - n = NumbersOf(w) * k
  <2>1. CASE w = 1
    <3>1. LittleEndian(b) - n = Radix * (-q)
      <4> DEFINE r0 == n % Radix
      <4>1. LittleEndian(b) = r0
        BY <1>4, <2>1, NumberOfBytes
      <4>2. r0 \in Int /\ n = Radix * q + r0
        BY <1>1, <1>2 DEF Byte
      <4> HIDE DEF r0
      <4> QED BY <1>1, <1>2, <4>1, <4>2
    <3>2. -q \in Int /\ NumbersOf(w) = Radix
      BY <1>2, <2>1, Weights
    <3> QED BY <3>1, <3>2
  <2>2. CASE w = 2
    <3>1. LittleEndian(b) - n = (Radix * Radix) * (-q2)
      <4> DEFINE r0 == n % Radix
                 r1 == q % Radix
      <4>1. LittleEndian(b) = r0 + r1 * Radix
        BY <1>4, <2>2, NumberOfBytes
      <4>2. r0 \in Int /\ r1 \in Int
        BY <1>1, <1>2 DEF Byte
      <4>3. n = Radix * (Radix * q2 + r1) + r0
        BY <1>2
      <4> HIDE DEF r0, r1
      <4> QED BY <1>1, <1>2, <4>1, <4>2, <4>3
    <3>2. -q2 \in Int /\ NumbersOf(w) = Radix * Radix
      BY <1>2, <2>2, Weights
    <3> QED BY <3>1, <3>2
  <2>3. CASE w = 4
    <3>1. LittleEndian(b) - n = (Radix * Radix * Radix * Radix) * (-q4)
      <4> DEFINE r0 == n % Radix
                 r1 == q % Radix
                 r2 == q2 % Radix
                 r3 == q3 % Radix
      <4>1. LittleEndian(b) = r0 + r1 * Radix + r2 * (Radix * Radix)
                               + r3 * (Radix * Radix * Radix)
        BY <1>4, <2>3, NumberOfBytes
      <4>2. r0 \in Int /\ r1 \in Int /\ r2 \in Int /\ r3 \in Int
        BY <1>1, <1>2 DEF Byte
      <4>3. n = Radix * (Radix * (Radix * (Radix * q4 + r3) + r2) + r1) + r0
        BY <1>2
      <4> HIDE DEF r0, r1, r2, r3
      <4> QED BY <1>1, <1>2, <4>1, <4>2, <4>3
    <3>2. -q4 \in Int /\ NumbersOf(w) = Radix * Radix * Radix * Radix
      BY <1>2, <2>3, Weights
    <3> QED BY <3>1, <3>2
  <2> QED BY <2>1, <2>2, <2>3 DEF Widths
<1>6. (LittleEndian(b) - n) % NumbersOf(w) = 0
  <2>1. NumbersOf(w) \in Nat \ {0}
    BY Weights DEF Widths
  <2>2. PICK k \in Int : LittleEndian(b) - n = NumbersOf(w) * k
    BY <1>5
  <2>3. NumbersOf(w) * k = NumbersOf(w) * k + 0 /\ 0 \in 0 .. NumbersOf(w) - 1
    BY <2>1
  <2> QED BY <2>1, <2>2, <2>3, Remainder
<1> QED BY <1>4, <1>6 DEF IsNumberIn, b

\* Every number of w bytes is below NumbersOf(w) ...
LEMMA UnsignedRange ==
    ASSUME NEW w \in Widths, NEW bytes \in Bytes(w)
    PROVE  LittleEndian(bytes) \in 0 .. NumbersOf(w) - 1
<1>1. /\ Radix \in Nat \ {0} /\ Radix * Radix \in Nat \ {0} /\ Radix * Radix * Radix \in Nat \ {0}
      /\ Radix * Radix * Radix * Radix \in Nat \ {0}
  BY Weights
<1>2. \A i \in 1 .. w : bytes[i] \in Nat /\ bytes[i] <= Radix - 1
  BY <1>1 DEF Bytes, Byte, Widths
<1>3. ASSUME NEW p \in Nat \ {0}, NEW x \in Nat, x <= p - 1, NEW d \in Nat, d <= Radix - 1
      PROVE  x + d * p \in Nat /\ x + d * p <= Radix * p - 1
  <2>1. d * p \in Nat /\ d * p <= (Radix - 1) * p
    BY <1>1, <1>3
  <2>2. (Radix - 1) * p = Radix * p - p /\ Radix * p \in Nat
    BY <1>1
  <2> QED BY <1>3, <2>1, <2>2
<1>4. CASE w = 1
  BY <1>1, <1>2, <1>4, NumberOfBytes, Weights
<1>5. CASE w = 2
  <2>1. LittleEndian(bytes) = bytes[1] + bytes[2] * Radix /\ NumbersOf(w) = Radix * Radix
    BY <1>5, NumberOfBytes, Weights
  <2>2. /\ bytes[1] \in Nat /\ bytes[1] <= Radix - 1 /\ bytes[2] \in Nat
        /\ bytes[2] <= Radix - 1
    BY <1>2, <1>5
  <2> QED BY <1>1, <1>3, <2>1, <2>2
<1>6. CASE w = 4
  <2> DEFINE R2 == Radix * Radix
             R3 == Radix * Radix * Radix
             R4 == Radix * Radix * Radix * Radix
             x2 == bytes[1] + bytes[2] * Radix
             x3 == x2 + bytes[3] * R2
             x4 == x3 + bytes[4] * R3
  <2>1. LittleEndian(bytes) = x4 /\ NumbersOf(w) = R4
    BY <1>6, NumberOfBytes, Weights
  <2>2. /\ R2 \in Nat \ {0} /\ R3 \in Nat \ {0} /\ R4 \in Nat \ {0}
        /\ Radix * Radix = R2 /\ Radix * R2 = R3 /\ Radix * R3 = R4
    BY <1>1
  <2>3. /\ bytes[1] \in Nat /\ bytes[1] <= Radix - 1 /\ bytes[2] \in Nat
        /\ bytes[2] <= Radix - 1 /\ bytes[3] \in Nat /\ bytes[3] <= Radix - 1
        /\ bytes[4] \in Nat /\ bytes[4] <= Radix - 1
    BY <1>2, <1>6
  <2>4. x2 \in Nat /\ x2 <= Radix * Radix - 1
    BY <1>1, <1>3, <2>3
  <2> HIDE DEF R2, x2
  <2>5. x3 \in Nat /\ x3 <= Radix * R2 - 1
    BY <1>3, <2>2, <2>3, <2>4
  <2> HIDE DEF R3, x3
  <2>6. x4 \in Nat /\ x4 <= Radix * R3 - 1
    BY <1>3, <2>2, <2>3, <2>5
  <2> HIDE DEF x4, R4
  <2> QED BY <2>1, <2>2, <2>6
<1> QED BY <1>4, <1>5, <1>6 DEF Widths

\* A number that an item of base may be read as.
InRange(base, n) ==
    LET range == NumbersOf(Width[base]) IN
    IF base \in Signed THEN n \in -(range \div 2) .. (range \div 2) - 1 ELSE n \in 0 .. range - 1

Bases == DOMAIN Width \ {"STR"}

\* ... and what is read from bytes is in the range of the type and held by them.
LEMMA FromBytesHeld ==
    ASSUME NEW base \in Bases, NEW bytes \in Bytes(Width[base])
    PROVE  LET n == FromBytes(bytes, base) IN
           n \in Int /\ InRange(base, n) /\ IsNumberIn(bytes, n, Width[base])
<1> DEFINE w == Width[base]
           m == LittleEndian(bytes)
           range == NumbersOf(w)
           n == FromBytes(bytes, base)
<1>1. w \in Widths
  BY DEF Bases, Width, Widths
<1>2. range \in Nat \ {0} /\ range = 2 * (range \div 2)
  <2>1. PICK k \in Nat : range = Radix * k
    <3>1. Weight[w] \in Nat
      BY <1>1, Weights DEF Widths
    <3> QED BY <3>1 DEF NumbersOf
  <2>2. PICK h \in Nat : Radix = 2 * h
    BY Sizes
  <2>3. range = 2 * (h * k) /\ h * k \in Nat
    BY <2>1, <2>2
  <2>4. range \in Nat \ {0}
    BY <1>1, Weights DEF Widths
  <2> HIDE DEF range
  <2> DEFINE c == h * k
  <2>5. c \in Nat /\ range = 2 * c
    BY <2>3
  <2> HIDE DEF c
  <2> QED BY <2>4, <2>5
<1>3. m \in 0 .. range - 1
  BY <1>1, UnsignedRange
<1>4. n = IF base \in Signed /\ 2 * m >= range THEN m - range ELSE m
  BY DEF FromBytes
<1> HIDE DEF m, range, n, w
<1>5. n \in Int /\ (base \in Signed => n \in -(range \div 2) .. (range \div 2) - 1)
      /\ (base \notin Signed => n \in 0 .. range - 1)
  <2> DEFINE half == range \div 2
  <2>1. half \in Nat /\ range = 2 * half
    BY <1>2
  <2> HIDE DEF half
  <2>2. n \in Int /\ (base \in Signed => n \in -half .. half - 1)
        /\ (base \notin Signed => n \in 0 .. range - 1)
    BY <1>2, <1>3, <1>4, <2>1
  <2> QED BY <2>2 DEF half
<1>6. (m - n) % range = 0
  <2>1. m - n = range * 0 + 0 \/ m - n = range * 1 + 0
    BY <1>2, <1>3, <1>4
  <2>2. 0 \in 0 .. range - 1
    BY <1>2
  <2> QED BY <1>2, <2>1, <2>2, Remainder
<1> QED BY <1>5, <1>6 DEF IsNumberIn, InRange, m, n, w, range
-----------------------------------------------------------------------------
(* Bytes that are replaced, and areas of bytes. *)

\* The n bytes from at on.
Area(raw, at, n) == SubSeq(raw, at, at + n - 1)

Spliced(raw, at, bytes) ==
    SubSeq(raw, 1, at - 1) \o bytes \o SubSeq(raw, at + Len(bytes), Len(raw))

\* As long as raw, and the same but for the n bytes from at on.
SameOutside(b, raw, at, n) ==
    /\ b \in Seq(Byte) /\ Len(b) = Len(raw)
    /\ \A i \in 1 .. Len(raw) : i < at \/ i >= at + n => b[i] = raw[i]

\* An area of bytes has them.
LEMMA AreaIs ==
    ASSUME NEW raw \in Seq(Byte), NEW at \in Nat \ {0}, NEW n \in Nat, at + n <= Len(raw) + 1
    PROVE  /\ Area(raw, at, n) \in Bytes(n) /\ Area(raw, at, n) \in Seq(Byte)
           /\ Len(Area(raw, at, n)) = n
           /\ \A i \in 1 .. n : Area(raw, at, n)[i] = raw[at+i-1]
<1> DEFINE a == Area(raw, at, n)
<1>1. Len(raw) \in Nat /\ \A i \in 1 .. Len(raw) : raw[i] \in Byte
  BY LenProperties, ElementOfSeq
<1>2. \A i \in at .. at + n - 1 : raw[i] \in Byte
  BY <1>1
<1>3. /\ a \in Seq(Byte)
      /\ Len(a) = IF at <= at + n - 1 THEN (at + n - 1) - at + 1 ELSE 0
      /\ \A i \in 1 .. (at + n - 1) - at + 1 : a[i] = raw[at+i-1]
  <2> DEFINE last == at + n - 1
  <2>1. at \in Int /\ last \in Int /\ \A i \in at .. last : raw[i] \in Byte
    BY <1>2
  <2> HIDE DEF last
  <2>2. /\ SubSeq(raw, at, last) \in Seq(Byte)
        /\ Len(SubSeq(raw, at, last)) = IF at <= last THEN last - at + 1 ELSE 0
        /\ \A i \in 1 .. last - at + 1 : SubSeq(raw, at, last)[i] = raw[at+i-1]
    BY <2>1, SubSeqProperties, SMTT(30)
  <2> QED BY <2>2 DEF Area, last
<1> HIDE DEF a
<1>4. Len(a) = n /\ \A i \in 1 .. n : a[i] = raw[at+i-1]
  BY <1>3
<1>5. a \in [1 .. n -> Byte]
  BY <1>3, <1>4, LenProperties
<1> QED BY <1>3, <1>4, <1>5 DEF a, Bytes

\* What replaces bytes is there, and the rest is as it was.
LEMMA SplicedIs ==
    ASSUME NEW raw \in Seq(Byte), NEW at \in Nat \ {0}, NEW bytes \in Seq(Byte),
           at + Len(bytes) <= Len(raw) + 1
    PROVE  /\ SameOutside(Spliced(raw, at, bytes), raw, at, Len(bytes))
           /\ Area(Spliced(raw, at, bytes), at, Len(bytes)) = bytes
<1> DEFINE n == Len(bytes)
           front == SubSeq(raw, 1, at - 1)
           rest == SubSeq(raw, at + n, Len(raw))
           b == Spliced(raw, at, bytes)
<1>1. /\ Len(raw) \in Nat /\ n \in Nat /\ \A i \in 1 .. Len(raw) : raw[i] \in Byte
      /\ \A i \in 1 .. n : bytes[i] \in Byte
  BY LenProperties, ElementOfSeq
<1>2. /\ front \in Seq(Byte) /\ Len(front) = at - 1 /\ \A i \in 1 .. at - 1 : front[i] = raw[i]
  <2>1. \A i \in 1 .. at - 1 : raw[i] \in Byte
    BY <1>1
  <2>2. 1 \in Int /\ at - 1 \in Int
    OBVIOUS
  <2> HIDE DEF n
  <2>3. /\ front \in Seq(Byte) /\ Len(front) = IF 1 <= at - 1 THEN (at - 1) - 1 + 1 ELSE 0
        /\ \A i \in 1 .. (at - 1) - 1 + 1 : front[i] = raw[1+i-1]
    BY <2>1, <2>2, SubSeqProperties
  <2> HIDE DEF front
  <2> QED BY <2>3
<1>3. /\ rest \in Seq(Byte) /\ Len(rest) = Len(raw) - at - n + 1
      /\ \A i \in 1 .. Len(raw) - at - n + 1 : rest[i] = raw[at+n+i-1]
  <2>1. \A i \in at + n .. Len(raw) : raw[i] \in Byte
    BY <1>1
  <2>2. at + n \in Int /\ Len(raw) \in Int
    BY <1>1
  <2>3. /\ rest \in Seq(Byte)
        /\ Len(rest) = IF at + n <= Len(raw) THEN Len(raw) - (at + n) + 1 ELSE 0
        /\ \A i \in 1 .. Len(raw) - (at + n) + 1 : rest[i] = raw[(at+n)+i-1]
    <3> HIDE DEF n
    <3> QED BY <2>1, <2>2, SubSeqProperties
  <2> HIDE DEF rest
  <2> QED BY <1>1, <2>3
<1> HIDE DEF front, rest
<1> DEFINE c == front \o bytes
<1>4. /\ c \in Seq(Byte) /\ Len(c) = at - 1 + n
      /\ \A i \in 1 .. at - 1 + n : c[i] = IF i <= at - 1 THEN front[i] ELSE bytes[i-(at-1)]
  BY <1>2, ConcatProperties
<1> HIDE DEF c
<1>5. /\ c \o rest \in Seq(Byte) /\ Len(c \o rest) = Len(raw)
      /\ \A i \in 1 .. Len(raw) :
           (c \o rest)[i] = IF i <= at - 1 + n THEN c[i] ELSE rest[i-(at-1+n)]
  <2>1. /\ c \o rest \in Seq(Byte) /\ Len(c \o rest) = Len(c) + Len(rest)
        /\ \A i \in 1 .. Len(c) + Len(rest) :
             (c \o rest)[i] = IF i <= Len(c) THEN c[i] ELSE rest[i-Len(c)]
    BY <1>3, <1>4, ConcatProperties
  <2>2. Len(c) + Len(rest) = Len(raw)
    BY <1>1, <1>3, <1>4
  <2> QED BY <1>4, <2>1, <2>2
<1>6. b = c \o rest
  BY DEF Spliced, c, front, rest
<1> HIDE DEF b
<1>7. \A i \in 1 .. Len(raw) :
        b[i] = IF i <= at - 1 THEN raw[i] ELSE IF i <= at - 1 + n THEN bytes[i-(at-1)] ELSE raw[i]
  <2>1. TAKE i \in 1 .. Len(raw)
  <2>2. CASE i <= at - 1 + n
    BY <1>1, <1>2, <1>4, <1>5, <1>6, <2>2
  <2>3. CASE ~ (i <= at - 1 + n)
    <3>1. i - (at - 1 + n) \in 1 .. Len(raw) - at - n + 1 /\ at + n + (i - (at - 1 + n)) - 1 = i
      BY <1>1, <2>3
    <3>2. rest[i-(at-1+n)] = raw[i]
      BY <1>3, <3>1
    <3> QED BY <1>1, <1>5, <1>6, <2>3, <3>2
  <2> QED BY <2>2, <2>3
<1>8. SameOutside(b, raw, at, n)
  BY <1>1, <1>5, <1>6, <1>7 DEF SameOutside
<1>9. Area(b, at, n) = bytes
  <2>1. /\ Area(b, at, n) \in Seq(Byte) /\ Len(Area(b, at, n)) = n
        /\ \A i \in 1 .. n : Area(b, at, n)[i] = b[at+i-1]
    <3>1. b \in Seq(Byte) /\ at + n <= Len(b) + 1 /\ n \in Nat
      BY <1>1, <1>5, <1>6
    <3> HIDE DEF n
    <3> QED BY <3>1, AreaIs
  <2>2. \A i \in 1 .. n : b[at+i-1] = bytes[i]
    <3> TAKE i \in 1 .. n
    <3> DEFINE k == at + i - 1
    <3>1. /\ k \in 1 .. Len(raw) /\ ~ (k <= at - 1) /\ k <= at - 1 + n /\ k - (at - 1) = i
      BY <1>1
    <3> HIDE DEF k
    <3>2. b[k] = bytes[k-(at-1)]
      BY <1>7, <3>1
    <3> QED BY <3>1, <3>2 DEF k
  <2> HIDE DEF n
  <2> QED BY <2>1, <2>2, SeqEqual DEF n
<1> QED BY <1>8, <1>9 DEF b, n

\* Areas beside the one that was replaced keep their bytes.
LEMMA AreaKept ==
    ASSUME NEW raw \in Seq(Byte), NEW b, NEW at \in Nat \ {0}, NEW n \in Nat,
           SameOutside(b, raw, at, n),
           NEW a \in Nat \ {0}, NEW m \in Nat, a + m <= Len(raw) + 1, a + m <= at \/ at + n <= a
    PROVE  Area(b, a, m) = Area(raw, a, m)
<1>1. Len(raw) \in Nat /\ b \in Seq(Byte) /\ Len(b) = Len(raw)
  BY LenProperties DEF SameOutside
<1>2. /\ Area(b, a, m) \in Seq(Byte) /\ Len(Area(b, a, m)) = m
      /\ \A i \in 1 .. m : Area(b, a, m)[i] = b[a+i-1]
  BY <1>1, AreaIs, ZenonT(30)
<1>3. /\ Area(raw, a, m) \in Seq(Byte) /\ Len(Area(raw, a, m)) = m
      /\ \A i \in 1 .. m : Area(raw, a, m)[i] = raw[a+i-1]
  BY AreaIs
<1>4. \A i \in 1 .. m : b[a+i-1] = raw[a+i-1]
  <2>1. TAKE i \in 1 .. m
  <2>2. a + i - 1 \in 1 .. Len(raw) /\ (a + i - 1 < at \/ a + i - 1 >= at + n)
    BY <1>1
  <2> QED BY <2>2 DEF SameOutside
<1> QED BY <1>2, <1>3, <1>4, SeqEqual

\* Replacing one area and then the next is replacing both.
LEMMA SameOutsideBoth ==
    ASSUME NEW raw \in Seq(Byte), NEW b, NEW c, NEW at \in Nat \ {0}, NEW n \in Nat, NEW m \in Nat,
           SameOutside(b, raw, at, n), SameOutside(c, b, at + n, m)
    PROVE  SameOutside(c, raw, at, n + m)
<1>1. Len(raw) \in Nat
  BY LenProperties
<1>2. ASSUME NEW i \in 1 .. Len(raw), i < at \/ i >= at + (n + m) PROVE c[i] = raw[i]
  <2>1. (i < at \/ i >= at + n) /\ (i < at + n \/ i >= (at + n) + m)
    BY <1>1, <1>2
  <2> QED BY <2>1 DEF SameOutside
<1> QED BY <1>2 DEF SameOutside
-----------------------------------------------------------------------------
(* Integers and arrays are packed. *)

\* A state of the machine without an exception.
St(type, value, field, index, raw, next) ==
    [type |-> type, value |-> value, field |-> field, index |-> index, raw |-> raw,
     next |-> next, exception |-> "NONE"]

Failed(vm) == vm.exception # "NONE"

\* Every base type of numbers has a width.
LEMMA WidthOf ==
    ASSUME NEW base \in Bases
    PROVE  Width[base] \in Widths /\ Width[base] \in Nat \ {0}
BY DEF Bases, Width, Widths

\* What a state's parts are; an exception makes it fail.
LEMMA Parts ==
    ASSUME NEW type, NEW value, NEW field, NEW index, NEW raw, NEW next
    PROVE  LET st == St(type, value, field, index, raw, next) IN
           /\ st.type = type /\ st.value = value /\ st.field = field /\ st.index = index
           /\ st.raw = raw /\ st.next = next /\ st.exception = "NONE" /\ ~ Failed(st)
           /\ \A x : x # "NONE" => Failed(Raise(st, x))
BY DEF St, Failed, Raise

\* WriteBytes changes the bytes and moves on.
LEMMA WriteBytesState ==
    ASSUME NEW type, NEW value, NEW field, NEW index, NEW raw, NEW next, NEW bytes
    PROVE  WriteBytes(St(type, value, field, index, raw, next), bytes)
             = St(type, value, field, index, Spliced(raw, next, bytes), next + Len(bytes))
<1> DEFINE st == St(type, value, field, index, raw, next)
           more == next + Len(bytes)
           b == SubSeq(raw, 1, next - 1) \o bytes \o SubSeq(raw, more, Len(raw))
<1>1. WriteBytes(st, bytes) = [st EXCEPT !.raw = b, !.next = more]
  BY DEF WriteBytes, St
<1>2. [st EXCEPT !.raw = b, !.next = more] = St(type, value, field, index, b, more)
  <2> HIDE DEF b, more
  <2>1. [st EXCEPT !.raw = b, !.next = more] = [[st EXCEPT !.raw = b] EXCEPT !.next = more]
    BY DEF St
  <2>2. [st EXCEPT !.raw = b] = St(type, value, field, index, b, next)
    BY DEF St
  <2>3. [St(type, value, field, index, b, next) EXCEPT !.next = more]
          = St(type, value, field, index, b, more)
    BY DEF St
  <2> QED BY <2>1, <2>2, <2>3
<1> QED BY <1>1, <1>2 DEF Spliced

\* The n bytes from at on are new, and hold the number x.
NumberPut(b, raw, at, x, w) ==
    SameOutside(b, raw, at, w) /\ IsNumberIn(Area(b, at, w), x, w)

\* A number is put into the next bytes, and nothing else is packed as one.
LEMMA PackNumberStep ==
    ASSUME NEW type, NEW value, NEW field, NEW index, NEW raw \in Seq(Byte),
           NEW next \in Nat \ {0}, NEW base \in Bases, next + Width[base] <= Len(raw) + 1,
           NEW x, IsScalar(x)
    PROVE  LET vm == PackNumber(St(type, value, field, index, raw, next), base, x)
               w == Width[base]
           IN  IF IsNumber(x)
               THEN \E b : /\ NumberPut(b, raw, next, x.n, w)
                           /\ vm = St(type, value, field, index, b, next + w)
               ELSE Failed(vm)
<1> DEFINE st == St(type, value, field, index, raw, next)
           w == Width[base]
<1>1. w \in Widths /\ w \in Nat
  BY WidthOf
<1>2. Has(st, w)
  BY DEF Has, St
<1>3. CASE ~ IsNumber(x)
  BY <1>3 DEF PackNumber, Raise, St, Failed
<1>4. CASE IsNumber(x)
  <2> DEFINE new == IntBytes(x.n, w)
             b == Spliced(raw, next, new)
  <2>1. x.n \in Int
    BY <1>4 DEF IsScalar, IsNumber
  <2>2. new \in Bytes(w) /\ IsNumberIn(new, x.n, w)
    BY <1>1, <2>1, IntBytesHold
  <2>3. new \in Seq(Byte) /\ Len(new) = w
    BY <1>1, <2>2, OfLength DEF Bytes
  <2>4. PackNumber(st, base, x) = WriteBytes(st, new)
    BY <1>2, <1>4 DEF PackNumber
  <2> HIDE DEF new
  <2>5. WriteBytes(st, new) = St(type, value, field, index, b, next + w)
    <3>1. WriteBytes(st, new) = St(type, value, field, index, b, next + Len(new))
      BY WriteBytesState
    <3> QED BY <2>3, <3>1
  <2>6. SameOutside(b, raw, next, w) /\ Area(b, next, w) = new
    <3>1. next + Len(new) <= Len(raw) + 1
      BY <2>3
    <3> QED BY <2>3, <3>1, SplicedIs
  <2>7. NumberPut(b, raw, next, x.n, w)
    BY <2>2, <2>6 DEF NumberPut
  <2> QED BY <1>4, <2>4, <2>5, <2>7
<1> QED BY <1>3, <1>4

\* The loop over the items of an array goes as its definition says.
LEMMA ItemStatesDef ==
    ASSUME NEW dir, NEW vm, NEW base, NEW n \in Nat
    PROVE  LET g == ItemStates(dir, vm, base, n) IN
           /\ g[0] = vm
           /\ \A i \in 1 .. n :
                g[i] = IF Failed(g[i-1]) THEN g[i-1]
                       ELSE IF dir = "PACK" THEN PackInteger([g[i-1] EXCEPT !.index = i], base)
                       ELSE UnpackInteger([g[i-1] EXCEPT !.index = i], base)
<1> DEFINE Step(m, i) == IF m.exception # "NONE" THEN m
                         ELSE IF dir = "PACK" THEN PackInteger([m EXCEPT !.index = i], base)
                         ELSE UnpackInteger([m EXCEPT !.index = i], base)
           Is(f, k) == f = [i \in 0 .. k |-> IF i = 0 THEN vm ELSE Step(f[i-1], i)]
           good == {k \in 0 .. n : \E f : Is(f, k)}
<1>0. ItemStates(dir, vm, base, n) = CHOOSE f : Is(f, n)
  BY DEF ItemStates
<1>s. \A m, i : Step(m, i) = IF Failed(m) THEN m
                         ELSE IF dir = "PACK" THEN PackInteger([m EXCEPT !.index = i], base)
                         ELSE UnpackInteger([m EXCEPT !.index = i], base)
  BY DEF Failed
<1> HIDE DEF Step
<1>1. 0 \in good
  <2> DEFINE f == [i \in 0 .. 0 |-> vm]
  <2>1. \A i \in 0 .. 0 : i = 0
    OBVIOUS
  <2>2. Is(f, 0)
    BY <2>1
  <2> HIDE DEF f
  <2> QED BY <2>2
<1>2. ASSUME NEW k \in 1 .. n, k - 1 \in good PROVE k \in good
  <2>1. PICK g : Is(g, k - 1)
    BY <1>2
  <2> DEFINE f == [i \in 0 .. k |-> IF i = k THEN Step(g[k-1], k) ELSE g[i]]
  <2>2. ASSUME NEW i \in 0 .. k PROVE f[i] = IF i = 0 THEN vm ELSE Step(f[i-1], i)
    <3>1. CASE i = k
      <4>1. f[i] = Step(g[k-1], k) /\ f[k-1] = g[k-1]
        BY <3>1
      <4> QED BY <3>1, <4>1
    <3>2. CASE i # k /\ i # 0
      <4>1. i \in 0 .. k - 1 /\ i - 1 \in 0 .. k /\ i - 1 # k
        BY <3>2
      <4>2. f[i] = g[i] /\ f[i-1] = g[i-1]
        BY <3>2, <4>1
      <4>3. g[i] = Step(g[i-1], i)
        BY <2>1, <3>2, <4>1
      <4> QED BY <3>2, <4>2, <4>3
    <3>3. CASE i = 0
      <4>1. 0 \in 0 .. k - 1 /\ f[0] = g[0]
        BY <3>3
      <4>2. g[0] = vm
        BY <2>1, <4>1
      <4> QED BY <3>3, <4>1, <4>2
    <3> QED BY <3>1, <3>2, <3>3
  <2>3. f = [i \in 0 .. k |-> f[i]]
    OBVIOUS
  <2> HIDE DEF f
  <2>4. Is(f, k)
    BY <2>2, <2>3
  <2> QED BY <2>4
<1>3. n \in good
  <2> HIDE DEF good
  <2>1. 0 .. n \subseteq good
    BY <1>1, <1>2, Reached
  <2> QED BY <2>1
<1> DEFINE g == CHOOSE f : Is(f, n)
<1>4. Is(g, n)
  BY <1>3
<1> HIDE DEF g
<1>5. g[0] = vm /\ \A i \in 1 .. n : g[i] = Step(g[i-1], i)
  BY <1>4
<1> QED BY <1>0, <1>5, <1>s DEF g

\* An array in a record is a list of its own ...
LEMMA EnterListState ==
    ASSUME NEW type, NEW value, NEW field, NEW index, NEW raw, NEW next
    PROVE  EnterList(St(type, value, field, index, raw, next))
             = St("LIST", List(<<>>), field, index, raw, next)
<1> DEFINE st == St(type, value, field, index, raw, next)
           l == List(<<>>)
<1>1. EnterList(st) = [st EXCEPT !.type = "LIST", !.value = l]
  BY DEF EnterList
<1> HIDE DEF l
<1>2. [st EXCEPT !.type = "LIST", !.value = l] = [[st EXCEPT !.type = "LIST"] EXCEPT !.value = l]
  BY DEF St
<1>3. [st EXCEPT !.type = "LIST"] = St("LIST", value, field, index, raw, next)
  BY DEF St
<1>4. [St("LIST", value, field, index, raw, next) EXCEPT !.value = l]
        = St("LIST", l, field, index, raw, next)
  BY DEF St
<1> QED BY <1>1, <1>2, <1>3, <1>4 DEF l

\* ... that is stored in its field.
LEMMA LeaveListState ==
    ASSUME NEW value, NEW field, NEW index, NEW raw, NEW next,
           NEW list, NEW name, NEW last, NEW b, NEW more
    PROVE  LeaveList(St("MAP", value, field, index, raw, next),
                     St("LIST", list, name, last, b, more))
             = St("MAP", Insert(value, field, list), name, index, b, more)
<1> DEFINE st == St("LIST", list, name, last, b, more)
           whole == Insert(value, field, list)
<1>1. LeaveList(St("MAP", value, field, index, raw, next), st)
        = [st EXCEPT !.type = "MAP", !.index = index, !.value = whole]
  BY DEF LeaveList, St
<1> HIDE DEF whole
<1>2. [st EXCEPT !.type = "MAP", !.index = index, !.value = whole]
        = [[[st EXCEPT !.type = "MAP"] EXCEPT !.index = index] EXCEPT !.value = whole]
  BY DEF St
<1>3. [st EXCEPT !.type = "MAP"] = St("MAP", list, name, last, b, more)
  BY DEF St
<1>4. [St("MAP", list, name, last, b, more) EXCEPT !.index = index]
        = St("MAP", list, name, index, b, more)
  BY DEF St
<1>5. [St("MAP", list, name, index, b, more) EXCEPT !.value = whole]
        = St("MAP", whole, name, index, b, more)
  BY DEF St
<1> QED BY <1>1, <1>2, <1>3, <1>4, <1>5 DEF whole

\* How far the loop over an array's items came: k are packed.
ItemsPut(b, raw, at, items, w, k) ==
    /\ SameOutside(b, raw, at, k * w)
    /\ \A i \in 1 .. k : /\ IsNumber(items[i])
                         /\ IsNumberIn(Area(b, at + (i - 1) * w, w), items[i].n, w)

\* One more item.
LEMMA OneMoreItem ==
    ASSUME NEW raw \in Seq(Byte), NEW at \in Nat \ {0}, NEW w \in Nat \ {0}, NEW k \in Nat,
           at + (k + 1) * w <= Len(raw) + 1, NEW items, NEW b, NEW c,
           ItemsPut(b, raw, at, items, w, k),
           IsNumber(items[k+1]), NumberPut(c, b, at + k * w, items[k+1].n, w)
    PROVE  ItemsPut(c, raw, at, items, w, k + 1)
<1> DEFINE kw == k * w
<1>1. kw \in Nat /\ (k + 1) * w = kw + w /\ at + kw \in Nat \ {0} /\ Len(raw) \in Nat
  BY LenProperties
<1>2. /\ SameOutside(b, raw, at, kw) /\ SameOutside(c, b, at + kw, w)
      /\ b \in Seq(Byte) /\ Len(b) = Len(raw)
  BY DEF ItemsPut, NumberPut, SameOutside
<1>3. SameOutside(c, raw, at, kw + w)
  <2> HIDE DEF kw
  <2> QED BY <1>1, <1>2, SameOutsideBoth
<1>4. ASSUME NEW i \in 1 .. k + 1
      PROVE  IsNumber(items[i]) /\ IsNumberIn(Area(c, at + (i - 1) * w, w), items[i].n, w)
  <2>1. CASE i = k + 1
    BY <2>1 DEF NumberPut
  <2>2. CASE i # k + 1
    <3> DEFINE o == (i - 1) * w
               a == at + o
    <3>1. i \in 1 .. k
      BY <2>2
    <3>2. o \in Nat /\ o + w = i * w /\ i * w <= kw
      <4>1. o \in Nat /\ o + w = i * w
        BY <3>1
      <4>2. i * w <= k * w
        BY <3>1
      <4> QED BY <4>1, <4>2
    <3> HIDE DEF o, kw
    <3>3. a \in Nat \ {0} /\ a + w <= Len(raw) + 1 /\ a + w <= at + kw
      BY <1>1, <3>2
    <3> HIDE DEF a
    <3>4. Area(c, a, w) = Area(b, a, w)
      BY <1>1, <1>2, <3>3, AreaKept
    <3>5. IsNumber(items[i]) /\ IsNumberIn(Area(b, a, w), items[i].n, w)
      BY <3>1 DEF ItemsPut, a, o
    <3> QED BY <3>4, <3>5 DEF a, o
  <2> QED BY <2>1, <2>2
<1> QED BY <1>1, <1>3, <1>4 DEF ItemsPut

\* Rows of k out of n equal parts, from next on.
LEMMA Rows ==
    ASSUME NEW n \in Nat, NEW k \in 1 .. n, NEW w \in Nat \ {0}, NEW next \in Nat \ {0}
    PROVE  /\ (k - 1) * w \in Nat /\ k * w \in Nat /\ n * w \in Nat
           /\ (k - 1) * w + w = k * w /\ k * w <= n * w /\ k - 1 \in Nat /\ (k - 1) + 1 = k
           /\ next + (k - 1) * w \in Nat \ {0} /\ next + (k - 1) * w + w = next + k * w
           /\ next + (k - 1) * w + w <= next + n * w
<1>1. k \in Nat /\ k <= n
  OBVIOUS
<1> DEFINE p == (k - 1) * w
           q == k * w
           r == n * w
<1>2. p \in Nat /\ q \in Nat /\ r \in Nat
  BY <1>1
<1>3. p + w = q
  BY <1>1
<1>4. q <= r
  BY <1>1
<1> HIDE DEF p, q, r
<1>5. next + p \in Nat \ {0} /\ next + p + w = next + q /\ next + p + w <= next + r
  BY <1>2, <1>3, <1>4
<1> QED BY <1>1, <1>2, <1>3, <1>4, <1>5 DEF p, q, r

\* A list of items, of which the numbers are integers.
IsList(v) ==
    /\ v.items \in Seq({v.items[i] : i \in DOMAIN v.items})
    /\ \A i \in DOMAIN v.items : IsScalar(v.items[i])

\* The items of a list are packed one behind the other, if they are numbers.
LEMMA PackItemsStep ==
    ASSUME NEW value, IsList(value), NEW n \in Nat, n <= Len(value.items), NEW base \in Bases, NEW raw \in Seq(Byte),
           NEW next \in Nat \ {0}, next + n * Width[base] <= Len(raw) + 1, NEW field, NEW index
    PROVE  LET vm == PackItems(St("LIST", value, field, index, raw, next), base, n)
               w == Width[base]
           IN  IF \A i \in 1 .. n : IsNumber(value.items[i])
               THEN \E b, last : /\ ItemsPut(b, raw, next, value.items, w, n)
                                 /\ vm = St("LIST", value, field, last, b, next + n * w)
               ELSE Failed(vm)
<1> DEFINE w == Width[base]
           items == value.items
           start == St("LIST", value, field, index, raw, next)
           g == ItemStates("PACK", start, base, n)
           State(m, k) == \E b, last : /\ ItemsPut(b, raw, next, items, w, k)
                                       /\ m = St("LIST", value, field, last, b, next + k * w)
           Stopped(m, k) == Failed(m) /\ \E i \in 1 .. k : ~ IsNumber(items[i])
           good == {k \in 0 .. n : State(g[k], k) \/ Stopped(g[k], k)}
<1>1. w \in Nat \ {0} /\ w = Width[base]
  BY WidthOf
<1>2. Len(items) \in Nat /\ DOMAIN items = 1 .. Len(items)
  <2> DEFINE S == {value.items[i] : i \in DOMAIN value.items}
  <2>1. items \in Seq(S)
    BY DEF IsList
  <2> HIDE DEF S, items
  <2> QED BY <2>1, LenProperties
<1>3. /\ g[0] = start
      /\ \A k \in 1 .. n : g[k] = IF Failed(g[k-1]) THEN g[k-1]
                                  ELSE PackInteger([g[k-1] EXCEPT !.index = k], base)
  <2> HIDE DEF start
  <2> QED BY ItemStatesDef
<1> HIDE DEF g
<1>4. 0 \in good
  <2>1. next + 0 * w = next /\ 0 * w = 0
    BY <1>1
  <2>2. ItemsPut(raw, raw, next, items, w, 0)
    BY <2>1 DEF ItemsPut, SameOutside
  <2>3. State(g[0], 0)
    BY <1>3, <2>1, <2>2
  <2> QED BY <2>3
<1>5. ASSUME NEW k \in 1 .. n, k - 1 \in good PROVE k \in good
  <2>1. State(g[k-1], k - 1) \/ Stopped(g[k-1], k - 1)
    BY <1>5
  <2>2. CASE Stopped(g[k-1], k - 1)
    <3>1. g[k] = g[k-1]
      BY <1>3, <2>2
    <3>2. Stopped(g[k], k)
      BY <2>2, <3>1
    <3> HIDE DEF State, Stopped
    <3> QED BY <3>2
  <2>3. CASE State(g[k-1], k - 1)
    <3> DEFINE at == next + (k - 1) * w
    <3>1. PICK b, last : /\ ItemsPut(b, raw, next, items, w, k - 1)
                         /\ g[k-1] = St("LIST", value, field, last, b, at)
      BY <2>3
    <3>2. /\ at \in Nat \ {0} /\ at + w = next + k * w /\ at + w <= next + n * w
          /\ (k - 1) + 1 = k /\ k - 1 \in Nat
      <4>1. w \in Nat \ {0}
        BY <1>1
      <4> HIDE DEF w
      <4>2. /\ next + (k - 1) * w \in Nat \ {0} /\ next + (k - 1) * w + w = next + k * w
            /\ next + (k - 1) * w + w <= next + n * w /\ k - 1 \in Nat /\ (k - 1) + 1 = k
        BY <4>1, Rows, SMTT(30)
      <4> QED BY <4>2, Zenon DEF at
    <3>3. b \in Seq(Byte) /\ Len(b) = Len(raw) /\ Len(raw) \in Nat
      BY <3>1, LenProperties DEF ItemsPut, SameOutside
    <3> HIDE DEF at
    <3>4. ~ Failed(g[k-1]) /\ [g[k-1] EXCEPT !.index = k] = St("LIST", value, field, k, b, at)
      <4>1. [St("LIST", value, field, last, b, at) EXCEPT !.index = k]
              = St("LIST", value, field, k, b, at)
        BY DEF St
      <4> QED BY <3>1, <4>1, Parts
    <3> DEFINE st == St("LIST", value, field, k, b, at)
               x == items[k]
    <3>5. g[k] = PackInteger(st, base)
      BY <1>3, <3>4
    <3>6. k \in DOMAIN items
      BY <1>2
    <3>7. PackInteger(st, base) = PackNumber(st, base, x)
      BY <3>6 DEF PackInteger, St
    <3>8. IsScalar(x)
      BY <3>6 DEF IsList
    <3>9. IF IsNumber(x) THEN \E c : /\ NumberPut(c, b, at, x.n, w)
                                     /\ PackNumber(st, base, x)
                                          = St("LIST", value, field, k, c, at + w)
          ELSE Failed(PackNumber(st, base, x))
      <4>1. at + w <= Len(b) + 1
        BY <1>1, <3>2, <3>3
      <4> HIDE DEF x
      <4> QED BY <3>2, <3>3, <3>8, <4>1, PackNumberStep
    <3> HIDE DEF st
    <3>10. CASE ~ IsNumber(x)
      <4>1. Failed(g[k])
        BY <3>5, <3>7, <3>9, <3>10
      <4>2. Stopped(g[k], k)
        BY <3>10, <4>1
      <4> HIDE DEF State, Stopped
      <4> QED BY <4>2
    <3>11. CASE IsNumber(x)
      <4>1. PICK c : /\ NumberPut(c, b, at, x.n, w)
                     /\ PackNumber(st, base, x) = St("LIST", value, field, k, c, at + w)
        BY <3>9, <3>11
      <4>2. ItemsPut(c, raw, next, items, w, (k - 1) + 1)
        <5> DEFINE j == k - 1
        <5>1. /\ j \in Nat /\ next + (j + 1) * w <= Len(raw) + 1
              /\ ItemsPut(b, raw, next, items, w, j) /\ IsNumber(items[j+1])
              /\ NumberPut(c, b, next + j * w, items[j+1].n, w)
          <6>1. k * w <= n * w /\ k * w \in Nat /\ n * w \in Nat
            <7> HIDE DEF w
            <7> QED BY <1>1, Rows
          <6> QED BY <1>1, <3>1, <3>2, <3>3, <3>11, <4>1, <6>1, SMTT(30) DEF at
        <5> HIDE DEF j, items, w
        <5>2. ItemsPut(c, raw, next, items, w, j + 1)
          BY <1>1, <5>1, OneMoreItem
        <5> QED BY <5>2 DEF j
      <4>3. g[k] = St("LIST", value, field, k, c, next + k * w)
        BY <3>2, <3>5, <3>7, <4>1
      <4>4. State(g[k], k)
        BY <3>2, <4>2, <4>3
      <4> HIDE DEF State, Stopped
      <4> QED BY <4>4
    <3> QED BY <3>10, <3>11
  <2> QED BY <2>1, <2>2, <2>3
<1>6. State(g[n], n) \/ Stopped(g[n], n)
  <2> HIDE DEF good
  <2>1. 0 .. n \subseteq good
    BY <1>4, <1>5, Reached
  <2> QED BY <2>1 DEF good
<1>7. PackItems(start, base, n) = g[n]
  BY DEF PackItems, g
<1>8. State(g[n], n) => \A i \in 1 .. n : IsNumber(items[i])
  BY DEF ItemsPut
<1> QED BY <1>6, <1>7, <1>8
-----------------------------------------------------------------------------
(* One item is packed. *)

\* The value an operation packs.
Target(type, value, field) == IF type = "MAP" THEN Field(value, field) ELSE value

\* Where byte code can pack an item.
CanPack(e, type, field) ==
    IF type = "MAP" THEN e.base # "STR" => e.arrayLen = 0 /\ field # ""
    ELSE e.base \in Signed => e.arrayLen = 0

\* The bytes of item e from at on are new, and hold x.
ItemPut(b, raw, at, e, x) ==
    SameOutside(b, raw, at, ItemLen(e)) /\ HoldsItem(Area(b, at, ItemLen(e)), e, x)

\* What packing an item comes to: its value is in the bytes, or there is an exception.
PackedItem(vm, e, type, value, field, raw, next) ==
    LET x == Target(type, value, field) IN
    IF CanPack(e, type, field) /\ FitsItem(e, x)
    THEN \E b, last : /\ ItemPut(b, raw, next, e, x)
                      /\ vm = St(type, value, field, last, b, next + ItemLen(e))
                      /\ type # "LIST" => last = 0
    ELSE Failed(vm)

\* A number of a port or of a field.
LEMMA PackOneNumber ==
    ASSUME NEW e, IsItemElement(e), e.base # "STR", e.arrayLen = 0,
           NEW type \in {"SCALAR", "MAP"}, NEW value, NEW field,
           IsScalar(Target(type, value, field)), NEW raw \in Seq(Byte), NEW next \in Nat \ {0},
           next + ItemLen(e) <= Len(raw) + 1
    PROVE  PackedItem(PackInteger(St(type, value, field, 0, raw, next), e.base),
                      e, type, value, field, raw, next)
<1> DEFINE st == St(type, value, field, 0, raw, next)
           x == Target(type, value, field)
           w == Width[e.base]
           vm == PackInteger(st, e.base)
<1>1. e.base \in Bases
  BY DEF IsItemElement, Bases
<1>2. ItemLen(e) = w /\ w \in Nat \ {0}
  BY <1>1, WidthOf DEF ItemLen
<1>3. FitsItem(e, x) <=> IsNumber(x)
  BY DEF FitsItem
<1>4. IF IsNumber(x) THEN \E b : /\ NumberPut(b, raw, next, x.n, w)
                                 /\ PackNumber(st, e.base, x)
                                      = St(type, value, field, 0, b, next + w)
      ELSE Failed(PackNumber(st, e.base, x))
  <2>1. next + Width[e.base] <= Len(raw) + 1 /\ IsScalar(x)
    BY <1>2
  <2> HIDE DEF x
  <2> QED BY <1>1, <2>1, PackNumberStep
<1>5. CASE type = "MAP" /\ field = ""
  <2>1. Failed(vm)
    BY <1>5 DEF PackInteger, St, Failed, Raise
  <2>2. ~ CanPack(e, type, field)
    BY <1>5 DEF CanPack
  <2> QED BY <2>1, <2>2 DEF PackedItem
<1>6. CASE ~ (type = "MAP" /\ field = "")
  <2>1. vm = PackNumber(st, e.base, x)
    BY <1>6 DEF PackInteger, St, Target
  <2>2. CanPack(e, type, field)
    BY <1>6 DEF CanPack
  <2>3. CASE ~ IsNumber(x)
    BY <1>3, <1>4, <2>1, <2>3 DEF PackedItem
  <2>4. CASE IsNumber(x)
    <3>1. PICK b : /\ NumberPut(b, raw, next, x.n, w)
                   /\ PackNumber(st, e.base, x) = St(type, value, field, 0, b, next + w)
      BY <1>4, <2>4
    <3>2. ItemPut(b, raw, next, e, x)
      BY <1>2, <2>4, <3>1 DEF ItemPut, NumberPut, HoldsItem
    <3>3. vm = St(type, value, field, 0, b, next + ItemLen(e))
      BY <1>2, <2>1, <3>1
    <3> HIDE DEF vm
    <3>4. \E c, last : /\ ItemPut(c, raw, next, e, x)
                       /\ vm = St(type, value, field, last, c, next + ItemLen(e))
                       /\ type # "LIST" => last = 0
      BY <3>2, <3>3
    <3> QED BY <1>3, <2>2, <2>4, <3>4 DEF PackedItem, vm
  <2> QED BY <2>3, <2>4
<1> QED BY <1>5, <1>6

\* The characters of a value are bytes.
LEMMA CharactersAre ==
    ASSUME NEW x, IsScalar(x)
    PROVE  Characters(x) \in Seq(Byte) /\ Len(Characters(x)) \in Nat
<1>1. Characters(x) \in Seq(Byte)
  <2>1. CASE x.kind = "text"
    BY <2>1 DEF Characters, IsScalar
  <2>2. CASE x.kind # "text"
    BY <2>2, EmptySeq DEF Characters
  <2> QED BY <2>1, <2>2
<1> QED BY <1>1, LenProperties

\* A text of a port or of a field.
LEMMA PackText ==
    ASSUME NEW e, IsItemElement(e), e.base = "STR",
           NEW type \in {"SCALAR", "MAP"}, NEW value, NEW field,
           IsScalar(Target(type, value, field)), NEW raw \in Seq(Byte), NEW next \in Nat \ {0},
           next + ItemLen(e) <= Len(raw) + 1
    PROVE  PackedItem(PackString(St(type, value, field, 0, raw, next), e.arrayLen),
                      e, type, value, field, raw, next)
<1> DEFINE st == St(type, value, field, 0, raw, next)
           x == Target(type, value, field)
           text == Characters(x)
           n == e.arrayLen
           vm == PackString(st, n)
           zeros == [i \in 1 .. n - Len(text) |-> 0]
           new == text \o zeros
<1>1. n \in Nat \ {0} /\ ItemLen(e) = n
  BY Sizes DEF IsItemElement, ItemLen, Width
<1>2. Has(st, n) /\ text = Characters(IF st.type = "MAP" THEN Field(st.value, st.field) ELSE st.value)
  BY <1>1 DEF Has, St, Target
<1>3. text \in Seq(Byte) /\ Len(text) \in Nat
  BY CharactersAre
<1>4. CanPack(e, type, field) /\ (FitsItem(e, x) <=> Len(text) <= n)
  BY DEF CanPack, FitsItem, Signed
<1>5. st.type # "LIST"
  BY DEF St
<1> HIDE DEF n
<1>6. CASE ~ (Len(text) <= n)
  <2>1. Len(text) > n
    BY <1>1, <1>3, <1>6
  <2>2. vm = Raise(st, "DATA_LEN_TOO_SHORT")
    <3> HIDE DEF st, text
    <3> QED BY <1>2, <1>5, <2>1 DEF PackString
  <2>3. Failed(vm)
    BY <2>2 DEF Failed, Raise, St
  <2> HIDE DEF text, x
  <2>4. ~ FitsItem(e, x)
    BY <1>4, <1>6
  <2> HIDE DEF vm
  <2> QED BY <2>3, <2>4 DEF PackedItem, vm, x, n
<1>7. CASE Len(text) <= n
  <2>1. zeros \in Seq(Byte) /\ Len(zeros) = n - Len(text)
    <3>1. n - Len(text) \in Nat /\ 0 \in Byte
      BY <1>1, <1>3, <1>7, Sizes DEF Byte
    <3> HIDE DEF text
    <3>2. zeros \in [1 .. n - Len(text) -> Byte]
      BY <3>1
    <3> HIDE DEF zeros
    <3> QED BY <3>1, <3>2, OfLength
  <2>2. \A i \in 1 .. Len(zeros) : zeros[i] = 0
    BY <2>1
  <2> HIDE DEF text, zeros
  <2>3. /\ new \in Seq(Byte) /\ Len(new) = n
        /\ \A i \in 1 .. n : new[i] = IF i <= Len(text) THEN text[i] ELSE 0
    <3>1. /\ new \in Seq(Byte) /\ Len(new) = Len(text) + Len(zeros)
          /\ \A i \in 1 .. Len(text) + Len(zeros) :
               new[i] = IF i <= Len(text) THEN text[i] ELSE zeros[i - Len(text)]
      BY <1>3, <2>1, ConcatProperties
    <3> HIDE DEF new
    <3> QED BY <1>1, <1>3, <2>1, <2>2, <3>1, SMTT(30)
  <2>4. vm = WriteBytes(st, new)
    <3>1. ~ (Len(text) > n)
      BY <1>1, <1>3, <1>7
    <3> HIDE DEF st
    <3> QED BY <1>2, <1>5, <3>1 DEF PackString, zeros
  <2> HIDE DEF new
  <2> DEFINE b == Spliced(raw, next, new)
  <2>5. vm = St(type, value, field, 0, b, next + n)
    <3>1. WriteBytes(st, new) = St(type, value, field, 0, b, next + Len(new))
      BY WriteBytesState
    <3> QED BY <2>3, <2>4, <3>1
  <2>6. SameOutside(b, raw, next, n) /\ Area(b, next, n) = new
    <3>1. next + Len(new) <= Len(raw) + 1
      BY <1>1, <2>3
    <3> QED BY <2>3, <3>1, SplicedIs
  <2>7. HoldsItem(new, e, x)
    <3>1. DOMAIN new = 1 .. n
      BY <2>3, LenProperties
    <3> QED BY <2>3, <3>1 DEF HoldsItem, text
  <2>8. ItemPut(b, raw, next, e, x)
    BY <1>1, <2>6, <2>7 DEF ItemPut
  <2> HIDE DEF vm, b
  <2>9. \E c, last : /\ ItemPut(c, raw, next, e, x)
                     /\ vm = St(type, value, field, last, c, next + ItemLen(e))
                     /\ type # "LIST" => last = 0
    BY <1>1, <2>5, <2>8
  <2> HIDE DEF x
  <2>10. CanPack(e, type, field) /\ FitsItem(e, x)
    BY <1>4, <1>7
  <2> QED BY <2>9, <2>10 DEF PackedItem, x, vm, n
<1> QED BY <1>6, <1>7

\* An area within an area.
LEMMA AreaOfArea ==
    ASSUME NEW raw \in Seq(Byte), NEW at \in Nat \ {0}, NEW n \in Nat, at + n <= Len(raw) + 1,
           NEW o \in Nat, NEW m \in Nat, o + m <= n
    PROVE  Area(Area(raw, at, n), o + 1, m) = Area(raw, at + o, m)
<1> DEFINE a == Area(raw, at, n)
           l == Area(a, o + 1, m)
           r == Area(raw, at + o, m)
<1>1. a \in Seq(Byte) /\ Len(a) = n /\ \A i \in 1 .. n : a[i] = raw[at+i-1]
  BY AreaIs
<1>2. /\ r \in Seq(Byte) /\ Len(r) = m /\ \A i \in 1 .. m : r[i] = raw[(at+o)+i-1]
  <2>1. at + o \in Nat \ {0} /\ (at + o) + m <= Len(raw) + 1
    BY LenProperties
  <2> QED BY <2>1, AreaIs
<1> HIDE DEF a
<1>3. /\ l \in Seq(Byte) /\ Len(l) = m /\ \A i \in 1 .. m : l[i] = a[(o+1)+i-1]
  <2>1. o + 1 \in Nat \ {0} /\ (o + 1) + m <= Len(a) + 1
    BY <1>1
  <2> QED BY <1>1, <2>1, AreaIs, ZenonT(30)
<1>4. \A i \in 1 .. m : l[i] = r[i]
  <2>1. TAKE i \in 1 .. m
  <2>2. o + i \in 1 .. n /\ (o + 1) + i - 1 = o + i /\ at + (o + i) - 1 = (at + o) + i - 1
    OBVIOUS
  <2> HIDE DEF l, r
  <2>3. a[o+i] = raw[at + (o + i) - 1]
    BY <1>1, <2>2
  <2> QED BY <1>2, <1>3, <2>2, <2>3
<1> HIDE DEF l, r
<1>5. l = r
  BY <1>2, <1>3, <1>4, SeqEqual
<1> QED BY <1>5 DEF l, r, a

\* All bytes.
LEMMA AreaOfAll ==
    ASSUME NEW raw \in Seq(Byte)
    PROVE  Area(raw, 1, Len(raw)) = raw
<1> DEFINE n == Len(raw)
           one == 1
           area == Area(raw, one, n)
<1>1. n \in Nat /\ one \in Nat \ {0} /\ one + n <= Len(raw) + 1
  BY LenProperties
<1> HIDE DEF n, one
<1>2. /\ area \in Seq(Byte) /\ Len(area) = n /\ \A i \in 1 .. n : area[i] = raw[one+i-1]
  BY <1>1, AreaIs
<1> HIDE DEF area
<1>3. \A i \in 1 .. n : area[i] = raw[i]
  BY <1>1, <1>2 DEF one
<1>4. area = raw
  BY <1>2, <1>3, SeqEqual DEF n
<1> QED BY <1>4 DEF area, one, n

\* The part of an area of n items that item i takes.
ItemAreaIs(raw, at, n, w, i) ==
    SubSeq(Area(raw, at, n * w), (i - 1) * w + 1, i * w) = Area(raw, at + (i - 1) * w, w)

LEMMA ItemArea ==
    ASSUME NEW raw \in Seq(Byte), NEW at \in Nat \ {0}, NEW n \in Nat, NEW w \in Nat \ {0},
           at + n * w <= Len(raw) + 1, NEW i \in 1 .. n
    PROVE  ItemAreaIs(raw, at, n, w, i)
<1> DEFINE o == (i - 1) * w
           m == n * w
           q == i * w
<1>1. o \in Nat /\ m \in Nat /\ o + w = q /\ o + w <= m
  <2>1. /\ (i - 1) * w \in Nat /\ n * w \in Nat
        /\ (i - 1) * w + w = i * w /\ i * w <= n * w
    BY Rows
  <2> QED BY <2>1
<1> HIDE DEF o, m, q
<1>2. Area(Area(raw, at, m), o + 1, w) = Area(raw, at + o, w)
  <2>1. at + m <= Len(raw) + 1
    BY DEF m
  <2> QED BY <1>1, <2>1, AreaOfArea
<1>3. (o + 1) + w - 1 = q
  BY <1>1
<1>4. SubSeq(Area(raw, at, m), o + 1, q) = Area(Area(raw, at, m), o + 1, w)
  BY <1>3 DEF Area
<1> QED BY <1>2, <1>4 DEF ItemAreaIs, o, m, q

\* An array of a port.
LEMMA PackList ==
    ASSUME NEW e, IsItemElement(e), e.base # "STR", e.arrayLen > 0, NEW value, IsItemVariant(value),
           value.kind = "list", NEW field, NEW raw \in Seq(Byte), NEW next \in Nat \ {0},
           next + ItemLen(e) <= Len(raw) + 1
    PROVE  PackedItem(PackArray(St("LIST", value, field, 0, raw, next), e.base, e.arrayLen),
                      e, "LIST", value, field, raw, next)
<1> DEFINE st == St("LIST", value, field, 0, raw, next)
           w == Width[e.base]
           n == e.arrayLen
           items == value.items
           vm == PackArray(st, e.base, n)
           Numbers == \A i \in 1 .. n : IsNumber(items[i])
<1>1. e.base \in Bases /\ n \in Nat \ {0}
  BY Sizes DEF IsItemElement, Bases
<1>2. ItemLen(e) = n * w /\ w \in Nat \ {0}
  BY <1>1, WidthOf DEF ItemLen
<1>3. n * w \in Nat \ {0} /\ Len(raw) \in Nat
  <2> HIDE DEF n, w
  <2> QED BY <1>1, <1>2, LenProperties
<1>4. Has(st, 1) /\ Has(st, n * w)
  <2> DEFINE m == n * w
  <2> HIDE DEF m, n, w
  <2>1. m \in Nat \ {0} /\ next + m <= Len(raw) + 1 /\ next + 1 <= Len(raw) + 1
    BY <1>2, <1>3 DEF m
  <2> QED BY <2>1 DEF Has, St, m
<1>5. IsList(value) /\ Len(items) \in Nat
  <2> DEFINE S == {value.items[i] : i \in DOMAIN value.items}
  <2>1. items \in Seq(S)
    BY DEF IsItemVariant
  <2>2. Len(items) \in Nat
    <3> HIDE DEF S, items
    <3> QED BY <2>1, LenProperties
  <2> QED BY <2>2 DEF IsItemVariant, IsList
<1>6. CanPack(e, "LIST", field) <=> e.base \notin Signed
  BY <1>1 DEF CanPack
<1>7. FitsItem(e, value) <=> Len(items) >= n /\ Numbers
  BY <1>1 DEF FitsItem
<1>8. st.type = "LIST" /\ st.value = value
  BY DEF St
<1>9. CASE e.base \in Signed
  <2>1. vm = Raise(st, "INVALID_OP_CODE")
    BY <1>9 DEF PackArray
  <2>2. Failed(vm)
    BY <2>1, Parts
  <2> HIDE DEF vm, st
  <2> QED BY <1>6, <1>9, <2>2 DEF PackedItem, vm, st
<1>10. CASE e.base \notin Signed /\ ~ (Len(items) >= n)
  <2>1. Len(items) < n
    BY <1>1, <1>5, <1>10
  <2>2. vm = Raise(st, "LIST_LEN_TOO_SHORT")
    <3> HIDE DEF st
    <3> QED BY <1>4, <1>8, <1>10, <2>1 DEF PackArray
  <2>3. Failed(vm)
    BY <2>2, Parts
  <2>4. ~ FitsItem(e, Target("LIST", value, field))
    BY <1>7, <1>10 DEF Target
  <2> HIDE DEF vm, st
  <2> QED BY <2>3, <2>4 DEF PackedItem, vm, st
<1>11. CASE e.base \notin Signed /\ Len(items) >= n
  <2>1. ~ (Len(items) < n)
    BY <1>1, <1>5, <1>11
  <2>2. vm = PackItems(st, e.base, n)
    <3> HIDE DEF st
    <3> QED BY <1>4, <1>8, <1>11, <2>1 DEF PackArray
  <2>3. IF Numbers THEN \E b, last : /\ ItemsPut(b, raw, next, items, w, n)
                                     /\ vm = St("LIST", value, field, last, b, next + n * w)
        ELSE Failed(vm)
    <3>1. n \in Nat /\ n <= Len(items) /\ next + n * w <= Len(raw) + 1
      BY <1>1, <1>2, <1>5, <1>11
    <3> HIDE DEF n
    <3> QED BY <1>1, <1>5, <2>2, <3>1, PackItemsStep
  <2> HIDE DEF vm
  <2>4. FitsItem(e, Target("LIST", value, field)) <=> Numbers
    BY <1>7, <1>11 DEF Target
  <2>5. ASSUME Numbers
        PROVE  \E b, last : /\ ItemPut(b, raw, next, e, value)
                            /\ vm = St("LIST", value, field, last, b, next + ItemLen(e))
    <3>1. PICK b, last : /\ ItemsPut(b, raw, next, items, w, n)
                         /\ vm = St("LIST", value, field, last, b, next + n * w)
      BY <2>3, <2>5
    <3>2. b \in Seq(Byte) /\ Len(b) = Len(raw) /\ SameOutside(b, raw, next, n * w)
      BY <3>1 DEF ItemsPut, SameOutside
    <3>3. ASSUME NEW i \in 1 .. n
          PROVE  /\ IsNumber(items[i])
                 /\ IsNumberIn(SubSeq(Area(b, next, n * w), (i - 1) * w + 1, i * w), items[i].n, w)
      <4>1. SubSeq(Area(b, next, n * w), (i - 1) * w + 1, i * w) = Area(b, next + (i - 1) * w, w)
        <5>1. n \in Nat /\ next + n * w <= Len(b) + 1
          BY <1>1, <1>2, <3>2
        <5> HIDE DEF n, w
        <5>2. ItemAreaIs(b, next, n, w, i)
          BY <1>2, <3>2, <5>1, ItemArea
        <5> QED BY <5>2 DEF ItemAreaIs
      <4>2. IsNumber(items[i]) /\ IsNumberIn(Area(b, next + (i - 1) * w, w), items[i].n, w)
        <5> HIDE DEF n, w
        <5> QED BY <3>1 DEF ItemsPut
      <4> QED BY <4>1, <4>2, Zenon
    <3>4. HoldsItem(Area(b, next, n * w), e, value)
      BY <1>1, <3>3 DEF HoldsItem
    <3> QED BY <1>2, <3>1, <3>2, <3>4 DEF ItemPut
  <2>6. Target("LIST", value, field) = value
    BY DEF Target
  <2> HIDE DEF Numbers, st
  <2> QED BY <1>6, <1>11, <2>3, <2>4, <2>5, <2>6 DEF PackedItem, vm, st
<1> QED BY <1>9, <1>10, <1>11

\* An array of a record is never packed: the list it is taken from is the new one.
LEMMA PackListOfRecord ==
    ASSUME NEW e, IsItemElement(e), e.base # "STR", e.arrayLen > 0, NEW value, NEW field,
           NEW raw \in Seq(Byte), NEW next \in Nat \ {0}, next + ItemLen(e) <= Len(raw) + 1
    PROVE  Failed(PackArray(St("MAP", value, field, 0, raw, next), e.base, e.arrayLen))
<1> DEFINE st == St("MAP", value, field, 0, raw, next)
           n == e.arrayLen
           vm == PackArray(st, e.base, n)
           start == St("LIST", List(<<>>), field, 0, raw, next)
           g == ItemStates("PACK", start, e.base, n)
<1>1. n \in Nat \ {0}
  BY Sizes DEF IsItemElement
<1>2. st.type = "MAP" /\ st.field = field
  BY DEF St
<1>3. /\ g[0] = start
      /\ \A k \in 1 .. n : g[k] = IF Failed(g[k-1]) THEN g[k-1]
                                  ELSE PackInteger([g[k-1] EXCEPT !.index = k], e.base)
  <2> HIDE DEF start
  <2> QED BY <1>1, ItemStatesDef
<1> HIDE DEF g
<1>4. Failed(g[1])
  <2> DEFINE first == St("LIST", List(<<>>), field, 1, raw, next)
  <2>1. ~ Failed(start) /\ [start EXCEPT !.index = 1] = first
    BY DEF St, Failed
  <2>2. g[1] = PackInteger([g[0] EXCEPT !.index = 1], e.base)
    <3> HIDE DEF n, first, start
    <3>1. 1 \in 1 .. n /\ 1 - 1 = 0
      BY <1>1
    <3>2. g[1] = IF Failed(g[1-1]) THEN g[1-1] ELSE PackInteger([g[1-1] EXCEPT !.index = 1], e.base)
      BY <1>3, <3>1
    <3> QED BY <1>3, <2>1, <3>1, <3>2
  <2>3. first.value.items = <<>> /\ first.type = "LIST"
    BY DEF St, List
  <2>4. ~ (first.index \in DOMAIN first.value.items)
    <3>1. DOMAIN << >> = {}
      OBVIOUS
    <3> QED BY <2>3, <3>1
  <2>5. PackInteger(first, e.base) = Raise(first, "INTERNAL_ERROR")
    <3> HIDE DEF first
    <3> QED BY <2>3, <2>4 DEF PackInteger
  <2>6. Failed(Raise(first, "INTERNAL_ERROR"))
    BY Parts
  <2> QED BY <1>3, <2>1, <2>2, <2>5, <2>6
<1>5. Failed(g[n])
  <2> DEFINE good == {k \in 0 .. n : k >= 1 => Failed(g[k])}
  <2>1. 0 \in good
    BY <1>1
  <2>2. ASSUME NEW k \in 1 .. n, k - 1 \in good PROVE k \in good
    <3>1. CASE k = 1
      BY <1>4, <3>1
    <3>2. CASE k # 1
      <4>1. k - 1 \in 0 .. n /\ k - 1 >= 1 /\ k \in 0 .. n
        BY <1>1, <3>2
      <4>2. Failed(g[k-1])
        BY <2>2, <4>1
      <4>3. g[k] = g[k-1]
        BY <1>3, <4>2
      <4>4. Failed(g[k])
        BY <4>2, <4>3
      <4> QED BY <4>1, <4>4
    <3> QED BY <3>1, <3>2
  <2> HIDE DEF good
  <2>3. 0 .. n \subseteq good
    <3> HIDE DEF n
    <3> QED BY <1>1, <2>1, <2>2, Reached
  <2> QED BY <1>1, <2>3 DEF good
<1>6. CASE e.base \in Signed
  <2>1. vm = Raise(st, "INVALID_OP_CODE")
    BY <1>6 DEF PackArray
  <2> QED BY <2>1, Parts
<1>7. CASE e.base \notin Signed /\ ~ Has(st, 1)
  <2>1. vm = Raise(st, "INVALID_DATA_PTR")
    <3> HIDE DEF st
    <3> QED BY <1>7 DEF PackArray
  <2> QED BY <2>1, Parts
<1>8. CASE e.base \notin Signed /\ Has(st, 1) /\ ~ Has(st, n * Width[e.base])
  <2>1. vm = Raise(st, "DATA_LEN_TOO_SHORT")
    <3> HIDE DEF st
    <3> QED BY <1>8 DEF PackArray
  <2> QED BY <2>1, Parts
<1>9. CASE e.base \notin Signed /\ Has(st, 1) /\ Has(st, n * Width[e.base])
  <2>1. vm = IF field = "" THEN Raise(st, "INVALID_FIELD_NAME")
             ELSE LeaveList(st, PackItems(EnterList(st), e.base, n))
    <3> HIDE DEF st
    <3> QED BY <1>2, <1>9 DEF PackArray
  <2>2. EnterList(st) = start
    BY EnterListState
  <2>3. PackItems(start, e.base, n) = g[n]
    BY DEF PackItems, g
  <2>4. Failed(LeaveList(st, g[n]))
    <3> HIDE DEF st
    <3> QED BY <1>5 DEF LeaveList, Failed
  <2>5. Failed(Raise(st, "INVALID_FIELD_NAME"))
    BY Parts
  <2>6. LeaveList(st, PackItems(EnterList(st), e.base, n)) = LeaveList(st, g[n])
    BY <2>2, <2>3
  <2> HIDE DEF st, start, vm
  <2>7. Failed(vm)
    BY <2>1, <2>4, <2>5, <2>6, Zenon
  <2> QED BY <2>7 DEF vm, st
<1> QED BY <1>6, <1>7, <1>8, <1>9

\* Which operation an item has.
LEMMA Operations ==
    ASSUME NEW e, IsItemElement(e), NEW st, NEW junk
    PROVE  /\ e.base # "STR" /\ e.arrayLen = 0 =>
                /\ ExecOperation(st, ItemOp("PACK", e), junk) = PackInteger(st, e.base)
                /\ ExecOperation(st, ItemOp("UNPACK", e), junk) = UnpackInteger(st, e.base)
           /\ e.base # "STR" /\ e.arrayLen > 0 =>
                /\ ExecOperation(st, ItemOp("PACK", e), junk) = PackArray(st, e.base, e.arrayLen)
                /\ ExecOperation(st, ItemOp("UNPACK", e), junk) = UnpackArray(st, e.base, e.arrayLen)
           /\ e.base = "STR" =>
                /\ ExecOperation(st, ItemOp("PACK", e), junk) = PackString(st, e.arrayLen)
                /\ ExecOperation(st, ItemOp("UNPACK", e), junk) = UnpackString(st, e.arrayLen)
<1> DEFINE n == e.arrayLen
<1>1. n \in Nat /\ n % ArrayLimit = n /\ (n > 0 => n # 0) /\ (e.base = "STR" => n # 0)
  BY Sizes DEF IsItemElement
<1>2. CASE e.base # "STR" /\ n = 0
  BY <1>2 DEF ItemOp, ExecOperation
<1>3. CASE ~ (e.base # "STR" /\ n = 0)
  <2> DEFINE op(dir) == [op |-> IF e.base = "STR" THEN "STR" ELSE "ARRAY", dir |-> dir,
                         base |-> e.base, len |-> n]
  <2>1. \A dir : ItemOp(dir, e) = op(dir)
    BY <1>1, <1>3 DEF ItemOp
  <2>2. CASE e.base = "STR"
    <3>1. /\ ExecOperation(st, op("PACK"), junk) = PackString(st, n)
          /\ ExecOperation(st, op("UNPACK"), junk) = UnpackString(st, n)
      BY <2>2 DEF ExecOperation
    <3> HIDE DEF op
    <3> QED BY <2>1, <2>2, <3>1
  <2>3. CASE e.base # "STR"
    <3>1. /\ ExecOperation(st, op("PACK"), junk) = PackArray(st, e.base, n)
          /\ ExecOperation(st, op("UNPACK"), junk) = UnpackArray(st, e.base, n)
      BY <2>3 DEF ExecOperation
    <3> HIDE DEF op
    <3> QED BY <1>1, <1>3, <2>1, <2>3, <3>1
  <2> QED BY <2>2, <2>3
<1> QED BY <1>1, <1>2, <1>3

\* The kinds of state an item is handled in: its own kind of value, or a record.
Suits(e, type) == type = "MAP" \/ type = VType(e)

\* Packing any item.
LEMMA PackItem ==
    ASSUME NEW e, IsItemElement(e), NEW type, Suits(e, type), NEW value, NEW field,
           type = "LIST" => value.kind = "list", IsItemVariant(Target(type, value, field)),
           NEW raw \in Seq(Byte), NEW next \in Nat \ {0}, next + ItemLen(e) <= Len(raw) + 1,
           NEW junk
    PROVE  PackedItem(ExecOperation(St(type, value, field, 0, raw, next), ItemOp("PACK", e), junk),
                      e, type, value, field, raw, next)
<1> DEFINE st == St(type, value, field, 0, raw, next)
<1>1. IsScalar(Target(type, value, field))
  BY DEF IsItemVariant
<1>2. e.arrayLen \in Nat /\ e.base # "REC"
  BY Sizes DEF IsItemElement, Width
<1>3. CASE e.base = "STR"
  <2>1. type \in {"SCALAR", "MAP"}
    BY <1>3 DEF Suits, VType
  <2> HIDE DEF st
  <2>2. ExecOperation(st, ItemOp("PACK", e), junk) = PackString(st, e.arrayLen)
    BY <1>3, Operations
  <2>3. PackedItem(PackString(st, e.arrayLen), e, type, value, field, raw, next)
    BY <1>1, <1>3, <2>1, PackText DEF st
  <2> QED BY <2>2, <2>3 DEF st
<1>4. CASE e.base # "STR" /\ e.arrayLen = 0
  <2>1. type \in {"SCALAR", "MAP"}
    BY <1>2, <1>4 DEF Suits, VType
  <2> HIDE DEF st
  <2>2. ExecOperation(st, ItemOp("PACK", e), junk) = PackInteger(st, e.base)
    BY <1>4, Operations
  <2>3. PackedItem(PackInteger(st, e.base), e, type, value, field, raw, next)
    BY <1>1, <1>4, <2>1, PackOneNumber DEF st
  <2> QED BY <2>2, <2>3 DEF st
<1>5. CASE e.base # "STR" /\ e.arrayLen > 0
  <2>1. type \in {"LIST", "MAP"}
    BY <1>2, <1>5 DEF Suits, VType
  <2> HIDE DEF st
  <2>2. ExecOperation(st, ItemOp("PACK", e), junk) = PackArray(st, e.base, e.arrayLen)
    BY <1>5, Operations
  <2>3. CASE type = "LIST"
    <3>1. Target(type, value, field) = value
      BY <2>3 DEF Target
    <3>2. PackedItem(PackArray(st, e.base, e.arrayLen), e, type, value, field, raw, next)
      BY <1>5, <2>3, <3>1, PackList DEF st
    <3> QED BY <2>2, <3>2 DEF st
  <2>4. CASE type = "MAP"
    <3>1. Failed(PackArray(st, e.base, e.arrayLen))
      BY <1>5, <2>4, PackListOfRecord DEF st
    <3>2. ~ CanPack(e, type, field)
      <4>1. e.arrayLen # 0
        BY <1>5
      <4> QED BY <1>5, <2>4, <4>1 DEF CanPack
    <3>3. PackedItem(PackArray(st, e.base, e.arrayLen), e, type, value, field, raw, next)
      BY <3>1, <3>2 DEF PackedItem
    <3> QED BY <2>2, <3>3 DEF st
  <2> QED BY <2>1, <2>3, <2>4
<1> QED BY <1>2, <1>3, <1>4, <1>5
-----------------------------------------------------------------------------
(* One item is unpacked. *)

\* What an operation that unpacked x leaves as the value.
Stored(type, value, field, x) == IF type = "MAP" THEN Insert(value, field, x) ELSE x

\* Where byte code can unpack an item.
CanUnpack(e, type, field) ==
    /\ e.base \in Signed => e.arrayLen = 0
    /\ type = "MAP" /\ e.base # "STR" /\ e.arrayLen = 0 => field # ""

\* What unpacking an item comes to: what its bytes say is stored, or there is an exception.
UnpackedItem(vm, e, type, value, field, raw, next) ==
    IF CanUnpack(e, type, field)
    THEN \E x, last : /\ IsItemReading(Area(raw, next, ItemLen(e)), e, x)
                      /\ vm = St(type, Stored(type, value, field, x), field, last, raw,
                                 next + ItemLen(e))
                      /\ type # "LIST" => last = 0
    ELSE Failed(vm)

\* A number is stored as the value ...
LEMMA StoreAlone ==
    ASSUME NEW value, NEW field, NEW index, NEW raw, NEW next, NEW x
    PROVE  Store(St("SCALAR", value, field, index, raw, next), x)
             = St("SCALAR", x, field, index, raw, next)
<1> DEFINE st == St("SCALAR", value, field, index, raw, next)
<1>1. Store(st, x) = [st EXCEPT !.value = x]
  BY DEF Store, St
<1>2. [st EXCEPT !.value = x] = St("SCALAR", x, field, index, raw, next)
  BY DEF St
<1> QED BY <1>1, <1>2

\* ... as the field of a record, which must have a name ...
StoredIn(vm, value, field, index, raw, next, x) ==
    IF field = "" THEN Failed(vm)
    ELSE vm = St("MAP", Insert(value, field, x), field, index, raw, next)

LEMMA StoreInRecord ==
    ASSUME NEW value, NEW field, NEW index, NEW raw, NEW next, NEW x
    PROVE  StoredIn(Store(St("MAP", value, field, index, raw, next), x), value, field, index, raw,
                    next, x)
<1> DEFINE st == St("MAP", value, field, index, raw, next)
           whole == Insert(value, field, x)
           ex == IF field = "" THEN "INVALID_FIELD_NAME" ELSE "NONE"
           vm == Store(st, x)
<1>1. st.type = "MAP" /\ st.value = value /\ st.field = field /\ st.exception = "NONE"
  BY DEF St
<1>2. vm = [st EXCEPT !.value = whole, !.exception = ex]
  <2> HIDE DEF whole
  <2>1. vm = [st EXCEPT !.value = Insert(st.value, st.field, x),
                        !.exception = IF st.field = "" THEN "INVALID_FIELD_NAME"
                                      ELSE st.exception]
    BY <1>1 DEF Store
  <2> HIDE DEF st
  <2> QED BY <1>1, <2>1 DEF whole
<1> HIDE DEF whole, vm
<1>3. [st EXCEPT !.value = whole, !.exception = ex]
        = [[st EXCEPT !.value = whole] EXCEPT !.exception = ex]
  BY DEF St
<1>4. [st EXCEPT !.value = whole] = St("MAP", whole, field, index, raw, next)
  BY DEF St
<1>5. CASE field = ""
  <2>1. vm.exception = "INVALID_FIELD_NAME"
    BY <1>2, <1>3, <1>4, <1>5 DEF St
  <2>2. Failed(vm)
    BY <2>1 DEF Failed
  <2> QED BY <1>5, <2>2 DEF StoredIn, vm
<1>6. CASE field # ""
  <2>1. [St("MAP", whole, field, index, raw, next) EXCEPT !.exception = "NONE"]
          = St("MAP", whole, field, index, raw, next)
    BY DEF St
  <2>2. vm = St("MAP", whole, field, index, raw, next)
    BY <1>2, <1>3, <1>4, <1>6, <2>1
  <2> QED BY <1>6, <2>2 DEF StoredIn, vm, whole
<1> QED BY <1>5, <1>6

\* ... or behind the items of a list.
LEMMA StoreInList ==
    ASSUME NEW S, NEW items \in Seq(S), NEW field, NEW raw, NEW next, NEW x
    PROVE  Store(St("LIST", List(items), field, Len(items) + 1, raw, next), x)
             = St("LIST", List(Append(items, x)), field, Len(items) + 1, raw, next)
<1> DEFINE k == Len(items) + 1
           l == List(items)
           st == St("LIST", l, field, k, raw, next)
           more == Append(items, x)
<1>1. Len(items) \in Nat /\ DOMAIN items = 1 .. Len(items)
  BY LenProperties
<1>2. k # 0 /\ k \notin DOMAIN items
  BY <1>1
<1>3. st.type = "LIST" /\ st.value = l /\ st.index = k /\ l.items = items
  BY DEF St, List
<1> HIDE DEF k, more
<1>4. Store(st, x) = [st EXCEPT !.value.items = more]
  <2>1. Store(st, x) = [st EXCEPT !.value.items = Append(st.value.items, x)]
    <3> HIDE DEF st, l
    <3> QED BY <1>2, <1>3 DEF Store
  <2> QED BY <1>3, <2>1 DEF more
<1>5. [st EXCEPT !.value.items = more] = [st EXCEPT !.value = [l EXCEPT !.items = more]]
  BY <1>3
<1>6. [l EXCEPT !.items = more] = List(more)
  BY DEF List
<1>7. [st EXCEPT !.value = List(more)] = St("LIST", List(more), field, k, raw, next)
  <2> HIDE DEF l
  <2> QED BY DEF St
<1> QED BY <1>4, <1>5, <1>6, <1>7 DEF k, more

\* The number in the bytes from at on is in the range of its type.
NumberRead(x, raw, at, base) ==
    /\ IsNumber(x) /\ InRange(base, x.n)
    /\ IsNumberIn(Area(raw, at, Width[base]), x.n, Width[base])

\* Reading a number is storing what the bytes say.
LEMMA UnpackIntegerStep ==
    ASSUME NEW type, NEW value, NEW field, NEW index, NEW raw \in Seq(Byte),
           NEW next \in Nat \ {0}, NEW base \in Bases, next + Width[base] <= Len(raw) + 1
    PROVE  \E n \in Int :
             /\ NumberRead(Number(n), raw, next, base)
             /\ UnpackInteger(St(type, value, field, index, raw, next), base)
                  = Store(St(type, value, field, index, raw, next + Width[base]), Number(n))
<1> DEFINE st == St(type, value, field, index, raw, next)
           w == Width[base]
           bytes == Area(raw, next, w)
           n == FromBytes(bytes, base)
<1>1. w \in Nat \ {0}
  BY WidthOf
<1>2. Has(st, w) /\ ReadBytes(st, w) = bytes /\ st.next = next
  <2>1. Has(st, w) /\ st.next = next /\ st.raw = raw
    BY DEF Has, St
  <2> HIDE DEF st, w
  <2> QED BY <2>1 DEF ReadBytes, Area
<1>3. [st EXCEPT !.next = next + w] = St(type, value, field, index, raw, next + w)
  <2> HIDE DEF w
  <2> QED BY DEF St
<1>4. UnpackInteger(st, base) = Store([st EXCEPT !.next = next + w], Number(n))
  <2>1. UnpackInteger(st, base)
          = Store([st EXCEPT !.next = st.next + w], Number(FromBytes(ReadBytes(st, w), base)))
    <3> HIDE DEF st
    <3> QED BY <1>2 DEF UnpackInteger
  <2> HIDE DEF st
  <2> QED BY <1>2, <2>1
<1>5. n \in Int /\ InRange(base, n) /\ IsNumberIn(bytes, n, w)
  <2>1. bytes \in Bytes(w)
    BY <1>1, AreaIs
  <2> HIDE DEF bytes
  <2> QED BY <2>1, FromBytesHeld
<1> HIDE DEF n
<1>6. NumberRead(Number(n), raw, next, base)
  <2>1. Number(n).n = n /\ IsNumber(Number(n))
    BY DEF Number, IsNumber
  <2> QED BY <1>5, <2>1 DEF NumberRead
<1> QED BY <1>3, <1>4, <1>5, <1>6

Integers == {Number(n) : n \in Int}

\* The items of a list that is read.
ItemsRead(items, raw, at, base, k) ==
    /\ items \in Seq(Integers) /\ Len(items) = k
    /\ \A i \in 1 .. k : NumberRead(items[i], raw, at + (i - 1) * Width[base], base)

\* The state once they are read.
ListRead(vm, field, raw, at, base, k) ==
    \E items, last : /\ ItemsRead(items, raw, at, base, k)
                     /\ vm = St("LIST", List(items), field, last, raw, at + k * Width[base])

\* All items of an array are read.
LEMMA UnpackItemsStep ==
    ASSUME NEW n \in Nat, NEW base \in Bases, NEW raw \in Seq(Byte), NEW next \in Nat \ {0},
           next + n * Width[base] <= Len(raw) + 1, NEW field, NEW index
    PROVE  ListRead(UnpackItems(St("LIST", List(<<>>), field, index, raw, next), base, n),
                    field, raw, next, base, n)
<1> DEFINE w == Width[base]
           start == St("LIST", List(<<>>), field, index, raw, next)
           g == ItemStates("UNPACK", start, base, n)
           State(m, k) == \E items, last :
                            /\ ItemsRead(items, raw, next, base, k)
                            /\ m = St("LIST", List(items), field, last, raw, next + k * w)
           good == {k \in 0 .. n : State(g[k], k)}
<1>1. w \in Nat \ {0}
  BY WidthOf
<1>2. /\ g[0] = start
      /\ \A k \in 1 .. n : g[k] = IF Failed(g[k-1]) THEN g[k-1]
                                  ELSE UnpackInteger([g[k-1] EXCEPT !.index = k], base)
  <2> HIDE DEF start
  <2> QED BY ItemStatesDef
<1> HIDE DEF g
<1>3. 0 \in good
  <2>1. next + 0 * w = next
    BY <1>1
  <2>2. ItemsRead(<<>>, raw, next, base, 0)
    BY EmptySeq DEF ItemsRead
  <2>3. State(g[0], 0)
    BY <1>2, <2>1, <2>2
  <2> QED BY <2>3
<1>4. ASSUME NEW k \in 1 .. n, k - 1 \in good PROVE k \in good
  <2> DEFINE at == next + (k - 1) * w
  <2>1. PICK items, last : /\ ItemsRead(items, raw, next, base, k - 1)
                           /\ g[k-1] = St("LIST", List(items), field, last, raw, at)
    BY <1>4
  <2>2. /\ at \in Nat \ {0} /\ at + w = next + k * w /\ at + w <= next + n * w
        /\ (k - 1) + 1 = k /\ k - 1 \in Nat /\ n * w \in Nat
    <3>1. w \in Nat \ {0}
      BY <1>1
    <3> HIDE DEF w
    <3>2. /\ next + (k - 1) * w \in Nat \ {0} /\ next + (k - 1) * w + w = next + k * w
          /\ next + (k - 1) * w + w <= next + n * w /\ k - 1 \in Nat /\ (k - 1) + 1 = k
          /\ n * w \in Nat
      BY <3>1, Rows, SMTT(30)
    <3> QED BY <3>2, Zenon DEF at
  <2>3. Len(raw) \in Nat
    BY LenProperties
  <2>4. items \in Seq(Integers) /\ Len(items) + 1 = k
    BY <2>1, <2>2 DEF ItemsRead
  <2> HIDE DEF at
  <2>5. ~ Failed(g[k-1]) /\ [g[k-1] EXCEPT !.index = k] = St("LIST", List(items), field, k, raw, at)
    <3>1. [St("LIST", List(items), field, last, raw, at) EXCEPT !.index = k]
            = St("LIST", List(items), field, k, raw, at)
      BY DEF St
    <3> QED BY <2>1, <3>1, Parts
  <2>6. PICK x \in Int :
          /\ NumberRead(Number(x), raw, at, base)
          /\ UnpackInteger(St("LIST", List(items), field, k, raw, at), base)
               = Store(St("LIST", List(items), field, k, raw, at + w), Number(x))
    <3>1. at + w <= Len(raw) + 1
      BY <1>1, <2>2, <2>3, SMTT(30)
    <3> QED BY <2>2, <3>1, UnpackIntegerStep
  <2> DEFINE more == Append(items, Number(x))
  <2>7. g[k] = St("LIST", List(more), field, k, raw, next + k * w)
    <3>1. g[k] = Store(St("LIST", List(items), field, k, raw, at + w), Number(x))
      BY <1>2, <2>5, <2>6
    <3>2. Store(St("LIST", List(items), field, Len(items) + 1, raw, at + w), Number(x))
            = St("LIST", List(more), field, Len(items) + 1, raw, at + w)
      BY <2>4, StoreInList
    <3> HIDE DEF more
    <3> QED BY <2>2, <2>4, <3>1, <3>2
  <2>8. ItemsRead(more, raw, next, base, k)
    <3>1. Number(x) \in Integers
      BY DEF Integers
    <3>2. /\ more \in Seq(Integers) /\ Len(more) = k
          /\ \A i \in 1 .. k : more[i] = IF i = k THEN Number(x) ELSE items[i]
      BY <2>4, <3>1, AppendProperties
    <3> HIDE DEF more
    <3>3. ASSUME NEW i \in 1 .. k PROVE NumberRead(more[i], raw, next + (i - 1) * w, base)
      <4>1. CASE i = k
        BY <2>6, <3>2, <4>1 DEF at
      <4>2. CASE i # k
        <5>1. i \in 1 .. k - 1
          BY <4>2
        <5> QED BY <2>1, <3>2, <4>2, <5>1 DEF ItemsRead
      <4> QED BY <4>1, <4>2
    <3> QED BY <3>2, <3>3 DEF ItemsRead
  <2> HIDE DEF more
  <2>9. State(g[k], k)
    BY <2>7, <2>8
  <2> HIDE DEF State
  <2> QED BY <2>9
<1>5. State(g[n], n)
  <2> HIDE DEF good
  <2>1. 0 .. n \subseteq good
    BY <1>3, <1>4, Reached
  <2> QED BY <2>1 DEF good
<1>6. UnpackItems(start, base, n) = g[n]
  BY DEF UnpackItems, g
<1> HIDE DEF start
<1>7. ListRead(g[n], field, raw, next, base, n)
  BY <1>5 DEF ListRead
<1> QED BY <1>6, <1>7 DEF start

\* A number of a port or of a field.
LEMMA UnpackOneNumber ==
    ASSUME NEW e, IsItemElement(e), e.base # "STR", e.arrayLen = 0,
           NEW type \in {"SCALAR", "MAP"}, NEW value, NEW field,
           NEW raw \in Seq(Byte), NEW next \in Nat \ {0}, next + ItemLen(e) <= Len(raw) + 1
    PROVE  UnpackedItem(UnpackInteger(St(type, value, field, 0, raw, next), e.base),
                        e, type, value, field, raw, next)
<1> DEFINE st == St(type, value, field, 0, raw, next)
           w == Width[e.base]
           vm == UnpackInteger(st, e.base)
<1>1. e.base \in Bases
  BY DEF IsItemElement, Bases
<1>2. ItemLen(e) = w /\ w \in Nat \ {0}
  BY <1>1, WidthOf DEF ItemLen
<1>3. PICK n \in Int : /\ NumberRead(Number(n), raw, next, e.base)
                       /\ vm = Store(St(type, value, field, 0, raw, next + w), Number(n))
  <2>1. next + Width[e.base] <= Len(raw) + 1
    BY <1>2
  <2> QED BY <1>1, <2>1, UnpackIntegerStep
<1> DEFINE x == Number(n)
           area == Area(raw, next, w)
<1>4. IsItemReading(area, e, x)
  <2>1. IsNumber(x) /\ InRange(e.base, x.n) /\ IsNumberIn(area, x.n, w)
    BY <1>3 DEF NumberRead
  <2> HIDE DEF x, area
  <2>2. IsItem(e, x)
    BY <2>1 DEF IsItem, InRange
  <2>3. HoldsItem(Cut(area, e), e, x)
    BY <2>1 DEF HoldsItem, Cut
  <2> QED BY <2>2, <2>3 DEF IsItemReading
<1> HIDE DEF vm
<1>5. CASE type = "MAP" /\ field = ""
  <2>1. Failed(Store(St("MAP", value, field, 0, raw, next + w), x))
    BY <1>5, StoreInRecord DEF StoredIn
  <2>2. ~ CanUnpack(e, type, field)
    BY <1>5 DEF CanUnpack
  <2> QED BY <1>3, <1>5, <2>1, <2>2 DEF UnpackedItem, vm
<1>6. CASE ~ (type = "MAP" /\ field = "")
  <2>1. CanUnpack(e, type, field)
    BY <1>6 DEF CanUnpack
  <2>2. vm = St(type, Stored(type, value, field, x), field, 0, raw, next + w)
    <3> HIDE DEF x, w
    <3>1. CASE type = "SCALAR"
      BY <1>3, <3>1, StoreAlone DEF Stored, x
    <3>2. CASE type = "MAP"
      <4>1. Store(St("MAP", value, field, 0, raw, next + w), x)
              = St("MAP", Insert(value, field, x), field, 0, raw, next + w)
        <5> DEFINE more == next + w
        <5> HIDE DEF more
        <5>1. StoredIn(Store(St("MAP", value, field, 0, raw, more), x), value, field, 0, raw,
                       more, x)
          BY StoreInRecord
        <5>2. field # ""
          BY <1>6, <3>2
        <5> QED BY <5>1, <5>2 DEF more, StoredIn
      <4> QED BY <1>3, <3>2, <4>1 DEF Stored, x
    <3> QED BY <3>1, <3>2
  <2> HIDE DEF x
  <2>3. \E y, last : /\ IsItemReading(Area(raw, next, ItemLen(e)), e, y)
                     /\ vm = St(type, Stored(type, value, field, y), field, last, raw,
                                next + ItemLen(e))
                     /\ type # "LIST" => last = 0
    BY <1>2, <1>4, <2>2
  <2> QED BY <2>1, <2>3 DEF UnpackedItem, vm
<1> QED BY <1>5, <1>6

\* What a text is read from holds it.
LEMMA TextRead ==
    ASSUME NEW n \in Nat \ {0}, NEW raw \in Seq(Byte), NEW next \in Nat \ {0},
           next + n <= Len(raw) + 1, NEW e, e.base = "STR"
    PROVE  LET m == Min({k \in 0 .. n : k = n \/ raw[next+k] = 0})
               text == SubSeq(raw, next, next - 1 + m)
           IN  IsItemReading(Area(raw, next, n), e, Text(text))
<1> DEFINE stops == {k \in 0 .. n : k = n \/ raw[next+k] = 0}
           m == Min(stops)
           text == SubSeq(raw, next, next - 1 + m)
           area == Area(raw, next, n)
           cut == Cut(area, e)
<1>1. m \in 0 .. n /\ (m = n \/ raw[next+m] = 0) /\ \A k \in 0 .. m - 1 : raw[next+k] # 0
  <2>1. stops \in SUBSET Nat /\ stops # {}
    <3>1. n \in stops
      OBVIOUS
    <3> QED BY <3>1
  <2>2. m \in stops /\ \A k \in stops : m <= k
    <3> HIDE DEF stops
    <3> QED BY <2>1, MinOfNat
  <2>3. \A k \in 0 .. n : k \in stops <=> k = n \/ raw[next+k] = 0
    OBVIOUS
  <2>4. stops \subseteq 0 .. n
    OBVIOUS
  <2> HIDE DEF m, stops
  <2>5. m \in 0 .. n /\ (m = n \/ raw[next+m] = 0)
    BY <2>2, <2>3, <2>4
  <2>6. ASSUME NEW k \in 0 .. m - 1 PROVE raw[next+k] # 0
    <3>1. k \in 0 .. n /\ ~ (m <= k)
      BY <2>5
    <3>2. k \notin stops
      BY <2>2, <3>1
    <3> QED BY <2>3, <3>1, <3>2
  <2> QED BY <2>5, <2>6
<1> HIDE DEF m
<1>2. Len(raw) \in Nat
  BY LenProperties
<1>3. text = Area(raw, next, m)
  <2>1. next - 1 + m = next + m - 1
    BY <1>1
  <2> QED BY <2>1 DEF Area
<1>4. Len(text) = m /\ DOMAIN text = 1 .. m /\ \A i \in 1 .. m : text[i] = raw[next+i-1]
  <2>1. next + m <= Len(raw) + 1 /\ m \in Nat
    BY <1>1, <1>2
  <2> HIDE DEF text
  <2>2. /\ text \in Seq(Byte) /\ Len(text) = m
        /\ \A i \in 1 .. m : text[i] = raw[next+i-1]
    BY <1>3, <2>1, AreaIs
  <2> QED BY <2>2, LenProperties
<1>5. DOMAIN area = 1 .. n /\ \A i \in 1 .. n : area[i] = raw[next+i-1]
  <2>1. /\ area \in Seq(Byte) /\ Len(area) = n
        /\ \A i \in 1 .. n : area[i] = raw[next+i-1]
    BY AreaIs
  <2> HIDE DEF area
  <2> QED BY <2>1, LenProperties
<1> HIDE DEF text, area
<1>6. \A i \in 1 .. m : text[i] # 0
  <2>1. TAKE i \in 1 .. m
  <2>2. i - 1 \in 0 .. m - 1 /\ next + (i - 1) = next + i - 1
    BY <1>1
  <2> QED BY <1>1, <1>4, <2>2
<1>7. IsItem(e, Text(text))
  <2>1. Text(text).kind = "text" /\ Text(text).s = text
    BY DEF Text
  <2>2. \A i \in DOMAIN text : text[i] # 0
    BY <1>4, <1>6
  <2> HIDE DEF text
  <2> QED BY <2>1, <2>2 DEF IsItem
<1>8. DOMAIN cut = 1 .. n /\ \A i \in 1 .. n : cut[i] = IF i <= m THEN text[i] ELSE 0
  <2>1. /\ DOMAIN cut = 1 .. n
        /\ \A i \in 1 .. n : cut[i] = IF \E k \in 1 .. i : area[k] = 0 THEN 0 ELSE area[i]
    BY <1>5 DEF Cut
  <2> HIDE DEF cut
  <2>2. ASSUME NEW i \in 1 .. n PROVE cut[i] = IF i <= m THEN text[i] ELSE 0
    <3>1. CASE i <= m
      <4>1. i \in 1 .. m /\ \A k \in 1 .. i : k \in 1 .. m /\ k \in 1 .. n
        BY <1>1, <3>1
      <4>2. \A k \in 1 .. i : area[k] # 0
        BY <1>4, <1>5, <1>6, <4>1
      <4>3. cut[i] = area[i] /\ area[i] = text[i]
        BY <1>4, <1>5, <2>1, <4>1, <4>2
      <4> QED BY <3>1, <4>3
    <3>2. CASE ~ (i <= m)
      <4>1. m + 1 \in 1 .. i /\ m + 1 \in 1 .. n /\ m # n /\ next + (m + 1) - 1 = next + m
        BY <1>1, <3>2
      <4>2. area[m+1] = 0
        BY <1>1, <1>5, <4>1
      <4>3. cut[i] = 0
        BY <2>1, <4>1, <4>2
      <4> QED BY <3>2, <4>3
    <3> QED BY <3>1, <3>2
  <2> QED BY <2>1, <2>2
<1> HIDE DEF cut
<1>9. HoldsItem(cut, e, Text(text))
  <2>1. Characters(Text(text)) = text
    BY DEF Text, Characters
  <2> QED BY <1>4, <1>8, <2>1 DEF HoldsItem
<1>10. IsItemReading(area, e, Text(text))
  BY <1>7, <1>9 DEF IsItemReading, cut
<1> QED BY <1>10 DEF area, text, m

\* A text of a port or of a field.
LEMMA UnpackText ==
    ASSUME NEW e, IsItemElement(e), e.base = "STR",
           NEW type \in {"SCALAR", "MAP"}, NEW value, NEW field,
           NEW raw \in Seq(Byte), NEW next \in Nat \ {0}, next + ItemLen(e) <= Len(raw) + 1
    PROVE  UnpackedItem(UnpackString(St(type, value, field, 0, raw, next), e.arrayLen),
                        e, type, value, field, raw, next)
<1> DEFINE st == St(type, value, field, 0, raw, next)
           n == e.arrayLen
           text == SubSeq(raw, next, next - 1 + Min({k \in 0 .. n : k = n \/ raw[next+k] = 0}))
           x == Text(text)
           rest == St(type, value, field, 0, raw, next + n)
           vm == UnpackString(st, n)
<1>1. n \in Nat \ {0} /\ ItemLen(e) = n
  BY Sizes DEF IsItemElement, ItemLen, Width
<1> HIDE DEF n
<1>2. IsItemReading(Area(raw, next, n), e, x)
  BY <1>1, TextRead
<1>3. /\ Has(st, n) /\ st.next = next /\ st.raw = raw /\ st.type = type /\ st.field = field
      /\ st.value = value
  BY <1>1 DEF Has, St
<1>4. [st EXCEPT !.next = next + n] = rest
  BY DEF St
<1>5. rest.type = type /\ rest.value = value /\ rest.field = field
  BY DEF St
<1> HIDE DEF text
<1>6. vm = CASE type = "SCALAR" -> [rest EXCEPT !.value = x]
             [] type = "MAP"    -> [rest EXCEPT !.value = Insert(value, field, x)]
             [] OTHER           -> Raise(rest, "INVALID_VARIANT_TYPE")
  <2>1. [st EXCEPT !.next = st.next + n] = rest
    BY <1>3, <1>4
  <2> HIDE DEF st, rest, x
  <2>2. vm = CASE st.type = "SCALAR" -> [rest EXCEPT !.value = x]
               [] st.type = "MAP"    -> [rest EXCEPT !.value = Insert(rest.value, st.field, x)]
               [] OTHER              -> Raise(rest, "INVALID_VARIANT_TYPE")
    BY <1>3, <2>1 DEF UnpackString, text, x
  <2> QED BY <1>3, <1>5, <2>2
<1> HIDE DEF vm, x
<1>7. vm = St(type, Stored(type, value, field, x), field, 0, raw, next + n)
  <2>1. CASE type = "SCALAR"
    <3>1. [rest EXCEPT !.value = x] = St(type, x, field, 0, raw, next + n)
      BY DEF St
    <3> HIDE DEF rest
    <3> QED BY <1>6, <2>1, <3>1 DEF Stored
  <2>2. CASE type = "MAP"
    <3> DEFINE whole == Insert(value, field, x)
    <3> HIDE DEF whole
    <3>1. [rest EXCEPT !.value = whole] = St(type, whole, field, 0, raw, next + n)
      BY DEF St
    <3> HIDE DEF rest
    <3> QED BY <1>6, <2>2, <3>1 DEF Stored, whole
  <2> QED BY <2>1, <2>2
<1>8. CanUnpack(e, type, field)
  BY DEF CanUnpack, Signed
<1>9. \E y, last : /\ IsItemReading(Area(raw, next, ItemLen(e)), e, y)
                   /\ vm = St(type, Stored(type, value, field, y), field, last, raw,
                              next + ItemLen(e))
                   /\ type # "LIST" => last = 0
  BY <1>1, <1>2, <1>7
<1> QED BY <1>8, <1>9 DEF UnpackedItem, vm, n

\* An array of a port or of a record.
LEMMA UnpackList ==
    ASSUME NEW e, IsItemElement(e), e.base # "STR", e.arrayLen > 0,
           NEW type \in {"LIST", "MAP"}, NEW value, type = "LIST" => value = List(<<>>), NEW field,
           NEW raw \in Seq(Byte), NEW next \in Nat \ {0}, next + ItemLen(e) <= Len(raw) + 1
    PROVE  UnpackedItem(UnpackArray(St(type, value, field, 0, raw, next), e.base, e.arrayLen),
                        e, type, value, field, raw, next)
<1> DEFINE st == St(type, value, field, 0, raw, next)
           start == St("LIST", List(<<>>), field, 0, raw, next)
           n == e.arrayLen
           w == Width[e.base]
           vm == UnpackArray(st, e.base, n)
<1>1. e.base \in Bases /\ n \in Nat \ {0} /\ e.arrayLen # 0
  BY Sizes DEF IsItemElement, Bases
<1>2. ItemLen(e) = n * w /\ w \in Nat \ {0}
  BY <1>1, WidthOf DEF ItemLen
<1>3. n * w \in Nat
  <2> HIDE DEF n, w
  <2> QED BY <1>1, <1>2
<1>4. Has(st, n * w) /\ st.type = type
  <2> DEFINE m == n * w
  <2> HIDE DEF m, n, w
  <2>1. m \in Nat /\ next + m <= Len(raw) + 1
    BY <1>2, <1>3 DEF m
  <2> QED BY <2>1 DEF Has, St, m
<1>5. CanUnpack(e, type, field) <=> e.base \notin Signed
  BY <1>1 DEF CanUnpack
<1>6. CASE e.base \in Signed
  <2>1. vm = Raise(st, "INVALID_OP_CODE")
    BY <1>6 DEF UnpackArray
  <2>2. Failed(vm)
    BY <2>1, Parts
  <2> HIDE DEF vm, st
  <2> QED BY <1>5, <1>6, <2>2 DEF UnpackedItem, vm, st
<1>7. CASE e.base \notin Signed
  <2>1. PICK items, last :
          /\ ItemsRead(items, raw, next, e.base, n)
          /\ UnpackItems(start, e.base, n) = St("LIST", List(items), field, last, raw, next + n * w)
    <3>1. n \in Nat /\ next + n * w <= Len(raw) + 1
      BY <1>1, <1>2
    <3> HIDE DEF n
    <3>2. ListRead(UnpackItems(start, e.base, n), field, raw, next, e.base, n)
      BY <1>1, <3>1, UnpackItemsStep
    <3> QED BY <3>2 DEF ListRead
  <2> DEFINE x == List(items)
             more == next + n * w
             area == Area(raw, next, n * w)
             list == UnpackItems(start, e.base, n)
  <2>2. IsItemReading(area, e, x)
    <3>1. x.kind = "list" /\ x.items = items
      BY DEF List
    <3>2. /\ items \in Seq(Integers) /\ Len(items) = n
          /\ \A i \in 1 .. n : NumberRead(items[i], raw, next + (i - 1) * w, e.base)
      BY <2>1 DEF ItemsRead
    <3>3. DOMAIN items = 1 .. n
      BY <3>2, LenProperties
    <3>4. IsItem(e, x)
      <4>1. \A i \in DOMAIN items : IsNumber(items[i]) /\ InRange(e.base, items[i].n)
        BY <3>2, <3>3 DEF NumberRead
      <4> HIDE DEF x
      <4> QED BY <1>1, <3>1, <3>2, <4>1 DEF IsItem, InRange
    <3>5. ASSUME NEW i \in 1 .. n
          PROVE  /\ IsNumber(items[i])
                 /\ IsNumberIn(SubSeq(area, (i - 1) * w + 1, i * w), items[i].n, w)
      <4>1. SubSeq(Area(raw, next, n * w), (i - 1) * w + 1, i * w) = Area(raw, next + (i - 1) * w, w)
        <5>1. n \in Nat /\ next + n * w <= Len(raw) + 1
          BY <1>1, <1>2
        <5> HIDE DEF n, w
        <5>2. ItemAreaIs(raw, next, n, w, i)
          BY <1>2, <5>1, ItemArea
        <5> QED BY <5>2 DEF ItemAreaIs
      <4>2. IsNumber(items[i]) /\ IsNumberIn(Area(raw, next + (i - 1) * w, w), items[i].n, w)
        BY <3>2 DEF NumberRead
      <4> QED BY <4>1, <4>2, Zenon
    <3> HIDE DEF x, area
    <3>6. Cut(area, e) = area
      BY DEF Cut
    <3>7. HoldsItem(area, e, x)
      BY <1>1, <3>1, <3>5 DEF HoldsItem
    <3> QED BY <3>4, <3>6, <3>7 DEF IsItemReading
  <2>3. \E k : /\ vm = St(type, Stored(type, value, field, x), field, k, raw, more)
               /\ type # "LIST" => k = 0
    <3>1. CASE type = "LIST"
      <4>1. vm = UnpackItems(st, e.base, n)
        <5> HIDE DEF st
        <5> QED BY <1>4, <1>7, <3>1 DEF UnpackArray
      <4>2. st = start
        BY <3>1
      <4>3. vm = St(type, x, field, last, raw, more)
        BY <2>1, <3>1, <4>1, <4>2
      <4> HIDE DEF vm, x
      <4> QED BY <3>1, <4>3 DEF Stored
    <3>2. CASE type = "MAP"
      <4>1. vm = LeaveList(st, UnpackItems(EnterList(st), e.base, n))
        <5> HIDE DEF st
        <5> QED BY <1>4, <1>7, <3>2 DEF UnpackArray
      <4>2. EnterList(st) = start
        BY EnterListState
      <4>3. LeaveList(St("MAP", value, field, 0, raw, next), St("LIST", x, field, last, raw, more))
              = St("MAP", Insert(value, field, x), field, 0, raw, more)
        <5> HIDE DEF x, more
        <5> QED BY LeaveListState
      <4>4. vm = St("MAP", Insert(value, field, x), field, 0, raw, more)
        BY <2>1, <3>2, <4>1, <4>2, <4>3
      <4> HIDE DEF vm, x, more
      <4> QED BY <3>2, <4>4 DEF Stored
    <3> QED BY <3>1, <3>2
  <2> HIDE DEF vm, x
  <2>4. \E y, k : /\ IsItemReading(Area(raw, next, ItemLen(e)), e, y)
                  /\ vm = St(type, Stored(type, value, field, y), field, k, raw,
                             next + ItemLen(e))
                  /\ type # "LIST" => k = 0
    BY <1>2, <2>2, <2>3
  <2> QED BY <1>5, <1>7, <2>4 DEF UnpackedItem, vm
<1> QED BY <1>6, <1>7

\* Unpacking any item.
LEMMA UnpackItem ==
    ASSUME NEW e, IsItemElement(e), NEW type, Suits(e, type), NEW value, NEW field,
           type = "LIST" => value = List(<<>>), NEW raw \in Seq(Byte), NEW next \in Nat \ {0},
           next + ItemLen(e) <= Len(raw) + 1, NEW junk
    PROVE  UnpackedItem(ExecOperation(St(type, value, field, 0, raw, next), ItemOp("UNPACK", e),
                                      junk),
                        e, type, value, field, raw, next)
<1> DEFINE st == St(type, value, field, 0, raw, next)
<1>1. e.arrayLen \in Nat /\ e.base # "REC"
  BY Sizes DEF IsItemElement, Width
<1>2. CASE e.base = "STR"
  <2>1. type \in {"SCALAR", "MAP"}
    BY <1>2 DEF Suits, VType
  <2> HIDE DEF st
  <2>2. ExecOperation(st, ItemOp("UNPACK", e), junk) = UnpackString(st, e.arrayLen)
    BY <1>2, Operations
  <2>3. UnpackedItem(UnpackString(st, e.arrayLen), e, type, value, field, raw, next)
    BY <1>2, <2>1, UnpackText DEF st
  <2> QED BY <2>2, <2>3 DEF st
<1>3. CASE e.base # "STR" /\ e.arrayLen = 0
  <2>1. type \in {"SCALAR", "MAP"}
    BY <1>1, <1>3 DEF Suits, VType
  <2> HIDE DEF st
  <2>2. ExecOperation(st, ItemOp("UNPACK", e), junk) = UnpackInteger(st, e.base)
    BY <1>3, Operations
  <2>3. UnpackedItem(UnpackInteger(st, e.base), e, type, value, field, raw, next)
    BY <1>3, <2>1, UnpackOneNumber DEF st
  <2> QED BY <2>2, <2>3 DEF st
<1>4. CASE e.base # "STR" /\ e.arrayLen > 0
  <2>1. type \in {"LIST", "MAP"}
    BY <1>1, <1>4 DEF Suits, VType
  <2> HIDE DEF st
  <2>2. ExecOperation(st, ItemOp("UNPACK", e), junk) = UnpackArray(st, e.base, e.arrayLen)
    BY <1>4, Operations
  <2>3. UnpackedItem(UnpackArray(st, e.base, e.arrayLen), e, type, value, field, raw, next)
    BY <1>4, <2>1, UnpackList DEF st
  <2> QED BY <2>2, <2>3 DEF st
<1> QED BY <1>1, <1>2, <1>3, <1>4
-----------------------------------------------------------------------------
(* Programs. *)

\* The loop over the operations goes as its definition says.
LEMMA ProgStatesDef ==
    ASSUME NEW prog, Len(prog) \in Nat, NEW vm, NEW junk
    PROVE  LET g == ProgStates(prog, vm, junk) IN
           /\ g[0] = vm
           /\ \A i \in 1 .. Len(prog) :
                g[i] = IF Failed(g[i-1]) THEN g[i-1] ELSE ExecOperation(g[i-1], prog[i], junk)
<1> DEFINE n == Len(prog)
           Step(m, i) == IF m.exception # "NONE" THEN m ELSE ExecOperation(m, prog[i], junk)
           Is(f, k) == f = [i \in 0 .. k |-> IF i = 0 THEN vm ELSE Step(f[i-1], i)]
           good == {k \in 0 .. n : \E f : Is(f, k)}
<1>0. ProgStates(prog, vm, junk) = CHOOSE f : Is(f, n)
  BY DEF ProgStates
<1>s. \A m, i : Step(m, i) = IF Failed(m) THEN m ELSE ExecOperation(m, prog[i], junk)
  BY DEF Failed
<1> HIDE DEF Step
<1>n. n \in Nat
  OBVIOUS
<1> HIDE DEF n
<1>1. 0 \in good
  <2> DEFINE f == [i \in 0 .. 0 |-> vm]
  <2>1. \A i \in 0 .. 0 : i = 0
    OBVIOUS
  <2>2. Is(f, 0)
    BY <2>1
  <2> HIDE DEF f
  <2> QED BY <1>n, <2>2
<1>2. ASSUME NEW k \in 1 .. n, k - 1 \in good PROVE k \in good
  <2>1. PICK g : Is(g, k - 1)
    BY <1>2
  <2> DEFINE f == [i \in 0 .. k |-> IF i = k THEN Step(g[k-1], k) ELSE g[i]]
  <2>2. ASSUME NEW i \in 0 .. k PROVE f[i] = IF i = 0 THEN vm ELSE Step(f[i-1], i)
    <3>1. CASE i = k
      <4>1. f[i] = Step(g[k-1], k) /\ f[k-1] = g[k-1] /\ i # 0
        BY <1>n, <3>1
      <4> QED BY <3>1, <4>1
    <3>2. CASE i # k /\ i # 0
      <4>1. i \in 0 .. k - 1 /\ i - 1 \in 0 .. k /\ i - 1 # k
        BY <1>n, <3>2
      <4>2. f[i] = g[i] /\ f[i-1] = g[i-1]
        BY <3>2, <4>1
      <4>3. g[i] = Step(g[i-1], i)
        BY <2>1, <3>2, <4>1
      <4> QED BY <3>2, <4>2, <4>3
    <3>3. CASE i = 0
      <4>1. 0 \in 0 .. k - 1 /\ f[0] = g[0]
        BY <1>n, <3>3
      <4>2. g[0] = vm
        BY <2>1, <4>1
      <4> QED BY <3>3, <4>1, <4>2
    <3> QED BY <3>1, <3>2, <3>3
  <2>3. f = [i \in 0 .. k |-> f[i]]
    OBVIOUS
  <2> HIDE DEF f
  <2>4. Is(f, k)
    BY <2>2, <2>3
  <2> QED BY <1>n, <2>4
<1>3. n \in good
  <2> HIDE DEF good
  <2>1. 0 .. n \subseteq good
    BY <1>n, <1>1, <1>2, Reached
  <2> QED BY <1>n, <2>1
<1> DEFINE g == CHOOSE f : Is(f, n)
<1>4. Is(g, n)
  BY <1>3
<1> HIDE DEF g
<1>5. g[0] = vm /\ \A i \in 1 .. n : g[i] = Step(g[i-1], i)
  BY <1>n, <1>4
<1> QED BY <1>0, <1>5, <1>s DEF g, n

\* Every item takes bytes.
LEMMA ItemTakes ==
    ASSUME NEW e, IsItemElement(e)
    PROVE  ItemLen(e) \in Nat \ {0} /\ e.base # "REC"
<1> DEFINE w == Width[e.base]
           n == IF e.arrayLen > 0 THEN e.arrayLen ELSE 1
<1>1. e.arrayLen \in Nat /\ e.base \in DOMAIN Width /\ e.base # "REC"
  BY Sizes DEF IsItemElement, Width
<1>2. w \in Nat \ {0}
  BY <1>1 DEF Width
<1>3. n \in Nat \ {0}
  BY <1>1
<1> HIDE DEF w, n
<1>4. w * n \in Nat \ {0}
  BY <1>2, <1>3
<1> QED BY <1>1, <1>4 DEF ItemLen, w, n

\* The fields of a record lie one behind the other.
LEMMA FieldsOf ==
    ASSUME NEW e, IsElement(e), e.base = "REC"
    PROVE  LET n == Len(e.fields)
               g == FieldEnds(e)
           IN  /\ n \in Nat \ {0} /\ DOMAIN e.fields = 1 .. n
               /\ g \in [0 .. n -> Nat] /\ g[0] = 0 /\ PackLen(e) = g[n]
               /\ \A i \in 1 .. n : /\ IsItemElement(e.fields[i].elem)
                                    /\ ItemLen(e.fields[i].elem) \in Nat \ {0}
                                    /\ g[i] = g[i-1] + ItemLen(e.fields[i].elem)
               /\ \A i \in 0 .. n : \A j \in i .. n : g[i] <= g[j]
               /\ \A i, j \in 1 .. n : e.fields[i].name = e.fields[j].name => i = j
<1> DEFINE n == Len(e.fields)
           s == [i \in DOMAIN e.fields |-> ItemLen(e.fields[i].elem)]
           g == FieldEnds(e)
<1>1. n \in Nat \ {0} /\ DOMAIN e.fields = 1 .. n
  <2> DEFINE S == {e.fields[i] : i \in DOMAIN e.fields}
             f == e.fields
  <2>1. f \in Seq(S) /\ f # <<>>
    BY DEF IsElement
  <2> HIDE DEF S, f
  <2>2. Len(f) \in Nat /\ DOMAIN f = 1 .. Len(f) /\ (Len(f) = 0 <=> f = <<>>)
    BY <2>1, LenProperties, EmptySeq
  <2> QED BY <2>1, <2>2 DEF f
<1>2. \A i \in 1 .. n : IsItemElement(e.fields[i].elem) /\ ItemLen(e.fields[i].elem) \in Nat \ {0}
  <2>1. TAKE i \in 1 .. n
  <2>2. IsItemElement(e.fields[i].elem)
    BY <1>1 DEF IsElement
  <2> QED BY <2>2, ItemTakes
<1>3. s \in Seq(Nat) /\ Len(s) = n /\ \A i \in 1 .. n : s[i] = ItemLen(e.fields[i].elem)
  <2>1. s \in [1 .. n -> Nat] /\ \A i \in 1 .. n : s[i] = ItemLen(e.fields[i].elem)
    BY <1>1, <1>2
  <2> HIDE DEF s, n
  <2> QED BY <1>1, <2>1, OfLength
<1>4. g = Sums(s)
  BY DEF FieldEnds
<1> HIDE DEF s, n, g
<1>5. /\ g \in [0 .. n -> Nat] /\ g[0] = 0
      /\ \A i \in 1 .. n : g[i] = g[i-1] + s[i]
      /\ \A i \in 0 .. n : \A j \in i .. n : g[i] <= g[j]
  BY <1>3, <1>4, SumsGrow
<1>6. \A i \in 1 .. n : g[i] = g[i-1] + ItemLen(e.fields[i].elem)
  BY <1>3, <1>5
<1>7. PackLen(e) = g[n]
  BY DEF PackLen, g, n
<1>8. \A i, j \in 1 .. n : e.fields[i].name = e.fields[j].name => i = j
  BY <1>1 DEF IsElement
<1> QED BY <1>1, <1>2, <1>5, <1>6, <1>7, <1>8 DEF n, g

\* An element takes bytes, and its program has the operation that says how many.
LEMMA ElementTakes ==
    ASSUME NEW e, IsElement(e)
    PROVE  /\ PackLen(e) \in Nat \ {0} /\ PackLen(e) <= MaxPackLen
           /\ e.base # "REC" => IsItemElement(e) /\ PackLen(e) = ItemLen(e)
<1>1. CASE e.base = "REC"
  <2> DEFINE n == Len(e.fields)
             g == FieldEnds(e)
             l == ItemLen(e.fields[n].elem)
  <2>1. /\ n \in Nat \ {0} /\ g \in [0 .. n -> Nat] /\ PackLen(e) = g[n]
        /\ \A i \in 1 .. n : /\ ItemLen(e.fields[i].elem) \in Nat \ {0}
                             /\ g[i] = g[i-1] + ItemLen(e.fields[i].elem)
    BY <1>1, FieldsOf
  <2> HIDE DEF n, g
  <2>2. n \in 1 .. n /\ n - 1 \in 0 .. n
    BY <2>1
  <2>3. g[n] = g[n-1] + l /\ l \in Nat \ {0} /\ g[n-1] \in Nat
    BY <2>1, <2>2
  <2> HIDE DEF l
  <2>4. PackLen(e) \in Nat \ {0}
    BY <2>1, <2>3
  <2> QED BY <1>1, <2>4 DEF IsElement
<1>2. CASE e.base # "REC"
  <2>1. IsItemElement(e) /\ PackLen(e) = ItemLen(e)
    BY <1>2 DEF IsElement, PackLen
  <2> QED BY <1>2, <2>1, ItemTakes DEF IsElement
<1> QED BY <1>1, <1>2

Args(dir, e) == [op |-> "ARGS", dir |-> dir, vtype |-> VType(e), packLen |-> PackLen(e)]

\* A program says which kind of value and how many bytes it is about; then it has the
\* operation of the item, or two operations for each field.
LEMMA ProgramOf ==
    ASSUME NEW e, IsElement(e), NEW dir
    PROVE  LET prog == GenData(dir, e)
               n == Len(e.fields)
           IN  /\ prog[1] = Args(dir, e)
               /\ e.base # "REC" => Len(prog) = 2 /\ prog[2] = ItemOp(dir, e)
               /\ e.base = "REC" =>
                    /\ Len(prog) = 2 * n + 1
                    /\ \A i \in 1 .. n : /\ prog[2*i] = RecordSelect(e.fields[i].name)
                                         /\ prog[2*i+1] = ItemOp(dir, e.fields[i].elem)
<1> DEFINE a == Args(dir, e)
           n == Len(e.fields)
           prog == GenData(dir, e)
<1>1. SetArgs(dir, e) = <<a>>
  <2>1. PackLen(e) # 0 /\ ~ (PackLen(e) > MaxPackLen)
    <3>1. PackLen(e) \in Nat \ {0} /\ PackLen(e) <= MaxPackLen /\ MaxPackLen \in Nat
      BY ElementTakes, Sizes
    <3> QED BY <3>1
  <2> QED BY <2>1 DEF SetArgs, Args
<1> HIDE DEF a
<1>2. CASE e.base # "REC"
  <2> DEFINE o == ItemOp(dir, e)
  <2> HIDE DEF o
  <2>1. prog = <<a>> \o <<o>>
    BY <1>1, <1>2 DEF GenData, o
  <2>2. Len(<<a>> \o <<o>>) = 2 /\ (<<a>> \o <<o>>)[1] = a /\ (<<a>> \o <<o>>)[2] = o
    OBVIOUS
  <2> HIDE DEF prog
  <2> QED BY <1>2, <2>1, <2>2 DEF prog, a, o
<1>3. CASE e.base = "REC"
  <2> DEFINE body == [k \in 1 .. 2 * n |->
                       LET field == e.fields[(k + 1) \div 2] IN
                       IF k % 2 = 1 THEN RecordSelect(field.name) ELSE ItemOp(dir, field.elem)]
             S == {a} \cup {body[k] : k \in 1 .. 2 * n}
  <2>1. n \in Nat \ {0}
    BY <1>3, FieldsOf
  <2>2. prog = <<a>> \o body
    <3> HIDE DEF a
    <3> QED BY <1>1, <1>3 DEF GenData
  <2>3. ASSUME NEW i \in 1 .. n
        PROVE  /\ 2 * i - 1 \in 1 .. 2 * n /\ 2 * i \in 1 .. 2 * n
               /\ body[2*i-1] = RecordSelect(e.fields[i].name)
               /\ body[2*i] = ItemOp(dir, e.fields[i].elem)
    <3> HIDE DEF n
    <3>1. 2 * i - 1 \in 1 .. 2 * n /\ 2 * i \in 1 .. 2 * n
      BY <2>1
    <3>2. ((2 * i - 1) + 1) \div 2 = i /\ (2 * i - 1) % 2 = 1
      OBVIOUS
    <3>3. (2 * i + 1) \div 2 = i /\ (2 * i) % 2 # 1
      OBVIOUS
    <3>4. body[2*i-1] = RecordSelect(e.fields[i].name)
      BY <3>1, <3>2
    <3>5. body[2*i] = ItemOp(dir, e.fields[i].elem)
      BY <3>1, <3>3
    <3> QED BY <3>1, <3>4, <3>5
  <2>4. body \in [1 .. 2 * n -> S] /\ a \in S
    OBVIOUS
  <2> HIDE DEF body, S, n
  <2>5. body \in Seq(S) /\ Len(body) = 2 * n
    <3>1. 2 * n \in Nat
      BY <2>1
    <3> QED BY <2>4, <3>1, OfLength
  <2>6. /\ Len(prog) = 2 * n + 1 /\ prog[1] = a
        /\ \A k \in 1 .. 2 * n : prog[k+1] = body[k]
    <3>1. <<a>> \in Seq(S) /\ Len(<<a>>) = 1 /\ <<a>>[1] = a
      BY <2>4
    <3>2. /\ Len(<<a>> \o body) = 1 + Len(body)
          /\ \A k \in 1 .. 1 + Len(body) :
               (<<a>> \o body)[k] = IF k <= 1 THEN <<a>>[k] ELSE body[k-1]
      BY <2>5, <3>1, ConcatProperties
    <3> HIDE DEF prog
    <3>3. prog[1] = a
      BY <2>1, <2>2, <2>5, <3>1, <3>2
    <3>4. ASSUME NEW k \in 1 .. 2 * n PROVE prog[k+1] = body[k]
      <4>1. k + 1 \in 1 .. 1 + Len(body) /\ ~ (k + 1 <= 1) /\ (k + 1) - 1 = k
        BY <2>1, <2>5
      <4> QED BY <2>2, <3>2, <4>1
    <3> QED BY <2>1, <2>2, <2>5, <3>2, <3>3, <3>4
  <2> HIDE DEF prog
  <2>7. ASSUME NEW i \in 1 .. n
        PROVE  /\ prog[2*i] = RecordSelect(e.fields[i].name)
               /\ prog[2*i+1] = ItemOp(dir, e.fields[i].elem)
    <3>1. (2 * i - 1) + 1 = 2 * i
      OBVIOUS
    <3>2. prog[(2*i-1)+1] = body[2*i-1] /\ prog[2*i+1] = body[2*i]
      BY <2>3, <2>6
    <3> QED BY <2>3, <3>1, <3>2
  <2> QED BY <1>3, <2>6, <2>7 DEF prog, a, n
<1> QED BY <1>2, <1>3

\* The first operation makes room, or finds the bytes, for values of the right kind.
LEMMA ArgsStep ==
    ASSUME NEW e, IsElement(e), NEW value, NEW raw \in Seq(Byte), NEW junk \in Byte
    PROVE  LET st == St(VType(e), value, "", 0, raw, 1) IN
           /\ \E b \in Seq(Byte) :
                /\ Len(b) = PackLen(e)
                /\ ExecOperation(st, Args("PACK", e), junk) = St(VType(e), value, "", 0, b, 1)
           /\ Len(raw) >= PackLen(e) => ExecOperation(st, Args("UNPACK", e), junk) = st
<1> DEFINE type == VType(e)
           n == PackLen(e)
           none == ""
           one == 1
           st == St(type, value, none, 0, raw, one)
           b == [i \in 1 .. n |-> junk]
<1>1. n \in Nat /\ Len(raw) \in Nat
  BY ElementTakes, LenProperties
<1>2. b \in Seq(Byte) /\ Len(b) = n
  <2>1. b \in [1 .. n -> Byte]
    OBVIOUS
  <2> HIDE DEF b, n
  <2> QED BY <1>1, <2>1, OfLength
<1> HIDE DEF b, n, type, none, one
<1>3. st.type = type /\ st.raw = raw
  BY DEF St
<1>4. ExecOperation(st, Args("PACK", e), junk) = St(type, value, none, 0, b, one)
  <2>1. ExecOperation(st, Args("PACK", e), junk) = [st EXCEPT !.raw = b, !.next = one]
    <3>1. /\ Args("PACK", e).op = "ARGS" /\ Args("PACK", e).dir = "PACK"
          /\ Args("PACK", e).vtype = type /\ Args("PACK", e).packLen = n
      BY DEF Args, type, n
    <3>2. b = [i \in 1 .. Args("PACK", e).packLen |-> junk]
      BY <3>1 DEF b
    <3> DEFINE ins == Args("PACK", e)
    <3> HIDE DEF st, ins
    <3> QED BY <1>3, <3>1, <3>2 DEF ExecOperation, ExecArgs, ins, one
  <2>2. [st EXCEPT !.raw = b, !.next = one] = [[st EXCEPT !.raw = b] EXCEPT !.next = one]
    BY DEF St
  <2>3. [st EXCEPT !.raw = b] = St(type, value, none, 0, b, one)
    BY DEF St
  <2>4. [St(type, value, none, 0, b, one) EXCEPT !.next = one] = St(type, value, none, 0, b, one)
    BY DEF St
  <2> QED BY <2>1, <2>2, <2>3, <2>4
<1>5. ASSUME Len(raw) >= n PROVE ExecOperation(st, Args("UNPACK", e), junk) = st
  <2>1. ExecOperation(st, Args("UNPACK", e), junk) = [st EXCEPT !.next = one]
    <3> DEFINE ins == Args("UNPACK", e)
    <3>1. /\ ins.op = "ARGS" /\ ins.dir = "UNPACK" /\ ins.vtype = type /\ ins.packLen = n
      BY DEF Args, type, n
    <3>2. ~ (Len(st.raw) < ins.packLen)
      <4>1. st.raw = raw /\ ins.packLen = n
        BY <1>3, <3>1
      <4> HIDE DEF st, ins
      <4> QED BY <1>1, <1>5, <4>1
    <3> HIDE DEF st, ins
    <3> QED BY <1>3, <3>1, <3>2 DEF ExecOperation, ExecArgs, ins, one
  <2>2. [st EXCEPT !.next = one] = st
    BY DEF St
  <2> QED BY <2>1, <2>2
<1> QED BY <1>2, <1>4, <1>5 DEF type, n, none, one

\* Selecting a field.
LEMMA SelectStep ==
    ASSUME NEW value, NEW field, NEW raw, NEW next, NEW name, NEW junk
    PROVE  ExecOperation(St("MAP", value, field, 0, raw, next), RecordSelect(name), junk)
             = St("MAP", value, name, 0, raw, next)
<1> DEFINE st == St("MAP", value, field, 0, raw, next)
<1>1. [st EXCEPT !.field = name] = St("MAP", value, name, 0, raw, next)
  BY DEF St
<1>2. st.type = "MAP"
  BY DEF St
<1>3. RecordSelect(name).op = "SELECT" /\ RecordSelect(name).name = name
  BY DEF RecordSelect
<1> DEFINE ins == RecordSelect(name)
<1> HIDE DEF st, ins
<1>4. ExecOperation(st, ins, junk) = [st EXCEPT !.field = name]
  BY <1>2, <1>3 DEF ExecOperation, ExecRecordSelect, ins
<1> QED BY <1>1, <1>4 DEF st, ins
-----------------------------------------------------------------------------
(* Whole elements are packed. *)

\* A field that can be packed from the value.
FieldFits(e, i, value) ==
    /\ CanPack(e.fields[i].elem, "MAP", e.fields[i].name)
    /\ FitsItem(e.fields[i].elem, Field(value, e.fields[i].name))

\* The part of the bytes from which a field is read.
FieldArea(e, i, raw) == Area(raw, FieldEnds(e)[i-1] + 1, ItemLen(e.fields[i].elem))

\* The first k fields are packed ...
FieldsPut(vm, e, value, k) ==
    \E b, field :
      /\ vm = St("MAP", value, field, 0, b, FieldEnds(e)[k] + 1)
      /\ b \in Seq(Byte) /\ Len(b) = PackLen(e)
      /\ \A i \in 1 .. k : /\ FieldFits(e, i, value)
                           /\ HoldsItem(FieldArea(e, i, b), e.fields[i].elem,
                                        Field(value, e.fields[i].name))

\* ... or one of them could not be.
FieldsFailed(vm, e, value, k) == Failed(vm) /\ \E i \in 1 .. k : ~ FieldFits(e, i, value)

\* The next field is packed.
LEMMA PackField ==
    ASSUME NEW e, IsElement(e), e.base = "REC", NEW value, IsVariant(value), value.kind = "map",
           NEW k \in 1 .. Len(e.fields), NEW vm, FieldsPut(vm, e, value, k - 1), NEW junk
    PROVE  LET selected == ExecOperation(vm, RecordSelect(e.fields[k].name), junk)
               next == ExecOperation(selected, ItemOp("PACK", e.fields[k].elem), junk)
           IN  /\ ~ Failed(selected)
               /\ FieldsPut(next, e, value, k) \/ FieldsFailed(next, e, value, k)
<1> DEFINE n == Len(e.fields)
           g == FieldEnds(e)
           name == e.fields[k].name
           elem == e.fields[k].elem
           at == g[k-1] + 1
           x == Field(value, name)
           selected == ExecOperation(vm, RecordSelect(name), junk)
           next == ExecOperation(selected, ItemOp("PACK", elem), junk)
<1>1. /\ n \in Nat \ {0} /\ g \in [0 .. n -> Nat] /\ PackLen(e) = g[n]
      /\ \A i \in 1 .. n : /\ IsItemElement(e.fields[i].elem)
                           /\ ItemLen(e.fields[i].elem) \in Nat \ {0}
                           /\ g[i] = g[i-1] + ItemLen(e.fields[i].elem)
      /\ \A i \in 0 .. n : \A j \in i .. n : g[i] <= g[j]
  BY FieldsOf
<1>2. PICK b, field : /\ vm = St("MAP", value, field, 0, b, at)
                      /\ b \in Seq(Byte) /\ Len(b) = PackLen(e)
                      /\ \A i \in 1 .. k - 1 :
                           /\ FieldFits(e, i, value)
                           /\ HoldsItem(FieldArea(e, i, b), e.fields[i].elem,
                                        Field(value, e.fields[i].name))
  BY DEF FieldsPut
<1>3. /\ k \in 1 .. n /\ k - 1 \in 0 .. n /\ at \in Nat \ {0} /\ g[k] + 1 = at + ItemLen(elem)
      /\ at + ItemLen(elem) <= Len(b) + 1 /\ IsItemElement(elem) /\ ItemLen(elem) \in Nat \ {0}
  <2> HIDE DEF n, g
  <2>1. k \in 1 .. n /\ k - 1 \in 0 .. n /\ k \in 0 .. n /\ n \in k .. n
    BY <1>1 DEF n
  <2>2. g[k] <= g[n] /\ g[k-1] \in Nat /\ g[k] \in Nat /\ g[n] \in Nat
    BY <1>1, <2>1
  <2>3. g[k] = g[k-1] + ItemLen(elem) /\ IsItemElement(elem) /\ ItemLen(elem) \in Nat \ {0}
    BY <1>1, <2>1
  <2>4. Len(b) = g[n]
    BY <1>1, <1>2
  <2> DEFINE l == ItemLen(elem)
  <2>5. g[k] = g[k-1] + l /\ l \in Nat \ {0} /\ IsItemElement(elem)
    BY <2>3
  <2> HIDE DEF l, elem
  <2>6. /\ at \in Nat \ {0} /\ g[k] + 1 = at + l /\ at + l <= Len(b) + 1
    BY <2>2, <2>4, <2>5, SMTT(30)
  <2> HIDE DEF at
  <2> QED BY <2>1, <2>5, <2>6 DEF l
<1>4. selected = St("MAP", value, name, 0, b, at)
  <2> HIDE DEF at
  <2> QED BY <1>2, SelectStep
<1>5. ~ Failed(selected)
  BY <1>4, Parts
<1> HIDE DEF selected
<1>6. IsItemVariant(Target("MAP", value, name)) /\ Target("MAP", value, name) = x
  <2>1. CASE name \in DOMAIN value.fields
    BY <2>1 DEF Target, Field, IsVariant
  <2>2. CASE name \notin DOMAIN value.fields
    BY <2>2 DEF Target, Field, Null, IsItemVariant, IsScalar
  <2> QED BY <2>1, <2>2
<1>7. PackedItem(next, elem, "MAP", value, name, b, at)
  <2>1. Suits(elem, "MAP")
    BY DEF Suits
  <2> DEFINE st == St("MAP", value, name, 0, b, at)
             it == elem
             id == name
             to == at
  <2>2. /\ IsItemElement(it) /\ to \in Nat \ {0} /\ to + ItemLen(it) <= Len(b) + 1
        /\ IsItemVariant(Target("MAP", value, id)) /\ Suits(it, "MAP") /\ b \in Seq(Byte)
    BY <1>2, <1>3, <1>6, <2>1
  <2> HIDE DEF it, id, to
  <2>3. PackedItem(ExecOperation(St("MAP", value, id, 0, b, to), ItemOp("PACK", it), junk),
                   it, "MAP", value, id, b, to)
    BY <2>2, PackItem
  <2> QED BY <1>4, <2>3 DEF it, id, to
<1> HIDE DEF next
<1>8. CASE ~ (CanPack(elem, "MAP", name) /\ FitsItem(elem, x))
  <2>1. Failed(next)
    BY <1>6, <1>7, <1>8 DEF PackedItem
  <2>2. ~ FieldFits(e, k, value)
    BY <1>8 DEF FieldFits
  <2>3. k \in 1 .. k
    OBVIOUS
  <2>4. FieldsFailed(next, e, value, k)
    BY <2>1, <2>2, <2>3 DEF FieldsFailed
  <2> QED BY <1>5, <2>4 DEF next, selected
<1>9. CASE CanPack(elem, "MAP", name) /\ FitsItem(elem, x)
  <2>1. PICK c, last : /\ ItemPut(c, b, at, elem, x)
                       /\ next = St("MAP", value, name, last, c, at + ItemLen(elem))
                       /\ last = 0
    <3>1. \E c, last : /\ ItemPut(c, b, at, elem, x)
                       /\ next = St("MAP", value, name, last, c, at + ItemLen(elem))
                       /\ "MAP" # "LIST" => last = 0
      BY <1>6, <1>7, <1>9 DEF PackedItem
    <3> HIDE DEF elem, x, at, name
    <3> QED BY <3>1
  <2>2. c \in Seq(Byte) /\ Len(c) = PackLen(e) /\ SameOutside(c, b, at, ItemLen(elem))
    BY <1>2, <2>1 DEF ItemPut, SameOutside
  <2>3. ASSUME NEW i \in 1 .. k
        PROVE  /\ FieldFits(e, i, value)
               /\ HoldsItem(FieldArea(e, i, c), e.fields[i].elem, Field(value, e.fields[i].name))
    <3>1. CASE i = k
      BY <1>9, <2>1, <3>1 DEF FieldFits, FieldArea, ItemPut
    <3>2. CASE i # k
      <4> DEFINE a == g[i-1] + 1
                 m == ItemLen(e.fields[i].elem)
      <4>1. /\ a \in Nat \ {0} /\ m \in Nat /\ a + m <= at /\ a + m <= Len(b) + 1
            /\ i \in 1 .. k - 1
        <5> HIDE DEF n, g
        <5>0. n \in Nat /\ k \in 1 .. n
          BY <1>1, <1>3
        <5>1. i \in 1 .. n /\ i \in 1 .. k - 1 /\ i - 1 \in 0 .. n /\ i \in 0 .. n /\ k - 1 \in i .. n
              /\ k - 1 \in 0 .. n
          BY <3>2, <5>0
        <5>2. g[i] <= g[k-1] /\ g[i] = g[i-1] + m /\ m \in Nat \ {0}
          BY <1>1, <5>1
        <5>3. g[i] \in Nat /\ g[i-1] \in Nat /\ g[k-1] \in Nat
          BY <1>1, <5>1
        <5>4. at <= Len(b) + 1 /\ Len(b) \in Nat
          <6>1. Len(b) \in Nat
            BY <1>2, LenProperties
          <6> HIDE DEF at, elem
          <6> QED BY <1>3, <6>1
        <5> DEFINE q == g[i-1]
                   r == g[k-1]
        <5>5. q \in Nat /\ r \in Nat /\ m \in Nat /\ q + m <= r /\ a = q + 1 /\ at = r + 1
          <6> HIDE DEF m
          <6> QED BY <5>2, <5>3
        <5> HIDE DEF m, q, r, a, at
        <5>6. a \in Nat \ {0} /\ a + m <= at /\ a + m <= Len(b) + 1
          BY <5>4, <5>5
        <5> QED BY <5>1, <5>5, <5>6
      <4> HIDE DEF a, m, at, elem
      <4>2. Area(c, a, m) = Area(b, a, m)
        BY <1>2, <1>3, <2>2, <4>1, AreaKept
      <4>3. FieldArea(e, i, c) = FieldArea(e, i, b)
        BY <4>2 DEF FieldArea, a, m
      <4> QED BY <1>2, <4>1, <4>3
    <3> QED BY <3>1, <3>2
  <2>4. next = St("MAP", value, name, 0, c, FieldEnds(e)[k] + 1)
    BY <1>3, <2>1
  <2> HIDE DEF name, x, at, elem, g
  <2>5. FieldsPut(next, e, value, k)
    BY <2>2, <2>3, <2>4 DEF FieldsPut
  <2> QED BY <1>5, <2>5 DEF next, selected, elem, name
<1> QED BY <1>8, <1>9

\* A value of the kind an element has.
HasKind(e, v) ==
    /\ VType(e) = "MAP" => v.kind = "map"
    /\ VType(e) = "LIST" => v.kind = "list"

\* What packing comes to.
Packed(e, v, vm) ==
    IF Packable(e) /\ Fits(e, v)
    THEN ~ Failed(vm) /\ vm.raw \in Bytes(PackLen(e)) /\ Holds(vm.raw, e, v)
    ELSE Failed(vm)

\* A whole record.
LEMMA PackRecord ==
    ASSUME NEW e, IsElement(e), e.base = "REC", NEW v, IsVariant(v), v.kind = "map",
           NEW junk \in Byte
    PROVE  Packed(e, v, ProgStates(GenData("PACK", e), St("MAP", v, "", 0, <<>>, 1), junk)
                          [Len(GenData("PACK", e))])
<1> DEFINE n == Len(e.fields)
           prog == GenData("PACK", e)
           fresh == St("MAP", v, "", 0, <<>>, 1)
           g == ProgStates(prog, fresh, junk)
           good == {k \in 0 .. n : FieldsPut(g[2*k+1], e, v, k) \/ FieldsFailed(g[2*k+1], e, v, k)}
<1>1. /\ n \in Nat \ {0} /\ DOMAIN e.fields = 1 .. n
      /\ FieldEnds(e)[0] = 0 /\ PackLen(e) = FieldEnds(e)[n]
      /\ \A i \in 1 .. n : /\ IsItemElement(e.fields[i].elem)
                           /\ ItemLen(e.fields[i].elem) \in Nat \ {0}
  BY FieldsOf
<1>2. /\ prog[1] = Args("PACK", e) /\ Len(prog) = 2 * n + 1
      /\ \A i \in 1 .. n : /\ prog[2*i] = RecordSelect(e.fields[i].name)
                           /\ prog[2*i+1] = ItemOp("PACK", e.fields[i].elem)
  BY ProgramOf
<1>t. VType(e) = "MAP"
  BY DEF VType
<1> HIDE DEF n, prog
<1>3. /\ g[0] = fresh
      /\ \A i \in 1 .. 2 * n + 1 :
           g[i] = IF Failed(g[i-1]) THEN g[i-1] ELSE ExecOperation(g[i-1], prog[i], junk)
  <2>1. Len(prog) \in Nat
    BY <1>1, <1>2
  <2> HIDE DEF fresh
  <2> QED BY <1>2, <2>1, ProgStatesDef
<1> HIDE DEF g
<1>4. 0 \in good
  <2>1. g[1] = ExecOperation(fresh, Args("PACK", e), junk)
    <3>1. 1 \in 1 .. 2 * n + 1 /\ 1 - 1 = 0
      BY <1>1
    <3>2. ~ Failed(fresh)
      BY Parts
    <3> HIDE DEF fresh
    <3>3. g[1] = IF Failed(g[1-1]) THEN g[1-1] ELSE ExecOperation(g[1-1], prog[1], junk)
      BY <1>3, <3>1
    <3> QED BY <1>2, <1>3, <3>1, <3>2, <3>3
  <2>2. PICK b \in Seq(Byte) : Len(b) = PackLen(e) /\ g[1] = St("MAP", v, "", 0, b, 1)
    <3>1. << >> \in Seq(Byte)
      BY EmptySeq
    <3>2. \E b \in Seq(Byte) :
            /\ Len(b) = PackLen(e)
            /\ ExecOperation(St(VType(e), v, "", 0, <<>>, 1), Args("PACK", e), junk)
                 = St(VType(e), v, "", 0, b, 1)
      BY <3>1, ArgsStep
    <3> QED BY <1>t, <2>1, <3>2
  <2>3. \A i \in 1 .. 0 : FALSE
    OBVIOUS
  <2>4. 0 + 1 = 1 /\ 2 * 0 + 1 = 1
    OBVIOUS
  <2>5. g[1] = St("MAP", v, "", 0, b, FieldEnds(e)[0] + 1)
    BY <1>1, <2>2, <2>4
  <2>6. FieldsPut(g[1], e, v, 0)
    BY <2>2, <2>3, <2>5 DEF FieldsPut
  <2> QED BY <1>1, <2>4, <2>6
<1>5. ASSUME NEW k \in 1 .. n, k - 1 \in good PROVE k \in good
  <2> DEFINE m == 2 * k
  <2>1. /\ m \in 1 .. 2 * n + 1 /\ m + 1 \in 1 .. 2 * n + 1 /\ m - 1 = 2 * (k - 1) + 1
        /\ (m + 1) - 1 = m
    BY <1>1
  <2>2. /\ g[m] = IF Failed(g[m-1]) THEN g[m-1] ELSE ExecOperation(g[m-1], prog[m], junk)
        /\ g[m+1] = IF Failed(g[m]) THEN g[m] ELSE ExecOperation(g[m], prog[m+1], junk)
    BY <1>3, <2>1
  <2>3. /\ prog[m] = RecordSelect(e.fields[k].name)
        /\ prog[m+1] = ItemOp("PACK", e.fields[k].elem)
    BY <1>2
  <2>4. FieldsPut(g[m-1], e, v, k - 1) \/ FieldsFailed(g[m-1], e, v, k - 1)
    BY <1>5, <2>1
  <2> HIDE DEF m
  <2>5. FieldsPut(g[m+1], e, v, k) \/ FieldsFailed(g[m+1], e, v, k)
    <3>1. CASE FieldsFailed(g[m-1], e, v, k - 1)
      <4>1. g[m+1] = g[m-1]
        BY <2>2, <3>1 DEF FieldsFailed
      <4>2. FieldsFailed(g[m-1], e, v, k)
        <5>1. PICK i \in 1 .. k - 1 : ~ FieldFits(e, i, v)
          BY <3>1 DEF FieldsFailed
        <5>2. i \in 1 .. k
          OBVIOUS
        <5> QED BY <3>1, <5>1, <5>2 DEF FieldsFailed
      <4> QED BY <4>1, <4>2
    <3>2. CASE FieldsPut(g[m-1], e, v, k - 1)
      <4>1. ~ Failed(g[m-1])
        BY <3>2, Parts DEF FieldsPut
      <4> DEFINE selected == ExecOperation(g[m-1], RecordSelect(e.fields[k].name), junk)
                 next == ExecOperation(selected, ItemOp("PACK", e.fields[k].elem), junk)
      <4>2. ~ Failed(selected) /\ (FieldsPut(next, e, v, k) \/ FieldsFailed(next, e, v, k))
        <5>1. k \in 1 .. Len(e.fields)
          BY DEF n
        <5> QED BY <3>2, <5>1, PackField
      <4>3. g[m] = selected
        BY <2>2, <2>3, <4>1
      <4>4. g[m+1] = next
        BY <2>2, <2>3, <4>2, <4>3
      <4> QED BY <4>2, <4>4
    <3> QED BY <2>4, <3>1, <3>2
  <2> QED BY <1>1, <2>5 DEF m
<1>6. FieldsPut(g[2*n+1], e, v, n) \/ FieldsFailed(g[2*n+1], e, v, n)
  <2> HIDE DEF good
  <2>1. 0 .. n \subseteq good
    BY <1>1, <1>4, <1>5, Reached
  <2> QED BY <1>1, <2>1 DEF good
<1> DEFINE vm == g[2*n+1]
<1>7. Packable(e) /\ Fits(e, v) <=> \A i \in 1 .. n : FieldFits(e, i, v)
  <2>1. Packable(e) <=> \A i \in 1 .. n : CanPack(e.fields[i].elem, "MAP", e.fields[i].name)
    BY <1>1 DEF Packable, CanPack
  <2>2. Fits(e, v) <=> \A i \in 1 .. n : FitsItem(e.fields[i].elem, Field(v, e.fields[i].name))
    BY <1>1 DEF Fits
  <2> QED BY <2>1, <2>2 DEF FieldFits
<1>8. Packed(e, v, vm)
  <2> HIDE DEF vm
  <2>1. CASE FieldsFailed(vm, e, v, n)
    BY <1>7, <2>1 DEF FieldsFailed, Packed
  <2>2. CASE FieldsPut(vm, e, v, n)
    <3>1. PICK b, field : /\ vm = St("MAP", v, field, 0, b, FieldEnds(e)[n] + 1)
                          /\ b \in Seq(Byte) /\ Len(b) = PackLen(e)
                          /\ \A i \in 1 .. n : /\ FieldFits(e, i, v)
                                               /\ HoldsItem(FieldArea(e, i, b), e.fields[i].elem,
                                                            Field(v, e.fields[i].name))
      BY <2>2 DEF FieldsPut
    <3>2. vm.raw = b /\ ~ Failed(vm)
      BY <3>1, Parts
    <3>3. b \in Bytes(PackLen(e))
      BY <3>1, LenProperties DEF Bytes
    <3>4. \A i \in 1 .. n : FieldBytes(b, e, i) = FieldArea(e, i, b)
      <4>1. TAKE i \in 1 .. n
      <4> DEFINE l == ItemLen(e.fields[i].elem)
                 o == FieldEnds(e)[i-1]
      <4>2. l \in Nat /\ o \in Nat
        <5>1. FieldEnds(e) \in [0 .. n -> Nat] /\ i - 1 \in 0 .. n
          BY <1>1, FieldsOf DEF n
        <5> QED BY <1>1, <5>1
      <4> HIDE DEF l, o
      <4>3. o + l = (o + 1) + l - 1
        BY <4>2
      <4>4. SubSeq(b, o + 1, o + l) = Area(b, o + 1, l)
        BY <4>3 DEF Area
      <4> QED BY <4>4 DEF FieldBytes, FieldOffset, FieldArea, l, o
    <3>5. Holds(b, e, v)
      BY <1>1, <3>1, <3>4 DEF Holds
    <3> QED BY <1>7, <3>1, <3>2, <3>3, <3>5 DEF Packed
  <2> QED BY <1>6, <2>1, <2>2 DEF vm
<1> QED BY <1>2, <1>8 DEF g, vm, prog

\* An element that is no record.
LEMMA PackSingle ==
    ASSUME NEW e, IsElement(e), e.base # "REC", NEW v, IsVariant(v), HasKind(e, v),
           NEW junk \in Byte
    PROVE  Packed(e, v, ProgStates(GenData("PACK", e), St(VType(e), v, "", 0, <<>>, 1), junk)
                          [Len(GenData("PACK", e))])
<1> DEFINE type == VType(e)
           prog == GenData("PACK", e)
           fresh == St(type, v, "", 0, <<>>, 1)
           g == ProgStates(prog, fresh, junk)
           vm == g[2]
<1>1. IsItemElement(e) /\ PackLen(e) = ItemLen(e) /\ ItemLen(e) \in Nat \ {0}
  BY ElementTakes, ItemTakes
<1>2. prog[1] = Args("PACK", e) /\ Len(prog) = 2 /\ prog[2] = ItemOp("PACK", e)
  BY ProgramOf
<1>3. type \in {"SCALAR", "LIST"} /\ type # "MAP"
  BY <1>1 DEF VType, IsItemElement, Width
<1> HIDE DEF prog
<1>4. /\ g[0] = fresh
      /\ \A i \in 1 .. 2 :
           g[i] = IF Failed(g[i-1]) THEN g[i-1] ELSE ExecOperation(g[i-1], prog[i], junk)
  <2> HIDE DEF fresh
  <2> QED BY <1>2, ProgStatesDef
<1> HIDE DEF g
<1>5. PICK b \in Seq(Byte) : Len(b) = PackLen(e) /\ g[1] = St(type, v, "", 0, b, 1)
  <2>1. << >> \in Seq(Byte)
    BY EmptySeq
  <2>2. \E b \in Seq(Byte) :
          /\ Len(b) = PackLen(e)
          /\ ExecOperation(fresh, Args("PACK", e), junk) = St(type, v, "", 0, b, 1)
    BY <2>1, ArgsStep
  <2>3. ~ Failed(fresh)
    BY Parts, ZenonT(30)
  <2>4. 1 \in 1 .. 2 /\ 1 - 1 = 0
    OBVIOUS
  <2> HIDE DEF fresh
  <2>5. g[1] = IF Failed(g[1-1]) THEN g[1-1] ELSE ExecOperation(g[1-1], prog[1], junk)
    BY <1>4, <2>4
  <2>6. g[1] = ExecOperation(fresh, Args("PACK", e), junk)
    BY <1>2, <1>4, <2>3, <2>4, <2>5
  <2> QED BY <2>2, <2>6
<1>6. vm = ExecOperation(St(type, v, "", 0, b, 1), ItemOp("PACK", e), junk)
  <2>0. g[1] = St(type, v, "", 0, b, 1)
    BY <1>5
  <2>1. ~ Failed(g[1])
    <3> DEFINE none == ""
               one == 1
               st == St(type, v, none, 0, b, one)
    <3>1. g[1] = st
      BY <2>0
    <3> HIDE DEF type, none, one
    <3>2. ~ Failed(st)
      BY DEF St, Failed
    <3> HIDE DEF st
    <3> QED BY <3>1, <3>2
  <2>2. 2 \in 1 .. 2 /\ 2 - 1 = 1
    OBVIOUS
  <2>3. g[2] = IF Failed(g[2-1]) THEN g[2-1] ELSE ExecOperation(g[2-1], prog[2], junk)
    BY <1>4, <2>2
  <2> QED BY <1>2, <1>5, <2>1, <2>2, <2>3
<1>7. PackedItem(vm, e, type, v, "", b, 1)
  <2> DEFINE none == ""
             at == 1
  <2>1. /\ Suits(e, type) /\ (type = "LIST" => v.kind = "list")
        /\ IsItemVariant(Target(type, v, none)) /\ at \in Nat \ {0}
        /\ at + ItemLen(e) <= Len(b) + 1
    <3>1. Suits(e, type) /\ (type = "LIST" => v.kind = "list")
      BY DEF Suits, HasKind
    <3>2. IsItemVariant(Target(type, v, none))
      BY <1>3 DEF Target, IsVariant
    <3>3. at \in Nat \ {0} /\ at + ItemLen(e) <= Len(b) + 1
      <4> DEFINE l == ItemLen(e)
      <4>1. Len(b) = l /\ l \in Nat
        BY <1>1, <1>5
      <4> HIDE DEF l
      <4>2. at \in Nat \ {0} /\ at + l <= l + 1
        BY <4>1
      <4> QED BY <4>1, <4>2 DEF l
    <3> HIDE DEF at, none, type
    <3> QED BY <3>1, <3>2, <3>3
  <2> HIDE DEF none, at, type
  <2>2. PackedItem(ExecOperation(St(type, v, none, 0, b, at), ItemOp("PACK", e), junk),
                   e, type, v, none, b, at)
    BY <1>1, <2>1, PackItem
  <2> QED BY <1>6, <2>2 DEF none, at, type
<1> HIDE DEF vm
<1>8. Packable(e) /\ Fits(e, v) <=> CanPack(e, type, "") /\ FitsItem(e, Target(type, v, ""))
  BY <1>3 DEF Packable, Fits, CanPack, Target
<1>9. Packed(e, v, vm)
  <2>1. CASE ~ (CanPack(e, type, "") /\ FitsItem(e, Target(type, v, "")))
    BY <1>7, <1>8, <2>1 DEF PackedItem, Packed
  <2>2. CASE CanPack(e, type, "") /\ FitsItem(e, Target(type, v, ""))
    <3>1. PICK c, last : /\ ItemPut(c, b, 1, e, Target(type, v, ""))
                         /\ vm = St(type, v, "", last, c, 1 + ItemLen(e))
      BY <1>7, <2>2 DEF PackedItem
    <3>2. c \in Seq(Byte) /\ Len(c) = PackLen(e) /\ HoldsItem(Area(c, 1, PackLen(e)), e, v)
      BY <1>1, <1>3, <1>5, <3>1 DEF ItemPut, SameOutside, Target
    <3>3. Area(c, 1, PackLen(e)) = c
      <4>1. PackLen(e) = Len(c)
        BY <3>2
      <4> QED BY <3>2, <4>1, AreaOfAll
    <3>4. vm.raw = c /\ ~ Failed(vm)
      BY <3>1 DEF St, Failed
    <3>5. c \in Bytes(PackLen(e))
      BY <3>2, LenProperties DEF Bytes
    <3>6. Holds(c, e, v)
      BY <3>2, <3>3 DEF Holds
    <3> QED BY <1>8, <2>2, <3>4, <3>5, <3>6 DEF Packed
  <2> QED BY <2>1, <2>2
<1> QED BY <1>2, <1>9 DEF g, vm, prog

\* exec with a value packs exactly the elements byte code can pack and the values that
\* fit; then the bytes are as many as the element has and hold the value.
THEOREM PackCorrect ==
    ASSUME NEW e, IsElement(e), NEW v, IsVariant(v), HasKind(e, v), NEW junk \in Byte
    PROVE  Packed(e, v, Exec(GenData("PACK", e), VType(e), <<>>, v, junk))
<1>1. Exec(GenData("PACK", e), VType(e), <<>>, v, junk)
        = ProgStates(GenData("PACK", e), St(VType(e), v, "", 0, <<>>, 1), junk)
            [Len(GenData("PACK", e))]
  BY DEF Exec, St
<1>2. CASE e.base = "REC"
  <2>1. VType(e) = "MAP"
    BY <1>2 DEF VType
  <2>2. v.kind = "map"
    BY <2>1 DEF HasKind
  <2>3. Packed(e, v, ProgStates(GenData("PACK", e), St("MAP", v, "", 0, <<>>, 1), junk)
                       [Len(GenData("PACK", e))])
    BY <1>2, <2>2, PackRecord
  <2> QED BY <1>1, <2>1, <2>3
<1>3. CASE e.base # "REC"
  <2>1. Packed(e, v, ProgStates(GenData("PACK", e), St(VType(e), v, "", 0, <<>>, 1), junk)
                       [Len(GenData("PACK", e))])
    BY <1>3, PackSingle
  <2> QED BY <1>1, <2>1
<1> QED BY <1>2, <1>3
-----------------------------------------------------------------------------
(* Whole elements are unpacked. *)

FieldReadable(e, i) == CanUnpack(e.fields[i].elem, "MAP", e.fields[i].name)

\* The first k fields are read ...
FieldsRead(vm, e, raw, k) ==
    \E fields, field :
      /\ vm = St("MAP", Map(fields), field, 0, raw, FieldEnds(e)[k] + 1)
      /\ DOMAIN fields = {e.fields[i].name : i \in 1 .. k}
      /\ \A i \in 1 .. k : /\ FieldReadable(e, i)
                           /\ IsItemReading(FieldArea(e, i, raw), e.fields[i].elem,
                                            fields[e.fields[i].name])

\* ... or one of them cannot be.
FieldsUnreadable(vm, e, k) == Failed(vm) /\ \E i \in 1 .. k : ~ FieldReadable(e, i)

\* The next field is read.
LEMMA UnpackField ==
    ASSUME NEW e, IsElement(e), e.base = "REC", NEW raw \in Seq(Byte), Len(raw) >= PackLen(e),
           NEW k \in 1 .. Len(e.fields), NEW vm, FieldsRead(vm, e, raw, k - 1), NEW junk
    PROVE  LET selected == ExecOperation(vm, RecordSelect(e.fields[k].name), junk)
               next == ExecOperation(selected, ItemOp("UNPACK", e.fields[k].elem), junk)
           IN  /\ ~ Failed(selected)
               /\ FieldsRead(next, e, raw, k) \/ FieldsUnreadable(next, e, k)
<1> DEFINE n == Len(e.fields)
           g == FieldEnds(e)
           name == e.fields[k].name
           elem == e.fields[k].elem
           at == g[k-1] + 1
           selected == ExecOperation(vm, RecordSelect(name), junk)
           next == ExecOperation(selected, ItemOp("UNPACK", elem), junk)
<1>1. /\ n \in Nat \ {0} /\ g \in [0 .. n -> Nat] /\ PackLen(e) = g[n]
      /\ \A i \in 1 .. n : /\ IsItemElement(e.fields[i].elem)
                           /\ ItemLen(e.fields[i].elem) \in Nat \ {0}
                           /\ g[i] = g[i-1] + ItemLen(e.fields[i].elem)
      /\ \A i \in 0 .. n : \A j \in i .. n : g[i] <= g[j]
      /\ \A i, j \in 1 .. n : e.fields[i].name = e.fields[j].name => i = j
  BY FieldsOf
<1>2. PICK fields, field :
        /\ vm = St("MAP", Map(fields), field, 0, raw, at)
        /\ DOMAIN fields = {e.fields[i].name : i \in 1 .. k - 1}
        /\ \A i \in 1 .. k - 1 : /\ FieldReadable(e, i)
                                 /\ IsItemReading(FieldArea(e, i, raw), e.fields[i].elem,
                                                  fields[e.fields[i].name])
  BY DEF FieldsRead
<1>3. /\ n \in Nat /\ k \in 1 .. n /\ at \in Nat \ {0} /\ g[k] + 1 = at + ItemLen(elem)
      /\ at + ItemLen(elem) <= Len(raw) + 1 /\ IsItemElement(elem)
  <2>1. k \in 1 .. n /\ k - 1 \in 0 .. n /\ k \in 0 .. n /\ n \in k .. n /\ Len(raw) \in Nat
    BY <1>1, LenProperties
  <2> HIDE DEF n, g
  <2>2. g[k] <= g[n] /\ g[k-1] \in Nat /\ g[k] \in Nat /\ g[n] \in Nat
    BY <1>1, <2>1
  <2>3. g[k] = g[k-1] + ItemLen(elem) /\ IsItemElement(elem) /\ ItemLen(elem) \in Nat \ {0}
    BY <1>1, <2>1
  <2>4. Len(raw) >= g[n]
    BY <1>1
  <2> DEFINE l == ItemLen(elem)
  <2>5. g[k] = g[k-1] + l /\ l \in Nat \ {0} /\ IsItemElement(elem)
    BY <2>3
  <2> HIDE DEF l, elem
  <2>6. at \in Nat \ {0} /\ g[k] + 1 = at + l /\ at + l <= Len(raw) + 1
    <3> DEFINE p == g[k-1]
               q == g[k]
               r == g[n]
    <3>1. /\ p \in Nat /\ q \in Nat /\ r \in Nat /\ q <= r /\ Len(raw) >= r /\ q = p + l
          /\ at = p + 1
      BY <2>2, <2>4, <2>5
    <3> HIDE DEF p, q, r, at
    <3>2. at \in Nat \ {0} /\ q + 1 = at + l /\ at + l <= Len(raw) + 1
      BY <2>1, <2>5, <3>1
    <3> QED BY <3>2 DEF q
  <2> HIDE DEF at
  <2> QED BY <1>1, <2>1, <2>5, <2>6 DEF l
<1>4. selected = St("MAP", Map(fields), name, 0, raw, at)
  <2> HIDE DEF at
  <2> QED BY <1>2, SelectStep
<1>5. ~ Failed(selected)
  BY <1>4, Parts
<1> HIDE DEF selected
<1>6. UnpackedItem(next, elem, "MAP", Map(fields), name, raw, at)
  <2> DEFINE it == elem
             id == name
             to == at
             old == Map(fields)
  <2>1. /\ IsItemElement(it) /\ to \in Nat \ {0} /\ to + ItemLen(it) <= Len(raw) + 1
        /\ Suits(it, "MAP")
    BY <1>3 DEF Suits
  <2> HIDE DEF it, id, to, old
  <2>2. UnpackedItem(ExecOperation(St("MAP", old, id, 0, raw, to), ItemOp("UNPACK", it), junk),
                     it, "MAP", old, id, raw, to)
    BY <2>1, UnpackItem
  <2> QED BY <1>4, <2>2 DEF it, id, to, old
<1> HIDE DEF next
<1>7. CASE ~ CanUnpack(elem, "MAP", name)
  <2>1. Failed(next)
    BY <1>6, <1>7 DEF UnpackedItem
  <2>2. ~ FieldReadable(e, k)
    BY <1>7 DEF FieldReadable
  <2>3. k \in 1 .. k
    OBVIOUS
  <2>4. FieldsUnreadable(next, e, k)
    BY <2>1, <2>2, <2>3 DEF FieldsUnreadable
  <2> QED BY <1>5, <2>4 DEF next, selected
<1>8. CASE CanUnpack(elem, "MAP", name)
  <2>1. PICK x, last : /\ IsItemReading(Area(raw, at, ItemLen(elem)), elem, x)
                       /\ next = St("MAP", Stored("MAP", Map(fields), name, x), name, last, raw,
                                    at + ItemLen(elem))
                       /\ last = 0
    <3>1. \E x, last : /\ IsItemReading(Area(raw, at, ItemLen(elem)), elem, x)
                       /\ next = St("MAP", Stored("MAP", Map(fields), name, x), name, last, raw,
                                    at + ItemLen(elem))
                       /\ "MAP" # "LIST" => last = 0
      BY <1>6, <1>8 DEF UnpackedItem
    <3> HIDE DEF elem, at, name
    <3> QED BY <3>1
  <2> DEFINE new == [y \in DOMAIN fields \cup {name} |-> IF y = name THEN x ELSE fields[y]]
  <2>2. Stored("MAP", Map(fields), name, x) = Map(new)
    <3>1. Map(fields).fields = fields
      BY DEF Map
    <3> QED BY <3>1 DEF Stored, Insert
  <2>3. DOMAIN new = {e.fields[i].name : i \in 1 .. k}
    <3>1. 1 .. k = (1 .. k - 1) \cup {k}
      BY <1>3
    <3>2. DOMAIN new = DOMAIN fields \cup {name}
      OBVIOUS
    <3> HIDE DEF new
    <3> QED BY <1>2, <3>1, <3>2
  <2>4. ASSUME NEW i \in 1 .. k
        PROVE  /\ FieldReadable(e, i)
               /\ IsItemReading(FieldArea(e, i, raw), e.fields[i].elem, new[e.fields[i].name])
    <3>1. CASE i = k
      <4>1. new[name] = x
        OBVIOUS
      <4> HIDE DEF new
      <4> QED BY <1>8, <2>1, <3>1, <4>1 DEF FieldReadable, FieldArea
    <3>2. CASE i # k
      <4>1. i \in 1 .. k - 1 /\ i \in 1 .. n
        BY <1>3, <3>2
      <4>2. e.fields[i].name # name /\ e.fields[i].name \in DOMAIN fields
        <5>1. k \in 1 .. n
          BY <1>3
        <5> HIDE DEF n
        <5> QED BY <1>1, <1>2, <3>2, <4>1, <5>1
      <4>3. new[e.fields[i].name] = fields[e.fields[i].name]
        BY <4>2
      <4> HIDE DEF new
      <4> QED BY <1>2, <4>1, <4>3
    <3> QED BY <3>1, <3>2
  <2> HIDE DEF new
  <2>5. next = St("MAP", Map(new), name, 0, raw, FieldEnds(e)[k] + 1)
    BY <1>3, <2>1, <2>2
  <2> HIDE DEF name, at, elem, g
  <2>6. FieldsRead(next, e, raw, k)
    BY <2>3, <2>4, <2>5 DEF FieldsRead
  <2> QED BY <1>5, <2>6 DEF next, selected, elem, name
<1> QED BY <1>7, <1>8

\* The value reading starts with.
FreshValue(type) ==
    CASE type = "MAP" -> Map(<<>>) [] type = "LIST" -> List(<<>>) [] OTHER -> Null

\* What unpacking comes to.
Unpacked(e, data, vm) ==
    IF Unpackable(e)
    THEN ~ Failed(vm) /\ IsReading(SubSeq(data, 1, PackLen(e)), e, vm.value)
    ELSE Failed(vm)

\* A whole record.
LEMMA UnpackRecord ==
    ASSUME NEW e, IsElement(e), e.base = "REC", NEW raw \in Seq(Byte), Len(raw) >= PackLen(e),
           NEW junk \in Byte
    PROVE  Unpacked(e, raw, ProgStates(GenData("UNPACK", e), St("MAP", Map(<<>>), "", 0, raw, 1),
                                       junk)[Len(GenData("UNPACK", e))])
<1> DEFINE n == Len(e.fields)
           prog == GenData("UNPACK", e)
           fresh == St("MAP", Map(<<>>), "", 0, raw, 1)
           g == ProgStates(prog, fresh, junk)
           good == {k \in 0 .. n : FieldsRead(g[2*k+1], e, raw, k) \/ FieldsUnreadable(g[2*k+1], e, k)}
<1>1. /\ n \in Nat \ {0} /\ DOMAIN e.fields = 1 .. n /\ FieldEnds(e) \in [0 .. n -> Nat]
      /\ FieldEnds(e)[0] = 0 /\ PackLen(e) = FieldEnds(e)[n]
      /\ \A i \in 1 .. n : /\ IsItemElement(e.fields[i].elem)
                           /\ ItemLen(e.fields[i].elem) \in Nat \ {0}
                           /\ FieldEnds(e)[i] = FieldEnds(e)[i-1] + ItemLen(e.fields[i].elem)
      /\ \A i \in 0 .. n : \A j \in i .. n : FieldEnds(e)[i] <= FieldEnds(e)[j]
  BY FieldsOf
<1>2. /\ prog[1] = Args("UNPACK", e) /\ Len(prog) = 2 * n + 1
      /\ \A i \in 1 .. n : /\ prog[2*i] = RecordSelect(e.fields[i].name)
                           /\ prog[2*i+1] = ItemOp("UNPACK", e.fields[i].elem)
  BY ProgramOf, SMTT(30)
<1>t. VType(e) = "MAP"
  BY DEF VType
<1> HIDE DEF n, prog
<1>3. /\ g[0] = fresh
      /\ \A i \in 1 .. 2 * n + 1 :
           g[i] = IF Failed(g[i-1]) THEN g[i-1] ELSE ExecOperation(g[i-1], prog[i], junk)
  <2>1. Len(prog) \in Nat
    BY <1>1, <1>2
  <2> HIDE DEF fresh
  <2> QED BY <1>2, <2>1, ProgStatesDef
<1> HIDE DEF g
<1>4. 0 \in good
  <2>1. g[1] = ExecOperation(fresh, Args("UNPACK", e), junk)
    <3>1. 1 \in 1 .. 2 * n + 1 /\ 1 - 1 = 0
      BY <1>1
    <3>2. ~ Failed(fresh)
      BY Parts
    <3> HIDE DEF fresh
    <3>3. g[1] = IF Failed(g[1-1]) THEN g[1-1] ELSE ExecOperation(g[1-1], prog[1], junk)
      BY <1>3, <3>1
    <3> QED BY <1>2, <1>3, <3>1, <3>2, <3>3
  <2>2. g[1] = fresh
    <3> DEFINE value == Map(<<>>)
               start == St(VType(e), value, "", 0, raw, 1)
    <3> HIDE DEF value
    <3>1. ExecOperation(start, Args("UNPACK", e), junk) = start
      BY ArgsStep
    <3>2. start = fresh
      BY <1>t DEF value
    <3> HIDE DEF start, fresh
    <3> QED BY <2>1, <3>1, <3>2
  <2>3. \A i \in 1 .. 0 : FALSE
    OBVIOUS
  <2>4. 0 + 1 = 1 /\ 2 * 0 + 1 = 1
    OBVIOUS
  <2>5. g[1] = St("MAP", Map(<<>>), "", 0, raw, FieldEnds(e)[0] + 1)
    BY <1>1, <2>2, <2>4
  <2>6. DOMAIN << >> = {e.fields[i].name : i \in 1 .. 0}
    <3>1. DOMAIN << >> = {}
      OBVIOUS
    <3> QED BY <2>3, <3>1
  <2>7. FieldsRead(g[1], e, raw, 0)
    BY <2>3, <2>5, <2>6 DEF FieldsRead
  <2> QED BY <1>1, <2>4, <2>7
<1>5. ASSUME NEW k \in 1 .. n, k - 1 \in good PROVE k \in good
  <2> DEFINE m == 2 * k
  <2>1. /\ m \in 1 .. 2 * n + 1 /\ m + 1 \in 1 .. 2 * n + 1 /\ m - 1 = 2 * (k - 1) + 1
        /\ (m + 1) - 1 = m
    BY <1>1
  <2>2. /\ g[m] = IF Failed(g[m-1]) THEN g[m-1] ELSE ExecOperation(g[m-1], prog[m], junk)
        /\ g[m+1] = IF Failed(g[m]) THEN g[m] ELSE ExecOperation(g[m], prog[m+1], junk)
    BY <1>3, <2>1
  <2>3. /\ prog[m] = RecordSelect(e.fields[k].name)
        /\ prog[m+1] = ItemOp("UNPACK", e.fields[k].elem)
    BY <1>2
  <2>4. FieldsRead(g[m-1], e, raw, k - 1) \/ FieldsUnreadable(g[m-1], e, k - 1)
    BY <1>5, <2>1
  <2> HIDE DEF m
  <2>5. FieldsRead(g[m+1], e, raw, k) \/ FieldsUnreadable(g[m+1], e, k)
    <3>1. CASE FieldsUnreadable(g[m-1], e, k - 1)
      <4>1. g[m+1] = g[m-1]
        BY <2>2, <3>1 DEF FieldsUnreadable
      <4>2. FieldsUnreadable(g[m-1], e, k)
        <5>1. PICK i \in 1 .. k - 1 : ~ FieldReadable(e, i)
          BY <3>1 DEF FieldsUnreadable
        <5>2. i \in 1 .. k
          OBVIOUS
        <5> QED BY <3>1, <5>1, <5>2 DEF FieldsUnreadable
      <4> QED BY <4>1, <4>2
    <3>2. CASE FieldsRead(g[m-1], e, raw, k - 1)
      <4>1. ~ Failed(g[m-1])
        BY <3>2, Parts DEF FieldsRead
      <4> DEFINE selected == ExecOperation(g[m-1], RecordSelect(e.fields[k].name), junk)
                 next == ExecOperation(selected, ItemOp("UNPACK", e.fields[k].elem), junk)
      <4>2. ~ Failed(selected) /\ (FieldsRead(next, e, raw, k) \/ FieldsUnreadable(next, e, k))
        <5>1. k \in 1 .. Len(e.fields)
          BY DEF n
        <5> QED BY <3>2, <5>1, UnpackField
      <4>3. g[m] = selected
        BY <2>2, <2>3, <4>1
      <4>4. g[m+1] = next
        BY <2>2, <2>3, <4>2, <4>3
      <4> QED BY <4>2, <4>4
    <3> QED BY <2>4, <3>1, <3>2
  <2> QED BY <1>1, <2>5 DEF m
<1>6. FieldsRead(g[2*n+1], e, raw, n) \/ FieldsUnreadable(g[2*n+1], e, n)
  <2> HIDE DEF good
  <2>1. 0 .. n \subseteq good
    BY <1>1, <1>4, <1>5, Reached
  <2> QED BY <1>1, <2>1 DEF good
<1> DEFINE vm == g[2*n+1]
           data == SubSeq(raw, 1, PackLen(e))
<1>7. Unpackable(e) <=> \A i \in 1 .. n : FieldReadable(e, i)
  BY <1>1 DEF Unpackable, FieldReadable, CanUnpack
<1>8. Unpacked(e, raw, vm)
  <2> HIDE DEF vm
  <2>1. CASE FieldsUnreadable(vm, e, n)
    BY <1>7, <2>1 DEF FieldsUnreadable, Unpacked
  <2>2. CASE FieldsRead(vm, e, raw, n)
    <3>1. PICK fields, field :
            /\ vm = St("MAP", Map(fields), field, 0, raw, FieldEnds(e)[n] + 1)
            /\ DOMAIN fields = {e.fields[i].name : i \in 1 .. n}
            /\ \A i \in 1 .. n : /\ FieldReadable(e, i)
                                 /\ IsItemReading(FieldArea(e, i, raw), e.fields[i].elem,
                                                  fields[e.fields[i].name])
      BY <2>2 DEF FieldsRead
    <3> DEFINE v == Map(fields)
    <3>2. vm.value = v /\ ~ Failed(vm)
      BY <3>1, Parts
    <3>3. v.kind = "map" /\ v.fields = fields
      BY DEF Map
    <3>4. ASSUME NEW i \in 1 .. n
          PROVE  /\ FieldBytes(data, e, i) = FieldArea(e, i, raw)
                 /\ Field(v, e.fields[i].name) = fields[e.fields[i].name]
      <4> DEFINE l == ItemLen(e.fields[i].elem)
                 o == FieldEnds(e)[i-1]
                 len == PackLen(e)
      <4>1. l \in Nat /\ o \in Nat /\ o + l <= len /\ len \in Nat
        <5>1. i - 1 \in 0 .. n /\ i \in 0 .. n /\ n \in i .. n /\ n \in 0 .. n
          BY <1>1
        <5>2. /\ FieldEnds(e)[i] <= FieldEnds(e)[n] /\ l \in Nat
              /\ FieldEnds(e)[i] = o + l /\ FieldEnds(e)[i] \in Nat /\ o \in Nat
              /\ FieldEnds(e)[n] \in Nat /\ len = FieldEnds(e)[n]
          BY <1>1, <5>1
        <5> HIDE DEF l, o, len
        <5> QED BY <5>2
      <4> DEFINE one == 1
      <4>2. one + len <= Len(raw) + 1 /\ one \in Nat \ {0} /\ Len(raw) \in Nat
        <5>1. len <= Len(raw) /\ Len(raw) \in Nat
          <6>1. Len(raw) \in Nat
            BY LenProperties
          <6> HIDE DEF len
          <6> QED BY <4>1, <6>1 DEF len
        <5> HIDE DEF len
        <5> QED BY <4>1, <5>1
      <4> HIDE DEF l, o, len, one
      <4>3. o + l = (o + 1) + l - 1 /\ one + o = o + 1 /\ len = one + len - 1
        BY <4>1 DEF one
      <4>4. Area(Area(raw, one, len), o + 1, l) = Area(raw, one + o, l)
        BY <4>1, <4>2, AreaOfArea
      <4>5. SubSeq(data, o + 1, o + l) = Area(raw, o + 1, l)
        <5>1. data = Area(raw, one, len)
          <6>1. data = SubSeq(raw, one, len)
            BY DEF one, len
          <6> HIDE DEF data
          <6> QED BY <4>3, <6>1 DEF Area
        <5> HIDE DEF data
        <5>2. SubSeq(data, o + 1, o + l) = Area(data, o + 1, l)
          BY <4>3 DEF Area
        <5> QED BY <4>3, <4>4, <5>1, <5>2
      <4>6. FieldBytes(data, e, i) = FieldArea(e, i, raw)
        <5> HIDE DEF data
        <5> QED BY <4>5 DEF FieldBytes, FieldOffset, FieldArea, l, o
      <4>7. e.fields[i].name \in DOMAIN v.fields
        <5> HIDE DEF v
        <5> QED BY <3>1, <3>3
      <4>8. Field(v, e.fields[i].name) = fields[e.fields[i].name]
        <5> HIDE DEF v
        <5> QED BY <3>3, <4>7 DEF Field
      <4> QED BY <4>6, <4>8
    <3> HIDE DEF v, data
    <3>5. IsReading(data, e, v)
      BY <1>1, <3>1, <3>3, <3>4 DEF IsReading
    <3> QED BY <1>7, <3>1, <3>2, <3>5 DEF Unpacked, data
  <2> QED BY <1>6, <2>1, <2>2 DEF vm
<1> QED BY <1>2, <1>8 DEF g, vm, prog

\* An element that is no record.
LEMMA UnpackSingle ==
    ASSUME NEW e, IsElement(e), e.base # "REC", NEW raw \in Seq(Byte), Len(raw) >= PackLen(e),
           NEW junk \in Byte, NEW v, VType(e) = "LIST" => v = List(<<>>)
    PROVE  Unpacked(e, raw, ProgStates(GenData("UNPACK", e), St(VType(e), v, "", 0, raw, 1), junk)
                              [Len(GenData("UNPACK", e))])
<1> DEFINE type == VType(e)
           prog == GenData("UNPACK", e)
           none == ""
           one == 1
           fresh == St(type, v, none, 0, raw, one)
           g == ProgStates(prog, fresh, junk)
           vm == g[2]
<1>1. IsItemElement(e) /\ PackLen(e) = ItemLen(e) /\ ItemLen(e) \in Nat \ {0}
  BY ElementTakes, ItemTakes
<1>2. prog[1] = Args("UNPACK", e) /\ Len(prog) = 2 /\ prog[2] = ItemOp("UNPACK", e)
  BY ProgramOf
<1>3. type \in {"SCALAR", "LIST"} /\ type # "MAP"
  BY <1>1 DEF VType, IsItemElement, Width
<1>f. ExecOperation(fresh, Args("UNPACK", e), junk) = fresh
  BY ArgsStep
<1> HIDE DEF prog
<1>4. /\ g[0] = fresh
      /\ \A i \in 1 .. 2 :
           g[i] = IF Failed(g[i-1]) THEN g[i-1] ELSE ExecOperation(g[i-1], prog[i], junk)
  <2>1. Len(prog) \in Nat
    BY <1>2
  <2> HIDE DEF fresh, none, one
  <2>2. /\ g[0] = fresh
        /\ \A i \in 1 .. Len(prog) :
             g[i] = IF Failed(g[i-1]) THEN g[i-1] ELSE ExecOperation(g[i-1], prog[i], junk)
    BY <2>1, ProgStatesDef
  <2> QED BY <1>2, <2>2
<1> HIDE DEF g, none, one
<1>5. ~ Failed(fresh)
  <2> HIDE DEF type
  <2> QED BY DEF St, Failed
<1>6. vm = ExecOperation(fresh, ItemOp("UNPACK", e), junk)
  <2>1. 1 \in 1 .. 2 /\ 1 - 1 = 0 /\ 2 \in 1 .. 2 /\ 2 - 1 = 1
    OBVIOUS
  <2> HIDE DEF fresh
  <2>2. /\ g[1] = IF Failed(g[1-1]) THEN g[1-1] ELSE ExecOperation(g[1-1], prog[1], junk)
        /\ g[2] = IF Failed(g[2-1]) THEN g[2-1] ELSE ExecOperation(g[2-1], prog[2], junk)
    BY <1>4, <2>1
  <2>3. g[1] = fresh
    BY <1>2, <1>4, <1>5, <1>f, <2>1, <2>2
  <2> QED BY <1>2, <1>5, <2>1, <2>2, <2>3
<1>7. UnpackedItem(vm, e, type, v, none, raw, one)
  <2>1. Suits(e, type) /\ (type = "LIST" => v = List(<<>>))
    BY DEF Suits
  <2>2. one \in Nat \ {0} /\ one + ItemLen(e) <= Len(raw) + 1
    <3> DEFINE l == ItemLen(e)
    <3>1. l <= Len(raw) /\ l \in Nat /\ Len(raw) \in Nat
      BY <1>1, LenProperties
    <3> HIDE DEF l
    <3>2. one \in Nat \ {0} /\ one + l <= Len(raw) + 1
      BY <3>1 DEF one
    <3> QED BY <3>2 DEF l
  <2> HIDE DEF type
  <2>3. UnpackedItem(ExecOperation(St(type, v, none, 0, raw, one), ItemOp("UNPACK", e), junk),
                     e, type, v, none, raw, one)
    BY <1>1, <2>1, <2>2, UnpackItem
  <2> QED BY <1>6, <2>3
<1> HIDE DEF vm, fresh
<1>8. Unpackable(e) <=> CanUnpack(e, type, none)
  BY <1>3 DEF Unpackable, CanUnpack
<1>9. Unpacked(e, raw, vm)
  <2>1. CASE ~ CanUnpack(e, type, none)
    BY <1>7, <1>8, <2>1 DEF UnpackedItem, Unpacked
  <2>2. CASE CanUnpack(e, type, none)
    <3>1. PICK x, last : /\ IsItemReading(Area(raw, one, ItemLen(e)), e, x)
                         /\ vm = St(type, Stored(type, v, none, x), none, last, raw,
                                    one + ItemLen(e))
      <4> HIDE DEF type
      <4> QED BY <1>7, <2>2 DEF UnpackedItem
    <3>2. vm.value = x /\ ~ Failed(vm)
      <4>1. Stored(type, v, none, x) = x
        BY <1>3 DEF Stored
      <4> HIDE DEF type
      <4> QED BY <3>1, <4>1 DEF St, Failed
    <3>3. Area(raw, one, ItemLen(e)) = SubSeq(raw, 1, PackLen(e))
      <4>1. one + PackLen(e) - 1 = PackLen(e)
        BY <1>1 DEF one
      <4> QED BY <1>1, <4>1 DEF Area, one
    <3>4. IsReading(SubSeq(raw, 1, PackLen(e)), e, x)
      BY <3>1, <3>3 DEF IsReading
    <3> QED BY <1>8, <2>2, <3>2, <3>4 DEF Unpacked
  <2> QED BY <2>1, <2>2
<1> QED BY <1>2, <1>9 DEF g, vm, prog, fresh, none, one

\* exec with bytes unpacks exactly the elements byte code can unpack; then the value is
\* what the element's bytes say, whatever follows them.
THEOREM UnpackCorrect ==
    ASSUME NEW e, IsElement(e), NEW data \in Seq(Byte), Len(data) >= PackLen(e),
           NEW junk \in Byte
    PROVE  Unpacked(e, data, Exec(GenData("UNPACK", e), VType(e), data, FreshValue(VType(e)), junk))
<1> DEFINE fresh == FreshValue(VType(e))
<1>1. Exec(GenData("UNPACK", e), VType(e), data, fresh, junk)
        = ProgStates(GenData("UNPACK", e), St(VType(e), fresh, "", 0, data, 1), junk)
            [Len(GenData("UNPACK", e))]
  BY DEF Exec, St
<1>2. CASE e.base = "REC"
  <2>1. VType(e) = "MAP" /\ fresh = Map(<<>>)
    BY <1>2 DEF VType, FreshValue
  <2>2. Unpacked(e, data, ProgStates(GenData("UNPACK", e), St("MAP", Map(<<>>), "", 0, data, 1),
                                     junk)[Len(GenData("UNPACK", e))])
    BY <1>2, UnpackRecord
  <2> HIDE DEF fresh
  <2> QED BY <1>1, <2>1, <2>2 DEF fresh
<1>3. CASE e.base # "REC"
  <2>1. VType(e) = "LIST" => fresh = List(<<>>)
    BY DEF FreshValue
  <2> HIDE DEF fresh
  <2>2. Unpacked(e, data, ProgStates(GenData("UNPACK", e), St(VType(e), fresh, "", 0, data, 1),
                                     junk)[Len(GenData("UNPACK", e))])
    BY <1>3, <2>1, UnpackSingle
  <2> QED BY <1>1, <2>2 DEF fresh
<1> QED BY <1>2, <1>3

-----------------------------------------------------------------------------
(* Part 2.  The invariants of Apx::NodeData. *)

\* A sequence, whatever its items are.
IsRow(s) == s \in Seq({s[i] : i \in DOMAIN s})

-----------------------------------------------------------------------------
(* The inductive invariant. *)

\* Before the first load, there is nothing.
Unloaded ==
    mNode = NoNode =>
      /\ mInPortDataElements = <<>> /\ mOutPortDataElements = <<>>
      /\ mInPortUnpackProg = <<>> /\ mOutPortPackProg = <<>>
      /\ lastSet = <<>> /\ call = NoCall /\ ~fault

\* After the only load that goes well, the lists are those of the node.
Loaded ==
    mNode # NoNode /\ ~fault =>
      /\ mInPortDataElements = PortDataElements(Requires[mNode])
      /\ mOutPortDataElements = PortDataElements(Provides[mNode])
      /\ mInPortUnpackProg = PackUnpackProgs("UNPACK", Requires[mNode])
      /\ mOutPortPackProg = PackUnpackProgs("PACK", Provides[mNode])
      /\ mInPortDataMap = PortDataMap(mInPortDataElements)
      /\ DOMAIN lastSet = DOMAIN Provides[mNode]

\* Nothing goes on without a node, or after a fault.
Quiet ==
    mNode = NoNode \/ fault => call = NoCall /\ notifying = NoWrite /\ written = NoWrite

\* What is left to notify is the end of what was written, and still in the file.
Remaining ==
    notifying # NoWrite =>
      /\ written # NoWrite
      /\ notifying.offset \in Nat /\ notifying.data \in Seq(Byte) /\ Len(notifying.data) > 0
      /\ notifying.offset + Len(notifying.data) <= Len(mInPortDataFile)
      /\ notifying.data = Area(mInPortDataFile, notifying.offset + 1, Len(notifying.data))
      /\ written.offset <= notifying.offset
      /\ notifying.offset + Len(notifying.data) = written.offset + Len(written.data)
      /\ BeginsAtPort(written) => BeginsAtPort(notifying)

Written ==
    written # NoWrite => /\ written.offset \in Nat /\ Len(written.data) \in Nat
                         /\ IsRow(notified)

\* Entry i of the notifications is due, has the file's value and is in order.
InOrder(i) ==
    LET p == notified[i].port IN
    /\ p \in Due(written)
    /\ \A q \in Due(written) : q < p => \E j \in 1 .. i - 1 : notified[j].port = q
    /\ \A j \in 1 .. i - 1 : notified[j].port < p
    /\ IsReading(Place(mInPortDataFile, Requires[mNode], p), Requires[mNode][p],
                 notified[i].value)

\* The ports of a write whose turn has come.
DueSoFar ==
    {q \in Due(written) : notifying = NoWrite \/ Ends(Requires[mNode])[q] <= notifying.offset}

NotifiedSoFar ==
    ~fault /\ written # NoWrite /\ BeginsAtPort(written) =>
      /\ \A i \in DOMAIN notified : InOrder(i)
      /\ NotifiedPorts = DueSoFar

IInv ==
    /\ TypeOK /\ Unloaded /\ Loaded /\ Quiet /\ Remaining /\ Written
    /\ OutFileHoldsValues /\ ThrowsExactly /\ NotifiedSoFar
-----------------------------------------------------------------------------
(* Ports that lie one behind the other. *)

\* The sums of a row that is appended to another begin where the other's end.
LEMMA SumsOfBoth ==
    ASSUME NEW s \in Seq(Nat), NEW t \in Seq(Nat)
    PROVE  Sums(s \o t)[Len(s) + Len(t)] = Sums(s)[Len(s)] + Sums(t)[Len(t)]
<1> DEFINE both == s \o t
           m == Len(s)
           n == Len(t)
           f == Sums(s)
           g == Sums(t)
           h == Sums(both)
<1>1. /\ both \in Seq(Nat) /\ Len(both) = m + n /\ m \in Nat /\ n \in Nat
      /\ \A i \in 1 .. m + n : both[i] = IF i <= m THEN s[i] ELSE t[i-m]
  BY ConcatProperties, LenProperties
<1>2. /\ f \in [0 .. m -> Nat] /\ f[0] = 0 /\ \A i \in 1 .. m : f[i] = f[i-1] + s[i]
  BY SumsGrow
<1>3. /\ g \in [0 .. n -> Nat] /\ g[0] = 0 /\ \A i \in 1 .. n : g[i] = g[i-1] + t[i]
  BY SumsGrow
<1> HIDE DEF both
<1>4. /\ h \in [0 .. m + n -> Nat] /\ h[0] = 0 /\ \A i \in 1 .. m + n : h[i] = h[i-1] + both[i]
  BY <1>1, SumsGrow
<1>5. /\ \A i \in 1 .. m : s[i] \in Nat
      /\ \A i \in 1 .. n : t[i] \in Nat
  BY ElementOfSeq
<1> HIDE DEF m, n, f, g, h
<1>6. h[m] = f[m]
  <2> DEFINE good == {i \in 0 .. m : h[i] = f[i]}
  <2>1. 0 \in good
    BY <1>1, <1>2, <1>4
  <2>2. ASSUME NEW i \in 1 .. m, i - 1 \in good PROVE i \in good
    <3>1. i \in 1 .. m + n /\ i \in 0 .. m
      BY <1>1
    <3>2. h[i] = h[i-1] + s[i] /\ f[i] = f[i-1] + s[i]
      <4>1. h[i] = h[i-1] + both[i] /\ both[i] = s[i]
        BY <1>1, <1>4, <3>1
      <4> QED BY <1>2, <4>1
    <3>3. h[i-1] = f[i-1]
      BY <2>2
    <3> QED BY <3>1, <3>2, <3>3
  <2> HIDE DEF good
  <2>3. 0 .. m \subseteq good
    BY <1>1, <2>1, <2>2, Reached
  <2> QED BY <1>1, <2>3 DEF good
<1>7. h[m+n] = f[m] + g[n]
  <2> DEFINE good == {i \in 0 .. n : h[m+i] = f[m] + g[i]}
  <2>1. 0 \in good
    BY <1>1, <1>2, <1>3, <1>6
  <2>2. ASSUME NEW i \in 1 .. n, i - 1 \in good PROVE i \in good
    <3> DEFINE k == m + i
    <3>1. k \in 1 .. m + n /\ ~ (k <= m) /\ k - m = i /\ k - 1 = m + (i - 1) /\ i \in 0 .. n
      BY <1>1
    <3> HIDE DEF k
    <3>2. h[k] = h[k-1] + t[i]
      BY <1>1, <1>4, <3>1
    <3>3. h[k-1] = f[m] + g[i-1] /\ g[i] = g[i-1] + t[i]
      BY <1>3, <2>2, <3>1
    <3>4. t[i] \in Nat /\ g[i-1] \in Nat /\ f[m] \in Nat
      <4>1. i - 1 \in 0 .. n /\ m \in 0 .. m
        BY <1>1
      <4> QED BY <1>2, <1>3, <1>5, <4>1
    <3>5. h[k] = f[m] + g[i]
      <4> DEFINE a == f[m]
                 b == g[i-1]
                 c == t[i]
      <4>1. h[k] = (a + b) + c /\ g[i] = b + c /\ a \in Nat /\ b \in Nat /\ c \in Nat
        BY <3>2, <3>3, <3>4
      <4> HIDE DEF a, b, c
      <4>2. h[k] = a + g[i]
        BY <4>1
      <4> QED BY <4>2 DEF a
    <3> QED BY <3>1, <3>5 DEF k
  <2> HIDE DEF good
  <2>3. 0 .. n \subseteq good
    BY <1>1, <2>1, <2>2, Reached
  <2> QED BY <1>1, <2>3 DEF good
<1> QED BY <1>7 DEF both, m, n, f, g, h

Lengths(elements) == [p \in DOMAIN elements |-> PackLen(elements[p])]

\* Every port has at least one byte; they end one behind the other.
LEMMA PortsOf ==
    ASSUME NEW elements, IsDefinition(elements)
    PROVE  /\ Len(elements) \in Nat \ {0} /\ DOMAIN elements = 1 .. Len(elements)
           /\ Lengths(elements) \in Seq(Nat \ {0}) /\ Len(Lengths(elements)) = Len(elements)
           /\ Ends(elements) \in [0 .. Len(elements) -> Nat] /\ Ends(elements)[0] = 0
           /\ TotalLen(elements) \in Nat
           /\ \A p \in 1 .. Len(elements) :
                /\ IsElement(elements[p]) /\ PackLen(elements[p]) \in Nat \ {0}
                /\ Ends(elements)[p] = Ends(elements)[p-1] + PackLen(elements[p])
                /\ Ends(elements)[p-1] \in Nat /\ Ends(elements)[p] \in Nat
                /\ Ends(elements)[p] <= TotalLen(elements)
                /\ \A q \in 1 .. Len(elements) : q < p => Ends(elements)[q] <= Ends(elements)[p-1]
<1> DEFINE n == Len(elements)
           l == Lengths(elements)
           g == Ends(elements)
<1>1. n \in Nat \ {0} /\ DOMAIN elements = 1 .. n
  <2>1. elements \in Seq({elements[p] : p \in DOMAIN elements}) /\ elements # <<>>
    BY DEF IsDefinition
  <2>2. n \in Nat /\ DOMAIN elements = 1 .. n
    BY <2>1, LenProperties
  <2>3. n # 0
    BY <2>1, EmptySeq
  <2> QED BY <2>2, <2>3
<1> HIDE DEF n
<1>2. \A p \in 1 .. n : IsElement(elements[p]) /\ PackLen(elements[p]) \in Nat \ {0}
  BY <1>1, ElementTakes DEF IsDefinition
<1>3. l \in [1 .. n -> Nat \ {0}] /\ \A p \in 1 .. n : l[p] = PackLen(elements[p])
  BY <1>1, <1>2 DEF Lengths
<1> HIDE DEF l
<1>4. l \in Seq(Nat \ {0}) /\ Len(l) = n
  BY <1>1, <1>3, OfLength
<1>5. g = Sums(l)
  BY DEF Ends, l, Lengths
<1> HIDE DEF g
<1>6. /\ g \in [0 .. n -> Nat] /\ g[0] = 0
      /\ \A i \in 1 .. n : g[i] = g[i-1] + l[i]
      /\ \A i \in 0 .. n : \A j \in i .. n : g[i] <= g[j]
  <2>1. l \in Seq(Nat)
    BY <1>4, SeqMonotonic
  <2> QED BY <1>4, <1>5, <2>1, SumsGrow
<1>7. TotalLen(elements) = g[n] /\ g[n] \in Nat
  BY <1>1, <1>6 DEF TotalLen, g, n
<1>8. ASSUME NEW p \in 1 .. n
      PROVE  /\ g[p] = g[p-1] + PackLen(elements[p])
             /\ g[p-1] \in Nat /\ g[p] \in Nat /\ g[p] <= g[n]
             /\ \A q \in 1 .. n : q < p => g[q] <= g[p-1]
  <2>1. p \in 0 .. n /\ p - 1 \in 0 .. n /\ n \in p .. n
        /\ \A q \in 1 .. n : q < p => q \in 0 .. n /\ p - 1 \in q .. n
    BY <1>1
  <2> QED BY <1>3, <1>6, <2>1
<1> QED BY <1>1, <1>2, <1>4, <1>6, <1>7, <1>8 DEF n, l, g

\* The order of the ports is that of their places.
LEMMA Before ==
    ASSUME NEW elements, IsDefinition(elements),
           NEW p \in 1 .. Len(elements), NEW q \in 1 .. Len(elements)
    PROVE  /\ Ends(elements)[q] <= Ends(elements)[p-1] <=> q < p
           /\ Ends(elements)[q] <= Ends(elements)[p] <=> q < p \/ q = p
           /\ Ends(elements)[q-1] = Ends(elements)[p-1] => q = p
<1> DEFINE a == Ends(elements)[p-1]
           b == Ends(elements)[p]
           c == Ends(elements)[q-1]
           d == Ends(elements)[q]
<1>1. /\ a \in Nat /\ b \in Nat /\ a < b
  <2>1. a \in Nat /\ b \in Nat /\ PackLen(elements[p]) \in Nat \ {0} /\ b = a + PackLen(elements[p])
    BY PortsOf
  <2> HIDE DEF a, b
  <2> QED BY <2>1
<1>2. /\ c \in Nat /\ d \in Nat /\ c < d
  <2>1. c \in Nat /\ d \in Nat /\ PackLen(elements[q]) \in Nat \ {0} /\ d = c + PackLen(elements[q])
    BY PortsOf
  <2> HIDE DEF c, d
  <2> QED BY <2>1
<1>3. (q < p => d <= a) /\ (p < q => b <= c)
  BY PortsOf
<1>4. q < p \/ p < q \/ p = q
  BY PortsOf
<1>5. p = q => a = c /\ b = d
  OBVIOUS
<1> HIDE DEF a, b, c, d
<1>6. (d <= a <=> q < p) /\ (d <= b <=> q < p \/ q = p) /\ (c = a => q = p)
  BY <1>1, <1>2, <1>3, <1>4, <1>5
<1> QED BY <1>6 DEF a, b, c, d

\* The place of a port is an area of the file.
LEMMA PlaceIs ==
    ASSUME NEW elements, IsDefinition(elements), NEW p \in 1 .. Len(elements), NEW file
    PROVE  Place(file, elements, p) = Area(file, Ends(elements)[p-1] + 1, PackLen(elements[p]))
<1> DEFINE a == Ends(elements)[p-1]
           n == PackLen(elements[p])
<1>1. a \in Nat /\ n \in Nat /\ Ends(elements)[p] = a + n
  BY PortsOf
<1> HIDE DEF a, n
<1>2. Ends(elements)[p] = a + 1 + n - 1
  BY <1>1
<1> QED BY <1>2 DEF Place, Area, a, n

\* The lists of a node's ports.
LEMMA ListsOf ==
    ASSUME NEW elements, IsDefinition(elements), NEW dir
    PROVE  /\ IsRow(PortDataElements(elements))
           /\ Len(PortDataElements(elements)) = Len(elements)
           /\ IsRow(PackUnpackProgs(dir, elements))
           /\ Len(PackUnpackProgs(dir, elements)) = Len(elements)
           /\ \A p \in 1 .. Len(elements) :
                /\ PortDataElements(elements)[p]
                     = [offset |-> Ends(elements)[p-1], length |-> PackLen(elements[p])]
                /\ PackUnpackProgs(dir, elements)[p]
                     = [vtype |-> VType(elements[p]), prog |-> GenData(dir, elements[p])]
<1> DEFINE n == Len(elements)
           list == PortDataElements(elements)
           progs == PackUnpackProgs(dir, elements)
<1>1. n \in Nat /\ DOMAIN elements = 1 .. n
  BY PortsOf
<1>2. /\ DOMAIN list = 1 .. n /\ list \in [1 .. n -> {list[i] : i \in DOMAIN list}]
      /\ \A p \in 1 .. n : list[p] = [offset |-> Ends(elements)[p-1], length |-> PackLen(elements[p])]
  BY <1>1 DEF PortDataElements
<1>3. /\ DOMAIN progs = 1 .. n /\ progs \in [1 .. n -> {progs[i] : i \in DOMAIN progs}]
      /\ \A p \in 1 .. n : progs[p] = [vtype |-> VType(elements[p]), prog |-> GenData(dir, elements[p])]
  BY <1>1 DEF PackUnpackProgs
<1> HIDE DEF n, list, progs
<1>4. IsRow(list) /\ Len(list) = n /\ IsRow(progs) /\ Len(progs) = n
  BY <1>1, <1>2, <1>3, OfLength DEF IsRow
<1> QED BY <1>2, <1>3, <1>4 DEF n, list, progs

\* The lengths in the list are the ports' lengths.
LEMMA EndsOfList ==
    ASSUME NEW elements, IsDefinition(elements)
    PROVE  LET list == PortDataElements(elements) IN
           /\ DOMAIN list = 1 .. Len(elements)
           /\ [i \in DOMAIN list |-> list[i].length] = Lengths(elements)
           /\ Sums(Lengths(elements)) = Ends(elements)
<1> DEFINE list == PortDataElements(elements)
           n == Len(elements)
<1>1. DOMAIN elements = 1 .. n
  BY PortsOf
<1>2. DOMAIN list = 1 .. n /\ \A p \in 1 .. n : list[p].length = PackLen(elements[p])
  BY <1>1 DEF PortDataElements
<1> HIDE DEF list, n
<1>3. [i \in DOMAIN list |-> list[i].length] = Lengths(elements)
  BY <1>1, <1>2 DEF Lengths
<1>4. Sums(Lengths(elements)) = Ends(elements)
  BY DEF Lengths, Ends
<1> QED BY <1>2, <1>3, <1>4 DEF list, n

\* The map of a node's ports: one entry for every byte, and it names the port whose
\* byte it is.
LEMMA MapOf ==
    ASSUME NEW elements, IsDefinition(elements)
    PROVE  LET map == PortDataMap(PortDataElements(elements)) IN
           /\ Len(map) = TotalLen(elements)
           /\ \A k \in 1 .. TotalLen(elements) :
                /\ map[k] \in 1 .. Len(elements)
                /\ Ends(elements)[map[k]-1] < k /\ k <= Ends(elements)[map[k]]
<1> DEFINE list == PortDataElements(elements)
           map == PortDataMap(list)
           n == Len(elements)
           l == Lengths(elements)
           g == Ends(elements)
           ends == Sums([i \in DOMAIN list |-> list[i].length])
           In(i, k) == g[i-1] < k /\ k <= g[i]
<1>1. DOMAIN list = 1 .. n /\ [i \in DOMAIN list |-> list[i].length] = l /\ Sums(l) = g
  BY EndsOfList
<1>2. Len(list) = n /\ Len(l) = n /\ l \in Seq(Nat \ {0}) /\ g[n] = TotalLen(elements)
      /\ g[n] \in Nat
  BY ListsOf, PortsOf DEF TotalLen
<1> HIDE DEF list, n, l, g
<1>3. /\ map = [k \in 1 .. ends[Len(list)] |->
                  CHOOSE i \in DOMAIN list : ends[i-1] < k /\ k <= ends[i]]
      /\ ends = g
  BY <1>1 DEF PortDataMap
<1>4. ASSUME NEW k \in 1 .. g[n] PROVE \E i \in 1 .. n : In(i, k)
  <2>1. k \in 1 .. Sums(l)[Len(l)]
    BY <1>1, <1>2
  <2>2. \E i \in 1 .. Len(l) : Sums(l)[i-1] < k /\ k <= Sums(l)[i]
    BY <1>2, <2>1, PlaceOfPart
  <2> QED BY <1>1, <1>2, <2>2
<1> HIDE DEF map, ends
<1>5. ASSUME NEW k \in 1 .. g[n] PROVE map[k] \in 1 .. n /\ In(map[k], k)
  <2>1. map[k] = CHOOSE i \in DOMAIN list : ends[i-1] < k /\ k <= ends[i]
    BY <1>2, <1>3
  <2>2. \E i \in DOMAIN list : ends[i-1] < k /\ k <= ends[i]
    BY <1>1, <1>3, <1>4
  <2>3. map[k] \in DOMAIN list /\ ends[map[k]-1] < k /\ k <= ends[map[k]]
    BY <2>1, <2>2
  <2> QED BY <1>1, <1>3, <2>3
<1>6. Len(map) = g[n]
  <2>1. map \in [1 .. g[n] -> 1 .. n]
    <3>1. map = [k \in 1 .. g[n] |-> map[k]]
      BY <1>2, <1>3
    <3> HIDE DEF In
    <3> QED BY <1>5, <3>1
  <2> QED BY <1>2, <2>1, OfLength
<1> QED BY <1>2, <1>5, <1>6 DEF In, map, list, n, g

\* A second definition behind the first makes the map longer than the new file.
LEMMA MapOfBoth ==
    ASSUME NEW old, IsDefinition(old), NEW elements, IsDefinition(elements)
    PROVE  Len(PortDataMap(PortDataElements(old) \o PortDataElements(elements)))
             > TotalLen(elements)
<1> DEFINE a == PortDataElements(old)
           b == PortDataElements(elements)
           list == a \o b
           m == Len(old)
           n == Len(elements)
           ends == Sums([i \in DOMAIN list |-> list[i].length])
<1>1. /\ IsRow(a) /\ Len(a) = m /\ m \in Nat \ {0} /\ DOMAIN a = 1 .. m
      /\ [i \in DOMAIN a |-> a[i].length] = Lengths(old)
      /\ Lengths(old) \in Seq(Nat) /\ Len(Lengths(old)) = m /\ Sums(Lengths(old)) = Ends(old)
      /\ DOMAIN old = 1 .. m
  <2>1. Lengths(old) \in Seq(Nat)
    BY PortsOf, SeqMonotonic
  <2> HIDE DEF a
  <2> QED BY <2>1, ListsOf, PortsOf, EndsOfList DEF a
<1>2. /\ IsRow(b) /\ Len(b) = n /\ n \in Nat \ {0} /\ DOMAIN b = 1 .. n
      /\ [i \in DOMAIN b |-> b[i].length] = Lengths(elements)
      /\ Lengths(elements) \in Seq(Nat) /\ Len(Lengths(elements)) = n
      /\ Sums(Lengths(elements)) = Ends(elements)
      /\ DOMAIN elements = 1 .. n
  <2>1. Lengths(elements) \in Seq(Nat)
    BY PortsOf, SeqMonotonic
  <2> HIDE DEF b
  <2> QED BY <2>1, ListsOf, PortsOf, EndsOfList DEF b
<1> HIDE DEF a, b, m, n
<1>3. /\ list \in Seq({a[i] : i \in DOMAIN a} \cup {b[i] : i \in DOMAIN b})
      /\ Len(list) = m + n /\ DOMAIN list = 1 .. m + n
      /\ \A i \in 1 .. m + n : list[i] = IF i <= m THEN a[i] ELSE b[i-m]
  <2> DEFINE S == {a[i] : i \in DOMAIN a} \cup {b[i] : i \in DOMAIN b}
  <2>1. a \in Seq(S) /\ b \in Seq(S)
    BY <1>1, <1>2, SeqMonotonic DEF IsRow
  <2> HIDE DEF S
  <2>2. /\ list \in Seq(S) /\ Len(list) = Len(a) + Len(b)
        /\ \A i \in 1 .. Len(a) + Len(b) : list[i] = IF i <= Len(a) THEN a[i] ELSE b[i-Len(a)]
    BY <2>1, ConcatProperties
  <2>3. DOMAIN list = 1 .. Len(list)
    BY <2>2, LenProperties
  <2> QED BY <1>1, <1>2, <2>2, <2>3 DEF S
<1> HIDE DEF list
<1>4. [i \in DOMAIN list |-> list[i].length] = Lengths(old) \o Lengths(elements)
  <2> DEFINE u == Lengths(old)
             v == Lengths(elements)
             both == u \o v
             f == [i \in DOMAIN list |-> list[i].length]
  <2>1. /\ both \in Seq(Nat) /\ Len(both) = m + n
        /\ \A i \in 1 .. m + n : both[i] = IF i <= m THEN u[i] ELSE v[i-m]
    <3>1. u \in Seq(Nat) /\ v \in Seq(Nat) /\ Len(u) = m /\ Len(v) = n
      BY <1>1, <1>2
    <3> HIDE DEF u, v
    <3>2. /\ both \in Seq(Nat) /\ Len(both) = Len(u) + Len(v)
          /\ \A i \in 1 .. Len(u) + Len(v) : both[i] = IF i <= Len(u) THEN u[i] ELSE v[i-Len(u)]
      BY <3>1, ConcatProperties
    <3> QED BY <3>1, <3>2
  <2>2. /\ \A i \in 1 .. m : a[i].length = Lengths(old)[i]
        /\ \A i \in 1 .. n : b[i].length = Lengths(elements)[i]
        /\ \A i \in 1 .. m : Lengths(old)[i] \in Nat
        /\ \A i \in 1 .. n : Lengths(elements)[i] \in Nat
    <3>1. /\ \A i \in 1 .. m : Lengths(old)[i] \in Nat
          /\ \A i \in 1 .. n : Lengths(elements)[i] \in Nat
      BY <1>1, <1>2, ElementOfSeq
    <3>2. \A i \in 1 .. m : a[i].length = Lengths(old)[i]
      BY <1>1
    <3>3. \A i \in 1 .. n : b[i].length = Lengths(elements)[i]
      BY <1>2
    <3> QED BY <3>1, <3>2, <3>3
  <2> HIDE DEF both
  <2>3. \A i \in 1 .. m + n : f[i] = both[i] /\ f[i] \in Nat
    <3>1. TAKE i \in 1 .. m + n
    <3>2. CASE i <= m
      <4>1. i \in 1 .. m
        BY <1>1, <3>2
      <4> QED BY <1>3, <2>1, <2>2, <3>2, <4>1
    <3>3. CASE ~ (i <= m)
      <4>1. i - m \in 1 .. n
        BY <1>1, <1>2, <3>3
      <4> QED BY <1>3, <2>1, <2>2, <3>3, <4>1
    <3> QED BY <3>2, <3>3
  <2>4. f \in [1 .. m + n -> Nat] /\ m + n \in Nat
    <3>1. DOMAIN f = 1 .. m + n /\ f = [i \in 1 .. m + n |-> f[i]]
      BY <1>3
    <3> HIDE DEF f
    <3> QED BY <1>1, <1>2, <2>3, <3>1
  <2> HIDE DEF f
  <2>5. f \in Seq(Nat) /\ Len(f) = m + n
    BY <2>4, OfLength
  <2>6. f = both
    BY <2>1, <2>3, <2>5, SeqEqual
  <2> QED BY <2>6 DEF f, both
<1>5. ends[Len(list)] = TotalLen(old) + TotalLen(elements)
  <2>1. Sums(Lengths(old) \o Lengths(elements))[Len(Lengths(old)) + Len(Lengths(elements))]
          = Sums(Lengths(old))[Len(Lengths(old))] + Sums(Lengths(elements))[Len(Lengths(elements))]
    BY <1>1, <1>2, SumsOfBoth
  <2>2. Ends(old)[m] = TotalLen(old) /\ Ends(elements)[n] = TotalLen(elements)
    BY DEF TotalLen, m, n
  <2> QED BY <1>1, <1>2, <1>3, <1>4, <2>1, <2>2
<1>6. TotalLen(old) \in Nat \ {0} /\ TotalLen(elements) \in Nat
  <2> DEFINE g == Ends(old)
             first == 1
             l == PackLen(old[first])
  <2>1. TotalLen(old) \in Nat /\ TotalLen(elements) \in Nat
    BY PortsOf
  <2>2. first \in 1 .. Len(old)
    BY <1>1 DEF m
  <2> HIDE DEF first
  <2>3. /\ g[first] = g[first-1] + l /\ l \in Nat \ {0}
        /\ g[first-1] \in Nat /\ g[first] <= TotalLen(old)
    BY <2>2, PortsOf
  <2> HIDE DEF g, l
  <2> QED BY <2>1, <2>3
<1> HIDE DEF ends
<1>7. PortDataMap(list) = [k \in 1 .. ends[Len(list)] |->
                             CHOOSE i \in DOMAIN list : ends[i-1] < k /\ k <= ends[i]]
  BY DEF PortDataMap, ends
<1> DEFINE total == ends[Len(list)]
           map == PortDataMap(list)
<1>8. total \in Nat /\ total > TotalLen(elements)
  BY <1>5, <1>6
<1>9. map \in [1 .. total -> {map[k] : k \in 1 .. total}]
  BY <1>7
<1> HIDE DEF total, map
<1>10. Len(map) = total
  BY <1>8, <1>9, OfLength
<1> QED BY <1>8, <1>10 DEF map, list, a, b
-----------------------------------------------------------------------------
(* load() *)

LEMMA BothRows ==
    ASSUME NEW a, IsRow(a), NEW b, IsRow(b)
    PROVE  Len(a \o b) = Len(a) + Len(b) /\ <<>> \o b = b
<1> DEFINE S == {a[i] : i \in DOMAIN a} \cup {b[i] : i \in DOMAIN b}
<1>1. a \in Seq(S) /\ b \in Seq(S)
  BY SeqMonotonic DEF IsRow
<1> HIDE DEF S
<1> QED BY <1>1, ConcatProperties, ConcatEmptySeq

\* A new file: as many zeros as it has bytes, and every port's place has zeros.
LEMMA NewFile ==
    ASSUME NEW n \in Nat
    PROVE  /\ Zeros(n) \in Bytes(n) /\ Zeros(n) \in Seq(Byte) /\ Len(Zeros(n)) = n
           /\ \A i \in 1 .. n : Zeros(n)[i] = 0
<1>1. Zeros(n) \in [1 .. n -> Byte] /\ \A i \in 1 .. n : Zeros(n)[i] = 0
  BY Sizes DEF Zeros, Byte
<1> QED BY <1>1, OfLength DEF Bytes

LEMMA NewPlace ==
    ASSUME NEW elements, IsDefinition(elements), NEW p \in 1 .. Len(elements)
    PROVE  Place(Zeros(TotalLen(elements)), elements, p) = Zeros(PackLen(elements[p]))
<1> DEFINE total == TotalLen(elements)
           at == Ends(elements)[p-1] + 1
           m == PackLen(elements[p])
           a == Area(Zeros(total), at, m)
<1>1. total \in Nat /\ at \in Nat \ {0} /\ m \in Nat /\ at + m <= total + 1
  <2> DEFINE g == Ends(elements)[p-1]
  <2>1. /\ total \in Nat /\ g \in Nat /\ m \in Nat /\ Ends(elements)[p] = g + m
        /\ Ends(elements)[p] <= total
    BY PortsOf
  <2> HIDE DEF g, total, m
  <2>2. g + 1 \in Nat \ {0} /\ g + 1 + m <= total + 1
    BY <2>1
  <2> QED BY <2>1, <2>2 DEF g
<1>2. Place(Zeros(total), elements, p) = a
  BY PlaceIs
<1> HIDE DEF total, at, m
<1>3. /\ a \in Seq(Byte) /\ Len(a) = m /\ \A i \in 1 .. m : a[i] = Zeros(total)[at+i-1]
  BY <1>1, NewFile, AreaIs, ZenonT(30)
<1> HIDE DEF a
<1>4. \A i \in 1 .. m : a[i] = Zeros(m)[i]
  <2>1. TAKE i \in 1 .. m
  <2>2. at + i - 1 \in 1 .. total
    BY <1>1
  <2> QED BY <1>1, <1>3, <2>2, NewFile
<1>5. a = Zeros(m)
  BY <1>1, <1>3, <1>4, NewFile, SeqEqual
<1> QED BY <1>2, <1>5 DEF total, m

LEMMA InitKeeps ==
    Init => IInv
<1> SUFFICES ASSUME Init PROVE IInv
  OBVIOUS
<1> USE DEF Init
<1>1. TypeOK
  <2>1. loads \in 0 .. MaxLoads
    BY Definitions
  <2>2. /\ Len(mInPortUnpackProg) = Len(mInPortDataElements)
        /\ Len(mOutPortPackProg) = Len(mOutPortDataElements)
    OBVIOUS
  <2> QED BY <2>1, <2>2 DEF TypeOK
<1>2. Unloaded /\ Loaded /\ Quiet /\ Remaining /\ Written
  BY DEF Unloaded, Loaded, Quiet, Remaining, Written
<1>3. OutFileHoldsValues /\ ThrowsExactly /\ NotifiedSoFar
  BY DEF OutFileHoldsValues, ThrowsExactly, NotifiedSoFar
<1> QED BY <1>1, <1>2, <1>3 DEF IInv

\* Without a fault the four lists are rows, as long as each other in a direction.
LEMMA ListsBefore ==
    ASSUME IInv, ~ fault
    PROVE  /\ IsRow(mInPortDataElements) /\ IsRow(mInPortUnpackProg)
           /\ IsRow(mOutPortDataElements) /\ IsRow(mOutPortPackProg)
           /\ Len(mInPortUnpackProg) = Len(mInPortDataElements)
           /\ Len(mOutPortPackProg) = Len(mOutPortDataElements)
<1>1. CASE mNode = NoNode
  <2>1. IsRow(<<>>)
    BY EmptySeq DEF IsRow
  <2>2. /\ mInPortDataElements = <<>> /\ mOutPortDataElements = <<>>
        /\ mInPortUnpackProg = <<>> /\ mOutPortPackProg = <<>>
    BY <1>1 DEF IInv, Unloaded
  <2> QED BY <2>1, <2>2
<1>2. CASE mNode # NoNode
  <2>1. mNode \in Nodes
    BY <1>2 DEF IInv, TypeOK
  <2>2. IsDefinition(Requires[mNode]) /\ IsDefinition(Provides[mNode])
    BY <2>1, Definitions
  <2>3. /\ mInPortDataElements = PortDataElements(Requires[mNode])
        /\ mOutPortDataElements = PortDataElements(Provides[mNode])
        /\ mInPortUnpackProg = PackUnpackProgs("UNPACK", Requires[mNode])
        /\ mOutPortPackProg = PackUnpackProgs("PACK", Provides[mNode])
    BY <1>2 DEF IInv, Loaded
  <2> QED BY <2>2, <2>3, ListsOf
<1> QED BY <1>1, <1>2

LEMMA LoadKeeps ==
    ASSUME IInv, NEW n \in Nodes, Load(n)
    PROVE  IInv'
<1> DEFINE R == Requires[n]
           P == Provides[n]
           in == PortDataElements(R)
           out == PortDataElements(P)
           unpack == PackUnpackProgs("UNPACK", R)
           pack == PackUnpackProgs("PACK", P)
<1>1. /\ IsDefinition(R) /\ IsDefinition(P) /\ n # NoNode /\ MaxLoads \in Nat
  BY Definitions
<1>2. /\ IsRow(in) /\ IsRow(unpack) /\ Len(in) = Len(unpack)
      /\ IsRow(out) /\ IsRow(pack) /\ Len(out) = Len(pack)
  BY <1>1, ListsOf
<1>3. TotalLen(R) \in Nat /\ TotalLen(P) \in Nat /\ DOMAIN P = 1 .. Len(P)
  BY <1>1, PortsOf
<1>4. /\ mInPortDataFile' = Zeros(TotalLen(R)) /\ mOutPortDataFile' = Zeros(TotalLen(P))
      /\ mInPortDataFile' \in Bytes(TotalLen(R)) /\ Len(mInPortDataFile') = TotalLen(R)
      /\ mOutPortDataFile' \in Bytes(TotalLen(P)) /\ Len(mOutPortDataFile') = TotalLen(P)
  BY <1>3, NewFile DEF Load
<1>5. /\ mNode' = n /\ call' = NoCall /\ written' = NoWrite /\ notifying' = NoWrite
      /\ lastSet' = [p \in DOMAIN P |-> Unset] /\ loads' = loads + 1 /\ loads < MaxLoads
      /\ fault' \in BOOLEAN
  BY DEF Load
<1>6. ~ fault' =>
        /\ mInPortDataElements' = in /\ mOutPortDataElements' = out
        /\ mInPortUnpackProg' = unpack /\ mOutPortPackProg' = pack
        /\ mInPortDataMap' = PortDataMap(in)
  <2>1. CASE mNode = NoNode
    <3>1. /\ mInPortDataElements = <<>> /\ mOutPortDataElements = <<>>
          /\ mInPortUnpackProg = <<>> /\ mOutPortPackProg = <<>>
      BY <2>1 DEF IInv, Unloaded
    <3>2. /\ <<>> \o in = in /\ <<>> \o out = out
          /\ <<>> \o unpack = unpack /\ <<>> \o pack = pack
      BY <1>2, BothRows
    <3> HIDE DEF R, P, in, out, unpack, pack
    <3> QED BY <3>1, <3>2 DEF Load, R, P, in, out, unpack, pack
  <2>2. CASE mNode # NoNode
    <3> DEFINE old == Requires[mNode]
    <3>1. ~ fault
      BY DEF Load
    <3>2. mNode \in Nodes
      BY <2>2 DEF IInv, TypeOK
    <3>3. IsDefinition(old)
      BY <3>2, Definitions
    <3>4. mInPortDataElements = PortDataElements(old)
      BY <2>2, <3>1 DEF IInv, Loaded
    <3>5. Len(PortDataMap(PortDataElements(old) \o in)) > TotalLen(R)
      BY <1>1, <3>3, MapOfBoth
    <3>6. mInPortDataMap' = PortDataMap(PortDataElements(old) \o in)
      BY <3>4 DEF Load
    <3>7. Len(mInPortDataMap') > Len(mInPortDataFile')
      BY <1>4, <3>5, <3>6
    <3>8. fault'
      BY <3>7 DEF Load
    <3> QED BY <3>8
  <2> QED BY <2>1, <2>2
<1>7. TypeOK'
  <2>1. /\ IsRow(mInPortDataElements) /\ IsRow(mInPortUnpackProg)
        /\ IsRow(mOutPortDataElements) /\ IsRow(mOutPortPackProg)
        /\ Len(mInPortUnpackProg) = Len(mInPortDataElements)
        /\ Len(mOutPortPackProg) = Len(mOutPortDataElements)
    <3>1. ~ fault
      BY DEF Load
    <3> QED BY <3>1, ListsBefore
  <2>2. /\ Len(mInPortUnpackProg') = Len(mInPortDataElements')
        /\ Len(mOutPortPackProg') = Len(mOutPortDataElements')
    <3>1. /\ mInPortUnpackProg' = mInPortUnpackProg \o unpack
          /\ mInPortDataElements' = mInPortDataElements \o in
          /\ mOutPortPackProg' = mOutPortPackProg \o pack
          /\ mOutPortDataElements' = mOutPortDataElements \o out
      BY DEF Load
    <3> HIDE DEF in, unpack, out, pack
    <3>2. /\ Len(mInPortUnpackProg \o unpack) = Len(mInPortUnpackProg) + Len(unpack)
          /\ Len(mInPortDataElements \o in) = Len(mInPortDataElements) + Len(in)
      BY <1>2, <2>1, BothRows
    <3>3. /\ Len(mOutPortPackProg \o pack) = Len(mOutPortPackProg) + Len(pack)
          /\ Len(mOutPortDataElements \o out) = Len(mOutPortDataElements) + Len(out)
      BY <1>2, <2>1, BothRows
    <3> QED BY <1>2, <2>1, <3>1, <3>2, <3>3
  <2>3. loads' \in 0 .. MaxLoads
    BY <1>1, <1>5 DEF IInv, TypeOK
  <2> QED BY <1>4, <1>5, <2>2, <2>3 DEF TypeOK
<1>8. Unloaded' /\ Quiet' /\ Remaining' /\ Written'
  BY <1>1, <1>5 DEF Unloaded, Quiet, Remaining, Written
<1>9. Loaded'
  BY <1>5, <1>6 DEF Loaded
<1>10. OutFileHoldsValues'
  <2>1. ASSUME NEW p \in 1 .. Len(P)
        PROVE  lastSet'[p] = Unset /\ Place(mOutPortDataFile', P, p) = Zeros(PackLen(P[p]))
    BY <1>1, <1>3, <1>4, <1>5, NewPlace
  <2>2. DOMAIN lastSet' = 1 .. Len(P)
    BY <1>3, <1>5
  <2> HIDE DEF P
  <2> QED BY <1>5, <2>1, <2>2 DEF OutFileHoldsValues, P
<1>11. ThrowsExactly' /\ NotifiedSoFar'
  BY <1>5 DEF ThrowsExactly, NotifiedSoFar
<1> QED BY <1>7, <1>8, <1>9, <1>10, <1>11 DEF IInv
-----------------------------------------------------------------------------
(* setProvidePortValue *)

\* The machine's answer, as setProvidePortValue gets it.
Answer(info, v, junk) ==
    IF Convertible(v, info.vtype) THEN Exec(info.prog, info.vtype, <<>>, v, junk)
    ELSE [exception |-> "INVALID_VARIANT_TYPE"]

\* It packs what fits; values of another kind never fit.
LEMMA AnswerIs ==
    ASSUME NEW e, IsElement(e), NEW v, IsVariant(v), NEW junk \in Byte,
           NEW info, info = [vtype |-> VType(e), prog |-> GenData("PACK", e)]
    PROVE  Packed(e, v, Answer(info, v, junk))
<1>1. info.vtype = VType(e) /\ info.prog = GenData("PACK", e)
  BY DEF VType
<1>2. CASE HasKind(e, v)
  <2>1. Convertible(v, VType(e))
    BY <1>2 DEF HasKind, Convertible, VType
  <2>2. Answer(info, v, junk) = Exec(GenData("PACK", e), VType(e), <<>>, v, junk)
    BY <1>1, <2>1 DEF Answer
  <2> QED BY <1>2, <2>2, PackCorrect
<1>3. CASE ~ HasKind(e, v)
  <2>1. ~ Convertible(v, VType(e))
    BY <1>3 DEF HasKind, Convertible, VType
  <2>2. Failed(Answer(info, v, junk))
    BY <1>1, <2>1 DEF Answer, Failed
  <2>3. ~ Fits(e, v)
    BY <1>3 DEF HasKind, VType, Fits, FitsItem
  <2> QED BY <2>2, <2>3 DEF Packed
<1> QED BY <1>2, <1>3

\* Bytes written into a file.
LEMMA OverwrittenIs ==
    ASSUME NEW file \in Seq(Byte), NEW offset \in Nat, NEW data \in Seq(Byte),
           offset + Len(data) <= Len(file)
    PROVE  /\ SameOutside(Overwritten(file, offset, data), file, offset + 1, Len(data))
           /\ Area(Overwritten(file, offset, data), offset + 1, Len(data)) = data
           /\ Overwritten(file, offset, data) \in Seq(Byte)
           /\ Len(Overwritten(file, offset, data)) = Len(file)
<1> DEFINE at == offset + 1
           n == Len(data)
           b == Overwritten(file, offset, data)
<1>1. n \in Nat /\ Len(file) \in Nat
  BY LenProperties
<1>2. at \in Nat \ {0} /\ at + n <= Len(file) + 1 /\ at - 1 = offset /\ at + n = offset + n + 1
  BY <1>1
<1>3. b = Spliced(file, at, data)
  <2> HIDE DEF at, n
  <2> QED BY <1>2 DEF Overwritten, Spliced, n
<1> HIDE DEF at, b
<1>4. SameOutside(b, file, at, n) /\ Area(b, at, n) = data
  BY <1>2, <1>3, SplicedIs
<1> QED BY <1>4 DEF SameOutside, at, n, b

LEMMA FileOf ==
    ASSUME NEW n \in Nat, NEW file \in Bytes(n)
    PROVE  file \in Seq(Byte) /\ Len(file) = n
BY OfLength DEF Bytes

LEMMA BytesOf ==
    ASSUME NEW file \in Seq(Byte)
    PROVE  file \in Bytes(Len(file))
BY LenProperties DEF Bytes

\* b is the file with other bytes for port p, and the same for the others.
PortReplaced(b, file, elements, p, bytes) ==
    /\ b \in Bytes(TotalLen(elements))
    /\ Place(b, elements, p) = bytes
    /\ \A q \in 1 .. Len(elements) : q # p => Place(b, elements, q) = Place(file, elements, q)

\* A port that is set has its bytes, and the other ports keep theirs.
LEMMA PortSet ==
    ASSUME NEW elements, IsDefinition(elements), NEW p \in 1 .. Len(elements),
           NEW file \in Bytes(TotalLen(elements)), NEW bytes \in Bytes(PackLen(elements[p]))
    PROVE  PortReplaced(Overwritten(file, Ends(elements)[p-1], bytes), file, elements, p, bytes)
<1> DEFINE total == TotalLen(elements)
           o == Ends(elements)[p-1]
           n == PackLen(elements[p])
           b == Overwritten(file, o, bytes)
<1>1. /\ total \in Nat /\ o \in Nat /\ n \in Nat \ {0} /\ Ends(elements)[p] = o + n
      /\ o + n <= total
  <2>1. /\ total \in Nat /\ o \in Nat /\ n \in Nat \ {0} /\ Ends(elements)[p] = o + n
        /\ Ends(elements)[p] <= total
    BY PortsOf
  <2> QED BY <2>1
<1>2. Place(b, elements, p) = Area(b, o + 1, n)
  BY PlaceIs
<1> HIDE DEF total, o, n
<1>3. /\ file \in Seq(Byte) /\ Len(file) = total /\ bytes \in Seq(Byte) /\ Len(bytes) = n
  BY <1>1, FileOf DEF total, n
<1>4. /\ SameOutside(b, file, o + 1, n) /\ Area(b, o + 1, n) = bytes
      /\ b \in Seq(Byte) /\ Len(b) = total
  BY <1>1, <1>3, OverwrittenIs
<1> HIDE DEF b
<1>5. b \in Bytes(total)
  BY <1>4, BytesOf
<1>6. ASSUME NEW q \in 1 .. Len(elements), q # p
      PROVE  Place(b, elements, q) = Place(file, elements, q)
  <2> DEFINE a == Ends(elements)[q-1]
             m == PackLen(elements[q])
             at == o + 1
             first == a + 1
  <2>1. a \in Nat /\ m \in Nat \ {0} /\ Ends(elements)[q] = a + m /\ Ends(elements)[q] <= total
    BY PortsOf DEF total
  <2>2. Place(b, elements, q) = Area(b, first, m) /\ Place(file, elements, q) = Area(file, first, m)
    BY PlaceIs
  <2>3. a + m <= o \/ o + n <= a
    <3>1. q < p \/ p < q
      BY <1>6, PortsOf
    <3>2. q < p => Ends(elements)[q] <= o
      BY PortsOf DEF o
    <3>3. p < q => Ends(elements)[p] <= a
      BY PortsOf
    <3> HIDE DEF a, m
    <3> QED BY <1>1, <2>1, <3>1, <3>2, <3>3
  <2> HIDE DEF a, m
  <2>4. /\ at \in Nat \ {0} /\ first \in Nat \ {0} /\ first + m <= Len(file) + 1
        /\ first + m <= at \/ at + n <= first
    BY <1>1, <1>3, <2>1, <2>3
  <2> HIDE DEF first
  <2>5. SameOutside(b, file, at, n)
    BY <1>4
  <2> HIDE DEF at
  <2>6. Area(b, first, m) = Area(file, first, m)
    BY <1>1, <1>3, <2>1, <2>4, <2>5, AreaKept
  <2> QED BY <2>2, <2>6
<1> QED BY <1>2, <1>4, <1>5, <1>6 DEF PortReplaced, total, o, n, b

\* What setting a port leaves alone stays right.
LEMMA InsideKept ==
    ASSUME IInv, UNCHANGED <<ports, inside>>
    PROVE  Remaining' /\ Written' /\ NotifiedSoFar'
<1> USE DEF ports, inside
<1>1. Due(written)' = Due(written) /\ BeginsAtPort(written)' = BeginsAtPort(written)
      /\ BeginsAtPort(notifying)' = BeginsAtPort(notifying)
  BY DEF Due, BeginsAtPort
<1>2. Remaining'
  BY <1>1 DEF IInv, Remaining
<1>3. Written'
  BY DEF IInv, Written, IsRow
<1>4. NotifiedSoFar'
  <2>1. \A i : InOrder(i)' = InOrder(i)
    BY <1>1 DEF InOrder
  <2>2. NotifiedPorts' = NotifiedPorts /\ DueSoFar' = DueSoFar
    BY <1>1 DEF NotifiedPorts, DueSoFar
  <2> QED BY <1>1, <2>1, <2>2 DEF IInv, NotifiedSoFar
<1> QED BY <1>2, <1>3, <1>4

LEMMA SetKeeps ==
    ASSUME IInv, NEW p \in DOMAIN lastSet, NEW junk \in {0, Radix - 1},
           NEW v \in Offered(Provides[mNode][p]), SetProvidePortValue(p, v, junk)
    PROVE  IInv'
<1> DEFINE P == Provides[mNode]
           e == P[p]
           info == mOutPortPackProg[p]
           vm == Answer(info, v, junk)
<1>1. mNode # NoNode /\ mNode \in Nodes /\ ~ fault
  BY DEF SetProvidePortValue, Idle, IInv, TypeOK
<1>2. IsDefinition(P) /\ IsVariant(v) /\ v # Unset /\ DOMAIN lastSet = DOMAIN P
      /\ DOMAIN P = 1 .. Len(P) /\ p \in 1 .. Len(P)
  <2>1. IsDefinition(P) /\ DOMAIN lastSet = DOMAIN P
    BY <1>1, Definitions DEF IInv, Loaded
  <2>2. DOMAIN P = 1 .. Len(P)
    BY <2>1, PortsOf
  <2>3. IsVariant(v) /\ v # Unset
    BY <1>1, <2>1, Definitions
  <2> QED BY <2>1, <2>2, <2>3
<1>3. /\ info = [vtype |-> VType(e), prog |-> GenData("PACK", e)]
      /\ mOutPortDataElements[p] = [offset |-> Ends(P)[p-1], length |-> PackLen(e)]
  <2>1. /\ mOutPortDataElements = PortDataElements(P)
        /\ mOutPortPackProg = PackUnpackProgs("PACK", P)
    BY <1>1 DEF IInv, Loaded
  <2> QED BY <1>2, <2>1, ListsOf
<1>4. IsElement(e) /\ junk \in Byte /\ PackLen(e) \in Nat
  <2>1. IsElement(e) /\ PackLen(e) \in Nat
    BY <1>2, PortsOf
  <2>2. junk \in Byte
    BY Sizes DEF Byte
  <2> QED BY <2>1, <2>2
<1>5. Packed(e, v, vm)
  <2> HIDE DEF e, info
  <2> QED BY <1>2, <1>3, <1>4, AnswerIs
<1>6. /\ call' = [port |-> p, value |-> v, exception |-> vm.exception]
      /\ IF vm.exception = "NONE"
         THEN WriteProvidePortRaw(p, vm.raw) /\ lastSet' = [lastSet EXCEPT ![p] = v]
         ELSE UNCHANGED <<mOutPortDataFile, lastSet>>
      /\ UNCHANGED <<ports, inside>>
  BY DEF SetProvidePortValue, Answer
<1> HIDE DEF vm
<1>7. /\ mNode' = mNode /\ fault' = fault /\ loads' = loads
      /\ mInPortDataElements' = mInPortDataElements /\ mOutPortDataElements' = mOutPortDataElements
      /\ mInPortUnpackProg' = mInPortUnpackProg /\ mOutPortPackProg' = mOutPortPackProg
      /\ mInPortDataMap' = mInPortDataMap /\ mInPortDataFile' = mInPortDataFile
      /\ notifying' = notifying /\ written' = written
  BY <1>6 DEF ports, inside
<1>8. Remaining' /\ Written' /\ NotifiedSoFar'
  BY <1>6, InsideKept
<1>9. ThrowsExactly'
  <2>1. vm.exception = "NONE" <=> Packable(e) /\ Fits(e, v)
    BY <1>5 DEF Packed, Failed
  <2>2. call'.port = p /\ call'.value = v /\ call'.exception = vm.exception
    BY <1>6
  <2> HIDE DEF e
  <2>3. (call'.exception = "NONE") <=> Packable(e) /\ Fits(e, call'.value)
    BY <2>1, <2>2
  <2> QED BY <1>7, <2>2, <2>3 DEF ThrowsExactly, e
<1>10. /\ mOutPortDataFile' \in Bytes(TotalLen(P)) /\ DOMAIN lastSet' = DOMAIN lastSet
       /\ \A q \in 1 .. Len(P) :
            IF lastSet'[q] = Unset THEN Place(mOutPortDataFile', P, q) = Zeros(PackLen(P[q]))
            ELSE Holds(Place(mOutPortDataFile', P, q), P[q], lastSet'[q])
  <2>1. /\ mOutPortDataFile \in Bytes(TotalLen(P))
        /\ \A q \in 1 .. Len(P) :
             IF lastSet[q] = Unset THEN Place(mOutPortDataFile, P, q) = Zeros(PackLen(P[q]))
             ELSE Holds(Place(mOutPortDataFile, P, q), P[q], lastSet[q])
    BY <1>1, <1>2 DEF IInv, TypeOK, OutFileHoldsValues
  <2>2. CASE vm.exception # "NONE"
    BY <1>6, <2>1, <2>2
  <2>3. CASE vm.exception = "NONE"
    <3> DEFINE b == Overwritten(mOutPortDataFile, Ends(P)[p-1], vm.raw)
    <3>1. vm.raw \in Bytes(PackLen(e)) /\ Holds(vm.raw, e, v)
      BY <1>5, <2>3 DEF Packed, Failed
    <3>2. Len(vm.raw) = PackLen(e)
      BY <1>4, <3>1, FileOf
    <3>3. mOutPortDataFile' = b
      BY <1>3, <1>6, <2>3, <3>2 DEF WriteProvidePortRaw
    <3>4. /\ b \in Bytes(TotalLen(P)) /\ Place(b, P, p) = vm.raw
          /\ \A q \in 1 .. Len(P) : q # p => Place(b, P, q) = Place(mOutPortDataFile, P, q)
      <4> DEFINE bytes == vm.raw
                 file == mOutPortDataFile
      <4>1. /\ IsDefinition(P) /\ p \in 1 .. Len(P) /\ file \in Bytes(TotalLen(P))
            /\ bytes \in Bytes(PackLen(P[p]))
        BY <1>2, <2>1, <3>1
      <4> HIDE DEF P, bytes, file
      <4>2. PortReplaced(Overwritten(file, Ends(P)[p-1], bytes), file, P, p, bytes)
        BY <4>1, PortSet
      <4> QED BY <4>2 DEF PortReplaced, bytes, file
    <3>5. /\ DOMAIN lastSet' = DOMAIN lastSet /\ lastSet'[p] = v
          /\ \A q \in 1 .. Len(P) : q # p => lastSet'[q] = lastSet[q]
      BY <1>2, <1>6, <2>3
    <3> HIDE DEF b, P
    <3> QED BY <1>2, <2>1, <3>1, <3>3, <3>4, <3>5 DEF e
  <2> QED BY <2>2, <2>3
<1>11. OutFileHoldsValues'
  <2> HIDE DEF P
  <2> QED BY <1>2, <1>7, <1>10 DEF OutFileHoldsValues, P
<1>12. TypeOK'
  BY <1>1, <1>7, <1>10 DEF IInv, TypeOK
<1>13. Unloaded' /\ Loaded' /\ Quiet'
  BY <1>1, <1>2, <1>7, <1>10 DEF IInv, Unloaded, Loaded, Quiet
<1> QED BY <1>8, <1>9, <1>11, <1>12, <1>13 DEF IInv
-----------------------------------------------------------------------------
(* Writing the file of require ports. *)

LEMMA WriteKeeps ==
    ASSUME IInv, NEW image \in Images, NEW first \in DOMAIN image, NEW last \in DOMAIN image,
           first <= last, WriteInFile(first - 1, SubSeq(image, first, last))
    PROVE  IInv'
<1> DEFINE R == Requires[mNode]
           offset == first - 1
           data == SubSeq(image, first, last)
           total == TotalLen(R)
<1>1. mNode # NoNode /\ mNode \in Nodes /\ ~ fault
  BY DEF WriteInFile, Idle, IInv, TypeOK
<1>2. IsDefinition(R) /\ total \in Nat /\ DOMAIN R = 1 .. Len(R)
  <2>1. IsDefinition(R)
    BY <1>1, Definitions
  <2> QED BY <2>1, PortsOf
<1>3. offset \in Nat /\ data \in Seq(Byte) /\ Len(data) \in Nat
  <2>1. image \in Seq(Byte)
    BY Definitions
  <2>2. first \in 1 .. Len(image) /\ last \in 1 .. Len(image) /\ Len(image) \in Nat
    BY <2>1, LenProperties
  <2>3. data \in Seq(Byte)
    <3>1. \A i \in first .. last : image[i] \in Byte
      BY <2>1, <2>2, ElementOfSeq
    <3>2. first \in Int /\ last \in Int
      BY <2>2
    <3> QED BY <3>1, <3>2, SubSeqProperties
  <2> QED BY <2>2, <2>3, LenProperties
<1>4. /\ Len(data) > 0 /\ offset + Len(data) <= Len(mInPortDataFile)
      /\ mInPortDataFile' = Overwritten(mInPortDataFile, offset, data)
      /\ written' = [offset |-> offset, data |-> data] /\ notifying' = written'
      /\ notified' = <<>> /\ UNCHANGED <<ports, outside>>
  BY DEF WriteInFile
<1> HIDE DEF R, offset, data, total
<1>5. /\ mNode' = mNode /\ fault' = fault /\ loads' = loads /\ lastSet' = lastSet /\ call' = call
      /\ mInPortDataElements' = mInPortDataElements /\ mOutPortDataElements' = mOutPortDataElements
      /\ mInPortUnpackProg' = mInPortUnpackProg /\ mOutPortPackProg' = mOutPortPackProg
      /\ mInPortDataMap' = mInPortDataMap /\ mOutPortDataFile' = mOutPortDataFile
  BY <1>4 DEF ports, outside
<1>6. /\ mInPortDataFile' \in Bytes(total) /\ Len(mInPortDataFile') = total
      /\ Area(mInPortDataFile', offset + 1, Len(data)) = data /\ offset + Len(data) <= total
  <2>1. mInPortDataFile \in Bytes(total)
    BY <1>1 DEF IInv, TypeOK, total, R
  <2>2. mInPortDataFile \in Seq(Byte) /\ Len(mInPortDataFile) = total
    BY <1>2, <2>1, FileOf
  <2>3. /\ Overwritten(mInPortDataFile, offset, data) \in Seq(Byte)
        /\ Len(Overwritten(mInPortDataFile, offset, data)) = total
        /\ Area(Overwritten(mInPortDataFile, offset, data), offset + 1, Len(data)) = data
    BY <1>3, <1>4, <2>2, OverwrittenIs
  <2> QED BY <1>4, <2>2, <2>3, BytesOf
<1>7. written'.offset = offset /\ written'.data = data
  BY <1>4
<1>8. written' # NoWrite /\ notifying' = written'
  <2>1. written' \in [offset : Nat, data : Seq(Byte)]
    BY <1>3, <1>4
  <2> QED BY <1>4, <2>1, Definitions
<1>9. TypeOK'
  <2>1. /\ mNode' # NoNode => /\ mInPortDataFile' \in Bytes(TotalLen(Requires[mNode']))
                              /\ mOutPortDataFile' \in Bytes(TotalLen(Provides[mNode']))
    BY <1>1, <1>5, <1>6 DEF IInv, TypeOK, R, total
  <2>2. notifying'.offset + Len(notifying'.data) <= Len(mInPortDataFile')
    BY <1>6, <1>7, <1>8
  <2> QED BY <1>5, <2>1, <2>2 DEF IInv, TypeOK
<1>10. Unloaded' /\ Loaded' /\ Quiet'
  BY <1>1, <1>5 DEF IInv, Unloaded, Loaded, Quiet
<1>11. Remaining'
  BY <1>3, <1>4, <1>6, <1>7, <1>8 DEF Remaining, BeginsAtPort
<1>12. Written'
  <2>1. IsRow(<<>>)
    BY EmptySeq DEF IsRow
  <2> QED BY <1>3, <1>4, <1>7, <2>1 DEF Written
<1>13. OutFileHoldsValues' /\ ThrowsExactly'
  BY <1>5 DEF IInv, OutFileHoldsValues, ThrowsExactly
<1>14. NotifiedSoFar'
  <2>1. DOMAIN notified' = {} /\ NotifiedPorts' = {}
    <3>1. DOMAIN << >> = {}
      OBVIOUS
    <3> QED BY <1>4, <3>1 DEF NotifiedPorts
  <2>2. ASSUME NEW q \in DueSoFar' PROVE FALSE
    <3> DEFINE a == Ends(R)[q-1]
               b == Ends(R)[q]
    <3>1. q \in DOMAIN R /\ offset <= a /\ b <= offset
      BY <1>5, <1>7, <1>8, <2>2 DEF DueSoFar, Due, R
    <3>2. q \in 1 .. Len(R)
      BY <1>2, <3>1
    <3>3. a \in Nat /\ b \in Nat /\ PackLen(R[q]) \in Nat \ {0} /\ b = a + PackLen(R[q])
      BY <1>2, <3>2, PortsOf
    <3> HIDE DEF a, b
    <3> QED BY <1>3, <3>1, <3>3
  <2> QED BY <2>1, <2>2 DEF NotifiedSoFar
<1> QED BY <1>9, <1>10, <1>11, <1>12, <1>13, <1>14 DEF IInv
-----------------------------------------------------------------------------
(* Reading ports, and the loop that notifies them. *)

\* A loaded node's port is read as its element says.
LEMMA PortRead ==
    ASSUME IInv, mNode # NoNode, ~ fault, NEW p \in 1 .. Len(Requires[mNode]),
           NEW data \in Seq(Byte), Len(data) >= PackLen(Requires[mNode][p])
    PROVE  Unpacked(Requires[mNode][p], data, UnpackPort(p, data))
<1> DEFINE R == Requires[mNode]
           e == R[p]
           info == mInPortUnpackProg[p]
<1>1. mNode \in Nodes
  BY DEF IInv, TypeOK
<1>2. IsDefinition(R)
  BY <1>1, Definitions
<1>3. IsElement(e)
  BY <1>2, PortsOf
<1>4. info.vtype = VType(e) /\ info.prog = GenData("UNPACK", e)
  <2>1. mInPortUnpackProg = PackUnpackProgs("UNPACK", R)
    BY DEF IInv, Loaded
  <2>2. info = [vtype |-> VType(e), prog |-> GenData("UNPACK", e)]
    BY <1>2, <2>1, ListsOf
  <2> QED BY <2>2
<1>5. UnpackPort(p, data) = Exec(info.prog, info.vtype, data, FreshValue(info.vtype), 0)
  BY DEF UnpackPort, FreshValue
<1>6. 0 \in Byte
  BY Sizes DEF Byte
<1> HIDE DEF e, info
<1>7. Unpacked(e, data, Exec(GenData("UNPACK", e), VType(e), data, FreshValue(VType(e)), 0))
  <2>1. Len(data) >= PackLen(e)
    BY DEF e
  <2> QED BY <1>3, <1>6, <2>1, UnpackCorrect
<1> QED BY <1>4, <1>5, <1>7 DEF e

\* The port whose turn it is has the byte the loop is at; a write that began with a
\* port has come to the first byte of one.
LEMMA Turn ==
    ASSUME IInv, mNode # NoNode, ~ fault, notifying # NoWrite
    PROVE  LET g == Ends(Requires[mNode])
               o == notifying.offset
           IN  /\ PortNotified \in 1 .. Len(Requires[mNode])
               /\ g[PortNotified-1] <= o /\ o < g[PortNotified]
               /\ BeginsAtPort(written) => o = g[PortNotified-1]
<1> DEFINE R == Requires[mNode]
           g == Ends(R)
           o == notifying.offset
           p == PortNotified
           total == TotalLen(R)
<1>1. mNode \in Nodes
  BY DEF IInv, TypeOK
<1>2. IsDefinition(R) /\ DOMAIN R = 1 .. Len(R) /\ total \in Nat
  BY <1>1, Definitions, PortsOf
<1>3. /\ o \in Nat /\ Len(notifying.data) > 0 /\ o + Len(notifying.data) <= total
      /\ Len(notifying.data) \in Nat
  <2>1. mInPortDataFile \in Bytes(total)
    BY DEF IInv, TypeOK
  <2>2. Len(mInPortDataFile) = total
    BY <1>2, <2>1, FileOf
  <2>3. /\ o \in Nat /\ Len(notifying.data) > 0 /\ notifying.data \in Seq(Byte)
        /\ o + Len(notifying.data) <= Len(mInPortDataFile)
    BY DEF IInv, Remaining
  <2> QED BY <2>2, <2>3, LenProperties
<1>4. p = PortDataMap(PortDataElements(R))[o+1]
  BY DEF IInv, Loaded, PortNotified
<1> HIDE DEF R, p, total, o
<1> DEFINE k == o + 1
<1>5. k \in 1 .. total
  BY <1>2, <1>3
<1>6. p \in 1 .. Len(R) /\ g[p-1] < k /\ k <= g[p]
  <2> HIDE DEF k
  <2> QED BY <1>2, <1>4, <1>5, MapOf DEF total, k
<1>7. g[p-1] \in Nat /\ g[p] \in Nat
  BY <1>2, <1>6, PortsOf
<1>8. g[p-1] <= o /\ o < g[p]
  <2> DEFINE a == g[p-1]
             b == g[p]
  <2>1. a \in Nat /\ b \in Nat /\ a < k /\ k <= b
    BY <1>6, <1>7
  <2> HIDE DEF a, b
  <2>2. a <= o /\ o < b
    BY <1>3, <2>1
  <2> QED BY <2>2 DEF a, b
<1>9. ASSUME BeginsAtPort(written) PROVE o = g[p-1]
  <2>1. BeginsAtPort(notifying)
    BY <1>9 DEF IInv, Remaining
  <2>2. PICK q \in 1 .. Len(R) : o = g[q-1]
    BY <1>2, <2>1 DEF BeginsAtPort, R, o
  <2>3. g[q-1] = o /\ g[q] \in Nat /\ o < g[q]
    <3> DEFINE b == g[q]
               n == PackLen(R[q])
    <3>1. b = g[q-1] + n /\ n \in Nat \ {0} /\ b \in Nat
      BY <1>2, PortsOf
    <3> HIDE DEF b, n
    <3>2. o < b
      BY <1>3, <2>2, <3>1
    <3> QED BY <2>2, <3>1, <3>2 DEF b
  <2>4. q = p
    <3>1. ~ (q < p)
      <4>1. q < p => g[q] <= g[p-1]
        BY <1>2, <1>6, PortsOf
      <4> QED BY <1>3, <1>7, <1>8, <2>3, <4>1
    <3>2. ~ (p < q)
      <4>1. p < q => g[p] <= g[q-1]
        BY <1>2, <1>6, PortsOf
      <4> QED BY <1>3, <1>7, <1>8, <2>3, <4>1
    <3>3. q \in Int /\ p \in Int
      BY <1>2, <1>6, PortsOf
    <3> QED BY <3>1, <3>2, <3>3
  <2> QED BY <2>2, <2>4
<1> QED BY <1>6, <1>8, <1>9 DEF R, o, p

\* The facts about the port whose turn it is.
LEMMA AtTurn ==
    ASSUME IInv, mNode # NoNode, ~ fault, notifying # NoWrite
    PROVE  LET R == Requires[mNode]
               p == PortNotified
               o == notifying.offset
               l == Len(notifying.data)
           IN  /\ IsDefinition(R) /\ DOMAIN R = 1 .. Len(R) /\ p \in 1 .. Len(R)
               /\ mInPortDataElements[p].length = PackLen(R[p])
               /\ PackLen(R[p]) \in Nat \ {0}
               /\ Ends(R)[p-1] \in Nat /\ Ends(R)[p] = Ends(R)[p-1] + PackLen(R[p])
               /\ Ends(R)[p] <= TotalLen(R) /\ TotalLen(R) \in Nat
               /\ o \in Nat /\ l \in Nat \ {0} /\ o + l <= TotalLen(R)
               /\ mInPortDataFile \in Seq(Byte) /\ Len(mInPortDataFile) = TotalLen(R)
               /\ notifying.data \in Seq(Byte)
               /\ notifying.data = Area(mInPortDataFile, o + 1, l)
<1> DEFINE R == Requires[mNode]
           p == PortNotified
           total == TotalLen(R)
<1>1. mNode \in Nodes
  BY DEF IInv, TypeOK
<1>2. IsDefinition(R) /\ DOMAIN R = 1 .. Len(R) /\ total \in Nat
  BY <1>1, Definitions, PortsOf
<1>3. p \in 1 .. Len(R)
  BY Turn
<1>4. mInPortDataElements[p].length = PackLen(R[p])
  <2>1. mInPortDataElements = PortDataElements(R)
    BY DEF IInv, Loaded
  <2>2. mInPortDataElements[p] = [offset |-> Ends(R)[p-1], length |-> PackLen(R[p])]
    BY <1>2, <1>3, <2>1, ListsOf
  <2> QED BY <2>2
<1>5. /\ PackLen(R[p]) \in Nat \ {0} /\ Ends(R)[p-1] \in Nat
      /\ Ends(R)[p] = Ends(R)[p-1] + PackLen(R[p]) /\ Ends(R)[p] <= total
  BY <1>2, <1>3, PortsOf
<1>6. mInPortDataFile \in Seq(Byte) /\ Len(mInPortDataFile) = total
  <2>1. mInPortDataFile \in Bytes(total)
    BY DEF IInv, TypeOK
  <2> QED BY <1>2, <2>1, FileOf
<1>7. /\ notifying.offset \in Nat /\ notifying.data \in Seq(Byte) /\ Len(notifying.data) > 0
      /\ notifying.offset + Len(notifying.data) <= Len(mInPortDataFile)
      /\ notifying.data = Area(mInPortDataFile, notifying.offset + 1, Len(notifying.data))
  BY DEF IInv, Remaining
<1>8. Len(notifying.data) \in Nat \ {0}
  BY <1>7, LenProperties
<1> QED BY <1>2, <1>3, <1>4, <1>5, <1>6, <1>7, <1>8

\* What is left behind the port is again the end of the write, from the next port on.
LEMMA AdvanceTo ==
    ASSUME IInv, mNode # NoNode, ~ fault, notifying # NoWrite,
           Advance, UNCHANGED <<ports, mInPortDataFile, written>>
    PROVE  LET n == PackLen(Requires[mNode][PortNotified])
               l == Len(notifying.data)
           IN  /\ n < l => notifying' # NoWrite /\ notifying'.offset = notifying.offset + n
               /\ ~ (n < l) => notifying' = NoWrite
               /\ Remaining'
<1> DEFINE R == Requires[mNode]
           p == PortNotified
           n == PackLen(R[p])
           data == notifying.data
           l == Len(data)
           o == notifying.offset
           rest == SubSeq(data, n + 1, l)
           total == TotalLen(R)
<1>1. /\ IsDefinition(R) /\ DOMAIN R = 1 .. Len(R) /\ p \in 1 .. Len(R)
      /\ mInPortDataElements[p].length = n /\ n \in Nat \ {0}
      /\ Ends(R)[p-1] \in Nat /\ Ends(R)[p] = Ends(R)[p-1] + n
      /\ Ends(R)[p] <= total /\ total \in Nat
      /\ o \in Nat /\ l \in Nat \ {0} /\ o + l <= total
      /\ mInPortDataFile \in Seq(Byte) /\ Len(mInPortDataFile) = total
      /\ data \in Seq(Byte) /\ data = Area(mInPortDataFile, o + 1, l)
  BY AtTurn
<1>2. notifying' = IF n <= l THEN Behind(notifying, n) ELSE NoWrite
  <2> HIDE DEF n
  <2> QED BY <1>1 DEF Advance
<1>3. mNode' = mNode /\ mInPortDataFile' = mInPortDataFile /\ written' = written
  BY DEF ports
<1>4. CASE ~ (n < l)
  <2>1. notifying' = NoWrite
    BY <1>1, <1>2, <1>4 DEF Behind
  <2> QED BY <1>4, <2>1 DEF Remaining
<1>5. CASE n < l
  <2>1. notifying' = [offset |-> o + n, data |-> rest]
    BY <1>1, <1>2, <1>5 DEF Behind
  <2> HIDE DEF n, l, rest, data, o, R, p, total
  <2>2. rest = Area(data, n + 1, l - n)
    <3>1. (n + 1) + (l - n) - 1 = l
      BY <1>1
    <3> QED BY <3>1 DEF Area, rest
  <2>3. /\ rest \in Seq(Byte) /\ Len(rest) = l - n
        /\ rest = Area(mInPortDataFile, o + 1 + n, l - n)
    <3> DEFINE m == l - n
               at == o + 1
    <3>1. m \in Nat \ {0} /\ n + m <= l /\ at \in Nat \ {0} /\ at + l <= Len(mInPortDataFile) + 1
      <4>1. n \in Nat \ {0} /\ l \in Nat \ {0} /\ o \in Nat /\ o + l <= total /\ total \in Nat
            /\ Len(mInPortDataFile) = total
        BY <1>1
      <4> QED BY <4>1, <1>5
    <3>2. n + 1 \in Nat \ {0} /\ (n + 1) + m <= Len(data) + 1
      BY <1>1, <3>1 DEF l
    <3> HIDE DEF m, at
    <3>3. Area(data, n + 1, m) \in Seq(Byte) /\ Len(Area(data, n + 1, m)) = m
      BY <1>1, <3>1, <3>2, AreaIs, SMTT(30)
    <3>4. Area(Area(mInPortDataFile, at, l), n + 1, m) = Area(mInPortDataFile, at + n, m)
      <4>1. mInPortDataFile \in Seq(Byte) /\ n \in Nat /\ l \in Nat /\ m \in Nat
        BY <1>1, <3>1
      <4> QED BY <3>1, <4>1, AreaOfArea, SMTT(30)
    <3> QED BY <1>1, <2>2, <3>3, <3>4 DEF m, at
  <2>4. notifying'.offset = o + n /\ notifying'.data = rest
    BY <2>1
  <2>5. notifying' # NoWrite
    <3>1. notifying' \in [offset : Nat, data : Seq(Byte)]
      BY <1>1, <2>1, <2>3
    <3> QED BY <3>1, Definitions
  <2>6. /\ written # NoWrite /\ written.offset <= o /\ o + l = written.offset + Len(written.data)
        /\ written.offset \in Nat
    BY DEF IInv, Remaining, Written, l, o, data
  <2>7. ASSUME BeginsAtPort(written)' PROVE BeginsAtPort(notifying)'
    <3>1. BeginsAtPort(written)
      BY <1>3, <2>7 DEF BeginsAtPort
    <3>2. o = Ends(R)[p-1]
      BY <3>1, Turn DEF R, o, p
    <3>3. o + n = Ends(R)[p]
      BY <1>1, <3>2
    <3>4. p # Len(R)
      <4>1. Ends(R)[Len(R)] = total
        BY DEF TotalLen, total
      <4>2. Ends(R)[p] < total
        BY <1>1, <1>5, <3>2, <3>3
      <4> QED BY <1>1, <4>1, <4>2
    <3> DEFINE q == p + 1
    <3>5. q \in 1 .. Len(R) /\ q - 1 = p
      BY <1>1, <3>4
    <3> HIDE DEF q
    <3>6. q \in DOMAIN R /\ notifying'.offset = Ends(R)[q-1]
      BY <1>1, <2>4, <3>3, <3>5
    <3> QED BY <1>3, <3>6 DEF BeginsAtPort, R
  <2>8. Remaining'
    <3>1. notifying'.offset \in Nat /\ notifying'.data \in Seq(Byte) /\ Len(notifying'.data) > 0
      BY <1>1, <1>5, <2>3, <2>4
    <3>2. notifying'.offset + Len(notifying'.data) <= Len(mInPortDataFile')
      BY <1>1, <1>3, <1>5, <2>3, <2>4
    <3>3. notifying'.data = Area(mInPortDataFile', notifying'.offset + 1, Len(notifying'.data))
      <4>1. (o + n) + 1 = o + 1 + n
        BY <1>1
      <4> QED BY <1>3, <2>3, <2>4, <4>1
    <3>4. /\ written'.offset <= notifying'.offset
          /\ notifying'.offset + Len(notifying'.data) = written'.offset + Len(written'.data)
      <4>1. (o + n) + (l - n) = o + l /\ written.offset <= o + n
        <5>1. n \in Nat /\ l \in Nat /\ o \in Nat
          BY <1>1
        <5> QED BY <5>1, <2>6
      <4> QED BY <1>3, <2>3, <2>4, <2>6, <4>1
    <3> QED BY <1>3, <2>6, <2>7, <3>1, <3>2, <3>3, <3>4 DEF Remaining
  <2> QED BY <1>5, <2>4, <2>5, <2>8 DEF n, l, o, data, R, p
<1> QED BY <1>4, <1>5

\* A port is due when all of its bytes are left and byte code can unpack it.
LEMMA DueAtTurn ==
    ASSUME IInv, mNode # NoNode, ~ fault, notifying # NoWrite, BeginsAtPort(written)
    PROVE  LET R == Requires[mNode]
               p == PortNotified
           IN  /\ p \in Due(written) <=> PackLen(R[p]) <= Len(notifying.data) /\ Unpackable(R[p])
               /\ \A q \in Due(written) :
                    /\ q \in 1 .. Len(R)
                    /\ Ends(R)[q] <= notifying.offset <=> q < p
                    /\ Ends(R)[q] <= notifying.offset + PackLen(R[p]) <=> q < p \/ q = p
                    /\ ~ (PackLen(R[p]) < Len(notifying.data)) => q < p \/ q = p
<1> DEFINE R == Requires[mNode]
           g == Ends(R)
           p == PortNotified
           n == PackLen(R[p])
           l == Len(notifying.data)
           o == notifying.offset
           end == written.offset + Len(written.data)
<1>1. /\ IsDefinition(R) /\ DOMAIN R = 1 .. Len(R) /\ p \in 1 .. Len(R) /\ n \in Nat \ {0}
      /\ g[p] = g[p-1] + n /\ o \in Nat /\ l \in Nat \ {0}
  BY AtTurn
<1>2. o = g[p-1]
  BY Turn
<1>3. written.offset <= o /\ o + l = end
  BY DEF IInv, Remaining
<1>4. \A q : q \in Due(written) <=> /\ q \in 1 .. Len(R) /\ written.offset <= g[q-1] /\ g[q] <= end
                                    /\ Unpackable(R[q])
  BY <1>1 DEF Due
<1> HIDE DEF R, g, p, n, l, o, end
<1>5. p \in Due(written) <=> n <= l /\ Unpackable(R[p])
  <2>1. g[p] = o + n /\ (o + n <= o + l <=> n <= l)
    BY <1>1, <1>2
  <2> QED BY <1>1, <1>2, <1>3, <1>4, <2>1
<1>6. ASSUME NEW q \in Due(written)
      PROVE  /\ q \in 1 .. Len(R)
             /\ g[q] <= o <=> q < p
             /\ g[q] <= o + n <=> q < p \/ q = p
             /\ ~ (n < l) => q < p \/ q = p
  <2>1. q \in 1 .. Len(R) /\ g[q] <= o + l
    BY <1>3, <1>4
  <2>2. (g[q] <= g[p-1] <=> q < p) /\ (g[q] <= g[p] <=> q < p \/ q = p) /\ g[q] \in Nat
    BY <1>1, <2>1, Before, PortsOf DEF g
  <2>3. g[p-1] = o /\ g[p] = o + n
    BY <1>1, <1>2
  <2>4. ~ (n < l) => g[q] <= o + n
    BY <1>1, <2>1, <2>2
  <2> QED BY <2>1, <2>2, <2>3, <2>4
<1> QED BY <1>5, <1>6 DEF R, g, p, n, l, o

LEMMA NotifyKeeps ==
    ASSUME IInv, NotifyPort
    PROVE  IInv'
<1> DEFINE R == Requires[mNode]
           p == PortNotified
           e == R[p]
           n == PackLen(e)
           data == notifying.data
           l == Len(data)
           o == notifying.offset
           vm == UnpackPort(p, data)
           x == [port |-> p, value |-> vm.value]
<1>1. mNode # NoNode /\ ~ fault /\ notifying # NoWrite /\ Advance
  BY DEF NotifyPort, Idle, Advance
<1>2. /\ IsDefinition(R) /\ p \in 1 .. Len(R) /\ mInPortDataElements[p].length = n
      /\ n \in Nat \ {0} /\ o \in Nat /\ l \in Nat \ {0} /\ o + l <= TotalLen(R)
      /\ mInPortDataFile \in Seq(Byte) /\ Len(mInPortDataFile) = TotalLen(R)
      /\ data \in Seq(Byte) /\ data = Area(mInPortDataFile, o + 1, l)
  BY <1>1, AtTurn
<1>3. UNCHANGED <<ports, outside, mInPortDataFile, written>>
  BY DEF NotifyPort
<1>4. /\ mNode' = mNode /\ fault' = fault /\ loads' = loads /\ lastSet' = lastSet /\ call' = call
      /\ mInPortDataElements' = mInPortDataElements /\ mOutPortDataElements' = mOutPortDataElements
      /\ mInPortUnpackProg' = mInPortUnpackProg /\ mOutPortPackProg' = mOutPortPackProg
      /\ mInPortDataMap' = mInPortDataMap /\ mOutPortDataFile' = mOutPortDataFile
      /\ mInPortDataFile' = mInPortDataFile /\ written' = written
  BY <1>3 DEF ports, outside
<1>5. /\ n < l => notifying' # NoWrite /\ notifying'.offset = o + n
      /\ ~ (n < l) => notifying' = NoWrite
      /\ Remaining'
  BY <1>1, <1>3, AdvanceTo
<1>6. notified' = IF n <= l /\ vm.exception = "NONE" THEN Append(notified, x) ELSE notified
  <2> HIDE DEF vm, n
  <2> QED BY <1>2 DEF NotifyPort, vm
<1>7. n <= l => Unpacked(e, data, vm)
  BY <1>1, <1>2, PortRead
<1> HIDE DEF R, p, n, data, l, o, vm
<1>8. written # NoWrite /\ IsRow(notified) /\ Len(notified) \in Nat
      /\ DOMAIN notified = 1 .. Len(notified)
  <2>1. written # NoWrite /\ IsRow(notified)
    BY <1>1 DEF IInv, Remaining, Written
  <2> QED BY <2>1, LenProperties DEF IsRow
<1>9. /\ IsRow(Append(notified, x)) /\ DOMAIN Append(notified, x) = 1 .. Len(notified) + 1
      /\ \A i \in 1 .. Len(notified) : Append(notified, x)[i] = notified[i]
      /\ Append(notified, x)[Len(notified)+1] = x
  <2> DEFINE S == {notified[i] : i \in DOMAIN notified} \cup {x}
             s == Append(notified, x)
  <2>1. notified \in Seq(S) /\ x \in S
    BY <1>8, SeqMonotonic DEF IsRow
  <2> HIDE DEF S, x
  <2>2. /\ s \in Seq(S) /\ Len(s) = Len(notified) + 1
        /\ \A i \in 1 .. Len(notified) : s[i] = notified[i]
        /\ s[Len(notified)+1] = x
    BY <2>1, AppendProperties
  <2>3. DOMAIN s = 1 .. Len(s) /\ s \in [1 .. Len(s) -> S] /\ Len(s) \in Nat
    BY <2>2, LenProperties
  <2> HIDE DEF s
  <2>4. s \in [1 .. Len(s) -> {s[i] : i \in DOMAIN s}]
    BY <2>3
  <2>5. IsRow(s)
    BY <2>3, <2>4, OfLength DEF IsRow
  <2> QED BY <2>2, <2>3, <2>5 DEF s
<1>10. Written'
  <2>1. IsRow(notified')
    BY <1>6, <1>8, <1>9
  <2> QED BY <1>4, <2>1 DEF IInv, Written
<1>11. TypeOK'
  <2>1. notifying' # NoWrite =>
          notifying'.offset + Len(notifying'.data) <= Len(mInPortDataFile')
    BY <1>5 DEF Remaining
  <2> QED BY <1>4, <2>1 DEF IInv, TypeOK
<1>12. Unloaded' /\ Loaded' /\ Quiet'
  BY <1>1, <1>4 DEF IInv, Unloaded, Loaded, Quiet
<1>13. OutFileHoldsValues' /\ ThrowsExactly'
  BY <1>4 DEF IInv, OutFileHoldsValues, ThrowsExactly
<1>14. Due(written)' = Due(written) /\ BeginsAtPort(written)' = BeginsAtPort(written)
  BY <1>4 DEF Due, BeginsAtPort
<1>15. ASSUME BeginsAtPort(written)
       PROVE  (\A i \in DOMAIN notified' : InOrder(i)') /\ NotifiedPorts' = DueSoFar'
  <2>1. /\ p \in Due(written) <=> n <= l /\ Unpackable(e)
        /\ \A q \in Due(written) :
             /\ q \in 1 .. Len(R)
             /\ Ends(R)[q] <= o <=> q < p
             /\ Ends(R)[q] <= o + n <=> q < p \/ q = p
             /\ ~ (n < l) => q < p \/ q = p
    BY <1>1, <1>15, DueAtTurn DEF R, p, n, l, o, data
  <2>2. (\A i \in DOMAIN notified : InOrder(i)) /\ NotifiedPorts = DueSoFar
    BY <1>1, <1>8, <1>15 DEF IInv, NotifiedSoFar
  <2>3. DueSoFar = {q \in Due(written) : q < p}
    BY <1>1, <2>1 DEF DueSoFar, R, o
  <2>4. DueSoFar' = {q \in Due(written) : q < p \/ q = p}
    BY <1>4, <1>5, <1>14, <2>1 DEF DueSoFar, R
  <2>5. notified' = IF p \in Due(written) THEN Append(notified, x) ELSE notified
    BY <1>6, <1>7, <2>1 DEF Unpacked, Failed
  <2>6. ASSUME NEW i \in DOMAIN notified, notified'[i] = notified[i],
               \A j \in 1 .. i - 1 : notified'[j] = notified[j]
        PROVE  InOrder(i)'
    BY <1>4, <1>14, <2>2, <2>6 DEF InOrder
  <2>7. CASE p \notin Due(written)
    <3>1. notified' = notified
      BY <2>5, <2>7
    <3>2. NotifiedPorts' = NotifiedPorts
      BY <3>1 DEF NotifiedPorts
    <3>3. DueSoFar' = DueSoFar
      BY <2>3, <2>4, <2>7
    <3> QED BY <2>2, <2>6, <3>1, <3>2, <3>3
  <2>8. CASE p \in Due(written)
    <3>0. PICK k : k = Len(notified) + 1
      OBVIOUS
    <3>1. /\ DOMAIN notified' = 1 .. k /\ notified'[k] = x
          /\ \A i \in 1 .. Len(notified) : notified'[i] = notified[i]
      BY <1>9, <2>5, <2>8, <3>0
    <3>2. k \in Nat /\ k - 1 = Len(notified)
      BY <1>8, <3>0
    <3>3. ASSUME NEW i \in 1 .. Len(notified) PROVE InOrder(i)'
      <4>1. \A j \in 1 .. i - 1 : j \in 1 .. Len(notified)
        BY <1>8
      <4> QED BY <1>8, <2>6, <3>1, <4>1
    <3>4. IsReading(Place(mInPortDataFile, R, p), e, vm.value)
      <4>1. n <= l /\ Unpackable(e)
        BY <2>1, <2>8
      <4>2. IsReading(SubSeq(data, 1, n), e, vm.value)
        BY <1>7, <4>1 DEF Unpacked, n
      <4> DEFINE at == o + 1
                 none == 0
      <4>3. Area(Area(mInPortDataFile, at, l), none + 1, n) = Area(mInPortDataFile, at + none, n)
        <5>1. /\ at \in Nat \ {0} /\ l \in Nat /\ at + l <= Len(mInPortDataFile) + 1
              /\ none \in Nat /\ n \in Nat /\ none + n <= l /\ mInPortDataFile \in Seq(Byte)
          <6>1. /\ o \in Nat /\ l \in Nat \ {0} /\ n \in Nat \ {0} /\ TotalLen(R) \in Nat
                /\ o + l <= TotalLen(R) /\ Len(mInPortDataFile) = TotalLen(R)
            BY <1>2, PortsOf
          <6> QED BY <1>2, <4>1, <6>1
        <5> HIDE DEF at, none
        <5> QED BY <5>1, AreaOfArea
      <4>4. SubSeq(data, 1, n) = Area(mInPortDataFile, at, n)
        <5>1. none + 1 = 1 /\ 1 + n - 1 = n /\ at + none = at
          BY <1>2
        <5> HIDE DEF none, at
        <5> QED BY <1>2, <4>3, <5>1 DEF Area, at
      <4>5. Place(mInPortDataFile, R, p) = Area(mInPortDataFile, at, n)
        <5>1. o = Ends(R)[p-1]
          BY <1>1, <1>15, Turn DEF R, p, o
        <5> QED BY <1>2, <5>1, PlaceIs DEF n
      <4> QED BY <4>2, <4>4, <4>5
    <3>5. \A q \in Due(written) : q < p => \E j \in 1 .. k - 1 : notified'[j].port = q
      <4>1. TAKE q \in Due(written)
      <4>2. HAVE q < p
      <4>3. q \in NotifiedPorts
        BY <2>2, <2>3, <4>2
      <4>4. PICK j \in 1 .. Len(notified) : notified[j].port = q
        BY <1>8, <4>3 DEF NotifiedPorts
      <4> QED BY <3>1, <3>2, <4>4
    <3>6. \A j \in 1 .. k - 1 : notified'[j].port < p
      <4>1. TAKE j \in 1 .. k - 1
      <4>2. notified'[j] = notified[j] /\ j \in DOMAIN notified
        BY <1>8, <3>1, <3>2
      <4>3. notified[j].port \in NotifiedPorts
        BY <4>2 DEF NotifiedPorts
      <4> QED BY <2>2, <2>3, <4>2, <4>3
    <3>7. InOrder(k)'
      <4>1. notified'[k].port = p /\ notified'[k].value = vm.value
        BY <3>1
      <4> QED BY <1>4, <1>14, <2>8, <3>4, <3>5, <3>6, <4>1 DEF InOrder, R
    <3>8. NotifiedPorts' = NotifiedPorts \cup {p}
      <4>1. NotifiedPorts' = {notified'[i].port : i \in 1 .. k}
        BY <3>1 DEF NotifiedPorts
      <4>2. NotifiedPorts = {notified[i].port : i \in 1 .. Len(notified)}
        BY <1>8 DEF NotifiedPorts
      <4>3. \A i : i \in 1 .. k <=> i \in 1 .. Len(notified) \/ i = k
        BY <1>8, <3>2
      <4>4. notified'[k].port = p
        BY <3>1
      <4> QED BY <3>1, <4>1, <4>2, <4>3, <4>4
    <3>9. NotifiedPorts' = DueSoFar'
      BY <2>2, <2>3, <2>4, <2>8, <3>8
    <3>10. \A i \in DOMAIN notified' : i \in 1 .. Len(notified) \/ i = k
      BY <1>8, <3>1, <3>2
    <3> QED BY <3>3, <3>7, <3>9, <3>10
  <2> QED BY <2>7, <2>8
<1>16. NotifiedSoFar'
  BY <1>14, <1>15 DEF NotifiedSoFar
<1> QED BY <1>5, <1>10, <1>11, <1>12, <1>13, <1>16 DEF IInv
-----------------------------------------------------------------------------
(* The theorems. *)

LEMMA NextKeeps ==
    IInv /\ [Next]_vars => IInv'
<1> SUFFICES ASSUME IInv, [Next]_vars PROVE IInv'
  OBVIOUS
<1>1. ASSUME NEW n \in Nodes, Load(n) PROVE IInv'
  BY <1>1, LoadKeeps
<1>2. ASSUME NEW p \in DOMAIN lastSet, NEW junk \in {0, Radix - 1},
             NEW v \in Offered(Provides[mNode][p]), SetProvidePortValue(p, v, junk)
      PROVE  IInv'
  BY <1>2, SetKeeps
<1>3. ASSUME NEW image \in Images, NEW first \in DOMAIN image, NEW last \in DOMAIN image,
             first <= last, WriteInFile(first - 1, SubSeq(image, first, last))
      PROVE  IInv'
  BY <1>3, WriteKeeps
<1>4. CASE NotifyPort
  BY <1>4, NotifyKeeps
<1>5. CASE UNCHANGED vars
  <2>1. UNCHANGED <<ports, inside>> /\ UNCHANGED <<ports, outside>>
    BY <1>5 DEF vars
  <2>2. Remaining' /\ Written' /\ NotifiedSoFar'
    BY <2>1, InsideKept
  <2>3. TypeOK' /\ Unloaded' /\ Loaded' /\ Quiet'
    BY <2>1 DEF ports, inside, outside, IInv, TypeOK, Unloaded, Loaded, Quiet
  <2>4. OutFileHoldsValues' /\ ThrowsExactly'
    BY <2>1 DEF ports, inside, outside, IInv, OutFileHoldsValues, ThrowsExactly
  <2> QED BY <2>2, <2>3, <2>4 DEF IInv
<1> QED BY <1>1, <1>2, <1>3, <1>4, <1>5 DEF Next

THEOREM Invariance ==
    Spec => []IInv
<1>1. Init => IInv
  BY InitKeeps
<1>2. IInv /\ [Next]_vars => IInv'
  BY NextKeeps
<1> QED BY <1>1, <1>2, PTL DEF Spec

\* The lists are as long as each other, the files as long as the ports they hold, and
\* the loop stays inside the file: for every definition, after every load.
THEOREM TypeCorrect ==
    Spec => []TypeOK
<1>1. IInv => TypeOK
  BY DEF IInv
<1> QED BY <1>1, Invariance, PTL

\* setProvidePortValue throws for exactly the values that do not fit and the elements
\* byte code cannot pack, for every element a signature can spell.
THEOREM ThrowsExactlyAlways ==
    Spec => []ThrowsExactly
<1>1. IInv => ThrowsExactly
  BY DEF IInv
<1> QED BY <1>1, Invariance, PTL

\* Every provide port has the bytes of the value it was last set to, and no port
\* those of another: compiler, machine and file together.
THEOREM OutFileHoldsValuesAlways ==
    Spec => []OutFileHoldsValues
<1>1. IInv => OutFileHoldsValues
  BY DEF IInv
<1> QED BY <1>1, Invariance, PTL

LEMMA IInvReads ==
    IInv => ReadsAgree
<1> SUFFICES ASSUME IInv, ~ fault, mNode # NoNode, NEW p \in DOMAIN Requires[mNode]
             PROVE  LET e == Requires[mNode][p]
                        vm == GetRequirePortValue(p)
                    IN  IF Unpackable(e)
                        THEN /\ vm.exception = "NONE"
                             /\ IsReading(Place(mInPortDataFile, Requires[mNode], p), e, vm.value)
                        ELSE vm.exception # "NONE"
  BY DEF ReadsAgree
<1> DEFINE R == Requires[mNode]
           e == R[p]
           n == PackLen(e)
           a == Ends(R)[p-1]
           data == SubSeq(mInPortDataFile, a + 1, a + n)
           vm == UnpackPort(p, data)
<1>1. mNode \in Nodes
  BY DEF IInv, TypeOK
<1>2. IsDefinition(R) /\ DOMAIN R = 1 .. Len(R)
  BY <1>1, Definitions, PortsOf
<1>3. p \in 1 .. Len(R)
  BY <1>2
<1>4. GetRequirePortValue(p) = vm
  <2>1. mInPortDataElements = PortDataElements(R)
    BY DEF IInv, Loaded
  <2>2. mInPortDataElements[p] = [offset |-> a, length |-> n]
    BY <1>2, <1>3, <2>1, ListsOf
  <2> HIDE DEF a, n
  <2> QED BY <2>2 DEF GetRequirePortValue
<1>5. /\ a \in Nat /\ n \in Nat \ {0} /\ Ends(R)[p] = a + n /\ a + n <= TotalLen(R)
      /\ TotalLen(R) \in Nat
  <2>1. /\ a \in Nat /\ n \in Nat \ {0} /\ Ends(R)[p] = a + n /\ Ends(R)[p] <= TotalLen(R)
        /\ TotalLen(R) \in Nat
    BY <1>2, <1>3, PortsOf
  <2> QED BY <2>1
<1>6. mInPortDataFile \in Seq(Byte) /\ Len(mInPortDataFile) = TotalLen(R)
  <2>1. mInPortDataFile \in Bytes(TotalLen(R))
    BY DEF IInv, TypeOK
  <2> QED BY <1>5, <2>1, FileOf
<1>7. Place(mInPortDataFile, R, p) = data
  BY <1>5 DEF Place
<1>8. data \in Seq(Byte) /\ Len(data) = n
  <2> DEFINE at == a + 1
  <2>1. at \in Nat \ {0} /\ at + n <= Len(mInPortDataFile) + 1 /\ at + n - 1 = a + n
    <3> HIDE DEF a, n, R
    <3> QED BY <1>5, <1>6
  <2>2. data = Area(mInPortDataFile, at, n)
    BY <2>1 DEF Area
  <2> HIDE DEF at, data
  <2> QED BY <1>5, <1>6, <2>1, <2>2, AreaIs
<1> HIDE DEF a
<1>9. SubSeq(data, 1, n) = data
  <2> DEFINE b == data
  <2>1. Area(b, 1, Len(b)) = b
    <3>1. b \in Seq(Byte)
      BY <1>8
    <3> HIDE DEF b
    <3> QED BY <3>1, AreaOfAll
  <2>2. Area(b, 1, n) = b
    BY <1>8, <2>1
  <2>3. 1 + n - 1 = n
    BY <1>5
  <2> HIDE DEF b, n
  <2>4. SubSeq(b, 1, n) = b
    BY <2>2, <2>3 DEF Area
  <2> QED BY <2>4 DEF b
<1>10. Unpacked(e, data, vm)
  <2>1. Len(data) >= n
    BY <1>5, <1>8
  <2> QED BY <1>3, <1>8, <2>1, PortRead
<1> HIDE DEF data, vm, n
<1>11. IF Unpackable(e) THEN vm.exception = "NONE" /\ IsReading(data, e, vm.value)
       ELSE vm.exception # "NONE"
  BY <1>9, <1>10 DEF Unpacked, Failed, n
<1> QED BY <1>4, <1>7, <1>11

\* getRequirePortValue returns what the port's bytes say, whatever the peer wrote, or
\* fails where byte code cannot unpack the element.
THEOREM ReadsAgreeAlways ==
    Spec => []ReadsAgree
BY Invariance, IInvReads, PTL

\* A write that begins with a port notifies each port it covers, once, in order and
\* with the value in the file; none is missing when the loop is over.
THEOREM NotifiedCorrectlyAlways ==
    Spec => []NotifiedCorrectly
<1>1. IInv => NotifiedCorrectly
  <2> SUFFICES ASSUME IInv, ~ fault, written # NoWrite, BeginsAtPort(written)
               PROVE  /\ \A i \in DOMAIN notified : InOrder(i)
                      /\ notifying = NoWrite => Due(written) = NotifiedPorts
    BY DEF NotifiedCorrectly, InOrder
  <2>1. (\A i \in DOMAIN notified : InOrder(i)) /\ NotifiedPorts = DueSoFar
    BY DEF IInv, NotifiedSoFar
  <2> QED BY <2>1 DEF DueSoFar
<1> QED BY <1>1, Invariance, PTL
=============================================================================
