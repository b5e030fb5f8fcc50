------------------------ MODULE SocketAdapter_proofs ------------------------
(***************************************************************************)
(* Theorems about SocketAdapter, for every message alphabet, all limits    *)
(* and every number of connections, messages and calls.                    *)
(***************************************************************************)
EXTENDS SocketAdapter, SequenceTheorems, TLAPS

-----------------------------------------------------------------------------
(* Framing. *)

\* A section of a list is a list over the same set.
LEMMA SectionType ==
    ASSUME NEW S, NEW s \in Seq(S), NEW m \in Nat \ {0}, NEW n \in Int, n <= Len(s)
    PROVE  SubSeq(s, m, n) \in Seq(S)
<1>1. \A i \in m .. n : s[i] \in S
  BY LenProperties, ElementOfSeq
<1> QED BY <1>1, SubSeqProperties

\* The bytes of a message are bytes.
LEMMA FrameType ==
    ASSUME NEW body \in Seq(Nat)
    PROVE  Frame(body) \in Seq(Nat)
<1>1. Len(body) \in Nat /\ LongBit \in Nat
  BY Lengths, LenProperties
<1>2. <<Len(body)>> \in Seq(Nat) /\ <<LongBit, Len(body)>> \in Seq(Nat)
  BY <1>1
<1> QED BY <1>2, ConcatProperties DEF Frame

\* A header lies within the bytes it was read from.
LEMMA HeaderWithin ==
    ASSUME NEW bytes \in Seq(Nat)
    PROVE  /\ HeaderLen(bytes) \in 0 .. 2
           /\ HeaderLen(bytes) <= Len(bytes)
           /\ HeaderLen(bytes) > 0 => MsgLen(bytes) \in Nat
<1>1. Len(bytes) \in Nat
  BY LenProperties
<1>2. bytes # <<>> => Len(bytes) >= 1
  BY <1>1, EmptySeq
<1>3. HeaderLen(bytes) \in 0 .. 2 /\ HeaderLen(bytes) <= Len(bytes)
  <2>1. CASE bytes = <<>>
    BY <1>1, <2>1 DEF HeaderLen
  <2>2. CASE bytes # <<>> /\ bytes[1] # LongBit
    BY <1>1, <1>2, <2>2 DEF HeaderLen
  <2>3. CASE bytes # <<>> /\ bytes[1] = LongBit /\ Len(bytes) = 1
    BY <2>3 DEF HeaderLen
  <2>4. CASE bytes # <<>> /\ bytes[1] = LongBit /\ Len(bytes) # 1
    <3>1. HeaderLen(bytes) = 2
      BY <2>4 DEF HeaderLen
    <3>2. \A n \in Nat : n >= 1 /\ n # 1 => n >= 2
      OBVIOUS
    <3>3. Len(bytes) >= 2
      BY <1>1, <1>2, <2>4, <3>2, Zenon
    <3> QED BY <1>1, <3>1, <3>3
  <2> QED BY <2>1, <2>2, <2>3, <2>4
<1>4. HeaderLen(bytes) > 0 => MsgLen(bytes) \in Nat
  BY <1>1, <1>3, ElementOfSeq DEF MsgLen
<1> QED BY <1>3, <1>4

\* What the parse loop cuts out of the buffer are bytes.
LEMMA CutType ==
    ASSUME NEW bytes \in Seq(Nat), HeaderLen(bytes) > 0
    PROVE  /\ Complete(bytes) => Body(bytes) \in Seq(Nat) /\ AfterMessage(bytes) \in Seq(Nat)
           /\ SubSeq(bytes, 1, HeaderLen(bytes)) \in Seq(Nat)
<1>1. /\ HeaderLen(bytes) \in Nat /\ HeaderLen(bytes) <= Len(bytes)
      /\ MsgLen(bytes) \in Nat /\ Len(bytes) \in Nat
  BY HeaderWithin, LenProperties
<1>2. SubSeq(bytes, 1, HeaderLen(bytes)) \in Seq(Nat)
  BY <1>1, SectionType
<1>3. ASSUME Complete(bytes)
      PROVE  Body(bytes) \in Seq(Nat) /\ AfterMessage(bytes) \in Seq(Nat)
  <2>1. HeaderLen(bytes) + MsgLen(bytes) <= Len(bytes)
    BY <1>1, <1>3 DEF Complete
  <2>2. /\ HeaderLen(bytes) + 1 \in Nat \ {0} /\ HeaderLen(bytes) + MsgLen(bytes) \in Int
        /\ HeaderLen(bytes) + MsgLen(bytes) + 1 \in Nat \ {0}
    BY <1>1
  <2>3. Body(bytes) \in Seq(Nat)
    <3> DEFINE m == HeaderLen(bytes) + 1
               n == HeaderLen(bytes) + MsgLen(bytes)
    <3>1. m \in Nat \ {0} /\ n \in Int /\ n <= Len(bytes)
      BY <2>1, <2>2
    <3>2. Body(bytes) = SubSeq(bytes, m, n)
      BY DEF Body
    <3> HIDE DEF m, n
    <3> QED BY <3>1, <3>2, SectionType
  <2>4. AfterMessage(bytes) \in Seq(Nat)
    <3> DEFINE m == HeaderLen(bytes) + MsgLen(bytes) + 1
    <3>1. m \in Nat \ {0} /\ Len(bytes) \in Int /\ Len(bytes) <= Len(bytes)
      BY <1>1, <2>2
    <3>2. AfterMessage(bytes) = SubSeq(bytes, m, Len(bytes))
      BY DEF AfterMessage
    <3> HIDE DEF m
    <3> QED BY <3>1, <3>2, SectionType
  <2> QED BY <2>3, <2>4
<1> QED BY <1>2, <1>3

-----------------------------------------------------------------------------
(* The byte stream. *)

\* The bytes s begin the frames of the messages, which take n bytes together: e gives
\* the place where each of them ends.
Carries(s, messages, n) ==
    \E e \in [0 .. Len(messages) -> Nat] :
      /\ e[0] = 0 /\ e[Len(messages)] = n /\ Len(s) <= n
      /\ \A i, j \in 0 .. Len(messages) : i <= j => e[i] <= e[j]
      /\ \A i \in 1 .. Len(messages) :
           /\ e[i] = e[i-1] + Len(Frame(messages[i]))
           /\ \A j \in 1 .. Len(Frame(messages[i])) :
                e[i-1] + j <= Len(s) => s[e[i-1] + j] = Frame(messages[i])[j]

\* Bytes are joined in any grouping.
LEMMA Regrouped ==
    ASSUME NEW s \in Seq(Nat), NEW t \in Seq(Nat), NEW u \in Seq(Nat)
    PROVE  (s \o t) \o u = s \o (t \o u)
BY ConcatAssociative, SMTT(30)

\* The header of a frame, and the body behind it.
LEMMA FrameProperties ==
    ASSUME NEW body \in Seq(Nat)
    PROVE  \E h \in 1 .. 2 :
             /\ Len(Frame(body)) = h + Len(body)
             /\ Frame(body)[h] = Len(body)
             /\ h = 1 => Frame(body)[1] # LongBit
             /\ h = 2 => Frame(body)[1] = LongBit
             /\ \A j \in 1 .. Len(body) : Frame(body)[h+j] = body[j]
<1>0. /\ Len(body) \in Nat /\ LongBit \in Nat /\ MaxLength \in Nat /\ ShortLimit \in Nat
      /\ ShortLimit < LongBit
  BY Lengths, LenProperties
<1>1. CASE Len(body) <= ShortLimit
  <2> DEFINE head == <<Len(body)>>
  <2>1. head \in Seq(Nat) /\ Len(head) = 1 /\ head[1] = Len(body)
    BY <1>0
  <2>2. Frame(body) = head \o body
    BY <1>1 DEF Frame
  <2> HIDE DEF head
  <2>3. /\ Len(head \o body) = 1 + Len(body)
        /\ \A i \in 1 .. 1 + Len(body) :
             (head \o body)[i] = IF i <= 1 THEN head[i] ELSE body[i-1]
    <3>1. /\ Len(head \o body) = Len(head) + Len(body)
          /\ \A i \in 1 .. Len(head) + Len(body) :
               (head \o body)[i] = IF i <= Len(head) THEN head[i] ELSE body[i - Len(head)]
      BY <2>1, ConcatProperties
    <3> QED BY <2>1, <3>1
  <2>4. Frame(body)[1] = Len(body) /\ Len(body) # LongBit
    BY <1>0, <1>1, <2>1, <2>2, <2>3
  <2>5. \A j \in 1 .. Len(body) : Frame(body)[1+j] = body[j]
    BY <1>0, <2>2, <2>3
  <2> WITNESS 1 \in 1 .. 2
  <2> QED BY <2>2, <2>3, <2>4, <2>5
<1>2. CASE ~(Len(body) <= ShortLimit)
  <2> DEFINE head == <<LongBit, Len(body)>>
  <2>1. head \in Seq(Nat) /\ Len(head) = 2 /\ head[1] = LongBit /\ head[2] = Len(body)
    BY <1>0
  <2>2. Frame(body) = head \o body
    BY <1>2 DEF Frame
  <2> HIDE DEF head
  <2>3. /\ Len(head \o body) = 2 + Len(body)
        /\ \A i \in 1 .. 2 + Len(body) :
             (head \o body)[i] = IF i <= 2 THEN head[i] ELSE body[i-2]
    <3>1. /\ Len(head \o body) = Len(head) + Len(body)
          /\ \A i \in 1 .. Len(head) + Len(body) :
               (head \o body)[i] = IF i <= Len(head) THEN head[i] ELSE body[i - Len(head)]
      BY <2>1, ConcatProperties
    <3> QED BY <2>1, <3>1
  <2>4. Frame(body)[2] = Len(body) /\ Frame(body)[1] = LongBit
    BY <1>0, <2>1, <2>2, <2>3
  <2>5. \A j \in 1 .. Len(body) : Frame(body)[2+j] = body[j]
    BY <1>0, <2>2, <2>3
  <2> WITNESS 2 \in 1 .. 2
  <2> QED BY <2>2, <2>3, <2>4, <2>5, SMTT(30)
<1> QED BY <1>1, <1>2

\* Without messages there are no bytes.
LEMMA CarriesNothing == Carries(<<>>, <<>>, 0)
<1> DEFINE e == [i \in 0 .. 0 |-> 0]
<1>1. Len(<<>>) = 0
  BY EmptySeq
<1>2. e \in [0 .. 0 -> Nat] /\ e[0] = 0
  OBVIOUS
<1> HIDE DEF e
<1> QED BY <1>1, <1>2 DEF Carries

\* A part of the bytes, from the first one on, begins the same messages.
LEMMA CarriesLess ==
    ASSUME NEW s, NEW t, NEW messages, NEW n, Carries(s, messages, n),
           Len(s) \in Nat, Len(t) \in Nat, n \in Nat, Len(messages) \in Nat,
           \A i \in 1 .. Len(messages) : Len(Frame(messages[i])) \in Nat,
           Len(t) <= Len(s), \A p \in 1 .. Len(t) : t[p] = s[p]
    PROVE  Carries(t, messages, n)
<1>1. PICK e \in [0 .. Len(messages) -> Nat] :
        /\ e[0] = 0 /\ e[Len(messages)] = n /\ Len(s) <= n
        /\ \A i, j \in 0 .. Len(messages) : i <= j => e[i] <= e[j]
        /\ \A i \in 1 .. Len(messages) :
             /\ e[i] = e[i-1] + Len(Frame(messages[i]))
             /\ \A j \in 1 .. Len(Frame(messages[i])) :
                  e[i-1] + j <= Len(s) => s[e[i-1] + j] = Frame(messages[i])[j]
  BY DEF Carries
<1>2. ASSUME NEW i \in 1 .. Len(messages), NEW j \in 1 .. Len(Frame(messages[i])),
             e[i-1] + j <= Len(t)
      PROVE  t[e[i-1] + j] = Frame(messages[i])[j]
  <2>1. e[i-1] \in Nat /\ Len(Frame(messages[i])) \in Nat
    BY <1>1
  <2>2. e[i-1] + j \in 1 .. Len(t) /\ e[i-1] + j <= Len(s)
    BY <1>2, <2>1
  <2> QED BY <1>1, <2>2
<1>3. Len(t) <= n
  BY <1>1
<1> QED BY <1>1, <1>2, <1>3 DEF Carries

\* One more message behind bytes that are whole.
LEMMA CarriesMore ==
    ASSUME NEW S, S \subseteq Seq(Nat), NEW messages \in Seq(S), NEW body \in S,
           NEW s \in Seq(Nat), Carries(s, messages, Len(s))
    PROVE  Carries(s \o Frame(body), Append(messages, body), Len(s \o Frame(body)))
<1> DEFINE l == Len(messages)
           f == Frame(body)
           more == Append(messages, body)
           t == s \o f
<1>1. PICK e \in [0 .. l -> Nat] :
        /\ e[0] = 0 /\ e[l] = Len(s)
        /\ \A i, j \in 0 .. l : i <= j => e[i] <= e[j]
        /\ \A i \in 1 .. l :
             /\ e[i] = e[i-1] + Len(Frame(messages[i]))
             /\ \A j \in 1 .. Len(Frame(messages[i])) :
                  e[i-1] + j <= Len(s) => s[e[i-1] + j] = Frame(messages[i])[j]
  BY DEF Carries
<1>2. l \in Nat /\ Len(s) \in Nat /\ f \in Seq(Nat) /\ Len(f) \in Nat
  BY LenProperties, FrameType
<1>3. /\ Len(more) = l + 1 /\ more[l+1] = body
      /\ \A i \in 1 .. l : more[i] = messages[i]
  BY AppendProperties
<1>4. \A i \in 1 .. l : Len(Frame(messages[i])) \in Nat
  BY ElementOfSeq, FrameType, LenProperties
<1> HIDE DEF l, f, more
<1>5. /\ Len(t) = Len(s) + Len(f)
      /\ \A p \in 1 .. Len(s) : t[p] = s[p]
      /\ \A p \in 1 .. Len(f) : t[Len(s) + p] = f[p]
  <2>1. /\ Len(s \o f) = Len(s) + Len(f)
        /\ \A i \in 1 .. Len(s) + Len(f) :
             (s \o f)[i] = IF i <= Len(s) THEN s[i] ELSE f[i - Len(s)]
    BY <1>2, ConcatProperties
  <2>2. \A p \in 1 .. Len(f) : Len(s) + p \in 1 .. Len(s) + Len(f) /\ ~(Len(s) + p <= Len(s))
                               /\ Len(s) + p - Len(s) = p
    BY <1>2
  <2> QED BY <1>2, <2>1, <2>2
<1> HIDE DEF t
<1> DEFINE g == [i \in 0 .. l + 1 |-> IF i <= l THEN e[i] ELSE Len(t)]
<1>6. /\ g \in [0 .. Len(more) -> Nat] /\ g[0] = 0 /\ g[Len(more)] = Len(t) /\ Len(t) <= Len(t)
      /\ \A i \in 0 .. l : g[i] = e[i]
  BY <1>1, <1>2, <1>3, <1>5
<1>7. g[l+1] = Len(t)
  BY <1>2
<1> HIDE DEF g
<1>8. \A i \in 0 .. l : e[i] <= Len(s) /\ e[i] \in Nat
  BY <1>1, <1>2
<1>9. \A i, j \in 0 .. Len(more) : i <= j => g[i] <= g[j]
  <2>1. \A i \in 0 .. l + 1 : i \in 0 .. l \/ i = l + 1
    BY <1>2
  <2>2. \A i \in 0 .. l : g[i] <= g[l+1]
    BY <1>2, <1>5, <1>6, <1>7, <1>8, SMTT(30)
  <2>3. g[l+1] <= g[l+1]
    BY <1>2, <1>5, <1>7
  <2>4. \A i \in 0 .. l : ~(l + 1 <= i)
    BY <1>2
  <2> QED BY <1>1, <1>3, <1>6, <2>1, <2>2, <2>3, <2>4
<1>10. ASSUME NEW i \in 1 .. Len(more)
       PROVE  /\ g[i] = g[i-1] + Len(Frame(more[i]))
              /\ \A j \in 1 .. Len(Frame(more[i])) :
                   g[i-1] + j <= Len(t) => t[g[i-1] + j] = Frame(more[i])[j]
  <2>1. CASE i \in 1 .. l
    <3>1. g[i] = e[i] /\ g[i-1] = e[i-1] /\ more[i] = messages[i]
      BY <1>2, <1>3, <1>6, <2>1
    <3>2. e[i] = e[i-1] + Len(Frame(messages[i])) /\ e[i-1] \in Nat /\ e[i] <= Len(s)
      BY <1>1, <1>2, <1>8, <2>1
    <3>3. ASSUME NEW j \in 1 .. Len(Frame(messages[i]))
          PROVE  t[e[i-1] + j] = Frame(messages[i])[j]
      <4>1. Len(Frame(messages[i])) \in Nat
        BY <1>4, <2>1
      <4>2. e[i-1] + j \in 1 .. Len(s) /\ e[i-1] + j <= Len(s)
        <5> DEFINE a == e[i-1]
                   q == Len(Frame(messages[i]))
                   z == e[i]
        <5>1. a \in Nat /\ q \in Nat /\ j \in 1 .. q /\ z = a + q /\ z <= Len(s)
          BY <3>2, <4>1
        <5> HIDE DEF a, q, z
        <5>2. a + j \in 1 .. Len(s) /\ a + j <= Len(s)
          BY <1>2, <5>1
        <5> QED BY <5>2 DEF a
      <4> QED BY <1>1, <1>5, <2>1, <4>2
    <3> QED BY <3>1, <3>2, <3>3
  <2>2. CASE i = l + 1
    <3>1. g[i-1] = Len(s) /\ g[i] = Len(t) /\ more[i] = body
      <4>1. i - 1 = l
        BY <1>2, <2>2
      <4> QED BY <1>1, <1>2, <1>3, <1>6, <1>7, <2>2, <4>1
    <3>2. Frame(more[i]) = f
      BY <3>1 DEF f
    <3> QED BY <1>5, <3>1, <3>2
  <2> QED BY <1>2, <1>3, <2>1, <2>2, SMTT(30)
<1>11. Carries(t, more, Len(t))
  BY <1>6, <1>9, <1>10 DEF Carries
<1> QED BY <1>11 DEF t, f, more

\* A whole message at the front of the bytes is the first of the messages; what is
\* behind it begins the others.
LEMMA CarriesNext ==
    ASSUME NEW S, S \subseteq Seq(Nat), NEW messages \in Seq(S), NEW n \in Nat,
           NEW b \in Seq(Nat), NEW r \in Seq(Nat), Carries(b \o r, messages, n), Complete(b)
    PROVE  /\ messages # <<>>
           /\ Body(b) = messages[1]
           /\ \E left \in Nat :
                /\ Carries(AfterMessage(b) \o r, Tail(messages), left)
                /\ n = Len(b \o r) => left = Len(AfterMessage(b) \o r)
<1> DEFINE s == b \o r
           l == Len(messages)
<1>1. PICK e \in [0 .. l -> Nat] :
        /\ e[0] = 0 /\ e[l] = n /\ Len(s) <= n
        /\ \A i, j \in 0 .. l : i <= j => e[i] <= e[j]
        /\ \A i \in 1 .. l :
             /\ e[i] = e[i-1] + Len(Frame(messages[i]))
             /\ \A j \in 1 .. Len(Frame(messages[i])) :
                  e[i-1] + j <= Len(s) => s[e[i-1] + j] = Frame(messages[i])[j]
  BY DEF Carries
<1>2. l \in Nat /\ Len(s) \in Nat /\ Len(b) \in Nat /\ Len(r) \in Nat /\ s \in Seq(Nat)
  BY LenProperties, ConcatProperties
<1>3. /\ Len(s) = Len(b) + Len(r)
      /\ \A p \in 1 .. Len(s) : s[p] = IF p <= Len(b) THEN b[p] ELSE r[p - Len(b)]
  BY ConcatProperties
<1> HIDE DEF s
<1>4. /\ HeaderLen(b) \in 1 .. 2 /\ MsgLen(b) \in Nat
      /\ HeaderLen(b) + MsgLen(b) <= Len(b)
  BY <1>2, HeaderWithin DEF Complete
<1>5. l >= 1 /\ messages # <<>>
  <2>1. Len(s) >= 1
    BY <1>2, <1>3, <1>4
  <2>2. l # 0
    BY <1>1, <1>2, <2>1
  <2> QED BY <1>2, <2>2, EmptySeq
<1> DEFINE m == messages[1]
           f == Frame(m)
<1>6. m \in Seq(Nat) /\ f \in Seq(Nat) /\ Len(f) \in Nat /\ Len(m) \in Nat
  BY <1>2, <1>5, ElementOfSeq, FrameType, LenProperties
<1>7. PICK h \in 1 .. 2 :
        /\ Len(f) = h + Len(m) /\ f[h] = Len(m)
        /\ h = 1 => f[1] # LongBit
        /\ h = 2 => f[1] = LongBit
        /\ \A j \in 1 .. Len(m) : f[h+j] = m[j]
  BY <1>6, FrameProperties
<1>8. e[1] = Len(f) /\ \A j \in 1 .. Len(f) : j <= Len(s) => s[j] = f[j]
  <2>1. 1 \in 1 .. l
    BY <1>2, <1>5
  <2>2. /\ e[1] = e[1-1] + Len(Frame(messages[1]))
        /\ \A j \in 1 .. Len(Frame(messages[1])) :
             e[1-1] + j <= Len(s) => s[e[1-1] + j] = Frame(messages[1])[j]
    BY <1>1, <2>1
  <2>3. 1 - 1 = 0 /\ \A j \in 1 .. Len(f) : 0 + j = j
    BY <1>6
  <2>4. /\ e[1] = 0 + Len(f)
        /\ \A j \in 1 .. Len(f) : 0 + j <= Len(s) => s[0 + j] = f[j]
    BY <1>1, <2>2, <2>3
  <2> HIDE DEF f
  <2> QED BY <1>6, <2>3, <2>4
<1> HIDE DEF f, m, l
<1>9. \A j \in 1 .. Len(f) : j <= Len(b) => b[j] = f[j]
  <2>1. SUFFICES ASSUME NEW j \in 1 .. Len(f), j <= Len(b) PROVE b[j] = f[j]
    OBVIOUS
  <2>2. j \in 1 .. Len(s) /\ j <= Len(s)
    BY <1>2, <1>3, <1>6, <2>1
  <2> QED BY <1>3, <1>8, <2>1, <2>2
<1>10. HeaderLen(b) = h /\ MsgLen(b) = Len(m)
  <2>1. 1 \in 1 .. Len(f) /\ h \in 1 .. Len(f) /\ 1 <= Len(b)
    <3>1. Len(f) = h + Len(m)
      BY <1>7
    <3>2. 1 \in 1 .. Len(f) /\ h \in 1 .. Len(f)
      BY <1>6, <3>1
    <3>3. \A x \in 1 .. 2, y \in Nat, z \in Nat : x + y <= z => 1 <= z
      OBVIOUS
    <3>4. 1 <= Len(b)
      BY <1>2, <1>4, <3>3, Zenon
    <3> QED BY <3>2, <3>4
  <2>2. b[1] = f[1] /\ b # <<>>
    BY <1>2, <1>9, <2>1, EmptySeq
  <2>3. HeaderLen(b) = h
    <3>1. CASE h = 1
      BY <1>7, <2>2, <3>1 DEF HeaderLen
    <3>2. CASE h = 2
      <4>1. b[1] = LongBit
        BY <1>7, <2>2, <3>2
      <4>2. HeaderLen(b) # 0
        BY <1>4
      <4> QED BY <2>2, <3>2, <4>1, <4>2 DEF HeaderLen
    <3> QED BY <3>1, <3>2
  <2>4. h <= Len(b)
    BY <1>2, <1>4, <2>3
  <2> QED BY <1>7, <1>9, <2>1, <2>3, <2>4 DEF MsgLen
<1>11. Len(f) <= Len(b) /\ Len(f) >= 1
  BY <1>4, <1>6, <1>7, <1>10
<1>12. Body(b) = m
  <2> DEFINE p == h + 1
             q == h + Len(m)
  <2>0. Len(f) = h + Len(m) /\ h + Len(m) <= Len(b)
    BY <1>7, <1>11
  <2>1. Body(b) = SubSeq(b, p, q)
    BY <1>10 DEF Body
  <2>2. p \in Int /\ q \in Int /\ q - p + 1 = Len(m) /\ (p <= q => q - p + 1 = Len(m))
        /\ (~(p <= q) => Len(m) = 0)
    BY <1>6
  <2>3. \A i \in p .. q : b[i] \in Nat
    <3>0. p \in Nat /\ q \in Nat /\ 1 <= p /\ q <= Len(b)
      BY <1>6, <2>0
    <3> HIDE DEF p, q
    <3>1. \A i \in p .. q : i \in 1 .. Len(b)
      BY <1>2, <3>0
    <3> QED BY <3>1, ElementOfSeq
  <2>4. \A i \in 1 .. Len(m) : p + i - 1 = h + i /\ h + i \in 1 .. Len(f) /\ h + i <= Len(b)
    BY <1>2, <1>6, <2>0, SMTT(30)
  <2> HIDE DEF p, q
  <2>5. /\ SubSeq(b, p, q) \in Seq(Nat)
        /\ Len(SubSeq(b, p, q)) = Len(m)
        /\ \A i \in 1 .. Len(m) : SubSeq(b, p, q)[i] = b[p+i-1]
    BY <2>2, <2>3, SubSeqProperties
  <2>6. \A i \in 1 .. Len(m) : SubSeq(b, p, q)[i] = m[i]
    <3>1. TAKE i \in 1 .. Len(m)
    <3>2. SubSeq(b, p, q)[i] = b[h+i]
      BY <2>4, <2>5
    <3>3. b[h+i] = f[h+i]
      BY <1>9, <2>4
    <3> QED BY <1>7, <3>2, <3>3
  <2> QED BY <1>6, <2>1, <2>5, <2>6, SeqEqual
<1> DEFINE t == AfterMessage(b) \o r
<1>13. /\ t \in Seq(Nat) /\ Len(t) \in Nat /\ Len(t) = Len(s) - Len(f)
       /\ \A p \in 1 .. Len(t) : t[p] = s[Len(f) + p]
  <2> DEFINE a == AfterMessage(b)
             k == Len(f) + 1
  <2>1. a = SubSeq(b, k, Len(b))
    BY <1>7, <1>10 DEF AfterMessage
  <2>2. k \in Int /\ Len(b) \in Int /\ Len(b) - k + 1 = Len(b) - Len(f)
        /\ (~(k <= Len(b)) => Len(b) - Len(f) = 0)
    BY <1>2, <1>6, <1>11
  <2>3. \A i \in k .. Len(b) : b[i] \in Nat
    <3>1. \A i \in k .. Len(b) : i \in 1 .. Len(b)
      BY <1>2, <1>6
    <3> QED BY <3>1, ElementOfSeq
  <2>4. \A i \in 1 .. Len(b) - Len(f) : k + i - 1 = Len(f) + i
    BY <1>2, <1>6
  <2> HIDE DEF k
  <2>5. /\ a \in Seq(Nat) /\ Len(a) = Len(b) - Len(f)
        /\ \A i \in 1 .. Len(b) - Len(f) : a[i] = b[Len(f) + i]
    <3>1. /\ SubSeq(b, k, Len(b)) \in Seq(Nat)
          /\ Len(SubSeq(b, k, Len(b))) = IF k <= Len(b) THEN Len(b) - k + 1 ELSE 0
          /\ \A i \in 1 .. Len(b) - k + 1 : SubSeq(b, k, Len(b))[i] = b[k+i-1]
      BY <2>2, <2>3, SubSeqProperties
    <3> HIDE DEF a
    <3>2. a \in Seq(Nat) /\ Len(a) = Len(b) - Len(f)
      BY <2>1, <2>2, <3>1
    <3> QED BY <2>1, <2>2, <2>4, <3>1, <3>2
  <2> HIDE DEF a
  <2>6. /\ a \o r \in Seq(Nat) /\ Len(a \o r) = Len(a) + Len(r)
        /\ \A i \in 1 .. Len(a) + Len(r) :
             (a \o r)[i] = IF i <= Len(a) THEN a[i] ELSE r[i - Len(a)]
    BY <2>5, ConcatProperties
  <2>7. ASSUME NEW i \in 1 .. Len(a) + Len(r) PROVE (a \o r)[i] = s[Len(f) + i]
    <3>0. Len(f) + i \in 1 .. Len(s) /\ i - Len(a) = Len(f) + i - Len(b) /\ i \in Nat
      BY <1>2, <1>3, <1>6, <1>11, <2>5
    <3>1. CASE i <= Len(a)
      <4>1. i \in 1 .. Len(b) - Len(f) /\ Len(f) + i <= Len(b)
        BY <1>2, <1>6, <2>5, <3>0, <3>1
      <4> QED BY <1>3, <2>5, <2>6, <3>0, <3>1, <4>1
    <3>2. CASE ~(i <= Len(a))
      <4>1. ~(Len(f) + i <= Len(b))
        BY <1>2, <1>6, <1>11, <2>5, <3>0, <3>2
      <4>2. (a \o r)[i] = r[i - Len(a)]
        BY <2>6, <3>2
      <4>3. s[Len(f) + i] = r[Len(f) + i - Len(b)]
        BY <1>3, <3>0, <4>1, SMTT(30)
      <4> QED BY <3>0, <4>2, <4>3
    <3> QED BY <3>1, <3>2
  <2>8. Len(a) + Len(r) = Len(s) - Len(f) /\ Len(s) - Len(f) \in Nat
    BY <1>2, <1>3, <1>6, <1>11, <2>5
  <2> QED BY <2>6, <2>7, <2>8 DEF a
<1> HIDE DEF t
<1>14. /\ Tail(messages) \in Seq(S) /\ Len(Tail(messages)) = l - 1
       /\ \A i \in 1 .. l - 1 : Tail(messages)[i] = messages[i+1]
  BY <1>5, HeadTailProperties DEF l
<1> DEFINE rest == Tail(messages)
           g == [i \in 0 .. l - 1 |-> e[i+1] - Len(f)]
           left == n - Len(f)
<1>15. \A i \in 0 .. l - 1 : e[i+1] >= Len(f) /\ e[i+1] \in Nat /\ i + 1 \in 1 .. l
  <2>1. \A i \in 0 .. l - 1 : i + 1 \in 0 .. l /\ 1 \in 0 .. l /\ 1 <= i + 1 /\ i + 1 \in 1 .. l
    BY <1>2, <1>5
  <2> QED BY <1>1, <1>6, <1>8, <2>1
<1>16. \A i \in 0 .. l - 1 : g[i] = e[i+1] - Len(f) /\ g[i] \in Nat
  BY <1>6, <1>15
<1>17. g \in [0 .. l - 1 -> Nat]
  BY <1>6, <1>15
<1>18. g[0] = 0 /\ g[l-1] = left /\ left \in Nat /\ Len(t) <= left
       /\ (n = Len(s) => left = Len(t))
  <2>1. 0 \in 0 .. l - 1 /\ l - 1 \in 0 .. l - 1 /\ 0 + 1 = 1 /\ l - 1 + 1 = l
    BY <1>2, <1>5
  <2>2. g[0] = e[1] - Len(f) /\ g[l-1] = e[l] - Len(f) /\ g[l-1] \in Nat
    BY <1>16, <2>1
  <2> HIDE DEF g
  <2>3. g[0] = 0 /\ g[l-1] = left
    BY <1>1, <1>6, <1>8, <2>2
  <2>4. left \in Nat
    BY <2>2, <2>3
  <2>5. Len(t) <= left /\ (n = Len(s) => left = Len(t))
    BY <1>1, <1>2, <1>6, <1>13
  <2> QED BY <2>3, <2>4, <2>5
<1> HIDE DEF g, left, rest
<1>19. \A i, j \in 0 .. l - 1 : i <= j => g[i] <= g[j]
  <2>1. SUFFICES ASSUME NEW i \in 0 .. l - 1, NEW j \in 0 .. l - 1, i <= j
                 PROVE  g[i] <= g[j]
    OBVIOUS
  <2>2. i + 1 \in 0 .. l /\ j + 1 \in 0 .. l /\ i + 1 <= j + 1
    BY <1>2, <2>1
  <2>3. e[i+1] <= e[j+1]
    BY <1>1, <2>2
  <2>4. e[i+1] \in Nat /\ e[j+1] \in Nat /\ g[i] = e[i+1] - Len(f) /\ g[j] = e[j+1] - Len(f)
    BY <1>15, <1>16
  <2> QED BY <1>6, <2>3, <2>4, SMTT(30)
<1>20. ASSUME NEW i \in 1 .. l - 1
       PROVE  /\ g[i] = g[i-1] + Len(Frame(rest[i]))
              /\ \A j \in 1 .. Len(Frame(rest[i])) :
                   g[i-1] + j <= Len(t) => t[g[i-1] + j] = Frame(rest[i])[j]
  <2>1. i - 1 \in 0 .. l - 1 /\ i \in 0 .. l - 1 /\ i - 1 + 1 = i /\ i + 1 \in 1 .. l
        /\ i + 1 - 1 = i
    BY <1>2
  <2>2. /\ g[i-1] = e[i] - Len(f) /\ g[i] = e[i+1] - Len(f) /\ g[i-1] \in Nat /\ g[i] \in Nat
        /\ e[i] \in Nat /\ e[i+1] \in Nat
    <3>1. e[i-1+1] \in Nat /\ e[i+1] \in Nat
      BY <1>15, <2>1
    <3>2. g[i-1] = e[i-1+1] - Len(f) /\ g[i-1] \in Nat
      BY <1>16, <2>1
    <3>3. g[i] = e[i+1] - Len(f) /\ g[i] \in Nat
      BY <1>16, <2>1
    <3> QED BY <2>1, <3>1, <3>2, <3>3
  <2> DEFINE q == messages[i+1]
  <2>3. rest[i] = q
    BY <1>14 DEF rest
  <2>4. /\ e[i+1] = e[i] + Len(Frame(q))
        /\ \A j \in 1 .. Len(Frame(q)) : e[i] + j <= Len(s) => s[e[i] + j] = Frame(q)[j]
    <3> DEFINE k == i + 1
    <3>0. k \in 1 .. l /\ k - 1 = i /\ q = messages[k]
      BY <2>1
    <3> HIDE DEF k, q
    <3>1. /\ e[k] = e[k-1] + Len(Frame(messages[k]))
          /\ \A j \in 1 .. Len(Frame(messages[k])) :
               e[k-1] + j <= Len(s) => s[e[k-1] + j] = Frame(messages[k])[j]
      BY <1>1, <3>0
    <3>2. /\ e[k] = e[i] + Len(Frame(q))
          /\ \A j \in 1 .. Len(Frame(q)) : e[i] + j <= Len(s) => s[e[i] + j] = Frame(q)[j]
      BY <3>0, <3>1
    <3> QED BY <3>2 DEF k
  <2>5. Len(Frame(q)) \in Nat
    BY <2>1, ElementOfSeq, FrameType, LenProperties
  <2> HIDE DEF q
  <2>6. g[i] = g[i-1] + Len(Frame(q))
    BY <1>6, <2>2, <2>4, <2>5
  <2>7. ASSUME NEW j \in 1 .. Len(Frame(q)), g[i-1] + j <= Len(t)
        PROVE  t[g[i-1] + j] = Frame(q)[j]
    <3> DEFINE x == g[i-1]
               y == e[i]
               z == Len(Frame(q))
    <3>0. x \in Nat /\ y \in Nat /\ z \in Nat /\ x = y - Len(f) /\ j \in 1 .. z
          /\ x + j <= Len(t) /\ Len(t) \in Nat /\ Len(t) = Len(s) - Len(f)
      BY <1>13, <2>2, <2>5, <2>7
    <3> HIDE DEF x, y, z
    <3>1a. x + j \in 1 .. Len(t) /\ Len(f) + (x + j) = y + j /\ y + j <= Len(s)
      BY <1>2, <1>6, <3>0
    <3>1. g[i-1] + j \in 1 .. Len(t) /\ Len(f) + (g[i-1] + j) = e[i] + j /\ e[i] + j <= Len(s)
      BY <3>1a DEF x, y
    <3>2. t[g[i-1] + j] = s[Len(f) + (g[i-1] + j)]
      BY <1>13, <3>1
    <3> QED BY <2>4, <3>1, <3>2
  <2> QED BY <2>3, <2>6, <2>7
<1>21. Carries(t, rest, left)
  <2>1. Len(rest) = l - 1
    BY <1>14 DEF rest
  <2>2. /\ g \in [0 .. Len(rest) -> Nat]
        /\ g[0] = 0 /\ g[Len(rest)] = left /\ Len(t) <= left
        /\ \A i, j \in 0 .. Len(rest) : i <= j => g[i] <= g[j]
    BY <1>17, <1>18, <1>19, <2>1
  <2>3. \A i \in 1 .. Len(rest) :
           /\ g[i] = g[i-1] + Len(Frame(rest[i]))
           /\ \A j \in 1 .. Len(Frame(rest[i])) :
                g[i-1] + j <= Len(t) => t[g[i-1] + j] = Frame(rest[i])[j]
    BY <1>20, <2>1
  <2> QED BY <2>2, <2>3 DEF Carries
<1>22. \E x \in Nat : Carries(t, rest, x) /\ (n = Len(s) => x = Len(t))
  BY <1>18, <1>21
<1> QED BY <1>5, <1>12, <1>22 DEF m, s, t, rest

-----------------------------------------------------------------------------
(* The inductive invariant. *)

\* Before the first call there is no socket.
NoCallNoSocket == calls = 0 => mSocketType = "NONE"

\* The parse loop runs on a socket that was connected when it was entered, and
\* still is until the handler has got a message.
LoopSocket ==
    parsing => /\ mSocketType # "NONE"
               /\ socket # "connecting"
               /\ ~m_isAcknowledgeSeen => socket = "connected"

\* The handler learns of a disconnection before the next attempt to connect.
UpSocket == handlerUp => socket \in {"connected", "closing"}

\* On a connection the acknowledge is not forgotten alone: either the handler
\* knows of the connection or no acknowledge has been seen.
AckUp == m_isAcknowledgeSeen /\ socket = "connected" => handlerUp

\* Within the loop the same holds unless the handler closed the connection.
LoopUp == parsing /\ m_isAcknowledgeSeen => handlerUp \/ closedInside

IInv == /\ TypeOK /\ NeverStranded /\ TimerOnlyDown /\ UpMeansAcknowledged
        /\ NoCallNoSocket /\ LoopSocket /\ UpSocket /\ AckUp /\ LoopUp

\* Everything but the type.
Control == /\ NeverStranded /\ TimerOnlyDown /\ UpMeansAcknowledged
           /\ NoCallNoSocket /\ LoopSocket /\ UpSocket /\ AckUp /\ LoopUp

\* The initial state satisfies the invariant.
LEMMA InitIInv == Init => IInv
<1> SUFFICES ASSUME Init PROVE IInv
  OBVIOUS
<1>1. <<>> \in Seq(Nat) /\ <<>> \in Seq({Ack} \cup Bodies) /\ <<>> \in Seq(Seq(Nat))
  BY EmptySeq
<1>2. TypeOK
  <2>1. calls \in 0 .. MaxCalls
    BY Lengths DEF Init
  <2>2. /\ mReceiveBuffer \in Seq(Nat) /\ wire \in Seq(Nat)
        /\ sent \in Seq({Ack} \cup Bodies) /\ delivered \in Seq(Seq(Nat))
    BY <1>1 DEF Init
  <2> QED BY <2>1, <2>2 DEF Init, TypeOK
<1> QED BY <1>2 DEF Init, IInv, NeverStranded, TimerOnlyDown, UpMeansAcknowledged,
  NoCallNoSocket, LoopSocket, UpSocket, AckUp, LoopUp

-----------------------------------------------------------------------------
(* The invariant is inductive. *)

\* Every step keeps the control part of the invariant, whatever its bytes are.
LEMMA NextControl ==
    ASSUME TypeOK, Control, [Next]_vars
    PROVE  Control'
<1> USE DEF Control, NeverStranded, TimerOnlyDown, UpMeansAcknowledged,
            NoCallNoSocket, LoopSocket, UpSocket, AckUp, LoopUp
<1>1. CASE UserConnect
  BY <1>1 DEF TypeOK, UserConnect, ConnectTcp, ConnectLocal, ConnectToHost, network
<1>2. CASE UserClose
  BY <1>2 DEF TypeOK, UserClose, Close, OnDisconnected
<1>3. CASE OnReconnectTimeout
  BY <1>3 DEF TypeOK, OnReconnectTimeout, ConnectTcp, ConnectLocal, ConnectToHost,
    network, observed
<1>4. CASE OnConnected
  BY <1>4 DEF TypeOK, OnConnected
<1>5. CASE OnConnectError
  BY <1>5 DEF TypeOK, OnConnectError, observed
<1>6. CASE OnRemoteClosed
  BY <1>6 DEF TypeOK, OnRemoteClosed, OnDisconnected
<1>7. CASE Disconnected
  BY <1>7 DEF TypeOK, Disconnected, OnDisconnected
<1>8. CASE ServerSend
  BY <1>8 DEF TypeOK, ServerSend, adapter, observed
<1>9. ASSUME NEW n \in 1 .. Len(wire), Receive(n) PROVE Control'
  BY <1>9 DEF TypeOK, Receive, observed
<1>10. CASE ParseAck
  BY <1>10 DEF TypeOK, ParseAck, AtMessage, ConsumeMessage, network
<1>11. CASE ParseNotAck
  BY <1>11 DEF TypeOK, ParseNotAck, AtMessage, ConsumeMessage, network, observed
<1>12. CASE Deliver
  BY <1>12 DEF TypeOK, Deliver, AtMessage, ConsumeMessage, Close, OnDisconnected,
    network
<1>13. CASE ParseError
  BY <1>13 DEF TypeOK, ParseError, AtMessage, Close, OnDisconnected
<1>14. CASE ParseEnd
  BY <1>14 DEF TypeOK, ParseEnd, network
<1>15. CASE UNCHANGED vars
  BY <1>15 DEF vars, adapter, network, observed
<1> QED BY <1>1, <1>2, <1>3, <1>4, <1>5, <1>6, <1>7, <1>8,
  <1>9, <1>10, <1>11, <1>12, <1>13, <1>14, <1>15
  DEF Next, Parse

\* What the lists of the state hold.
Lists == /\ mReceiveBuffer \in Seq(Nat) /\ wire \in Seq(Nat)
         /\ sent \in Seq({Ack} \cup Bodies) /\ delivered \in Seq(Seq(Nat))

\* Every step keeps the lists: bytes are cut and joined at places that exist.
LEMMA NextLists ==
    ASSUME Lists, [Next]_vars
    PROVE  Lists'
<1> USE DEF Lists
<1>0. <<>> \in Seq(Nat) /\ <<>> \in Seq({Ack} \cup Bodies) /\ <<>> \in Seq(Seq(Nat))
  BY EmptySeq
<1>0a. AtMessage => /\ Body(mReceiveBuffer) \in Seq(Nat)
                   /\ AfterMessage(mReceiveBuffer) \in Seq(Nat)
  BY CutType DEF AtMessage, Complete
<1>1. CASE UserConnect
  BY <1>0, <1>1 DEF UserConnect, ConnectTcp, ConnectLocal, ConnectToHost, network
<1>2. CASE UserClose
  BY <1>0, <1>2 DEF UserClose, Close, OnDisconnected
<1>3. CASE OnReconnectTimeout
  BY <1>0, <1>3 DEF OnReconnectTimeout, ConnectTcp, ConnectLocal, ConnectToHost,
    network, observed
<1>4. CASE OnConnected
  BY <1>0, <1>4 DEF OnConnected
<1>5. CASE OnConnectError
  BY <1>0, <1>5 DEF OnConnectError, observed
<1>6. CASE OnRemoteClosed
  BY <1>0, <1>6 DEF OnRemoteClosed, OnDisconnected
<1>7. CASE Disconnected
  BY <1>0, <1>7 DEF Disconnected, OnDisconnected
<1>8. CASE ServerSend
  <2>1. PICK body \in {Ack} \cup Bodies : /\ sent' = Append(sent, body)
                                         /\ wire' = wire \o Frame(body)
    BY <1>8 DEF ServerSend
  <2>2. body \in Seq(Nat)
    BY Messages
  <2>3. sent' \in Seq({Ack} \cup Bodies)
    BY <2>1, AppendProperties
  <2>4. wire' \in Seq(Nat)
    BY <2>1, <2>2, FrameType, ConcatProperties
  <2> QED BY <1>8, <2>3, <2>4 DEF ServerSend, adapter, observed
<1>9. ASSUME NEW n \in 1 .. Len(wire), Receive(n) PROVE Lists'
  <2>1. Len(wire) \in Nat
    BY LenProperties
  <2>2. SubSeq(wire, 1, n) \in Seq(Nat)
    BY <2>1, SectionType
  <2>3. SubSeq(wire, n + 1, Len(wire)) \in Seq(Nat)
    BY <2>1, SectionType
  <2>4. mReceiveBuffer \o SubSeq(wire, 1, n) \in Seq(Nat)
    BY <2>2, ConcatProperties
  <2> QED BY <1>9, <2>3, <2>4 DEF Receive, observed
<1>10. CASE ParseAck
  BY <1>0, <1>0a, <1>10 DEF ParseAck, AtMessage, ConsumeMessage, network
<1>11. CASE ParseNotAck
  BY <1>0, <1>0a, <1>11 DEF ParseNotAck, AtMessage, ConsumeMessage, network, observed
<1>12. CASE Deliver
  <2>1. delivered' = Append(delivered, Body(mReceiveBuffer)) /\ AtMessage
    BY <1>12 DEF Deliver
  <2>2. delivered' \in Seq(Seq(Nat))
    BY <1>0a, <2>1, AppendProperties
  <2>3. mReceiveBuffer' \in Seq(Nat)
    BY <1>0a, <1>12, <2>1 DEF Deliver, ConsumeMessage
  <2>4. wire' \in Seq(Nat) /\ sent' = sent
    BY <1>0, <1>12 DEF Deliver, Close, network
  <2> QED BY <2>2, <2>3, <2>4
<1>13. CASE ParseError
  <2>1. TooLong(mReceiveBuffer) =>
          SubSeq(mReceiveBuffer, 1, HeaderLen(mReceiveBuffer)) \in Seq(Nat)
    BY CutType DEF TooLong
  <2>2. wire' = <<>> /\ UNCHANGED <<sent, delivered>>
    BY <1>13 DEF ParseError, Close
  <2>3. mReceiveBuffer' \in Seq(Nat)
    BY <1>13, <2>1 DEF ParseError
  <2> QED BY <1>0, <2>2, <2>3
<1>14. CASE ParseEnd
  BY <1>0, <1>14 DEF ParseEnd, network
<1>15. CASE UNCHANGED vars
  BY <1>15 DEF vars, adapter, network, observed
<1> QED BY <1>1, <1>2, <1>3, <1>4, <1>5, <1>6, <1>7, <1>8,
  <1>9, <1>10, <1>11, <1>12, <1>13, <1>14, <1>15
  DEF Next, Parse

\* Every step keeps the type.
LEMMA NextType ==
    ASSUME TypeOK, LoopSocket, [Next]_vars
    PROVE  TypeOK'
<1>0. Lists'
  BY NextLists DEF TypeOK, Lists
<1>0a. MaxCalls \in Nat
  BY Lengths
<1> DEFINE Rest ==
      /\ mSocketType \in {"NONE", "TCP", "LOCAL"}
      /\ mSocketType = "NONE" => socket = "unconnected" /\ ~mReconnectTimer
      /\ mReconnectTimer \in BOOLEAN
      /\ mErrorCode \in {"NONE", "EVENT", "BAD_MSG", "TOO_LONG"}
      /\ m_isAcknowledgeSeen \in BOOLEAN
      /\ parsing \in BOOLEAN
      /\ socket \in {"unconnected", "connecting", "connected", "closing"}
      /\ pendingClose \in BOOLEAN /\ greeted \in BOOLEAN
      /\ handlerUp \in BOOLEAN /\ cleanStart \in BOOLEAN /\ closedInside \in BOOLEAN
      /\ calls \in 0 .. MaxCalls
<1>0b. Rest
  BY DEF TypeOK
<1>1. ASSUME UserConnect PROVE Rest'
  <2>1. calls' \in 0 .. MaxCalls
    BY <1>0a, <1>0b, <1>1 DEF UserConnect
  <2>2. pendingClose' \in BOOLEAN
    BY <1>0b, <1>1 DEF UserConnect, ConnectTcp, ConnectLocal, ConnectToHost, network
  <2>3. socket' \in {"unconnected", "connecting", "connected", "closing"}
    BY <1>0b, <1>1 DEF UserConnect, ConnectTcp, ConnectLocal, ConnectToHost, network
  <2>4. /\ mSocketType' \in {"TCP", "LOCAL"} /\ m_isAcknowledgeSeen' \in BOOLEAN
        /\ UNCHANGED <<mReconnectTimer, mErrorCode, parsing, greeted, handlerUp,
                       cleanStart, closedInside>>
    BY <1>0b, <1>1 DEF UserConnect, ConnectTcp, ConnectLocal, ConnectToHost, network
  <2> QED BY <1>0b, <2>1, <2>2, <2>3, <2>4
<1>2. ASSUME UserClose PROVE Rest'
  BY <1>0a, <1>0b, <1>2, ZenonT(30) DEF LoopSocket, UserClose, Close, OnDisconnected
<1>3. ASSUME OnReconnectTimeout PROVE Rest'
  BY <1>0a, <1>0b, <1>3, ZenonT(30) DEF LoopSocket, OnReconnectTimeout, ConnectTcp, ConnectLocal,
    ConnectToHost, network, observed
<1>4. ASSUME OnConnected PROVE Rest'
  BY <1>0a, <1>0b, <1>4 DEF LoopSocket, OnConnected
<1>5. ASSUME OnConnectError PROVE Rest'
  BY <1>0a, <1>0b, <1>5 DEF LoopSocket, OnConnectError, observed
<1>6. ASSUME OnRemoteClosed PROVE Rest'
  BY <1>0a, <1>0b, <1>6 DEF LoopSocket, OnRemoteClosed, OnDisconnected
<1>7. ASSUME Disconnected PROVE Rest'
  BY <1>0a, <1>0b, <1>7 DEF LoopSocket, Disconnected, OnDisconnected
<1>8. ASSUME ServerSend PROVE Rest'
  BY <1>0a, <1>0b, <1>8 DEF LoopSocket, ServerSend, adapter, observed
<1>9. ASSUME NEW n \in 1 .. Len(wire), Receive(n) PROVE Rest'
  BY <1>0a, <1>0b, <1>9 DEF LoopSocket, Receive, observed
<1>10. ASSUME ParseAck PROVE Rest'
  BY <1>0a, <1>0b, <1>10 DEF LoopSocket, ParseAck, AtMessage, ConsumeMessage, network
<1>11. ASSUME ParseNotAck PROVE Rest'
  BY <1>0a, <1>0b, <1>11 DEF LoopSocket, ParseNotAck, AtMessage, ConsumeMessage,
    network, observed
<1>12. ASSUME Deliver PROVE Rest'
  BY <1>0a, <1>0b, <1>12 DEF LoopSocket, Deliver, AtMessage, ConsumeMessage, Close,
    OnDisconnected, network
<1>13. ASSUME ParseError PROVE Rest'
  BY <1>0a, <1>0b, <1>13 DEF LoopSocket, ParseError, AtMessage, Close, OnDisconnected
<1>14. ASSUME ParseEnd PROVE Rest'
  BY <1>0a, <1>0b, <1>14 DEF LoopSocket, ParseEnd, network
<1>15. ASSUME UNCHANGED vars PROVE Rest'
  BY <1>0b, <1>15 DEF vars, adapter, network, observed
<1>16. Rest'
  BY <1>1, <1>2, <1>3, <1>4, <1>5, <1>6, <1>7, <1>8,
  <1>9, <1>10, <1>11, <1>12,
    <1>13, <1>14, <1>15
  DEF Next, Parse
<1> QED BY <1>0, <1>16 DEF TypeOK, Lists

-----------------------------------------------------------------------------
(* The handler gets what the server sent, in order. *)

\* Sections of a list that grows at its end or is read from its front.
LEMMA Sections ==
    ASSUME NEW S, NEW s \in Seq(S), NEW k \in 0 .. Len(s)
    PROVE  /\ \A x \in S :
                /\ SubSeq(Append(s, x), k + 1, Len(s) + 1) = Append(SubSeq(s, k + 1, Len(s)), x)
                /\ SubSeq(Append(s, x), 2, k) = SubSeq(s, 2, k)
           /\ SubSeq(s, k + 1, Len(s)) \in Seq(S)
           /\ SubSeq(s, k + 1, Len(s)) # <<>> =>
                /\ k < Len(s)
                /\ SubSeq(s, k + 1, Len(s))[1] = s[k+1]
                /\ Tail(SubSeq(s, k + 1, Len(s))) = SubSeq(s, k + 2, Len(s))
           /\ k >= 1 /\ k < Len(s) => Append(SubSeq(s, 2, k), s[k+1]) = SubSeq(s, 2, k + 1)
<1>0. Len(s) \in Nat /\ k \in Nat
  BY LenProperties
<1> DEFINE rest == SubSeq(s, k + 1, Len(s))
<1>1. /\ rest \in Seq(S) /\ Len(rest) = Len(s) - k
      /\ \A i \in 1 .. Len(s) - k : rest[i] = s[k+i]
  <2> DEFINE j == k + 1
  <2>1. \A i \in j .. Len(s) : s[i] \in S
    BY <1>0, ElementOfSeq
  <2>2. j \in Int /\ Len(s) \in Int /\ Len(s) - j + 1 = Len(s) - k
        /\ (~(j <= Len(s)) => Len(s) - k = 0)
        /\ \A i \in 1 .. Len(s) - k : j + i - 1 = k + i
    BY <1>0
  <2> HIDE DEF j
  <2>3. /\ SubSeq(s, j, Len(s)) \in Seq(S)
        /\ Len(SubSeq(s, j, Len(s))) = IF j <= Len(s) THEN Len(s) - j + 1 ELSE 0
        /\ \A i \in 1 .. Len(s) - j + 1 : SubSeq(s, j, Len(s))[i] = s[j+i-1]
    BY <2>1, <2>2, SubSeqProperties, SMTT(30)
  <2>4. rest = SubSeq(s, j, Len(s))
    BY DEF j
  <2> HIDE DEF rest
  <2> QED BY <2>2, <2>3, <2>4
<1>2. ASSUME NEW x \in S
      PROVE  /\ SubSeq(Append(s, x), k + 1, Len(s) + 1) = Append(rest, x)
             /\ SubSeq(Append(s, x), 2, k) = SubSeq(s, 2, k)
  <2> DEFINE more == Append(s, x)
             l == Len(s) + 1
  <2>1. /\ more \in Seq(S) /\ Len(more) = l /\ more[l] = x
        /\ \A i \in 1 .. Len(s) : more[i] = s[i]
    BY AppendProperties
  <2>2. /\ Append(rest, x) \in Seq(S) /\ Len(Append(rest, x)) = Len(rest) + 1
        /\ Append(rest, x)[Len(rest) + 1] = x
        /\ \A i \in 1 .. Len(rest) : Append(rest, x)[i] = rest[i]
    <3> HIDE DEF rest
    <3> QED BY <1>1, AppendProperties
  <2> HIDE DEF more, rest
  <2>3. SubSeq(more, k + 1, l) = Append(rest, x)
    <3>1. \A i \in k + 1 .. l : more[i] \in S
      BY <1>0, <2>1, ElementOfSeq
    <3>2. k + 1 \in Int /\ l \in Int /\ l - (k + 1) + 1 = Len(rest) + 1 /\ k + 1 <= l
          /\ \A i \in 1 .. Len(rest) + 1 : k + 1 + i - 1 = k + i
      BY <1>0, <1>1
    <3> DEFINE q == SubSeq(more, k + 1, l)
    <3>3. /\ q \in Seq(S) /\ Len(q) = l - (k + 1) + 1
          /\ \A i \in 1 .. l - (k + 1) + 1 : q[i] = more[k+1+i-1]
      BY <3>1, <3>2, SubSeqProperties
    <3> HIDE DEF q, l
    <3>4. /\ Len(q) = Len(rest) + 1
          /\ \A i \in 1 .. Len(rest) + 1 : q[i] = more[k+i]
      BY <3>2, <3>3
    <3>5. ASSUME NEW i \in 1 .. Len(rest) + 1 PROVE q[i] = Append(rest, x)[i]
      <4>1. CASE i \in 1 .. Len(rest)
        <5>1. k + i \in 1 .. Len(s) /\ i \in 1 .. Len(s) - k
          BY <1>0, <1>1, <4>1
        <5> QED BY <1>1, <2>1, <2>2, <3>4, <4>1, <5>1
      <4>2. CASE i = Len(rest) + 1
        <5>1. k + i = l
          BY <1>0, <1>1, <4>2 DEF l
        <5> QED BY <2>1, <2>2, <3>4, <4>2, <5>1
      <4>3. Len(rest) \in Nat
        BY <1>0, <1>1
      <4>4. i \in 1 .. Len(rest) \/ i = Len(rest) + 1
        BY <4>3
      <4> QED BY <4>1, <4>2, <4>4
    <3> QED BY <2>2, <3>3, <3>4, <3>5, SeqEqual DEF q
  <2>4. SubSeq(more, 2, k) = SubSeq(s, 2, k)
    <3>1. \A i \in 2 .. k : more[i] \in S /\ s[i] \in S /\ i \in 1 .. Len(s)
      <4>1. \A i \in 2 .. k : i \in 1 .. Len(s) /\ i \in 1 .. l
        BY <1>0
      <4> QED BY <2>1, <4>1, ElementOfSeq
    <3> DEFINE a == SubSeq(more, 2, k)
               b == SubSeq(s, 2, k)
    <3>2. 2 \in Int /\ k \in Int
      BY <1>0
    <3>3. /\ a \in Seq(S) /\ Len(a) = IF 2 <= k THEN k - 2 + 1 ELSE 0
          /\ \A i \in 1 .. k - 2 + 1 : a[i] = more[2+i-1]
      BY <3>1, <3>2, SubSeqProperties
    <3>4. /\ b \in Seq(S) /\ Len(b) = IF 2 <= k THEN k - 2 + 1 ELSE 0
          /\ \A i \in 1 .. k - 2 + 1 : b[i] = s[2+i-1]
      BY <3>1, <3>2, SubSeqProperties
    <3> HIDE DEF a, b
    <3>5. \A i \in 1 .. Len(a) : i \in 1 .. k - 2 + 1 /\ 2 + i - 1 \in 1 .. Len(s)
      BY <1>0, <3>3
    <3>6. \A i \in 1 .. Len(a) : a[i] = b[i]
      BY <2>1, <3>3, <3>4, <3>5
    <3> QED BY <3>3, <3>4, <3>6, SeqEqual DEF a, b
  <2> QED BY <2>3, <2>4 DEF more, rest
<1>3. ASSUME rest # <<>>
      PROVE  k < Len(s) /\ rest[1] = s[k+1] /\ Tail(rest) = SubSeq(s, k + 2, Len(s))
  <2>1. k < Len(s)
    <3>1. Len(rest) # 0
      BY <1>1, <1>3, EmptySeq
    <3> QED BY <1>0, <1>1, <3>1
  <2>2. rest[1] = s[k+1]
    BY <1>0, <1>1, <2>1
  <2>3. k + 1 \in 1 .. Len(s) /\ Len(s) \in k + 1 .. Len(s) /\ k + 1 + 1 = k + 2
    BY <1>0, <2>1
  <2>4. Tail(rest) = SubSeq(s, k + 1 + 1, Len(s))
    BY <2>3, HeadTailOfSubSeq
  <2> QED BY <2>1, <2>2, <2>3, <2>4
<1>4. ASSUME k >= 1, k < Len(s)
      PROVE  Append(SubSeq(s, 2, k), s[k+1]) = SubSeq(s, 2, k + 1)
  <2>1. 2 \in 1 .. Len(s) /\ k + 1 \in 2 .. Len(s) /\ k + 1 - 1 = k /\ k + 1 \in 1 .. Len(s)
    BY <1>0, <1>4
  <2>2. SubSeq(s, 2, k + 1) = SubSeq(s, 2, k + 1 - 1) \o <<s[k+1]>>
    BY <2>1, SubSeqRecursiveSecond
  <2>3. SubSeq(s, 2, k) \in Seq(S) /\ s[k+1] \in S
    <3>1. 2 \in Nat \ {0} /\ k \in Int /\ k <= Len(s)
      BY <1>0
    <3> QED BY <2>1, <3>1, SectionType, ElementOfSeq
  <2> QED BY <2>1, <2>2, <2>3, AppendIsConcat
<1> QED BY <1>1, <1>2, <1>3, <1>4

\* The buffer and the bytes that are still to come begin the messages the server sent
\* behind those that are done with, and hold all of them while the connection lasts;
\* the handler has got the first of the messages behind the acknowledge, and once the
\* acknowledge has been seen all that are done with.
Stream ==
    cleanStart =>
      \E k \in 0 .. Len(sent), n \in Nat :
        /\ Carries(mReceiveBuffer \o wire, SubSeq(sent, k + 1, Len(sent)), n)
        /\ socket = "connected" => n = Len(mReceiveBuffer \o wire)
        /\ \E d \in 0 .. k :
             /\ delivered = SubSeq(sent, 2, d)
             /\ m_isAcknowledgeSeen => d = k /\ k >= 1

\* The acknowledge comes first and is sent once.
SentShape ==
    /\ sent # <<>> => sent[1] = Ack
    /\ \A i \in 2 .. Len(sent) : sent[i] # Ack

\* A buffer with a length beyond the limit is not read into.
NotStuck == cleanStart /\ ~parsing /\ socket = "connected" => ~TooLong(mReceiveBuffer)

\* A step that hands over no message, sends none, and leaves the first of the bytes there
\* were: all of them when the connection lasts.
LEMMA StreamKept ==
    ASSUME TypeOK, TypeOK', Stream, UNCHANGED <<sent, delivered, cleanStart>>,
           m_isAcknowledgeSeen' => m_isAcknowledgeSeen,
           Len((mReceiveBuffer \o wire)') <= Len(mReceiveBuffer \o wire),
           \A p \in 1 .. Len((mReceiveBuffer \o wire)') :
             (mReceiveBuffer \o wire)'[p] = (mReceiveBuffer \o wire)[p],
           socket' = "connected" =>
             socket = "connected" /\ Len((mReceiveBuffer \o wire)') = Len(mReceiveBuffer \o wire)
    PROVE  Stream'
<1>1. SUFFICES ASSUME cleanStart
               PROVE  \E k \in 0 .. Len(sent), n \in Nat :
                        /\ Carries((mReceiveBuffer \o wire)', SubSeq(sent, k + 1, Len(sent)), n)
                        /\ socket' = "connected" => n = Len((mReceiveBuffer \o wire)')
                        /\ \E d \in 0 .. k :
                             /\ delivered = SubSeq(sent, 2, d)
                             /\ m_isAcknowledgeSeen' => d = k /\ k >= 1
  BY DEF Stream
<1>2. PICK k \in 0 .. Len(sent), n \in Nat :
        /\ Carries(mReceiveBuffer \o wire, SubSeq(sent, k + 1, Len(sent)), n)
        /\ socket = "connected" => n = Len(mReceiveBuffer \o wire)
        /\ \E d \in 0 .. k :
             /\ delivered = SubSeq(sent, 2, d)
             /\ m_isAcknowledgeSeen => d = k /\ k >= 1
  BY <1>1 DEF Stream
<1> DEFINE s == mReceiveBuffer \o wire
           t == (mReceiveBuffer \o wire)'
           rest == SubSeq(sent, k + 1, Len(sent))
<1>3. s \in Seq(Nat) /\ t \in Seq(Nat) /\ Len(s) \in Nat /\ Len(t) \in Nat
  BY ConcatProperties, LenProperties DEF TypeOK
<1>4. rest \in Seq(Seq(Nat)) /\ Len(rest) \in Nat
  <2>1. sent \in Seq(Seq(Nat))
    BY Messages, SeqMonotonic DEF TypeOK
  <2>2. rest \in Seq(Seq(Nat))
    BY <2>1, Sections
  <2> QED BY <2>2, LenProperties
<1>5. \A i \in 1 .. Len(rest) : Len(Frame(rest[i])) \in Nat
  <2> HIDE DEF rest
  <2> QED BY <1>4, ElementOfSeq, FrameType, LenProperties
<1>6. Carries(t, rest, n)
  <2>1. Carries(s, rest, n) /\ Len(t) <= Len(s) /\ \A p \in 1 .. Len(t) : t[p] = s[p]
    BY <1>2
  <2> HIDE DEF s, t, rest
  <2> QED BY <1>3, <1>4, <1>5, <2>1, CarriesLess
<1>7. socket' = "connected" => n = Len(t)
  BY <1>2
<1> QED BY <1>2, <1>6, <1>7

\* A step that takes a whole message out of the buffer takes the next one the server sent.
LEMMA StreamNext ==
    ASSUME TypeOK, TypeOK', Stream, cleanStart, AtMessage, ConsumeMessage, sent' = sent,
           wire' = wire \/ wire' = <<>>,
           socket' = "connected" => socket = "connected" /\ wire' = wire
    PROVE  \E k \in 0 .. Len(sent) - 1, n \in Nat :
             /\ Body(mReceiveBuffer) = sent[k+1]
             /\ Carries((mReceiveBuffer \o wire)', SubSeq(sent, k + 2, Len(sent)), n)
             /\ socket' = "connected" => n = Len((mReceiveBuffer \o wire)')
             /\ \E d \in 0 .. k :
                  /\ delivered = SubSeq(sent, 2, d)
                  /\ m_isAcknowledgeSeen => d = k /\ k >= 1
<1>1. PICK k \in 0 .. Len(sent), n \in Nat :
        /\ Carries(mReceiveBuffer \o wire, SubSeq(sent, k + 1, Len(sent)), n)
        /\ socket = "connected" => n = Len(mReceiveBuffer \o wire)
        /\ \E d \in 0 .. k :
             /\ delivered = SubSeq(sent, 2, d)
             /\ m_isAcknowledgeSeen => d = k /\ k >= 1
  BY DEF Stream
<1> DEFINE b == mReceiveBuffer
           a == AfterMessage(b)
           rest == SubSeq(sent, k + 1, Len(sent))
           next == SubSeq(sent, k + 2, Len(sent))
<1>2. b \in Seq(Nat) /\ wire \in Seq(Nat) /\ wire' \in Seq(Nat) /\ a \in Seq(Nat)
  BY CutType DEF TypeOK, AtMessage, Complete
<1>3. sent \in Seq(Seq(Nat)) /\ Len(sent) \in Nat
  BY Messages, SeqMonotonic, LenProperties DEF TypeOK
<1>4. rest \in Seq(Seq(Nat))
  BY <1>3, Sections
<1>5. Complete(b)
  BY DEF AtMessage
<1>6. /\ rest # <<>> /\ Body(b) = rest[1]
      /\ \E left \in Nat :
           /\ Carries(a \o wire, Tail(rest), left)
           /\ n = Len(b \o wire) => left = Len(a \o wire)
  <2>1. Carries(b \o wire, rest, n)
    BY <1>1
  <2> HIDE DEF b, rest
  <2> QED BY <1>2, <1>4, <1>5, <2>1, CarriesNext
<1>7. k < Len(sent) /\ rest[1] = sent[k+1] /\ Tail(rest) = next
  BY <1>3, <1>6, Sections
<1>8. PICK left \in Nat :
        /\ Carries(a \o wire, next, left)
        /\ n = Len(b \o wire) => left = Len(a \o wire)
  BY <1>6, <1>7
<1>9. (mReceiveBuffer \o wire)' = a \o wire'
  BY DEF ConsumeMessage
<1>10. Carries(a \o wire', next, left)
  <2>1. CASE wire' = wire
    BY <1>8, <2>1
  <2>2. CASE wire' = <<>>
    <3> HIDE DEF a, b
    <3> DEFINE s == a \o wire
    <3>1. a \o wire' = a
      BY <1>2, <2>2, ConcatEmptySeq
    <3>2. /\ Len(s) \in Nat /\ Len(a) \in Nat /\ Len(a) <= Len(s)
          /\ \A p \in 1 .. Len(a) : s[p] = a[p]
      <4>1. /\ s \in Seq(Nat) /\ Len(s) = Len(a) + Len(wire)
            /\ \A p \in 1 .. Len(a) + Len(wire) :
                 s[p] = IF p <= Len(a) THEN a[p] ELSE wire[p - Len(a)]
        BY <1>2, ConcatProperties
      <4>2. Len(a) \in Nat /\ Len(wire) \in Nat
        BY <1>2, LenProperties
      <4> HIDE DEF s
      <4> QED BY <4>1, <4>2
    <3>3. Carries(s, next, left)
      BY <1>8
    <3>4. next \in Seq(Seq(Nat))
      <4>1. k + 1 \in 0 .. Len(sent) /\ k + 1 + 1 = k + 2
        BY <1>3, <1>7
      <4>2. SubSeq(sent, k + 1 + 1, Len(sent)) \in Seq(Seq(Nat))
        BY <1>3, <4>1, Sections
      <4> QED BY <4>1, <4>2
    <3> HIDE DEF s, next
    <3>5. /\ Len(next) \in Nat
          /\ \A i \in 1 .. Len(next) : Len(Frame(next[i])) \in Nat
      BY <3>4, ElementOfSeq, FrameType, LenProperties
    <3>6. Carries(a, next, left)
      BY <3>2, <3>3, <3>5, CarriesLess
    <3> QED BY <3>1, <3>6
  <2> QED BY <2>1, <2>2
<1>11. socket' = "connected" => left = Len(a \o wire')
  BY <1>1, <1>8
<1>12. k \in 0 .. Len(sent) - 1
  BY <1>3, <1>7
<1> QED BY <1>1, <1>6, <1>7, <1>9, <1>10, <1>11, <1>12

\* Every step keeps the stream.
LEMMA NextStream ==
    ASSUME TypeOK, TypeOK', LoopSocket, SentShape, NotStuck, Stream, [Next]_vars
    PROVE  Stream'
<1>0. /\ mReceiveBuffer \in Seq(Nat) /\ wire \in Seq(Nat) /\ sent \in Seq(Seq(Nat))
      /\ mReceiveBuffer' \in Seq(Nat) /\ wire' \in Seq(Nat) /\ Len(sent) \in Nat
      /\ sent \in Seq({Ack} \cup Bodies)
  BY Messages, SeqMonotonic, LenProperties DEF TypeOK
<1>1. ASSUME UNCHANGED <<mReceiveBuffer, wire, sent, delivered, cleanStart>>,
             m_isAcknowledgeSeen' => m_isAcknowledgeSeen,
             socket' = "connected" => socket = "connected"
      PROVE  Stream'
  <2>1. (mReceiveBuffer \o wire)' = mReceiveBuffer \o wire
    BY <1>1
  <2>2. Len(mReceiveBuffer \o wire) \in Nat
    BY <1>0, ConcatProperties, LenProperties
  <2> QED BY <1>1, <2>1, <2>2, StreamKept
<1>2. ASSUME UNCHANGED <<sent, delivered, cleanStart, m_isAcknowledgeSeen>>,
             wire' = <<>>, socket' # "connected",
             Len(mReceiveBuffer') <= Len(mReceiveBuffer),
             \A p \in 1 .. Len(mReceiveBuffer') : mReceiveBuffer'[p] = mReceiveBuffer[p]
      PROVE  Stream'
  <2>1. (mReceiveBuffer \o wire)' = mReceiveBuffer'
    BY <1>0, <1>2, ConcatEmptySeq
  <2> DEFINE s == mReceiveBuffer \o wire
  <2>2. /\ Len(s) = Len(mReceiveBuffer) + Len(wire)
        /\ \A p \in 1 .. Len(mReceiveBuffer) + Len(wire) :
             s[p] = IF p <= Len(mReceiveBuffer) THEN mReceiveBuffer[p]
                    ELSE wire[p - Len(mReceiveBuffer)]
    BY <1>0, ConcatProperties
  <2>3. Len(mReceiveBuffer) \in Nat /\ Len(wire) \in Nat /\ Len(mReceiveBuffer') \in Nat
    BY <1>0, LenProperties
  <2> HIDE DEF s
  <2>4. Len(mReceiveBuffer') <= Len(s)
        /\ \A p \in 1 .. Len(mReceiveBuffer') : mReceiveBuffer'[p] = s[p]
    BY <1>2, <2>2, <2>3
  <2> QED BY <1>2, <2>1, <2>4, StreamKept DEF s
<1>3. CASE OnConnected
  <2>1. SUFFICES ASSUME cleanStart' PROVE Stream'
    BY DEF Stream
  <2>2. mReceiveBuffer' = <<>> /\ wire' = <<>> /\ sent' = <<>> /\ delivered' = <<>>
        /\ m_isAcknowledgeSeen' = FALSE
    BY <1>3, <2>1 DEF OnConnected
  <2>3. <<>> \o <<>> = <<>> /\ Len(<<>>) = 0
    BY EmptySeq, ConcatEmptySeq
  <2>4. SubSeq(<<>>, 0 + 1, 0) = <<>> /\ SubSeq(<<>>, 2, 0) = <<>>
    BY SubSeqEmpty
  <2>5. /\ Carries((mReceiveBuffer \o wire)', SubSeq(sent', 0 + 1, Len(sent')), 0)
        /\ 0 = Len((mReceiveBuffer \o wire)')
        /\ delivered' = SubSeq(sent', 2, 0)
    BY <2>2, <2>3, <2>4, CarriesNothing
  <2>6. 0 \in 0 .. Len(sent') /\ 0 \in 0 .. 0 /\ 0 \in Nat
    BY <2>2, <2>3
  <2> QED BY <2>2, <2>5, <2>6 DEF Stream
<1>4. CASE ServerSend
  <2>1. PICK body \in {Ack} \cup Bodies :
          sent' = Append(sent, body) /\ wire' = wire \o Frame(body)
    BY <1>4 DEF ServerSend
  <2>2. /\ socket = "connected" /\ cleanStart' = cleanStart /\ delivered' = delivered
        /\ mReceiveBuffer' = mReceiveBuffer /\ m_isAcknowledgeSeen' = m_isAcknowledgeSeen
    BY <1>4 DEF ServerSend, adapter, observed
  <2>3. SUFFICES ASSUME cleanStart PROVE Stream'
    BY <2>2 DEF Stream
  <2>4. PICK k \in 0 .. Len(sent) :
          /\ Carries(mReceiveBuffer \o wire, SubSeq(sent, k + 1, Len(sent)),
                     Len(mReceiveBuffer \o wire))
          /\ \E d \in 0 .. k :
               /\ delivered = SubSeq(sent, 2, d)
               /\ m_isAcknowledgeSeen => d = k /\ k >= 1
    BY <2>2, <2>3 DEF Stream
  <2> DEFINE s == mReceiveBuffer \o wire
             rest == SubSeq(sent, k + 1, Len(sent))
  <2>5. body \in Seq(Nat) /\ Frame(body) \in Seq(Nat) /\ s \in Seq(Nat)
        /\ rest \in Seq({Ack} \cup Bodies) /\ {Ack} \cup Bodies \subseteq Seq(Nat)
    BY <1>0, Messages, FrameType, ConcatProperties, Sections
  <2>6. (mReceiveBuffer \o wire)' = s \o Frame(body)
    <3>1. (mReceiveBuffer \o wire) \o Frame(body) = mReceiveBuffer \o (wire \o Frame(body))
      <4>1. mReceiveBuffer \in Seq(Nat) /\ wire \in Seq(Nat) /\ Frame(body) \in Seq(Nat)
        BY <1>0, <2>5
      <4> QED BY <4>1, Regrouped
    <3> QED BY <2>1, <2>2, <3>1
  <2>7. Carries(s \o Frame(body), Append(rest, body), Len(s \o Frame(body)))
    <3>1. Carries(s, rest, Len(s))
      BY <2>4
    <3> HIDE DEF s, rest
    <3> QED BY <2>5, <3>1, CarriesMore
  <2>8. /\ SubSeq(sent', k + 1, Len(sent')) = Append(rest, body)
        /\ \A d \in 0 .. k : SubSeq(sent', 2, d) = SubSeq(sent, 2, d)
        /\ Len(sent') = Len(sent) + 1
    <3>1. Len(sent') = Len(sent) + 1
      BY <1>0, <2>1, AppendProperties
    <3>2. SubSeq(sent', k + 1, Len(sent) + 1) = Append(rest, body)
      <4>1. sent \in Seq({Ack} \cup Bodies)
        BY <1>0
      <4>2. SubSeq(Append(sent, body), k + 1, Len(sent) + 1)
              = Append(SubSeq(sent, k + 1, Len(sent)), body)
        BY <4>1, Sections, ZenonT(30)
      <4> QED BY <2>1, <4>2
    <3>3. ASSUME NEW d \in 0 .. k PROVE SubSeq(sent', 2, d) = SubSeq(sent, 2, d)
      <4>1. d \in 0 .. Len(sent)
        BY <1>0
      <4> QED BY <1>0, <2>1, <4>1, Sections
    <3> QED BY <3>1, <3>2, <3>3
  <2>9. Len(s \o Frame(body)) \in Nat
    BY <2>5, ConcatProperties, LenProperties
  <2>10. k \in 0 .. Len(sent')
    BY <1>0, <2>8
  <2> HIDE DEF s, rest
  <2> QED BY <2>2, <2>4, <2>6, <2>7, <2>8, <2>9, <2>10 DEF Stream
<1>5. ASSUME NEW n \in 1 .. Len(wire), Receive(n) PROVE Stream'
  <2>1. /\ UNCHANGED <<sent, delivered, cleanStart, m_isAcknowledgeSeen, socket>>
        /\ ~parsing /\ socket = "connected" /\ wire' = SubSeq(wire, n + 1, Len(wire))
    BY <1>5 DEF Receive, observed
  <2>2. SUFFICES ASSUME cleanStart PROVE Stream'
    BY <2>1 DEF Stream
  <2>3. mReceiveBuffer' = mReceiveBuffer \o SubSeq(wire, 1, n)
    BY <1>5, <2>1, <2>2 DEF Receive, NotStuck
  <2>4. Len(wire) \in Nat /\ 1 \in 1 .. Len(wire) + 1 /\ n \in 1 - 1 .. Len(wire)
        /\ Len(wire) \in n .. Len(wire)
    BY <1>0, LenProperties
  <2>5. SubSeq(wire, 1, n) \o SubSeq(wire, n + 1, Len(wire)) = wire
    BY <1>0, <2>4, ConcatAdjacentSubSeq, SubSeqFull
  <2>6. SubSeq(wire, 1, n) \in Seq(Nat)
    BY <1>0, <2>4, SectionType
  <2>7. (mReceiveBuffer \o wire)' = mReceiveBuffer \o wire
    <3> DEFINE x == SubSeq(wire, 1, n)
               y == SubSeq(wire, n + 1, Len(wire))
    <3>1. x \in Seq(Nat) /\ y \in Seq(Nat) /\ x \o y = wire
          /\ mReceiveBuffer' = mReceiveBuffer \o x /\ wire' = y
      BY <1>0, <2>1, <2>3, <2>5, <2>6
    <3> HIDE DEF x, y
    <3>2. (mReceiveBuffer \o x) \o y = mReceiveBuffer \o (x \o y)
      <4>1. mReceiveBuffer \in Seq(Nat) /\ x \in Seq(Nat) /\ y \in Seq(Nat)
        BY <1>0, <3>1
      <4> QED BY <4>1, Regrouped
    <3> QED BY <3>1, <3>2
  <2>8. Len(mReceiveBuffer \o wire) \in Nat
    BY <1>0, ConcatProperties, LenProperties
  <2> QED BY <2>1, <2>7, <2>8, StreamKept, SMTT(30)
<1>6. ASSUME AtMessage, ConsumeMessage, UNCHANGED <<sent, cleanStart>>,
             wire' = wire \/ wire' = <<>>,
             socket' = "connected" => socket = "connected" /\ wire' = wire,
             \A k \in 0 .. Len(sent) - 1 : \A d \in 0 .. k :
                 /\ Body(mReceiveBuffer) = sent[k+1]
                 /\ delivered = SubSeq(sent, 2, d)
                 /\ m_isAcknowledgeSeen => d = k /\ k >= 1
               => \E c \in 0 .. k + 1 :
                    /\ delivered' = SubSeq(sent, 2, c)
                    /\ m_isAcknowledgeSeen' => c = k + 1
      PROVE  Stream'
  <2>1. SUFFICES ASSUME cleanStart PROVE Stream'
    BY <1>6 DEF Stream
  <2>2. PICK k \in 0 .. Len(sent) - 1, n \in Nat :
          /\ Body(mReceiveBuffer) = sent[k+1]
          /\ Carries((mReceiveBuffer \o wire)', SubSeq(sent, k + 2, Len(sent)), n)
          /\ socket' = "connected" => n = Len((mReceiveBuffer \o wire)')
          /\ \E d \in 0 .. k :
               /\ delivered = SubSeq(sent, 2, d)
               /\ m_isAcknowledgeSeen => d = k /\ k >= 1
    BY <1>6, <2>1, StreamNext
  <2>3. PICK d \in 0 .. k :
          /\ delivered = SubSeq(sent, 2, d)
          /\ m_isAcknowledgeSeen => d = k /\ k >= 1
    BY <2>2
  <2>4. PICK c \in 0 .. k + 1 :
          /\ delivered' = SubSeq(sent, 2, c)
          /\ m_isAcknowledgeSeen' => c = k + 1
    BY <1>6, <2>2, <2>3
  <2> DEFINE j == k + 1
  <2>5. j \in 0 .. Len(sent) /\ j + 1 = k + 2 /\ j >= 1 /\ c \in 0 .. j
    BY <1>0
  <2>6. Carries((mReceiveBuffer \o wire)', SubSeq(sent, j + 1, Len(sent)), n)
    BY <2>2, <2>5
  <2>7. m_isAcknowledgeSeen' => c = j
    BY <2>4
  <2> HIDE DEF j
  <2> QED BY <1>6, <2>2, <2>4, <2>5, <2>6, <2>7 DEF Stream
<1>7. CASE UserConnect
  BY <1>1, <1>7 DEF UserConnect, ConnectTcp, ConnectLocal, ConnectToHost, network
<1>8. CASE OnReconnectTimeout
  BY <1>1, <1>8 DEF OnReconnectTimeout, ConnectTcp, ConnectLocal, ConnectToHost, network,
    observed
<1>9. CASE OnConnectError
  BY <1>1, <1>9 DEF OnConnectError, observed
<1>10. CASE Disconnected
  BY <1>1, <1>10 DEF Disconnected
<1>11. CASE ParseEnd
  BY <1>1, <1>11 DEF ParseEnd, network
<1>12. CASE UNCHANGED vars
  BY <1>1, <1>12 DEF vars, adapter, network, observed
<1>13. Len(mReceiveBuffer) \in Nat
  BY <1>0, LenProperties
<1>14. CASE UserClose
  <2>1. /\ UNCHANGED <<sent, delivered, cleanStart, m_isAcknowledgeSeen, mReceiveBuffer>>
        /\ wire' = <<>> /\ socket' # "connected"
    BY <1>14 DEF UserClose, Close
  <2> QED BY <1>2, <1>13, <2>1
<1>15. CASE OnRemoteClosed
  <2>1. /\ UNCHANGED <<sent, delivered, cleanStart, m_isAcknowledgeSeen, mReceiveBuffer>>
        /\ wire' = <<>> /\ socket' # "connected"
    BY <1>15 DEF OnRemoteClosed
  <2> QED BY <1>2, <1>13, <2>1
<1>16. CASE ParseError
  <2>1. /\ UNCHANGED <<sent, delivered, cleanStart, m_isAcknowledgeSeen>>
        /\ wire' = <<>> /\ socket' # "connected"
        /\ mReceiveBuffer' = IF TooLong(mReceiveBuffer)
                               THEN SubSeq(mReceiveBuffer, 1, HeaderLen(mReceiveBuffer))
                               ELSE mReceiveBuffer
    BY <1>16 DEF ParseError, Close
  <2>2. CASE ~TooLong(mReceiveBuffer)
    BY <1>2, <1>13, <2>1, <2>2
  <2>3. CASE TooLong(mReceiveBuffer)
    <3> DEFINE h == HeaderLen(mReceiveBuffer)
    <3>1. h \in 1 .. 2 /\ h <= Len(mReceiveBuffer)
      BY <1>0, <2>3, HeaderWithin DEF TooLong
    <3>2. mReceiveBuffer' = SubSeq(mReceiveBuffer, 1, h)
      BY <2>1, <2>3
    <3> HIDE DEF h
    <3>3. \A i \in 1 .. h : mReceiveBuffer[i] \in Nat
      BY <1>0, <1>13, <3>1, ElementOfSeq
    <3>4. /\ Len(SubSeq(mReceiveBuffer, 1, h)) = IF 1 <= h THEN h - 1 + 1 ELSE 0
          /\ \A i \in 1 .. h - 1 + 1 : SubSeq(mReceiveBuffer, 1, h)[i] = mReceiveBuffer[1+i-1]
      BY <3>1, <3>3, SubSeqProperties
    <3>5. Len(mReceiveBuffer') = h /\ \A i \in 1 .. h : mReceiveBuffer'[i] = mReceiveBuffer[i]
      BY <3>1, <3>2, <3>4
    <3> QED BY <1>2, <2>1, <3>1, <3>5
  <2> QED BY <2>2, <2>3
<1>17. CASE ParseAck
  <2>1. /\ AtMessage /\ ConsumeMessage /\ UNCHANGED <<sent, cleanStart, wire, socket, delivered>>
        /\ Body(mReceiveBuffer) = Ack /\ ~m_isAcknowledgeSeen
    BY <1>17 DEF ParseAck, network
  <2>2. ASSUME NEW k \in 0 .. Len(sent) - 1, NEW d \in 0 .. k,
               Body(mReceiveBuffer) = sent[k+1], delivered = SubSeq(sent, 2, d)
        PROVE  \E c \in 0 .. k + 1 :
                 /\ delivered' = SubSeq(sent, 2, c)
                 /\ m_isAcknowledgeSeen' => c = k + 1
    <3>1. k = 0
      <4>1. k + 1 \in 2 .. Len(sent) \/ k = 0
        BY <1>0
      <4> QED BY <2>1, <2>2, <4>1 DEF SentShape
    <3>2. SubSeq(sent, 2, 0) = <<>> /\ SubSeq(sent, 2, 1) = <<>>
      BY <1>0, SubSeqEmpty
    <3>3. d = 0
      BY <3>1
    <3>4. delivered' = SubSeq(sent, 2, 1) /\ 1 \in 0 .. k + 1 /\ 1 = k + 1
      BY <2>1, <2>2, <3>1, <3>2, <3>3
    <3> QED BY <3>4
  <2> QED BY <1>6, <2>1, <2>2
<1>18. CASE ParseNotAck
  <2>1. /\ AtMessage /\ ConsumeMessage /\ UNCHANGED <<sent, cleanStart, wire, socket, delivered>>
        /\ ~m_isAcknowledgeSeen'
    BY <1>18 DEF ParseNotAck, network, observed
  <2>2. ASSUME NEW k \in 0 .. Len(sent) - 1, NEW d \in 0 .. k, delivered = SubSeq(sent, 2, d)
        PROVE  \E c \in 0 .. k + 1 :
                 /\ delivered' = SubSeq(sent, 2, c)
                 /\ m_isAcknowledgeSeen' => c = k + 1
    <3>1. d \in 0 .. k + 1
      BY <1>0
    <3> QED BY <2>1, <2>2, <3>1
  <2> QED BY <1>6, <2>1, <2>2
<1>19. CASE Deliver
  <2>1. /\ AtMessage /\ ConsumeMessage /\ UNCHANGED <<sent, cleanStart>>
        /\ m_isAcknowledgeSeen /\ delivered' = Append(delivered, Body(mReceiveBuffer))
        /\ wire' = wire \/ wire' = <<>>
        /\ socket' = "connected" => socket = "connected" /\ wire' = wire
    BY <1>19 DEF Deliver, Close, network
  <2>2. ASSUME NEW k \in 0 .. Len(sent) - 1, NEW d \in 0 .. k,
               Body(mReceiveBuffer) = sent[k+1], delivered = SubSeq(sent, 2, d),
               d = k, k >= 1
        PROVE  delivered' = SubSeq(sent, 2, k + 1)
    <3>1. k \in 0 .. Len(sent) /\ k < Len(sent)
      BY <1>0
    <3>2. Append(SubSeq(sent, 2, k), sent[k+1]) = SubSeq(sent, 2, k + 1)
      BY <1>0, <2>2, <3>1, Sections
    <3> QED BY <2>1, <2>2, <3>2
  <2>3. \A k \in 0 .. Len(sent) - 1 : k + 1 \in 0 .. k + 1
    BY <1>0
  <2>4. \A k \in 0 .. Len(sent) - 1 : \A d \in 0 .. k :
            /\ Body(mReceiveBuffer) = sent[k+1]
            /\ delivered = SubSeq(sent, 2, d)
            /\ m_isAcknowledgeSeen => d = k /\ k >= 1
          => \E c \in 0 .. k + 1 :
               /\ delivered' = SubSeq(sent, 2, c)
               /\ m_isAcknowledgeSeen' => c = k + 1
    BY <2>1, <2>2, <2>3
  <2> QED BY <1>6, <2>1, <2>4
<1> QED BY <1>3, <1>4, <1>5, <1>7, <1>8, <1>9, <1>10, <1>11, <1>12, <1>14, <1>15, <1>16,
  <1>17, <1>18, <1>19 DEF Next, Parse

\* The properties of the stream that InOrder and NothingWaits rest on.
Flow == SentShape /\ NotStuck /\ Stream /\ NothingWaits

\* Initially nothing has been sent.
LEMMA InitFlow == Init => Flow
<1> SUFFICES ASSUME Init PROVE Flow
  OBVIOUS
<1>1. <<>> \o <<>> = <<>> /\ Len(<<>>) = 0
  BY EmptySeq, ConcatEmptySeq
<1>2. SubSeq(<<>>, 0 + 1, 0) = <<>> /\ SubSeq(<<>>, 2, 0) = <<>>
  BY SubSeqEmpty
<1>3. /\ Carries(mReceiveBuffer \o wire, SubSeq(sent, 0 + 1, Len(sent)), 0)
      /\ 0 = Len(mReceiveBuffer \o wire)
      /\ delivered = SubSeq(sent, 2, 0) /\ ~m_isAcknowledgeSeen
  BY <1>1, <1>2, CarriesNothing DEF Init
<1>4. 0 \in 0 .. Len(sent) /\ 0 \in 0 .. 0 /\ 0 \in Nat
  BY <1>1 DEF Init
<1>5. Stream
  BY <1>3, <1>4 DEF Stream
<1>6. HeaderLen(mReceiveBuffer) = 0
  BY DEF Init, HeaderLen
<1>7. SentShape
  BY <1>1 DEF Init, SentShape
<1> QED BY <1>5, <1>6, <1>7 DEF Flow, NotStuck, NothingWaits, Complete, Init

\* The server acknowledges first and once.
LEMMA NextSent ==
    ASSUME TypeOK, SentShape, [Next]_vars
    PROVE  SentShape'
<1>1. CASE sent' = sent
  BY <1>1 DEF SentShape
<1>2. CASE OnConnected
  <2>1. sent' = <<>> /\ Len(sent') = 0
    BY <1>2, EmptySeq DEF OnConnected
  <2> QED BY <2>1 DEF SentShape
<1>3. CASE ServerSend
  <2>1. PICK body \in IF sent = <<>> THEN {Ack} ELSE Bodies : sent' = Append(sent, body)
    BY <1>3 DEF ServerSend
  <2>2. body \in {Ack} \cup Bodies /\ sent \in Seq({Ack} \cup Bodies)
    BY <2>1 DEF TypeOK
  <2>3. /\ Len(sent') = Len(sent) + 1 /\ Len(sent) \in Nat
        /\ \A i \in 1 .. Len(sent) : sent'[i] = sent[i]
        /\ sent'[Len(sent)+1] = body
    BY <2>1, <2>2, AppendProperties, LenProperties
  <2>4. CASE sent = <<>>
    <3>1. Len(sent) = 0 /\ body = Ack
      BY <2>1, <2>4, EmptySeq
    <3>2. sent'[1] = Ack /\ Len(sent') = 1
      BY <2>3, <3>1
    <3> QED BY <3>2 DEF SentShape
  <2>5. CASE sent # <<>>
    <3>1. Len(sent) >= 1
      BY <2>2, <2>3, <2>5, EmptySeq
    <3>2. body # Ack
      BY <2>1, <2>5, Messages
    <3>3. sent'[1] = Ack
      BY <2>3, <2>5, <3>1 DEF SentShape
    <3>4. ASSUME NEW i \in 2 .. Len(sent') PROVE sent'[i] # Ack
      <4>1. i \in 2 .. Len(sent) \/ i = Len(sent) + 1
        BY <2>3
      <4>2. i \in 2 .. Len(sent) => i \in 1 .. Len(sent)
        BY <2>3
      <4> QED BY <2>3, <3>2, <4>1, <4>2 DEF SentShape
    <3> QED BY <3>3, <3>4 DEF SentShape
  <2> QED BY <2>4, <2>5
<1>4. sent' = sent \/ OnConnected \/ ServerSend
  BY DEF Next, Parse, vars, network, UserConnect, ConnectTcp, ConnectLocal, ConnectToHost,
    UserClose, Close, OnReconnectTimeout, OnConnectError, OnRemoteClosed, Disconnected,
    Receive, ParseAck, ParseNotAck, Deliver, ParseError, ParseEnd
<1> QED BY <1>1, <1>2, <1>3, <1>4

\* Only the parse loop leaves bytes in the buffer, and it leaves neither a whole message
\* nor, on a connection that lasts, one that is too long.
LEMMA NextBuffer ==
    ASSUME TypeOK, NotStuck, NothingWaits, [Next]_vars
    PROVE  NotStuck' /\ NothingWaits'
<1> USE DEF NotStuck, NothingWaits
<1>1. CASE UserConnect
  BY <1>1 DEF UserConnect, ConnectTcp, ConnectLocal, ConnectToHost, network
<1>2. CASE UserClose
  BY <1>2 DEF UserClose, Close
<1>3. CASE OnReconnectTimeout
  BY <1>3 DEF OnReconnectTimeout, ConnectTcp, ConnectLocal, ConnectToHost, network, observed
<1>4. CASE OnConnected
  <2>1. cleanStart' => HeaderLen(mReceiveBuffer') = 0
    BY <1>4 DEF OnConnected, HeaderLen
  <2> QED BY <1>4, <2>1 DEF Complete, TooLong
<1>5. CASE OnConnectError
  BY <1>5 DEF OnConnectError, observed
<1>6. CASE OnRemoteClosed
  BY <1>6 DEF OnRemoteClosed
<1>7. CASE Disconnected
  BY <1>7 DEF Disconnected
<1>8. CASE ServerSend
  BY <1>8 DEF ServerSend, adapter, observed
<1>9. ASSUME NEW n \in 1 .. Len(wire), Receive(n) PROVE NotStuck' /\ NothingWaits'
  BY <1>9 DEF Receive
<1>10. CASE ParseAck
  BY <1>10 DEF ParseAck, AtMessage, ConsumeMessage
<1>11. CASE ParseNotAck
  BY <1>11 DEF ParseNotAck, AtMessage, ConsumeMessage
<1>12. CASE Deliver
  BY <1>12 DEF Deliver, AtMessage, ConsumeMessage
<1>13. CASE ParseError
  BY <1>13 DEF ParseError, Close
<1>14. CASE ParseEnd
  BY <1>14 DEF ParseEnd
<1>15. CASE UNCHANGED vars
  BY <1>15 DEF vars, adapter, network, observed
<1> QED BY <1>1, <1>2, <1>3, <1>4, <1>5, <1>6, <1>7, <1>8, <1>9, <1>10, <1>11, <1>12,
  <1>13, <1>14, <1>15 DEF Next, Parse

\* What the handler has got is the beginning of what it should get.
LEMMA StreamInOrder ==
    ASSUME TypeOK, Stream
    PROVE  InOrder
<1>1. SUFFICES ASSUME cleanStart PROVE IsPrefix(delivered, Announced)
  BY DEF InOrder
<1>2. PICK d \in 0 .. Len(sent) : delivered = SubSeq(sent, 2, d)
  <2>1. PICK k \in 0 .. Len(sent) : \E d \in 0 .. k : delivered = SubSeq(sent, 2, d)
    BY <1>1 DEF Stream
  <2>2. PICK d \in 0 .. k : delivered = SubSeq(sent, 2, d)
    BY <2>1
  <2>3. d \in 0 .. Len(sent)
    BY LenProperties DEF TypeOK
  <2> QED BY <2>2, <2>3
<1> DEFINE S == {Ack} \cup Bodies
           l == Len(sent)
           a == SubSeq(sent, 2, d)
           b == SubSeq(sent, 2, l)
<1>3. sent \in Seq(S) /\ l \in Nat /\ d \in Int /\ d <= l
  BY LenProperties DEF TypeOK
<1> HIDE DEF S, l
<1>4. /\ a \in Seq(S) /\ Len(a) = IF 2 <= d THEN d - 2 + 1 ELSE 0
      /\ \A i \in 1 .. d - 2 + 1 : a[i] = sent[2+i-1]
  <2>1. \A i \in 2 .. d : sent[i] \in S
    BY <1>3, ElementOfSeq DEF l
  <2> QED BY <1>3, <2>1, SubSeqProperties
<1>5. /\ b \in Seq(S) /\ Len(b) = IF 2 <= l THEN l - 2 + 1 ELSE 0
      /\ \A i \in 1 .. l - 2 + 1 : b[i] = sent[2+i-1]
  <2>1. \A i \in 2 .. l : sent[i] \in S
    BY <1>3, ElementOfSeq DEF l
  <2> QED BY <1>3, <2>1, SubSeqProperties
<1> HIDE DEF a, b
<1>6. Len(a) \in Nat /\ Len(b) \in Nat /\ Len(a) <= Len(b)
      /\ \A i \in 1 .. Len(a) : i \in 1 .. d - 2 + 1 /\ i \in 1 .. l - 2 + 1
  BY <1>3, <1>4, <1>5
<1>7. \A i \in 1 .. Len(a) : a[i] = b[i]
  BY <1>4, <1>5, <1>6
<1>8. SubSeq(b, 1, Len(a)) = a
  <2>1. \A i \in 1 .. Len(a) : b[i] \in S
    BY <1>4, <1>7, ElementOfSeq
  <2> DEFINE c == SubSeq(b, 1, Len(a))
  <2>2. /\ c \in Seq(S) /\ Len(c) = IF 1 <= Len(a) THEN Len(a) - 1 + 1 ELSE 0
        /\ \A i \in 1 .. Len(a) - 1 + 1 : c[i] = b[1+i-1]
    BY <1>6, <2>1, SubSeqProperties
  <2> HIDE DEF c
  <2>3. Len(c) = Len(a) /\ \A i \in 1 .. Len(a) : c[i] = b[i]
    BY <1>6, <2>2
  <2>4. c = a
    BY <1>4, <1>7, <2>2, <2>3, SeqEqual
  <2> QED BY <2>4 DEF c
<1>9. SubSeq(a, 1, Len(a)) = a
  BY <1>4, SubSeqFull
<1>10. IsPrefix(a, b)
  BY <1>6, <1>8, <1>9 DEF IsPrefix
<1> QED BY <1>2, <1>10 DEF a, b, l, Announced

-----------------------------------------------------------------------------
(* The theorems. *)

\* The inductive invariant holds of every reachable state.
THEOREM Invariant == Spec => []IInv
<1>1. Init => IInv
  BY InitIInv
<1>2. IInv /\ [Next]_vars => IInv'
  BY NextType, NextControl DEF IInv, Control
<1> QED BY <1>1, <1>2, PTL DEF Spec

\* The state has its type: what is cut out of the buffer are bytes.
THEOREM TypeCorrect == Spec => []TypeOK
<1>1. IInv => TypeOK
  BY DEF IInv
<1> QED BY <1>1, Invariant, PTL

\* No path of the code leaves a TCP adapter disconnected without its timer.
THEOREM AlwaysRetries == Spec => []NeverStranded
<1>1. IInv => NeverStranded
  BY DEF IInv
<1> QED BY <1>1, Invariant, PTL

\* With one call of connect the timer never fires on a connection that is up.
THEOREM TimerSafe == Spec => []TimerOnlyDown
<1>1. IInv => TimerOnlyDown
  BY DEF IInv
<1> QED BY <1>1, Invariant, PTL

\* With one call of connect the acknowledge is never forgotten under the handler.
THEOREM AcknowledgeKept == Spec => []UpMeansAcknowledged
<1>1. IInv => UpMeansAcknowledged
  BY DEF IInv
<1> QED BY <1>1, Invariant, PTL

\* The handler gets messages between onConnected and onDisconnected only, unless it
\* closed the socket within the loop.
THEOREM HandlerProtocol == Spec => MessagesWhileUp
<1> DEFINE Announces == Len(delivered') > Len(delivered) => handlerUp \/ closedInside
<1>1. ASSUME IInv, [Next]_vars PROVE [Announces]_vars
  <2>1. Len(delivered) \in Nat
    BY <1>1, LenProperties DEF IInv, TypeOK
  <2>2. CASE delivered' = delivered
    BY <2>1, <2>2
  <2>3. CASE OnConnected
    <3>1. Len(delivered') = 0
      BY <2>3 DEF OnConnected
    <3> QED BY <2>1, <3>1
  <2>4. CASE Deliver
    BY <1>1, <2>4 DEF Deliver, AtMessage, IInv, LoopUp
  <2>5. delivered' = delivered \/ OnConnected \/ Deliver
    BY <1>1 DEF Next, Parse, vars, observed, UserConnect, UserClose, OnReconnectTimeout,
      OnConnectError, OnRemoteClosed, Disconnected, ServerSend, Receive, ParseAck,
      ParseNotAck, ParseError, ParseEnd
  <2> QED BY <2>2, <2>3, <2>4, <2>5
<1> QED BY <1>1, Invariant, PTL DEF Spec, MessagesWhileUp

\* The stream holds of every reachable state.
THEOREM FlowInvariant == Spec => []Flow
<1>1. Init => Flow
  BY InitFlow
<1>2. IInv /\ IInv' /\ Flow /\ [Next]_vars => Flow'
  BY NextStream, NextSent, NextBuffer DEF Flow, IInv
<1> QED BY <1>1, <1>2, Invariant, PTL DEF Spec

\* Whatever pieces the bytes come in, whatever connections came before, and whatever the
\* handler does in its callbacks: it gets the messages behind the acknowledge in order,
\* none twice and none left out, on every connection that finds the buffer empty.
THEOREM OrderKept == Spec => []InOrder
<1>1. IInv /\ Flow => InOrder
  BY StreamInOrder DEF IInv, Flow
<1> QED BY <1>1, Invariant, FlowInvariant, PTL

\* The parse loop never leaves a whole message behind for bytes that may never come.
THEOREM NoneWaits == Spec => []NothingWaits
<1>1. Flow => NothingWaits
  BY DEF Flow
<1> QED BY <1>1, FlowInvariant, PTL
=============================================================================
