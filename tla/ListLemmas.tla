----------------------------- MODULE ListLemmas -----------------------------
(***************************************************************************)
(* What the operators on lists and indices of the community modules return *)
(***************************************************************************)
EXTENDS SequencesExt, NaturalsInduction, SequenceTheorems, WellFoundedInduction, TLAPS

\* A nonempty set of naturals has the minimum that Min picks.
LEMMA MinOfNat ==
    ASSUME NEW S \in SUBSET Nat, S # {}
    PROVE  Min(S) \in S /\ \A y \in S : Min(S) <= y
<1>1. IsWellFoundedOn(OpToRel(<, Nat), Nat)
  BY NatLessThanWellFounded
<1>2. PICK x \in S : \A y \in S : ~ (<<y, x>> \in OpToRel(<, Nat))
  BY <1>1, WFMin
<1>3. \A y \in S : x <= y
  <2>1. SUFFICES ASSUME NEW y \in S, ~ (x <= y) PROVE FALSE
    OBVIOUS
  <2>2. <<y, x>> \in Nat \X Nat /\ y < x
    BY <2>1
  <2>3. <<y, x>> \in OpToRel(<, Nat)
    BY <2>2 DEF OpToRel
  <2> QED BY <1>2, <2>3
<1> QED BY <1>3 DEF Min

\* InsertAt puts one element at its place and keeps the others in order.
LEMMA InsertAtProperties ==
    ASSUME NEW S, NEW s \in Seq(S), NEW i \in 1 .. Len(s) + 1, NEW e \in S
    PROVE  /\ InsertAt(s, i, e) \in Seq(S)
           /\ Len(InsertAt(s, i, e)) = Len(s) + 1
           /\ \A j \in 1 .. Len(s) + 1 :
                InsertAt(s, i, e)[j] = IF j < i THEN s[j]
                                       ELSE IF j = i THEN e ELSE s[j-1]
<1> DEFINE l == SubSeq(s, 1, i-1)
           r == SubSeq(s, i, Len(s))
<1>1. /\ l \in Seq(S) /\ Len(l) = i - 1
      /\ \A j \in 1 .. i-1 : l[j] = s[j]
  BY SubSeqProperties, LenProperties, ElementOfSeq
<1>2. /\ r \in Seq(S) /\ Len(r) = Len(s) - i + 1
      /\ \A j \in 1 .. Len(s)-i+1 : r[j] = s[i+j-1]
  <2>1. \A j \in i .. Len(s) : s[j] \in S
    BY ElementOfSeq
  <2> QED BY <2>1, SubSeqProperties, LenProperties
<1> HIDE DEF l, r
<1>3. /\ <<e>> \in Seq(S) /\ Len(<<e>>) = 1 /\ <<e>>[1] = e
  OBVIOUS
<1> DEFINE c == l \o <<e>>
<1>4. /\ c \in Seq(S) /\ Len(c) = i
      /\ \A j \in 1 .. i : c[j] = IF j < i THEN s[j] ELSE e
  BY <1>1, <1>3, ConcatProperties, LenProperties
<1> HIDE DEF c
<1>5. /\ c \o r \in Seq(S)
      /\ Len(c \o r) = Len(s) + 1
      /\ \A j \in 1 .. Len(s) + 1 : (c \o r)[j] = IF j <= i THEN c[j] ELSE r[j-i]
  <2>1. /\ c \o r \in Seq(S)
        /\ Len(c \o r) = Len(c) + Len(r)
        /\ \A j \in 1 .. Len(c) + Len(r) :
             (c \o r)[j] = IF j <= Len(c) THEN c[j] ELSE r[j - Len(c)]
    BY <1>2, <1>4, ConcatProperties
  <2> QED BY <1>2, <1>4, <2>1, LenProperties
<1>6. ASSUME NEW j \in 1 .. Len(s) + 1
      PROVE  (c \o r)[j] = IF j < i THEN s[j] ELSE IF j = i THEN e ELSE s[j-1]
  <2>0. Len(s) \in Nat /\ j \in Int /\ i \in Int
    BY LenProperties
  <2>1. CASE j <= i
    BY <1>4, <1>5, <2>0, <2>1
  <2>2. CASE j > i
    <3>1. j - i \in 1 .. Len(s)-i+1 /\ i + (j - i) - 1 = j - 1
      BY <2>0, <2>2
    <3>2. (c \o r)[j] = r[j-i] /\ r[j-i] = s[i+(j-i)-1]
      BY <1>2, <1>5, <2>0, <2>2, <3>1
    <3> QED BY <2>0, <2>2, <3>1, <3>2
  <2>3. j <= i \/ j > i
    BY <2>0
  <2> QED BY <2>1, <2>2, <2>3, Zenon
<1> QED BY <1>5, <1>6 DEF InsertAt, l, r, c

\* What a function has at 0 and keeps from each index to the next, it has everywhere.
LEMMA Kept ==
    ASSUME NEW S, NEW n \in Nat, NEW f, f[0] \in S,
           \A i \in 1 .. n : f[i-1] \in S => f[i] \in S
    PROVE  \A i \in 0 .. n : f[i] \in S
<1> DEFINE bad == {i \in 0 .. n : f[i] \notin S}
<1>1. SUFFICES ASSUME bad # {} PROVE FALSE
  OBVIOUS
<1>2. bad \in SUBSET Nat
  OBVIOUS
<1>3. Min(bad) \in bad /\ \A y \in bad : Min(bad) <= y
  BY <1>1, <1>2, MinOfNat
<1> QED BY <1>3

\* What is so at 0 and from each index to the next is so everywhere.
LEMMA Reached ==
    ASSUME NEW n \in Nat, NEW good, 0 \in good,
           \A i \in 1 .. n : i - 1 \in good => i \in good
    PROVE  0 .. n \subseteq good
<1> DEFINE f == [i \in 0 .. n |-> i]
<1>1. f[0] \in good /\ \A i \in 1 .. n : f[i-1] \in good => f[i] \in good
  OBVIOUS
<1> HIDE DEF f
<1>2. \A i \in 0 .. n : f[i] \in good
  BY <1>1, Kept
<1> QED BY <1>2 DEF f

\* A function on 1 .. n is a sequence of length n.
LEMMA OfLength ==
    ASSUME NEW S, NEW n \in Nat, NEW f \in [1 .. n -> S]
    PROVE  f \in Seq(S) /\ Len(f) = n
<1>1. f \in Seq(S)
  BY SeqDef
<1>2. Len(f) \in Nat /\ 1 .. Len(f) = 1 .. n
  BY <1>1, LenProperties
<1> QED BY <1>1, <1>2

\* f starts with a and goes on by the steps.
Iterates(f, a, n, step) ==
    \A i \in 0 .. n : f[i] = IF i = 0 THEN a ELSE step[<<f[i-1], i>>]

Steps(S, n) == [S \X (1 .. n) -> S]

\* Steps can be followed any number of times.
LEMMA Iteration ==
    ASSUME NEW S, NEW a \in S, NEW n \in Nat, NEW step \in Steps(S, n)
    PROVE  \E f : f \in [0 .. n -> S] /\ Iterates(f, a, n, step)
<1> USE DEF Iterates, Steps
<1> DEFINE Upto(k) == \E f \in [0 .. k -> S] :
                        \A i \in 0 .. k : f[i] = IF i = 0 THEN a ELSE step[<<f[i-1], i>>]
           bad == {k \in 0 .. n : ~ Upto(k)}
<1>0. SUFFICES Upto(n)
  OBVIOUS
<1> HIDE DEF Upto
<1>1. SUFFICES ASSUME bad # {} PROVE FALSE
  OBVIOUS
<1>2. bad \in SUBSET Nat
  OBVIOUS
<1> DEFINE k == Min(bad)
<1>3. k \in bad /\ \A y \in bad : k <= y
  BY <1>1, <1>2, MinOfNat
<1> HIDE DEF k
<1>4. CASE k = 0
  <2> DEFINE f == [i \in 0 .. 0 |-> a]
  <2>1. f \in [0 .. 0 -> S] /\ \A i \in 0 .. 0 : i = 0 /\ f[i] = a
    OBVIOUS
  <2>2. Upto(0)
    BY <2>1 DEF Upto
  <2> QED BY <1>3, <1>4, <2>2
<1>5. CASE k # 0
  <2>0. k \in 0 .. n
    BY <1>3
  <2>1. k \in Nat /\ k - 1 \in 0 .. n /\ k \in 1 .. n /\ k - 1 \notin bad
    BY <1>3, <1>5, <2>0
  <2>2. PICK g \in [0 .. k - 1 -> S] :
          \A i \in 0 .. k - 1 : g[i] = IF i = 0 THEN a ELSE step[<<g[i-1], i>>]
    BY <2>1 DEF Upto
  <2> DEFINE f == [i \in 0 .. k |-> IF i = k THEN step[<<g[k-1], k>>] ELSE g[i]]
  <2>3. step[<<g[k-1], k>>] \in S
    <3>1. g[k-1] \in S
      BY <2>1, <2>2
    <3>2. <<g[k-1], k>> \in S \X (1 .. n)
      BY <2>1, <3>1
    <3> QED BY <3>2
  <2>4. f \in [0 .. k -> S]
    BY <2>1, <2>2, <2>3
  <2>5. ASSUME NEW i \in 0 .. k
        PROVE  f[i] = IF i = 0 THEN a ELSE step[<<f[i-1], i>>]
    <3>1. CASE i = k
      <4>1. f[i] = step[<<g[k-1], k>>] /\ f[k-1] = g[k-1]
        BY <2>1, <3>1
      <4> QED BY <1>5, <3>1, <4>1
    <3>2. CASE i # k /\ i # 0
      <4>1. i \in 0 .. k - 1 /\ i - 1 \in 0 .. k - 1 /\ i - 1 # k
        BY <2>1, <3>2
      <4>2. f[i] = g[i] /\ f[i-1] = g[i-1]
        BY <2>1, <3>2, <4>1
      <4>3. g[i] = step[<<g[i-1], i>>]
        BY <2>2, <3>2, <4>1
      <4> QED BY <3>2, <4>2, <4>3
    <3>3. CASE i = 0
      <4>1. 0 \in 0 .. k - 1 /\ i # k
        BY <1>5, <2>1, <3>3
      <4> QED BY <2>2, <3>3, <4>1
    <3> QED BY <3>1, <3>2, <3>3
  <2>6. Upto(k)
    <3> HIDE DEF f
    <3> QED BY <2>4, <2>5 DEF Upto
  <2> QED BY <1>3, <2>6
<1> QED BY <1>4, <1>5

-----------------------------------------------------------------------------
(* Sequences put together. *)

\* A part of a sequence.
LEMMA PartIs ==
    ASSUME NEW S, NEW s \in Seq(S), NEW m \in Nat, NEW n \in Nat, m <= n, n <= Len(s)
    PROVE  /\ SubSeq(s, m + 1, n) \in Seq(S) /\ Len(SubSeq(s, m + 1, n)) = n - m
           /\ \A i \in 1 .. n - m : SubSeq(s, m + 1, n)[i] = s[m+i]
<1> DEFINE first == m + 1
           p == SubSeq(s, first, n)
<1>1. Len(s) \in Nat /\ \A i \in 1 .. Len(s) : s[i] \in S
  BY LenProperties, ElementOfSeq
<1>2. first \in Int /\ n \in Int /\ \A i \in first .. n : s[i] \in S
  BY <1>1
<1>3. first = m + 1
  OBVIOUS
<1> HIDE DEF first
<1>4. /\ p \in Seq(S) /\ Len(p) = IF first <= n THEN n - first + 1 ELSE 0
      /\ \A i \in 1 .. n - first + 1 : p[i] = s[first+i-1]
  BY <1>2, SubSeqProperties
<1> HIDE DEF p
<1>5. Len(p) = n - m
  BY <1>3, <1>4
<1>6. \A i \in 1 .. n - m : p[i] = s[m+i]
  <2> TAKE i \in 1 .. n - m
  <2>1. i \in 1 .. n - first + 1 /\ first + i - 1 = m + i
    BY <1>3
  <2> QED BY <1>4, <2>1
<1> QED BY <1>3, <1>4, <1>5, <1>6 DEF p

\* A sequence is one of any set that has its elements.
LEMMA SameElements ==
    ASSUME NEW S, NEW R, NEW s \in Seq(S), \A i \in 1 .. Len(s) : s[i] \in R
    PROVE  s \in Seq(R)
<1>1. Len(s) \in Nat /\ DOMAIN s = 1 .. Len(s) /\ s = [i \in 1 .. Len(s) |-> s[i]]
  BY LenProperties
<1>2. s \in [1 .. Len(s) -> R]
  BY <1>1
<1> QED BY <1>1, <1>2, OfLength

LEMMA Together ==
    ASSUME NEW S, NEW a \in Seq(S), NEW b \in Seq(S), NEW c \in Seq(S), NEW d \in Seq(S)
    PROVE  a \o b \o c \o d \in Seq(S)
<1>1. a \o b \in Seq(S)
  BY ConcatProperties
<1>2. a \o b \o c \in Seq(S)
  BY <1>1, ConcatProperties
<1> QED BY <1>2, ConcatProperties

\* t has the first parts of the sequence, one behind the other.
Builds(t, parts) ==
    t[0] = <<>> /\ \A i \in 1 .. Len(parts) : t[i] = t[i-1] \o parts[i]

\* There is such a table, and FlattenSeq is its last entry.
LEMMA FlattenBuilt ==
    ASSUME NEW S, NEW parts \in Seq(Seq(S))
    PROVE  \E t \in [0 .. Len(parts) -> Seq(S)] :
             Builds(t, parts) /\ FlattenSeq(parts) = t[Len(parts)]
<1> DEFINE n == Len(parts)
           st == [x \in Seq(S) \X (1 .. n) |-> x[1] \o parts[x[2]]]
           Is(f) == f = [i \in 1 .. n |-> IF i = 1 THEN parts[i] ELSE f[i-1] \o parts[i]]
<1>1. n \in Nat /\ \A i \in 1 .. n : parts[i] \in Seq(S)
  BY LenProperties, ElementOfSeq
<1>2. st \in Steps(Seq(S), n)
  <2>1. \A x \in Seq(S) \X (1 .. n) : x[1] \in Seq(S) /\ parts[x[2]] \in Seq(S)
    BY <1>1
  <2>2. \A a, b \in Seq(S) : a \o b \in Seq(S)
    BY ConcatProperties
  <2> HIDE DEF n
  <2> QED BY <2>1, <2>2 DEF Steps
<1>3. <<>> \in Seq(S)
  OBVIOUS
<1>4. PICK f : f \in [0 .. n -> Seq(S)] /\ Iterates(f, <<>>, n, st)
  <2> HIDE DEF st, n
  <2> QED BY <1>1, <1>2, <1>3, Iteration
<1>5. f[0] = <<>> /\ \A i \in 1 .. n : f[i] = f[i-1] \o parts[i]
  <2>1. f[0] = <<>>
    <3>1. 0 \in 0 .. n
      BY <1>1
    <3> HIDE DEF n, st
    <3> QED BY <1>4, <3>1 DEF Iterates
  <2>2. ASSUME NEW i \in 1 .. n PROVE f[i] = f[i-1] \o parts[i]
    <3>1. i \in 0 .. n /\ i # 0 /\ i - 1 \in 0 .. n
      BY <1>1
    <3>2. f[i-1] \in Seq(S) /\ f[i] = st[<<f[i-1], i>>]
      BY <1>4, <3>1 DEF Iterates
    <3>3. <<f[i-1], i>> \in Seq(S) \X (1 .. n)
      BY <3>2
    <3> QED BY <3>2, <3>3
  <2> QED BY <2>1, <2>2
<1> HIDE DEF st
<1>6. Builds(f, parts)
  BY <1>5 DEF Builds
<1>7. CASE n = 0
  <2>1. FlattenSeq(parts) = parts /\ parts = <<>>
    BY <1>7, EmptySeq DEF FlattenSeq
  <2> QED BY <1>4, <1>5, <1>6, <1>7, <2>1
<1>8. CASE n # 0
  <2> DEFINE first == [i \in 1 .. n |-> f[i]]
  <2>1. Is(first)
    <3>1. ASSUME NEW i \in 1 .. n
          PROVE  first[i] = IF i = 1 THEN parts[i] ELSE first[i-1] \o parts[i]
      <4>1. CASE i = 1
        <5>1. i - 1 = 0 /\ first[i] = f[i]
          BY <4>1
        <5>2. f[i] = <<>> \o parts[i]
          BY <1>5, <5>1
        <5>3. <<>> \o parts[i] = parts[i]
          BY <1>1, ConcatEmptySeq
        <5> QED BY <4>1, <5>1, <5>2, <5>3
      <4>2. CASE i # 1
        <5>1. i - 1 \in 1 .. n
          BY <1>1, <4>2
        <5> QED BY <1>5, <4>2, <5>1
      <4> QED BY <4>1, <4>2
    <3> QED BY <3>1
  <2> DEFINE g == CHOOSE g : Is(g)
  <2>2. Is(g)
    BY <2>1
  <2>3. FlattenSeq(parts) = g[n]
    BY <1>8 DEF FlattenSeq, n
  <2> HIDE DEF g
  <2>4. \A i \in 1 .. n : g[i] = IF i = 1 THEN parts[i] ELSE g[i-1] \o parts[i]
    BY <2>2
  <2> DEFINE same == {i \in 0 .. n : i = 0 \/ g[i] = f[i]}
  <2>5. 0 \in same
    BY <1>1
  <2>6. ASSUME NEW i \in 1 .. n, i - 1 \in same PROVE i \in same
    <3>1. i \in 0 .. n
      BY <1>1
    <3>2. CASE i = 1
      <4>1. f[i] = <<>> \o parts[i]
        <5>1. f[i] = f[i-1] \o parts[i]
          BY <1>5
        <5>2. i - 1 = 0
          BY <3>2
        <5> QED BY <1>5, <5>1, <5>2
      <4>2. <<>> \o parts[i] = parts[i]
        BY <1>1, ConcatEmptySeq
      <4> QED BY <2>4, <3>1, <3>2, <4>1, <4>2
    <3>3. CASE i # 1
      <4>1. g[i-1] = f[i-1]
        BY <2>6, <3>3
      <4> QED BY <1>5, <2>4, <3>1, <3>3, <4>1
    <3> QED BY <3>2, <3>3
  <2> HIDE DEF same
  <2>7. 0 .. n \subseteq same
    BY <1>1, <2>5, <2>6, Reached
  <2>8. g[n] = f[n]
    BY <1>1, <1>8, <2>7 DEF same
  <2> QED BY <1>4, <1>6, <2>3, <2>8
<1> QED BY <1>7, <1>8

\* The table of the first parts is that of all.
LEMMA BuiltOnce ==
    ASSUME NEW S, NEW parts \in Seq(Seq(S)), NEW m \in 0 .. Len(parts), NEW t, NEW u,
           Builds(t, parts), Builds(u, SubSeq(parts, 1, m))
    PROVE  t[m] = u[m]
<1> DEFINE some == SubSeq(parts, 1, m)
           same == {i \in 0 .. m : t[i] = u[i]}
<1>1. /\ m \in Nat /\ m <= Len(parts) /\ Len(parts) \in Nat
  BY LenProperties
<1>2. Len(some) = m /\ \A i \in 1 .. m : some[i] = parts[i]
  <2>1. SubSeq(parts, 0 + 1, m) = some /\ m - 0 = m
    BY <1>1
  <2>2. /\ Len(SubSeq(parts, 0 + 1, m)) = m - 0
        /\ \A i \in 1 .. m - 0 : SubSeq(parts, 0 + 1, m)[i] = parts[0+i]
    BY <1>1, PartIs
  <2> QED BY <2>1, <2>2
<1> HIDE DEF some
<1>3. 0 \in same
  BY <1>1 DEF Builds
<1>4. ASSUME NEW i \in 1 .. m, i - 1 \in same PROVE i \in same
  <2>1. i \in 1 .. Len(parts) /\ i \in 1 .. Len(some) /\ i \in 0 .. m
    BY <1>1, <1>2
  <2>2. t[i] = t[i-1] \o parts[i] /\ u[i] = u[i-1] \o some[i]
    BY <2>1 DEF Builds, some
  <2> QED BY <1>2, <1>4, <2>1, <2>2
<1> HIDE DEF same
<1>5. 0 .. m \subseteq same
  BY <1>1, <1>3, <1>4, Reached
<1> QED BY <1>1, <1>5 DEF same

\* The first n parts, put together.
FirstJoined(parts, n) == FlattenSeq(SubSeq(parts, 1, n))

LEMMA JoinedIs ==
    ASSUME NEW S, NEW parts \in Seq(Seq(S))
    PROVE  /\ FirstJoined(parts, 0) = <<>>
           /\ \A n \in 1 .. Len(parts) : FirstJoined(parts, n) = FirstJoined(parts, n - 1) \o parts[n]
           /\ \A n \in 0 .. Len(parts) : FirstJoined(parts, n) \in Seq(S)
           /\ FirstJoined(parts, Len(parts)) = FlattenSeq(parts)
<1>1. Len(parts) \in Nat
  BY LenProperties
<1>2. PICK t \in [0 .. Len(parts) -> Seq(S)] :
        Builds(t, parts) /\ FlattenSeq(parts) = t[Len(parts)]
  BY FlattenBuilt
<1>3. ASSUME NEW n \in 0 .. Len(parts) PROVE FirstJoined(parts, n) = t[n]
  <2> DEFINE some == SubSeq(parts, 1, n)
  <2>1. some \in Seq(Seq(S)) /\ Len(some) = n
    <3>1. SubSeq(parts, 0 + 1, n) = some /\ n - 0 = n /\ n \in Nat /\ 0 \in Nat /\ 0 <= n
      BY <1>1
    <3>2. SubSeq(parts, 0 + 1, n) \in Seq(Seq(S)) /\ Len(SubSeq(parts, 0 + 1, n)) = n - 0
      BY <1>1, <3>1, PartIs
    <3> QED BY <3>1, <3>2
  <2> HIDE DEF some
  <2>2. PICK u \in [0 .. Len(some) -> Seq(S)] :
          Builds(u, some) /\ FlattenSeq(some) = u[Len(some)]
    BY <2>1, FlattenBuilt
  <2>3. t[n] = u[n]
    BY <1>2, <2>2, BuiltOnce DEF some
  <2> QED BY <2>1, <2>2, <2>3 DEF FirstJoined, some
<1>4. /\ t[0] = <<>> /\ \A n \in 1 .. Len(parts) : t[n] = t[n-1] \o parts[n]
      /\ \A n \in 0 .. Len(parts) : t[n] \in Seq(S)
  BY <1>2 DEF Builds
<1>5. ASSUME NEW n \in 1 .. Len(parts)
      PROVE  FirstJoined(parts, n) = FirstJoined(parts, n - 1) \o parts[n]
  <2>1. n \in 0 .. Len(parts) /\ n - 1 \in 0 .. Len(parts)
    BY <1>1
  <2>2. FirstJoined(parts, n) = t[n] /\ FirstJoined(parts, n - 1) = t[n-1]
    BY <1>3, <2>1
  <2> QED BY <1>4, <2>2
<1>6. 0 \in 0 .. Len(parts) /\ Len(parts) \in 0 .. Len(parts)
  BY <1>1
<1> QED BY <1>2, <1>3, <1>4, <1>5, <1>6

\* Where part n ends.
PartEnd(parts, n) == Len(FirstJoined(parts, n))

\* b has s behind its first at elements.
StandsAt(b, at, s) == at + Len(s) <= Len(b) /\ \A i \in 1 .. Len(s) : b[at+i] = s[i]

LEMMA PartsIs ==
    ASSUME NEW S, NEW parts \in Seq(Seq(S))
    PROVE  /\ PartEnd(parts, 0) = 0 /\ PartEnd(parts, Len(parts)) = Len(FlattenSeq(parts))
           /\ \A n \in 0 .. Len(parts) : PartEnd(parts, n) \in Nat
           /\ \A n \in 1 .. Len(parts) : PartEnd(parts, n) = PartEnd(parts, n - 1) + Len(parts[n])
           /\ \A n \in 0 .. Len(parts) : \A m \in n .. Len(parts) :
                PartEnd(parts, n) <= PartEnd(parts, m)
           /\ \A n \in 1 .. Len(parts) :
                StandsAt(FlattenSeq(parts), PartEnd(parts, n - 1), parts[n])
<1> DEFINE N == Len(parts)
           J(n) == FirstJoined(parts, n)
           E(n) == PartEnd(parts, n)
<1>1. N \in Nat /\ \A n \in 1 .. N : parts[n] \in Seq(S) /\ Len(parts[n]) \in Nat
  BY LenProperties, ElementOfSeq
<1>2. /\ J(0) = <<>> /\ \A n \in 1 .. N : J(n) = J(n-1) \o parts[n]
      /\ \A n \in 0 .. N : J(n) \in Seq(S)
      /\ J(N) = FlattenSeq(parts)
  BY JoinedIs
<1>3. \A n \in 0 .. N : E(n) = Len(J(n)) /\ E(n) \in Nat
  BY <1>2, LenProperties DEF PartEnd
<1> HIDE DEF N, J, E
<1>4. ASSUME NEW n \in 1 .. N
      PROVE  /\ E(n) = E(n-1) + Len(parts[n])
             /\ \A i \in 1 .. E(n) : J(n)[i] = IF i <= E(n-1) THEN J(n-1)[i] ELSE parts[n][i-E(n-1)]
  <2>1. n \in 0 .. N /\ n - 1 \in 0 .. N
    BY <1>1
  <2> DEFINE a == J(n-1)
             p == parts[n]
  <2>2. J(n) = a \o p /\ a \in Seq(S) /\ p \in Seq(S) /\ Len(a) = E(n-1) /\ Len(J(n)) = E(n)
    BY <1>1, <1>2, <1>3, <2>1
  <2> HIDE DEF a, p
  <2>3. /\ Len(a \o p) = Len(a) + Len(p)
        /\ \A i \in 1 .. Len(a) + Len(p) : (a \o p)[i] = IF i <= Len(a) THEN a[i] ELSE p[i-Len(a)]
    BY <2>2, ConcatProperties
  <2> QED BY <2>2, <2>3 DEF a, p
<1>5. ASSUME NEW n \in 0 .. N
      PROVE  \A m \in n .. N : /\ E(n) <= E(m)
                               /\ \A i \in 1 .. E(n) : J(m)[i] = J(n)[i]
  <2> DEFINE good == {m \in 0 .. N : n <= m => /\ E(n) <= E(m)
                                               /\ \A i \in 1 .. E(n) : J(m)[i] = J(n)[i]}
  <2>1. 0 \in good
    BY <1>1, <1>3
  <2>2. ASSUME NEW m \in 1 .. N, m - 1 \in good PROVE m \in good
    <3>1. m \in 0 .. N /\ m - 1 \in 0 .. N
      BY <1>1
    <3>2. CASE n <= m - 1
      <4>1. /\ E(n) <= E(m-1) /\ \A i \in 1 .. E(n) : J(m-1)[i] = J(n)[i]
        BY <2>2, <3>2
      <4>2. E(n) \in Nat /\ E(m-1) \in Nat /\ E(m) \in Nat /\ E(m) = E(m-1) + Len(parts[m])
            /\ Len(parts[m]) \in Nat
        BY <1>1, <1>3, <1>4, <3>1
      <4>3. E(n) <= E(m)
        BY <4>1, <4>2
      <4>4. ASSUME NEW i \in 1 .. E(n) PROVE J(m)[i] = J(n)[i]
        <5>1. i \in 1 .. E(m) /\ i <= E(m-1)
          BY <4>1, <4>2
        <5>2. J(m)[i] = J(m-1)[i]
          BY <1>4, <5>1
        <5> QED BY <4>1, <5>2
      <4> QED BY <3>1, <4>3, <4>4
    <3>3. CASE n = m
      BY <1>3, <3>1, <3>3
    <3>4. CASE n > m
      BY <1>1, <3>1, <3>4
    <3>5. n <= m - 1 \/ n = m \/ n > m
      BY <1>1
    <3> QED BY <3>2, <3>3, <3>4, <3>5
  <2> HIDE DEF good
  <2>3. 0 .. N \subseteq good
    BY <1>1, <2>1, <2>2, Reached
  <2> QED BY <1>1, <2>3 DEF good
<1>6. ASSUME NEW n \in 1 .. N PROVE StandsAt(FlattenSeq(parts), E(n-1), parts[n])
  <2> DEFINE p == parts[n]
             whole == FlattenSeq(parts)
             e == E(n-1)
  <2>1. n \in 0 .. N /\ n - 1 \in 0 .. N /\ N \in 0 .. N /\ N \in n .. N
    BY <1>1
  <2>2. /\ E(n) <= E(N) /\ \A i \in 1 .. E(n) : whole[i] = J(n)[i]
    BY <1>2, <1>5, <2>1
  <2>3. /\ E(n) = e + Len(p) /\ e \in Nat /\ Len(p) \in Nat /\ E(N) = Len(whole)
        /\ \A i \in 1 .. E(n) : J(n)[i] = IF i <= e THEN J(n-1)[i] ELSE p[i-e]
    BY <1>1, <1>2, <1>3, <1>4, <2>1
  <2> HIDE DEF p, whole, e
  <2>4. ASSUME NEW i \in 1 .. Len(p) PROVE whole[e+i] = p[i]
    <3>1. e + i \in 1 .. E(n) /\ ~ (e + i <= e) /\ (e + i) - e = i
      BY <2>3
    <3>2. whole[e+i] = J(n)[e+i] /\ J(n)[e+i] = p[(e+i)-e]
      BY <2>2, <2>3, <3>1
    <3> QED BY <3>1, <3>2
  <2>5. e + Len(p) <= Len(whole)
    BY <2>2, <2>3
  <2>6. StandsAt(whole, e, p)
    BY <2>4, <2>5 DEF StandsAt
  <2> QED BY <2>6 DEF p, whole, e
<1>7. E(0) = 0
  <2>1. 0 \in 0 .. N /\ Len(<< >>) = 0
    BY <1>1
  <2> QED BY <1>2, <1>3, <2>1
<1>8. E(N) = Len(FlattenSeq(parts))
  BY <1>1, <1>2, <1>3
<1> QED BY <1>3, <1>4, <1>5, <1>6, <1>7, <1>8 DEF N, E

\* What a sequence contains is cut out of it.
LEMMA CutOut ==
    ASSUME NEW S, NEW b \in Seq(S), NEW s \in Seq(S), NEW at \in Nat, StandsAt(b, at, s)
    PROVE  SubSeq(b, at + 1, at + Len(s)) = s
<1> DEFINE n == at + Len(s)
           p == SubSeq(b, at + 1, n)
<1>1. n \in Nat /\ at <= n /\ n <= Len(b) /\ n - at = Len(s)
  BY LenProperties DEF StandsAt
<1> HIDE DEF n
<1>2. p \in Seq(S) /\ Len(p) = Len(s) /\ \A i \in 1 .. Len(s) : p[i] = b[at+i]
  BY <1>1, PartIs
<1> HIDE DEF p
<1>3. \A i \in 1 .. Len(s) : p[i] = s[i]
  BY <1>2 DEF StandsAt
<1>4. p = s
  BY <1>2, <1>3, SeqEqual
<1> QED BY <1>4 DEF p, n

\* Sequences that are put together are what their ends leave in the middle.
LEMMA MiddleOf ==
    ASSUME NEW S, NEW a \in Seq(S), NEW b \in Seq(S), NEW c \in Seq(S)
    PROVE  /\ SubSeq(a \o b \o c, Len(a) + 1, Len(a) + Len(b)) = b
           /\ a \o b \o c \in Seq(S) /\ Len(a \o b \o c) = Len(a) + Len(b) + Len(c)
<1> DEFINE ab == a \o b
           abc == ab \o c
<1>1. Len(a) \in Nat /\ Len(b) \in Nat /\ Len(c) \in Nat
  BY LenProperties
<1>2. /\ ab \in Seq(S) /\ Len(ab) = Len(a) + Len(b)
      /\ \A i \in 1 .. Len(a) + Len(b) : ab[i] = IF i <= Len(a) THEN a[i] ELSE b[i-Len(a)]
  BY ConcatProperties
<1> HIDE DEF ab
<1>4. /\ abc \in Seq(S) /\ Len(abc) = Len(ab) + Len(c)
      /\ \A i \in 1 .. Len(ab) + Len(c) : abc[i] = IF i <= Len(ab) THEN ab[i] ELSE c[i-Len(ab)]
  <2>1. ab \in Seq(S)
    BY <1>2
  <2> QED BY <2>1, ConcatProperties
<1> HIDE DEF abc
<1>5. StandsAt(abc, Len(a), b)
  <2>1. ASSUME NEW i \in 1 .. Len(b) PROVE abc[Len(a)+i] = b[i]
    <3>1. /\ Len(a) + i \in 1 .. Len(ab) + Len(c) /\ Len(a) + i <= Len(ab)
          /\ Len(a) + i \in 1 .. Len(a) + Len(b) /\ ~ (Len(a) + i <= Len(a))
          /\ (Len(a) + i) - Len(a) = i
      BY <1>1, <1>2
    <3>2. abc[Len(a)+i] = ab[Len(a)+i] /\ ab[Len(a)+i] = b[(Len(a)+i)-Len(a)]
      BY <1>2, <1>4, <3>1
    <3> QED BY <3>1, <3>2
  <2>2. Len(a) + Len(b) <= Len(abc)
    BY <1>1, <1>2, <1>4
  <2> QED BY <2>1, <2>2 DEF StandsAt
<1>7. SubSeq(abc, Len(a) + 1, Len(a) + Len(b)) = b
  BY <1>1, <1>4, <1>5, CutOut
<1>8. Len(abc) = Len(a) + Len(b) + Len(c)
  BY <1>1, <1>2, <1>4
<1> QED BY <1>4, <1>7, <1>8 DEF abc, ab

LEMMA HeadOf ==
    ASSUME NEW S, NEW h \in S, NEW b \in Seq(S), NEW r \in Seq(S)
    PROVE  /\ (<<h>> \o b) \o r \in Seq(S)
           /\ Len((<<h>> \o b) \o r) = 1 + (Len(b) + Len(r))
           /\ ((<<h>> \o b) \o r)[1] = h
<1> DEFINE a == <<h>>
           br == b \o r
<1>1. a \in Seq(S) /\ Len(a) = 1 /\ a[1] = h
  OBVIOUS
<1> HIDE DEF a
<1>2. a \in Seq(S)
  BY <1>1
<1>3. (a \o b) \o r = a \o br
  BY <1>2, ConcatAssociative
<1>4. br \in Seq(S) /\ Len(br) = Len(b) + Len(r) /\ Len(br) \in Nat
  <2>1. br \in Seq(S) /\ Len(br) = Len(b) + Len(r)
    BY ConcatProperties
  <2> HIDE DEF br
  <2> QED BY <2>1, LenProperties
<1> HIDE DEF br
<1>5. /\ a \o br \in Seq(S) /\ Len(a \o br) = Len(a) + Len(br)
      /\ \A i \in 1 .. Len(a) + Len(br) : (a \o br)[i] = IF i <= Len(a) THEN a[i] ELSE br[i-Len(a)]
  <2>1. br \in Seq(S)
    BY <1>4
  <2> QED BY <1>2, <2>1, ConcatProperties
<1>6. 1 \in 1 .. Len(a) + Len(br) /\ 1 <= Len(a)
  BY <1>1, <1>4
<1>7. (a \o br)[1] = h
  BY <1>1, <1>5, <1>6
<1> QED BY <1>1, <1>3, <1>4, <1>5, <1>7 DEF a

\* A head, two parts that can be cut out again, and a rest.
FourOf(h, b, p, c) == <<h>> \o b \o p \o c

FourParted(S, h, b, p, c) ==
    LET m == FourOf(h, b, p, c) IN
    /\ m \in Seq(S) /\ Len(m) = 1 + (Len(b) + (Len(p) + Len(c))) /\ m[1] = h
    /\ SubSeq(m, 1 + 1, 1 + Len(b)) = b
    /\ SubSeq(m, (1 + Len(b)) + 1, (1 + Len(b)) + (Len(p) + Len(c))) = p \o c
    /\ p \o c \in Seq(S) /\ Len(p \o c) = Len(p) + Len(c)
    /\ SubSeq(p \o c, 0 + 1, 0 + Len(p)) = p
    /\ SubSeq(p \o c, Len(p) + 1, Len(p) + Len(c)) = c

LEMMA FourParts ==
    ASSUME NEW S, NEW h \in S, NEW b \in Seq(S), NEW p \in Seq(S), NEW c \in Seq(S)
    PROVE  FourParted(S, h, b, p, c)
<1> DEFINE a == <<h>>
           e == <<>>
           ab == a \o b
           r == p \o c
<1>1. a \in Seq(S) /\ e \in Seq(S)
  OBVIOUS
<1>2. Len(a) = 1 /\ Len(e) = 0
  OBVIOUS
<1>4. \A s \in Seq(S) : s \o e = s /\ e \o s = s
  BY ConcatEmptySeq
<1>5. /\ ab \in Seq(S) /\ Len(ab) = Len(a) + Len(b)
      /\ r \in Seq(S) /\ Len(r) = Len(p) + Len(c)
  <2> HIDE DEF a
  <2> QED BY <1>1, ConcatProperties
<1>6. ab \in Seq(S) /\ r \in Seq(S)
  BY <1>5
<1>7. FourOf(h, b, p, c) = ab \o r
  <2>1. (ab \o p) \o c = ab \o (p \o c)
    <3> HIDE DEF ab
    <3> QED BY <1>6, ConcatAssociative
  <2> QED BY <2>1 DEF FourOf
<1>12. /\ ab \o r \in Seq(S) /\ Len(ab \o r) = 1 + (Len(b) + Len(r)) /\ (ab \o r)[1] = h
  <2> HIDE DEF r
  <2> QED BY <1>6, HeadOf
<1> HIDE DEF a, e
<1>13. SubSeq(ab \o r, Len(a) + 1, Len(a) + Len(b)) = b
  <2>1. SubSeq((a \o b) \o r, Len(a) + 1, Len(a) + Len(b)) = b
    <3> HIDE DEF r, ab
    <3> QED BY <1>1, <1>6, MiddleOf
  <2> QED BY <2>1
<1>14. SubSeq(ab \o r, Len(ab) + 1, Len(ab) + Len(r)) = r
  <2> HIDE DEF ab, r
  <2>1. (ab \o r) \o e = ab \o r
    BY <1>4, <1>12
  <2>2. SubSeq((ab \o r) \o e, Len(ab) + 1, Len(ab) + Len(r)) = r
    BY <1>1, <1>6, MiddleOf
  <2> QED BY <2>1, <2>2
<1>15. SubSeq(r, Len(e) + 1, Len(e) + Len(p)) = p
  <2>1. SubSeq((e \o p) \o c, Len(e) + 1, Len(e) + Len(p)) = p
    BY <1>1, MiddleOf
  <2>2. (e \o p) \o c = r
    BY <1>4
  <2> QED BY <2>1, <2>2
<1>16. SubSeq(r, Len(p) + 1, Len(p) + Len(c)) = c
  <2>1. SubSeq((p \o c) \o e, Len(p) + 1, Len(p) + Len(c)) = c
    BY <1>1, MiddleOf
  <2>2. (p \o c) \o e = r
    BY <1>4, <1>6
  <2> QED BY <2>1, <2>2
<1> HIDE DEF ab
<1> QED BY <1>2, <1>5, <1>7, <1>12, <1>13, <1>14, <1>15, <1>16 DEF FourParted

\* As far as b goes, it has s behind its first at elements.
Begins(b, at, s) == \A i \in 1 .. Len(s) : at + i <= Len(b) => b[at+i] = s[i]

\* The same part of both.
LEMMA CommonPart ==
    ASSUME NEW S, NEW b \in Seq(S), NEW s \in Seq(S), NEW at \in Nat, Begins(b, at, s),
           NEW m \in Nat, NEW n \in Nat, 1 <= m, m <= n + 1, n <= Len(s), at + n <= Len(b)
    PROVE  SubSeq(b, at + m, at + n) = SubSeq(s, m, n)
<1> DEFINE p == at + m
           q == at + n
<1>0. p = at + m /\ q = at + n /\ p \in Nat /\ q \in Nat
  OBVIOUS
<1> HIDE DEF p, q
<1> DEFINE u == SubSeq(b, (p - 1) + 1, q)
           v == SubSeq(s, (m - 1) + 1, n)
<1>1. /\ p - 1 \in Nat /\ m - 1 \in Nat /\ q \in Nat /\ p - 1 <= q /\ q <= Len(b)
      /\ m - 1 <= n /\ q - (p - 1) = n - (m - 1) /\ Len(s) \in Nat
  BY <1>0, LenProperties
<1>2. /\ u \in Seq(S) /\ Len(u) = q - (p - 1) /\ \A i \in 1 .. q - (p - 1) : u[i] = b[(p-1)+i]
  BY <1>1, PartIs, SMTT(30)
<1>3. /\ v \in Seq(S) /\ Len(v) = n - (m - 1) /\ \A i \in 1 .. n - (m - 1) : v[i] = s[(m-1)+i]
  BY <1>1, PartIs, SMTT(30)
<1> HIDE DEF u, v
<1>4. ASSUME NEW i \in 1 .. Len(u) PROVE u[i] = v[i]
  <2>1. /\ i \in 1 .. q - (p - 1) /\ i \in 1 .. n - (m - 1) /\ (m - 1) + i \in 1 .. Len(s)
        /\ (p - 1) + i = at + ((m - 1) + i) /\ at + ((m - 1) + i) <= Len(b)
    <3>1. i \in 1 .. q - (p - 1)
      BY <1>2
    <3>2. Len(b) \in Nat
      BY LenProperties
    <3> QED BY <1>0, <1>1, <3>1, <3>2
  <2>2. b[at+((m-1)+i)] = s[(m-1)+i]
    BY <2>1 DEF Begins
  <2> QED BY <1>2, <1>3, <2>1, <2>2
<1>5. u = v
  BY <1>1, <1>2, <1>3, <1>4, SeqEqual
<1>6. (p - 1) + 1 = p /\ (m - 1) + 1 = m
  BY <1>0
<1> QED BY <1>5, <1>6 DEF u, v, p, q

\* What a sequence has at J, the part of it behind K has at J - K.
LEMMA PartBegins ==
    ASSUME NEW S, NEW T \in Seq(S), NEW c \in Seq(S), NEW K \in Nat, NEW J \in Nat, K <= J,
           NEW r \in Nat, K <= r, r <= Len(T), StandsAt(T, J, c)
    PROVE  Begins(SubSeq(T, K + 1, r), J - K, c)
<1> DEFINE b == SubSeq(T, K + 1, r)
           p == J - K
<1>1. b \in Seq(S) /\ Len(b) = r - K /\ \A i \in 1 .. r - K : b[i] = T[K+i]
  BY PartIs
<1>2. p \in Nat /\ Len(c) \in Nat
  BY LenProperties
<1> HIDE DEF b
<1>3. ASSUME NEW i \in 1 .. Len(c), p + i <= Len(b) PROVE b[p+i] = c[i]
  <2>1. T[J+i] = c[i]
    BY DEF StandsAt
  <2>2. p + i \in 1 .. r - K /\ K + (p + i) = J + i
    BY <1>1, <1>2, <1>3
  <2> QED BY <1>1, <2>1, <2>2
<1> QED BY <1>3 DEF Begins, b

LEMMA Concats ==
    ASSUME NEW S, NEW a \in Seq(S), NEW b \in Seq(S)
    PROVE  /\ a \o b \in Seq(S) /\ Len(a) \in Nat /\ Len(b) \in Nat
           /\ Len(a \o b) = Len(a) + Len(b)
           /\ StandsAt(a \o b, 0, a) /\ StandsAt(a \o b, Len(a), b)
<1> DEFINE ab == a \o b
<1>1. /\ ab \in Seq(S) /\ Len(ab) = Len(a) + Len(b) /\ Len(a) \in Nat /\ Len(b) \in Nat
      /\ \A i \in 1 .. Len(a) + Len(b) : ab[i] = IF i <= Len(a) THEN a[i] ELSE b[i-Len(a)]
  BY ConcatProperties, LenProperties
<1> HIDE DEF ab
<1>2. ASSUME NEW i \in 1 .. Len(a) PROVE ab[0+i] = a[i]
  <2>1. i \in 1 .. Len(a) + Len(b) /\ i <= Len(a) /\ 0 + i = i
    BY <1>1
  <2> QED BY <1>1, <2>1
<1>3. ASSUME NEW i \in 1 .. Len(b) PROVE ab[Len(a)+i] = b[i]
  <2>1. Len(a) + i \in 1 .. Len(a) + Len(b) /\ ~ (Len(a) + i <= Len(a)) /\ (Len(a) + i) - Len(a) = i
    BY <1>1
  <2> QED BY <1>1, <2>1
<1>4. StandsAt(ab, 0, a) /\ StandsAt(ab, Len(a), b)
  <2>1. 0 + Len(a) <= Len(ab) /\ Len(a) + Len(b) <= Len(ab)
    BY <1>1
  <2> QED BY <1>2, <1>3, <2>1 DEF StandsAt
<1> QED BY <1>1, <1>4 DEF ab

\* What is somewhere in a part is in the whole.
LEMMA HasStays ==
    ASSUME NEW S, NEW a \in Seq(S), NEW b \in Seq(S), NEW s \in Seq(S), NEW at \in Nat,
           StandsAt(a, at, s)
    PROVE  StandsAt(a \o b, at, s)
<1> DEFINE ab == a \o b
<1>1. StandsAt(ab, 0, a) /\ Len(a) \in Nat /\ Len(b) \in Nat /\ Len(ab) = Len(a) + Len(b)
  BY Concats
<1>2. Len(s) \in Nat /\ at + Len(s) <= Len(a) /\ \A i \in 1 .. Len(s) : a[at+i] = s[i]
  BY LenProperties DEF StandsAt
<1> HIDE DEF ab
<1>3. ASSUME NEW i \in 1 .. Len(s) PROVE ab[at+i] = s[i]
  <2>1. at + i \in 1 .. Len(a) /\ 0 + (at + i) = at + i
    BY <1>1, <1>2
  <2>2. ab[0+(at+i)] = a[at+i]
    BY <1>1, <2>1 DEF StandsAt
  <2> QED BY <1>2, <2>1, <2>2
<1>4. at + Len(s) <= Len(ab)
  BY <1>1, <1>2
<1> QED BY <1>3, <1>4 DEF StandsAt, ab

Five(a, b, c, d, e) == a \o b \o c \o d \o e

\* What is put together is where the parts before it end.
LEMMA FiveParts ==
    ASSUME NEW S, NEW a \in Seq(S), NEW b \in Seq(S), NEW c \in Seq(S), NEW d \in Seq(S),
           NEW e \in Seq(S)
    PROVE  /\ Five(a, b, c, d, e) \in Seq(S)
           /\ Len(Five(a, b, c, d, e)) = Len(a) + Len(b) + Len(c) + Len(d) + Len(e)
           /\ StandsAt(Five(a, b, c, d, e), 0, a) /\ StandsAt(Five(a, b, c, d, e), Len(a), b)
           /\ StandsAt(Five(a, b, c, d, e), Len(a) + Len(b), c)
           /\ StandsAt(Five(a, b, c, d, e), Len(a) + Len(b) + Len(c), d)
           /\ StandsAt(Five(a, b, c, d, e), Len(a) + Len(b) + Len(c) + Len(d), e)
<1> DEFINE f == a \o b
           g == f \o c
           h == g \o d
           w == h \o e
           n == Len(f)
           m == Len(g)
           k == Len(h)
<1>1. /\ f \in Seq(S) /\ Len(a) \in Nat /\ Len(b) \in Nat /\ n = Len(a) + Len(b)
      /\ StandsAt(f, 0, a) /\ StandsAt(f, Len(a), b)
  BY Concats
<1> HIDE DEF f
<1>2. /\ g \in Seq(S) /\ n \in Nat /\ Len(c) \in Nat /\ m = n + Len(c)
      /\ StandsAt(g, n, c)
  BY <1>1, Concats
<1>3. StandsAt(g, 0, a) /\ StandsAt(g, Len(a), b)
  <2>1. 0 \in Nat
    OBVIOUS
  <2> QED BY <1>1, <2>1, HasStays
<1> HIDE DEF g, n
<1>4. /\ h \in Seq(S) /\ m \in Nat /\ Len(d) \in Nat /\ k = m + Len(d)
      /\ StandsAt(h, m, d)
  BY <1>2, Concats
<1>5. StandsAt(h, 0, a) /\ StandsAt(h, Len(a), b) /\ StandsAt(h, n, c)
  <2>1. 0 \in Nat
    OBVIOUS
  <2> QED BY <1>1, <1>2, <1>3, <2>1, HasStays
<1> HIDE DEF h, m
<1>6. /\ w \in Seq(S) /\ k \in Nat /\ Len(e) \in Nat /\ Len(w) = k + Len(e)
      /\ StandsAt(w, k, e)
  BY <1>4, Concats
<1>7. StandsAt(w, 0, a) /\ StandsAt(w, Len(a), b) /\ StandsAt(w, n, c) /\ StandsAt(w, m, d)
  <2>1. 0 \in Nat
    OBVIOUS
  <2> QED BY <1>1, <1>2, <1>4, <1>5, <2>1, HasStays
<1>8. Five(a, b, c, d, e) = w
  BY DEF f, g, h, Five
<1>9. n = Len(a) + Len(b) /\ m = Len(a) + Len(b) + Len(c) /\ k = Len(a) + Len(b) + Len(c) + Len(d)
  BY <1>1, <1>2, <1>4
<1> HIDE DEF k, w
<1> QED BY <1>6, <1>7, <1>8, <1>9

\* What is joined depends on the parts joined only.
LEMMA JoinedSame ==
    ASSUME NEW S, NEW a \in Seq(S), NEW b \in Seq(S), NEW n \in Nat, n <= Len(a), n <= Len(b),
           \A i \in 1 .. n : a[i] = b[i]
    PROVE  FirstJoined(a, n) = FirstJoined(b, n)
<1> DEFINE z == 0
<1>1. z \in Nat /\ z <= n /\ z + 1 = 1 /\ n - z = n /\ \A i \in 1 .. n : z + i = i
  OBVIOUS
<1> HIDE DEF z
<1>2. /\ SubSeq(a, z + 1, n) \in Seq(S) /\ Len(SubSeq(a, z + 1, n)) = n - z
      /\ \A i \in 1 .. n - z : SubSeq(a, z + 1, n)[i] = a[z+i]
  BY <1>1, PartIs
<1>3. /\ SubSeq(b, z + 1, n) \in Seq(S) /\ Len(SubSeq(b, z + 1, n)) = n - z
      /\ \A i \in 1 .. n - z : SubSeq(b, z + 1, n)[i] = b[z+i]
  BY <1>1, PartIs
<1>4. SubSeq(a, 1, n) = SubSeq(b, 1, n)
  <2> DEFINE c == SubSeq(a, 1, n)
             d == SubSeq(b, 1, n)
  <2>1. /\ c \in Seq(S) /\ d \in Seq(S) /\ Len(c) = n /\ Len(d) = n
        /\ \A i \in 1 .. n : c[i] = a[i] /\ d[i] = b[i]
    BY <1>1, <1>2, <1>3
  <2> HIDE DEF c, d
  <2>2. \A i \in 1 .. Len(c) : c[i] = d[i]
    BY <2>1
  <2>3. c = d
    BY <2>1, <2>2, SeqEqual
  <2> QED BY <2>3 DEF c, d
<1> QED BY <1>4 DEF FirstJoined

\* What is joined is the begin of what more parts give.
LEMMA JoinedBegins ==
    ASSUME NEW S, NEW parts \in Seq(Seq(S)), NEW n \in 0 .. Len(parts), NEW s \in Seq(S),
           StandsAt(FirstJoined(parts, n), 0, s)
    PROVE  StandsAt(FlattenSeq(parts), 0, s)
<1>1. Len(parts) \in Nat
  BY LenProperties
<1> DEFINE m == Len(parts) - n
           good == {k \in 0 .. m : StandsAt(FirstJoined(parts, n + k), 0, s)}
<1>2. m \in Nat /\ n + m = Len(parts)
  BY <1>1
<1>3. 0 .. m \subseteq good
  <2>1. 0 \in good
    <3>1. n + 0 = n /\ 0 \in 0 .. m
      BY <1>2
    <3> QED BY <3>1
  <2>2. ASSUME NEW k \in 1 .. m, k - 1 \in good PROVE k \in good
    <3> DEFINE y == n + k
    <3>0. StandsAt(FirstJoined(parts, n + (k - 1)), 0, s)
      BY <2>2
    <3> HIDE DEF good, m
    <3>1. y \in 1 .. Len(parts) /\ y - 1 = n + (k - 1) /\ y - 1 \in 0 .. Len(parts) /\ k \in 0 .. m
      <4>1. n \in Nat /\ k \in Nat /\ 1 <= k /\ k <= m
        BY <1>2
      <4> QED BY <1>1, <1>2, <4>1
    <3>2. StandsAt(FirstJoined(parts, y - 1), 0, s)
      BY <3>0, <3>1
    <3> HIDE DEF y
    <3>3. /\ FirstJoined(parts, y) = FirstJoined(parts, y - 1) \o parts[y] /\ FirstJoined(parts, y - 1) \in Seq(S)
      BY <3>1, JoinedIs
    <3>4. parts[y] \in Seq(S)
      <4> DEFINE R == Seq(S)
      <4>1. parts \in Seq(R)
        OBVIOUS
      <4> HIDE DEF R
      <4>2. parts[y] \in R
        BY <3>1, <4>1, ElementOfSeq
      <4> QED BY <4>2 DEF R
    <3> DEFINE a == FirstJoined(parts, y - 1)
               b == parts[y]
               z == 0
    <3>5. a \in Seq(S) /\ b \in Seq(S) /\ z \in Nat /\ StandsAt(a, z, s)
      BY <3>2, <3>3, <3>4
    <3> HIDE DEF a, b, z
    <3>6. StandsAt(a \o b, z, s)
      BY <3>5, HasStays
    <3>7. StandsAt(FirstJoined(parts, y), 0, s)
      BY <3>3, <3>6 DEF a, b, z
    <3> QED BY <3>1, <3>7 DEF y, good
  <2> HIDE DEF good, m
  <2> QED BY <1>2, <2>1, <2>2, Reached
<1>4. StandsAt(FirstJoined(parts, Len(parts)), 0, s)
  <2>1. m \in good
    <3>1. m \in 0 .. m
      BY <1>2
    <3> HIDE DEF good, m
    <3> QED BY <1>3, <3>1
  <2> QED BY <1>2, <2>1
<1> QED BY <1>4, JoinedIs

\* A sequence begins with itself.
LEMMA HasSelf ==
    ASSUME NEW S, NEW s \in Seq(S)
    PROVE  StandsAt(s, 0, s)
<1>1. Len(s) \in Nat /\ \A i \in 1 .. Len(s) : 0 + i = i
  BY LenProperties
<1> QED BY <1>1 DEF StandsAt

\* What begins a part begins, behind what is before, the whole.
LEMMA HasBehind ==
    ASSUME NEW S, NEW a \in Seq(S), NEW b \in Seq(S), NEW s \in Seq(S), StandsAt(b, 0, s)
    PROVE  StandsAt(a \o b, 0, a \o s)
<1> DEFINE ab == a \o b
           as == a \o s
           n == Len(a)
<1>1. /\ n \in Nat /\ Len(b) \in Nat /\ Len(s) \in Nat
      /\ Len(ab) = n + Len(b) /\ StandsAt(ab, 0, a) /\ StandsAt(ab, n, b)
      /\ Len(as) = n + Len(s) /\ StandsAt(as, 0, a) /\ StandsAt(as, n, s)
  <2>1. /\ Len(a) \in Nat /\ Len(b) \in Nat /\ Len(ab) = Len(a) + Len(b)
        /\ StandsAt(ab, 0, a) /\ StandsAt(ab, Len(a), b)
    BY Concats
  <2>2. /\ Len(s) \in Nat /\ Len(as) = Len(a) + Len(s) /\ StandsAt(as, 0, a) /\ StandsAt(as, Len(a), s)
    BY Concats
  <2> QED BY <2>1, <2>2
<1> HIDE DEF ab, as, n
<1>2. Len(s) <= Len(b) /\ \A i \in 1 .. Len(s) : b[i] = s[i]
  <2>1. 0 + Len(s) <= Len(b) /\ \A i \in 1 .. Len(s) : b[0+i] = s[i]
    BY DEF StandsAt
  <2>2. \A i \in 1 .. Len(s) : 0 + i = i
    BY <1>1
  <2> QED BY <1>1, <2>1, <2>2
<1>3. ASSUME NEW i \in 1 .. Len(as) PROVE ab[0+i] = as[i]
  <2>1. CASE i <= n
    <3>1. i \in 1 .. Len(a) /\ 0 + i = i
      BY <1>1, <2>1 DEF n
    <3>2. ab[0+i] = a[i] /\ as[0+i] = a[i]
      BY <1>1, <3>1 DEF StandsAt
    <3> QED BY <3>1, <3>2
  <2>2. CASE ~ (i <= n)
    <3> DEFINE k == i - n
    <3>1. k \in 1 .. Len(s) /\ k \in 1 .. Len(b) /\ n + k = i /\ 0 + i = i
      BY <1>1, <1>2, <2>2
    <3> HIDE DEF k
    <3>2. ab[n+k] = b[k] /\ as[n+k] = s[k]
      BY <1>1, <3>1 DEF StandsAt
    <3> QED BY <1>2, <3>1, <3>2
  <2> QED BY <2>1, <2>2
<1>4. 0 + Len(as) <= Len(ab)
  BY <1>1, <1>2
<1>5. StandsAt(ab, 0, as)
  BY <1>3, <1>4 DEF StandsAt
<1> QED BY <1>5 DEF ab, as

LEMMA BeginIsPrefix ==
    ASSUME NEW S, NEW t \in Seq(S), NEW s \in Seq(S), StandsAt(t, 0, s)
    PROVE  IsPrefix(s, t)
<1> DEFINE n == Len(s)
           z == 0
<1>1. n \in Nat /\ Len(t) \in Nat /\ z \in Nat /\ z + 1 = 1 /\ z + n = n /\ StandsAt(t, z, s)
  BY LenProperties
<1>2. StandsAt(s, z, s)
  BY HasSelf
<1> HIDE DEF z
<1>3. SubSeq(t, z + 1, z + Len(s)) = s /\ SubSeq(s, z + 1, z + Len(s)) = s
  BY <1>1, <1>2, CutOut
<1>4. SubSeq(t, 1, Len(s)) = s /\ SubSeq(s, 1, Len(s)) = s
  BY <1>1, <1>3
<1>5. Len(s) <= Len(t)
  <2>1. z + Len(s) <= Len(t)
    BY <1>1 DEF StandsAt
  <2> QED BY <1>1, <2>1
<1> QED BY <1>4, <1>5 DEF IsPrefix

LEMMA MaxOfNat ==
    ASSUME NEW n \in Nat, NEW S, S \subseteq 0 .. n, S # {}
    PROVE  Max(S) \in S /\ \A y \in S : y <= Max(S)
<1> DEFINE T == {n - y : y \in S}
<1>1. T \in SUBSET Nat /\ T # {}
  <2>1. \A y \in S : n - y \in Nat
    BY SMTT(30)
  <2>2. PICK y : y \in S
    OBVIOUS
  <2>3. n - y \in T
    BY <2>2
  <2> QED BY <2>1, <2>3
<1> DEFINE m == Min(T)
<1>2. m \in T /\ \A y \in T : m <= y
  BY <1>1, MinOfNat
<1> HIDE DEF m
<1>3. PICK x \in S : m = n - x
  BY <1>2
<1> HIDE DEF T
<1>4. ASSUME NEW y \in S PROVE x >= y
  <2>1. n - y \in T
    BY DEF T
  <2>2. m <= n - y
    BY <1>2, <2>1
  <2>3. x \in 0 .. n /\ y \in 0 .. n
    OBVIOUS
  <2> QED BY <1>3, <2>2, <2>3
<1>5. Max(S) \in S /\ \A y \in S : Max(S) >= y
  BY <1>4 DEF Max
<1>6. \A y \in S : y \in Int
  OBVIOUS
<1> QED BY <1>5, <1>6

LEMMA PrefixOfMore ==
    ASSUME NEW S, NEW s \in Seq(S)
    PROVE  IsPrefix(s, s) /\ \A x : IsPrefix(s, Append(s, x))
<1>1. IsPrefix(s, s)
  BY HasSelf, BeginIsPrefix
<1>2. ASSUME NEW x PROVE IsPrefix(s, Append(s, x))
  <2> DEFINE R == S \cup {x}
             e == <<x>>
             n == Len(s)
             t == Append(s, x)
  <2>1. S \subseteq R /\ x \in R
    OBVIOUS
  <2> HIDE DEF R
  <2>2. s \in Seq(R)
    BY <2>1, SeqMonotonic
  <2>3. t \in Seq(R) /\ Len(t) = n + 1 /\ \A i \in 1 .. n : t[i] = s[i]
    BY <2>1, <2>2, AppendProperties
  <2>4. n \in Nat
    BY <2>2, LenProperties
  <2> HIDE DEF t
  <2>5. StandsAt(t, 0, s)
    <3>1. 0 + n <= Len(t) /\ \A i \in 1 .. n : 0 + i = i
      BY <2>3, <2>4
    <3> QED BY <2>3, <3>1 DEF StandsAt
  <2>6. IsPrefix(s, t)
    BY <2>2, <2>3, <2>5, BeginIsPrefix
  <2> QED BY <2>6 DEF t
<1> QED BY <1>1, <1>2
=============================================================================
