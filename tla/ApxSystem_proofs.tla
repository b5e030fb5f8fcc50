-------------------------- MODULE ApxSystem_proofs --------------------------
(***************************************************************************)
(* First, what happens to the writes to a file on their way through a      *)
(* queue (Chain): what a message at the end, one taken from the front and  *)
(* one that is applied mean to them.  Then the invariant of ApxSystem      *)
(* (IInv of ApxInvariant), and what follows from it for every node, server *)
(* and file: its parts that runs check (TypeOK, Snapshot, ServerAnnounced, *)
(* ToServerCarried, ToClientCarried), WritesLand and ImplementsMirror.     *)
(***************************************************************************)
EXTENDS ApxInvariant, FileManager_proofs

-----------------------------------------------------------------------------
(* Chains. *)

\* A queue grows at its end ...
LEMMA Appended ==
    ASSUME NEW S, NEW q \in Seq(S), NEW m
    PROVE  LET last == Len(q) + 1
               more == Append(q, m)
           IN  /\ last \in Nat /\ DOMAIN q = 1 .. Len(q) /\ DOMAIN more = 1 .. last
               /\ more[last] = m /\ \A i \in DOMAIN q : more[i] = q[i]
               /\ DOMAIN more = DOMAIN q \cup {last} /\ last \notin DOMAIN q
               /\ \A i \in DOMAIN q : i \in Nat /\ i < last
<1> DEFINE T == S \cup {m}
           more == Append(q, m)
           last == Len(q) + 1
<1>1. q \in Seq(T) /\ m \in T
  BY SeqMonotonic
<1>2. /\ more \in Seq(T) /\ Len(more) = Len(q) + 1 /\ more[Len(q) + 1] = m
      /\ \A i \in 1 .. Len(q) : more[i] = q[i]
  BY <1>1, AppendProperties
<1>3. Len(q) \in Nat /\ DOMAIN q = 1 .. Len(q) /\ DOMAIN more = 1 .. Len(more)
  BY <1>1, <1>2, LenProperties
<1> HIDE DEF more, T
<1> QED BY <1>2, <1>3 DEF more

\* ... and is taken from its front.
LEMMA Taken ==
    ASSUME NEW S, NEW q \in Seq(S), q # <<>>
    PROVE  LET rest == Tail(q) IN
             /\ rest \in Seq(S) /\ 1 \in DOMAIN q /\ Head(q) = q[1] /\ q[1] \in S
             /\ \A i \in DOMAIN rest : i \in Nat \ {0} /\ i + 1 \in DOMAIN q /\ rest[i] = q[i+1]
             /\ \A i \in DOMAIN q : i \in Nat \ {0} /\ (i # 1 => i - 1 \in DOMAIN rest)
<1> DEFINE rest == Tail(q)
           n == Len(q)
<1>1. /\ Head(q) \in S /\ rest \in Seq(S) /\ Head(q) = q[1]
      /\ Len(rest) = n - 1 /\ \A i \in 1 .. n - 1 : rest[i] = q[i+1]
  BY HeadTailProperties
<1>2. n \in Nat /\ n # 0 /\ DOMAIN q = 1 .. n /\ DOMAIN rest = 1 .. n - 1
  BY <1>1, LenProperties, EmptySeq
<1> HIDE DEF rest, n
<1> QED BY <1>1, <1>2 DEF rest

-----------------------------------------------------------------------------

\* Only the writes to the file count.
LEMMA ChainSame ==
    ASSUME NEW q, NEW new, NEW f, NEW b, NEW h, NEW r, Chain(q, f, b, h, r),
           Targets(new, f, b) = Targets(q, f, b),
           \A i \in Targets(q, f, b) : new[i] = q[i]
    PROVE  Chain(new, f, b, h, r)
<1> DEFINE T == Targets(q, f, b)
<1>1. T = Targets(new, f, b) /\ \A i \in T : new[i] = q[i]
  OBVIOUS
<1>2. /\ \A i \in T :
           /\ q[i].version \in 1 .. Len(h) /\ r <= q[i].version
           /\ Whole(q[i], f, b, h) \/ Single(q[i], f, b, h)
      /\ \A i, j \in T :
           i < j => /\ q[i].version <= q[j].version
                    /\ q[i].version = q[j].version => Whole(q[j], f, b, h)
      /\ \A j \in T :
           \/ Whole(q[j], f, b, h)
           \/ \E i \in T : i < j /\ q[i].version = q[j].version - 1
           \/ (\A i \in T : i >= j) /\ (r = 0 \/ r = q[j].version - 1)
      /\ \/ \E i \in T : q[i].version = Len(h)
         \/ T = {} /\ (r = 0 \/ r = Len(h))
  BY DEF Chain
<1> HIDE DEF T
<1>3. /\ \A i \in T :
           /\ new[i].version \in 1 .. Len(h) /\ r <= new[i].version
           /\ Whole(new[i], f, b, h) \/ Single(new[i], f, b, h)
      /\ \A i, j \in T :
           i < j => /\ new[i].version <= new[j].version
                    /\ new[i].version = new[j].version => Whole(new[j], f, b, h)
      /\ \A j \in T :
           \/ Whole(new[j], f, b, h)
           \/ \E i \in T : i < j /\ new[i].version = new[j].version - 1
           \/ (\A i \in T : i >= j) /\ (r = 0 \/ r = new[j].version - 1)
      /\ \/ \E i \in T : new[i].version = Len(h)
         \/ T = {} /\ (r = 0 \/ r = Len(h))
  BY <1>1, <1>2
<1> QED BY <1>1, <1>3 DEF Chain

\* Nothing is on its way.
LEMMA ChainEmpty ==
    ASSUME NEW q, NEW f, NEW b, NEW h, NEW r, Targets(q, f, b) = {}, r = 0 \/ r = Len(h)
    PROVE  Chain(q, f, b, h, r)
BY DEF Chain

\* A message that writes to the file, at the end of the queue.
LEMMA TargetsAppended ==
    ASSUME NEW S, NEW q \in Seq(S), NEW f, NEW b, NEW m
    PROVE  Targets(Append(q, m), f, b)
             = Targets(q, f, b)
                 \cup (IF m.type = "WRITE" /\ Within(b, f, m.address) THEN {Len(q) + 1} ELSE {})
<1> DEFINE last == Len(q) + 1
           more == Append(q, m)
<1>1. /\ more[last] = m /\ \A i \in DOMAIN q : more[i] = q[i]
      /\ DOMAIN more = DOMAIN q \cup {last} /\ last \notin DOMAIN q
  BY Appended
<1> HIDE DEF last, more
<1> QED BY <1>1 DEF Targets, last, more

\* A message that brings the last state, maybe a new one.
LEMMA ChainAppended ==
    ASSUME NEW S, NEW q \in Seq(S), NEW f, NEW b, NEW C, NEW h \in Seq(C), NEW r \in Nat,
           Chain(q, f, b, h, r), r <= Len(h), h # <<>>,
           NEW new \in Seq(C),
           \/ new = h
           \/ Len(new) = Len(h) + 1 /\ \A v \in 1 .. Len(h) : new[v] = h[v],
           NEW m, m.type = "WRITE", Within(b, f, m.address), m.version = Len(new),
           Whole(m, f, b, new) \/ (new # h /\ Single(m, f, b, new))
    PROVE  Chain(Append(q, m), f, b, new, r)
<1> DEFINE T == Targets(q, f, b)
           last == Len(q) + 1
           more == Append(q, m)
           U == Targets(more, f, b)
<1>1. /\ more[last] = m /\ \A i \in T : more[i] = q[i]
      /\ last \in Nat /\ \A i \in T : i \in Nat /\ i < last
      /\ U = T \cup {last}
  <2>1. U = T \cup {last}
    BY TargetsAppended
  <2>2. /\ last \in Nat /\ more[last] = m
        /\ \A i \in DOMAIN q : i \in Nat /\ i < last /\ more[i] = q[i]
    BY Appended
  <2>3. T \subseteq DOMAIN q
    BY DEF Targets
  <2> HIDE DEF T, U, more, last
  <2> QED BY <2>1, <2>2, <2>3
<1>2. /\ \A i \in T :
           /\ q[i].version \in 1 .. Len(h) /\ r <= q[i].version
           /\ Whole(q[i], f, b, h) \/ Single(q[i], f, b, h)
      /\ \A i, j \in T :
           i < j => /\ q[i].version <= q[j].version
                    /\ q[i].version = q[j].version => Whole(q[j], f, b, h)
      /\ \A j \in T :
           \/ Whole(q[j], f, b, h)
           \/ \E i \in T : i < j /\ q[i].version = q[j].version - 1
           \/ (\A i \in T : i >= j) /\ (r = 0 \/ r = q[j].version - 1)
      /\ \/ \E i \in T : q[i].version = Len(h)
         \/ T = {} /\ (r = 0 \/ r = Len(h))
  BY DEF Chain
<1>3. Len(h) \in Nat \ {0} /\ Len(new) \in {Len(h), Len(h) + 1} /\ (new # h => Len(new) = Len(h) + 1)
  BY LenProperties, EmptySeq
<1>4. \A v \in 1 .. Len(h) : new[v] = h[v]
  OBVIOUS
<1> HIDE DEF T, U, more, last
<1>5. ASSUME NEW i \in T
      PROVE  /\ Whole(q[i], f, b, h) => Whole(q[i], f, b, new)
             /\ Single(q[i], f, b, h) => Single(q[i], f, b, new)
  <2> DEFINE v == q[i].version
  <2>1. v \in 1 .. Len(h)
    BY <1>2
  <2> HIDE DEF v
  <2>2. v >= 2 => v - 1 \in 1 .. Len(h)
    BY <1>3, <2>1
  <2>3. new[v] = h[v] /\ (v >= 2 => new[v-1] = h[v-1])
    BY <1>4, <2>1, <2>2
  <2> QED BY <2>3 DEF Whole, Single, v
<1>6. ASSUME NEW i \in U
      PROVE  /\ more[i].version \in 1 .. Len(new) /\ r <= more[i].version
             /\ Whole(more[i], f, b, new) \/ Single(more[i], f, b, new)
  BY <1>1, <1>2, <1>3, <1>5, SMTT(30)
<1>7. ASSUME NEW i \in U, NEW j \in U, i < j
      PROVE  /\ more[i].version <= more[j].version
             /\ more[i].version = more[j].version => Whole(more[j], f, b, new)
  <2>1. i \in T
    BY <1>1, <1>7
  <2>2. CASE j \in T
    BY <1>1, <1>2, <1>5, <1>7, <2>1, <2>2
  <2>3. CASE j = last
    <3>1. more[j].version = Len(new) /\ more[i].version \in 1 .. Len(h)
      BY <1>1, <1>2, <2>1, <2>3
    <3>2. new # h => more[i].version # more[j].version
      BY <1>3, <3>1
    <3> QED BY <1>1, <1>3, <2>3, <3>1, <3>2
  <2> QED BY <1>1, <2>2, <2>3
<1>8. ASSUME NEW j \in U
      PROVE  \/ Whole(more[j], f, b, new)
             \/ \E i \in U : i < j /\ more[i].version = more[j].version - 1
             \/ (\A i \in U : i >= j) /\ (r = 0 \/ r = more[j].version - 1)
  <2>1. CASE j \in T
    <3>1. CASE Whole(q[j], f, b, h)
      BY <1>1, <1>5, <2>1, <3>1
    <3>2. CASE \E i \in T : i < j /\ q[i].version = q[j].version - 1
      BY <1>1, <2>1, <3>2
    <3>3. CASE (\A i \in T : i >= j) /\ (r = 0 \/ r = q[j].version - 1)
      <4>1. last >= j
        BY <1>1, <2>1
      <4> QED BY <1>1, <2>1, <3>3, <4>1
    <3> QED BY <1>2, <2>1, <3>1, <3>2, <3>3
  <2>2. CASE j = last
    <3>1. CASE Whole(m, f, b, new)
      BY <1>1, <2>2, <3>1
    <3>2. CASE new # h
      <4>1. more[j].version - 1 = Len(h)
        BY <1>1, <1>3, <2>2, <3>2
      <4>2. CASE \E i \in T : q[i].version = Len(h)
        BY <1>1, <2>2, <4>1, <4>2
      <4>3. CASE T = {} /\ (r = 0 \/ r = Len(h))
        BY <1>1, <2>2, <4>1, <4>3
      <4> QED BY <1>2, <4>2, <4>3
    <3> QED BY <3>1, <3>2
  <2> QED BY <1>1, <2>1, <2>2
<1>9. \E i \in U : more[i].version = Len(new)
  BY <1>1
<1>10. Chain(more, f, b, new, r)
  BY <1>6, <1>7, <1>8, <1>9 DEF Chain, U
<1> QED BY <1>10 DEF more

\* The first message leaves the queue: if it writes to the file, its state has reached
\* the replica, or the replica has none yet.
LEMMA ChainTaken ==
    ASSUME NEW S, NEW q \in Seq(S), q # <<>>, NEW f, NEW b, NEW h, Len(h) \in Nat, NEW r \in Nat,
           Chain(q, f, b, h, r), NEW new \in Nat,
           IF 1 \in Targets(q, f, b) THEN new = q[1].version \/ new = 0 ELSE new = r
    PROVE  Chain(Tail(q), f, b, h, new)
<1> DEFINE T == Targets(q, f, b)
           rest == Tail(q)
           U == Targets(rest, f, b)
<1>1. /\ \A i \in U : i \in Nat \ {0} /\ i + 1 \in T /\ rest[i] = q[i+1]
      /\ \A i \in T : i \in Nat \ {0} /\ (i # 1 => i - 1 \in U /\ rest[i-1] = q[i])
  <2>1. /\ \A i \in DOMAIN rest : i \in Nat \ {0} /\ i + 1 \in DOMAIN q /\ rest[i] = q[i+1]
        /\ \A i \in DOMAIN q : i \in Nat \ {0} /\ (i # 1 => i - 1 \in DOMAIN rest)
    BY Taken
  <2> HIDE DEF rest
  <2>2. ASSUME NEW i \in U
        PROVE  i \in Nat \ {0} /\ i + 1 \in T /\ rest[i] = q[i+1]
    BY <2>1 DEF Targets
  <2>3. ASSUME NEW i \in T
        PROVE  i \in Nat \ {0} /\ (i # 1 => i - 1 \in U /\ rest[i-1] = q[i])
    <3>1. i \in DOMAIN q /\ q[i].type = "WRITE" /\ Within(b, f, q[i].address)
      BY DEF Targets
    <3>2. i \in Nat \ {0} /\ (i # 1 => i - 1 \in DOMAIN rest)
      BY <2>1, <3>1
    <3>3. i # 1 => rest[i-1] = q[(i-1)+1]
      BY <2>1, <3>2
    <3>4. (i-1)+1 = i
      BY <3>2
    <3>5. i # 1 => rest[i-1] = q[i]
      BY <3>3, <3>4
    <3> QED BY <3>1, <3>2, <3>5 DEF Targets
  <2> QED BY <2>2, <2>3
<1>2. \A i \in T :
           /\ q[i].version \in 1 .. Len(h) /\ r <= q[i].version
           /\ Whole(q[i], f, b, h) \/ Single(q[i], f, b, h)
  BY DEF Chain
<1>3. \A i, j \in T :
           i < j => /\ q[i].version <= q[j].version
                    /\ q[i].version = q[j].version => Whole(q[j], f, b, h)
  BY DEF Chain
<1>4. \A j \in T :
           \/ Whole(q[j], f, b, h)
           \/ \E i \in T : i < j /\ q[i].version = q[j].version - 1
           \/ (\A i \in T : i >= j) /\ (r = 0 \/ r = q[j].version - 1)
  BY DEF Chain
<1>5. \/ \E i \in T : q[i].version = Len(h)
      \/ T = {} /\ (r = 0 \/ r = Len(h))
  BY DEF Chain
<1>6. IF 1 \in T THEN new = q[1].version \/ new = 0 ELSE new = r
  OBVIOUS
<1> HIDE DEF T, U, rest
<1>7. ASSUME NEW i \in U
      PROVE  /\ rest[i].version \in 1 .. Len(h) /\ new <= rest[i].version
             /\ Whole(rest[i], f, b, h) \/ Single(rest[i], f, b, h)
  <2>1. i + 1 \in T /\ rest[i] = q[i+1] /\ 1 < i + 1
    BY <1>1
  <2>2. rest[i].version \in 1 .. Len(h) /\ r <= rest[i].version
    BY <1>2, <2>1
  <2>3. 1 \in T => q[1].version <= rest[i].version
    BY <1>3, <2>1
  <2>4. new <= rest[i].version
    BY <1>6, <2>2, <2>3
  <2> QED BY <1>2, <2>1, <2>2, <2>4
<1>8. ASSUME NEW i \in U, NEW j \in U, i < j
      PROVE  /\ rest[i].version <= rest[j].version
             /\ rest[i].version = rest[j].version => Whole(rest[j], f, b, h)
  <2>1. i + 1 \in T /\ rest[i] = q[i+1] /\ j + 1 \in T /\ rest[j] = q[j+1] /\ i + 1 < j + 1
    BY <1>1, <1>8
  <2> QED BY <1>3, <2>1
<1>9. ASSUME NEW j \in U
      PROVE  \/ Whole(rest[j], f, b, h)
             \/ \E i \in U : i < j /\ rest[i].version = rest[j].version - 1
             \/ (\A i \in U : i >= j) /\ (new = 0 \/ new = rest[j].version - 1)
  <2>1. j \in Nat \ {0} /\ j + 1 \in T /\ rest[j] = q[j+1]
    BY <1>1
  <2>2. CASE Whole(q[j+1], f, b, h)
    BY <2>1, <2>2
  <2>3. ASSUME NEW i \in T, i < j + 1, q[i].version = q[j+1].version - 1, i # 1
        PROVE  \E k \in U : k < j /\ rest[k].version = rest[j].version - 1
    <3>1. i \in Nat \ {0} /\ i - 1 \in U /\ rest[i-1] = q[i] /\ i - 1 < j
      BY <1>1, <2>1, <2>3
    <3> QED BY <2>1, <2>3, <3>1
  <2>4. CASE 1 \in T /\ q[1].version = q[j+1].version - 1 /\ ~ Whole(q[j+1], f, b, h)
    <3>1. CASE \E k \in T : 1 < k /\ k < j + 1
      <4>1. PICK k \in T : 1 < k /\ k < j + 1
        BY <3>1
      <4>2. k \in Nat /\ q[1].version <= q[k].version /\ q[k].version <= q[j+1].version
            /\ q[k].version # q[j+1].version
        BY <1>1, <1>3, <2>1, <2>4, <4>1
      <4>3. /\ q[1].version \in Nat /\ q[k].version \in Nat /\ q[j+1].version \in Nat
        BY <1>2, <2>1, <2>4, SMTT(30)
      <4>4. q[k].version = q[j+1].version - 1
        BY <2>4, <4>2, <4>3, SMTT(30)
      <4> QED BY <2>3, <4>1, <4>4
    <3>2. CASE ~ \E k \in T : 1 < k /\ k < j + 1
      <4>1. ASSUME NEW i \in U
            PROVE  i >= j
        <5>1. i + 1 \in T /\ i \in Nat \ {0}
          BY <1>1
        <5> QED BY <2>1, <3>2, <5>1
      <4> QED BY <1>6, <2>1, <2>4, <4>1
    <3> QED BY <3>1, <3>2
  <2>5. CASE (\A i \in T : i >= j + 1) /\ (r = 0 \/ r = q[j+1].version - 1)
    <3>1. 1 \notin T
      BY <2>1, <2>5
    <3>2. \A i \in U : i >= j
      BY <1>1, <2>1, <2>5
    <3> QED BY <1>6, <2>1, <2>5, <3>1, <3>2
  <2> QED BY <1>4, <2>1, <2>2, <2>3, <2>4, <2>5
<1>10. \/ \E i \in U : rest[i].version = Len(h)
       \/ U = {} /\ (new = 0 \/ new = Len(h))
  <2>1. CASE T = {} /\ (r = 0 \/ r = Len(h))
    BY <1>1, <1>6, <2>1
  <2>2. ASSUME NEW i \in T, q[i].version = Len(h)
        PROVE  \/ \E k \in U : rest[k].version = Len(h)
               \/ U = {} /\ (new = 0 \/ new = Len(h))
    <3>1. CASE i # 1
      BY <1>1, <2>2, <3>1
    <3>2. CASE i = 1 /\ U = {}
      BY <1>6, <2>2, <3>2
    <3>3. CASE i = 1 /\ U # {}
      <4>1. PICK k \in U : TRUE
        BY <3>3
      <4>2. k + 1 \in T /\ rest[k] = q[k+1] /\ 1 < k + 1
        BY <1>1
      <4>3. q[1].version <= q[k+1].version /\ q[k+1].version \in 1 .. Len(h)
        BY <1>2, <1>3, <2>2, <3>3, <4>2
      <4>4. rest[k].version = Len(h)
        BY <2>2, <3>3, <4>2, <4>3
      <4> QED BY <4>4
    <3> QED BY <3>1, <3>2, <3>3
  <2> QED BY <1>5, <2>1, <2>2
<1> QED BY <1>7, <1>8, <1>9, <1>10 DEF Chain, U, rest

\* The state the replica has after a write to it (Arrived).
After(m, f, r) == IF Len(m.data) = Length[f] \/ r # 0 THEN m.version ELSE r

\* The first message is one to the file; c is the replica's content.
Facing(q, f, b, h, r, c) ==
    /\ f \in File /\ b \in Nat /\ h \in Seq(Content(f)) /\ r \in Nat
    /\ Chain(q, f, b, h, r) /\ 1 \in Targets(q, f, b)
    /\ \A i \in Targets(q, f, b) : i \in Nat \ {0}
    /\ c \in Content(f)
    /\ r # 0 => c = h[r]
    /\ q[1].data \in Data /\ q[1].address \in Nat

\* What the first message makes of the replica.
LEMMA HeadApplied ==
    ASSUME NEW q, NEW f, NEW b, NEW h, NEW r, NEW c, Facing(q, f, b, h, r, c)
    PROVE  LET offset == q[1].address - b
               new == After(q[1], f, r)
           IN  /\ offset \in Nat /\ offset + Len(q[1].data) <= Length[f]
               /\ Overwrite(c, offset, q[1].data) \in Content(f)
               /\ new \in 0 .. Len(h) /\ r <= new /\ (new = q[1].version \/ new = 0)
               /\ new # 0 => Overwrite(c, offset, q[1].data) = h[new]
<1> USE DEF Facing
<1> DEFINE new == After(q[1], f, r)
<1> new = IF Len(q[1].data) = Length[f] \/ r # 0 THEN q[1].version ELSE r
  BY DEF After
<1> HIDE DEF new
<1> DEFINE m == q[1]
           offset == m.address - b
           T == Targets(q, f, b)
<1>1. /\ m.version \in 1 .. Len(h) /\ r <= m.version
      /\ Whole(m, f, b, h) \/ Single(m, f, b, h)
  BY DEF Chain
<1>2. \/ Whole(m, f, b, h)
      \/ \E i \in T : i < 1 /\ q[i].version = m.version - 1
      \/ (\A i \in T : i >= 1) /\ (r = 0 \/ r = m.version - 1)
  BY DEF Chain
<1>3. Within(b, f, m.address)
  BY DEF Targets
<1>4. \A i \in T : ~ (i < 1)
  OBVIOUS
<1>5. Len(h) \in Nat /\ Length[f] \in Nat \ {0}
  BY LenProperties, Files
<1>6. m.data \in Seq(0 .. MaxWrites) /\ Len(m.data) \in Nat \ {0} /\ m.address \in Nat
  <2>1. m.data \in Data /\ m.address \in Nat
    OBVIOUS
  <2> QED BY <2>1, DataBytes
<1>7. offset \in Nat /\ offset < Length[f]
  BY <1>3, <1>5, <1>6 DEF Within
<1> HIDE DEF T, m
<1>8. CASE Whole(m, f, b, h)
  <2>1. offset = 0 /\ Len(m.data) = Length[f] /\ m.data = h[m.version]
    BY <1>6, <1>8 DEF Whole
  <2>2. new = m.version
    BY <2>1 DEF m
  <2> HIDE DEF offset
  <2>3. Overwrite(c, offset, m.data) \in Content(f) /\ Overwrite(c, offset, m.data) = m.data
    <3>1. offset + Len(m.data) <= Length[f]
      BY <1>5, <2>1
    <3> QED BY <1>6, <1>7, <2>1, <3>1, OverwriteContent
  <2>4. offset + Len(m.data) <= Length[f]
    BY <1>5, <2>1
  <2> QED BY <1>1, <1>5, <1>7, <2>1, <2>2, <2>3, <2>4 DEF m, offset, new
<1>9. CASE ~ Whole(m, f, b, h)
  <2>1. /\ Len(m.data) = 1 /\ m.version >= 2 /\ Length[f] > 1
        /\ h[m.version] = Overwrite(h[m.version - 1], offset, m.data)
    BY <1>1, <1>9 DEF Single
  <2>2. r = 0 \/ r = m.version - 1
    BY <1>2, <1>4, <1>9
  <2>3. new = IF r # 0 THEN m.version ELSE 0
    BY <2>1 DEF m
  <2> HIDE DEF offset
  <2>4. offset + Len(m.data) <= Length[f]
    BY <1>5, <1>7, <2>1
  <2>5. Overwrite(c, offset, m.data) \in Content(f)
    BY <1>6, <1>7, <2>4, OverwriteContent
  <2>6. new # 0 => Overwrite(c, offset, m.data) = h[new]
    BY <2>1, <2>2, <2>3
  <2>7. new \in 0 .. Len(h) /\ r <= new /\ (new = m.version \/ new = 0)
    BY <1>1, <1>5, <2>3
  <2> QED BY <1>7, <2>4, <2>5, <2>6, <2>7 DEF m, offset, new
<1> QED BY <1>8, <1>9 DEF new

-----------------------------------------------------------------------------
(* All the files of one direction. *)

\* A byte belongs to one file.
Separate(opened, address) ==
    \A f, g \in opened : f # g => Apart(address[f], f, address[g], g)

LEMMA OneFile ==
    ASSUME NEW f \in File, NEW g \in File, NEW b \in Nat, NEW c \in Nat, NEW a \in Nat,
           Apart(b, f, c, g), Within(b, f, a)
    PROVE  ~ Within(c, g, a)
BY Files DEF Apart, Within

\* Nothing is written on the way, and no replica has a state.
LEMMA CarriedEmpty ==
    ASSUME NEW q, NEW owned, NEW opened, NEW address, NEW states, NEW held,
           opened \subseteq owned, \A f \in owned : held[f] = 0,
           \A i \in DOMAIN q : q[i].type # "WRITE"
    PROVE  Carried(q, owned, opened, address, states, held)
<1>1. \A f \in opened : Targets(q, f, address[f]) = {}
  BY DEF Targets
<1>2. \A f \in opened : Chain(q, f, address[f], states[f], held[f])
  BY <1>1, ChainEmpty
<1> QED BY <1>2 DEF Carried

\* What else is sent does not matter to the writes ...
LEMMA CarriedExtends ==
    ASSUME NEW q, NEW owned, NEW opened, NEW address, NEW states, NEW held,
           Carried(q, owned, opened, address, states, held),
           NEW longer, NEW new, Extends(longer, q, new), \A m \in new : m.type # "WRITE"
    PROVE  Carried(longer, owned, opened, address, states, held)
<1>1. ASSUME NEW f \in opened
      PROVE  Chain(longer, f, address[f], states[f], held[f])
  <2>1. Targets(longer, f, address[f]) = Targets(q, f, address[f])
    BY DEF Targets, Extends
  <2>2. \A i \in Targets(q, f, address[f]) : longer[i] = q[i]
    BY DEF Targets, Extends
  <2>3. Chain(q, f, address[f], states[f], held[f])
    BY DEF Carried
  <2> QED BY <2>1, <2>2, <2>3, ChainSame
<1>2. \A i \in DOMAIN longer :
        longer[i].type = "WRITE" => \E f \in opened : Within(address[f], f, longer[i].address)
  BY DEF Carried, Extends
<1> QED BY <1>1, <1>2 DEF Carried

LEMMA CarriedBehind ==
    ASSUME NEW S, NEW q \in Seq(S), NEW owned, NEW opened, NEW address, NEW states, NEW held,
           Carried(q, owned, opened, address, states, held), NEW m, m.type # "WRITE"
    PROVE  Carried(Append(q, m), owned, opened, address, states, held)
<1>1. Extends(Append(q, m), q, {m})
  <2> DEFINE more == Append(q, m)
  <2>1. /\ more[Len(q) + 1] = m /\ \A i \in DOMAIN q : more[i] = q[i]
        /\ DOMAIN more = DOMAIN q \cup {Len(q) + 1}
    BY Appended
  <2> HIDE DEF more
  <2> QED BY <2>1 DEF Extends, more
<1> QED BY <1>1, CarriedExtends

\* ... and what else is read does not either.
LEMMA CarriedTail ==
    ASSUME NEW S, NEW q \in Seq(S), q # <<>>,
           NEW owned, NEW opened, NEW address, NEW states, NEW held,
           Carried(q, owned, opened, address, states, held), q[1].type # "WRITE",
           \A f \in owned : held[f] \in Nat /\ Len(states[f]) \in Nat
    PROVE  Carried(Tail(q), owned, opened, address, states, held)
<1> DEFINE rest == Tail(q)
<1>1. \A i \in DOMAIN rest : i + 1 \in DOMAIN q /\ rest[i] = q[i+1]
  BY Taken
<1>2. ASSUME NEW f \in opened
      PROVE  Chain(rest, f, address[f], states[f], held[f])
  <2>1. Chain(q, f, address[f], states[f], held[f]) /\ f \in owned
    BY DEF Carried
  <2>2. 1 \notin Targets(q, f, address[f])
    BY DEF Targets
  <2> QED BY <2>1, <2>2, ChainTaken
<1> HIDE DEF rest
<1>3. \A i \in DOMAIN rest :
        rest[i].type = "WRITE" => \E f \in opened : Within(address[f], f, rest[i].address)
  BY <1>1 DEF Carried
<1> QED BY <1>2, <1>3 DEF Carried, rest

\* A write is read: its state reaches the replica, or the replica has none yet.
LEMMA CarriedTaken ==
    ASSUME NEW S, NEW q \in Seq(S), q # <<>>,
           NEW owned, owned \subseteq File, NEW opened, NEW address, NEW states, NEW held,
           Carried(q, owned, opened, address, states, held),
           \A g \in owned : held[g] \in Nat /\ Len(states[g]) \in Nat,
           \A g \in opened : address[g] \in Nat,
           Separate(opened, address),
           q[1].type = "WRITE", q[1].address \in Nat,
           NEW f \in opened, Within(address[f], f, q[1].address),
           NEW after, \A g \in owned : g # f => after[g] = held[g],
           after[f] \in Nat, after[f] = q[1].version \/ after[f] = 0
    PROVE  Carried(Tail(q), owned, opened, address, states, after)
<1> DEFINE rest == Tail(q)
<1>0. opened \subseteq owned
  BY DEF Carried
<1>1. \A i \in DOMAIN rest : i + 1 \in DOMAIN q /\ rest[i] = q[i+1]
  BY Taken
<1>2. ASSUME NEW g \in opened
      PROVE  Chain(rest, g, address[g], states[g], after[g])
  <2>1. Chain(q, g, address[g], states[g], held[g]) /\ g \in owned /\ f \in owned
    BY <1>0 DEF Carried
  <2>2. CASE g = f
    <3>1. 1 \in Targets(q, f, address[f])
      BY Taken DEF Targets
    <3> QED BY <2>1, <2>2, <3>1, ChainTaken
  <2>3. CASE g # f
    <3>1. ~ Within(address[g], g, q[1].address)
      <4>1. Apart(address[f], f, address[g], g) /\ f \in File /\ g \in File
        BY <2>1, <2>3 DEF Separate
      <4> QED BY <4>1, OneFile
    <3>2. 1 \notin Targets(q, g, address[g])
      BY <3>1 DEF Targets
    <3>3. after[g] = held[g]
      BY <2>1, <2>3
    <3>4. held[g] \in Nat /\ Len(states[g]) \in Nat
      BY <2>1
    <3> QED BY <2>1, <3>2, <3>3, <3>4, ChainTaken
  <2> QED BY <2>2, <2>3
<1> HIDE DEF rest
<1>3. \A i \in DOMAIN rest :
        rest[i].type = "WRITE" => \E g \in opened : Within(address[g], g, rest[i].address)
  BY <1>1 DEF Carried
<1>4. \A g \in owned \ opened : after[g] = 0
  BY DEF Carried
<1> QED BY <1>0, <1>2, <1>3, <1>4 DEF Carried, rest

\* A write reaches the other files' chains as any other message does.
LEMMA ChainOther ==
    ASSUME NEW S, NEW q \in Seq(S), NEW g, NEW b, NEW h, NEW r, Chain(q, g, b, h, r),
           NEW m, ~ Within(b, g, m.address)
    PROVE  Chain(Append(q, m), g, b, h, r)
<1> DEFINE more == Append(q, m)
<1>1. Targets(more, g, b) = Targets(q, g, b)
  <2>1. ~ (m.type = "WRITE" /\ Within(b, g, m.address))
    OBVIOUS
  <2>2. more = Append(q, m)
    OBVIOUS
  <2> HIDE DEF more
  <2>3. Targets(more, g, b) = Targets(q, g, b) \cup {}
    BY <2>1, <2>2, TargetsAppended
  <2> QED BY <2>3
<1>2. \A i \in Targets(q, g, b) : more[i] = q[i]
  BY Appended DEF Targets
<1> QED BY <1>1, <1>2, ChainSame

\* A file is opened, maybe once more.
LEMMA CarriedOpened ==
    ASSUME NEW q, NEW owned, owned \subseteq File,
           NEW opened, NEW address, NEW states, NEW held,
           Carried(q, owned, opened, address, states, held),
           NEW f \in owned, Separate(opened \cup {f}, address),
           \A g \in opened \cup {f} : address[g] \in Nat,
           \A i \in DOMAIN q : q[i].type = "WRITE" => q[i].address \in Nat
    PROVE  Carried(q, owned, opened \cup {f}, address, states, held)
<1>1. CASE f \in opened
  <2>1. opened \cup {f} = opened
    BY <1>1
  <2> QED BY <2>1
<1>2. CASE f \notin opened
  <2>1. held[f] = 0
    BY <1>2 DEF Carried
  <2>2. Targets(q, f, address[f]) = {}
    <3>1. SUFFICES ASSUME NEW i \in DOMAIN q, q[i].type = "WRITE",
                          Within(address[f], f, q[i].address)
                   PROVE  FALSE
      BY DEF Targets
    <3>2. PICK g \in opened : Within(address[g], g, q[i].address)
      BY <3>1 DEF Carried
    <3>3. g # f /\ g \in File /\ q[i].address \in Nat
      BY <1>2, <3>1, <3>2 DEF Carried
    <3>4. Apart(address[f], f, address[g], g)
      BY <3>3 DEF Separate
    <3> QED BY <3>1, <3>2, <3>3, <3>4, OneFile
  <2>3. Chain(q, f, address[f], states[f], held[f])
    BY <2>1, <2>2, ChainEmpty
  <2> QED BY <2>3 DEF Carried
<1> QED BY <1>1, <1>2

\* The owner sends the whole file.
LEMMA CarriedWhole ==
    ASSUME NEW S, NEW q \in Seq(S), NEW owned, owned \subseteq File,
           NEW opened, NEW address, NEW states, NEW held,
           Carried(q, owned, opened, address, states, held),
           NEW f \in opened, Separate(opened, address),
           \A g \in opened : address[g] \in Nat,
           states[f] \in Seq(Content(f)), states[f] # <<>>, held[f] \in 0 .. Len(states[f]),
           NEW m, m = Write(address[f], states[f][Len(states[f])], Len(states[f]))
    PROVE  Carried(Append(q, m), owned, opened, address, states, held)
<1> DEFINE more == Append(q, m)
           h == states[f]
           n == Len(h)
<1>0. opened \subseteq owned
  BY DEF Carried
<1>1. /\ m.type = "WRITE" /\ m.address = address[f] /\ m.data = h[n] /\ m.version = n
      /\ f \in File /\ Length[f] \in Nat \ {0} /\ address[f] \in Nat
  BY <1>0, Files DEF Write
<1>2. Within(address[f], f, m.address)
  BY <1>1 DEF Within
<1>3. n \in Nat \ {0} /\ h[n] \in Content(f) /\ Len(h[n]) = Length[f]
  <2>1. n \in Nat \ {0}
    BY LenProperties, EmptySeq
  <2>2. h[n] \in Content(f)
    BY <2>1, ElementOfSeq
  <2>3. h[n] \in [1 .. Length[f] -> 0 .. MaxWrites]
    BY <2>2 DEF Content
  <2> HIDE DEF h
  <2>4. Len(h[n]) = Length[f]
    BY <1>1, <2>3
  <2> QED BY <2>1, <2>2, <2>4
<1>4. Chain(more, f, address[f], h, held[f])
  <2>1. Whole(m, f, address[f], h)
    BY <1>1, <1>3 DEF Whole
  <2>2. Chain(q, f, address[f], h, held[f])
    BY DEF Carried
  <2>3. held[f] \in Nat /\ held[f] <= Len(h)
    BY <1>3
  <2>4. h \in Seq(Content(f)) /\ h # <<>>
    OBVIOUS
  <2> HIDE DEF h
  <2> QED BY <1>1, <1>2, <2>1, <2>2, <2>3, <2>4, ChainAppended DEF n
<1>5. ASSUME NEW g \in opened, g # f
      PROVE  Chain(more, g, address[g], states[g], held[g])
  <2>1. ~ Within(address[g], g, m.address)
    <3>1. Apart(address[f], f, address[g], g) /\ g \in File
      BY <1>0, <1>5 DEF Separate
    <3> QED BY <1>1, <1>2, <3>1, OneFile
  <2>2. Chain(q, g, address[g], states[g], held[g])
    BY DEF Carried
  <2> QED BY <2>1, <2>2, ChainOther
<1>6. \A i \in DOMAIN more :
        more[i].type = "WRITE" => \E g \in opened : Within(address[g], g, more[i].address)
  <2>1. /\ more[Len(q) + 1] = m /\ \A i \in DOMAIN q : more[i] = q[i]
        /\ DOMAIN more = DOMAIN q \cup {Len(q) + 1}
    BY Appended
  <2> HIDE DEF more
  <2> QED BY <1>2, <2>1 DEF Carried
<1>7. \A g \in opened : Chain(more, g, address[g], states[g], held[g])
  BY <1>4, <1>5
<1> HIDE DEF more, h, n
<1> QED BY <1>0, <1>6, <1>7 DEF Carried, more

\* The new state of a file that the owner writes a byte to.
NewState(f, h, offset) == Overwrite(h[Len(h)], offset, <<Len(h)>>)

LEMMA NewStateContent ==
    ASSUME NEW f \in File, NEW h \in Seq(Content(f)), h # <<>>, Len(h) <= MaxWrites,
           NEW offset \in 0 .. Length[f] - 1
    PROVE  /\ NewState(f, h, offset) \in Content(f)
           /\ <<Len(h)>> \in Data
           /\ LET new == Append(h, NewState(f, h, offset))
              IN  /\ new \in Seq(Content(f)) /\ Len(new) = Len(h) + 1
                  /\ new[Len(h) + 1] = NewState(f, h, offset)
                  /\ \A v \in 1 .. Len(h) : new[v] = h[v]
<1> DEFINE n == Len(h)
           value == <<n>>
           c == NewState(f, h, offset)
<1>1. n \in Nat \ {0} /\ n \in 0 .. MaxWrites /\ h[n] \in Content(f) /\ Length[f] \in Nat \ {0}
  <2>1. n \in Nat \ {0}
    BY LenProperties, EmptySeq
  <2>2. n \in 0 .. MaxWrites
    BY <2>1
  <2>3. h[n] \in Content(f)
    BY <2>1, ElementOfSeq
  <2> QED BY <2>1, <2>2, <2>3, Files
<1>2. value \in Seq(0 .. MaxWrites) /\ Len(value) = 1
  <2> HIDE DEF n
  <2>1. n \in 0 .. MaxWrites
    BY <1>1
  <2> DEFINE B == 0 .. MaxWrites
  <2> HIDE DEF B
  <2>2. n \in B
    BY <2>1 DEF B
  <2>3. value \in Seq(B) /\ Len(value) = 1
    BY <2>2
  <2> QED BY <2>3 DEF B
<1>3. c \in Content(f)
  <2>1. offset \in Nat /\ offset + Len(value) <= Length[f]
    BY <1>1, <1>2
  <2> HIDE DEF n, value
  <2> QED BY <1>1, <1>2, <2>1, OverwriteContent DEF NewState, n, value
<1>4. value \in Data
  <2>1. value \in [1 .. 1 -> 0 .. MaxWrites]
    <3> HIDE DEF n
    <3> QED BY <1>1
  <2> QED BY <2>1 DEF Data
<1> HIDE DEF c
<1>5. /\ Append(h, c) \in Seq(Content(f)) /\ Len(Append(h, c)) = Len(h) + 1
      /\ Append(h, c)[Len(h) + 1] = c
      /\ \A v \in 1 .. Len(h) : Append(h, c)[v] = h[v]
  BY <1>3, AppendProperties
<1> QED BY <1>3, <1>4, <1>5 DEF c

\* The owner writes a byte to an open file, and sends it.
LEMMA CarriedWritten ==
    ASSUME NEW S, NEW q \in Seq(S), NEW owned, owned \subseteq File,
           NEW opened, NEW address, NEW states, NEW held,
           Carried(q, owned, opened, address, states, held),
           NEW f \in opened, Separate(opened, address),
           \A g \in opened : address[g] \in Nat,
           states[f] \in Seq(Content(f)), states[f] # <<>>, held[f] \in 0 .. Len(states[f]),
           Len(states[f]) <= MaxWrites, NEW offset \in 0 .. Length[f] - 1,
           NEW m, m = Write(address[f] + offset, <<Len(states[f])>>, Len(states[f]) + 1),
           NEW after, \A g \in owned : g # f => after[g] = states[g],
           after[f] = Append(states[f], NewState(f, states[f], offset))
    PROVE  Carried(Append(q, m), owned, opened, address, after, held)
<1> DEFINE more == Append(q, m)
           h == states[f]
           n == Len(h)
           new == after[f]
           b == address[f]
<1>0. opened \subseteq owned
  BY DEF Carried
<1>1. /\ m.type = "WRITE" /\ m.address = b + offset /\ m.data = <<n>> /\ m.version = n + 1
      /\ f \in File /\ Length[f] \in Nat \ {0} /\ b \in Nat /\ offset \in Nat
      /\ offset < Length[f]
  BY <1>0, Files DEF Write
<1>2. Within(b, f, m.address) /\ m.address - b = offset /\ m.address \in Nat
  <2> HIDE DEF b
  <2> QED BY <1>1, SMTT(30) DEF Within
<1>3. /\ n \in Nat \ {0} /\ h \in Seq(Content(f)) /\ h # <<>>
      /\ new \in Seq(Content(f)) /\ Len(new) = n + 1
      /\ new[n + 1] = NewState(f, h, offset) /\ \A v \in 1 .. n : new[v] = h[v]
  <2>1. n \in Nat \ {0}
    BY LenProperties, EmptySeq
  <2> QED BY <1>1, <2>1, NewStateContent, SMTT(30)
<1>4. Chain(more, f, b, new, held[f])
  <2>1. Len(m.data) = 1
    <3> HIDE DEF n
    <3> QED BY <1>1
  <2>2. h[n] \in Content(f)
    BY <1>3, ElementOfSeq
  <2>3. CASE Length[f] = 1
    <3>1. offset = 0
      BY <1>1, <2>3
    <3>2. NewState(f, h, offset) = m.data
      <4>1. <<n>> \in Seq(0 .. MaxWrites)
        <5>1. <<n>> \in Data
          BY <1>1, <1>3, NewStateContent
        <5> QED BY <5>1, DataBytes
      <4>2. offset + Len(m.data) <= Length[f] /\ Len(m.data) = Length[f]
        <5> DEFINE d == Len(m.data)
        <5>1. d = 1
          BY <2>1
        <5> HIDE DEF d
        <5>2. offset + d <= Length[f] /\ d = Length[f]
          BY <2>3, <3>1, <5>1
        <5> QED BY <5>2 DEF d
      <4> HIDE DEF h, n
      <4> QED BY <1>1, <2>2, <4>1, <4>2, OverwriteContent DEF NewState, n
    <3>3. Whole(m, f, b, new)
      <4>1. m.address = b
        <5> HIDE DEF b
        <5> QED BY <1>1, <3>1
      <4> HIDE DEF n, h, new, b
      <4> QED BY <1>1, <1>3, <2>1, <2>3, <3>2, <4>1 DEF Whole
    <3>4. Chain(q, f, b, h, held[f]) /\ held[f] \in Nat /\ held[f] <= n
      BY <1>3 DEF Carried
    <3>5. m.version = Len(new)
      BY <1>1, <1>3
    <3> HIDE DEF h, new, b, n
    <3> QED BY <1>1, <1>2, <1>3, <3>3, <3>4, <3>5, ChainAppended DEF n
  <2>4. CASE Length[f] # 1
    <3>1. Single(m, f, b, new)
      <4>1. Length[f] > 1 /\ m.version >= 2 /\ m.version - 1 = n
        BY <1>1, <1>3, <2>4, SMTT(30)
      <4>2. new[m.version] = NewState(f, h, offset) /\ new[m.version - 1] = h[n]
        <5> HIDE DEF n, h, new, b
        <5>1. n \in 1 .. n
          BY <1>3
        <5>2. new[n] = h[n]
          BY <1>3, <5>1
        <5> QED BY <1>1, <1>3, <4>1, <5>2
      <4>3. NewState(f, h, offset) = Overwrite(h[n], offset, m.data)
        BY <1>1 DEF NewState
      <4> HIDE DEF h, new, b, n
      <4> QED BY <1>2, <2>1, <4>1, <4>2, <4>3 DEF Single
    <3>2. Chain(q, f, b, h, held[f]) /\ held[f] \in Nat /\ held[f] <= n
      BY <1>3 DEF Carried
    <3>3. m.version = Len(new) /\ new # h
      BY <1>1, <1>3
    <3> HIDE DEF h, new, b, n
    <3> QED BY <1>1, <1>2, <1>3, <3>1, <3>2, <3>3, ChainAppended DEF n
  <2> QED BY <2>3, <2>4
<1>5. ASSUME NEW g \in opened, g # f
      PROVE  Chain(more, g, address[g], after[g], held[g])
  <2>1. ~ Within(address[g], g, m.address)
    <3>1. Apart(address[f], f, address[g], g) /\ g \in File
      BY <1>0, <1>5 DEF Separate
    <3> QED BY <1>1, <1>2, <3>1, OneFile
  <2>2. Chain(q, g, address[g], states[g], held[g])
    BY DEF Carried
  <2>3. after[g] = states[g]
    BY <1>0, <1>5
  <2> QED BY <2>1, <2>2, <2>3, ChainOther
<1>6. \A i \in DOMAIN more :
        more[i].type = "WRITE" => \E g \in opened : Within(address[g], g, more[i].address)
  <2>1. /\ more[Len(q) + 1] = m /\ \A i \in DOMAIN q : more[i] = q[i]
        /\ DOMAIN more = DOMAIN q \cup {Len(q) + 1}
    BY Appended
  <2> HIDE DEF more
  <2> QED BY <1>2, <2>1 DEF Carried
<1>7. \A g \in opened : Chain(more, g, address[g], after[g], held[g])
  BY <1>4, <1>5
<1>8. \A g \in owned \ opened : held[g] = 0
  BY DEF Carried
<1> HIDE DEF more, h, n, new, b
<1> QED BY <1>0, <1>6, <1>7, <1>8 DEF Carried, more

\* The owner writes to a file that is not open, or has no connection to send it on.
LEMMA CarriedSilent ==
    ASSUME NEW q, NEW owned, NEW opened, NEW address, NEW states, NEW held,
           Carried(q, owned, opened, address, states, held),
           NEW f \in owned, f \in opened => held[f] = 0 /\ \A i \in DOMAIN q : q[i].type # "WRITE",
           NEW after, \A g \in owned : g # f => after[g] = states[g]
    PROVE  Carried(q, owned, opened, address, after, held)
<1>0. opened \subseteq owned
  BY DEF Carried
<1>1. ASSUME NEW g \in opened
      PROVE  Chain(q, g, address[g], after[g], held[g])
  <2>1. CASE g # f
    BY <1>0, <2>1 DEF Carried
  <2>2. CASE g = f
    <3>1. Targets(q, f, address[f]) = {} /\ held[f] = 0
      BY <2>2 DEF Targets
    <3> QED BY <2>2, <3>1, ChainEmpty
  <2> QED BY <2>1, <2>2
<1> QED BY <1>0, <1>1 DEF Carried
-----------------------------------------------------------------------------
(* The files. *)

LEMMA SystemFiles ==
    /\ Local \subseteq File /\ Requested \subseteq File /\ Announced \subseteq File
    /\ Requested \subseteq Announced /\ Mirrored = Local \cup Requested
    /\ \A f \in Local : f \notin Announced /\ f \notin Requested
    /\ DOMAIN NewObject = Announced
    /\ \A f \in Announced :
         /\ NewObject[f] \in File /\ NewObject[f] \notin Local
         /\ NewObject[f] \notin Requested /\ NewObject[f] \notin Announced
         /\ Length[NewObject[f]] = Length[f]
    /\ \A f, g \in Announced : NewObject[f] = NewObject[g] => f = g
    /\ \A f \in File : Length[f] \in Nat \ {0}
<1>1. /\ Local \subseteq File /\ Requested \subseteq File
      /\ \A f \in File : Length[f] \in Nat \ {0}
  BY NodeFiles
<1>2. /\ Requested \subseteq Announced /\ Announced \cap Local = {} /\ Announced \subseteq File
      /\ NewObject \in [Announced -> File \ (Mirrored \cup Announced)]
      /\ \A f \in Announced : Length[NewObject[f]] = Length[f] /\ Name[NewObject[f]] = Name[f]
      /\ \A f, g \in Announced : Name[f] = Name[g] => f = g
  BY Server
<1>3. ASSUME NEW f \in Announced, NEW g \in Announced, NewObject[f] = NewObject[g]
      PROVE  f = g
  BY <1>2, <1>3
<1>4. \A f \in Announced : NewObject[f] \in File \ (Mirrored \cup Announced)
  BY <1>2
<1>5. DOMAIN NewObject = Announced
  BY <1>2
<1> QED BY <1>1, <1>2, <1>3, <1>4, <1>5 DEF Mirrored

\* The addresses of the server's files.
LEMMA ServerPlaces ==
    /\ \A f \in Announced : \A a \in ServerAddresses[f] :
         a \in Nat /\ a + Length[f] <= USER_DATA_END /\ a \in UserAddress /\ a \in Address
    /\ \A f, g \in Announced : f # g =>
         \A a \in ServerAddresses[f], b \in ServerAddresses[g] : Apart(a, f, b, g)
    /\ USER_DATA_END \in Nat /\ 4 * USER_DATA_END < WordSize /\ WordSize \in Nat
<1>1. USER_DATA_END \in Nat /\ 4 * USER_DATA_END < WordSize /\ WordSize \in Nat
  BY AddressAreas
<1>2. ASSUME NEW f \in Announced, NEW a \in ServerAddresses[f]
      PROVE  a \in Nat /\ a + Length[f] <= USER_DATA_END /\ a \in UserAddress /\ a \in Address
  <2>1. a \in 0 .. USER_DATA_END /\ a + Length[f] <= USER_DATA_END
    BY Server
  <2>2. Length[f] \in Nat \ {0}
    BY SystemFiles
  <2> QED BY <1>1, <2>1, <2>2 DEF UserAddress, Address
<1> QED BY <1>1, <1>2, ServerFiles DEF Apart

\* The messages on their way.
LEMMA SystemMessages ==
    /\ \A m \in ClientMessage :
         /\ m.type = "INFO" => m \in InfoMessage(Local) /\ m.file \in Local
         /\ m.type = "OPEN" => m \in OpenMessage
         /\ m.type = "WRITE" => m \in WriteMessage(Nat)
         /\ m # Greeting => m.type \in {"INFO", "OPEN", "WRITE"}
    /\ \A m \in ServerMessage :
         /\ m.type = "INFO" => m \in InfoMessage(Announced) /\ m.file \in Announced
         /\ m.type = "OPEN" => m \in OpenMessage
         /\ m.type = "WRITE" => m \in WriteMessage(Nat)
         /\ m # Acknowledge => m.type \in {"INFO", "OPEN", "WRITE"}
    /\ Greeting.type = "GREETING" /\ Acknowledge.type = "ACK"
    /\ \A m \in WriteMessage(Nat) :
         m.address \in UserAddress /\ m.address \in Nat /\ m.data \in Data /\ m.version \in Nat
    /\ \A m \in OpenMessage : m.address \in UserAddress /\ m.address \in Nat
    /\ \A files : \A m \in InfoMessage(files) :
         m.file \in files /\ m.address \in UserAddress /\ m.address \in Nat
    /\ InfoMessage(Local) \subseteq InfoMessage(Mirrored \cup DOMAIN NewObject)
    /\ InfoMessage(Announced) \subseteq InfoMessage(Mirrored \cup DOMAIN NewObject)
<1>1. Greeting.type = "GREETING" /\ Acknowledge.type = "ACK"
  BY DEF Greeting, Acknowledge
<1>2. \A m \in WriteMessage(Nat) :
         /\ m.type = "WRITE"
         /\ m.address \in UserAddress /\ m.address \in Nat /\ m.data \in Data /\ m.version \in Nat
  BY Kinds DEF UserAddress
<1>3. \A m \in OpenMessage : m.type = "OPEN" /\ m.address \in UserAddress /\ m.address \in Nat
  BY Kinds DEF UserAddress
<1>4. \A files : \A m \in InfoMessage(files) :
         /\ m.type = "INFO"
         /\ m.file \in files /\ m.address \in UserAddress /\ m.address \in Nat
  BY DEF InfoMessage, UserAddress
<1>5. InfoMessage(Local) \subseteq InfoMessage(Mirrored \cup DOMAIN NewObject)
  BY DEF InfoMessage, Mirrored
<1>6. InfoMessage(Announced) \subseteq InfoMessage(Mirrored \cup DOMAIN NewObject)
  <2>1. Announced = DOMAIN NewObject
    BY SystemFiles
  <2> QED BY <2>1 DEF InfoMessage
<1>7. ASSUME NEW m \in ClientMessage
      PROVE  /\ m.type = "INFO" => m \in InfoMessage(Local) /\ m.file \in Local
             /\ m.type = "OPEN" => m \in OpenMessage
             /\ m.type = "WRITE" => m \in WriteMessage(Nat)
             /\ m # Greeting => m.type \in {"INFO", "OPEN", "WRITE"}
  <2> \/ m = Greeting \/ m \in InfoMessage(Local) \/ m \in OpenMessage \/ m \in WriteMessage(Nat)
    BY DEF ClientMessage
  <2> QED BY <1>1, <1>2, <1>3, <1>4
<1>8. ASSUME NEW m \in ServerMessage
      PROVE  /\ m.type = "INFO" => m \in InfoMessage(Announced) /\ m.file \in Announced
             /\ m.type = "OPEN" => m \in OpenMessage
             /\ m.type = "WRITE" => m \in WriteMessage(Nat)
             /\ m # Acknowledge => m.type \in {"INFO", "OPEN", "WRITE"}
  <2> \/ m = Acknowledge \/ m \in InfoMessage(Announced) \/ m \in OpenMessage
      \/ m \in WriteMessage(Nat)
    BY DEF ServerMessage
  <2> QED BY <1>1, <1>2, <1>3, <1>4
<1> QED BY <1>1, <1>2, <1>3, <1>4, <1>5, <1>6, <1>7, <1>8

\* What is sent.
LEMMA SystemSends ==
    /\ Greeting \in ClientMessage /\ Acknowledge \in ServerMessage
    /\ \A f \in Local, a \in UserAddress :
         Info(f, a) \in ClientMessage /\ Info(f, a) \in InfoMessage(Local)
    /\ \A f \in Announced, a \in UserAddress : Info(f, a) \in ServerMessage
    /\ \A a \in UserAddress :
         Open(a) \in ClientMessage /\ Open(a) \in ServerMessage /\ Open(a) \in OpenMessage
    /\ \A a \in UserAddress, data \in Data, v \in Nat :
         /\ Write(a, data, v) \in ClientMessage /\ Write(a, data, v) \in ServerMessage
         /\ Write(a, data, v) \in WriteMessage(Nat)
    /\ \A f \in Mirrored : Content(f) \subseteq Data
<1>1. \A f \in Local, a \in UserAddress : Info(f, a) \in InfoMessage(Local)
  BY DEF InfoMessage, Info
<1>2. \A f \in Announced, a \in UserAddress : Info(f, a) \in InfoMessage(Announced)
  BY DEF InfoMessage, Info
<1>3. \A a \in UserAddress : Open(a) \in OpenMessage
  BY DEF OpenMessage, Open
<1>4. \A a \in UserAddress, data \in Data, v \in Nat : Write(a, data, v) \in WriteMessage(Nat)
  BY DEF WriteMessage, Write
<1>5. \A f \in Mirrored : Content(f) \subseteq Data
  BY DEF Content, Data
<1> QED BY <1>1, <1>2, <1>3, <1>4, <1>5 DEF ClientMessage, ServerMessage

\* Who reads a message reads what was sent.
LEMMA SystemReads ==
    /\ \A m \in ClientMessage \cup ServerMessage :
         m.type = "INFO" => Received(m) = [type |-> "INFO", name |-> Name[m.file],
                                           length |-> Length[m.file], address |-> m.address]
    /\ \A m \in ClientMessage \cup ServerMessage :
         m.type \in {"OPEN", "WRITE"} => Received(m) = m
<1>1. ASSUME NEW m \in ClientMessage \cup ServerMessage, m.type = "INFO"
      PROVE  m \in InfoMessage(Mirrored \cup DOMAIN NewObject)
  BY <1>1, SystemMessages
<1>2. ASSUME NEW m \in ClientMessage \cup ServerMessage, m.type \in {"OPEN", "WRITE"}
      PROVE  m \in OpenMessage \cup WriteMessage(Nat)
  BY <1>2, SystemMessages
<1> QED BY <1>1, <1>2, MessageRoundTrip

\* The file that the client takes for the one announced.
LEMMA ObjectOf ==
    ASSUME NEW f \in Announced, NEW m, m.name = Name[f], m.length = Length[f]
    PROVE  /\ Object(m) \in {f, NewObject[f]}
           /\ Object(m) \in Requested => Object(m) = f
           /\ Object(m) \in File /\ Object(m) \notin Local
<1>1. \A g \in Announced : Name[g] = Name[f] => g = f
  BY Server
<1>2. Asked(m) \subseteq {f}
  BY <1>1, SystemFiles DEF Asked
<1>3. CASE Asked(m) # {}
  <2>1. Asked(m) = {f}
    BY <1>2, <1>3
  <2>2. Object(m) = f
    BY <2>1 DEF Object
  <2>3. f \in Requested
    BY <2>1 DEF Asked
  <2> QED BY <2>2, <2>3, SystemFiles
<1>4. CASE Asked(m) = {}
  <2>1. DOMAIN NewObject = Announced
    BY SystemFiles
  <2>2. (CHOOSE g \in DOMAIN NewObject : Name[g] = m.name) = f
    <3>1. \E g \in DOMAIN NewObject : Name[g] = m.name
      BY <2>1
    <3> DEFINE c == CHOOSE g \in DOMAIN NewObject : Name[g] = m.name
    <3>2. c \in DOMAIN NewObject /\ Name[c] = m.name
      BY <3>1
    <3> HIDE DEF c
    <3>3. c = f
      BY <1>1, <2>1, <3>2
    <3> QED BY <3>3 DEF c
  <2>3. Object(m) = NewObject[f]
    BY <1>4, <2>2 DEF Object
  <2> QED BY <2>3, SystemFiles
<1> QED BY <1>3, <1>4

-----------------------------------------------------------------------------
(* How a queue moves in one step, and what of the invariant does not depend on it. *)

\* The members of the later queue are members of the earlier one, or new.
Among(later, q, new) ==
    \A i \in DOMAIN later : later[i] \in new \/ \E k \in DOMAIN q : later[i] = q[k]

LEMMA QueueMoves ==
    ASSUME NEW S, NEW q \in Seq(S)
    PROVE  /\ Among(q, q, {}) /\ Among(<<>>, q, {})
           /\ q # <<>> => Among(Tail(q), q, {})
           /\ \A m : Among(Append(q, m), q, {m})
           /\ \A longer, new : Extends(longer, q, new) => Among(longer, q, new)
<1>1. Among(q, q, {}) /\ Among(<<>>, q, {})
  BY DEF Among
<1>2. ASSUME q # <<>>
      PROVE  Among(Tail(q), q, {})
  <2>1. \A i \in DOMAIN Tail(q) : i + 1 \in DOMAIN q /\ Tail(q)[i] = q[i+1]
    BY <1>2, Taken
  <2> QED BY <2>1 DEF Among
<1>3. ASSUME NEW m
      PROVE  Among(Append(q, m), q, {m})
  <2> DEFINE more == Append(q, m)
  <2>1. /\ more[Len(q) + 1] = m /\ \A i \in DOMAIN q : more[i] = q[i]
        /\ DOMAIN more = DOMAIN q \cup {Len(q) + 1}
    BY Appended
  <2> HIDE DEF more
  <2> QED BY <2>1 DEF Among, more
<1>4. ASSUME NEW longer, NEW new, Extends(longer, q, new)
      PROVE  Among(longer, q, new)
  <2>1. \A i \in DOMAIN q : longer[i] = q[i]
    BY <1>4 DEF Extends
  <2>2. \A i \in DOMAIN longer \ DOMAIN q : longer[i] \in new
    BY <1>4 DEF Extends
  <2> QED BY <2>1, <2>2 DEF Among
<1> QED BY <1>1, <1>2, <1>3, <1>4

LEMMA OwnedFrame ==
    ASSUME Owned, history' = history, \A f \in Mirrored : Owner(f)' = Owner(f)
    PROVE  Owned'
BY DEF Owned, Version

LEMMA PlacedFrame ==
    ASSUME Placed, Published \subseteq Local,
           UNCHANGED <<created, mLocalFiles>>, mTransmitHandler => mTransmitHandler',
           \A f \in Local : mAddress'[f] = mAddress[f] /\ isOpen'[f] = isOpen[f]
    PROVE  Placed'
<1>1. Published' = Published
  BY DEF Published
<1> QED BY <1>1 DEF Placed

LEMMA ClientAnnouncedFrame ==
    ASSUME ClientAnnounced, Published \subseteq Local,
           NEW new, Among(toServer', toServer, new), \A m \in new : m.type # "INFO",
           UNCHANGED <<mLocalFiles, sOpened>>,
           \A f \in Local : mAddress'[f] = mAddress[f],
           \A f \in Local : sAddress'[f] = sAddress[f],
           \A f \in Local : f \in sAnnounced' <=> f \in sAnnounced,
           \A f \in Local \ sOpened : version'[f] = version[f]
    PROVE  ClientAnnounced'
<1>1. Published' = Published
  BY DEF Published
<1>2. ASSUME NEW i \in DOMAIN toServer', toServer'[i].type = "INFO"
      PROVE  /\ toServer'[i].file \in Published'
             /\ toServer'[i].address = mAddress'[toServer'[i].file]
  <2>1. PICK k \in DOMAIN toServer : toServer'[i] = toServer[k]
    BY <1>2 DEF Among
  <2> QED BY <1>1, <1>2, <2>1 DEF ClientAnnounced
<1>3. \A f \in (sAnnounced \cap Local)' : f \in Published' /\ sAddress'[f] = mAddress'[f]
  BY <1>1 DEF ClientAnnounced
<1>4. sOpened' \subseteq (sAnnounced \cap Local)'
  BY DEF ClientAnnounced
<1>5. \A f \in Local \ sOpened' : version'[f] = 0
  BY DEF ClientAnnounced
<1> QED BY <1>2, <1>3, <1>4, <1>5 DEF ClientAnnounced

LEMMA ServerAnnouncedFrame ==
    ASSUME ServerAnnounced, NEW S, toClient \in Seq(S), mRemoteFiles \in Seq(File),
           \/ toClient' = toClient
           \/ toClient # <<>> /\ toClient' = Tail(toClient)
           \/ \E m : m.type # "INFO" /\ toClient' = Append(toClient, m),
           UNCHANGED mRemoteFiles,
           \A f \in Announced : sAddress'[f] = sAddress[f],
           \A f \in Announced : f \in sAnnounced' <=> f \in sAnnounced,
           \A h \in Remote : mAddress'[h] = mAddress[h],
           \A i \in DOMAIN toClient : toClient[i].type = "INFO" => toClient[i].file \in Announced
    PROVE  ServerAnnounced'
<1>1. Remote' = Remote
  BY DEF Remote
<1>2. ASSUME NEW i \in DOMAIN toClient', toClient'[i].type = "INFO"
      PROVE  LET f == toClient'[i].file
             IN  /\ f \in sAnnounced' /\ toClient'[i].address = sAddress'[f]
                 /\ f \notin Remote' /\ NewObject[f] \notin Remote'
                 /\ \A j \in DOMAIN toClient' :
                      toClient'[j].type = "INFO" /\ toClient'[j].file = f => j = i
  <2>1. PICK d \in {0, 1} :
          \A j \in DOMAIN toClient' :
            toClient'[j].type = "INFO" =>
              j \in Nat /\ j + d \in DOMAIN toClient /\ toClient'[j] = toClient[j+d]
    <3>1. CASE toClient' = toClient
      <4>1. \A j \in DOMAIN toClient : j \in Nat /\ j + 0 = j
        BY LenProperties
      <4> QED BY <3>1, <4>1
    <3>2. CASE toClient # <<>> /\ toClient' = Tail(toClient)
      <4>1. \A j \in DOMAIN Tail(toClient) : j \in Nat \ {0} /\ j + 1 \in DOMAIN toClient
                                             /\ Tail(toClient)[j] = toClient[j+1]
        BY <3>2, Taken
      <4> QED BY <3>2, <4>1
    <3>3. CASE \E m : m.type # "INFO" /\ toClient' = Append(toClient, m)
      <4>1. PICK m : m.type # "INFO" /\ toClient' = Append(toClient, m)
        BY <3>3
      <4> DEFINE more == Append(toClient, m)
                 last == Len(toClient) + 1
      <4>2. /\ more[last] = m /\ \A j \in DOMAIN toClient : more[j] = toClient[j]
            /\ DOMAIN more = DOMAIN toClient \cup {last}
            /\ \A j \in DOMAIN toClient : j \in Nat /\ j < last
        BY Appended
      <4> HIDE DEF more, last
      <4>3. ASSUME NEW j \in DOMAIN more, more[j].type = "INFO"
            PROVE  j \in Nat /\ j + 0 \in DOMAIN toClient /\ more[j] = toClient[j+0]
        BY <4>1, <4>2, <4>3
      <4> QED BY <4>1, <4>3 DEF more
    <3> QED BY <3>1, <3>2, <3>3
  <2>2. i \in Nat /\ i + d \in DOMAIN toClient /\ toClient'[i] = toClient[i+d]
    BY <1>2, <2>1
  <2> DEFINE f == toClient'[i].file
  <2>3. /\ f \in sAnnounced /\ toClient'[i].address = sAddress[f]
        /\ f \notin Remote /\ NewObject[f] \notin Remote /\ f \in Announced
        /\ \A j \in DOMAIN toClient :
             toClient[j].type = "INFO" /\ toClient[j].file = f => j = i + d
    BY <1>2, <2>2 DEF ServerAnnounced
  <2>4. ASSUME NEW j \in DOMAIN toClient', toClient'[j].type = "INFO", toClient'[j].file = f
        PROVE  j = i
    <3>1. j \in Nat /\ j + d \in DOMAIN toClient /\ toClient'[j] = toClient[j+d]
      BY <2>1, <2>4
    <3>2. j + d = i + d
      BY <2>3, <2>4, <3>1
    <3> QED BY <2>2, <3>1, <3>2
  <2> QED BY <1>1, <2>3, <2>4
<1>3. \A f \in sAnnounced' \cap Announced : sAddress'[f] \in ServerAddresses[f]
  BY DEF ServerAnnounced
<1>4. \A h \in Remote' :
        \E f \in sAnnounced' \cap Announced : h \in {f, NewObject[f]} /\ mAddress'[h] = sAddress'[f]
  BY <1>1 DEF ServerAnnounced
<1>5. \A f \in Announced : ~ (f \in Remote' /\ NewObject[f] \in Remote')
  BY <1>1 DEF ServerAnnounced
<1> QED BY <1>2, <1>3, <1>4, <1>5 DEF ServerAnnounced

LEMMA ReadersFrame ==
    ASSUME Readers, sReaders' = sReaders, sAnnounced \subseteq sAnnounced',
           \A f \in sAnnounced \cap Requested : sAddress'[f] = sAddress[f] /\ (Ready(f) => Ready(f)'),
           NEW new, Among(toServer', toServer, new), \A m \in new : m.type # "OPEN"
    PROVE  Readers'
<1>1. \A f \in sReaders' : f \in sAnnounced' \cap Requested /\ Ready(f)'
  BY DEF Readers
<1>2. ASSUME NEW i \in DOMAIN toServer', toServer'[i].type = "OPEN"
      PROVE  \E f \in sAnnounced' \cap Requested : sAddress'[f] = toServer'[i].address /\ Ready(f)'
  <2>1. PICK k \in DOMAIN toServer : toServer'[i] = toServer[k]
    BY <1>2 DEF Among
  <2>2. PICK f \in sAnnounced \cap Requested : sAddress[f] = toServer[k].address /\ Ready(f)
    BY <1>2, <2>1 DEF Readers
  <2> QED BY <2>1, <2>2
<1> QED BY <1>1, <1>2 DEF Readers

LEMMA SnapshotFrame ==
    ASSUME Snapshot, UNCHANGED <<version, history>>,
           \A f \in Mirrored : version[f] # 0 => Replica(f)' = Replica(f)
    PROVE  Snapshot'
BY DEF Snapshot

LEMMA SessionFrame ==
    ASSUME Session, NEW S, toServer \in Seq(S), NEW R, toClient \in Seq(R),
           link \in {"down", "connecting", "connected", "up"},
           UNCHANGED <<link, greeted>>, mTransmitHandler => mTransmitHandler',
           greeted \/ UNCHANGED sAnnounced,
           link = "up" \/ UNCHANGED <<mRemoteFiles, sReaders>>,
           \/ toServer' = toServer
           \/ toServer # <<>> /\ toServer' = Tail(toServer)
           \/ link # "down" /\ \E m : m # Greeting /\ toServer' = Append(toServer, m),
           \/ toClient' = toClient
           \/ link = "up" /\ toClient # <<>> /\ toClient' = Tail(toClient)
           \/ greeted /\ \E m : m # Acknowledge /\ toClient' = Append(toClient, m)
    PROVE  Session'
<1>1. /\ link = "down" => toServer = <<>> /\ toClient = <<>>
      /\ link \in {"down", "connecting"} =>
           ~greeted /\ \A i \in DOMAIN toServer : toServer[i] # Greeting
      /\ greeted => \A i \in DOMAIN toServer : toServer[i] # Greeting
      /\ \A i, j \in DOMAIN toServer : toServer[i] = Greeting /\ toServer[j] = Greeting => i = j
      /\ ~greeted => toClient = <<>> /\ sAnnounced = {}
      /\ greeted /\ link # "up" => toClient # <<>> /\ toClient[1] = Acknowledge
      /\ \A i \in DOMAIN toClient : toClient[i] = Acknowledge => i = 1 /\ link = "connected"
      /\ link = "up" => greeted /\ mTransmitHandler
      /\ link # "up" => mRemoteFiles = <<>> /\ sReaders = {}
  BY DEF Session
<1>2. PICK d \in {0, 1} :
        \A i \in DOMAIN toServer' :
          toServer'[i] = Greeting =>
            i \in Nat /\ i + d \in DOMAIN toServer /\ toServer'[i] = toServer[i+d]
  <2>1. CASE toServer' = toServer
    <3>1. \A j \in DOMAIN toServer : j \in Nat /\ j + 0 = j
      BY LenProperties
    <3> QED BY <2>1, <3>1
  <2>2. CASE toServer # <<>> /\ toServer' = Tail(toServer)
    <3>1. \A j \in DOMAIN Tail(toServer) : j \in Nat \ {0} /\ j + 1 \in DOMAIN toServer
                                           /\ Tail(toServer)[j] = toServer[j+1]
      BY <2>2, Taken
    <3> QED BY <2>2, <3>1
  <2>3. CASE link # "down" /\ \E m : m # Greeting /\ toServer' = Append(toServer, m)
    <3>1. PICK m : m # Greeting /\ toServer' = Append(toServer, m)
      BY <2>3
    <3> DEFINE more == Append(toServer, m)
               last == Len(toServer) + 1
    <3>2. /\ more[last] = m /\ \A j \in DOMAIN toServer : more[j] = toServer[j]
          /\ DOMAIN more = DOMAIN toServer \cup {last}
          /\ \A j \in DOMAIN toServer : j \in Nat /\ j < last
      BY Appended
    <3> HIDE DEF more, last
    <3>3. ASSUME NEW j \in DOMAIN more, more[j] = Greeting
          PROVE  j \in Nat /\ j + 0 \in DOMAIN toServer /\ more[j] = toServer[j+0]
      BY <3>1, <3>2, <3>3
    <3> QED BY <3>1, <3>3 DEF more
  <2> QED BY <2>1, <2>2, <2>3
<1>3. /\ \A i \in DOMAIN toServer' : toServer'[i] = Greeting => \E k \in DOMAIN toServer : toServer[k] = Greeting
      /\ \A i, j \in DOMAIN toServer' : toServer'[i] = Greeting /\ toServer'[j] = Greeting => i = j
  <2>1. \A i \in DOMAIN toServer' : toServer'[i] = Greeting => \E k \in DOMAIN toServer : toServer[k] = Greeting
    BY <1>2
  <2>2. ASSUME NEW i \in DOMAIN toServer', NEW j \in DOMAIN toServer',
               toServer'[i] = Greeting, toServer'[j] = Greeting
        PROVE  i = j
    <3>1. i \in Nat /\ j \in Nat /\ i + d = j + d
      BY <1>1, <1>2, <2>2
    <3> QED BY <3>1
  <2> QED BY <2>1, <2>2
<1>4. link = "down" => toServer' = <<>> /\ toClient' = <<>>
  BY <1>1
<1>5. /\ ~greeted => toClient' = <<>> /\ sAnnounced' = {}
      /\ link = "up" => greeted /\ mTransmitHandler'
      /\ link # "up" => mRemoteFiles' = <<>> /\ sReaders' = {}
  BY <1>1
<1>6. /\ greeted /\ link # "up" => toClient' # <<>> /\ toClient'[1] = Acknowledge
      /\ \A i \in DOMAIN toClient' : toClient'[i] = Acknowledge => i = 1 /\ link = "connected"
  <2>1. CASE toClient' = toClient
    BY <1>1, <2>1
  <2>2. CASE link = "up" /\ toClient # <<>> /\ toClient' = Tail(toClient)
    <3>1. \A j \in DOMAIN Tail(toClient) : j + 1 \in DOMAIN toClient
                                           /\ Tail(toClient)[j] = toClient[j+1]
      BY <2>2, Taken
    <3> QED BY <1>1, <2>2, <3>1
  <2>3. CASE greeted /\ \E m : m # Acknowledge /\ toClient' = Append(toClient, m)
    <3>1. PICK m : m # Acknowledge /\ toClient' = Append(toClient, m)
      BY <2>3
    <3> DEFINE more == Append(toClient, m)
               last == Len(toClient) + 1
    <3>2. /\ more[last] = m /\ \A j \in DOMAIN toClient : more[j] = toClient[j]
          /\ DOMAIN more = DOMAIN toClient \cup {last}
      BY Appended
    <3> HIDE DEF more, last
    <3>3. \A i \in DOMAIN more : more[i] = Acknowledge => i = 1 /\ link = "connected"
      BY <1>1, <3>1, <3>2
    <3>4. link # "up" => 1 \in DOMAIN toClient
      BY <1>1, <2>3, Taken
    <3>5. link # "up" => more # <<>> /\ more[1] = Acknowledge
      <4>1. DOMAIN << >> = {}
        OBVIOUS
      <4>2. link # "up" => 1 \in DOMAIN more
        BY <3>2, <3>4
      <4>3. more # <<>>
        BY <3>2, <4>1
      <4> QED BY <1>1, <2>3, <3>2, <3>4, <4>3
    <3>6. toClient' = more
      BY <3>1 DEF more
    <3> QED BY <3>3, <3>5, <3>6
  <2> QED BY <2>1, <2>2, <2>3
<1> QED BY <1>1, <1>3, <1>4, <1>5, <1>6 DEF Session

-----------------------------------------------------------------------------
(* What the invariant says of the state, in the form the steps need it. *)

LEMMA StateFacts ==
    ASSUME IInv
    PROVE  /\ toServer \in Seq(ClientMessage) /\ \A i \in DOMAIN toServer : toServer[i] \in ClientMessage
           /\ toClient \in Seq(ServerMessage) /\ \A i \in DOMAIN toClient : toClient[i] \in ServerMessage
           /\ mLocalFiles \in Seq(Local) /\ mLocalFiles \in Seq(File) /\ mRemoteFiles \in Seq(File)
           /\ Published \subseteq Local /\ Remote \subseteq File
           /\ mAddress \in [File -> Address] /\ sAddress \in [File -> Address]
           /\ \A f \in File : mAddress[f] \in Nat /\ sAddress[f] \in Nat
           /\ Roomy(mSendBuffer) /\ dropped \in BOOLEAN
           /\ link \in {"down", "connecting", "connected", "up"}
<1>1. TypeOK /\ Roomy(mSendBuffer)
  BY DEF IInv, Typed, TypeOK, Roomy
<1>2. /\ toServer \in Seq(ClientMessage) /\ toClient \in Seq(ServerMessage)
      /\ mLocalFiles \in Seq(Local) /\ mRemoteFiles \in Seq(File)
      /\ mAddress \in [File -> Address] /\ sAddress \in [File -> Address]
      /\ dropped \in BOOLEAN /\ link \in {"down", "connecting", "connected", "up"}
  BY <1>1 DEF TypeOK
<1>3. mLocalFiles \in Seq(File)
  BY <1>2, SystemFiles, SeqMonotonic
<1>4. /\ \A i \in DOMAIN toServer : toServer[i] \in ClientMessage
      /\ \A i \in DOMAIN toClient : toClient[i] \in ServerMessage
      /\ \A i \in DOMAIN mLocalFiles : mLocalFiles[i] \in Local
      /\ \A i \in DOMAIN mRemoteFiles : mRemoteFiles[i] \in File
  BY <1>2, ElementOfSeq, LenProperties
<1>5. Published \subseteq Local /\ Remote \subseteq File
  BY <1>4 DEF Published, Remote, ToSet
<1>6. \A f \in File : mAddress[f] \in Nat /\ sAddress[f] \in Nat
  BY <1>2, AddressAreas DEF Address
<1> QED BY <1>1, <1>2, <1>3, <1>4, <1>5, <1>6

LEMMA FileFacts ==
    ASSUME IInv
    PROVE  /\ \A f \in Mirrored :
                /\ mData[f] \in Content(f) /\ sData[f] \in Content(f)
                /\ history[f] \in Seq(Content(f)) /\ history[f] # <<>>
                /\ Len(history[f]) \in Nat \ {0} /\ history[f][Len(history[f])] = Owner(f)
                /\ version[f] \in Nat /\ version[f] \in 0 .. Len(history[f])
           /\ OpenAtClient \subseteq Published /\ OpenAtClient \subseteq Local
           /\ sReaders \subseteq Requested /\ sReaders \subseteq sAnnounced
           /\ Separate(Published, mAddress) /\ Separate(OpenAtClient, mAddress)
           /\ Separate(sAnnounced \cap Requested, sAddress) /\ Separate(sReaders, sAddress)
<1>1. TypeOK /\ version \in [Mirrored -> Nat]
  BY DEF IInv, Typed
<1>2. \A f \in Mirrored :
        /\ history[f] \in Seq(Content(f)) /\ history[f] # <<>>
        /\ history[f][Len(history[f])] = Owner(f)
  BY DEF IInv, Owned, Version
<1>3. \A f \in Mirrored : Len(history[f]) \in Nat \ {0}
  BY <1>2, LenProperties, EmptySeq
<1>4. \A f \in Mirrored :
        /\ mData[f] \in Content(f) /\ sData[f] \in Content(f)
        /\ version[f] \in Nat /\ version[f] \in 0 .. Len(history[f])
  BY <1>1 DEF TypeOK
<1>5. OpenAtClient \subseteq Published /\ OpenAtClient \subseteq Local
  BY DEF IInv, Placed, OpenAtClient
<1>6. sReaders \subseteq Requested /\ sReaders \subseteq sAnnounced
  BY DEF IInv, Readers
<1>7. Separate(Published, mAddress) /\ Separate(OpenAtClient, mAddress)
  BY <1>5 DEF IInv, Placed, Separate
<1>8. Separate(sAnnounced \cap Requested, sAddress)
  BY SystemFiles, ServerPlaces DEF IInv, ServerAnnounced, Separate
<1>9. Separate(sReaders, sAddress)
  BY <1>6, <1>8 DEF Separate
<1> QED BY <1>2, <1>3, <1>4, <1>5, <1>6, <1>7, <1>8, <1>9

\* The contents that Mirror speaks of.
LEMMA AllContents ==
    ASSUME NEW f \in Mirrored
    PROVE  Content(f) \subseteq UNION {Content(g) : g \in Mirrored}
OBVIOUS

\* A blank file is a file.
LEMMA BlankContent ==
    ASSUME NEW f
    PROVE  Blank(f) \in Content(f)
<1>1. 0 \in 0 .. MaxWrites
  BY Node
<1> QED BY <1>1 DEF Blank, Content

-----------------------------------------------------------------------------
(* The first state. *)

LEMMA InitIInv ==
    ASSUME Init
    PROVE  IInv
<1> USE DEF Init, FileManagerInit
<1>0. /\ \A f \in Mirrored : Blank(f) \in Content(f) /\ Blank(f) \in UNION {Content(g) : g \in Mirrored}
      /\ \A f \in Mirrored : <<Blank(f)>> \in Seq(Content(f)) /\ Len(<<Blank(f)>>) = 1
                             /\ <<Blank(f)>> \in Seq(UNION {Content(g) : g \in Mirrored})
  <2>1. \A f \in Mirrored : Blank(f) \in Content(f) /\ Blank(f) \in UNION {Content(g) : g \in Mirrored}
    BY BlankContent
  <2>2. ASSUME NEW C, NEW c \in C
        PROVE  <<c>> \in Seq(C) /\ Len(<<c>>) = 1
    OBVIOUS
  <2> QED BY <2>1, <2>2, Zenon
<1>1. Typed
  <2>1. InvalidAddress \in Address
    BY AddressAreas DEF Address, InvalidAddress
  <2>2. TypeOK
    <3>1. /\ mLocalFiles \in Seq(Local) /\ mRemoteFiles \in Seq(File) /\ Len(mLocalFiles) = 0
          /\ toServer \in Seq(ClientMessage) /\ toClient \in Seq(ServerMessage)
      BY EmptySeq
    <3>2. \A f \in Mirrored : mData[f] \in Content(f) /\ sData[f] \in Content(f)
                              /\ version[f] \in 0 .. Len(history[f])
      BY <1>0
    <3>3. mAddress \in [File -> Address] /\ sAddress \in [File -> Address] /\ isOpen \in [File -> BOOLEAN]
      BY <2>1
    <3>4. mLastLocal \in 0 .. Len(mLocalFiles)
      BY <3>1
    <3> QED BY <3>1, <3>2, <3>3, <3>4 DEF TypeOK
  <2>3. /\ mData \in [Mirrored -> UNION {Content(g) : g \in Mirrored}]
        /\ sData \in [Mirrored -> UNION {Content(g) : g \in Mirrored}]
    BY <1>0
  <2> QED BY <2>2, <2>3 DEF Typed
<1>2. Owned
  <2>1. history \in [Mirrored -> Seq(UNION {Content(g) : g \in Mirrored})]
    BY <1>0
  <2>2. ASSUME NEW f \in Mirrored
        PROVE  history[f] \in Seq(Content(f)) /\ history[f] # <<>> /\ Owner(f) = history[f][Version(f)]
    <3>1. history[f] = <<Blank(f)>> /\ Owner(f) = Blank(f)
      BY SystemFiles DEF Owner
    <3>2. Len(<<Blank(f)>>) = 1 /\ <<Blank(f)>>[1] = Blank(f) /\ <<Blank(f)>> # << >>
      BY EmptySeq
    <3> QED BY <1>0, <3>1, <3>2 DEF Version
  <2> QED BY <2>1, <2>2 DEF Owned
<1>3. Placed
  BY SystemFiles DEF Placed, Published, ToSet
<1>4. Session
  BY DEF Session
<1>5. ClientAnnounced
  BY DEF ClientAnnounced, Mirrored
<1>6. ServerAnnounced
  BY DEF ServerAnnounced, Remote, ToSet
<1>7. Readers
  BY DEF Readers
<1>8. \A f \in Mirrored : version[f] = 0
  OBVIOUS
<1>9. ToServerCarried
  BY <1>8, CarriedEmpty DEF ToServerCarried, OpenAtClient, Mirrored
<1>10. ToClientCarried
  BY <1>8, CarriedEmpty DEF ToClientCarried, Mirrored
<1>11. Snapshot
  BY DEF Snapshot
<1> QED BY <1>1, <1>2, <1>3, <1>4, <1>5, <1>6, <1>7, <1>9, <1>10, <1>11 DEF IInv

-----------------------------------------------------------------------------
(* The connection. *)

LEMMA ConnectIInv ==
    ASSUME IInv, Connect
    PROVE  IInv'
<1> USE DEF Connect, client, ghosts, serverSession
<1>1. toServer = <<>> /\ toClient = <<>> /\ link = "down"
  BY DEF IInv, Session
<1>2. /\ toServer' = toServer /\ toClient' = toClient /\ link' = "connecting" /\ ~fault
      /\ UNCHANGED <<created, mLocalFiles, mRemoteFiles, mAddress, mLastLocal, mLastRemote,
                     isOpen, mTransmitHandler, mData, fault, mSendBuffer, dropped,
                     history, version, greeted, sAnnounced, sAddress, sOpened, sReaders,
                     sData, late>>
  BY <1>1 DEF maps
<1> USE DEF IInv
<1>3. Typed'
  BY <1>2 DEF Typed, TypeOK
<1>4. Owned'
  BY <1>2, OwnedFrame DEF Owner
<1>5. Placed'
  BY <1>2, StateFacts, PlacedFrame
<1>6. Session'
  BY <1>1, <1>2 DEF Session
<1>7. Among(toServer', toServer, {})
  BY <1>2, StateFacts, QueueMoves
<1>8. ClientAnnounced'
  BY <1>2, <1>7, StateFacts, ClientAnnouncedFrame
<1>9. ServerAnnounced'
  BY <1>2, StateFacts, SystemMessages, ServerAnnouncedFrame
<1>10. Readers'
  BY <1>2, <1>7, ReadersFrame DEF Ready, Remote
<1>11. ToServerCarried' /\ ToClientCarried'
  BY <1>2 DEF ToServerCarried, ToClientCarried, OpenAtClient
<1>12. Snapshot'
  BY <1>2, SnapshotFrame DEF Replica
<1> QED BY <1>3, <1>4, <1>5, <1>6, <1>8, <1>9, <1>10, <1>11, <1>12

LEMMA EstablishedIInv ==
    ASSUME IInv, Established
    PROVE  IInv'
<1> USE DEF Established, client, ghosts, serverSession
<1>1. /\ link = "connecting" /\ link' = "connected" /\ ~fault
      /\ toServer' = Append(toServer, Greeting) /\ toClient' = toClient
      /\ UNCHANGED <<created, mLocalFiles, mRemoteFiles, mAddress, mLastLocal, mLastRemote,
                     isOpen, mTransmitHandler, mData, fault, mSendBuffer, dropped,
                     history, version, greeted, sAnnounced, sAddress, sOpened, sReaders,
                     sData, late>>
  BY DEF maps
<1> USE DEF IInv
<1>2. Typed'
  <2>1. toServer' \in Seq(ClientMessage)
    BY <1>1, StateFacts, SystemSends, AppendProperties
  <2> QED BY <1>1, <2>1 DEF Typed, TypeOK
<1>3. Owned'
  BY <1>1, OwnedFrame DEF Owner
<1>4. Placed'
  BY <1>1, StateFacts, PlacedFrame
<1>5. Session'
  <2>1. /\ toServer'[Len(toServer) + 1] = Greeting
        /\ \A i \in DOMAIN toServer : toServer'[i] = toServer[i]
        /\ DOMAIN toServer' = DOMAIN toServer \cup {Len(toServer) + 1}
    BY <1>1, StateFacts, Appended
  <2> QED BY <1>1, <2>1 DEF Session
<1>6. Among(toServer', toServer, {Greeting}) /\ Greeting.type = "GREETING"
  BY <1>1, StateFacts, QueueMoves, SystemMessages
<1>7. ClientAnnounced'
  BY <1>1, <1>6, StateFacts, ClientAnnouncedFrame
<1>8. ServerAnnounced'
  BY <1>1, StateFacts, SystemMessages, ServerAnnouncedFrame
<1>9. Readers'
  BY <1>1, <1>6, ReadersFrame DEF Ready
<1>10. ToServerCarried'
  <2>1. Carried(Append(toServer, Greeting), Local, OpenAtClient, mAddress, history, version)
    BY <1>6, StateFacts, CarriedBehind DEF ToServerCarried
  <2> QED BY <1>1, <2>1 DEF ToServerCarried, OpenAtClient
<1>11. ToClientCarried'
  BY <1>1 DEF ToClientCarried
<1>12. Snapshot'
  BY <1>1, SnapshotFrame DEF Replica
<1> QED BY <1>2, <1>3, <1>4, <1>5, <1>7, <1>8, <1>9, <1>10, <1>11, <1>12

\* Lose and ServerRejects.
LEMMA BrokenIInv ==
    ASSUME IInv, Broken
    PROVE  /\ IInv'
           /\ version' = [f \in Mirrored |-> 0] /\ history' = history
<1> USE DEF Broken, HandlerDisconnected
<1>1. UNCHANGED <<created, mLocalFiles, mAddress, isOpen, mLastLocal, mLastRemote,
                  mTransmitHandler, mData, mSendBuffer, dropped, fault, history>>
  OBVIOUS
<1>2. /\ link' = "down" /\ toServer' = <<>> /\ toClient' = <<>> /\ mRemoteFiles' = <<>>
      /\ greeted' = FALSE /\ sAnnounced' = {} /\ sOpened' = {} /\ sReaders' = {}
      /\ sAddress' = [f \in File |-> InvalidAddress] /\ late' = FALSE
      /\ version' = [f \in Mirrored |-> 0]
      /\ sData' = [f \in Mirrored |-> IF f \in Local THEN Blank(f) ELSE sData[f]]
  OBVIOUS
<1>3. \A f \in Mirrored : version'[f] = 0
  BY <1>2
<1>4. DOMAIN << >> = {}
  OBVIOUS
<1> USE DEF IInv
<1>5. Typed'
  <2>1. InvalidAddress \in Address
    BY AddressAreas DEF Address, InvalidAddress
  <2>2. \A f \in Mirrored : mData'[f] \in Content(f) /\ sData'[f] \in Content(f)
                            /\ version'[f] \in 0 .. Len(history'[f])
    <3>1. \A f \in Mirrored : mData[f] \in Content(f) /\ sData[f] \in Content(f)
                              /\ Len(history[f]) \in Nat
      BY FileFacts
    <3> QED BY <1>1, <1>2, <1>3, <3>1, BlankContent
  <2>3. sData' \in [Mirrored -> UNION {Content(f) : f \in Mirrored}]
    BY <1>2, <2>2
  <2>4. /\ mRemoteFiles' \in Seq(File)
        /\ toServer' \in Seq(ClientMessage) /\ toClient' \in Seq(ServerMessage)
    BY <1>2, EmptySeq
  <2>5. sAddress' \in [File -> Address] /\ version' \in [Mirrored -> Nat]
    BY <1>2, <2>1
  <2>6. TypeOK'
    BY <1>1, <1>2, <2>2, <2>4, <2>5 DEF Typed, TypeOK
  <2> QED BY <1>1, <2>3, <2>5, <2>6 DEF Typed
<1>6. Owned'
  <2>1. \A f \in Mirrored : Owner(f)' = Owner(f)
    BY <1>1, <1>2 DEF Owner
  <2> QED BY <1>1, <2>1, OwnedFrame
<1>7. Placed'
  BY <1>1, StateFacts, PlacedFrame
<1>8. Session'
  BY <1>2, <1>4 DEF Session
<1>9. ClientAnnounced'
  BY <1>2, <1>3, <1>4 DEF ClientAnnounced, Mirrored
<1>10. ServerAnnounced'
  BY <1>2, <1>4 DEF ServerAnnounced, Remote, ToSet
<1>11. Readers'
  BY <1>2, <1>4 DEF Readers
<1>12. ToServerCarried'
  <2>1. OpenAtClient' \subseteq Local
    BY DEF OpenAtClient
  <2>2. \A f \in Local : version'[f] = 0
    BY <1>3 DEF Mirrored
  <2>3. \A i \in DOMAIN toServer' : toServer'[i].type # "WRITE"
    BY <1>2, <1>4
  <2>4. Carried(toServer', Local, OpenAtClient', mAddress', history', version')
    BY <2>1, <2>2, <2>3, CarriedEmpty
  <2> QED BY <2>4 DEF ToServerCarried
<1>13. ToClientCarried'
  <2>1. sReaders' \subseteq Requested
    BY <1>2
  <2>2. \A f \in Requested : version'[f] = 0
    BY <1>3 DEF Mirrored
  <2>3. \A i \in DOMAIN toClient' : toClient'[i].type # "WRITE"
    BY <1>2, <1>4
  <2>4. Carried(toClient', Requested, sReaders', sAddress', history', version')
    BY <2>1, <2>2, <2>3, CarriedEmpty
  <2> QED BY <2>3, <2>4 DEF ToClientCarried
<1>14. Snapshot'
  BY <1>3 DEF Snapshot
<1> QED BY <1>1, <1>2, <1>5, <1>6, <1>7, <1>8, <1>9, <1>10, <1>11, <1>12, <1>13, <1>14

-----------------------------------------------------------------------------
(* What the client receives. *)

\* The acknowledge.
LEMMA AcknowledgedIInv ==
    ASSUME IInv, ~fault, toClient # <<>>, Head(toClient) = Acknowledge,
           HandlerConnected, link' = "up", toClient' = Tail(toClient),
           UNCHANGED <<serverSession, sData, late>>
    PROVE  IInv' /\ UNCHANGED <<history, version>>
<1> USE DEF HandlerConnected, ghosts, maps, serverSession
<1> DEFINE infos == [i \in DOMAIN mLocalFiles |-> Info(mLocalFiles[i], mAddress[mLocalFiles[i]])]
           new == {Info(f, mAddress[f]) : f \in Published}
<1>1. /\ mTransmitHandler' = TRUE /\ SendAll(infos)
      /\ UNCHANGED <<created, mLocalFiles, mRemoteFiles, mAddress, mLastLocal, mLastRemote,
                     isOpen, mData, fault, history, version,
                     greeted, sAnnounced, sAddress, sOpened, sReaders, sData, late>>
  OBVIOUS
<1>2. /\ toClient' = Tail(toClient) /\ link' = "up"
      /\ 1 \in DOMAIN toClient /\ toClient[1] = Acknowledge
      /\ toClient' \in Seq(ServerMessage)
      /\ \A i \in DOMAIN toClient' : i \in Nat \ {0} /\ i + 1 \in DOMAIN toClient
                                     /\ toClient'[i] = toClient[i+1]
  BY StateFacts, Taken
<1>3. link = "connected" /\ greeted /\ sReaders = {}
  BY <1>2 DEF IInv, Session
<1>4. /\ \A f \in Published : f \in Local /\ mAddress[f] \in UserAddress
      /\ new \subseteq ClientMessage \cap Outgoing
      /\ \A m \in new : m.type = "INFO" /\ m # Greeting
                        /\ m.file \in Published /\ m.address = mAddress[m.file]
  <2>1. ASSUME NEW f \in Published
        PROVE  f \in Local /\ mAddress[f] \in UserAddress
    <3>1. f \in Local /\ f \in File /\ mAddress[f] \in Nat /\ Length[f] \in Nat \ {0}
      BY StateFacts, SystemFiles
    <3>2. mAddress[f] + Length[f] <= USER_DATA_END
      BY DEF IInv, Placed
    <3> QED BY <3>1, <3>2, ServerPlaces DEF UserAddress
  <2>2. ASSUME NEW f \in Published
        PROVE  LET m == Info(f, mAddress[f])
               IN  /\ m \in ClientMessage /\ m \in Outgoing /\ m.type = "INFO" /\ m # Greeting
                   /\ m.file = f /\ m.address = mAddress[f]
    <3>1. Info(f, mAddress[f]) \in ClientMessage /\ Info(f, mAddress[f]) \in InfoMessage(Local)
      BY <2>1, SystemSends
    <3>2. InfoMessage(Local) \subseteq Outgoing
      BY SystemMessages DEF Outgoing
    <3> QED BY <3>1, <3>2 DEF Info, Greeting
  <2> QED BY <2>1, <2>2
<1> HIDE DEF new
<1>5. infos \in Seq(new)
  <2> DEFINE n == Len(mLocalFiles)
  <2>1. n \in Nat /\ DOMAIN mLocalFiles = 1 .. n
    BY StateFacts, LenProperties
  <2>2. \A i \in 1 .. n : mLocalFiles[i] \in Published
    BY <2>1 DEF Published, ToSet
  <2>3. \A i \in 1 .. n : infos[i] \in new
    BY <2>1, <2>2 DEF new
  <2>4. infos \in [1 .. n -> new]
    <3>1. infos = [i \in 1 .. n |-> infos[i]]
      BY <2>1
    <3> HIDE DEF infos, n
    <3> QED BY <2>3, <3>1
  <2> HIDE DEF infos, n
  <2> QED BY <2>1, <2>4
<1> HIDE DEF infos
<1>6. /\ Roomy(mSendBuffer') /\ dropped' \in BOOLEAN
      /\ toServer' \in Seq(ClientMessage) /\ Extends(toServer', toServer, new)
  BY <1>1, <1>4, <1>5, StateFacts, SendAllResult
<1>7. Among(toServer', toServer, new)
  BY <1>6, StateFacts, QueueMoves
<1> USE DEF IInv
<1>8. Typed'
  BY <1>1, <1>2, <1>6 DEF Typed, TypeOK, Roomy
<1>9. Owned'
  BY <1>1, OwnedFrame DEF Owner
<1>10. Placed'
  BY <1>1, StateFacts, PlacedFrame
<1>11. Session'
  <2>1. \A i \in DOMAIN toServer' : toServer'[i] # Greeting
    <3>1. \A i \in DOMAIN toServer : toServer[i] # Greeting
      BY <1>3 DEF Session
    <3> QED BY <1>4, <1>7, <3>1 DEF Among
  <2>2. \A i \in DOMAIN toClient' : toClient'[i] # Acknowledge
    <3>1. \A i \in DOMAIN toClient : toClient[i] = Acknowledge => i = 1
      BY DEF Session
    <3>2. \A i \in DOMAIN toClient' : i + 1 # 1
      BY <1>2
    <3> QED BY <1>2, <3>1, <3>2
  <2> QED BY <1>1, <1>2, <1>3, <2>1, <2>2 DEF Session
<1>12. ClientAnnounced'
  <2>1. Published' = Published
    BY <1>1 DEF Published
  <2>2. ASSUME NEW i \in DOMAIN toServer', toServer'[i].type = "INFO"
        PROVE  toServer'[i].file \in Published' /\ toServer'[i].address = mAddress'[toServer'[i].file]
    <3>1. CASE toServer'[i] \in new
      BY <1>1, <1>4, <2>1, <3>1
    <3>2. CASE \E k \in DOMAIN toServer : toServer'[i] = toServer[k]
      BY <1>1, <2>1, <2>2, <3>2 DEF ClientAnnounced
    <3> QED BY <1>7, <3>1, <3>2 DEF Among
  <2> QED BY <1>1, <2>1, <2>2 DEF ClientAnnounced
<1>13. ServerAnnounced'
  BY <1>1, <1>2, StateFacts, SystemMessages, ServerAnnouncedFrame
<1>14. Readers'
  <2>1. \A f : ~ Ready(f)
    BY <1>3 DEF Ready
  <2>2. \A m \in new : m.type # "OPEN"
    BY <1>4
  <2> QED BY <1>1, <1>7, <2>1, <2>2, ReadersFrame
<1>15. ToServerCarried'
  <2>1. Carried(toServer', Local, OpenAtClient, mAddress, history, version)
    <3>1. \A m \in new : m.type # "WRITE"
      BY <1>4
    <3> QED BY <1>6, <3>1, CarriedExtends DEF ToServerCarried
  <2> QED BY <1>1, <2>1 DEF ToServerCarried, OpenAtClient
<1>16. ToClientCarried'
  <2>1. Acknowledge.type # "WRITE"
    BY SystemMessages
  <2>2. \A f \in Requested : version[f] \in Nat /\ Len(history[f]) \in Nat
    BY FileFacts DEF Mirrored
  <2>3. Carried(Tail(toClient), Requested, sReaders, sAddress, history, version)
    BY <1>2, <2>1, <2>2, StateFacts, CarriedTail DEF ToClientCarried
  <2>4. Carried(toClient', Requested, sReaders', sAddress', history', version')
    BY <1>1, <1>2, <2>3
  <2> QED BY <2>4 DEF ToClientCarried, Carried
<1>17. Snapshot'
  BY <1>1, SnapshotFrame DEF Replica
<1> QED BY <1>1, <1>8, <1>9, <1>10, <1>11, <1>12, <1>13, <1>14, <1>15, <1>16, <1>17

\* Behind the acknowledge the connection is up.
LEMMA Incoming ==
    ASSUME IInv, toClient # <<>>, Head(toClient) # Acknowledge
    PROVE  /\ link = "up" /\ greeted /\ mTransmitHandler
           /\ 1 \in DOMAIN toClient /\ Head(toClient) = toClient[1]
           /\ toClient[1] \in ServerMessage /\ toClient[1].type \in {"INFO", "OPEN", "WRITE"}
           /\ Tail(toClient) \in Seq(ServerMessage)
           /\ \A i \in DOMAIN Tail(toClient) : i \in Nat \ {0} /\ i + 1 \in DOMAIN toClient
                                               /\ Tail(toClient)[i] = toClient[i+1]
<1>1. /\ 1 \in DOMAIN toClient /\ Head(toClient) = toClient[1] /\ toClient[1] \in ServerMessage
      /\ Tail(toClient) \in Seq(ServerMessage)
      /\ \A i \in DOMAIN Tail(toClient) : i \in Nat \ {0} /\ i + 1 \in DOMAIN toClient
                                          /\ Tail(toClient)[i] = toClient[i+1]
  BY StateFacts, Taken
<1>2. link = "up" /\ greeted /\ mTransmitHandler
  BY <1>1 DEF IInv, Session
<1>3. toClient[1].type \in {"INFO", "OPEN", "WRITE"}
  BY <1>1, SystemMessages
<1> QED BY <1>1, <1>2, <1>3

\* Send, in the terms of the queue.
LEMMA SendResult ==
    ASSUME IInv, NEW m, m \in ClientMessage, m \in Outgoing, Send(m), link # "down"
    PROVE  /\ Roomy(mSendBuffer') /\ dropped' \in BOOLEAN
           /\ toServer' = toServer \/ toServer' = Append(toServer, m)
           /\ m \in WriteMessage(Nat) /\ Len(m.data) = 1 => toServer' = Append(toServer, m)
           /\ toServer' \in Seq(ClientMessage)
<1> DEFINE t == Transmit(Sender, m)
<1>1. /\ Sender = [buffer |-> Sender.buffer, queue |-> Sender.queue, dropped |-> Sender.dropped]
      /\ Sender.buffer = mSendBuffer /\ Sender.queue = toServer /\ Sender.dropped = dropped
  BY DEF Sender
<1>2. Roomy(mSendBuffer) /\ dropped \in BOOLEAN /\ toServer \in Seq(ClientMessage)
  BY StateFacts
<1>3. /\ Roomy(t.buffer) /\ t.dropped \in BOOLEAN
      /\ t.queue = toServer \/ t.queue = Append(toServer, m)
      /\ m \in WriteMessage(Nat) /\ Len(m.data) = 1 => t.queue = Append(toServer, m)
  BY <1>1, <1>2, TransmitResult
<1>4. mSendBuffer' = t.buffer /\ toServer' = t.queue /\ dropped' = t.dropped
  BY DEF Send, Becomes
<1>5. Append(toServer, m) \in Seq(ClientMessage)
  BY <1>2, AppendProperties
<1> HIDE DEF t
<1> QED BY <1>2, <1>3, <1>4, <1>5

\* A FILE_INFO.
LEMMA FileInfoIInv ==
    ASSUME IInv, ~fault, toClient # <<>>, Head(toClient) # Acknowledge,
           Head(toClient).type = "INFO",
           HandleInfo(Received(Head(toClient))), UNCHANGED link, toClient' = Tail(toClient),
           UNCHANGED <<serverSession, sData, late>>
    PROVE  IInv' /\ UNCHANGED <<history, version>>
<1> DEFINE m0 == toClient[1]
           f == m0.file
           m == Received(m0)
           o == Object(m)
           a == m0.address
<1>1. /\ link = "up" /\ greeted /\ mTransmitHandler
      /\ 1 \in DOMAIN toClient /\ Head(toClient) = m0 /\ m0.type = "INFO"
      /\ m0 \in ServerMessage
      /\ Tail(toClient) \in Seq(ServerMessage)
      /\ \A i \in DOMAIN Tail(toClient) : i \in Nat \ {0} /\ i + 1 \in DOMAIN toClient
                                          /\ Tail(toClient)[i] = toClient[i+1]
  BY Incoming
<1>2. f \in Announced /\ a \in UserAddress /\ a \in Nat
  BY <1>1, SystemMessages
<1>3. m.name = Name[f] /\ m.length = Length[f] /\ m.address = a
  BY <1>1, SystemReads
<1>4. /\ o \in {f, NewObject[f]} /\ o \in File /\ o \notin Local
      /\ o \in Requested => o = f
  BY <1>2, <1>3, ObjectOf
<1>5. /\ f \in sAnnounced /\ a = sAddress[f]
      /\ f \notin Remote /\ NewObject[f] \notin Remote
      /\ \A j \in DOMAIN toClient : toClient[j].type = "INFO" /\ toClient[j].file = f => j = 1
  BY <1>1 DEF IInv, ServerAnnounced
<1>6. HandleInfo(m)
  BY <1>1
<1> HIDE DEF m
<1>7. /\ mAddress' = [mAddress EXCEPT ![o] = a]
      /\ isOpen' = [isOpen EXCEPT ![o] = o \in Requested]
      /\ IF o \in Requested THEN Send(Open(a)) ELSE UNCHANGED sending
      /\ mRemoteFiles' = InsertDefault(mRemoteFiles, mAddress', o)
      /\ UNCHANGED <<created, mLocalFiles, mLastLocal, mLastRemote, mTransmitHandler,
                     mData, fault, history, version>>
  BY <1>3, <1>6 DEF HandleInfo, ghosts
<1>8. UNCHANGED <<link, greeted, sAnnounced, sAddress, sOpened, sReaders, sData, late>>
  BY DEF serverSession
<1>9. toClient' = Tail(toClient)
  OBVIOUS
<1> HIDE DEF o, f, a, m0
<1>10. /\ Open(a) \in ClientMessage /\ Open(a) \in Outgoing /\ Open(a).type = "OPEN"
       /\ Open(a).address = a /\ Open(a) # Greeting
  BY <1>2, SystemSends DEF Outgoing, Open, Greeting
<1>11. /\ Roomy(mSendBuffer') /\ dropped' \in BOOLEAN /\ toServer' \in Seq(ClientMessage)
       /\ toServer' = toServer \/ (o \in Requested /\ toServer' = Append(toServer, Open(a)))
  <2>1. CASE o \in Requested
    BY <1>1, <1>7, <1>10, <2>1, SendResult
  <2>2. CASE o \notin Requested
    BY <1>7, <2>2, StateFacts DEF sending
  <2> QED BY <2>1, <2>2
<1>12. /\ Among(toServer', toServer, {Open(a)})
       /\ o \notin Requested => Among(toServer', toServer, {})
  <2>1. CASE toServer' = toServer
    BY <2>1, StateFacts, QueueMoves DEF Among
  <2>2. CASE o \in Requested /\ toServer' = Append(toServer, Open(a))
    BY <2>2, StateFacts, QueueMoves
  <2> QED BY <1>11, <2>1, <2>2
<1>13. /\ mRemoteFiles' \in Seq(File)
       /\ Remote' = Remote \cup {o}
  BY <1>4, <1>7, StateFacts, InsertMembers DEF Remote
<1>14. /\ \A h \in File : h # o => mAddress'[h] = mAddress[h] /\ isOpen'[h] = isOpen[h]
       /\ mAddress'[o] = a /\ (o \in Requested => isOpen'[o])
       /\ mAddress' \in [File -> Address] /\ isOpen' \in [File -> BOOLEAN]
  <2>1. mAddress \in [File -> Address] /\ isOpen \in [File -> BOOLEAN]
    BY DEF IInv, Typed, TypeOK
  <2>2. a \in Address
    BY <1>2, ServerPlaces DEF UserAddress, Address
  <2>3. /\ \A h \in File : h # o => mAddress'[h] = mAddress[h]
        /\ mAddress'[o] = a /\ mAddress' \in [File -> Address]
    BY <1>4, <1>7, <2>1, <2>2
  <2>4. (o \in Requested) \in BOOLEAN
    OBVIOUS
  <2>5. /\ \A h \in File : h # o => isOpen'[h] = isOpen[h]
        /\ isOpen'[o] = (o \in Requested) /\ isOpen' \in [File -> BOOLEAN]
    BY <1>4, <1>7, <2>1, <2>4, Zenon
  <2> QED BY <2>3, <2>5, Zenon
<1>15. o \notin Remote /\ \A h \in Remote : h \in File /\ h # o
  BY <1>4, <1>5, StateFacts
<1>16. \A g \in Local : mAddress'[g] = mAddress[g] /\ isOpen'[g] = isOpen[g]
  BY <1>4, <1>14, SystemFiles
<1> USE DEF IInv
<1>17. Typed'
  BY <1>1, <1>7, <1>8, <1>9, <1>11, <1>13, <1>14 DEF Typed, TypeOK, Roomy
<1>18. Owned'
  BY <1>7, <1>8, OwnedFrame DEF Owner
<1>19. Placed'
  BY <1>7, <1>16, StateFacts, PlacedFrame
<1>20. Session'
  <2>1. toServer' = toServer \/ (link # "down" /\ \E x : x # Greeting /\ toServer' = Append(toServer, x))
    BY <1>1, <1>10, <1>11
  <2> QED BY <1>1, <1>7, <1>8, <1>9, <2>1, StateFacts, SessionFrame
<1>21. ClientAnnounced'
  <2>1. \A x \in {Open(a)} : x.type # "INFO"
    BY <1>10
  <2>2. /\ UNCHANGED <<mLocalFiles, sOpened>>
        /\ \A g \in Local : sAddress'[g] = sAddress[g]
        /\ \A g \in Local : g \in sAnnounced' <=> g \in sAnnounced
        /\ \A g \in Local \ sOpened : version'[g] = version[g]
    BY <1>7, <1>8
  <2>3. ClientAnnounced /\ Published \subseteq Local
    BY StateFacts
  <2>4. PICK new : new = {Open(a)}
    OBVIOUS
  <2>5. Among(toServer', toServer, new) /\ \A x \in new : x.type # "INFO"
    BY <1>12, <2>1, <2>4
  <2>6. \A g \in Local : mAddress'[g] = mAddress[g]
    BY <1>16
  <2> HIDE DEF IInv
  <2> QED BY <2>2, <2>3, <2>5, <2>6, ClientAnnouncedFrame
<1>22. ServerAnnounced'
  <2>1. \A h \in Remote' :
          \E g \in sAnnounced \cap Announced : h \in {g, NewObject[g]} /\ mAddress'[h] = sAddress[g]
    <3>1. \A h \in Remote :
            \E g \in sAnnounced \cap Announced : h \in {g, NewObject[g]} /\ mAddress'[h] = sAddress[g]
      BY <1>14, <1>15 DEF ServerAnnounced
    <3>2. f \in sAnnounced \cap Announced /\ o \in {f, NewObject[f]} /\ mAddress'[o] = sAddress[f]
      BY <1>2, <1>4, <1>5, <1>14
    <3> QED BY <1>13, <3>1, <3>2
  <2>2. ASSUME NEW g \in Announced, g # f
        PROVE  o # g /\ o # NewObject[g]
    BY <1>2, <1>4, <2>2, SystemFiles
  <2>3. ASSUME NEW i \in DOMAIN toClient', toClient'[i].type = "INFO"
        PROVE  LET g == toClient'[i].file
               IN  /\ g \in sAnnounced /\ toClient'[i].address = sAddress[g]
                   /\ g \notin Remote' /\ NewObject[g] \notin Remote'
                   /\ \A j \in DOMAIN toClient' :
                        toClient'[j].type = "INFO" /\ toClient'[j].file = g => j = i
    <3> DEFINE g == toClient'[i].file
    <3>1. i \in Nat \ {0} /\ i + 1 \in DOMAIN toClient /\ toClient'[i] = toClient[i+1]
      BY <1>1, <1>9
    <3>2. /\ g \in sAnnounced /\ toClient'[i].address = sAddress[g] /\ g \in Announced
          /\ g \notin Remote /\ NewObject[g] \notin Remote
          /\ \A j \in DOMAIN toClient : toClient[j].type = "INFO" /\ toClient[j].file = g => j = i + 1
      BY <2>3, <3>1, StateFacts, SystemMessages DEF ServerAnnounced
    <3>3. g # f
      BY <1>5, <2>3, <3>1
    <3>4. ASSUME NEW j \in DOMAIN toClient', toClient'[j].type = "INFO", toClient'[j].file = g
          PROVE  j = i
      <4>1. j \in Nat \ {0} /\ j + 1 \in DOMAIN toClient /\ toClient'[j] = toClient[j+1]
        BY <1>1, <1>9
      <4>2. j + 1 = i + 1
        BY <3>2, <3>4, <4>1
      <4> QED BY <3>1, <4>1, <4>2
    <3> QED BY <1>13, <2>2, <3>2, <3>3, <3>4
  <2>4. \A g \in Announced : ~ (g \in Remote' /\ NewObject[g] \in Remote')
    <3>1. \A g \in Announced : ~ (g \in Remote /\ NewObject[g] \in Remote)
      BY DEF ServerAnnounced
    <3>2. f # NewObject[f]
      BY <1>2, SystemFiles
    <3> QED BY <1>4, <1>5, <1>13, <2>2, <3>1, <3>2
  <2> QED BY <1>8, <2>1, <2>3, <2>4 DEF ServerAnnounced
<1>23. Readers'
  <2>1. \A g : Ready(g) => Ready(g)'
    BY <1>8, <1>13, <1>14, <1>15 DEF Ready
  <2>2. \A g \in sReaders' : g \in sAnnounced' \cap Requested /\ Ready(g)'
    BY <1>8, <2>1 DEF Readers
  <2>3. ASSUME NEW i \in DOMAIN toServer', toServer'[i].type = "OPEN"
        PROVE  \E g \in sAnnounced' \cap Requested : sAddress'[g] = toServer'[i].address /\ Ready(g)'
    <3>1. CASE \E k \in DOMAIN toServer : toServer'[i] = toServer[k]
      BY <1>8, <2>1, <2>3, <3>1 DEF Readers
    <3>2. CASE o \in Requested /\ toServer'[i] = Open(a)
      <4>1. PICK g : g = o /\ g = f
        BY <1>4, <3>2
      <4>2. isOpen'[g] /\ mAddress'[g] = a /\ g \in Remote'
        BY <1>13, <1>14, <3>2, <4>1
      <4>3. link' = "up" /\ sAddress'[g] = a /\ g \in sAnnounced' /\ g \in Requested
        BY <1>1, <1>5, <1>8, <3>2, <4>1
      <4>4. Ready(g)'
        BY <4>2, <4>3 DEF Ready
      <4>5. toServer'[i].address = a
        BY <1>10, <3>2
      <4> QED BY <4>3, <4>4, <4>5
    <3> QED BY <1>12, <3>1, <3>2 DEF Among
  <2> QED BY <2>2, <2>3 DEF Readers
<1>24. ToServerCarried'
  <2>1. Carried(toServer', Local, OpenAtClient, mAddress, history, version)
    <3>1. CASE toServer' = toServer
      BY <3>1 DEF ToServerCarried
    <3>2. CASE toServer' = Append(toServer, Open(a))
      BY <1>10, <3>2, StateFacts, CarriedBehind DEF ToServerCarried
    <3> QED BY <1>11, <3>1, <3>2
  <2>2. OpenAtClient' = OpenAtClient /\ \A g \in OpenAtClient : mAddress'[g] = mAddress[g]
    BY <1>16 DEF OpenAtClient
  <2>3. Carried(toServer', Local, OpenAtClient', mAddress', history', version')
    BY <1>7, <2>1, <2>2 DEF Carried
  <2> QED BY <2>3 DEF ToServerCarried
<1>25. ToClientCarried'
  <2>1. m0.type # "WRITE"
    BY <1>1
  <2>2. \A g \in Requested : version[g] \in Nat /\ Len(history[g]) \in Nat
    BY FileFacts DEF Mirrored
  <2>3. Carried(Tail(toClient), Requested, sReaders, sAddress, history, version)
    BY <2>1, <2>2, StateFacts, CarriedTail DEF ToClientCarried, m0
  <2>4. Carried(toClient', Requested, sReaders', sAddress', history', version')
    BY <1>7, <1>8, <1>9, <2>3
  <2> QED BY <2>4 DEF ToClientCarried, Carried
<1>26. Snapshot'
  BY <1>7, <1>8, SnapshotFrame DEF Replica
<1> QED BY <1>7, <1>17, <1>18, <1>19, <1>20, <1>21, <1>22, <1>23, <1>24, <1>25, <1>26

\* Where the files of the server are that the client has in its remote map.
LEMMA RemotePlaces ==
    ASSUME IInv
    PROVE  /\ \A h \in Remote : \E f \in sAnnounced \cap Announced :
                h \in {f, NewObject[f]} /\ mAddress[h] = sAddress[f] /\ Length[h] = Length[f]
           /\ \A f \in sAnnounced \cap Announced :
                sAddress[f] \in Nat /\ sAddress[f] + Length[f] <= USER_DATA_END
                  /\ sAddress[f] \in UserAddress
           /\ \A h \in Remote, a \in Nat : Covers(mAddress, h, a) <=> Within(mAddress[h], h, a)
<1>1. \A h \in Remote : \E f \in sAnnounced \cap Announced :
        h \in {f, NewObject[f]} /\ mAddress[h] = sAddress[f] /\ Length[h] = Length[f]
  BY SystemFiles DEF IInv, ServerAnnounced
<1>2. \A f \in sAnnounced \cap Announced :
        sAddress[f] \in Nat /\ sAddress[f] + Length[f] <= USER_DATA_END
          /\ sAddress[f] \in UserAddress
  BY ServerPlaces DEF IInv, ServerAnnounced
<1>3. ASSUME NEW h \in Remote, NEW a \in Nat
      PROVE  Covers(mAddress, h, a) <=> Within(mAddress[h], h, a)
  <2>1. mAddress[h] \in Nat /\ mAddress[h] + Length[h] <= USER_DATA_END /\ Length[h] \in Nat
    BY <1>1, <1>2, SystemFiles
  <2>2. (mAddress[h] + Length[h]) % WordSize = mAddress[h] + Length[h]
    BY <2>1, ServerPlaces
  <2> QED BY <2>2 DEF Covers, EndAddress, Within
<1> QED BY <1>1, <1>2, <1>3

\* A FILE_OPEN.
LEMMA FileOpenIInv ==
    ASSUME IInv, ~fault, toClient # <<>>, Head(toClient) # Acknowledge,
           Head(toClient).type = "OPEN",
           HandleOpen(Received(Head(toClient))), UNCHANGED link, toClient' = Tail(toClient),
           UNCHANGED <<serverSession, sData, late>>
    PROVE  IInv' /\ UNCHANGED <<history, version>>
<1> DEFINE m0 == toClient[1]
<1>1. /\ link = "up" /\ greeted /\ mTransmitHandler
      /\ 1 \in DOMAIN toClient /\ Head(toClient) = m0 /\ m0.type = "OPEN"
      /\ m0 \in ServerMessage
      /\ Tail(toClient) \in Seq(ServerMessage)
  BY Incoming
<1>2. Received(m0) = m0
  BY <1>1, SystemReads
<1>3. HandleOpen(m0)
  BY <1>1, <1>2
<1> HIDE DEF m0
<1>4. PICK i :
        /\ i = LookupIndex(mLocalFiles, mLastLocal, mAddress, m0.address)
        /\ mLastLocal' = i
        /\ IF FileAt(mLocalFiles, i) = NoFile
             THEN UNCHANGED <<isOpen, sending>>
             ELSE /\ isOpen' = [isOpen EXCEPT ![FileAt(mLocalFiles, i)] = TRUE]
                  /\ Send(Write(mAddress[FileAt(mLocalFiles, i)],
                                mData[FileAt(mLocalFiles, i)],
                                Version(FileAt(mLocalFiles, i))))
  BY <1>3 DEF HandleOpen
<1>5. UNCHANGED <<created, mLocalFiles, mRemoteFiles, mAddress, mLastRemote,
                  mTransmitHandler, mData, fault, history, version, link,
                  greeted, sAnnounced, sAddress, sOpened, sReaders, sData, late>>
  BY <1>3 DEF HandleOpen, ghosts, serverSession
<1>6. i \in 0 .. Len(mLocalFiles)
  BY <1>4, StateFacts, LookupResult DEF IInv, Typed, TypeOK
<1>7. toClient' = Tail(toClient)
  OBVIOUS
<1> DEFINE Effect ==
      /\ Roomy(mSendBuffer') /\ dropped' \in BOOLEAN /\ toServer' \in Seq(ClientMessage)
      /\ isOpen' \in [File -> BOOLEAN]
      /\ \A g \in File : isOpen[g] => isOpen'[g]
      /\ \A g \in Local : isOpen'[g] => g \in Published
      /\ toServer' = toServer
           \/ \E m : m.type = "WRITE" /\ m # Greeting /\ toServer' = Append(toServer, m)
      /\ Carried(toServer', Local, OpenAtClient', mAddress, history, version)
<1>8. isOpen \in [File -> BOOLEAN] /\ \A g \in Local : isOpen[g] => g \in Published
  BY DEF IInv, Typed, TypeOK, Placed
<1>9. Carried(toServer, Local, OpenAtClient, mAddress, history, version)
  BY DEF IInv, ToServerCarried
<1> HIDE DEF Effect
<1>10. ASSUME i = 0 PROVE Effect
  <2>1. UNCHANGED <<isOpen, mSendBuffer, toServer, dropped>>
    BY <1>4, <1>10 DEF FileAt, sending
  <2>2. OpenAtClient' = OpenAtClient
    BY <2>1 DEF OpenAtClient
  <2>3. Carried(toServer', Local, OpenAtClient', mAddress, history, version)
    BY <1>9, <2>1, <2>2
  <2>4. Roomy(mSendBuffer) /\ dropped \in BOOLEAN /\ toServer \in Seq(ClientMessage)
    BY StateFacts
  <2>5. Roomy(mSendBuffer') /\ dropped' \in BOOLEAN /\ toServer' \in Seq(ClientMessage)
    BY <2>1, <2>4
  <2>6. /\ isOpen' \in [File -> BOOLEAN]
        /\ \A g \in File : isOpen[g] => isOpen'[g]
        /\ \A g \in Local : isOpen'[g] => g \in Published
    BY <1>8, <2>1
  <2> QED BY <2>1, <2>3, <2>5, <2>6, Zenon DEF Effect
<1>11. ASSUME i # 0 PROVE Effect
  <2>1. PICK f : f = mLocalFiles[i]
    OBVIOUS
  <2>2. i \in DOMAIN mLocalFiles /\ FileAt(mLocalFiles, i) = f
    <3>1. DOMAIN mLocalFiles = 1 .. Len(mLocalFiles) /\ Len(mLocalFiles) \in Nat
      BY StateFacts, LenProperties
    <3> QED BY <1>6, <1>11, <2>1, <3>1 DEF FileAt
  <2>3. f \in Published /\ f \in Local /\ f \in File /\ f \in Mirrored /\ f # NoFile
    BY <2>1, <2>2, StateFacts, SystemFiles, Files DEF Published, ToSet
  <2> DEFINE w == Write(mAddress[f], mData[f], Version(f))
  <2>4. isOpen' = [isOpen EXCEPT ![f] = TRUE] /\ Send(w)
    BY <1>4, <2>2, <2>3
  <2>5. /\ mAddress[f] \in UserAddress /\ mData[f] \in Data
        /\ Version(f) \in Nat
    <3>1. mAddress[f] \in Nat /\ Length[f] \in Nat \ {0} /\ mAddress[f] + Length[f] <= USER_DATA_END
      BY <2>3, StateFacts, SystemFiles DEF IInv, Placed
    <3>2. mAddress[f] \in UserAddress
      BY <3>1, ServerPlaces DEF UserAddress
    <3>3. mData[f] \in Data /\ Version(f) \in Nat
      BY <2>3, FileFacts, SystemSends DEF Version
    <3> QED BY <3>2, <3>3
  <2>6. /\ w \in ClientMessage /\ w \in WriteMessage(Nat) /\ w.type = "WRITE"
    BY <2>5, SystemSends DEF Write
  <2>7. w \in Outgoing /\ w # Greeting
    BY <2>6, SystemMessages DEF Outgoing
  <2>8. w = Write(mAddress[f], history[f][Len(history[f])], Len(history[f]))
    <3>1. history[f][Len(history[f])] = mData[f]
      BY <2>3, FileFacts DEF Owner
    <3> QED BY <3>1 DEF Version
  <2> HIDE DEF w
  <2>9. /\ Roomy(mSendBuffer') /\ dropped' \in BOOLEAN /\ toServer' \in Seq(ClientMessage)
        /\ toServer' = toServer \/ toServer' = Append(toServer, w)
    BY <1>1, <2>4, <2>6, <2>7, SendResult
  <2>10. /\ isOpen' \in [File -> BOOLEAN]
         /\ \A g \in File : isOpen[g] => isOpen'[g]
         /\ \A g \in Local : isOpen'[g] => g \in Published
    BY <1>8, <2>3, <2>4
  <2>11. OpenAtClient' = OpenAtClient \cup {f}
    BY <1>8, <2>3, <2>4, SystemFiles DEF OpenAtClient
  <2>12. /\ OpenAtClient \cup {f} \subseteq Published
         /\ \A g \in OpenAtClient \cup {f} : mAddress[g] \in Nat
    BY <2>3, FileFacts, StateFacts, SystemFiles
  <2>13. Separate(OpenAtClient \cup {f}, mAddress)
    BY <2>12, FileFacts DEF Separate
  <2>14. Carried(toServer, Local, OpenAtClient \cup {f}, mAddress, history, version)
    <3>1. \A k \in DOMAIN toServer : toServer[k].type = "WRITE" => toServer[k].address \in Nat
      BY StateFacts, SystemMessages
    <3> QED BY <1>9, <2>3, <2>12, <2>13, <3>1, SystemFiles, CarriedOpened
  <2>15. Carried(Append(toServer, w), Local, OpenAtClient \cup {f}, mAddress, history, version)
    <3>1. /\ history[f] \in Seq(Content(f)) /\ history[f] # <<>>
          /\ version[f] \in 0 .. Len(history[f])
      BY <2>3, FileFacts
    <3>2. f \in OpenAtClient \cup {f} /\ toServer \in Seq(ClientMessage) /\ Local \subseteq File
      BY StateFacts, SystemFiles
    <3> QED BY <2>8, <2>12, <2>13, <2>14, <3>1, <3>2, CarriedWhole
  <2>16. Carried(toServer', Local, OpenAtClient', mAddress, history, version)
    BY <2>9, <2>11, <2>14, <2>15
  <2>17. toServer' = toServer
           \/ \E m : m.type = "WRITE" /\ m # Greeting /\ toServer' = Append(toServer, m)
    BY <2>6, <2>7, <2>9
  <2> QED BY <2>9, <2>10, <2>16, <2>17, Zenon DEF Effect
<1>12. Effect
  BY <1>10, <1>11
<1>13. /\ Roomy(mSendBuffer') /\ dropped' \in BOOLEAN /\ toServer' \in Seq(ClientMessage)
       /\ isOpen' \in [File -> BOOLEAN]
       /\ \A g \in File : isOpen[g] => isOpen'[g]
       /\ \A g \in Local : isOpen'[g] => g \in Published
       /\ Carried(toServer', Local, OpenAtClient', mAddress, history, version)
  BY <1>12 DEF Effect
<1>14. PICK m : /\ m.type = "WRITE" /\ m # Greeting
                /\ toServer' = toServer \/ toServer' = Append(toServer, m)
  <2>1. [type |-> "WRITE"].type = "WRITE" /\ [type |-> "WRITE"] # Greeting
    BY DEF Greeting
  <2> QED BY <1>12, <2>1 DEF Effect
<1>15. Among(toServer', toServer, {m})
  <2>1. toServer \in Seq(ClientMessage)
    BY StateFacts
  <2>2. Among(toServer, toServer, {}) /\ Among(Append(toServer, m), toServer, {m})
    BY <2>1, QueueMoves
  <2>3. Among(toServer, toServer, {m})
    BY <2>2 DEF Among
  <2> QED BY <1>14, <2>2, <2>3
<1> USE DEF IInv
<1>16. Typed'
  BY <1>1, <1>4, <1>5, <1>6, <1>7, <1>13 DEF Typed, TypeOK, Roomy
<1>17. Owned'
  BY <1>5, OwnedFrame DEF Owner
<1>18. Placed'
  <2>1. Published' = Published
    BY <1>5 DEF Published
  <2> QED BY <1>1, <1>5, <1>13, <2>1 DEF Placed
<1>19. Session'
  BY <1>1, <1>5, <1>7, <1>14, StateFacts, SessionFrame
<1>20. ClientAnnounced'
  <2>1. \A x \in {m} : x.type # "INFO"
    BY <1>14
  <2> QED BY <1>5, <1>15, <2>1, StateFacts, ClientAnnouncedFrame
<1>21. ServerAnnounced'
  BY <1>5, <1>7, StateFacts, SystemMessages, ServerAnnouncedFrame
<1>22. Readers'
  <2>1. \A f \in sAnnounced \cap Requested : sAddress'[f] = sAddress[f] /\ (Ready(f) => Ready(f)')
    BY <1>5, <1>13, SystemFiles DEF Ready, Remote
  <2>2. \A x \in {m} : x.type # "OPEN"
    BY <1>14
  <2> QED BY <1>5, <1>15, <2>1, <2>2, ReadersFrame
<1>23. ToServerCarried'
  BY <1>5, <1>13 DEF ToServerCarried
<1>24. ToClientCarried'
  <2>1. m0.type # "WRITE"
    BY <1>1
  <2>2. \A g \in Requested : version[g] \in Nat /\ Len(history[g]) \in Nat
    BY FileFacts DEF Mirrored
  <2>3. Carried(Tail(toClient), Requested, sReaders, sAddress, history, version)
    BY <2>1, <2>2, StateFacts, CarriedTail DEF ToClientCarried, m0
  <2>4. Carried(toClient', Requested, sReaders', sAddress', history', version')
    BY <1>5, <1>7, <2>3
  <2> QED BY <2>4 DEF ToClientCarried, Carried
<1>25. Snapshot'
  BY <1>5, SnapshotFrame DEF Replica
<1> QED BY <1>5, <1>16, <1>17, <1>18, <1>19, <1>20, <1>21, <1>22, <1>23, <1>24, <1>25

\* A WRITE_DATA.
LEMMA FileWriteIInv ==
    ASSUME IInv, ~fault, toClient # <<>>, Head(toClient) # Acknowledge,
           Head(toClient).type = "WRITE",
           HandleWrite(Received(Head(toClient))), UNCHANGED link, toClient' = Tail(toClient),
           UNCHANGED <<serverSession, sData, late>>
    PROVE  /\ IInv' /\ history' = history
           /\ \/ version' = version
              \/ \E f \in Mirrored, v \in Nat :
                   version[f] <= v /\ version' = [version EXCEPT ![f] = v]
<1> DEFINE m0 == toClient[1]
<1>1. /\ link = "up" /\ greeted /\ mTransmitHandler
      /\ 1 \in DOMAIN toClient /\ Head(toClient) = m0 /\ m0.type = "WRITE"
      /\ m0 \in ServerMessage
      /\ Tail(toClient) \in Seq(ServerMessage)
      /\ \A i \in DOMAIN Tail(toClient) : i \in Nat \ {0} /\ i + 1 \in DOMAIN toClient
                                          /\ Tail(toClient)[i] = toClient[i+1]
  BY Incoming
<1>2. PICK m : m = m0
  OBVIOUS
<1>3. HandleWrite(m) /\ toClient[1] = m /\ m.type = "WRITE" /\ m \in ServerMessage
  BY <1>1, <1>2, SystemReads
<1>4. m.address \in Nat /\ m.data \in Data
  BY <1>3, SystemMessages
<1>5. UNCHANGED <<greeted, sAnnounced, sAddress, sOpened, sReaders, sData, late, link>>
  BY DEF serverSession
<1>6. toClient' = Tail(toClient)
  OBVIOUS
<1>7. PICK g \in sReaders : Within(sAddress[g], g, m.address)
  BY <1>1, <1>3 DEF IInv, ToClientCarried
<1>8. /\ g \in sAnnounced \cap Requested /\ isOpen[g] /\ g \in Remote
      /\ mAddress[g] = sAddress[g] /\ g \in Announced /\ g \in Mirrored /\ g \in File
      /\ g \notin Local
  BY SystemFiles DEF IInv, Readers, Ready
<1> DEFINE Effect ==
      /\ UNCHANGED <<created, mLocalFiles, mRemoteFiles, mAddress, mLastLocal, isOpen,
                     mTransmitHandler, history, mSendBuffer, toServer, dropped>>
      /\ mLastRemote' \in Nat /\ fault' \in BOOLEAN
      /\ mData' \in [Mirrored -> UNION {Content(f) : f \in Mirrored}]
      /\ version' \in [Mirrored -> Nat]
      /\ \A f \in Mirrored \ {g} : mData'[f] = mData[f] /\ version'[f] = version[f]
      /\ mData'[g] \in Content(g) /\ version'[g] \in 0 .. Len(history[g])
      /\ version'[g] # 0 => mData'[g] = history[g][version'[g]]
      /\ \A i \in DOMAIN toClient' :
           toClient'[i].type = "WRITE" =>
             \E f \in sReaders : Within(sAddress[f], f, toClient'[i].address)
      /\ ~fault' => Carried(toClient', Requested, sReaders, sAddress, history, version')
      /\ \/ version' = version
         \/ \E f \in Mirrored, v \in Nat :
              version[f] <= v /\ version' = [version EXCEPT ![f] = v]
<1> HIDE DEF Effect, m0
<1>9. /\ mData[g] \in Content(g) /\ version[g] \in Nat /\ version[g] \in 0 .. Len(history[g])
      /\ history[g] \in Seq(Content(g)) /\ Len(history[g]) \in Nat
      /\ version[g] # 0 => mData[g] = history[g][version[g]]
  <2>1. version[g] # 0 => mData[g] = history[g][version[g]]
    BY <1>8 DEF IInv, Snapshot, Replica
  <2> QED BY <1>8, <2>1, FileFacts
<1>10. /\ mData \in [Mirrored -> UNION {Content(f) : f \in Mirrored}]
       /\ version \in [Mirrored -> Nat] /\ fault \in BOOLEAN /\ mLastRemote \in Nat
  BY DEF IInv, Typed, TypeOK
<1>11. \A i \in DOMAIN toClient' :
         toClient'[i].type = "WRITE" =>
           \E f \in sReaders : Within(sAddress[f], f, toClient'[i].address)
  BY <1>1, <1>6 DEF IInv, ToClientCarried
<1>12. ASSUME ~ LookupDefined(mRemoteFiles, mLastRemote)
       PROVE  Effect
  <2>1. /\ fault' = TRUE
        /\ UNCHANGED <<created, mLocalFiles, mRemoteFiles, mAddress, mLastLocal, mLastRemote,
                       isOpen, mTransmitHandler, mData, mSendBuffer, toServer, dropped,
                       history, version>>
    BY <1>3, <1>12 DEF HandleWrite, maps, sending, ghosts
  <2> QED BY <1>9, <1>10, <1>11, <2>1 DEF Effect
<1>13. ASSUME LookupDefined(mRemoteFiles, mLastRemote)
       PROVE  Effect
  <2>1. PICK i :
          /\ i = LookupIndex(mRemoteFiles, mLastRemote, mAddress, m.address)
          /\ mLastRemote' = i
          /\ LET f == FileAt(mRemoteFiles, i)
                 offset == m.address - mAddress[f]
             IN  IF f # NoFile /\ isOpen[f] /\ offset + Len(m.data) <= Length[f]
                   THEN /\ mData' = [mData EXCEPT ![f] = Overwrite(@, offset, m.data)]
                        /\ version' = [version EXCEPT ![f] = Arrived(f, m)]
                   ELSE UNCHANGED <<mData, version>>
    BY <1>3, <1>13 DEF HandleWrite
  <2>2. UNCHANGED <<created, mLocalFiles, mRemoteFiles, mAddress, mLastLocal, isOpen,
                    mTransmitHandler, mSendBuffer, toServer, dropped, fault, history>>
    BY <1>3, <1>13 DEF HandleWrite, sending
  <2>3. Len(mRemoteFiles) \in Nat /\ DOMAIN mRemoteFiles = 1 .. Len(mRemoteFiles)
    BY StateFacts, LenProperties
  <2>4. /\ i \in 0 .. Len(mRemoteFiles)
        /\ IF i = 0 THEN Hits(mRemoteFiles, mAddress, m.address) = {}
           ELSE i \in Hits(mRemoteFiles, mAddress, m.address)
    <3>1. mLastRemote \in 0 .. Len(mRemoteFiles)
      BY <1>10, <1>13, <2>3 DEF LookupDefined
    <3> QED BY <2>1, <3>1, StateFacts, LookupResult
  <2>5. i # 0
    <3>1. PICK k \in DOMAIN mRemoteFiles : mRemoteFiles[k] = g
      BY <1>8 DEF Remote, ToSet
    <3>2. Covers(mAddress, g, m.address)
      BY <1>4, <1>7, <1>8, RemotePlaces
    <3>3. k \in Hits(mRemoteFiles, mAddress, m.address)
      BY <3>1, <3>2 DEF Hits
    <3> QED BY <2>4, <3>3
  <2>6. PICK h : h = mRemoteFiles[i]
    OBVIOUS
  <2>7. i \in DOMAIN mRemoteFiles /\ h \in Remote /\ Covers(mAddress, h, m.address)
    BY <2>3, <2>4, <2>5, <2>6 DEF Hits, Remote, ToSet
  <2>8. PICK f \in sAnnounced \cap Announced :
          h \in {f, NewObject[f]} /\ mAddress[h] = sAddress[f] /\ Length[h] = Length[f]
    BY <2>7, RemotePlaces
  <2>9. f = g
    <3>1. Within(sAddress[f], f, m.address)
      BY <1>4, <2>7, <2>8, RemotePlaces DEF Within
    <3>2. ASSUME f # g PROVE FALSE
      <4>1. Apart(sAddress[g], g, sAddress[f], f)
        BY <1>8, <3>2, ServerPlaces DEF IInv, ServerAnnounced
      <4>2. sAddress[f] \in Nat /\ sAddress[g] \in Nat /\ f \in File
        BY <1>8, StateFacts, SystemFiles
      <4> QED BY <1>4, <1>7, <1>8, <3>1, <4>1, <4>2, OneFile
    <3> QED BY <3>2
  <2>10. h = g
    BY <1>8, <2>7, <2>8, <2>9 DEF IInv, ServerAnnounced
  <2> DEFINE offset == m.address - mAddress[g]
             new == Arrived(g, m)
             content == Overwrite(mData[g], offset, m.data)
  <2>11. FileAt(mRemoteFiles, i) = g /\ g # NoFile
    BY <1>8, <2>5, <2>6, <2>10, Files DEF FileAt
  <2>12. ~fault
    OBVIOUS
  <2>13. Carried(toClient, Requested, sReaders, sAddress, history, version)
    BY <2>12 DEF IInv, ToClientCarried
  <2>14. Chain(toClient, g, sAddress[g], history[g], version[g])
    BY <2>13 DEF Carried
  <2>15. 1 \in Targets(toClient, g, sAddress[g])
         /\ \A k \in Targets(toClient, g, sAddress[g]) : k \in Nat \ {0}
    <3>1. \A k \in DOMAIN toClient : k \in Nat \ {0}
      BY StateFacts, LenProperties
    <3> QED BY <1>1, <1>3, <1>7, <3>1 DEF Targets
  <2>16. new = IF Len(m.data) = Length[g] \/ version[g] # 0 THEN m.version ELSE version[g]
    BY DEF Arrived
  <2>17. /\ offset \in Nat /\ offset + Len(m.data) <= Length[g]
         /\ content \in Content(g)
         /\ new \in 0 .. Len(history[g]) /\ version[g] <= new /\ (new = m.version \/ new = 0)
         /\ new # 0 => content = history[g][new]
    <3>1. sAddress[g] \in Nat
      BY <1>8, StateFacts
    <3>2. offset = toClient[1].address - sAddress[g] /\ m.data = toClient[1].data
          /\ content = Overwrite(mData[g], offset, m.data)
      BY <1>3, <1>8
    <3> HIDE DEF new, offset, content
    <3>3. /\ history[g] \in Seq(Content(g)) /\ version[g] \in Nat
          /\ mData[g] \in Content(g)
          /\ version[g] # 0 => mData[g] = history[g][version[g]]
          /\ toClient[1].data \in Data /\ toClient[1].address \in Nat
          /\ new = IF Len(toClient[1].data) = Length[g] \/ version[g] # 0
                     THEN toClient[1].version ELSE version[g]
      BY <1>3, <1>4, <1>9, <2>16
    <3>4. LET o == toClient[1].address - sAddress[g] IN
            /\ o \in Nat /\ o + Len(toClient[1].data) <= Length[g]
            /\ Overwrite(mData[g], o, toClient[1].data) \in Content(g)
            /\ new \in 0 .. Len(history[g]) /\ version[g] <= new
            /\ new = toClient[1].version \/ new = 0
            /\ new # 0 => Overwrite(mData[g], o, toClient[1].data) = history[g][new]
      <4>1. Facing(toClient, g, sAddress[g], history[g], version[g], mData[g])
        BY <1>8, <2>14, <2>15, <3>1, <3>3 DEF Facing
      <4>2. new = After(toClient[1], g, version[g])
        BY <3>3 DEF After
      <4> QED BY <4>1, <4>2, HeadApplied
    <3>5. /\ offset \in Nat /\ offset + Len(m.data) <= Length[g]
          /\ content \in Content(g)
          /\ new # 0 => content = history[g][new]
      BY <3>2, <3>4, Zenon
    <3>6. new \in 0 .. Len(history[g]) /\ version[g] <= new /\ (new = m.version \/ new = 0)
      BY <1>3, <3>4
    <3> QED BY <3>5, <3>6, Zenon
  <2> HIDE DEF new
  <2>18. /\ mData' = [mData EXCEPT ![g] = content]
         /\ version' = [version EXCEPT ![g] = new]
    BY <1>8, <2>1, <2>11, <2>17 DEF new
  <2> HIDE DEF offset, content
  <2>19. new \in Nat
    BY <1>9, <2>17
  <2>20. /\ mData' \in [Mirrored -> UNION {Content(k) : k \in Mirrored}]
         /\ version' \in [Mirrored -> Nat]
         /\ \A k \in Mirrored \ {g} : mData'[k] = mData[k] /\ version'[k] = version[k]
         /\ mData'[g] = content /\ version'[g] = new
    <3>1. content \in UNION {Content(k) : k \in Mirrored}
      BY <1>8, <2>17
    <3> QED BY <1>8, <1>10, <2>18, <2>19, <3>1
  <2>21. Carried(toClient', Requested, sReaders, sAddress, history, version')
    <3>1. Requested \subseteq File /\ Requested \subseteq Mirrored
      BY SystemFiles DEF Mirrored
    <3>2. \A k \in Requested : version[k] \in Nat /\ Len(history[k]) \in Nat
      BY <3>1, FileFacts
    <3>3. \A k \in sReaders : sAddress[k] \in Nat
      BY <3>1, FileFacts, StateFacts
    <3>4. Separate(sReaders, sAddress)
      BY FileFacts
    <3>5. \A k \in Requested : k # g => version'[k] = version[k]
      BY <2>20, <3>1
    <3>6. version'[g] \in Nat /\ (version'[g] = toClient[1].version \/ version'[g] = 0)
      BY <1>3, <2>17, <2>19, <2>20
    <3> QED BY <1>3, <1>4, <1>6, <1>7, <2>13, <3>1, <3>2, <3>3, <3>4, <3>5, <3>6,
               StateFacts, CarriedTaken
  <2>22. mLastRemote' \in Nat
    BY <2>1, <2>3, <2>4
  <2>23. \E k \in Mirrored, v \in Nat :
           version[k] <= v /\ version' = [version EXCEPT ![k] = v]
    BY <1>8, <2>17, <2>18, <2>19
  <2>24. /\ mData'[g] \in Content(g) /\ version'[g] \in 0 .. Len(history[g])
         /\ version'[g] # 0 => mData'[g] = history[g][version'[g]]
    BY <2>17, <2>20
  <2>25. fault' \in BOOLEAN
    BY <1>10, <2>2
  <2> QED BY <1>11, <2>2, <2>20, <2>21, <2>22, <2>23, <2>24, <2>25, Zenon DEF Effect
<1>14. Effect
  BY <1>12, <1>13
<1>15. /\ UNCHANGED <<created, mLocalFiles, mRemoteFiles, mAddress, mLastLocal, isOpen,
                      mTransmitHandler, history, mSendBuffer, toServer, dropped>>
       /\ mLastRemote' \in Nat /\ fault' \in BOOLEAN
       /\ mData' \in [Mirrored -> UNION {Content(f) : f \in Mirrored}]
       /\ version' \in [Mirrored -> Nat]
       /\ \A f \in Mirrored \ {g} : mData'[f] = mData[f] /\ version'[f] = version[f]
       /\ mData'[g] \in Content(g) /\ version'[g] \in 0 .. Len(history[g])
       /\ version'[g] # 0 => mData'[g] = history[g][version'[g]]
       /\ \A i \in DOMAIN toClient' :
            toClient'[i].type = "WRITE" =>
              \E f \in sReaders : Within(sAddress[f], f, toClient'[i].address)
       /\ ~fault' => Carried(toClient', Requested, sReaders, sAddress, history, version')
  BY <1>14 DEF Effect
<1>16. Among(toServer', toServer, {})
  BY <1>15, StateFacts, QueueMoves
<1>17. \A f \in Local : f \in Mirrored \ {g}
  BY <1>8 DEF Mirrored
<1> USE DEF IInv
<1>18. Typed'
  <2>1. \A f \in Mirrored : mData'[f] \in Content(f) /\ version'[f] \in 0 .. Len(history'[f])
    BY <1>15, FileFacts
  <2> QED BY <1>1, <1>5, <1>6, <1>15, <2>1 DEF Typed, TypeOK
<1>19. Owned'
  <2>1. \A f \in Mirrored : Owner(f)' = Owner(f)
    BY <1>5, <1>15, <1>17 DEF Owner
  <2> QED BY <1>15, <2>1, OwnedFrame
<1>20. Placed'
  BY <1>15, StateFacts, PlacedFrame
<1>21. Session'
  BY <1>1, <1>5, <1>6, <1>15, StateFacts, SessionFrame
<1>22. ClientAnnounced'
  <2>1. \A f \in Local : version'[f] = version[f]
    BY <1>15, <1>17
  <2>2. ClientAnnounced /\ Published \subseteq Local
    BY StateFacts
  <2>3. \A x \in {} : x.type # "INFO"
    OBVIOUS
  <2> HIDE DEF IInv
  <2> QED BY <1>5, <1>15, <1>16, <2>1, <2>2, <2>3, ClientAnnouncedFrame, SMTT(30)
<1>23. ServerAnnounced'
  BY <1>5, <1>6, <1>15, StateFacts, SystemMessages, ServerAnnouncedFrame
<1>24. Readers'
  BY <1>5, <1>15, <1>16, ReadersFrame DEF Ready, Remote
<1>25. ToServerCarried'
  <2>1. OpenAtClient' = OpenAtClient
    BY <1>15 DEF OpenAtClient
  <2>2. \A f \in Local : version'[f] = version[f]
    BY <1>15, <1>17
  <2>3. Carried(toServer, Local, OpenAtClient, mAddress, history, version')
    BY <2>2 DEF ToServerCarried, Carried, OpenAtClient
  <2> QED BY <1>15, <2>1, <2>3 DEF ToServerCarried
<1>26. ToClientCarried'
  BY <1>5, <1>15 DEF ToClientCarried
<1>27. Snapshot'
  <2>1. ASSUME NEW f \in Mirrored, version'[f] # 0
        PROVE  Replica(f)' = history'[f][version'[f]]
    <3>1. CASE f = g
      BY <1>8, <1>15, <2>1, <3>1 DEF Replica
    <3>2. CASE f # g
      BY <1>5, <1>15, <2>1, <3>2 DEF Replica, Snapshot
    <3> QED BY <3>1, <3>2
  <2> QED BY <2>1 DEF Snapshot
<1>28. history' = history
  BY <1>15
<1>29. \/ version' = version
       \/ \E f \in Mirrored, v \in Nat :
            version[f] <= v /\ version' = [version EXCEPT ![f] = v]
  BY <1>14 DEF Effect
<1> QED BY <1>18, <1>19, <1>20, <1>21, <1>22, <1>23, <1>24, <1>25, <1>26, <1>27, <1>28, <1>29

\* What a step may do to history and version: nothing, a new state of one file, a later
\* state at one replica, or the loss of all replicas.
GhostStep ==
    \/ UNCHANGED <<history, version>>
    \/ /\ \E f \in Mirrored : \E c \in Content(f) : history' = [history EXCEPT ![f] = Append(@, c)]
       /\ version' = version
    \/ /\ \E f \in Mirrored, v \in Nat :
            version[f] <= v /\ version' = [version EXCEPT ![f] = v]
       /\ history' = history
    \/ version' = [f \in Mirrored |-> 0] /\ history' = history

\* ClientReceives, as one step.
LEMMA ClientReceivesIInv ==
    ASSUME IInv, ClientReceives
    PROVE  IInv' /\ GhostStep
<1>1. /\ ~fault /\ toClient # <<>> /\ toClient' = Tail(toClient)
      /\ UNCHANGED <<serverSession, sData, late>>
  BY DEF ClientReceives
<1>2. CASE Head(toClient) = Acknowledge
  <2>1. HandlerConnected /\ link' = "up"
    BY <1>2 DEF ClientReceives
  <2> QED BY <1>1, <1>2, <2>1, AcknowledgedIInv DEF GhostStep
<1>3. CASE Head(toClient) # Acknowledge
  <2>1. Handle(Received(Head(toClient)))
    BY <1>3 DEF ClientReceives
  <2>2. Received(Head(toClient)).type = Head(toClient).type
        /\ Head(toClient).type \in {"INFO", "OPEN", "WRITE"}
    <3>1. Head(toClient) \in ServerMessage /\ Head(toClient).type \in {"INFO", "OPEN", "WRITE"}
      BY <1>1, <1>3, Incoming
    <3> QED BY <3>1, SystemReads
  <2> DEFINE r == Received(Head(toClient))
  <2>3. CASE Head(toClient).type = "INFO"
    <3>1. HandleInfo(r) /\ UNCHANGED link
      BY <2>1, <2>2, <2>3 DEF Handle
    <3> QED BY <1>1, <1>3, <2>3, <3>1, FileInfoIInv DEF GhostStep
  <2>4. CASE Head(toClient).type = "OPEN"
    <3>1. HandleOpen(r) /\ UNCHANGED link
      BY <2>1, <2>2, <2>4 DEF Handle
    <3> QED BY <1>1, <1>3, <2>4, <3>1, FileOpenIInv DEF GhostStep
  <2>5. CASE Head(toClient).type = "WRITE"
    <3>1. HandleWrite(r) /\ UNCHANGED link
      BY <2>1, <2>2, <2>5 DEF Handle
    <3>2. /\ IInv' /\ history' = history
          /\ \/ version' = version
             \/ \E f \in Mirrored, v \in Nat :
                  version[f] <= v /\ version' = [version EXCEPT ![f] = v]
      BY <1>1, <1>3, <2>5, <3>1, FileWriteIInv
    <3> QED BY <3>2 DEF GhostStep
  <2> QED BY <2>2, <2>3, <2>4, <2>5
<1> QED BY <1>2, <1>3

-----------------------------------------------------------------------------
(* The application. *)

LEMMA CreateIInv ==
    ASSUME IInv, Create
    PROVE  IInv' /\ UNCHANGED <<history, version>>
<1>1. /\ ~fault /\ ~created /\ created' = TRUE /\ CreateLocalNode
      /\ late' = (link = "up")
      /\ UNCHANGED <<mRemoteFiles, isOpen, mLastLocal, mLastRemote, mTransmitHandler, mData,
                     link, fault, history, version, toClient, sData,
                     mSendBuffer, toServer, dropped,
                     greeted, sAnnounced, sAddress, sOpened, sReaders>>
  BY DEF Create, CreateLocalNode, serverSession, sending, ghosts
<1>2. mLocalFiles = <<>> /\ Published = {}
  <2>1. mLocalFiles = <<>>
    BY <1>1 DEF IInv, Placed
  <2>2. DOMAIN << >> = {}
    OBVIOUS
  <2> QED BY <2>1, <2>2 DEF Published, ToSet
<1>3. /\ mLocalFiles' \in Seq(File) /\ mAddress' \in [File -> Address]
      /\ ToSet(mLocalFiles') \subseteq Local
      /\ PlacedList(mLocalFiles', mAddress')
      /\ \A f \in File \ Local : mAddress'[f] = mAddress[f]
  BY <1>1, <1>2, StateFacts, CreatedMap
<1>4. /\ OpenAtClient = {} /\ sAnnounced \cap Local = {} /\ sOpened = {}
      /\ \A i \in DOMAIN toServer : toServer[i].type # "INFO"
      /\ \A f \in Local : ~ isOpen[f]
  <2>1. OpenAtClient = {}
    BY <1>2, FileFacts
  <2>2. sAnnounced \cap Local = {} /\ \A i \in DOMAIN toServer : toServer[i].type # "INFO"
    BY <1>2 DEF IInv, ClientAnnounced
  <2>3. sOpened = {}
    BY <2>2 DEF IInv, ClientAnnounced
  <2> QED BY <2>1, <2>2, <2>3 DEF OpenAtClient
<1>5. Published' = ToSet(mLocalFiles')
  BY DEF Published
<1>6. mLocalFiles' \in Seq(Local) /\ Len(mLocalFiles') \in Nat
      /\ DOMAIN mLocalFiles' = 1 .. Len(mLocalFiles')
  <2> DEFINE n == Len(mLocalFiles')
  <2>1. n \in Nat /\ DOMAIN mLocalFiles' = 1 .. n
    BY <1>3, LenProperties
  <2>2. \A i \in 1 .. n : mLocalFiles'[i] \in Local
    BY <1>3, <2>1 DEF ToSet
  <2>3. mLocalFiles' = [i \in 1 .. n |-> mLocalFiles'[i]]
    BY <1>3, <2>1
  <2> HIDE DEF n
  <2>4. mLocalFiles' \in Seq(Local)
    BY <2>1, <2>2, <2>3
  <2> QED BY <2>1, <2>4 DEF n
<1> USE DEF IInv
<1>7. Typed'
  <2>1. mLastLocal' \in 0 .. Len(mLocalFiles')
    <3>1. mLastLocal = 0
      <4>1. mLastLocal \in 0 .. Len(mLocalFiles)
        BY DEF Typed, TypeOK
      <4>2. Len(<< >>) = 0
        OBVIOUS
      <4> QED BY <1>2, <4>1, <4>2
    <3> QED BY <1>1, <1>6, <3>1
  <2> QED BY <1>1, <1>3, <1>6, <2>1 DEF Typed, TypeOK
<1>8. Owned'
  BY <1>1, OwnedFrame DEF Owner
<1>9. Placed'
  <2>1. \A f \in Published' : mAddress'[f] + Length[f] <= USER_DATA_END
    BY <1>3, <1>5 DEF PlacedList, ToSet
  <2>2. ASSUME NEW f \in Published', NEW g \in Published', f # g
        PROVE  Apart(mAddress'[f], f, mAddress'[g], g)
    <3>1. PICK i \in DOMAIN mLocalFiles' : mLocalFiles'[i] = f
      BY <1>5 DEF ToSet
    <3>2. PICK j \in DOMAIN mLocalFiles' : mLocalFiles'[j] = g
      BY <1>5 DEF ToSet
    <3>3. i \in Nat /\ j \in Nat /\ (i < j \/ j < i)
      BY <1>6, <2>2, <3>1, <3>2
    <3> QED BY <1>3, <3>1, <3>2, <3>3 DEF PlacedList, Disjoint, Apart
  <2>3. ~ created' => mLocalFiles' = <<>>
    BY <1>1
  <2>4. \A f \in Local : ~ isOpen'[f]
    BY <1>1, <1>4
  <2> QED BY <2>1, <2>2, <2>3, <2>4 DEF Placed
<1>10. Session'
  BY <1>1, StateFacts, SessionFrame
<1>11. ClientAnnounced'
  BY <1>1, <1>4 DEF ClientAnnounced
<1>12. Remote' = Remote /\ \A h \in Remote : h \in File \ Local
  <2>1. ASSUME NEW h \in Remote
        PROVE  h \in File /\ h \notin Local
    <3>1. PICK f \in Announced : h \in {f, NewObject[f]}
      BY RemotePlaces
    <3> QED BY <3>1, StateFacts, SystemFiles
  <2> QED BY <1>1, <2>1 DEF Remote
<1>13. ServerAnnounced'
  BY <1>1, <1>3, <1>12, StateFacts, SystemMessages, ServerAnnouncedFrame
<1>14. Readers'
  <2>1. \A f \in sAnnounced \cap Requested : sAddress'[f] = sAddress[f] /\ (Ready(f) => Ready(f)')
    BY <1>1, <1>3, <1>12, SystemFiles DEF Ready
  <2>2. Among(toServer', toServer, {})
    BY <1>1, StateFacts, QueueMoves
  <2> QED BY <1>1, <2>1, <2>2, ReadersFrame
<1>15. ToServerCarried'
  <2>1. OpenAtClient' = {}
    BY <1>1, <1>4 DEF OpenAtClient
  <2>2. Carried(toServer, Local, {}, mAddress, history, version)
    BY <1>4 DEF ToServerCarried
  <2>3. Carried(toServer, Local, {}, mAddress', history, version)
    BY <2>2 DEF Carried
  <2> QED BY <1>1, <2>1, <2>3 DEF ToServerCarried
<1>16. ToClientCarried'
  BY <1>1 DEF ToClientCarried
<1>17. Snapshot'
  BY <1>1, SnapshotFrame DEF Replica
<1> QED BY <1>1, <1>7, <1>8, <1>9, <1>10, <1>11, <1>13, <1>14, <1>15, <1>16, <1>17

\* A closed socket takes nothing.
LEMMA SendDown ==
    ASSUME IInv, NEW m, m \in Outgoing, Send(m), link = "down"
    PROVE  Roomy(mSendBuffer') /\ dropped' \in BOOLEAN /\ toServer' = toServer
<1> DEFINE t == Transmit(Sender, m)
<1>1. /\ Sender = [buffer |-> Sender.buffer, queue |-> Sender.queue, dropped |-> Sender.dropped]
      /\ Sender.buffer = mSendBuffer /\ Sender.queue = toServer /\ Sender.dropped = dropped
  BY DEF Sender
<1>2. Roomy(mSendBuffer) /\ dropped \in BOOLEAN
  BY StateFacts
<1>3. Roomy(t.buffer) /\ t.dropped \in BOOLEAN /\ t.queue = toServer
  BY <1>1, <1>2, TransmitResult
<1>4. mSendBuffer' = t.buffer /\ toServer' = t.queue /\ dropped' = t.dropped
  BY DEF Send, Becomes
<1> HIDE DEF t
<1> QED BY <1>3, <1>4

\* The owner writes a byte: the file is in one state more.
LEMMA StateAdded ==
    ASSUME IInv, NEW f \in Mirrored, Version(f) <= MaxWrites, NEW offset \in 0 .. Length[f] - 1,
           history' = [history EXCEPT ![f] = Append(@, NewState(f, history[f], offset))]
    PROVE  LET h == history[f] IN
           /\ history' \in [Mirrored -> Seq(UNION {Content(g) : g \in Mirrored})]
           /\ \A g \in Mirrored \ {f} : history'[g] = history[g]
           /\ history'[f] = Append(h, NewState(f, h, offset))
           /\ NewState(f, h, offset) \in Content(f)
           /\ NewState(f, h, offset) \in UNION {Content(g) : g \in Mirrored}
           /\ <<Len(h)>> \in Data
           /\ history'[f] \in Seq(Content(f)) /\ history'[f] # <<>>
           /\ Len(history'[f]) = Len(h) + 1
           /\ history'[f][Len(h) + 1] = NewState(f, h, offset)
           /\ \A v \in 1 .. Len(h) : history'[f][v] = h[v]
<1> DEFINE h == history[f]
           U == UNION {Content(g) : g \in Mirrored}
           c == NewState(f, h, offset)
           new == Append(h, c)
<1>1. /\ h \in Seq(Content(f)) /\ h # <<>> /\ Len(h) <= MaxWrites /\ Len(h) \in Nat /\ f \in File
      /\ history \in [Mirrored -> Seq(U)]
  BY FileFacts, NodeFiles DEF Version, IInv, Owned
<1>2. /\ c \in Content(f) /\ <<Len(h)>> \in Data
      /\ new \in Seq(Content(f)) /\ Len(new) = Len(h) + 1 /\ new[Len(h) + 1] = c
      /\ \A v \in 1 .. Len(h) : new[v] = h[v]
  BY <1>1, NewStateContent
<1>3. c \in U /\ Content(f) \subseteq U
  BY <1>2
<1>4. new \in Seq(U)
  BY <1>2, <1>3, SeqMonotonic
<1>5. new # <<>>
  BY <1>1, <1>2
<1> HIDE DEF U, c
<1>6. /\ history' \in [Mirrored -> Seq(U)] /\ history'[f] = new
      /\ \A g \in Mirrored \ {f} : history'[g] = history[g]
  <2>1. history' = [history EXCEPT ![f] = new]
    BY DEF c
  <2> HIDE DEF new
  <2> QED BY <1>1, <1>4, <2>1
<1> QED BY <1>2, <1>3, <1>5, <1>6 DEF c, U

LEMMA ApplicationWritesIInv ==
    ASSUME IInv, NEW f \in PortFiles, NEW offset \in 0 .. Length[f] - 1,
           ApplicationWrites(f, offset)
    PROVE  IInv' /\ GhostStep
<1> DEFINE h == history[f]
           c == NewState(f, h, offset)
<1>1. /\ ~fault /\ created /\ f \in Local /\ Version(f) <= MaxWrites
      /\ mData' = [mData EXCEPT ![f] = Overwrite(@, offset, <<Version(f)>>)]
      /\ history' = [history EXCEPT ![f] = Append(@, mData'[f])]
      /\ IF isOpen[f] /\ mTransmitHandler
           THEN Send(Write(mAddress[f] + offset, <<Version(f)>>, Version(f) + 1))
           ELSE UNCHANGED <<mSendBuffer, toServer, dropped>>
      /\ UNCHANGED <<created, mLocalFiles, mRemoteFiles, mAddress, mLastLocal, mLastRemote,
                     isOpen, mTransmitHandler, link, fault, version, toClient,
                     greeted, sAnnounced, sAddress, sOpened, sReaders, sData, late>>
  BY DEF ApplicationWrites, OutputFileWrite, maps, sending, serverSession
<1>2. /\ f \in Mirrored /\ f \in File /\ Length[f] \in Nat \ {0}
      /\ mData \in [Mirrored -> UNION {Content(g) : g \in Mirrored}]
      /\ history \in [Mirrored -> Seq(UNION {Content(g) : g \in Mirrored})]
  BY <1>1, SystemFiles DEF Mirrored, IInv, Typed, Owned
<1>3. mData[f] = h[Len(h)]
  BY <1>1, <1>2, FileFacts DEF Owner
<1>4. mData' = [mData EXCEPT ![f] = c]
  BY <1>1, <1>2, <1>3 DEF Version, NewState
<1>5. mData'[f] = c /\ \A g \in Mirrored \ {f} : mData'[g] = mData[g]
  BY <1>2, <1>4
<1>6. history' = [history EXCEPT ![f] = Append(@, c)]
  BY <1>1, <1>5
<1>7. /\ history' \in [Mirrored -> Seq(UNION {Content(g) : g \in Mirrored})]
      /\ \A g \in Mirrored \ {f} : history'[g] = history[g]
      /\ history'[f] = Append(h, c)
      /\ c \in Content(f) /\ c \in UNION {Content(g) : g \in Mirrored}
      /\ <<Len(h)>> \in Data
      /\ history'[f] \in Seq(Content(f)) /\ history'[f] # <<>>
      /\ Len(history'[f]) = Len(h) + 1 /\ history'[f][Len(h) + 1] = c
      /\ \A v \in 1 .. Len(h) : history'[f][v] = h[v]
  BY <1>1, <1>2, <1>6, StateAdded
<1>8. /\ h \in Seq(Content(f)) /\ h # <<>> /\ Len(h) \in Nat \ {0} /\ version[f] \in 0 .. Len(h)
  BY <1>2, FileFacts
<1> DEFINE w == Write(mAddress[f] + offset, <<Len(h)>>, Len(h) + 1)
           Effect == /\ Roomy(mSendBuffer') /\ dropped' \in BOOLEAN
                     /\ toServer' \in Seq(ClientMessage)
                     /\ \/ toServer' = toServer
                        \/ link # "down" /\ toServer' = Append(toServer, w)
                     /\ Carried(toServer', Local, OpenAtClient, mAddress, history', version)
<1> HIDE DEF Effect
<1>9. /\ Carried(toServer, Local, OpenAtClient, mAddress, history, version)
      /\ Roomy(mSendBuffer) /\ dropped \in BOOLEAN /\ toServer \in Seq(ClientMessage)
      /\ Local \subseteq File /\ \A g \in Local : g # f => history'[g] = history[g]
  BY <1>7, StateFacts, SystemFiles DEF IInv, ToServerCarried, Mirrored
<1>10. ASSUME ~ isOpen[f]
       PROVE  Effect
  <2>1. f \notin OpenAtClient /\ UNCHANGED <<mSendBuffer, toServer, dropped>>
    BY <1>1, <1>10 DEF OpenAtClient
  <2>2. Carried(toServer, Local, OpenAtClient, mAddress, history', version)
    BY <1>1, <1>9, <2>1, CarriedSilent
  <2> QED BY <1>9, <2>1, <2>2 DEF Effect
<1>11. ASSUME isOpen[f]
       PROVE  Effect
  <2>1. f \in Published /\ mTransmitHandler /\ f \in OpenAtClient
    BY <1>1, <1>11 DEF IInv, Placed, OpenAtClient
  <2>2. mAddress[f] + offset \in UserAddress
    <3>1. mAddress[f] \in Nat /\ mAddress[f] + Length[f] <= USER_DATA_END
      BY <1>2, <2>1, StateFacts DEF IInv, Placed
    <3> QED BY <1>2, <3>1, ServerPlaces DEF UserAddress
  <2>3. /\ w \in ClientMessage /\ w \in WriteMessage(Nat) /\ Len(w.data) = 1
        /\ w.type = "WRITE" /\ w # Greeting
    BY <1>7, <1>8, <2>2, SystemSends DEF Write, Greeting
  <2>4. w \in Outgoing
    BY <2>3 DEF Outgoing
  <2>5. Send(w)
    BY <1>1, <1>11, <2>1 DEF Version
  <2>6. CASE link # "down"
    <3>1. Roomy(mSendBuffer') /\ dropped' \in BOOLEAN
          /\ toServer' = Append(toServer, w) /\ toServer' \in Seq(ClientMessage)
      <4> HIDE DEF w
      <4> QED BY <2>3, <2>4, <2>5, <2>6, SendResult
    <3>2. Separate(OpenAtClient, mAddress) /\ \A g \in OpenAtClient : mAddress[g] \in Nat
      BY <1>9, FileFacts, StateFacts
    <3>3. Carried(Append(toServer, w), Local, OpenAtClient, mAddress, history', version)
      <4>1. PICK m : m = Write(mAddress[f] + offset, <<Len(history[f])>>, Len(history[f]) + 1)
        OBVIOUS
      <4>2. Len(history[f]) <= MaxWrites
        BY <1>1 DEF Version
      <4>3. Carried(Append(toServer, m), Local, OpenAtClient, mAddress, history', version)
        BY <1>7, <1>8, <1>9, <2>1, <3>2, <4>1, <4>2, CarriedWritten
      <4> QED BY <4>1, <4>3
    <3> QED BY <2>6, <3>1, <3>3 DEF Effect
  <2>7. CASE link = "down"
    <3>1. Roomy(mSendBuffer') /\ dropped' \in BOOLEAN /\ toServer' = toServer
      <4> HIDE DEF w
      <4> QED BY <2>4, <2>5, <2>7, SendDown
    <3>2. toServer = <<>> /\ sAnnounced = {}
      BY <2>7 DEF IInv, Session
    <3>3. version[f] = 0
      BY <1>1, <3>2 DEF IInv, ClientAnnounced
    <3>4. \A i \in DOMAIN toServer : toServer[i].type # "WRITE"
      <4>1. DOMAIN << >> = {}
        OBVIOUS
      <4> QED BY <3>2, <4>1
    <3>5. Carried(toServer, Local, OpenAtClient, mAddress, history', version)
      BY <1>1, <1>9, <3>3, <3>4, CarriedSilent
    <3> QED BY <1>9, <3>1, <3>5 DEF Effect
  <2> QED BY <2>6, <2>7
<1>12. Effect
  BY <1>10, <1>11
<1>13. /\ Roomy(mSendBuffer') /\ dropped' \in BOOLEAN /\ toServer' \in Seq(ClientMessage)
       /\ \/ toServer' = toServer
          \/ link # "down" /\ toServer' = Append(toServer, w)
       /\ Carried(toServer', Local, OpenAtClient, mAddress, history', version)
  BY <1>12 DEF Effect
<1>14. w.type = "WRITE" /\ w # Greeting
  BY DEF Write, Greeting
<1> HIDE DEF w, c, h
<1>15. Among(toServer', toServer, {w})
  <2>1. Among(toServer, toServer, {}) /\ Among(Append(toServer, w), toServer, {w})
    BY <1>9, QueueMoves
  <2>2. Among(toServer, toServer, {w})
    BY <2>1 DEF Among
  <2> QED BY <1>13, <2>1, <2>2
<1>16. PICK new : /\ Among(toServer', toServer, new)
                  /\ \A x \in new : x.type # "INFO" /\ x.type # "OPEN"
  BY <1>14, <1>15
<1> USE DEF IInv
<1>17. Typed'
  <2>1. mData' \in [Mirrored -> UNION {Content(g) : g \in Mirrored}]
    BY <1>2, <1>4, <1>7
  <2>2. ASSUME NEW g \in Mirrored
        PROVE  mData'[g] \in Content(g) /\ sData'[g] \in Content(g)
               /\ version'[g] \in 0 .. Len(history'[g])
    <3>1. CASE g = f
      <4>1. version'[f] \in 0 .. Len(history'[f])
        BY <1>1, <1>7, <1>8 DEF h
      <4> QED BY <1>1, <1>5, <1>7, <3>1, <4>1, FileFacts
    <3>2. CASE g # f
      BY <1>1, <1>5, <1>7, <3>2, FileFacts
    <3> QED BY <3>1, <3>2
  <2> QED BY <1>1, <1>13, <2>1, <2>2 DEF Typed, TypeOK, Roomy
<1>18. Owned'
  <2>1. ASSUME NEW g \in Mirrored
        PROVE  /\ history'[g] \in Seq(Content(g)) /\ history'[g] # <<>>
               /\ Owner(g)' = history'[g][Len(history'[g])]
    <3>1. CASE g = f
      BY <1>1, <1>5, <1>7, <3>1 DEF Owner
    <3>2. CASE g # f
      <4>1. Owner(g)' = Owner(g)
        BY <1>1, <1>5, <3>2 DEF Owner
      <4> QED BY <1>7, <3>2, <4>1, FileFacts
    <3> QED BY <3>1, <3>2
  <2> QED BY <1>7, <2>1 DEF Owned, Version
<1>19. Placed'
  BY <1>1, StateFacts, PlacedFrame
<1>20. Session'
  BY <1>1, <1>13, <1>14, StateFacts, SessionFrame
<1>21. ClientAnnounced'
  BY <1>1, <1>16, StateFacts, ClientAnnouncedFrame
<1>22. ServerAnnounced'
  BY <1>1, StateFacts, SystemMessages, ServerAnnouncedFrame
<1>23. Readers'
  BY <1>1, <1>16, ReadersFrame DEF Ready, Remote
<1>24. ToServerCarried'
  BY <1>1, <1>13 DEF ToServerCarried, OpenAtClient
<1>25. ToClientCarried'
  <2>1. \A g \in Requested : history'[g] = history[g]
    BY <1>1, <1>7, SystemFiles DEF Mirrored
  <2>2. Carried(toClient, Requested, sReaders, sAddress, history, version)
          => Carried(toClient, Requested, sReaders, sAddress, history', version)
    BY <2>1, FileFacts DEF Carried
  <2> QED BY <1>1, <2>2 DEF ToClientCarried
<1>26. Snapshot'
  <2>1. ASSUME NEW g \in Mirrored, version'[g] # 0
        PROVE  Replica(g)' = history'[g][version'[g]]
    <3>1. Replica(g)' = Replica(g) /\ Replica(g) = history[g][version[g]]
      BY <1>1, <1>5, <2>1 DEF Replica, Snapshot
    <3>2. CASE g = f
      <4>1. version[f] \in 1 .. Len(h) /\ version' = version
        BY <1>1, <1>8, <2>1, <3>2
      <4> QED BY <1>7, <3>1, <3>2, <4>1 DEF h
    <3>3. CASE g # f
      BY <1>1, <1>7, <3>1, <3>3
    <3> QED BY <3>2, <3>3
  <2> QED BY <2>1 DEF Snapshot
<1>27. GhostStep
  BY <1>1, <1>2, <1>6, <1>7 DEF GhostStep
<1> QED BY <1>17, <1>18, <1>19, <1>20, <1>21, <1>22, <1>23, <1>24, <1>25, <1>26, <1>27

-----------------------------------------------------------------------------
(* The server. *)

LEMMA ServerGreetedIInv ==
    ASSUME IInv, ServerGreeted
    PROVE  IInv' /\ UNCHANGED <<history, version>>
<1>1. /\ ~fault /\ ~greeted /\ toServer # <<>> /\ Head(toServer) = Greeting
      /\ greeted' = TRUE /\ toServer' = Tail(toServer)
      /\ toClient' = Append(toClient, Acknowledge)
      /\ UNCHANGED <<created, mLocalFiles, mRemoteFiles, mAddress, mLastLocal, mLastRemote,
                     isOpen, mTransmitHandler, mData, fault, link, mSendBuffer, dropped,
                     history, version, sAnnounced, sAddress, sOpened, sReaders, sData, late>>
  BY DEF ServerGreeted, client, maps, ghosts
<1>2. /\ toServer' \in Seq(ClientMessage) /\ 1 \in DOMAIN toServer /\ toServer[1] = Greeting
      /\ \A i \in DOMAIN toServer' : i \in Nat \ {0} /\ i + 1 \in DOMAIN toServer
                                     /\ toServer'[i] = toServer[i+1]
  BY <1>1, StateFacts, Taken
<1>3. /\ toClient = <<>> /\ sAnnounced = {} /\ link = "connected"
      /\ mRemoteFiles = <<>> /\ sReaders = {}
  BY <1>1, <1>2, StateFacts DEF IInv, Session
<1>4. toClient' \in Seq(ServerMessage) /\ toClient' # <<>>
      /\ DOMAIN toClient' = {1} /\ toClient'[1] = Acknowledge
  <2>1. Append(<<>>, Acknowledge) = <<Acknowledge>>
    OBVIOUS
  <2>2. DOMAIN <<Acknowledge>> = {1} /\ <<Acknowledge>>[1] = Acknowledge /\ <<Acknowledge>> # << >>
    OBVIOUS
  <2>3. Append(toClient, Acknowledge) \in Seq(ServerMessage)
    BY StateFacts, SystemSends, AppendProperties
  <2> QED BY <1>1, <1>3, <2>1, <2>2, <2>3
<1>5. Among(toServer', toServer, {}) /\ Acknowledge.type = "ACK"
  BY <1>1, StateFacts, QueueMoves, SystemMessages
<1> USE DEF IInv
<1>6. Typed'
  BY <1>1, <1>2, <1>4 DEF Typed, TypeOK
<1>7. Owned'
  BY <1>1, OwnedFrame DEF Owner
<1>8. Placed'
  BY <1>1, StateFacts, PlacedFrame
<1>9. Session'
  <2>1. \A i \in DOMAIN toServer' : toServer'[i] # Greeting
    <3>1. \A i, j \in DOMAIN toServer : toServer[i] = Greeting /\ toServer[j] = Greeting => i = j
      BY DEF Session
    <3>2. ASSUME NEW i \in DOMAIN toServer', toServer'[i] = Greeting
          PROVE  FALSE
      <4>1. i + 1 = 1 /\ i \in Nat \ {0}
        BY <1>2, <3>1, <3>2
      <4> QED BY <4>1
    <3> QED BY <3>2
  <2> QED BY <1>1, <1>3, <1>4, <2>1 DEF Session
<1>10. ClientAnnounced'
  BY <1>1, <1>5, StateFacts, ClientAnnouncedFrame
<1>11. ServerAnnounced'
  BY <1>1, <1>5, StateFacts, SystemMessages, ServerAnnouncedFrame
<1>12. Readers'
  BY <1>1, <1>5, ReadersFrame DEF Ready, Remote
<1>13. ToServerCarried'
  <2>1. toServer[1].type # "WRITE"
    BY <1>2, SystemMessages
  <2>2. \A g \in Local : version[g] \in Nat /\ Len(history[g]) \in Nat
    BY FileFacts DEF Mirrored
  <2>3. Carried(Tail(toServer), Local, OpenAtClient, mAddress, history, version)
    BY <1>1, <2>1, <2>2, StateFacts, CarriedTail DEF ToServerCarried
  <2> QED BY <1>1, <2>3 DEF ToServerCarried, OpenAtClient
<1>14. ToClientCarried'
  <2>1. Carried(Append(toClient, Acknowledge), Requested, sReaders, sAddress, history, version)
    BY <1>1, <1>5, StateFacts, CarriedBehind DEF ToClientCarried
  <2> QED BY <1>1, <2>1 DEF ToClientCarried, Carried
<1>15. Snapshot'
  BY <1>1, SnapshotFrame DEF Replica
<1> QED BY <1>1, <1>6, <1>7, <1>8, <1>9, <1>10, <1>11, <1>12, <1>13, <1>14, <1>15

\* What the server reads of a message.
LEMMA Outgone ==
    ASSUME IInv, greeted, toServer # <<>>
    PROVE  /\ 1 \in DOMAIN toServer /\ Head(toServer) = toServer[1]
           /\ toServer[1] \in ClientMessage /\ toServer[1].type \in {"INFO", "OPEN", "WRITE"}
           /\ Received(toServer[1]).type = toServer[1].type
           /\ Tail(toServer) \in Seq(ClientMessage)
           /\ \A i \in DOMAIN Tail(toServer) : i \in Nat \ {0} /\ i + 1 \in DOMAIN toServer
                                               /\ Tail(toServer)[i] = toServer[i+1]
<1>1. /\ 1 \in DOMAIN toServer /\ Head(toServer) = toServer[1] /\ toServer[1] \in ClientMessage
      /\ Tail(toServer) \in Seq(ClientMessage)
      /\ \A i \in DOMAIN Tail(toServer) : i \in Nat \ {0} /\ i + 1 \in DOMAIN toServer
                                          /\ Tail(toServer)[i] = toServer[i+1]
  BY StateFacts, Taken
<1>2. toServer[1] # Greeting
  BY <1>1 DEF IInv, Session
<1>3. toServer[1].type \in {"INFO", "OPEN", "WRITE"}
  BY <1>1, <1>2, SystemMessages
<1>4. Received(toServer[1]).type = toServer[1].type
  BY <1>1, <1>3, SystemReads
<1> QED BY <1>1, <1>3, <1>4

LEMMA ServerLearnsIInv ==
    ASSUME IInv, ~fault, greeted, toServer # <<>>, ServerLearns(Received(Head(toServer)))
    PROVE  IInv' /\ UNCHANGED <<history, version>>
<1>1. PICK m0, m : m0 = toServer[1] /\ m = Received(m0)
  OBVIOUS
<1>2. /\ 1 \in DOMAIN toServer /\ m0 \in ClientMessage /\ ServerLearns(m)
      /\ Tail(toServer) \in Seq(ClientMessage)
      /\ \A i \in DOMAIN Tail(toServer) : i \in Nat \ {0} /\ i + 1 \in DOMAIN toServer
                                          /\ Tail(toServer)[i] = toServer[i+1]
      /\ m.type = m0.type
  BY <1>1, Outgone
<1>3. PICK f \in Local :
        /\ Name[f] = m.name
        /\ sAnnounced' = sAnnounced \cup {f}
        /\ sAddress' = [sAddress EXCEPT ![f] = m.address]
  BY <1>2 DEF ServerLearns
<1>4. /\ toServer' = Tail(toServer) /\ m.type = "INFO"
      /\ UNCHANGED <<created, mLocalFiles, mRemoteFiles, mAddress, mLastLocal, mLastRemote,
                     isOpen, mTransmitHandler, mData, fault, link, mSendBuffer, dropped,
                     history, version, toClient, greeted, sOpened, sReaders, sData, late>>
  BY <1>2 DEF ServerLearns, client, maps, ghosts
<1>5. /\ m0.file \in Local /\ m.name = Name[m0.file] /\ m.address = m0.address
  <2>1. m0 \in ClientMessage \cup ServerMessage /\ m0.type = "INFO"
    BY <1>2, <1>4
  <2>2. Received(m0) = [type |-> "INFO", name |-> Name[m0.file],
                        length |-> Length[m0.file], address |-> m0.address]
    BY <2>1, SystemReads
  <2>3. m0.file \in Local
    BY <1>2, <2>1, SystemMessages
  <2> QED BY <1>1, <2>2, <2>3
<1>6. f = m0.file
  <2>1. f \in Mirrored /\ m0.file \in Mirrored
    BY <1>5 DEF Mirrored
  <2> QED BY <1>3, <1>5, <2>1, Names
<1>7. f \in Published /\ m.address = mAddress[f] /\ m.address \in Address
  <2>1. f \in Published /\ m.address = mAddress[f]
    BY <1>1, <1>2, <1>4, <1>5, <1>6 DEF IInv, ClientAnnounced
  <2> QED BY <2>1, StateFacts, SystemFiles
<1>8. /\ sAddress' \in [File -> Address] /\ sAddress'[f] = mAddress[f]
      /\ \A g \in File \ {f} : sAddress'[g] = sAddress[g]
      /\ \A g \in Announced : sAddress'[g] = sAddress[g] /\ (g \in sAnnounced' <=> g \in sAnnounced)
  <2>1. f \in File /\ f \notin Announced /\ sAddress \in [File -> Address]
    BY StateFacts, SystemFiles
  <2>2. /\ sAddress' \in [File -> Address] /\ sAddress'[f] = mAddress[f]
        /\ \A g \in File \ {f} : sAddress'[g] = sAddress[g]
    BY <1>3, <1>7, <2>1
  <2>3. \A g \in Announced : g \in File \ {f}
    BY <2>1, SystemFiles
  <2> QED BY <1>3, <2>2, <2>3
<1>9. Among(toServer', toServer, {})
  BY <1>4, StateFacts, QueueMoves
<1> USE DEF IInv
<1>10. Typed'
  BY <1>2, <1>3, <1>4, <1>8 DEF Typed, TypeOK
<1>11. Owned'
  BY <1>4, OwnedFrame DEF Owner
<1>12. Placed'
  BY <1>4, StateFacts, PlacedFrame
<1>13. Session'
  BY <1>4, StateFacts, SessionFrame
<1>14. ClientAnnounced'
  <2>1. Published' = Published
    BY <1>4 DEF Published
  <2>2. \A i \in DOMAIN toServer' :
          toServer'[i].type = "INFO" =>
            toServer'[i].file \in Published /\ toServer'[i].address = mAddress[toServer'[i].file]
    BY <1>2, <1>4 DEF ClientAnnounced
  <2>3. ASSUME NEW g \in sAnnounced' \cap Local
        PROVE  g \in Published /\ sAddress'[g] = mAddress[g]
    <3>1. CASE g = f
      BY <1>7, <1>8, <3>1
    <3>2. CASE g # f
      BY <1>3, <1>8, <3>2, SystemFiles DEF ClientAnnounced
    <3> QED BY <3>1, <3>2
  <2>4. sOpened' \subseteq sAnnounced' \cap Local /\ \A g \in Local \ sOpened' : version'[g] = 0
    BY <1>3, <1>4 DEF ClientAnnounced
  <2> QED BY <1>4, <2>1, <2>2, <2>3, <2>4 DEF ClientAnnounced
<1>15. ServerAnnounced'
  BY <1>4, <1>8, StateFacts, SystemMessages, ServerAnnouncedFrame
<1>16. \A g \in Requested : sAddress'[g] = sAddress[g]
  BY <1>8, SystemFiles
<1>17. Readers'
  BY <1>3, <1>4, <1>9, <1>16, ReadersFrame DEF Ready, Remote
<1>18. ToServerCarried'
  <2>1. toServer[1].type # "WRITE"
    BY <1>1, <1>2, <1>4
  <2>2. \A g \in Local : version[g] \in Nat /\ Len(history[g]) \in Nat
    BY FileFacts DEF Mirrored
  <2>3. Carried(Tail(toServer), Local, OpenAtClient, mAddress, history, version)
    BY <1>1, <2>1, <2>2, StateFacts, CarriedTail DEF ToServerCarried
  <2> QED BY <1>4, <2>3 DEF ToServerCarried, OpenAtClient
<1>19. ToClientCarried'
  <2>1. Carried(toClient, Requested, sReaders, sAddress, history, version)
    BY DEF ToClientCarried
  <2>2. Carried(toClient, Requested, sReaders, sAddress', history, version)
    BY <1>16, <2>1, FileFacts DEF Carried
  <2> QED BY <1>4, <2>2 DEF ToClientCarried, Carried
<1>20. Snapshot'
  BY <1>4, SnapshotFrame DEF Replica
<1> QED BY <1>4, <1>10, <1>11, <1>12, <1>13, <1>14, <1>15, <1>17, <1>18, <1>19, <1>20

LEMMA ServerOpensIInv ==
    ASSUME IInv, NEW f \in Local, ServerOpens(f)
    PROVE  IInv' /\ UNCHANGED <<history, version>>
<1>1. /\ ~fault /\ f \in sAnnounced \cap Local
      /\ sOpened' = sOpened \cup {f}
      /\ toClient' = Append(toClient, Open(sAddress[f]))
      /\ UNCHANGED <<created, mLocalFiles, mRemoteFiles, mAddress, mLastLocal, mLastRemote,
                     isOpen, mTransmitHandler, mData, fault, link, mSendBuffer, toServer, dropped,
                     history, version, greeted, sAnnounced, sAddress, sReaders, sData, late>>
  BY DEF ServerOpens, client, maps, sending, ghosts
<1>2. greeted
  BY <1>1 DEF IInv, Session
<1>3. PICK m : m = Open(sAddress[f])
  OBVIOUS
<1>4. m \in ServerMessage /\ m.type = "OPEN" /\ m # Acknowledge
  <2>1. f \in Published /\ sAddress[f] = mAddress[f]
    BY <1>1 DEF IInv, ClientAnnounced
  <2>2. sAddress[f] \in UserAddress
    <3>1. mAddress[f] \in Nat /\ Length[f] \in Nat \ {0} /\ mAddress[f] + Length[f] <= USER_DATA_END
      BY <2>1, StateFacts, SystemFiles DEF IInv, Placed
    <3> QED BY <2>1, <3>1, ServerPlaces DEF UserAddress
  <2> QED BY <1>3, <2>2, SystemSends DEF Open, Acknowledge
<1>5. toClient' = Append(toClient, m) /\ toClient' \in Seq(ServerMessage)
  BY <1>1, <1>3, <1>4, StateFacts, AppendProperties
<1>6. Among(toServer', toServer, {})
  BY <1>1, StateFacts, QueueMoves
<1> USE DEF IInv
<1>7. Typed'
  BY <1>1, <1>5 DEF Typed, TypeOK
<1>8. Owned'
  BY <1>1, OwnedFrame DEF Owner
<1>9. Placed'
  BY <1>1, StateFacts, PlacedFrame
<1>10. Session'
  BY <1>1, <1>2, <1>4, <1>5, StateFacts, SessionFrame
<1>11. ClientAnnounced'
  BY <1>1 DEF ClientAnnounced, Published
<1>12. ServerAnnounced'
  BY <1>1, <1>4, <1>5, StateFacts, SystemMessages, ServerAnnouncedFrame
<1>13. Readers'
  BY <1>1, <1>6, ReadersFrame DEF Ready, Remote
<1>14. ToServerCarried'
  BY <1>1 DEF ToServerCarried, OpenAtClient
<1>15. ToClientCarried'
  <2>1. Carried(Append(toClient, m), Requested, sReaders, sAddress, history, version)
    BY <1>1, <1>4, StateFacts, CarriedBehind DEF ToClientCarried
  <2> QED BY <1>1, <1>5, <2>1 DEF ToClientCarried, Carried
<1>16. Snapshot'
  BY <1>1, SnapshotFrame DEF Replica
<1> QED BY <1>1, <1>7, <1>8, <1>9, <1>10, <1>11, <1>12, <1>13, <1>14, <1>15, <1>16

LEMMA ServerAnnouncesIInv ==
    ASSUME IInv, NEW f \in Announced, ServerAnnounces(f)
    PROVE  IInv' /\ UNCHANGED <<history, version>>
<1>1. PICK a \in ServerAddresses[f] :
        /\ sAddress' = [sAddress EXCEPT ![f] = a]
        /\ toClient' = Append(toClient, Info(f, a))
  BY DEF ServerAnnounces
<1>2. /\ ~fault /\ greeted /\ f \notin sAnnounced /\ sAnnounced' = sAnnounced \cup {f}
      /\ UNCHANGED <<created, mLocalFiles, mRemoteFiles, mAddress, mLastLocal, mLastRemote,
                     isOpen, mTransmitHandler, mData, fault, link, mSendBuffer, toServer, dropped,
                     history, version, greeted, sOpened, sReaders, sData, late>>
  BY DEF ServerAnnounces, client, maps, sending, ghosts
<1>3. PICK m : m = Info(f, a)
  OBVIOUS
<1>4. /\ m \in ServerMessage /\ m.type = "INFO" /\ m.file = f /\ m.address = a
      /\ m # Acknowledge /\ a \in Address
  BY <1>3, ServerPlaces, SystemSends DEF Info, Acknowledge
<1>5. toClient' = Append(toClient, m) /\ toClient' \in Seq(ServerMessage)
  BY <1>1, <1>3, <1>4, StateFacts, AppendProperties
<1>6. /\ sAddress' \in [File -> Address] /\ sAddress'[f] = a
      /\ \A g \in File \ {f} : sAddress'[g] = sAddress[g]
      /\ f \in File /\ f \notin Local
  <2>1. f \in File /\ f \notin Local /\ sAddress \in [File -> Address]
    BY StateFacts, SystemFiles
  <2> QED BY <1>1, <1>4, <2>1
<1>7. \A g \in sAnnounced : g \in File => sAddress'[g] = sAddress[g]
  BY <1>2, <1>6
<1>8. Among(toServer', toServer, {})
  BY <1>2, StateFacts, QueueMoves
<1> USE DEF IInv
<1>9. Typed'
  BY <1>2, <1>5, <1>6 DEF Typed, TypeOK
<1>10. Owned'
  BY <1>2, OwnedFrame DEF Owner
<1>11. Placed'
  BY <1>2, StateFacts, PlacedFrame
<1>12. Session'
  BY <1>2, <1>4, <1>5, StateFacts, SessionFrame
<1>13. ClientAnnounced'
  <2>1. \A g \in Local : sAddress'[g] = sAddress[g] /\ (g \in sAnnounced' <=> g \in sAnnounced)
    BY <1>2, <1>6, SystemFiles
  <2>2. /\ ClientAnnounced /\ Published \subseteq Local
        /\ UNCHANGED <<mLocalFiles, sOpened>>
        /\ \A g \in Local : mAddress'[g] = mAddress[g]
        /\ \A g \in Local \ sOpened : version'[g] = version[g]
        /\ \A x \in {} : x.type # "INFO"
    BY <1>2, StateFacts
  <2> HIDE DEF IInv
  <2> QED BY <1>8, <2>1, <2>2, ClientAnnouncedFrame
<1>14. ServerAnnounced'
  <2>1. Remote' = Remote
    BY <1>2 DEF Remote
  <2>2. \A g \in sAnnounced \cap Announced : g # f /\ sAddress'[g] = sAddress[g]
    BY <1>2, <1>7, SystemFiles
  <2>3. f \notin Remote /\ NewObject[f] \notin Remote
    <3>1. ASSUME NEW h \in Remote
          PROVE  h # f /\ h # NewObject[f]
      <4>1. PICK g \in sAnnounced \cap Announced : h \in {g, NewObject[g]}
        BY DEF ServerAnnounced
      <4>2. f \in Announced /\ g \in Announced /\ g # f
        BY <2>2
      <4> QED BY <4>1, <4>2, SystemFiles
    <3> QED BY <3>1
  <2> DEFINE last == Len(toClient) + 1
             more == Append(toClient, m)
  <2>4. /\ more[last] = m /\ \A j \in DOMAIN toClient : more[j] = toClient[j]
        /\ DOMAIN more = DOMAIN toClient \cup {last}
    BY StateFacts, Appended
  <2>5. toClient' = more
    BY <1>5
  <2> HIDE DEF more, last
  <2>6. ASSUME NEW i \in DOMAIN toClient', toClient'[i].type = "INFO"
        PROVE  LET g == toClient'[i].file
               IN  /\ g \in sAnnounced' /\ toClient'[i].address = sAddress'[g]
                   /\ g \notin Remote' /\ NewObject[g] \notin Remote'
                   /\ \A j \in DOMAIN toClient' :
                        toClient'[j].type = "INFO" /\ toClient'[j].file = g => j = i
    <3>1. CASE i = last
      <4>1. toClient'[i] = m
        BY <2>4, <2>5, <3>1
      <4>2. \A j \in DOMAIN toClient : toClient[j].type = "INFO" => toClient[j].file # f
        BY <1>2 DEF ServerAnnounced
      <4>3. \A j \in DOMAIN toClient' : toClient'[j].type = "INFO" /\ toClient'[j].file = f => j = i
        BY <2>4, <2>5, <3>1, <4>2
      <4> QED BY <1>2, <1>4, <1>6, <2>1, <2>3, <4>1, <4>3
    <3>2. CASE i # last
      <4>1. i \in DOMAIN toClient /\ toClient'[i] = toClient[i] /\ toClient[i].type = "INFO"
        BY <2>4, <2>5, <2>6, <3>2
      <4>2. PICK g : g = toClient[i].file
        OBVIOUS
      <4>3. /\ g \in sAnnounced /\ toClient[i].address = sAddress[g] /\ g \in Announced
            /\ g \notin Remote /\ NewObject[g] \notin Remote
            /\ \A j \in DOMAIN toClient : toClient[j].type = "INFO" /\ toClient[j].file = g => j = i
        BY <4>1, <4>2, StateFacts, SystemMessages DEF ServerAnnounced
      <4>4. g # f /\ sAddress'[g] = sAddress[g] /\ g \in sAnnounced'
        BY <1>2, <2>2, <4>3
      <4>5. \A j \in DOMAIN toClient' : toClient'[j].type = "INFO" /\ toClient'[j].file = g => j = i
        BY <1>4, <2>4, <2>5, <4>3, <4>4
      <4> QED BY <2>1, <4>1, <4>2, <4>3, <4>4, <4>5
    <3> QED BY <3>1, <3>2
  <2>7. \A g \in sAnnounced' \cap Announced : sAddress'[g] \in ServerAddresses[g]
    BY <1>2, <1>6, <2>2 DEF ServerAnnounced
  <2>8. \A h \in Remote' : \E g \in sAnnounced' \cap Announced :
          h \in {g, NewObject[g]} /\ mAddress'[h] = sAddress'[g]
    BY <1>2, <2>1, <2>2 DEF ServerAnnounced
  <2>9. \A g \in Announced : ~ (g \in Remote' /\ NewObject[g] \in Remote')
    BY <2>1 DEF ServerAnnounced
  <2> QED BY <2>6, <2>7, <2>8, <2>9 DEF ServerAnnounced
<1>15. Readers'
  <2>1. \A g \in sAnnounced \cap Requested : sAddress'[g] = sAddress[g] /\ (Ready(g) => Ready(g)')
    BY <1>2, <1>7, SystemFiles DEF Ready, Remote
  <2> QED BY <1>2, <1>8, <2>1, ReadersFrame
<1>16. ToServerCarried'
  BY <1>2 DEF ToServerCarried, OpenAtClient
<1>17. ToClientCarried'
  <2>1. Carried(Append(toClient, m), Requested, sReaders, sAddress, history, version)
    BY <1>2, <1>4, StateFacts, CarriedBehind DEF ToClientCarried
  <2>2. \A g \in sReaders : sAddress'[g] = sAddress[g]
    BY <1>7, FileFacts, SystemFiles
  <2>3. Carried(Append(toClient, m), Requested, sReaders, sAddress', history, version)
    BY <2>1, <2>2 DEF Carried
  <2> QED BY <1>2, <1>5, <2>3 DEF ToClientCarried, Carried
<1>18. Snapshot'
  BY <1>2, SnapshotFrame DEF Replica
<1> QED BY <1>2, <1>9, <1>10, <1>11, <1>12, <1>13, <1>14, <1>15, <1>16, <1>17, <1>18

LEMMA ServerSendsIInv ==
    ASSUME IInv, ~fault, greeted, toServer # <<>>, ServerSends(Received(Head(toServer)))
    PROVE  IInv' /\ UNCHANGED <<history, version>>
<1>1. PICK m0, m : m0 = toServer[1] /\ m = Received(m0)
  OBVIOUS
<1>2. /\ 1 \in DOMAIN toServer /\ m0 \in ClientMessage /\ ServerSends(m)
      /\ toServer[1] = m0 /\ Tail(toServer) \in Seq(ClientMessage)
      /\ m.type = m0.type
  BY <1>1, Outgone
<1>3. PICK f \in sAnnounced \cap Requested :
        /\ sAddress[f] = m.address
        /\ sReaders' = sReaders \cup {f}
        /\ toClient' = Append(toClient, Write(sAddress[f], sData[f], Version(f)))
  BY <1>2 DEF ServerSends
<1>4. /\ toServer' = Tail(toServer) /\ m.type = "OPEN"
      /\ UNCHANGED <<created, mLocalFiles, mRemoteFiles, mAddress, mLastLocal, mLastRemote,
                     isOpen, mTransmitHandler, mData, fault, link, mSendBuffer, dropped,
                     history, version, greeted, sAnnounced, sAddress, sOpened, sData, late>>
  BY <1>2 DEF ServerSends, client, maps, ghosts
<1>5. m = m0 /\ m0.type = "OPEN" /\ m.type # "WRITE"
  BY <1>1, <1>2, <1>4, SystemReads
<1>6. /\ f \in File /\ f \in Mirrored /\ f \in Announced /\ f \notin Local
      /\ sAddress[f] \in Nat /\ sAddress[f] \in UserAddress
  BY SystemFiles, RemotePlaces
<1>7. Ready(f)
  <2>1. PICK g \in sAnnounced \cap Requested : sAddress[g] = m0.address /\ Ready(g)
    BY <1>2, <1>5 DEF IInv, Readers
  <2>2. ASSUME g # f PROVE FALSE
    <3>1. Apart(sAddress[g], g, sAddress[f], f)
      BY <2>2, FileFacts DEF Separate
    <3>2. sAddress[g] = sAddress[f] /\ Length[g] \in Nat \ {0} /\ Length[f] \in Nat \ {0}
      BY <1>3, <1>5, <2>1, SystemFiles
    <3> QED BY <1>6, <3>1, <3>2 DEF Apart
  <2> QED BY <2>1, <2>2
<1>8. PICK w : w = Write(sAddress[f], history[f][Len(history[f])], Len(history[f]))
  OBVIOUS
<1>9. toClient' = Append(toClient, w)
  <2>1. sData[f] = history[f][Len(history[f])]
    BY <1>6, FileFacts DEF Owner
  <2> QED BY <1>3, <1>8, <2>1 DEF Version
<1>10. w \in ServerMessage /\ w.type = "WRITE" /\ w # Acknowledge
  <2>1. history[f][Len(history[f])] \in Data /\ Len(history[f]) \in Nat
    <3>1. history[f][Len(history[f])] = sData[f]
      BY <1>6, FileFacts DEF Owner
    <3> QED BY <1>6, <3>1, FileFacts, SystemSends
  <2> QED BY <1>6, <1>8, <2>1, SystemSends DEF Write, Acknowledge
<1>11. toClient' \in Seq(ServerMessage)
  BY <1>9, <1>10, StateFacts, AppendProperties
<1>12. link = "up"
  BY <1>7 DEF Ready
<1>13. Among(toServer', toServer, {})
  BY <1>4, StateFacts, QueueMoves
<1> USE DEF IInv
<1>14. Typed'
  BY <1>2, <1>3, <1>4, <1>11 DEF Typed, TypeOK
<1>15. Owned'
  BY <1>4, OwnedFrame DEF Owner
<1>16. Placed'
  BY <1>4, StateFacts, PlacedFrame
<1>17. Session'
  BY <1>4, <1>9, <1>10, <1>12, StateFacts, SessionFrame
<1>18. ClientAnnounced'
  BY <1>4, <1>13, StateFacts, ClientAnnouncedFrame
<1>19. ServerAnnounced'
  BY <1>4, <1>9, <1>10, StateFacts, SystemMessages, ServerAnnouncedFrame
<1>20. Readers'
  <2>1. \A g : Ready(g) => Ready(g)'
    BY <1>4 DEF Ready, Remote
  <2>2. \A g \in sReaders' : g \in sAnnounced' \cap Requested /\ Ready(g)'
    BY <1>3, <1>4, <1>7, <2>1 DEF Readers
  <2>3. ASSUME NEW i \in DOMAIN toServer', toServer'[i].type = "OPEN"
        PROVE  \E g \in sAnnounced' \cap Requested : sAddress'[g] = toServer'[i].address /\ Ready(g)'
    <3>1. PICK k \in DOMAIN toServer : toServer'[i] = toServer[k]
      BY <1>13, <2>3 DEF Among
    <3>2. PICK g \in sAnnounced \cap Requested : sAddress[g] = toServer[k].address /\ Ready(g)
      BY <2>3, <3>1 DEF Readers
    <3> QED BY <1>4, <2>1, <3>1, <3>2
  <2> QED BY <2>2, <2>3 DEF Readers
<1>21. ToServerCarried'
  <2>1. toServer[1].type # "WRITE"
    BY <1>2, <1>5
  <2>2. \A g \in Local : version[g] \in Nat /\ Len(history[g]) \in Nat
    BY FileFacts DEF Mirrored
  <2>3. Carried(Tail(toServer), Local, OpenAtClient, mAddress, history, version)
    BY <1>1, <2>1, <2>2, StateFacts, CarriedTail DEF ToServerCarried
  <2> QED BY <1>4, <2>3 DEF ToServerCarried, OpenAtClient
<1>22. ToClientCarried'
  <2>1. Carried(toClient, Requested, sReaders, sAddress, history, version)
    BY DEF ToClientCarried
  <2>2. /\ sReaders \cup {f} \subseteq sAnnounced \cap Requested
        /\ \A g \in sReaders \cup {f} : sAddress[g] \in Nat
        /\ Requested \subseteq File
    BY <1>6, FileFacts, StateFacts, SystemFiles
  <2>3. Separate(sReaders \cup {f}, sAddress)
    BY <2>2, FileFacts DEF Separate
  <2>4. Carried(toClient, Requested, sReaders \cup {f}, sAddress, history, version)
    <3>1. \A k \in DOMAIN toClient : toClient[k].type = "WRITE" => toClient[k].address \in Nat
      BY StateFacts, SystemMessages
    <3>2. f \in Requested
      OBVIOUS
    <3> QED BY <2>1, <2>2, <2>3, <3>1, <3>2, CarriedOpened
  <2>5. Carried(Append(toClient, w), Requested, sReaders \cup {f}, sAddress, history, version)
    <3>1. /\ history[f] \in Seq(Content(f)) /\ history[f] # <<>>
          /\ version[f] \in 0 .. Len(history[f])
      BY <1>6, FileFacts
    <3>2. f \in sReaders \cup {f} /\ toClient \in Seq(ServerMessage)
      BY StateFacts
    <3> QED BY <1>8, <2>2, <2>3, <2>4, <3>1, <3>2, CarriedWhole
  <2>6. Carried(toClient', Requested, sReaders', sAddress', history', version')
    BY <1>3, <1>4, <1>9, <2>5
  <2> QED BY <2>6 DEF ToClientCarried, Carried
<1>23. Snapshot'
  BY <1>4, SnapshotFrame DEF Replica
<1> QED BY <1>4, <1>14, <1>15, <1>16, <1>17, <1>18, <1>19, <1>20, <1>21, <1>22, <1>23

LEMMA ServerAppliesIInv ==
    ASSUME IInv, ~fault, greeted, toServer # <<>>, ServerApplies(Received(Head(toServer)))
    PROVE  /\ IInv' /\ history' = history
           /\ \/ version' = version
              \/ \E f \in Mirrored, v \in Nat :
                   version[f] <= v /\ version' = [version EXCEPT ![f] = v]
<1>1. PICK m0 : m0 = toServer[1]
  OBVIOUS
<1>2. /\ 1 \in DOMAIN toServer /\ m0 \in ClientMessage /\ toServer[1] = m0
      /\ Tail(toServer) \in Seq(ClientMessage)
      /\ ServerApplies(Received(m0)) /\ m0.type = Received(m0).type
  BY <1>1, Outgone
<1>3. m0.type = "WRITE"
  BY <1>2 DEF ServerApplies
<1>4. Received(m0) = m0
  BY <1>2, <1>3, SystemReads
<1>5. PICK m : m = m0 /\ ServerApplies(m)
  BY <1>2, <1>4
<1>6. /\ toServer' = Tail(toServer) /\ history' = history
      /\ UNCHANGED <<created, mLocalFiles, mRemoteFiles, mAddress, mLastLocal, mLastRemote,
                     isOpen, mTransmitHandler, mData, fault, link, mSendBuffer, dropped,
                     toClient, greeted, sAnnounced, sAddress, sOpened, sReaders, late>>
  BY <1>5 DEF ServerApplies, client, maps, serverSession
<1> DEFINE target == {f \in sOpened : Covers(sAddress, f, m.address)}
<1>7. IF target = {} THEN UNCHANGED <<sData, version>>
      ELSE \E f \in target :
             /\ sData' = [sData EXCEPT ![f] = Overwrite(@, m.address - sAddress[f], m.data)]
             /\ version' = [version EXCEPT ![f] = Arrived(f, m)]
  BY <1>5 DEF ServerApplies
<1>8. m.address \in Nat /\ m.data \in Data /\ toServer[1] = m /\ m.type = "WRITE"
  BY <1>2, <1>3, <1>5, SystemMessages
<1>9. PICK g \in OpenAtClient : Within(mAddress[g], g, m.address)
  BY <1>2, <1>8 DEF IInv, ToServerCarried, Carried
<1>10. /\ g \in Published /\ g \in Local /\ g \in Mirrored /\ g \in File
       /\ mAddress[g] \in Nat
  BY FileFacts, StateFacts, SystemFiles DEF Mirrored
<1>11. ASSUME NEW f \in sOpened
       PROVE  /\ f \in Published /\ sAddress[f] = mAddress[f]
              /\ Covers(sAddress, f, m.address) <=> Within(mAddress[f], f, m.address)
  <2>1. f \in Published /\ sAddress[f] = mAddress[f] /\ f \in File
    BY SystemFiles DEF IInv, ClientAnnounced
  <2>2. mAddress[f] \in Nat /\ Length[f] \in Nat /\ mAddress[f] + Length[f] <= USER_DATA_END
    BY <2>1, StateFacts, SystemFiles DEF IInv, Placed
  <2>3. (mAddress[f] + Length[f]) % WordSize = mAddress[f] + Length[f]
    BY <2>2, ServerPlaces
  <2> QED BY <2>1, <2>3 DEF Covers, EndAddress, Within
<1>12. ASSUME NEW f \in target
       PROVE  f = g
  <2>1. f \in Published /\ Within(mAddress[f], f, m.address)
    BY <1>11
  <2>2. ASSUME f # g PROVE FALSE
    <3>1. Apart(mAddress[g], g, mAddress[f], f)
      BY <1>10, <2>1, <2>2 DEF IInv, Placed
    <3>2. f \in File /\ mAddress[f] \in Nat
      BY <2>1, StateFacts, SystemFiles
    <3> QED BY <1>8, <1>9, <1>10, <2>1, <3>1, <3>2, OneFile
  <2> QED BY <2>2
<1>13. /\ sData[g] \in Content(g) /\ version[g] \in Nat /\ version[g] \in 0 .. Len(history[g])
       /\ history[g] \in Seq(Content(g)) /\ Len(history[g]) \in Nat
       /\ sData \in [Mirrored -> UNION {Content(f) : f \in Mirrored}]
       /\ version \in [Mirrored -> Nat]
  BY <1>10, FileFacts DEF IInv, Typed
<1>14. version[g] # 0 => sData[g] = history[g][version[g]]
  BY <1>10 DEF IInv, Snapshot, Replica
<1>15. Carried(toServer, Local, OpenAtClient, mAddress, history, version)
  BY DEF IInv, ToServerCarried
<1> DEFINE Effect ==
      /\ sData' \in [Mirrored -> UNION {Content(f) : f \in Mirrored}]
      /\ version' \in [Mirrored -> Nat]
      /\ \A f \in Mirrored \ {g} : sData'[f] = sData[f] /\ version'[f] = version[f]
      /\ sData'[g] \in Content(g) /\ version'[g] \in 0 .. Len(history[g])
      /\ version'[g] # 0 => sData'[g] = history[g][version'[g]]
      /\ g \notin sOpened => version'[g] = 0
      /\ version'[g] = m.version \/ version'[g] = 0
      /\ \/ version' = version
         \/ \E f \in Mirrored, v \in Nat :
              version[f] <= v /\ version' = [version EXCEPT ![f] = v]
<1> HIDE DEF Effect, target
<1>16. ASSUME target = {}
       PROVE  Effect
  <2>1. g \notin sOpened
    BY <1>9, <1>11, <1>16 DEF target
  <2>2. version[g] = 0
    BY <1>10, <2>1 DEF IInv, ClientAnnounced
  <2>3. UNCHANGED <<sData, version>>
    BY <1>7, <1>16
  <2> QED BY <1>13, <1>14, <2>2, <2>3 DEF Effect
<1>17. ASSUME target # {}
       PROVE  Effect
  <2>1. PICK f \in target :
          /\ sData' = [sData EXCEPT ![f] = Overwrite(@, m.address - sAddress[f], m.data)]
          /\ version' = [version EXCEPT ![f] = Arrived(f, m)]
    BY <1>7, <1>17
  <2>2. f = g /\ g \in sOpened /\ sAddress[g] = mAddress[g]
    <3>1. f = g
      BY <1>12, <2>1
    <3>2. f \in sOpened
      BY <2>1 DEF target
    <3> QED BY <1>11, <3>1, <3>2
  <2>3. Facing(toServer, g, mAddress[g], history[g], version[g], sData[g])
    <3>1. Chain(toServer, g, mAddress[g], history[g], version[g])
      BY <1>15 DEF Carried
    <3>2. \A k \in DOMAIN toServer : k \in Nat \ {0}
      BY StateFacts, LenProperties
    <3>3. 1 \in Targets(toServer, g, mAddress[g])
          /\ \A k \in Targets(toServer, g, mAddress[g]) : k \in Nat \ {0}
      BY <1>2, <1>8, <1>9, <3>2 DEF Targets
    <3> QED BY <1>8, <1>10, <1>13, <1>14, <3>1, <3>3 DEF Facing
  <2> DEFINE offset == m.address - mAddress[g]
             new == After(m, g, version[g])
             content == Overwrite(sData[g], offset, m.data)
  <2>4. /\ content \in Content(g)
        /\ new \in 0 .. Len(history[g]) /\ version[g] <= new
        /\ new = m.version \/ new = 0
        /\ new # 0 => content = history[g][new]
    BY <1>8, <2>3, HeadApplied
  <2>5. sData' = [sData EXCEPT ![g] = content] /\ version' = [version EXCEPT ![g] = new]
    BY <2>1, <2>2 DEF Arrived, After
  <2> HIDE DEF content, new
  <2>6. new \in Nat /\ content \in UNION {Content(k) : k \in Mirrored}
    BY <1>10, <1>13, <2>4
  <2>7. /\ sData' \in [Mirrored -> UNION {Content(k) : k \in Mirrored}]
        /\ version' \in [Mirrored -> Nat]
        /\ \A k \in Mirrored \ {g} : sData'[k] = sData[k] /\ version'[k] = version[k]
        /\ sData'[g] = content /\ version'[g] = new
    BY <1>10, <1>13, <2>5, <2>6
  <2>8. \E k \in Mirrored, v \in Nat :
          version[k] <= v /\ version' = [version EXCEPT ![k] = v]
    BY <1>10, <2>4, <2>5, <2>6
  <2>9. /\ sData'[g] \in Content(g) /\ version'[g] \in 0 .. Len(history[g])
        /\ version'[g] # 0 => sData'[g] = history[g][version'[g]]
        /\ version'[g] = m.version \/ version'[g] = 0
    BY <2>4, <2>7
  <2> QED BY <2>2, <2>7, <2>8, <2>9, Zenon DEF Effect
<1>18. Effect
  BY <1>16, <1>17
<1>19. /\ sData' \in [Mirrored -> UNION {Content(f) : f \in Mirrored}]
       /\ version' \in [Mirrored -> Nat]
       /\ \A f \in Mirrored \ {g} : sData'[f] = sData[f] /\ version'[f] = version[f]
       /\ sData'[g] \in Content(g) /\ version'[g] \in 0 .. Len(history[g])
       /\ version'[g] # 0 => sData'[g] = history[g][version'[g]]
       /\ g \notin sOpened => version'[g] = 0
       /\ version'[g] = m.version \/ version'[g] = 0
  BY <1>18 DEF Effect
<1>20. Among(toServer', toServer, {})
  BY <1>6, StateFacts, QueueMoves
<1>21. \A f \in Requested : f \in Mirrored \ {g}
  BY <1>10, SystemFiles DEF Mirrored
<1> USE DEF IInv
<1>22. Typed'
  <2>1. \A f \in Mirrored : sData'[f] \in Content(f) /\ version'[f] \in 0 .. Len(history'[f])
    BY <1>6, <1>19, FileFacts
  <2> QED BY <1>2, <1>6, <1>19, <2>1 DEF Typed, TypeOK
<1>23. Owned'
  <2>1. \A f \in Mirrored : Owner(f)' = Owner(f)
    BY <1>6, <1>10, <1>19 DEF Owner
  <2> QED BY <1>6, <2>1, OwnedFrame
<1>24. Placed'
  BY <1>6, StateFacts, PlacedFrame
<1>25. Session'
  BY <1>6, StateFacts, SessionFrame
<1>26. ClientAnnounced'
  <2>1. Published' = Published
    BY <1>6 DEF Published
  <2>2. ASSUME NEW i \in DOMAIN toServer', toServer'[i].type = "INFO"
        PROVE  toServer'[i].file \in Published /\ toServer'[i].address = mAddress[toServer'[i].file]
    <3>1. PICK k \in DOMAIN toServer : toServer'[i] = toServer[k]
      BY <1>20, <2>2 DEF Among
    <3> QED BY <2>2, <3>1 DEF ClientAnnounced
  <2>3. \A f \in Local \ sOpened : version'[f] = 0
    BY <1>19 DEF ClientAnnounced, Mirrored
  <2> QED BY <1>6, <2>1, <2>2, <2>3 DEF ClientAnnounced
<1>27. ServerAnnounced'
  BY <1>6, StateFacts, SystemMessages, ServerAnnouncedFrame
<1>28. Readers'
  BY <1>6, <1>20, ReadersFrame DEF Ready, Remote
<1>29. ToServerCarried'
  <2>1. /\ Local \subseteq File /\ \A k \in Local : version[k] \in Nat /\ Len(history[k]) \in Nat
        /\ \A k \in OpenAtClient : mAddress[k] \in Nat
    BY FileFacts, StateFacts, SystemFiles DEF Mirrored
  <2>2. Separate(OpenAtClient, mAddress)
    BY FileFacts
  <2>3. \A k \in Local : k # g => version'[k] = version[k]
    BY <1>19 DEF Mirrored
  <2>4. version'[g] \in Nat /\ (version'[g] = toServer[1].version \/ version'[g] = 0)
    BY <1>8, <1>10, <1>19
  <2>5. toServer \in Seq(ClientMessage) /\ toServer # <<>> /\ toServer[1].type = "WRITE"
        /\ toServer[1].address \in Nat /\ Within(mAddress[g], g, toServer[1].address)
    BY <1>8, <1>9, StateFacts
  <2>6. Carried(Tail(toServer), Local, OpenAtClient, mAddress, history, version')
    BY <1>9, <1>15, <2>1, <2>2, <2>3, <2>4, <2>5, CarriedTaken
  <2> QED BY <1>6, <2>6 DEF ToServerCarried, OpenAtClient
<1>30. ToClientCarried'
  <2>1. \A k \in Requested : version'[k] = version[k]
    BY <1>19, <1>21
  <2>2. Carried(toClient, Requested, sReaders, sAddress, history, version)
    BY DEF ToClientCarried
  <2>3. Carried(toClient, Requested, sReaders, sAddress, history, version')
    BY <2>1, <2>2, FileFacts DEF Carried
  <2> QED BY <1>6, <2>3 DEF ToClientCarried, Carried
<1>31. Snapshot'
  <2>1. ASSUME NEW f \in Mirrored, version'[f] # 0
        PROVE  Replica(f)' = history'[f][version'[f]]
    <3>1. CASE f = g
      BY <1>6, <1>10, <1>19, <2>1, <3>1 DEF Replica
    <3>2. CASE f # g
      BY <1>6, <1>19, <2>1, <3>2 DEF Replica, Snapshot
    <3> QED BY <3>1, <3>2
  <2> QED BY <2>1 DEF Snapshot
<1>32. /\ history' = history
       /\ \/ version' = version
          \/ \E f \in Mirrored, v \in Nat :
               version[f] <= v /\ version' = [version EXCEPT ![f] = v]
  BY <1>6, <1>18 DEF Effect
<1> QED BY <1>22, <1>23, <1>24, <1>25, <1>26, <1>27, <1>28, <1>29, <1>30, <1>31, <1>32

LEMMA ServerWritesIInv ==
    ASSUME IInv, NEW f \in Requested, NEW offset \in 0 .. Length[f] - 1,
           ServerWrites(f, offset)
    PROVE  IInv' /\ GhostStep
<1> DEFINE h == history[f]
           c == NewState(f, h, offset)
           w == Write(sAddress[f] + offset, <<Len(h)>>, Len(h) + 1)
<1>1. /\ ~fault /\ Version(f) <= MaxWrites
      /\ sData' = [sData EXCEPT ![f] = Overwrite(@, offset, <<Version(f)>>)]
      /\ history' = [history EXCEPT ![f] = Append(@, sData'[f])]
      /\ toClient' = IF f \in sReaders THEN Append(toClient, w) ELSE toClient
      /\ UNCHANGED <<created, mLocalFiles, mRemoteFiles, mAddress, mLastLocal, mLastRemote,
                     isOpen, mTransmitHandler, mData, fault, link, mSendBuffer, toServer, dropped,
                     version, greeted, sAnnounced, sAddress, sOpened, sReaders, late>>
  BY DEF ServerWrites, client, maps, sending, serverSession, Version
<1>2. /\ f \in Mirrored /\ f \in File /\ f \notin Local /\ Length[f] \in Nat \ {0}
      /\ sData \in [Mirrored -> UNION {Content(g) : g \in Mirrored}]
      /\ history \in [Mirrored -> Seq(UNION {Content(g) : g \in Mirrored})]
  BY SystemFiles DEF Mirrored, IInv, Typed, Owned
<1>3. sData[f] = h[Len(h)]
  BY <1>2, FileFacts DEF Owner
<1>4. sData' = [sData EXCEPT ![f] = c]
  BY <1>1, <1>2, <1>3 DEF Version, NewState
<1>5. sData'[f] = c /\ \A g \in Mirrored \ {f} : sData'[g] = sData[g]
  BY <1>2, <1>4
<1>6. history' = [history EXCEPT ![f] = Append(@, c)]
  BY <1>1, <1>5
<1>7. /\ history' \in [Mirrored -> Seq(UNION {Content(g) : g \in Mirrored})]
      /\ \A g \in Mirrored \ {f} : history'[g] = history[g]
      /\ history'[f] = Append(h, c)
      /\ c \in Content(f) /\ c \in UNION {Content(g) : g \in Mirrored}
      /\ <<Len(h)>> \in Data
      /\ history'[f] \in Seq(Content(f)) /\ history'[f] # <<>>
      /\ Len(history'[f]) = Len(h) + 1 /\ history'[f][Len(h) + 1] = c
      /\ \A v \in 1 .. Len(h) : history'[f][v] = h[v]
  BY <1>1, <1>2, <1>6, StateAdded
<1>8. /\ h \in Seq(Content(f)) /\ h # <<>> /\ Len(h) \in Nat \ {0} /\ version[f] \in 0 .. Len(h)
  BY <1>2, FileFacts
<1>9. /\ Carried(toClient, Requested, sReaders, sAddress, history, version)
      /\ toClient \in Seq(ServerMessage) /\ Requested \subseteq File
      /\ \A g \in Requested : g # f => history'[g] = history[g]
  BY <1>1, <1>7, StateFacts, SystemFiles DEF IInv, ToClientCarried, Mirrored
<1> DEFINE Effect == /\ toClient' \in Seq(ServerMessage)
                     /\ \/ toClient' = toClient
                        \/ greeted /\ toClient' = Append(toClient, w)
                     /\ Carried(toClient', Requested, sReaders, sAddress, history', version)
<1> HIDE DEF Effect
<1>10. ASSUME f \notin sReaders
       PROVE  Effect
  <2>1. Carried(toClient, Requested, sReaders, sAddress, history', version)
    BY <1>9, <1>10, CarriedSilent
  <2> QED BY <1>1, <1>9, <1>10, <2>1 DEF Effect
<1>11. ASSUME f \in sReaders
       PROVE  Effect
  <2>1. f \in sAnnounced \cap Announced /\ greeted
    <3>1. link = "up"
      BY <1>11, StateFacts DEF IInv, Session
    <3> QED BY <1>11, <3>1, FileFacts, SystemFiles DEF IInv, Session
  <2>2. sAddress[f] + offset \in UserAddress
    <3>1. sAddress[f] \in Nat /\ sAddress[f] + Length[f] <= USER_DATA_END
      BY <2>1, RemotePlaces
    <3> QED BY <1>2, <3>1, ServerPlaces DEF UserAddress
  <2>3. w \in ServerMessage
    BY <1>7, <1>8, <2>2, SystemSends
  <2>4. toClient' = Append(toClient, w) /\ toClient' \in Seq(ServerMessage)
    <3> HIDE DEF w
    <3> QED BY <1>1, <1>9, <1>11, <2>3, AppendProperties
  <2>5. Separate(sReaders, sAddress) /\ \A g \in sReaders : sAddress[g] \in Nat
    BY <1>9, FileFacts, StateFacts
  <2>6. Carried(Append(toClient, w), Requested, sReaders, sAddress, history', version)
    <3>1. PICK m : m = Write(sAddress[f] + offset, <<Len(history[f])>>, Len(history[f]) + 1)
      OBVIOUS
    <3>2. Len(history[f]) <= MaxWrites
      BY <1>1 DEF Version
    <3>3. Carried(Append(toClient, m), Requested, sReaders, sAddress, history', version)
      BY <1>7, <1>8, <1>9, <1>11, <2>5, <3>1, <3>2, CarriedWritten
    <3> QED BY <3>1, <3>3
  <2> QED BY <2>1, <2>4, <2>6 DEF Effect
<1>12. Effect
  BY <1>10, <1>11
<1>13. /\ toClient' \in Seq(ServerMessage)
       /\ \/ toClient' = toClient
          \/ greeted /\ toClient' = Append(toClient, w)
       /\ Carried(toClient', Requested, sReaders, sAddress, history', version)
  BY <1>12 DEF Effect
<1>14. w.type = "WRITE" /\ w # Acknowledge
  BY DEF Write, Acknowledge
<1> HIDE DEF w, c, h
<1>15. Among(toServer', toServer, {})
  BY <1>1, StateFacts, QueueMoves
<1> USE DEF IInv
<1>16. Typed'
  <2>1. sData' \in [Mirrored -> UNION {Content(g) : g \in Mirrored}]
    BY <1>2, <1>4, <1>7
  <2>2. ASSUME NEW g \in Mirrored
        PROVE  mData'[g] \in Content(g) /\ sData'[g] \in Content(g)
               /\ version'[g] \in 0 .. Len(history'[g])
    <3>1. CASE g = f
      <4>1. version'[f] \in 0 .. Len(history'[f])
        BY <1>1, <1>7, <1>8 DEF h
      <4> QED BY <1>1, <1>5, <1>7, <3>1, <4>1, FileFacts
    <3>2. CASE g # f
      BY <1>1, <1>5, <1>7, <3>2, FileFacts
    <3> QED BY <3>1, <3>2
  <2> QED BY <1>1, <1>13, <2>1, <2>2 DEF Typed, TypeOK
<1>17. Owned'
  <2>1. ASSUME NEW g \in Mirrored
        PROVE  /\ history'[g] \in Seq(Content(g)) /\ history'[g] # <<>>
               /\ Owner(g)' = history'[g][Len(history'[g])]
    <3>1. CASE g = f
      BY <1>2, <1>5, <1>7, <3>1 DEF Owner
    <3>2. CASE g # f
      <4>1. Owner(g)' = Owner(g)
        BY <1>1, <1>5, <3>2 DEF Owner
      <4> QED BY <1>7, <3>2, <4>1, FileFacts
    <3> QED BY <3>1, <3>2
  <2> QED BY <1>7, <2>1 DEF Owned, Version
<1>18. Placed'
  BY <1>1, StateFacts, PlacedFrame
<1>19. Session'
  BY <1>1, <1>13, <1>14, StateFacts, SessionFrame
<1>20. ClientAnnounced'
  BY <1>1, <1>15, StateFacts, ClientAnnouncedFrame
<1>21. ServerAnnounced'
  BY <1>1, <1>13, <1>14, StateFacts, SystemMessages, ServerAnnouncedFrame
<1>22. Readers'
  BY <1>1, <1>15, ReadersFrame DEF Ready, Remote
<1>23. ToServerCarried'
  <2>1. \A g \in Local : history'[g] = history[g]
    BY <1>2, <1>7 DEF Mirrored
  <2>2. Carried(toServer, Local, OpenAtClient, mAddress, history, version)
    BY DEF ToServerCarried
  <2>3. Carried(toServer, Local, OpenAtClient, mAddress, history', version)
    BY <2>1, <2>2, FileFacts DEF Carried
  <2> QED BY <1>1, <2>3 DEF ToServerCarried, OpenAtClient
<1>24. ToClientCarried'
  <2>1. Carried(toClient', Requested, sReaders', sAddress', history', version')
    BY <1>1, <1>13
  <2> QED BY <2>1 DEF ToClientCarried, Carried
<1>25. Snapshot'
  <2>1. ASSUME NEW g \in Mirrored, version'[g] # 0
        PROVE  Replica(g)' = history'[g][version'[g]]
    <3>1. Replica(g)' = Replica(g) /\ Replica(g) = history[g][version[g]]
      BY <1>1, <1>2, <1>5, <2>1 DEF Replica, Snapshot
    <3>2. CASE g = f
      <4>1. version[f] \in 1 .. Len(h) /\ version' = version
        BY <1>1, <1>8, <2>1, <3>2
      <4> QED BY <1>7, <3>1, <3>2, <4>1 DEF h
    <3>3. CASE g # f
      BY <1>1, <1>7, <3>1, <3>3
    <3> QED BY <3>2, <3>3
  <2> QED BY <2>1 DEF Snapshot
<1>26. GhostStep
  BY <1>1, <1>2, <1>6, <1>7 DEF GhostStep
<1> QED BY <1>16, <1>17, <1>18, <1>19, <1>20, <1>21, <1>22, <1>23, <1>24, <1>25, <1>26

-----------------------------------------------------------------------------
(* Every step. *)

LEMMA StutterIInv ==
    ASSUME IInv, UNCHANGED vars
    PROVE  IInv' /\ UNCHANGED <<history, version>>
<1>1. UNCHANGED <<created, mLocalFiles, mRemoteFiles, mAddress, mLastLocal, mLastRemote,
                  isOpen, mTransmitHandler, mData, fault, link, mSendBuffer, toServer, dropped,
                  history, version, toClient, greeted, sAnnounced, sAddress, sOpened, sReaders,
                  sData, late>>
  BY DEF vars, client, maps, sending, ghosts, serverSession
<1>2. Among(toServer', toServer, {})
  BY <1>1, StateFacts, QueueMoves
<1> USE DEF IInv
<1>3. Typed'
  BY <1>1 DEF Typed, TypeOK
<1>4. Owned'
  BY <1>1, OwnedFrame DEF Owner
<1>5. Placed'
  BY <1>1, StateFacts, PlacedFrame
<1>6. Session'
  BY <1>1, StateFacts, SessionFrame
<1>7. ClientAnnounced'
  BY <1>1, <1>2, StateFacts, ClientAnnouncedFrame
<1>8. ServerAnnounced'
  BY <1>1, StateFacts, SystemMessages, ServerAnnouncedFrame
<1>9. Readers'
  BY <1>1, <1>2, ReadersFrame DEF Ready, Remote
<1>10. ToServerCarried' /\ ToClientCarried'
  BY <1>1 DEF ToServerCarried, ToClientCarried, OpenAtClient
<1>11. Snapshot'
  BY <1>1, SnapshotFrame DEF Replica
<1> QED BY <1>1, <1>3, <1>4, <1>5, <1>6, <1>7, <1>8, <1>9, <1>10, <1>11

\* The steps of the reader's side of the connection to the server.
LEMMA ServeIInv ==
    ASSUME IInv, Serve
    PROVE  IInv' /\ GhostStep
<1>1. CASE ServerGreeted
  BY <1>1, ServerGreetedIInv DEF GhostStep
<1>2. CASE ServerRejects
  BY <1>2, BrokenIInv DEF ServerRejects, GhostStep
<1>3. CASE \E m \in ServerReads : ServerLearns(m) \/ ServerSends(m) \/ ServerApplies(m)
  <2>1. PICK m \in ServerReads : ServerLearns(m) \/ ServerSends(m) \/ ServerApplies(m)
    BY <1>3
  <2>2. ~fault /\ greeted /\ toServer # <<>> /\ m = Received(Head(toServer))
    BY DEF ServerReads
  <2>3. CASE ServerLearns(m)
    BY <2>2, <2>3, ServerLearnsIInv DEF GhostStep
  <2>4. CASE ServerSends(m)
    BY <2>2, <2>4, ServerSendsIInv DEF GhostStep
  <2>5. CASE ServerApplies(m)
    <3>1. /\ IInv' /\ history' = history
          /\ \/ version' = version
             \/ \E f \in Mirrored, v \in Nat :
                  version[f] <= v /\ version' = [version EXCEPT ![f] = v]
      BY <2>2, <2>5, ServerAppliesIInv
    <3> QED BY <3>1 DEF GhostStep
  <2> QED BY <2>1, <2>3, <2>4, <2>5
<1> QED BY <1>1, <1>2, <1>3 DEF Serve

LEMMA NextIInv ==
    ASSUME IInv, [Next]_vars
    PROVE  IInv' /\ GhostStep
<1>1. CASE Connect
  BY <1>1, ConnectIInv DEF Connect, ghosts, GhostStep
<1>2. CASE Established
  BY <1>2, EstablishedIInv DEF Established, ghosts, GhostStep
<1>3. CASE \E f \in Announced : ServerAnnounces(f)
  BY <1>3, ServerAnnouncesIInv DEF GhostStep
<1>4. CASE \E f \in Local : ServerOpens(f)
  BY <1>4, ServerOpensIInv DEF GhostStep
<1>5. CASE Serve
  BY <1>5, ServeIInv
<1>6. CASE ClientReceives
  BY <1>6, ClientReceivesIInv
<1>7. CASE Lose
  BY <1>7, BrokenIInv DEF Lose, GhostStep
<1>8. CASE Create
  BY <1>8, CreateIInv DEF GhostStep
<1>9. CASE \E f \in PortFiles : \E offset \in 0 .. Length[f] - 1 : ApplicationWrites(f, offset)
  BY <1>9, ApplicationWritesIInv
<1>10. CASE \E f \in Requested : \E offset \in 0 .. Length[f] - 1 : ServerWrites(f, offset)
  BY <1>10, ServerWritesIInv
<1>11. CASE UNCHANGED vars
  BY <1>11, StutterIInv DEF GhostStep
<1> QED BY <1>1, <1>2, <1>3, <1>4, <1>5, <1>6, <1>7, <1>8, <1>9, <1>10, <1>11 DEF Next, Progress

\* The invariant holds in every state.
THEOREM Invariant == Spec => []IInv
<1>1. Init => IInv
  BY InitIInv
<1>2. IInv /\ [Next]_vars => IInv'
  BY NextIInv
<1> QED BY <1>1, <1>2, PTL DEF Spec

-----------------------------------------------------------------------------
(* What follows from it. *)

\* The shape of the state, for every node and server.
THEOREM TypeCorrect == Spec => []TypeOK
<1>1. IInv => TypeOK
  BY DEF IInv, Typed
<1> QED BY <1>1, Invariant, PTL

\* What one side holds of an open file is a state the file has had at its owner.
THEOREM ReplicasCurrent == Spec => []Snapshot
<1>1. IInv => Snapshot
  BY DEF IInv
<1> QED BY <1>1, Invariant, PTL

\* The files of the node have bytes of their own below the command area, whichever
\* files createLocalNode could place (attachLocalFile).
THEOREM NodePlaced == Spec => []Placed
<1>1. IInv => Placed
  BY DEF IInv
<1> QED BY <1>1, Invariant, PTL

\* What the client has put into its remote map are files of this connection, each once
\* and at the address the server gave it (processCmd, onDisconnected).
THEOREM RemoteMapCurrent == Spec => []ServerAnnounced
<1>1. IInv => ServerAnnounced
  BY DEF IInv
<1> QED BY <1>1, Invariant, PTL

\* Content and single writes on their way to the server bring it one state after the
\* other, up to the last (outPortDataWriteNotify, processCmd).
THEOREM WritesToServer == Spec => []ToServerCarried
<1>1. IInv => ToServerCarried
  BY DEF IInv
<1> QED BY <1>1, Invariant, PTL

\* And those on their way to the client, until a lookup out of range stops it
\* (processFileWrite).
THEOREM WritesToClient == Spec => []ToClientCarried
<1>1. IInv => ToClientCarried
  BY DEF IInv
<1> QED BY <1>1, Invariant, PTL

\* A write on its way to the client is one to a file that it has opened, at the
\* address under which it will find the file (processFileWrite).
THEOREM WritesArrive == Spec => []WritesLand
<1>1. ASSUME IInv
      PROVE  WritesLand
  <2> SUFFICES ASSUME NEW i \in DOMAIN toClient, toClient[i].type = "WRITE"
               PROVE  \E f \in sReaders :
                        /\ Covers(sAddress, f, toClient[i].address)
                        /\ link = "up" /\ mAddress[f] = sAddress[f] /\ isOpen[f]
                        /\ \E k \in DOMAIN mRemoteFiles : mRemoteFiles[k] = f
    BY DEF WritesLand
  <2>1. PICK f \in sReaders : Within(sAddress[f], f, toClient[i].address)
    BY <1>1 DEF IInv, ToClientCarried
  <2>2. f \in sAnnounced \cap Requested /\ Ready(f)
    BY <1>1 DEF IInv, Readers
  <2>3. /\ link = "up" /\ mAddress[f] = sAddress[f] /\ isOpen[f]
        /\ \E k \in DOMAIN mRemoteFiles : mRemoteFiles[k] = f
    BY <2>2 DEF Ready, Remote, ToSet
  <2>4. Covers(sAddress, f, toClient[i].address)
    <3>1. f \in sAnnounced \cap Announced /\ Length[f] \in Nat
      BY <2>2, SystemFiles
    <3>2. sAddress[f] \in Nat /\ sAddress[f] + Length[f] <= USER_DATA_END
      BY <1>1, <3>1, RemotePlaces
    <3>3. (sAddress[f] + Length[f]) % WordSize = sAddress[f] + Length[f]
      BY <3>1, <3>2, ServerPlaces
    <3> QED BY <2>1, <3>3 DEF Covers, EndAddress, Within
  <2> QED BY <2>3, <2>4
<1> QED BY <1>1, Invariant, PTL

-----------------------------------------------------------------------------
(* ApxSystem implements Mirror. *)

\* What is shown of a replica is the state it is in.
LEMMA ShownStates ==
    ASSUME IInv
    PROVE  Shown = [f \in Mirrored |-> IF version[f] = 0 THEN <<>> ELSE history[f][version[f]]]
BY DEF IInv, Snapshot, Shown

LEMMA InitMirror ==
    ASSUME Init
    PROVE  M!Init
<1>1. /\ history = [f \in Mirrored |-> <<Blank(f)>>]
      /\ version = [f \in Mirrored |-> 0]
  BY DEF Init, FileManagerInit
<1>2. history \in [Mirrored -> {<<c>> : c \in UNION {Content(f) : f \in Mirrored}}]
  <2>1. \A f \in Mirrored : Blank(f) \in UNION {Content(g) : g \in Mirrored}
    BY BlankContent
  <2> QED BY <1>1, <2>1
<1>3. Shown = [f \in Mirrored |-> <<>>]
  BY <1>1 DEF Shown
<1> QED BY <1>1, <1>2, <1>3 DEF M!Init

LEMMA NextMirror ==
    ASSUME IInv, IInv', GhostStep
    PROVE  [M!Next]_(M!vars)
<1>1. /\ Shown = [f \in Mirrored |-> IF version[f] = 0 THEN <<>> ELSE history[f][version[f]]]
      /\ \A f \in Mirrored : version[f] \in 0 .. Len(history[f]) /\ version[f] \in Nat
                             /\ Len(history[f]) \in Nat /\ history[f] \in Seq(Content(f))
      /\ version \in [Mirrored -> Nat]
      /\ history \in [Mirrored -> Seq(UNION {Content(f) : f \in Mirrored})]
  BY ShownStates, FileFacts DEF IInv, Typed, Owned
<1>2. Shown' = [f \in Mirrored |-> IF version'[f] = 0 THEN <<>> ELSE history'[f][version'[f]]]
  BY DEF IInv, Snapshot, Shown
<1>3. \A f \in Mirrored : version'[f] \in 0 .. Len(history'[f])
  BY DEF IInv, Typed, TypeOK
<1>4. CASE UNCHANGED <<history, version>>
  <2>1. Shown' = Shown
    BY <1>1, <1>2, <1>4
  <2> QED BY <1>4, <2>1 DEF M!vars
<1>5. CASE /\ \E f \in Mirrored : \E c \in Content(f) :
                history' = [history EXCEPT ![f] = Append(@, c)]
           /\ version' = version
  <2>1. PICK f \in Mirrored : \E c \in Content(f) : history' = [history EXCEPT ![f] = Append(@, c)]
    BY <1>5
  <2>2. PICK c \in Content(f) : history' = [history EXCEPT ![f] = Append(@, c)]
    BY <2>1
  <2>3. c \in UNION {Content(g) : g \in Mirrored}
    OBVIOUS
  <2>4. ASSUME NEW g \in Mirrored, version[g] # 0
        PROVE  history'[g][version[g]] = history[g][version[g]]
    <3>1. CASE g # f
      BY <1>1, <2>2, <3>1
    <3>2. CASE g = f
      <4>1. history'[f] = Append(history[f], c)
        BY <1>1, <2>2
      <4>2. version[f] \in 1 .. Len(history[f]) /\ history[f] \in Seq(Content(f))
        BY <1>1, <2>4, <3>2
      <4>3. \A v \in DOMAIN history[f] : Append(history[f], c)[v] = history[f][v]
        BY <4>2, Appended
      <4>4. DOMAIN history[f] = 1 .. Len(history[f])
        BY <4>2, LenProperties
      <4> QED BY <3>2, <4>1, <4>2, <4>3, <4>4
    <3> QED BY <3>1, <3>2
  <2>5. Shown' = Shown
    BY <1>1, <1>2, <1>5, <2>4
  <2>6. M!Write(f)
    BY <1>5, <2>2, <2>3, <2>5 DEF M!Write
  <2> QED BY <2>6 DEF M!Next
<1>6. CASE /\ \E f \in Mirrored, v \in Nat :
                version[f] <= v /\ version' = [version EXCEPT ![f] = v]
           /\ history' = history
  <2>1. PICK f \in Mirrored, v \in Nat : version[f] <= v /\ version' = [version EXCEPT ![f] = v]
    BY <1>6
  <2>2. version'[f] = v /\ v \in 0 .. Len(history[f])
    <3>1. version'[f] = v
      BY <1>1, <2>1
    <3> QED BY <1>3, <1>6, <3>1
  <2>3. CASE v = 0
    <3>1. version[f] = 0
      BY <1>1, <2>1, <2>3
    <3>2. version' = version
      BY <1>1, <2>1, <2>3, <3>1
    <3>3. Shown' = Shown
      BY <1>1, <1>2, <1>6, <3>2
    <3> QED BY <1>6, <3>2, <3>3 DEF M!vars
  <2>4. CASE v # 0
    <3>1. v \in 1 .. Len(history[f]) /\ v >= version[f]
      BY <1>1, <2>1, <2>2, <2>4
    <3>2. Shown' = [Shown EXCEPT ![f] = history[f][v]]
      <4>1. \A g \in Mirrored \ {f} : version'[g] = version[g]
        BY <1>1, <2>1
      <4>2. \A g \in Mirrored : Shown'[g] = IF g = f THEN history[f][v] ELSE Shown[g]
        BY <1>1, <1>2, <1>6, <2>2, <2>4, <4>1
      <4>3. Shown = [g \in Mirrored |-> Shown[g]] /\ Shown' = [g \in Mirrored |-> Shown'[g]]
        BY <1>1, <1>2
      <4> QED BY <4>2, <4>3
    <3>3. M!Synchronise(f)
      BY <1>6, <2>1, <3>1, <3>2 DEF M!Synchronise
    <3> QED BY <3>3 DEF M!Next
  <2> QED BY <2>3, <2>4
<1>7. CASE version' = [f \in Mirrored |-> 0] /\ history' = history
  <2>1. Shown' = [f \in Mirrored |-> <<>>]
    BY <1>2, <1>7
  <2>2. M!Lose
    BY <1>7, <2>1 DEF M!Lose
  <2> QED BY <2>2 DEF M!Next
<1> QED BY <1>4, <1>5, <1>6, <1>7 DEF GhostStep

\* A replica is, from the moment the whole file has arrived until the connection is
\* lost, a state the owner's file has had, and never an older one than before.
THEOREM Mirrors == Spec => ImplementsMirror
<1>1. Init => M!Init
  BY InitMirror
<1>2. IInv /\ IInv' /\ [Next]_vars => [M!Next]_(M!vars)
  BY NextIInv, NextMirror
<1> QED BY <1>1, <1>2, Invariant, PTL DEF Spec, ImplementsMirror, M!Spec
=============================================================================
