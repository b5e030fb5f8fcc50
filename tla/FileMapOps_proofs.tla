-------------------------- MODULE FileMapOps_proofs --------------------------
(***************************************************************************)
(* What the operators of the file map do, for every set of files and all   *)
(* lengths and address areas that satisfy the assumptions of FileMapOps.   *)
(***************************************************************************)
EXTENDS FileMapOps, ListLemmas

USE DEF Address, InvalidAddress

-----------------------------------------------------------------------------
(* The address arithmetic. *)

\* Rounding up without overflow goes to a multiple that is less than one
\* boundary away.
LEMMA RoundUpProperties ==
    ASSUME NEW x \in Nat, NEW b \in Nat \ {0}, x + b < WordSize
    PROVE  /\ RoundUp(x, b) \in Nat
           /\ x <= RoundUp(x, b) /\ RoundUp(x, b) < x + b
<1> DEFINE y == x + (b - 1)
<1>1. y \in Nat /\ y % WordSize = y
  BY AddressAreas
<1>2. y % b \in 0 .. b - 1 /\ y % b <= y
  BY <1>1
<1> HIDE DEF y
<1>3. RoundUp(x, b) = y - (y % b)
  BY <1>1 DEF RoundUp, y
<1> QED BY <1>1, <1>2, <1>3 DEF y

\* An end in the lowest quarter of the address space is rounded up without overflow.
LEMMA Quarters ==
    ASSUME NEW x \in Nat, NEW e \in Nat, NEW b \in Nat, NEW w \in Nat,
           x <= e, 4 * e < w, 4 * b < w
    PROVE  /\ x + b < w
           /\ \A r \in Nat : r < x + b => 2 * r < w
  OBVIOUS

\* Whatever the sum is modulo the word size, the result is a multiple.
LEMMA RoundUpAligned ==
    ASSUME NEW x \in Nat, NEW b \in Nat \ {0}
    PROVE  RoundUp(x, b) \in Nat /\ RoundUp(x, b) % b = 0
<1> DEFINE y == (x + (b - 1)) % WordSize
<1>1. y \in Nat
  BY AddressAreas
<1> HIDE DEF y
<1>2. y % b \in 0 .. b - 1 /\ y % b <= y /\ y = b * (y \div b) + (y % b)
  BY <1>1
<1>3. y - (y % b) = b * (y \div b) /\ y \div b \in Nat
  BY <1>1, <1>2
<1>4. (b * (y \div b)) % b = 0
  BY <1>3
<1>5. RoundUp(x, b) = y - (y % b)
  BY DEF RoundUp, y
<1> QED BY <1>3, <1>4, <1>5

\* The area of a file is one of three, and two areas are equal or apart.
LEMMA AreaProperties ==
    ASSUME NEW f \in File
    PROVE  /\ Area(f).start \in Nat /\ Area(f).end \in Nat
           /\ Area(f).boundary \in Nat \ {0}
           /\ Area(f).start < Area(f).end
           /\ Area(f).end <= USER_DATA_END
           /\ Area(f).start % Area(f).boundary = 0
           /\ 4 * Area(f).boundary < WordSize
           /\ \A g \in File : \/ Area(g).start = Area(f).start
                              \/ Area(f).end <= Area(g).start
                              \/ Area(g).end <= Area(f).start
  BY AddressAreas, Files DEF Area, Classes

-----------------------------------------------------------------------------
(* The list operators. *)

\* A list is in address order.
Ordered(files, address) ==
    \A i, j \in DOMAIN files : i < j => address[files[i]] <= address[files[j]]

\* insertDefault keeps the order.
LEMMA InsertOrdered ==
    ASSUME NEW files \in Seq(File), NEW address \in [File -> Address], NEW f \in File,
           Ordered(files, address)
    PROVE  /\ InsertPosition(files, address, f) \in 1 .. Len(files) + 1
           /\ InsertDefault(files, address, f) \in Seq(File)
           /\ Ordered(InsertDefault(files, address, f), address)
<1> DEFINE greater == {i \in DOMAIN files : address[files[i]] > address[f]}
           p == InsertPosition(files, address, f)
           new == InsertDefault(files, address, f)
<1>0. Len(files) \in Nat /\ DOMAIN files = 1 .. Len(files)
  BY LenProperties
<1>0a. \A i \in 1 .. Len(files) : files[i] \in File /\ address[files[i]] \in Nat
  BY <1>0, AddressAreas, ElementOfSeq
<1>0b. address[f] \in Nat
  BY AddressAreas
<1>1. /\ p \in 1 .. Len(files) + 1
      /\ \A i \in 1 .. Len(files) : i < p => address[files[i]] <= address[f]
      /\ p <= Len(files) => address[files[p]] > address[f]
  <2>1. CASE greater = {}
    <3>1. p = Len(files) + 1
      BY <2>1 DEF InsertPosition
    <3>2. \A i \in 1 .. Len(files) : ~(address[files[i]] > address[f])
      BY <1>0, <2>1
    <3> HIDE DEF p
    <3> QED BY <1>0, <1>0a, <1>0b, <3>1, <3>2
  <2>2. CASE greater # {}
    <3>1. greater \in SUBSET Nat /\ p = Min(greater)
      BY <1>0, <2>2 DEF InsertPosition
    <3> HIDE DEF p
    <3>2. p \in greater /\ \A y \in greater : p <= y
      BY <2>2, <3>1, MinOfNat
    <3>3. p \in 1 .. Len(files) /\ address[files[p]] > address[f]
      BY <1>0, <3>2
    <3>4. ASSUME NEW i \in 1 .. Len(files), i < p PROVE address[files[i]] <= address[f]
      BY <1>0, <1>0a, <1>0b, <3>2, <3>3, <3>4
    <3> QED BY <1>0, <3>3, <3>4
  <2> QED BY <2>1, <2>2
<1> HIDE DEF p, greater
<1>2. /\ new \in Seq(File) /\ Len(new) = Len(files) + 1
      /\ \A j \in 1 .. Len(files) + 1 :
           new[j] = IF j < p THEN files[j] ELSE IF j = p THEN f ELSE files[j-1]
  <2>1. new = InsertAt(files, p, f)
    BY DEF InsertDefault, p
  <2> HIDE DEF new
  <2>2. /\ InsertAt(files, p, f) \in Seq(File)
        /\ Len(InsertAt(files, p, f)) = Len(files) + 1
        /\ \A j \in 1 .. Len(files) + 1 :
             InsertAt(files, p, f)[j] =
               IF j < p THEN files[j] ELSE IF j = p THEN f ELSE files[j-1]
    <3>1. p \in 1 .. Len(files) + 1
      BY <1>1
    <3> QED BY <3>1, InsertAtProperties
  <2> QED BY <2>1, <2>2
<1> HIDE DEF new
<1>3. DOMAIN new = 1 .. Len(files) + 1
  BY <1>2, LenProperties
<1>4. ASSUME NEW i \in 1 .. Len(files), i >= p
      PROVE  address[f] <= address[files[i]]
  <2>1. address[files[p]] <= address[files[i]]
    <3>1. CASE i = p
      BY <1>0a, <3>1
    <3>2. CASE p < i
      <4>1. p \in DOMAIN files /\ i \in DOMAIN files
        BY <1>0, <1>1, <3>2
      <4> QED BY <3>2, <4>1 DEF Ordered
    <3>3. i = p \/ p < i
      BY <1>0, <1>1, <1>4
    <3> QED BY <3>1, <3>2, <3>3
  <2> QED BY <1>0, <1>0a, <1>0b, <1>1, <1>4, <2>1
<1>5. ASSUME NEW i \in DOMAIN new, NEW j \in DOMAIN new, i < j
      PROVE  address[new[i]] <= address[new[j]]
  <2>0. i \in 1 .. Len(files) + 1 /\ j \in 1 .. Len(files) + 1 /\ p \in Int
    BY <1>1, <1>3
  <2>1. CASE j < p
    <3>1. i < p /\ i \in DOMAIN files /\ j \in DOMAIN files
      BY <1>0, <1>1, <1>5, <2>0, <2>1
    <3>2. new[i] = files[i] /\ new[j] = files[j]
      BY <1>2, <2>0, <2>1, <3>1
    <3> QED BY <1>5, <3>1, <3>2 DEF Ordered
  <2>2. CASE j = p
    <3>1. new[i] = files[i] /\ new[j] = f /\ i \in 1 .. Len(files) /\ i < p
      BY <1>0, <1>1, <1>2, <1>5, <2>0, <2>2
    <3> QED BY <1>1, <3>1
  <2>3. CASE j > p /\ i < p
    <3>1. /\ i \in DOMAIN files /\ j-1 \in DOMAIN files /\ i < j - 1
          /\ ~(j < p) /\ j # p
      BY <1>0, <1>1, <1>5, <2>0, <2>3
    <3>2. new[i] = files[i] /\ new[j] = files[j-1]
      BY <1>2, <2>0, <2>3, <3>1
    <3> QED BY <3>1, <3>2 DEF Ordered
  <2>4. CASE j > p /\ i = p
    <3>1. j-1 \in 1 .. Len(files) /\ j - 1 >= p /\ ~(i < p) /\ ~(j < p) /\ j # p
      BY <1>0, <1>1, <1>5, <2>0, <2>4
    <3>2. new[i] = f /\ new[j] = files[j-1]
      BY <1>2, <2>0, <2>4, <3>1
    <3> QED BY <1>4, <3>1, <3>2
  <2>5. CASE i > p
    <3>1. i-1 \in DOMAIN files /\ j-1 \in DOMAIN files /\ i-1 < j-1
      BY <1>0, <1>1, <1>5, <2>0, <2>5, SMTT(30)
    <3>2. i # p /\ ~(i < p) /\ j # p /\ ~(j < p)
      BY <1>5, <2>0, <2>5
    <3>3. new[i] = files[i-1]
      BY <1>2, <2>0, <3>2
    <3>4. new[j] = files[j-1]
      BY <1>2, <2>0, <3>2
    <3> QED BY <3>1, <3>3, <3>4 DEF Ordered
  <2> QED BY <1>5, <2>0, <2>1, <2>2, <2>3, <2>4, <2>5
<1> QED BY <1>1, <1>2, <1>5 DEF Ordered, p, new

\* Every file ends at or before the start of the next ones.
Disjoint(files, address) ==
    \A i, j \in DOMAIN files :
      i < j => address[files[i]] + Length[files[i]] <= address[files[j]]

\* The file fits between the one at p-1 and the one at p, as far as they exist.
FitsAt(files, address, f, p) ==
    /\ p > 1 => address[files[p-1]] + Length[files[p-1]] <= address[f]
    /\ p <= Len(files) => address[f] + Length[f] <= address[files[p]]

\* The list `new` is the list `files` with f at position p.
HasAt(new, files, f, p) ==
    \A j \in 1 .. Len(files) + 1 :
      new[j] = IF j < p THEN files[j] ELSE IF j = p THEN f ELSE files[j-1]

\* A file that fits between two neighbours is put between them.
LEMMA InsertDisjoint ==
    ASSUME NEW files \in Seq(File), NEW address \in [File -> Address], NEW f \in File,
           Disjoint(files, address), NEW p \in 1 .. Len(files) + 1,
           FitsAt(files, address, f, p)
    PROVE  /\ HasAt(InsertDefault(files, address, f), files, f, p)
           /\ Disjoint(InsertDefault(files, address, f), address)
<1> USE DEF FitsAt, HasAt
<1> DEFINE greater == {i \in DOMAIN files : address[files[i]] > address[f]}
           new == InsertDefault(files, address, f)
           q == InsertPosition(files, address, f)
<1>0. Len(files) \in Nat /\ DOMAIN files = 1 .. Len(files) /\ p \in Nat
  BY LenProperties
<1>1. \A i \in 1 .. Len(files) : /\ files[i] \in File
                                 /\ address[files[i]] \in Nat
                                 /\ Length[files[i]] \in Nat \ {0}
  BY <1>0, AddressAreas, Files, ElementOfSeq
<1>2. address[f] \in Nat /\ Length[f] \in Nat \ {0}
  BY AddressAreas, Files
<1>3. \A i \in 1 .. Len(files) :
        i < p => address[files[i]] + Length[files[i]] <= address[f]
  <2>1. SUFFICES ASSUME NEW i \in 1 .. Len(files), i < p
                 PROVE  address[files[i]] + Length[files[i]] <= address[f]
    OBVIOUS
  <2>2. CASE i = p - 1
    BY <1>0, <2>1, <2>2
  <2>3. CASE i < p - 1
    <3>1. p - 1 \in 1 .. Len(files) /\ p > 1
      BY <1>0, <2>1, <2>3
    <3>1a. p - 1 \in DOMAIN files /\ i \in DOMAIN files
      BY <1>0, <3>1
    <3>2. address[files[i]] + Length[files[i]] <= address[files[p-1]]
      BY <2>3, <3>1a DEF Disjoint
    <3>3. address[files[p-1]] + Length[files[p-1]] <= address[f]
      BY <3>1
    <3>4. /\ address[files[i]] \in Nat /\ Length[files[i]] \in Nat
          /\ address[files[p-1]] \in Nat /\ Length[files[p-1]] \in Nat
      BY <1>1, <3>1
    <3>5. \A a, la, b, lb, c \in Nat : a + la <= b /\ b + lb <= c => a + la <= c
      OBVIOUS
    <3> QED BY <1>2, <3>2, <3>3, <3>4, <3>5
  <2> QED BY <1>0, <2>1, <2>2, <2>3
<1>4. \A i \in 1 .. Len(files) :
        i >= p => address[f] + Length[f] <= address[files[i]]
  <2>1. SUFFICES ASSUME NEW i \in 1 .. Len(files), i >= p
                 PROVE  address[f] + Length[f] <= address[files[i]]
    OBVIOUS
  <2>2. CASE i = p
    BY <1>0, <2>1, <2>2
  <2>3. CASE i > p
    <3>1. p \in 1 .. Len(files)
      BY <1>0, <2>1, <2>3
    <3>1a. p \in DOMAIN files /\ i \in DOMAIN files
      BY <1>0, <3>1
    <3>2. address[files[p]] + Length[files[p]] <= address[files[i]]
      BY <2>3, <3>1a DEF Disjoint
    <3>3. address[f] + Length[f] <= address[files[p]]
      BY <3>1
    <3>4. /\ address[files[i]] \in Nat /\ address[files[p]] \in Nat
          /\ Length[files[p]] \in Nat
      BY <1>1, <3>1
    <3>5. \A a, la, b, lb, c \in Nat : a + la <= b /\ b + lb <= c => a + la <= c
      OBVIOUS
    <3> QED BY <1>2, <3>2, <3>3, <3>4, <3>5
  <2> QED BY <1>0, <2>1, <2>2, <2>3
<1>5. q = p
  <2>1. \A i \in 1 .. Len(files) : i \in greater <=> i >= p
    <3>1. SUFFICES ASSUME NEW i \in 1 .. Len(files) PROVE i \in greater <=> i >= p
      OBVIOUS
    <3>2. i \in greater <=> address[files[i]] > address[f]
      BY <1>0
    <3>3. address[files[i]] \in Nat /\ Length[files[i]] \in Nat
      BY <1>1
    <3>4. CASE i < p
      BY <1>0, <1>2, <1>3, <3>2, <3>3, <3>4
    <3>5. CASE i >= p
      BY <1>0, <1>2, <1>4, <3>2, <3>3, <3>5, SMTT(30)
    <3> QED BY <1>0, <3>4, <3>5
  <2>2. CASE p = Len(files) + 1
    <3>1. greater = {}
      BY <1>0, <2>1, <2>2
    <3> QED BY <2>2, <3>1 DEF InsertPosition
  <2>3. CASE p <= Len(files)
    <3>1. p \in greater /\ greater \in SUBSET Nat
      BY <1>0, <2>1, <2>3
    <3>2. q = Min(greater)
      BY <3>1 DEF InsertPosition
    <3> HIDE DEF q
    <3>3. q \in greater /\ \A y \in greater : q <= y
      BY <3>1, <3>2, MinOfNat
    <3>4. q \in 1 .. Len(files) /\ q >= p /\ q <= p
      BY <1>0, <2>1, <3>1, <3>3
    <3> QED BY <1>0, <3>4
  <2> QED BY <1>0, <2>2, <2>3
<1> HIDE DEF greater
<1>6. /\ new \in Seq(File) /\ Len(new) = Len(files) + 1
      /\ \A j \in 1 .. Len(files) + 1 :
           new[j] = IF j < p THEN files[j] ELSE IF j = p THEN f ELSE files[j-1]
  <2>1. new = InsertAt(files, p, f)
    BY <1>5 DEF InsertDefault
  <2> HIDE DEF new
  <2>2. /\ InsertAt(files, p, f) \in Seq(File)
        /\ Len(InsertAt(files, p, f)) = Len(files) + 1
        /\ \A j \in 1 .. Len(files) + 1 :
             InsertAt(files, p, f)[j] =
               IF j < p THEN files[j] ELSE IF j = p THEN f ELSE files[j-1]
    BY InsertAtProperties
  <2> QED BY <2>1, <2>2
<1> HIDE DEF new, q
<1>7. DOMAIN new = 1 .. Len(files) + 1
  BY <1>6, LenProperties
<1>8. ASSUME NEW i \in DOMAIN new, NEW j \in DOMAIN new, i < j
      PROVE  address[new[i]] + Length[new[i]] <= address[new[j]]
  <2>0. i \in 1 .. Len(files) + 1 /\ j \in 1 .. Len(files) + 1 /\ p \in Int
    BY <1>0, <1>7
  <2>1. CASE j < p
    <3>1. i < p /\ i \in DOMAIN files /\ j \in DOMAIN files
      BY <1>0, <1>8, <2>0, <2>1
    <3>2. new[i] = files[i] /\ new[j] = files[j]
      BY <1>6, <2>0, <2>1, <3>1
    <3> QED BY <1>8, <3>1, <3>2 DEF Disjoint
  <2>2. CASE j = p
    <3>1. new[i] = files[i] /\ new[j] = f /\ i \in 1 .. Len(files) /\ i < p
      BY <1>0, <1>6, <1>8, <2>0, <2>2
    <3> QED BY <1>3, <3>1
  <2>3. CASE j > p /\ i < p
    <3>1. /\ i \in DOMAIN files /\ j-1 \in DOMAIN files /\ i < j - 1
          /\ ~(j < p) /\ j # p
      BY <1>0, <1>8, <2>0, <2>3, SMTT(30)
    <3>2. new[i] = files[i] /\ new[j] = files[j-1]
      BY <1>6, <2>0, <2>3, <3>1
    <3> QED BY <3>1, <3>2 DEF Disjoint
  <2>4. CASE j > p /\ i = p
    <3>1. j-1 \in 1 .. Len(files) /\ j - 1 >= p /\ ~(i < p) /\ ~(j < p) /\ j # p
      BY <1>0, <1>8, <2>0, <2>4
    <3>2. new[i] = f /\ new[j] = files[j-1]
      BY <1>6, <2>0, <2>4, <3>1
    <3> QED BY <1>4, <3>1, <3>2
  <2>5. CASE i > p
    <3>1. i-1 \in DOMAIN files /\ j-1 \in DOMAIN files /\ i-1 < j-1
      BY <1>0, <1>8, <2>0, <2>5, SMTT(30)
    <3>2. ~(i < p) /\ i # p /\ ~(j < p) /\ j # p
      BY <1>8, <2>0, <2>5
    <3>3. new[i] = files[i-1] /\ new[j] = files[j-1]
      BY <1>6, <2>0, <3>2
    <3> QED BY <3>1, <3>3 DEF Disjoint
  <2> QED BY <1>8, <2>0, <2>1, <2>2, <2>3, <2>4, <2>5, SMTT(30)
<1>9. Disjoint(new, address)
  BY <1>8 DEF Disjoint
<1> QED BY <1>6, <1>9 DEF new

-----------------------------------------------------------------------------
(* Where assignFileAddress puts a file. *)

\* The file after which it looks for room is a file of the list.
LEMMA PrecedingFile ==
    ASSUME NEW files \in Seq(File), NEW address \in [File -> Address],
           NEW lowest \in Nat, NEW limit \in Nat,
           AtOrAbove(files, address, lowest) # {},
           NEW beyond,
           beyond = Beyond(files, address, Min(AtOrAbove(files, address, lowest)), limit)
    PROVE  /\ Len(files) \in 1 .. Len(files)
           /\ beyond # {} => /\ Min(beyond) \in 1 .. Len(files)
                             /\ Min(beyond) - 1 \in 1 .. Len(files)
<1> DEFINE above == AtOrAbove(files, address, lowest)
<1>0. Len(files) \in Nat /\ DOMAIN files = 1 .. Len(files)
  BY LenProperties
<1>1. above \in SUBSET Nat /\ above \subseteq 1 .. Len(files)
  BY <1>0 DEF AtOrAbove
<1>2. Min(above) \in 1 .. Len(files)
  BY <1>1, MinOfNat
<1>3. Len(files) \in 1 .. Len(files)
  BY <1>0, <1>2
<1> HIDE DEF above
<1>4. /\ beyond \subseteq 1 .. Len(files)
      /\ \A i \in beyond : i > Min(above)
  BY <1>0 DEF Beyond, above
<1>5. ASSUME beyond # {}
      PROVE  Min(beyond) \in 1 .. Len(files) /\ Min(beyond) - 1 \in 1 .. Len(files)
  <2>1. beyond \in SUBSET Nat
    BY <1>4
  <2>2. Min(beyond) \in beyond
    BY <1>5, <2>1, MinOfNat
  <2>3. Min(beyond) \in 1 .. Len(files) /\ Min(beyond) > Min(above)
    BY <1>4, <2>2
  <2> QED BY <1>2, <2>3
<1> QED BY <1>3, <1>5

\* A chosen address is aligned and not below the area, whatever the list holds.
LEMMA AssignAligned ==
    ASSUME NEW files \in Seq(File), NEW address \in [File -> Address], NEW f \in File,
           NEW a, a = AssignFileAddress(files, address, f, Area(f)), a # InvalidAddress
    PROVE  /\ a \in Address
           /\ a % Area(f).boundary = 0
           /\ a >= Area(f).start
<1> DEFINE area == Area(f)
           above == AtOrAbove(files, address, area.start)
           beyond == Beyond(files, address, Min(above), area.end)
           k == IF beyond = {} THEN Len(files) ELSE Min(beyond) - 1
           limit == IF beyond = {} THEN area.end ELSE address[files[Min(beyond)]]
<1>0. /\ area.start \in Nat /\ area.end \in Nat /\ area.boundary \in Nat \ {0}
      /\ area.start < WordSize /\ area.start % area.boundary = 0
  BY AreaProperties, AddressAreas
<1>1. CASE above = {}
  <2>1. a = VerifyFileAddress(f, area.start, area.start, area.end)
    BY <1>1 DEF AssignFileAddress
  <2>2. a = area.start
    BY <2>1 DEF VerifyFileAddress
  <2> QED BY <1>0, <2>2, AddressAreas
<1>2. CASE above # {}
  <2>1. a = VerifyFileAddress(f, RoundUp(EndAddress(address, files[k]), area.boundary),
                              area.start, limit)
    BY <1>2 DEF AssignFileAddress
  <2>2. k \in 1 .. Len(files)
    BY <1>0, <1>2, PrecedingFile
  <2> HIDE DEF k, limit
  <2>3. files[k] \in File
    BY <2>2, ElementOfSeq
  <2>4. address[files[k]] \in Nat /\ Length[files[k]] \in Nat
    BY <2>3, AddressAreas, Files
  <2> DEFINE e == EndAddress(address, files[k])
             r == RoundUp(e, area.boundary)
  <2>5. e \in Nat
    <3>1. WordSize \in Nat \ {0}
      BY AddressAreas
    <3>2. \A x, l \in Nat : (x + l) % WordSize \in Nat
      BY <3>1
    <3>3. e = (address[files[k]] + Length[files[k]]) % WordSize
      BY DEF EndAddress
    <3> HIDE DEF e
    <3> QED BY <2>4, <3>2, <3>3
  <2> HIDE DEF e
  <2>6. r \in Nat /\ r % area.boundary = 0
    BY <1>0, <2>5, RoundUpAligned
  <2>7. r < WordSize
    <3> DEFINE y == (e + (area.boundary - 1)) % WordSize
    <3>1. y \in 0 .. WordSize - 1
      BY <1>0, <2>5, AddressAreas, SMTT(30)
    <3>2. r = y - (y % area.boundary)
      BY DEF RoundUp
    <3> HIDE DEF y
    <3>3. y % area.boundary \in Nat
      BY <1>0, <3>1, AddressAreas
    <3> QED BY <3>1, <3>2, <3>3, AddressAreas
  <2> HIDE DEF r
  <2>8. a = VerifyFileAddress(f, r, area.start, limit)
    BY <2>1 DEF r, e
  <2>9. a = r /\ ~ (r < area.start)
    BY <2>8 DEF VerifyFileAddress
  <2> QED BY <1>0, <2>6, <2>7, <2>9, AddressAreas
<1> QED BY <1>1, <1>2

\* Among files that the map placed, a chosen address leaves room between two
\* neighbours, or behind the last file and inside the area.
LEMMA AssignBetween ==
    ASSUME NEW files \in Seq(File), NEW address \in [File -> Address], NEW f \in File,
           \A i \in DOMAIN files : /\ address[files[i]] >= Area(files[i]).start
                                  /\ address[files[i]] + Length[files[i]] <= USER_DATA_END,
           files # <<>> =>
             address[files[Len(files)]] + Length[files[Len(files)]]
               <= Area(files[Len(files)]).end,
           NEW a, a = AssignFileAddress(files, address, f, Area(f)), a # InvalidAddress
    PROVE  \E p \in 1 .. Len(files) + 1 :
             /\ p > 1 => address[files[p-1]] + Length[files[p-1]] <= a
             /\ p <= Len(files) => a + Length[f] <= address[files[p]]
             /\ p = Len(files) + 1 => a + Length[f] <= Area(f).end
<1> DEFINE area == Area(f)
           above == AtOrAbove(files, address, area.start)
           beyond == Beyond(files, address, Min(above), area.end)
           n == Len(files)
           Start(i) == address[files[i]]
           Stop(i) == address[files[i]] + Length[files[i]]
<1>0. /\ area.start \in Nat /\ area.end \in Nat /\ area.boundary \in Nat \ {0}
      /\ area.start < area.end /\ area.end <= USER_DATA_END
      /\ 4 * area.boundary < WordSize
  BY AreaProperties
<1>1. n \in Nat /\ DOMAIN files = 1 .. n
  BY LenProperties
<1>2. \A i \in 1 .. n : /\ files[i] \in File /\ Start(i) \in Nat
                        /\ Length[files[i]] \in Nat /\ Stop(i) \in Nat
                        /\ Stop(i) <= USER_DATA_END
  <2>1. SUFFICES ASSUME NEW i \in 1 .. n
                 PROVE  /\ files[i] \in File /\ Start(i) \in Nat
                        /\ Length[files[i]] \in Nat /\ Stop(i) \in Nat
                        /\ Stop(i) <= USER_DATA_END
    OBVIOUS
  <2>2. files[i] \in File
    BY ElementOfSeq
  <2>3. Start(i) \in Nat /\ Length[files[i]] \in Nat
    BY <2>2, AddressAreas, Files
  <2>4. Stop(i) <= USER_DATA_END
    BY <1>1
  <2>5. Stop(i) \in Nat
    BY <2>3
  <2> QED BY <2>2, <2>3, <2>4, <2>5
<1>3. /\ WordSize \in Nat \ {0} /\ USER_DATA_END \in Nat /\ 4 * USER_DATA_END < WordSize
      /\ Length[f] \in Nat /\ 2 * Length[f] < WordSize
      /\ \A x \in Nat : x < WordSize => x % WordSize = x
  <2>1. WordSize \in Nat \ {0}
    BY AddressAreas
  <2>2. \A x \in Nat : x < WordSize => x % WordSize = x
    BY <2>1
  <2> QED BY <2>1, <2>2, AddressAreas, Files
<1>4. ASSUME NEW s \in Nat, 2 * s < WordSize, NEW lowest \in Nat, NEW limit \in Nat,
             a = VerifyFileAddress(f, s, lowest, limit)
      PROVE  a = s /\ a + Length[f] <= limit
  <2>1. s + Length[f] \in Nat /\ s + Length[f] < WordSize
    <3>1. \A x, y, w \in Nat : 2 * x < w /\ 2 * y < w => x + y < w
      OBVIOUS
    <3> QED BY <1>3, <1>4, <3>1, SMTT(30)
  <2>2. (s + Length[f]) % WordSize = s + Length[f]
    BY <1>3, <2>1
  <2>3. a = IF s < lowest \/ s + Length[f] > limit THEN InvalidAddress ELSE s
    BY <1>4, <2>2 DEF VerifyFileAddress
  <2> QED BY <2>1, <2>3, <1>4
<1>5. ASSUME NEW i \in 1 .. n, NEW limit \in Nat,
             a = VerifyFileAddress(f, RoundUp(EndAddress(address, files[i]), area.boundary),
                                   area.start, limit)
      PROVE  Stop(i) <= a /\ a + Length[f] <= limit
  <2>1. Stop(i) \in Nat /\ Stop(i) <= USER_DATA_END
    BY <1>2
  <2>2. EndAddress(address, files[i]) = Stop(i)
    <3>1. Stop(i) < WordSize
      BY <1>3, <2>1
    <3> QED BY <1>3, <2>1, <3>1 DEF EndAddress
  <2> DEFINE x == Stop(i)
  <2> HIDE DEF x
  <2>3. x \in Nat /\ x <= USER_DATA_END
    BY <2>1 DEF x
  <2>3a. /\ x + area.boundary < WordSize
         /\ \A r \in Nat : r < x + area.boundary => 2 * r < WordSize
    BY <1>0, <1>3, <2>3, Quarters
  <2>4. /\ RoundUp(x, area.boundary) \in Nat /\ x <= RoundUp(x, area.boundary)
        /\ RoundUp(x, area.boundary) < x + area.boundary
    BY <1>0, <2>3, <2>3a, RoundUpProperties
  <2>5. 2 * RoundUp(x, area.boundary) < WordSize
    BY <2>3a, <2>4
  <2>6. a = RoundUp(x, area.boundary) /\ a + Length[f] <= limit
    BY <1>0, <1>4, <1>5, <2>2, <2>4, <2>5 DEF x
  <2> QED BY <2>4, <2>6 DEF x
<1>6. CASE above = {}
  <2>1. a = VerifyFileAddress(f, area.start, area.start, area.end)
    BY <1>6 DEF AssignFileAddress
  <2>2. a = area.start /\ a + Length[f] <= area.end
    <3>1. 2 * area.start < WordSize
      BY <1>0, <1>3, SMTT(30)
    <3> QED BY <1>0, <1>4, <2>1, <3>1
  <2>3. ASSUME n # 0 PROVE Stop(n) <= a
    <3>1. n \in 1 .. n /\ files # <<>>
      BY <1>1, <2>3
    <3>2. Start(n) < area.start
      BY <1>0, <1>1, <1>2, <1>6, <3>1, SMTT(30) DEF AtOrAbove
    <3>3. Start(n) >= Area(files[n]).start /\ Stop(n) <= Area(files[n]).end
      BY <1>1, <3>1
    <3>4. /\ files[n] \in File /\ Start(n) \in Nat /\ Stop(n) \in Nat
      BY <1>2, <3>1
    <3>5. /\ Area(files[n]).start \in Nat /\ Area(files[n]).end \in Nat
          /\ Area(files[n]).start < Area(files[n]).end
          /\ \/ Area(files[n]).start = area.start
             \/ area.end <= Area(files[n]).start
             \/ Area(files[n]).end <= area.start
      BY <3>4, AreaProperties
    <3> HIDE DEF area
    <3>6. Area(files[n]).end <= area.start
      BY <1>0, <3>2, <3>3, <3>4, <3>5
    <3> QED BY <1>0, <2>2, <3>3, <3>4, <3>5, <3>6
  <2>4. WITNESS n + 1 \in 1 .. n + 1
  <2> QED BY <1>1, <2>2, <2>3
<1>7. CASE above # {} /\ beyond = {}
  <2>1. n \in 1 .. n
    BY <1>0, <1>7, PrecedingFile
  <2>2. a = VerifyFileAddress(f, RoundUp(EndAddress(address, files[n]), area.boundary),
                              area.start, area.end)
    BY <1>7 DEF AssignFileAddress
  <2>3. Stop(n) <= a /\ a + Length[f] <= area.end
    BY <1>0, <1>5, <2>1, <2>2
  <2>4. WITNESS n + 1 \in 1 .. n + 1
  <2> QED BY <1>1, <2>3
<1>8. CASE above # {} /\ beyond # {}
  <2> DEFINE m == Min(beyond)
  <2>1. m \in 1 .. n /\ m - 1 \in 1 .. n
    BY <1>0, <1>8, PrecedingFile
  <2>2. a = VerifyFileAddress(f, RoundUp(EndAddress(address, files[m-1]), area.boundary),
                              area.start, Start(m))
    BY <1>8 DEF AssignFileAddress
  <2> HIDE DEF m
  <2>3. Start(m) \in Nat
    BY <1>2, <2>1
  <2>4. Stop(m-1) <= a /\ a + Length[f] <= Start(m)
    BY <1>5, <2>1, <2>2, <2>3
  <2>5. m \in 1 .. n + 1 /\ m # n + 1
    BY <1>1, <2>1
  <2> QED BY <2>4, <2>5
<1> QED BY <1>6, <1>7, <1>8

-----------------------------------------------------------------------------
(* Lists of files the map placed. *)

\* insertDefault puts a file into the list and takes none out of it.
LEMMA InsertMembers ==
    ASSUME NEW files \in Seq(File), NEW address, NEW f \in File
    PROVE  /\ InsertDefault(files, address, f) \in Seq(File)
           /\ Len(InsertDefault(files, address, f)) = Len(files) + 1
           /\ ToSet(InsertDefault(files, address, f)) = ToSet(files) \cup {f}
<1> DEFINE greater == {i \in DOMAIN files : address[files[i]] > address[f]}
           p == InsertPosition(files, address, f)
           new == InsertAt(files, p, f)
           n == Len(files)
<1>1. n \in Nat /\ DOMAIN files = 1 .. n
  BY LenProperties
<1>2. p \in 1 .. n + 1
  <2>1. greater \in SUBSET Nat /\ greater \subseteq 1 .. n
    BY <1>1
  <2>2. p = IF greater = {} THEN n + 1 ELSE Min(greater)
    BY DEF InsertPosition
  <2> HIDE DEF greater, p
  <2>3. CASE greater = {}
    BY <1>1, <2>2, <2>3
  <2>4. CASE greater # {}
    BY <1>1, <2>1, <2>2, <2>4, MinOfNat
  <2> QED BY <2>3, <2>4
<1> HIDE DEF p
<1>3. /\ new \in Seq(File) /\ Len(new) = n + 1
      /\ \A j \in 1 .. n + 1 : new[j] = IF j < p THEN files[j] ELSE IF j = p THEN f ELSE files[j-1]
  BY <1>2, InsertAtProperties
<1> HIDE DEF new
<1>4. DOMAIN new = 1 .. n + 1
  BY <1>3, LenProperties
<1>5. \A j \in DOMAIN new : new[j] \in ToSet(files) \cup {f}
  <2>1. SUFFICES ASSUME NEW j \in 1 .. n + 1 PROVE new[j] \in ToSet(files) \cup {f}
    BY <1>4
  <2>2. CASE j < p
    BY <1>1, <1>2, <1>3, <2>2 DEF ToSet
  <2>3. CASE j = p
    BY <1>3, <2>3
  <2>4. CASE j > p
    <3>1. j - 1 \in DOMAIN files /\ ~(j < p) /\ j # p
      BY <1>1, <1>2, <2>4
    <3> QED BY <1>3, <3>1 DEF ToSet
  <2> QED BY <1>1, <1>2, <2>2, <2>3, <2>4
<1>6. \A g \in ToSet(files) \cup {f} : \E j \in DOMAIN new : new[j] = g
  <2>1. p \in DOMAIN new /\ new[p] = f
    BY <1>1, <1>2, <1>3, <1>4
  <2>2. ASSUME NEW i \in DOMAIN files PROVE \E j \in DOMAIN new : new[j] = files[i]
    <3>1. CASE i < p
      <4>1. i \in DOMAIN new /\ new[i] = files[i]
        BY <1>1, <1>3, <1>4, <3>1
      <4> QED BY <4>1
    <3>2. CASE i >= p
      <4>1. i + 1 \in DOMAIN new /\ ~(i + 1 < p) /\ i + 1 # p /\ (i + 1) - 1 = i
        BY <1>1, <1>2, <1>4, <3>2
      <4>2. new[i+1] = files[i]
        BY <1>3, <1>4, <4>1
      <4> QED BY <4>1, <4>2
    <3> QED BY <1>1, <1>2, <3>1, <3>2
  <2> QED BY <2>1, <2>2 DEF ToSet
<1>7. ToSet(new) = ToSet(files) \cup {f}
  BY <1>5, <1>6 DEF ToSet
<1> QED BY <1>3, <1>7 DEF InsertDefault, new, p

\* findByAddress leaves the index of a file that covers the address, and none only
\* when no file does, whatever the cached index was.
LEMMA LookupResult ==
    ASSUME NEW files \in Seq(File), NEW address, NEW last \in 0 .. Len(files), NEW a,
           NEW k, k = LookupIndex(files, last, address, a)
    PROVE  /\ k \in 0 .. Len(files)
           /\ IF k = 0 THEN Hits(files, address, a) = {} ELSE k \in Hits(files, address, a)
<1> DEFINE hits == Hits(files, address, a)
<1>1. DOMAIN files = 1 .. Len(files) /\ Len(files) \in Nat
  BY LenProperties
<1>2. hits \in SUBSET Nat /\ hits \subseteq 1 .. Len(files)
  BY <1>1 DEF Hits
<1>3. CASE CacheHit(files, last, address, a)
  <2>1. k = last /\ k # 0 /\ k \in DOMAIN files
    BY <1>1, <1>3 DEF LookupIndex, CacheHit
  <2> QED BY <1>3, <2>1 DEF CacheHit, Hits
<1>4. CASE ~CacheHit(files, last, address, a) /\ hits = {}
  BY <1>1, <1>4 DEF LookupIndex
<1>5. CASE ~CacheHit(files, last, address, a) /\ hits # {}
  <2>1. k = Min(hits)
    BY <1>5 DEF LookupIndex
  <2> HIDE DEF hits
  <2>2. k \in hits
    BY <1>2, <1>5, <2>1, MinOfNat
  <2> QED BY <1>1, <1>2, <2>2 DEF hits
<1> QED BY <1>3, <1>4, <1>5

\* Every file in bytes of its own, not below its area's start, below the command area
\* and, when it is the last, in its area.
PlacedList(files, address) ==
    /\ Disjoint(files, address)
    /\ \A i \in DOMAIN files : /\ address[files[i]] >= Area(files[i]).start
                               /\ address[files[i]] + Length[files[i]] <= USER_DATA_END
    /\ files # <<>> =>
         address[files[Len(files)]] + Length[files[Len(files)]] <= Area(files[Len(files)]).end

\* assignFileAddress and insertDefault keep it so.
LEMMA InsertPlacedList ==
    ASSUME NEW files \in Seq(File), NEW address \in [File -> Address], NEW f \in File,
           f \notin ToSet(files), PlacedList(files, address),
           NEW a, a = AssignFileAddress(files, address, f, Area(f)), a # InvalidAddress,
           NEW after, after = [address EXCEPT ![f] = a],
           NEW new, new = InsertDefault(files, after, f)
    PROVE  /\ after \in [File -> Address] /\ new \in Seq(File)
           /\ PlacedList(new, after)
<1> DEFINE n == Len(files)
<1>1. a \in Address /\ a >= Area(f).start
  BY AssignAligned
<1>2. /\ after \in [File -> Address] /\ after[f] = a
      /\ \A g \in File : g # f => after[g] = address[g]
  BY <1>1
<1>3. n \in Nat /\ DOMAIN files = 1 .. n
  BY LenProperties
<1>4. \A i \in 1 .. n : files[i] \in File /\ files[i] # f /\ after[files[i]] = address[files[i]]
  BY <1>2, <1>3, ElementOfSeq, SMTT(30) DEF ToSet
<1>5. PICK q \in 1 .. n + 1 :
        /\ q > 1 => address[files[q-1]] + Length[files[q-1]] <= a
        /\ q <= n => a + Length[f] <= address[files[q]]
        /\ q = n + 1 => a + Length[f] <= Area(f).end
  BY AssignBetween DEF PlacedList
<1>6. FitsAt(files, after, f, q)
  <2>1. q > 1 => q - 1 \in 1 .. n
    BY <1>3
  <2>2. q <= n => q \in 1 .. n
    BY <1>3
  <2> QED BY <1>2, <1>4, <1>5, <2>1, <2>2 DEF FitsAt
<1>7. Disjoint(files, after)
  BY <1>3, <1>4 DEF PlacedList, Disjoint
<1>8. HasAt(new, files, f, q) /\ Disjoint(new, after)
  BY <1>2, <1>6, <1>7, InsertDisjoint
<1>9. new \in Seq(File) /\ ToSet(new) = ToSet(files) \cup {f} /\ Len(new) = n + 1
  BY InsertMembers
<1>10. DOMAIN new = 1 .. n + 1
  BY <1>9, LenProperties
<1>11. a + Length[f] <= USER_DATA_END
  <2>0. a \in Nat /\ Length[f] \in Nat /\ USER_DATA_END \in Nat
    <3>1. a \in 0 .. WordSize - 1 /\ WordSize \in Nat
      BY <1>1, AddressAreas
    <3>2. Length[f] \in Nat /\ USER_DATA_END \in Nat
      BY Files, AddressAreas
    <3> QED BY <3>1, <3>2
  <2>1. CASE q = n + 1
    <3>1. a + Length[f] <= Area(f).end /\ Area(f).end \in Nat /\ Area(f).end <= USER_DATA_END
      BY <1>5, <2>1, AreaProperties
    <3> QED BY <2>0, <3>1
  <2>2. CASE q # n + 1
    <3>1. q \in 1 .. n /\ q \in DOMAIN files /\ files[q] \in File
      BY <1>3, <1>4, <2>2
    <3>2. address[files[q]] \in Nat /\ Length[files[q]] \in Nat
      <4>1. WordSize \in Nat /\ \A g \in File : Length[g] \in Nat
        BY AddressAreas, Files
      <4>2. address[files[q]] \in 0 .. WordSize - 1
        BY <3>1
      <4> QED BY <3>1, <4>1, <4>2
    <3>3. /\ address[files[q]] + Length[files[q]] <= USER_DATA_END
          /\ a + Length[f] <= address[files[q]]
      BY <1>3, <1>5, <3>1 DEF PlacedList
    <3> QED BY <2>0, <3>2, <3>3, SMTT(30)
  <2> QED BY <2>1, <2>2
<1>12. ASSUME NEW j \in DOMAIN new
       PROVE  /\ after[new[j]] >= Area(new[j]).start
              /\ after[new[j]] + Length[new[j]] <= USER_DATA_END
  <2>1. new[j] = f \/ \E i \in 1 .. n : new[j] = files[i]
    BY <1>3, <1>9 DEF ToSet
  <2> QED BY <1>1, <1>2, <1>3, <1>4, <1>11, <2>1, ZenonT(30) DEF PlacedList
<1>13. after[new[n+1]] + Length[new[n+1]] <= Area(new[n+1]).end
  <2>1. n + 1 \in 1 .. Len(files) + 1
    BY <1>3
  <2>2. CASE q = n + 1
    <3>1. ~(n + 1 < q)
      BY <1>3, <2>2
    <3>2. new[n+1] = f
      BY <1>8, <2>1, <2>2, <3>1 DEF HasAt
    <3> QED BY <1>2, <1>5, <2>2, <3>2
  <2>3. CASE q # n + 1
    <3>1. ~(n + 1 < q) /\ n + 1 # q /\ (n + 1) - 1 = n /\ n \in 1 .. n
      BY <1>3, <2>3
    <3>2. new[n+1] = files[n]
      BY <1>8, <2>1, <3>1 DEF HasAt
    <3>3. files # <<>>
      BY <1>3, <3>1
    <3> QED BY <1>4, <3>1, <3>2, <3>3 DEF PlacedList
  <2> QED BY <2>2, <2>3
<1> QED BY <1>2, <1>8, <1>9, <1>10, <1>12, <1>13 DEF PlacedList
=============================================================================
