-------------------------- MODULE FileMap2_proofs --------------------------
(***************************************************************************)
(* Theorems about FileMap2, for every set of files and all lengths and     *)
(* address areas that satisfy the assumptions of FileMapOps.               *)
(***************************************************************************)
EXTENDS FileMap2, FileMapOps_proofs

USE DEF Address, InvalidAddress

-----------------------------------------------------------------------------
(* The inductive invariant. *)

\* A file is in the list only after it was handed to the map.
Members == \A i \in DOMAIN mFiles : mFiles[i] \in used

\* The last file is inside its area even where a file before it is not: what an
\* area with nothing at or above its start can rely on.
LastInArea ==
    (AllAssigned /\ mFiles # <<>>) =>
      LET f == mFiles[Len(mFiles)] IN mAddress[f] + Length[f] <= Area(f).end

IInv == /\ TypeOK /\ Sorted /\ NoOverlap /\ BelowCommandArea /\ AssignedAligned
        /\ Members /\ LastInArea

LEMMA InitIInv == Init => IInv
<1> SUFFICES ASSUME Init PROVE IInv
  OBVIOUS
<1>1. TypeOK
  <2>1. InvalidAddress \in Address
    BY AddressAreas
  <2>2. mFiles \in Seq(File) /\ mAddress \in [File -> Address]
    BY Callers, EmptySeq DEF Init
  <2>3. found \in [address : Address, file : File \cup {NoFile}]
    BY <2>1 DEF Init, Nothing
  <2>4. DOMAIN mFiles = {}
    BY DEF Init
  <2> QED BY <2>2, <2>3, <2>4 DEF Init, TypeOK, Addressed
<1>2. DOMAIN mFiles = {}
  BY DEF Init
<1> QED BY <1>1, <1>2
  DEF Init, IInv, Sorted, NoOverlap, BelowCommandArea, AssignedAligned, Members, LastInArea

\* insert of a file that has an address: the map is no longer one of chosen
\* addresses only, and stays in order.
LEMMA InsertPlacedIInv ==
    ASSUME IInv, NEW f \in File, InsertPlaced(f)
    PROVE  IInv'
<1> USE DEF IInv
<1>0. f \notin used /\ f \notin assigned /\ mAddress' = mAddress /\ assigned' = assigned
  BY DEF InsertPlaced, TypeOK
<1>1. Ordered(mFiles, mAddress)
  BY DEF Sorted, Ordered
<1>2. /\ InsertPosition(mFiles, mAddress, f) \in 1 .. Len(mFiles) + 1
      /\ mFiles' \in Seq(File) /\ Ordered(mFiles', mAddress)
  BY <1>1, InsertOrdered DEF InsertPlaced, TypeOK
<1> DEFINE p == InsertPosition(mFiles, mAddress, f)
<1>3. /\ Len(mFiles') = Len(mFiles) + 1
      /\ \A j \in 1 .. Len(mFiles) + 1 :
           mFiles'[j] = IF j < p THEN mFiles[j] ELSE IF j = p THEN f ELSE mFiles[j-1]
  <2>1. mFiles' = InsertAt(mFiles, p, f)
    BY DEF InsertPlaced, InsertDefault
  <2> HIDE DEF p
  <2>2. /\ Len(InsertAt(mFiles, p, f)) = Len(mFiles) + 1
        /\ \A j \in 1 .. Len(mFiles) + 1 :
             InsertAt(mFiles, p, f)[j] =
               IF j < p THEN mFiles[j] ELSE IF j = p THEN f ELSE mFiles[j-1]
    <3>1. p \in 1 .. Len(mFiles) + 1 /\ mFiles \in Seq(File)
      BY <1>2 DEF p, TypeOK
    <3> QED BY <3>1, InsertAtProperties
  <2> QED BY <2>1, <2>2
<1>4. DOMAIN mFiles' = 1 .. Len(mFiles) + 1 /\ DOMAIN mFiles = 1 .. Len(mFiles)
      /\ Len(mFiles) \in Nat
  BY <1>2, <1>3, LenProperties DEF TypeOK
<1>6. Sorted'
  BY <1>0, <1>2 DEF Sorted, Ordered
<1>l. \A j \in DOMAIN mFiles' : mFiles'[j] = f \/ \E i \in DOMAIN mFiles : mFiles'[j] = mFiles[i]
  <2>1. SUFFICES ASSUME NEW j \in DOMAIN mFiles', mFiles'[j] # f
                 PROVE  \E i \in DOMAIN mFiles : mFiles'[j] = mFiles[i]
    OBVIOUS
  <2>2. j \in 1 .. Len(mFiles) + 1 /\ p \in Int
    BY <1>2, <1>4 DEF p
  <2>3. CASE j < p
    <3>1. j \in DOMAIN mFiles /\ mFiles'[j] = mFiles[j]
      BY <1>2, <1>3, <1>4, <2>2, <2>3 DEF p
    <3> QED BY <3>1
  <2>4. CASE j > p
    <3>1. j - 1 \in DOMAIN mFiles /\ ~(j < p) /\ j # p
      BY <1>2, <1>4, <2>2, <2>4 DEF p
    <3> QED BY <1>3, <2>2, <3>1
  <2> QED BY <1>3, <2>1, <2>2, <2>3, <2>4
<1> HIDE DEF p
<1>5. TypeOK'
  <2>1. SUFFICES Addressed'
    BY <1>0, <1>2 DEF TypeOK, InsertPlaced
  <2>2. \A j \in DOMAIN mFiles' : mFiles'[j] = f \/ \E i \in DOMAIN mFiles : mFiles'[j] = mFiles[i]
    BY <1>l
  <2> QED BY <1>0, <2>2 DEF TypeOK, Addressed, InsertPlaced
<1>7. ~ AllAssigned'
  <2>1. p \in DOMAIN mFiles' /\ mFiles'[p] = f
    BY <1>2, <1>3, <1>4 DEF p
  <2> QED BY <1>0, <2>1 DEF AllAssigned
<1>8. NoOverlap' /\ BelowCommandArea' /\ LastInArea'
  BY <1>7 DEF NoOverlap, BelowCommandArea, LastInArea
<1>9. AssignedAligned'
  BY <1>0 DEF AssignedAligned
<1>10. Members'
  BY <1>l DEF Members, InsertPlaced
<1> QED BY <1>5, <1>6, <1>8, <1>9, <1>10

\* insert of a file that the map places.
LEMMA InsertNewIInv ==
    ASSUME IInv, NEW f \in File, InsertNew(f)
    PROVE  IInv'
<1> DEFINE a == AssignFileAddress(mFiles, mAddress, f, Area(f))
           n == Len(mFiles)
<1>0. /\ f \notin used /\ f \notin assigned
      /\ assigned' = assigned \cup {f} /\ used' = used \cup {f}
      /\ a # InvalidAddress
      /\ mAddress' = [mAddress EXCEPT ![f] = a]
      /\ mFiles' = InsertDefault(mFiles, mAddress', f)
      /\ mFiles \in Seq(File) /\ mAddress \in [File -> Address]
  BY DEF InsertNew, IInv, TypeOK
<1>1. a \in Address /\ a % Area(f).boundary = 0 /\ a >= Area(f).start
  BY <1>0, AssignAligned
<1> HIDE DEF a
<1>2. /\ mAddress' \in [File -> Address] /\ mAddress'[f] = a
      /\ \A g \in File : g # f => mAddress'[g] = mAddress[g]
  BY <1>0, <1>1
<1>3. n \in Nat /\ DOMAIN mFiles = 1 .. n
  BY <1>0, LenProperties
<1>4. \A i \in 1 .. n : mFiles[i] \in File /\ mFiles[i] # f
                       /\ mAddress'[mFiles[i]] = mAddress[mFiles[i]]
  <2>1. \A i \in 1 .. n : mFiles[i] \in File /\ mFiles[i] \in used
    BY <1>0, <1>3, ElementOfSeq DEF IInv, Members
  <2> QED BY <1>0, <1>2, <2>1
<1>5. Ordered(mFiles, mAddress')
  BY <1>3, <1>4 DEF IInv, Sorted, Ordered
<1>6. /\ InsertPosition(mFiles, mAddress', f) \in 1 .. n + 1
      /\ mFiles' \in Seq(File) /\ Ordered(mFiles', mAddress')
  BY <1>0, <1>2, <1>5, InsertOrdered
<1> DEFINE p == InsertPosition(mFiles, mAddress', f)
<1>7. /\ Len(mFiles') = n + 1
      /\ \A j \in 1 .. n + 1 :
           mFiles'[j] = IF j < p THEN mFiles[j] ELSE IF j = p THEN f ELSE mFiles[j-1]
  <2>1. mFiles' = InsertAt(mFiles, p, f)
    BY <1>0 DEF InsertDefault
  <2> HIDE DEF p
  <2>2. /\ Len(InsertAt(mFiles, p, f)) = n + 1
        /\ \A j \in 1 .. n + 1 :
             InsertAt(mFiles, p, f)[j] =
               IF j < p THEN mFiles[j] ELSE IF j = p THEN f ELSE mFiles[j-1]
    <3>1. p \in 1 .. n + 1 /\ mFiles \in Seq(File)
      BY <1>0, <1>6 DEF p
    <3> QED BY <3>1, InsertAtProperties
  <2> QED BY <2>1, <2>2
<1>8. DOMAIN mFiles' = 1 .. n + 1
  BY <1>6, <1>7, LenProperties
<1>p. p \in 1 .. n + 1 /\ p \in Nat
  BY <1>3, <1>6
<1> HIDE DEF p
<1>9. \A i \in 1 .. n : \E j \in DOMAIN mFiles' : mFiles'[j] = mFiles[i]
  <2>1. SUFFICES ASSUME NEW i \in 1 .. n
                 PROVE  \E j \in DOMAIN mFiles' : mFiles'[j] = mFiles[i]
    OBVIOUS
  <2>2. CASE i < p
    <3>1. i \in DOMAIN mFiles' /\ mFiles'[i] = mFiles[i]
      BY <1>3, <1>7, <1>8, <2>2
    <3> QED BY <3>1
  <2>3. CASE i >= p
    <3>1. /\ i + 1 \in DOMAIN mFiles' /\ ~(i + 1 < p) /\ i + 1 # p /\ (i + 1) - 1 = i
      BY <1>3, <1>8, <1>p, <2>3
    <3>2. mFiles'[i+1] = mFiles[i]
      BY <1>7, <1>8, <3>1
    <3> QED BY <3>1, <3>2
  <2> QED BY <1>p, <2>2, <2>3
<1>10. \A j \in 1 .. n + 1 : mFiles'[j] = f \/ \E i \in 1 .. n : mFiles'[j] = mFiles[i]
  <2>1. SUFFICES ASSUME NEW j \in 1 .. n + 1, mFiles'[j] # f
                 PROVE  \E i \in 1 .. n : mFiles'[j] = mFiles[i]
    OBVIOUS
  <2>2. CASE j < p
    <3>1. j \in 1 .. n /\ mFiles'[j] = mFiles[j]
      BY <1>3, <1>7, <1>p, <2>2
    <3> QED BY <3>1
  <2>3. CASE j > p
    <3>1. j - 1 \in 1 .. n /\ ~(j < p) /\ j # p
      BY <1>3, <1>p, <2>3
    <3>2. mFiles'[j] = mFiles[j-1]
      BY <1>7, <3>1
    <3> QED BY <3>1, <3>2
  <2> QED BY <1>7, <1>p, <2>1, <2>2, <2>3
<1>11. TypeOK'
  <2>1. SUFFICES Addressed'
    BY <1>0, <1>2, <1>6 DEF IInv, TypeOK, InsertNew
  <2>2. \A i \in 1 .. n : mAddress'[mFiles[i]] # InvalidAddress
    BY <1>3, <1>4 DEF IInv, TypeOK, Addressed
  <2>3. mAddress'[f] # InvalidAddress
    BY <1>0, <1>2
  <2>4. \A j \in 1 .. n + 1 : mAddress'[mFiles'[j]] # InvalidAddress
    BY <1>10, <2>2, <2>3, Zenon
  <2> QED BY <1>8, <2>4 DEF Addressed
<1>12. Sorted'
  BY <1>6 DEF Sorted, Ordered
<1>13. AssignedAligned'
  <2>1. \A g \in assigned : g \in File /\ g # f
    BY <1>0 DEF IInv, TypeOK
  <2> QED BY <1>0, <1>1, <1>2, <2>1 DEF IInv, AssignedAligned
<1>14. Members'
  BY <1>0, <1>3, <1>8, <1>10 DEF IInv, Members
<1>15. ASSUME AllAssigned'
       PROVE  NoOverlap' /\ BelowCommandArea' /\ LastInArea'
  <2>1. AllAssigned
    <3>1. SUFFICES ASSUME NEW i \in 1 .. n PROVE mFiles[i] \in assigned
      BY <1>3 DEF AllAssigned
    <3>2. mFiles[i] \in assigned \cup {f}
      BY <1>0, <1>9, <1>15 DEF AllAssigned
    <3> QED BY <1>4, <3>2
  <2>2. PlacedList(mFiles, mAddress)
    BY <1>0, <1>3, <2>1 DEF IInv, NoOverlap, BelowCommandArea, AssignedAligned, LastInArea,
      AllAssigned, PlacedList, Disjoint
  <2>3. f \notin ToSet(mFiles)
    BY <1>3, <1>4 DEF ToSet
  <2>4. PlacedList(mFiles', mAddress')
    <3> DEFINE address == mAddress'  new == mFiles'
    <3>1. address = [mAddress EXCEPT ![f] = a] /\ new = InsertDefault(mFiles, address, f)
      BY <1>0 DEF a
    <3> HIDE DEF address, new
    <3>2. PlacedList(new, address)
      BY <1>0, <2>2, <2>3, <3>1, InsertPlacedList DEF a
    <3> QED BY <3>2 DEF address, new
  <2> QED BY <1>8, <2>4 DEF PlacedList, Disjoint, NoOverlap, BelowCommandArea, LastInArea
<1>16. NoOverlap' /\ BelowCommandArea' /\ LastInArea'
  BY <1>15 DEF NoOverlap, BelowCommandArea, LastInArea
<1> QED BY <1>11, <1>12, <1>13, <1>14, <1>16 DEF IInv

\* A lookup moves no file.
LEMMA FindByAddressIInv ==
    ASSUME IInv, NEW a \in Asked, FindByAddress(a)
    PROVE  IInv'
<1>1. UNCHANGED <<mFiles, mAddress, used, assigned, fault>>
  BY DEF FindByAddress
<1>2. LookupIndex(mFiles, mLastFileIndex, mAddress, a) \in 0 .. Len(mFiles)
  <2>1. DOMAIN mFiles = 1 .. Len(mFiles) /\ Len(mFiles) \in Nat /\ mFiles \in Seq(File)
    BY LenProperties DEF IInv, TypeOK
  <2>2. mLastFileIndex \in 0 .. Len(mFiles)
    BY <2>1 DEF FindByAddress, LookupDefined, IInv, TypeOK
  <2> QED BY <2>1, <2>2, LookupResult
<1>3. mLastFileIndex' \in 0 .. Len(mFiles)
  BY <1>2 DEF FindByAddress
<1>4. mLastFileIndex' \in Nat /\ FileAt(mFiles, mLastFileIndex') \in File \cup {NoFile}
  BY <1>3, LenProperties, ElementOfSeq DEF FileAt, IInv, TypeOK
<1>5. TypeOK'
  BY <1>1, <1>4, Callers DEF FindByAddress, IInv, TypeOK, Addressed
<1> QED BY <1>1, <1>5
  DEF IInv, Sorted, NoOverlap, BelowCommandArea, AssignedAligned, Members, LastInArea,
      AllAssigned

\* clear() leaves an empty list, and the files that were in it do not return.
LEMMA ClearIInv ==
    ASSUME IInv, Clear
    PROVE  IInv'
<1>1. DOMAIN mFiles' = {} /\ mFiles' = <<>> /\ mFiles' \in Seq(File)
  BY EmptySeq DEF Clear
<1>2. UNCHANGED <<mAddress, mLastFileIndex, used, assigned, found, fault>>
  BY DEF Clear
<1> QED BY <1>1, <1>2
  DEF IInv, TypeOK, Addressed, Sorted, NoOverlap, BelowCommandArea, AssignedAligned, Members,
      LastInArea

\* The invariant is inductive.
LEMMA NextIInv == IInv /\ [Next]_vars => IInv'
<1> SUFFICES ASSUME IInv, [Next]_vars PROVE IInv'
  OBVIOUS
<1>1. ASSUME NEW f \in File, InsertPlaced(f) PROVE IInv'
  BY <1>1, InsertPlacedIInv
<1>2. ASSUME NEW f \in File, InsertNew(f) PROVE IInv'
  BY <1>2, InsertNewIInv
<1>3. ASSUME NEW a \in Asked, FindByAddress(a) PROVE IInv'
  BY <1>3, FindByAddressIInv
<1>4. CASE FindOutOfRange
  BY <1>4 DEF FindOutOfRange, IInv, TypeOK, Addressed, Sorted, NoOverlap, BelowCommandArea,
    AssignedAligned, Members, LastInArea, AllAssigned
<1>5. CASE Clear
  BY <1>5, ClearIInv
<1>6. CASE UNCHANGED vars
  BY <1>6 DEF vars, IInv, TypeOK, Addressed, Sorted, NoOverlap, BelowCommandArea,
    AssignedAligned, Members, LastInArea, AllAssigned
<1> QED BY <1>1, <1>2, <1>3, <1>4, <1>5, <1>6 DEF Next

-----------------------------------------------------------------------------
(* The theorems. *)

\* The inductive invariant holds of every reachable state.
THEOREM Invariant == Spec => []IInv
<1>1. Init => IInv
  BY InitIInv
<1>2. IInv /\ [Next]_vars => IInv'
  BY NextIInv
<1> QED BY <1>1, <1>2, PTL DEF Spec

\* The state has its type: in particular every file of the list has an address, and a
\* cached index is a natural number.
THEOREM TypeCorrect == Spec => []TypeOK
<1>1. IInv => TypeOK
  BY DEF IInv
<1> QED BY <1>1, Invariant, PTL

\* insertDefault keeps the list in address order, for any mixture of files.
THEOREM ListSorted == Spec => []Sorted
<1>1. IInv => Sorted
  BY DEF IInv
<1> QED BY <1>1, Invariant, PTL

\* assignFileAddress never hands out a byte twice.
THEOREM FilesDisjoint == Spec => []NoOverlap
<1>1. IInv => NoOverlap
  BY DEF IInv
<1> QED BY <1>1, Invariant, PTL

\* assignFileAddress never reaches into the command area.
THEOREM CommandAreaFree == Spec => []BelowCommandArea
<1>1. IInv => BelowCommandArea
  BY DEF IInv
<1> QED BY <1>1, Invariant, PTL

\* assignFileAddress returns aligned addresses at or above the area's start.
THEOREM AddressesAligned == Spec => []AssignedAligned
<1>1. IInv => AssignedAligned
  BY DEF IInv
<1> QED BY <1>1, Invariant, PTL

\* findByAddress answers correctly whatever its cached index is.
THEOREM LookupsCorrect == Spec => LookupCorrect
<1> DEFINE Correct ==
      found' # found =>
         LET a == found'.address IN
           IF found'.file = NoFile
             THEN Hits(mFiles, mAddress, a) = {}
             ELSE \E i \in Hits(mFiles, mAddress, a) : mFiles[i] = found'.file
<1>1. ASSUME IInv, [Next]_vars PROVE [Correct]_vars
  <2>1. CASE found' = found
    BY <2>1
  <2>2. ASSUME NEW a \in Asked, FindByAddress(a) PROVE Correct
    <3> DEFINE k == LookupIndex(mFiles, mLastFileIndex, mAddress, a)
    <3>1. found' = [address |-> a, file |-> FileAt(mFiles, k)]
      BY <2>2 DEF FindByAddress
    <3>2. DOMAIN mFiles = 1 .. Len(mFiles) /\ Len(mFiles) \in Nat /\ mFiles \in Seq(File)
      BY <1>1, LenProperties DEF IInv, TypeOK
    <3>3. mLastFileIndex \in 0 .. Len(mFiles)
      BY <1>1, <2>2, <3>2 DEF FindByAddress, LookupDefined, IInv, TypeOK
    <3>4. /\ k \in 0 .. Len(mFiles)
          /\ IF k = 0 THEN Hits(mFiles, mAddress, a) = {} ELSE k \in Hits(mFiles, mAddress, a)
      BY <3>2, <3>3, LookupResult
    <3> HIDE DEF k
    <3>5. k # 0 => mFiles[k] \in File /\ mFiles[k] # NoFile
      BY <3>2, <3>4, ElementOfSeq, Files
    <3>6. found'.address = a /\ found'.file = IF k = 0 THEN NoFile ELSE mFiles[k]
      BY <3>1 DEF FileAt
    <3> QED BY <3>4, <3>5, <3>6
  <2>3. found' = found \/ \E a \in Asked : FindByAddress(a)
    BY <1>1 DEF Next, vars, InsertPlaced, InsertNew, FindOutOfRange, Clear
  <2> QED BY <2>1, <2>2, <2>3
<1> QED BY <1>1, Invariant, PTL DEF Spec, LookupCorrect
=============================================================================
