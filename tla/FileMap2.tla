------------------------------ MODULE FileMap2 ------------------------------
(***************************************************************************)
(* RemoteFile::FileMap2 with the address policy of Apx::FileMap, as the    *)
(* state machine its callers see: insert, findByAddress and clear in any   *)
(* order.  FileManager keeps one map for the files it publishes and one    *)
(* for the files the server announced.                                     *)
(***************************************************************************)
EXTENDS FileMapOps

CONSTANTS
    Arrivals,   \* the addresses the files may have when the map receives them
    Asked       \* the addresses findByAddress is asked for

ASSUME Callers ==
    /\ Arrivals \subseteq [File -> Address]
    /\ Asked \subseteq Address

VARIABLES
    mFiles,          \* the list, in address order
    mAddress,        \* mAddress of every file
    mLastFileIndex,  \* index of the last hit of findByAddress, 0 for none
    used,            \* files handed to the map since they were constructed
    assigned,        \* those whose address the map chose
    found,           \* what the last findByAddress was asked and returned
    fault            \* an index out of range was used: QList::at aborts

vars == <<mFiles, mAddress, mLastFileIndex, used, assigned, found, fault>>

Nothing == [address |-> InvalidAddress, file |-> NoFile]

\* A file comes with the address its FILE_INFO carried or with InvalidAddress,
\* which File's constructors set.
Init ==
    /\ mFiles = <<>>
    /\ mAddress \in Arrivals
    /\ mLastFileIndex = 0
    /\ used = {} /\ assigned = {}
    /\ found = Nothing
    /\ fault = FALSE

\* FileMap2::insert of a file that has an address.
InsertPlaced(f) ==
    /\ ~fault /\ f \notin used
    /\ mAddress[f] # InvalidAddress
    /\ mFiles' = InsertDefault(mFiles, mAddress, f)
    /\ used' = used \cup {f}
    /\ UNCHANGED <<mAddress, mLastFileIndex, assigned, found, fault>>

\* Fault: insert does not look at what assignFileAddressDefault returned.
InsertNew_unchecked(f) ==
    /\ ~fault /\ f \notin used
    /\ mAddress[f] = InvalidAddress
    /\ LET a == AssignFileAddress(mFiles, mAddress, f, Area(f)) IN
         /\ mAddress' = [mAddress EXCEPT ![f] = a]
         /\ mFiles' = InsertDefault(mFiles, mAddress', f)
    /\ used' = used \cup {f}
    /\ assigned' = assigned \cup {f}
    /\ UNCHANGED <<mLastFileIndex, found, fault>>

\* FileMap2::insert of a file that has none; when no address fits it returns
\* false and leaves the map and the file as they were.
InsertNew(f) ==
    /\ ~fault /\ f \notin used
    /\ mAddress[f] = InvalidAddress
    /\ LET a == AssignFileAddress(mFiles, mAddress, f, Area(f)) IN
         /\ a # InvalidAddress
         /\ mAddress' = [mAddress EXCEPT ![f] = a]
         /\ mFiles' = InsertDefault(mFiles, mAddress', f)
    /\ used' = used \cup {f}
    /\ assigned' = assigned \cup {f}
    /\ UNCHANGED <<mLastFileIndex, found, fault>>

FindByAddress(a) ==
    /\ ~fault
    /\ LookupDefined(mFiles, mLastFileIndex)
    /\ mLastFileIndex' = LookupIndex(mFiles, mLastFileIndex, mAddress, a)
    /\ found' = [address |-> a, file |-> FileAt(mFiles, mLastFileIndex')]
    /\ UNCHANGED <<mFiles, mAddress, used, assigned, fault>>

\* The cached index survives clear(): mFiles.at() is then out of range.
FindOutOfRange ==
    /\ ~fault
    /\ ~LookupDefined(mFiles, mLastFileIndex)
    /\ fault' = TRUE
    /\ UNCHANGED <<mFiles, mAddress, mLastFileIndex, used, assigned, found>>

\* The files leave the map; those it owns are deleted.
Clear ==
    /\ ~fault /\ mFiles # <<>>
    /\ mFiles' = <<>>
    /\ UNCHANGED <<mAddress, mLastFileIndex, used, assigned, found, fault>>

Next ==
    \/ \E f \in File : InsertPlaced(f) \/ InsertNew(f)
    \/ \E a \in Asked : FindByAddress(a)
    \/ FindOutOfRange
    \/ Clear

Spec == Init /\ [][Next]_vars

-----------------------------------------------------------------------------
\* Every file of the list has an address, also after insertions that found no
\* room: what insertDefault asserts (qrmf_filemap2.cpp:188).
Addressed == \A i \in DOMAIN mFiles : mAddress[mFiles[i]] # InvalidAddress

\* The shape of the state.
TypeOK ==
    /\ mFiles \in Seq(File)
    /\ mAddress \in [File -> Address]
    /\ Addressed
    /\ mLastFileIndex \in Nat
    /\ used \subseteq File
    /\ assigned \subseteq used
    /\ found \in [address : Address, file : File \cup {NoFile}]
    /\ fault \in BOOLEAN

\* The list is in address order, whatever mixture of placed and new files went
\* in: the scans of assignFileAddress for the files a and b rely on it.
Sorted ==
    \A i, j \in DOMAIN mFiles : i < j => mAddress[mFiles[i]] <= mAddress[mFiles[j]]

AllAssigned == \A i \in DOMAIN mFiles : mFiles[i] \in assigned

\* The addresses that assignFileAddress chooses give every file bytes of its
\* own: a WRITE_DATA address names at most one file.  It holds although a file
\* may be placed outside its area, because the file b bounds it from above.
NoOverlap ==
    AllAssigned =>
      \A i, j \in DOMAIN mFiles :
        i < j => mAddress[mFiles[i]] + Length[mFiles[i]] <= mAddress[mFiles[j]]

\* No chosen address reaches into the command area above USER_DATA_END, where a
\* WRITE_DATA would be read as a command.
BelowCommandArea ==
    AllAssigned =>
      \A i \in DOMAIN mFiles : mAddress[mFiles[i]] + Length[mFiles[i]] <= USER_DATA_END

\* A chosen address is a multiple of the boundary of the file's area and not
\* below the area's start.
AssignedAligned ==
    \A f \in assigned : /\ mAddress[f] % Area(f).boundary = 0
                        /\ mAddress[f] >= Area(f).start

\* findByAddress returns a file of the map that covers the address, and nullptr
\* only when none does, whatever the cached index was when the call was made
\* and however insertions have moved the files since it was stored.
LookupCorrect ==
    [][found' # found =>
         LET a == found'.address IN
           IF found'.file = NoFile
             THEN Hits(mFiles, mAddress, a) = {}
             ELSE \E i \in Hits(mFiles, mAddress, a) : mFiles[i] = found'.file]_vars

\* "verifies that file fits within the range bound by startAddress and
\* endAddress" (qrmf_filemap2.cpp:169): a chosen address lies in the area that
\* Apx::FileMap asked for.
AssignedInArea ==
    \A f \in assigned :
      /\ mAddress[f] >= Area(f).start
      /\ mAddress[f] + Length[f] <= Area(f).end
=============================================================================
