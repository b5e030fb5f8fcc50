----------------------------- MODULE FileMapOps -----------------------------
(***************************************************************************)
(* The file map of the RemoteFile layer (remotefile/src/qrmf_filemap2.cpp) *)
(* and the address areas of the APX client (apx/src/qapx_filemap.cpp), as  *)
(* operators without state.                                                *)
(*                                                                         *)
(* A map is the QList mFiles of the code: a sequence of files kept in the  *)
(* order of their start addresses.  A file is a member of File; its        *)
(* mAddress is kept in a function `address`, because the same File object  *)
(* is shared by the map, the list of requested files and its owner.        *)
(* Addresses are quint32: sums are taken modulo WordSize.                  *)
(***************************************************************************)
EXTENDS Integers, SequencesExt

CONSTANTS
    File,               \* the File objects
    NoFile,             \* nullptr
    Length,             \* mLength of every file
    Class,              \* what the suffix of mName selects
    WordSize,           \* 2^32 in the code
    PORT_DATA_START, PORT_DATA_BOUNDARY,
    DEFINITION_START, DEFINITION_BOUNDARY,
    USER_DATA_START, USER_DATA_BOUNDARY, USER_DATA_END

Classes == {".in", ".out", ".apx", "user"}

\* The areas follow each other and lie in the lowest quarter of the address space;
\* a boundary is a step of at least one byte.  The start addresses are multiples
\* of the boundaries (powers of two in the code).
ASSUME AddressAreas ==
    /\ WordSize \in Nat \ {0}
    /\ PORT_DATA_START \in Nat /\ DEFINITION_START \in Nat
    /\ USER_DATA_START \in Nat /\ USER_DATA_END \in Nat
    /\ PORT_DATA_BOUNDARY \in Nat \ {0}
    /\ DEFINITION_BOUNDARY \in Nat \ {0}
    /\ USER_DATA_BOUNDARY \in Nat \ {0}
    /\ PORT_DATA_START < DEFINITION_START
    /\ DEFINITION_START < USER_DATA_START
    /\ USER_DATA_START < USER_DATA_END
    /\ 4 * USER_DATA_END < WordSize
    /\ PORT_DATA_START % PORT_DATA_BOUNDARY = 0
    /\ DEFINITION_START % DEFINITION_BOUNDARY = 0
    /\ USER_DATA_START % USER_DATA_BOUNDARY = 0
    /\ 4 * PORT_DATA_BOUNDARY < WordSize
    /\ 4 * DEFINITION_BOUNDARY < WordSize
    /\ 4 * USER_DATA_BOUNDARY < WordSize

\* A file has at least one byte (qapx_nodedata.cpp:358-366 creates no other) and
\* its length is an int.
ASSUME Files ==
    /\ NoFile \notin File
    /\ Class \in [File -> Classes]
    /\ Length \in [File -> Nat \ {0}]
    /\ \A f \in File : 2 * Length[f] < WordSize

Address == 0 .. WordSize - 1

\* RMF_INVALID_ADDRESS: the address of a file the map has yet to place.
InvalidAddress == WordSize - 1

\* The address area of a file: where it starts, where it ends, and the boundary
\* that files in it are aligned to.
Area(f) ==
    CASE Class[f] \in {".in", ".out"} ->
           [start |-> PORT_DATA_START, end |-> DEFINITION_START,
            boundary |-> PORT_DATA_BOUNDARY]
      [] Class[f] = ".apx" ->
           [start |-> DEFINITION_START, end |-> USER_DATA_START,
            boundary |-> DEFINITION_BOUNDARY]
      [] OTHER ->
           [start |-> USER_DATA_START, end |-> USER_DATA_END,
            boundary |-> USER_DATA_BOUNDARY]

\* mAddress + mLength, in quint32.
EndAddress(address, f) == (address[f] + Length[f]) % WordSize

\* Faults for the runs to find: rounding down, and not rounding.
RoundUp_down(x, boundary) == LET y == x % WordSize IN y - (y % boundary)

RoundUp_none(x, boundary) == x % WordSize

\* (x + (boundary-1)) & ~(boundary-1), in quint32.
RoundUp(x, boundary) ==
    LET y == (x + (boundary - 1)) % WordSize IN y - (y % boundary)

\* Fault: only the start of the file is compared with the limit.
VerifyFileAddress_startOnly(f, start, lowest, limit) ==
    IF start < lowest \/ start > limit THEN InvalidAddress ELSE start

\* The start address, or InvalidAddress when the file does not fit.
VerifyFileAddress(f, start, lowest, limit) ==
    IF start < lowest \/ (start + Length[f]) % WordSize > limit
      THEN InvalidAddress
      ELSE start

\* The first file at or above the area's start, if there is one, ...
AtOrAbove(files, address, lowest) ==
    {i \in DOMAIN files : address[files[i]] >= lowest}

\* ... and the files after that one which lie beyond the area.
Beyond(files, address, first, limit) ==
    {i \in DOMAIN files : i > first /\ address[files[i]] >= limit}

\* assignFileAddress: behind the file a that precedes the first file beyond the
\* area, up to that file; at the area's start when no file is at or above it.
AssignFileAddress(files, address, f, area) ==
    LET above  == AtOrAbove(files, address, area.start)
        beyond == Beyond(files, address, Min(above), area.end)
        a      == IF beyond = {} THEN Len(files) ELSE Min(beyond) - 1
    IN  IF above = {}
          THEN VerifyFileAddress(f, area.start, area.start, area.end)
          ELSE VerifyFileAddress(
                 f, RoundUp(EndAddress(address, files[a]), area.boundary), area.start,
                 IF beyond = {} THEN area.end ELSE address[files[Min(beyond)]])

\* Fault: always at the end.
InsertPosition_last(files, address, f) == Len(files) + 1

\* insertDefault: before the first file with a greater address, or at the end.
InsertPosition(files, address, f) ==
    LET greater == {i \in DOMAIN files : address[files[i]] > address[f]}
    IN  IF greater = {} THEN Len(files) + 1 ELSE Min(greater)

InsertDefault(files, address, f) ==
    InsertAt(files, InsertPosition(files, address, f), f)

\* The test of findByAddress.
Covers(address, f, a) == address[f] <= a /\ a < EndAddress(address, f)

\* findByAddress reads the cached index without comparing it to the length of
\* the list.  Indices start at 1 here: mLastFileIndex = -1 in the code is 0.
LookupDefined(files, last) == last <= Len(files)

\* Fault: the end of the cached file is not looked at.
CacheHit_noEnd(files, last, address, a) == last # 0 /\ address[files[last]] <= a

CacheHit(files, last, address, a) == last # 0 /\ Covers(address, files[last], a)

Hits(files, address, a) == {i \in DOMAIN files : Covers(address, files[i], a)}

\* The index that findByAddress leaves in mLastFileIndex; it returns the file there.
LookupIndex(files, last, address, a) ==
    IF CacheHit(files, last, address, a) THEN last
    ELSE IF Hits(files, address, a) = {} THEN 0
    ELSE Min(Hits(files, address, a))

FileAt(files, i) == IF i = 0 THEN NoFile ELSE files[i]
=============================================================================
