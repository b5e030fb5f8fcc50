----------------------------- MODULE PortValues -----------------------------
(***************************************************************************)
(* What a port's value is in bytes, said without byte code: the promise    *)
(* that compiler and machine keep together.  A number is its residue in    *)
(* little-endian order, a text is filled up with zeros, an array or record *)
(* is the row of its parts.  Wrong kinds of value do not fit, numbers out  *)
(* of range do and are cut.                                                *)
(***************************************************************************)
EXTENDS DataElement

\* Values an application may set on a port of element e without an error: a field
\* of text may be missing in a record, a list may be longer than the array.
FitsItem(e, v) ==
    CASE e.base = "STR" -> Len(Characters(v)) <= e.arrayLen
      [] e.base # "STR" /\ e.arrayLen = 0 -> IsNumber(v)
      [] OTHER -> /\ v.kind = "list" /\ Len(v.items) >= e.arrayLen
                  /\ \A i \in 1 .. e.arrayLen : IsNumber(v.items[i])

Fits(e, v) ==
    IF e.base = "REC"
    THEN v.kind = "map" /\ \A i \in DOMAIN e.fields :
                             FitsItem(e.fields[i].elem, Field(v, e.fields[i].name))
    ELSE FitsItem(e, v)

\* The elements byte code can pack: no signed array, no array in a record, no
\* number in a record without a name.
Packable(e) ==
    IF e.base = "REC"
    THEN \A i \in DOMAIN e.fields :
           e.fields[i].elem.base # "STR" =>
             e.fields[i].elem.arrayLen = 0 /\ e.fields[i].name # ""
    ELSE e.base \in Signed => e.arrayLen = 0

\* The elements byte code can unpack: arrays of unsigned numbers in records as well.
Unpackable(e) ==
    LET Item(x) == x.base \in Signed => x.arrayLen = 0 IN
    IF e.base = "REC"
    THEN \A i \in DOMAIN e.fields :
           /\ Item(e.fields[i].elem)
           /\ e.fields[i].elem.base # "STR" /\ e.fields[i].elem.arrayLen = 0
                => e.fields[i].name # ""
    ELSE Item(e)

\* The w bytes of which the least significant is first.
IsNumberIn(bytes, n, w) ==
    /\ bytes \in Bytes(w)
    /\ (LittleEndian(bytes) - n) % NumbersOf(w) = 0

\* bytes hold the value v of an item e.
HoldsItem(bytes, e, v) ==
    CASE e.base = "STR" ->
           LET text == Characters(v) IN
           \A i \in DOMAIN bytes : bytes[i] = IF i <= Len(text) THEN text[i] ELSE 0
      [] e.base # "STR" /\ e.arrayLen = 0 ->
           IsNumber(v) /\ IsNumberIn(bytes, v.n, Width[e.base])
      [] OTHER -> LET w == Width[e.base] IN
           \A i \in 1 .. e.arrayLen :
             /\ IsNumber(v.items[i])
             /\ IsNumberIn(SubSeq(bytes, (i - 1) * w + 1, i * w), v.items[i].n, w)

\* Where field i of a record starts.
FieldOffset(e, i) == FieldEnds(e)[i-1]

FieldBytes(bytes, e, i) ==
    SubSeq(bytes, FieldOffset(e, i) + 1, FieldOffset(e, i) + ItemLen(e.fields[i].elem))

Holds(bytes, e, v) ==
    IF e.base = "REC"
    THEN \A i \in DOMAIN e.fields :
           HoldsItem(FieldBytes(bytes, e, i), e.fields[i].elem, Field(v, e.fields[i].name))
    ELSE HoldsItem(bytes, e, v)

\* What reading yields is a value of the right kind, in range and complete.
IsItem(e, v) ==
    LET range == NumbersOf(Width[e.base])
        number(x) == /\ IsNumber(x)
                     /\ IF e.base \in Signed THEN x.n \in -(range \div 2) .. (range \div 2) - 1
                        ELSE x.n \in 0 .. range - 1
    IN  CASE e.base = "STR" -> v.kind = "text" /\ \A i \in DOMAIN v.s : v.s[i] # 0
          [] e.base # "STR" /\ e.arrayLen = 0 -> number(v)
          [] OTHER -> /\ v.kind = "list" /\ Len(v.items) = e.arrayLen
                      /\ \A i \in DOMAIN v.items : number(v.items[i])

\* What a text is read from ends at its first zero, whatever follows.
Cut(bytes, e) ==
    IF e.base # "STR" THEN bytes
    ELSE [i \in DOMAIN bytes |-> IF \E k \in 1 .. i : bytes[k] = 0 THEN 0 ELSE bytes[i]]

IsItemReading(bytes, e, v) == IsItem(e, v) /\ HoldsItem(Cut(bytes, e), e, v)

\* v is what bytes say, seen as element e.
IsReading(bytes, e, v) ==
    IF e.base = "REC"
    THEN /\ v.kind = "map"
         /\ DOMAIN v.fields = {e.fields[i].name : i \in DOMAIN e.fields}
         /\ \A i \in DOMAIN e.fields :
              IsItemReading(FieldBytes(bytes, e, i), e.fields[i].elem, Field(v, e.fields[i].name))
    ELSE IsItemReading(bytes, e, v)
=============================================================================
