---------------------------- MODULE DataElement ----------------------------
(***************************************************************************)
(* The data elements of ports, QApxDataElement, as the signature parser    *)
(* produces them: integers, arrays of integers, strings, and records of    *)
(* those.  A signature has no record within a record and no array of       *)
(* records (parseType knows no brace, and nothing is parsed behind one).   *)
(* An element is a record of its base type, its array length and, for a    *)
(* record, the sequence of its named children.                             *)
(***************************************************************************)
EXTENDS Integers, SequencesExt

CONSTANTS
    Radix,        \* the number of values of a byte
    ArrayLimit,   \* array lengths of byte code are modulo 2^16
    MaxPackLen    \* the longest element byte code can describe

ASSUME Sizes ==
    /\ Radix \in Nat \ {0, 1} /\ Radix % 2 = 0
    /\ ArrayLimit \in Nat \ {0} /\ MaxPackLen \in Nat

Byte == 0 .. Radix - 1
Bytes(n) == [1 .. n -> Byte]

\* What byte i of a number of up to four bytes counts, and how many numbers w bytes hold.
Weight == <<1, Radix, Radix * Radix, Radix * Radix * Radix>>
NumbersOf(w) == Radix * Weight[w]

\* The sum of the first n numbers of s, for every n.
Sums(s) ==
    LET sum[n \in 0 .. Len(s)] == IF n = 0 THEN 0 ELSE sum[n-1] + s[n]
    IN  sum

\* The number whose bytes these are, the least significant first.
LittleEndian(bytes) == Sums([i \in DOMAIN bytes |-> bytes[i] * Weight[i]])[Len(bytes)]

\* The bytes of one item of each base type.
Width == [U8 |-> 1, U16 |-> 2, U32 |-> 4, S8 |-> 1, S16 |-> 2, S32 |-> 4, STR |-> 1]

Signed == {"S8", "S16", "S32"}

ItemLen(e) == Width[e.base] * (IF e.arrayLen > 0 THEN e.arrayLen ELSE 1)

\* The fields of a record lie one behind the other: where field i ends.
FieldEnds(e) == Sums([i \in DOMAIN e.fields |-> ItemLen(e.fields[i].elem)])

\* calcLen
PackLen(e) == IF e.base = "REC" THEN FieldEnds(e)[Len(e.fields)] ELSE ItemLen(e)

\* The elements a signature can spell and byte code describe: array lengths and the
\* length as a whole fit into their operands, and no two fields have one name.
IsItemElement(e) ==
    /\ e.base \in DOMAIN Width
    /\ e.arrayLen \in 0 .. ArrayLimit - 1
    /\ e.base = "STR" => e.arrayLen > 0

IsElement(e) ==
    /\ IF e.base = "REC"
       THEN /\ e.fields \in Seq({e.fields[i] : i \in DOMAIN e.fields}) /\ e.fields # <<>>
            /\ \A i \in DOMAIN e.fields : IsItemElement(e.fields[i].elem)
            /\ \A i, j \in DOMAIN e.fields : e.fields[i].name = e.fields[j].name => i = j
       ELSE IsItemElement(e)
    /\ PackLen(e) <= MaxPackLen

\* The kind of QVariant an element's value is.
VType(e) ==
    CASE e.base = "REC" -> "MAP"
      [] e.base \notin {"REC", "STR"} /\ e.arrayLen > 0 -> "LIST"
      [] OTHER -> "SCALAR"

-----------------------------------------------------------------------------
(* Values: QVariant.  A text is a sequence of characters, which are the    *)
(* bytes but 0.                                                            *)

Null == [kind |-> "null"]
Number(n) == [kind |-> "int", n |-> n]
Text(s) == [kind |-> "text", s |-> s]
List(items) == [kind |-> "list", items |-> items]
Map(fields) == [kind |-> "map", fields |-> fields]

\* What an application may pass: numbers, texts, and lists and maps of any depth, of
\* which only the numbers and texts on top and one or two levels below are looked at.
IsScalar(v) ==
    /\ v.kind = "int" => v.n \in Int
    /\ v.kind = "text" => v.s \in Seq(Byte)

IsItemVariant(v) ==
    /\ IsScalar(v)
    /\ v.kind = "list" => /\ v.items \in Seq({v.items[i] : i \in DOMAIN v.items})
                          /\ \A i \in DOMAIN v.items : IsScalar(v.items[i])

IsVariant(v) ==
    /\ IsItemVariant(v)
    /\ v.kind = "map" => \A x \in DOMAIN v.fields : IsItemVariant(v.fields[x])

\* QVariantMap::operator[] of a name that may be missing.
Field(v, name) == IF name \in DOMAIN v.fields THEN v.fields[name] ELSE Null

\* QVariantMap::insert
Insert(v, name, item) ==
    Map([x \in DOMAIN v.fields \cup {name} |-> IF x = name THEN item ELSE v.fields[x]])

\* QVariant::toUInt and toInt: a text that is no number, a list or a map is not
\* converted.
IsNumber(v) == v.kind = "int"

\* QVariant::toString of what is passed for a text.
Characters(v) == IF v.kind = "text" THEN v.s ELSE <<>>
=============================================================================
