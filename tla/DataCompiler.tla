---------------------------- MODULE DataCompiler ----------------------------
(***************************************************************************)
(* DataCompiler: the byte code that packs and unpacks a data element.  A   *)
(* program is a sequence of operations, each with the extra bytes that     *)
(* follow its opcode as fields.  dir is "PACK" or "UNPACK".                *)
(***************************************************************************)
EXTENDS DataElement

\* OPCODE_ARGS: absent when the length does not suit; the return value of setArgs
\* is not looked at.
SetArgs(dir, e) ==
    IF PackLen(e) = 0 \/ PackLen(e) > MaxPackLen THEN <<>>
    ELSE <<[op |-> "ARGS", dir |-> dir, vtype |-> VType(e), packLen |-> PackLen(e)]>>

\* The operation of an element that is not a record.
ItemOp(dir, e) ==
    IF e.base # "STR" /\ e.arrayLen = 0
    THEN [op |-> "INT", dir |-> dir, base |-> e.base]
    ELSE [op |-> IF e.base = "STR" THEN "STR" ELSE "ARRAY", dir |-> dir, base |-> e.base,
          len |-> e.arrayLen % ArrayLimit]

RecordSelect(name) == [op |-> "SELECT", name |-> name]

\* genPackData and genUnpackData
GenData(dir, e) ==
    SetArgs(dir, e) \o
      IF e.base = "REC"
      THEN [k \in 1 .. 2 * Len(e.fields) |->
              LET field == e.fields[(k + 1) \div 2] IN
              IF k % 2 = 1 THEN RecordSelect(field.name) ELSE ItemOp(dir, field.elem)]
      ELSE <<ItemOp(dir, e)>>
=============================================================================
