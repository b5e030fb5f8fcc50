------------------------------- MODULE DataVM -------------------------------
(***************************************************************************)
(* DataVM: the machine that runs byte code to turn a value into bytes or   *)
(* bytes into a value.  A state has the value with its type, the selected  *)
(* field, the array index (from 1, 0 for none), the raw bytes, the index   *)
(* of the next byte to read or write, and the exception.                   *)
(*                                                                         *)
(* exec starts from a fresh state and every pop of the state stack follows *)
(* its own push, so what an exception leaves on the stack is never read:   *)
(* pushing and popping is saving a state in a LET.                         *)
(***************************************************************************)
EXTENDS DataCompiler

Raise(vm, exception) == [vm EXCEPT !.exception = exception]

\* n more bytes fit or are there.
Has(vm, n) == vm.next + n <= Len(vm.raw) + 1

\* Fault: the number is not cast to the width of the type.
IntBytes_uncast(n, w) ==
    [i \in 1 .. w |-> IF i = w THEN n \div Weight[w] ELSE (n \div Weight[i]) % Radix]

\* qToLittleEndian of a number cast to w bytes.
IntBytes(n, w) == [i \in 1 .. w |-> (n \div Weight[i]) % Radix]

\* Fault: negative numbers are read as unsigned.
FromBytes_unsigned(bytes, base) == LittleEndian(bytes)

\* qFromLittleEndian of the bytes of one item.
FromBytes(bytes, base) ==
    LET n == LittleEndian(bytes)
        range == NumbersOf(Width[base])
    IN  IF base \in Signed /\ 2 * n >= range THEN n - range ELSE n

\* Replaces the bytes from vm.next on and moves behind them.
WriteBytes(vm, bytes) ==
    LET next == vm.next + Len(bytes)
    IN  [vm EXCEPT !.raw = SubSeq(@, 1, vm.next - 1) \o bytes \o SubSeq(@, next, Len(@)),
                   !.next = next]

ReadBytes(vm, n) == SubSeq(vm.raw, vm.next, vm.next + n - 1)

-----------------------------------------------------------------------------
(* Operations. *)

\* junk stands for the content of the bytes resize() adds.
ExecArgs(vm, ins, junk) ==
    CASE ins.vtype # vm.type -> Raise(vm, "INVALID_VARIANT_TYPE")
      [] ins.vtype = vm.type /\ ins.dir = "UNPACK" ->
           IF Len(vm.raw) < ins.packLen THEN Raise(vm, "DATA_LEN_TOO_SHORT")
           ELSE [vm EXCEPT !.next = 1]
      [] OTHER -> [vm EXCEPT !.raw = [i \in 1 .. ins.packLen |-> junk], !.next = 1]

ExecRecordSelect(vm, name) ==
    IF vm.type # "MAP" THEN Raise(vm, "INVALID_VARIANT_TYPE")
    ELSE [vm EXCEPT !.field = name]

\* Fault: what toInt says of the conversion is not looked at.
PackNumber_unchecked(vm, base, v) ==
    IF Has(vm, Width[base])
    THEN WriteBytes(vm, IntBytes(IF IsNumber(v) THEN v.n ELSE 0, Width[base]))
    ELSE Raise(vm, "DATA_CONVERSION_FAILURE")

PackNumber(vm, base, v) ==
    IF IsNumber(v) /\ Has(vm, Width[base])
    THEN WriteBytes(vm, IntBytes(v.n, Width[base]))
    ELSE Raise(vm, "DATA_CONVERSION_FAILURE")

\* packUnsignedInteger, packSignedInteger
PackInteger(vm, base) ==
    CASE vm.type = "SCALAR" -> PackNumber(vm, base, vm.value)
      [] vm.type = "LIST" ->
           IF vm.index \in DOMAIN vm.value.items
           THEN PackNumber(vm, base, vm.value.items[vm.index])
           ELSE Raise(vm, "INTERNAL_ERROR")
      [] vm.type = "MAP" ->
           IF vm.field = "" THEN Raise(vm, "INVALID_FIELD_NAME")
           ELSE PackNumber(vm, base, Field(vm.value, vm.field))

\* storeUnpackedInteger
Store(vm, v) ==
    CASE vm.type = "SCALAR" -> [vm EXCEPT !.value = v]
      [] vm.type = "LIST" ->
           IF vm.index = 0 THEN Raise(vm, "INTERNAL_ERROR")
           ELSE IF vm.index \in DOMAIN vm.value.items
           THEN [vm EXCEPT !.value.items[vm.index] = v]
           ELSE [vm EXCEPT !.value.items = Append(@, v)]
      [] vm.type = "MAP" ->
           [vm EXCEPT !.value = Insert(@, vm.field, v),
                      !.exception = IF vm.field = "" THEN "INVALID_FIELD_NAME" ELSE @]

\* unpackUnsigned, unpackSigned
UnpackInteger(vm, base) ==
    IF Has(vm, Width[base])
    THEN Store([vm EXCEPT !.next = @ + Width[base]],
               Number(FromBytes(ReadBytes(vm, Width[base]), base)))
    ELSE Raise(vm, "DATA_LEN_TOO_SHORT")

\* The loops over the items of an array; an exception ends them.
ItemStates(dir, vm, base, n) ==
    LET state[i \in 0 .. n] ==
          IF i = 0 THEN vm
          ELSE LET m == state[i-1] IN
               IF m.exception # "NONE" THEN m
               ELSE IF dir = "PACK" THEN PackInteger([m EXCEPT !.index = i], base)
               ELSE UnpackInteger([m EXCEPT !.index = i], base)
    IN  state

PackItems(vm, base, n) == ItemStates("PACK", vm, base, n)[n]
UnpackItems(vm, base, n) == ItemStates("UNPACK", vm, base, n)[n]

\* An array in a record is handled as a list of its own, which starts empty in both
\* directions and is then stored in the selected field.
EnterList(vm) == [vm EXCEPT !.type = "LIST", !.value = List(<<>>)]

LeaveList(vm, list) ==
    IF list.exception # "NONE" THEN list
    ELSE [list EXCEPT !.type = "MAP", !.index = vm.index,
                      !.value = Insert(vm.value, vm.field, list.value)]

\* packUnsignedArray; there is no case for the opcodes of signed arrays.
PackArray(vm, base, n) ==
    CASE base \in Signed -> Raise(vm, "INVALID_OP_CODE")
      [] base \notin Signed /\ ~Has(vm, 1) -> Raise(vm, "INVALID_DATA_PTR")
      [] base \notin Signed /\ Has(vm, 1) /\ ~Has(vm, n * Width[base]) ->
           Raise(vm, "DATA_LEN_TOO_SHORT")
      [] OTHER ->
           CASE vm.type = "LIST" -> IF Len(vm.value.items) < n
                                    THEN Raise(vm, "LIST_LEN_TOO_SHORT")
                                    ELSE PackItems(vm, base, n)
             [] vm.type = "MAP"  -> IF vm.field = "" THEN Raise(vm, "INVALID_FIELD_NAME")
                                    ELSE LeaveList(vm, PackItems(EnterList(vm), base, n))
             [] OTHER            -> Raise(vm, "INVALID_VARIANT_TYPE")

\* unpackUnsignedArray
UnpackArray(vm, base, n) ==
    CASE base \in Signed -> Raise(vm, "INVALID_OP_CODE")
      [] base \notin Signed /\ ~Has(vm, n * Width[base]) -> Raise(vm, "DATA_LEN_TOO_SHORT")
      [] OTHER ->
           CASE vm.type = "LIST" -> UnpackItems(vm, base, n)
             [] vm.type = "MAP"  -> LeaveList(vm, UnpackItems(EnterList(vm), base, n))
             [] OTHER            -> Raise(vm, "INVALID_VARIANT_TYPE")

\* Fault: what the text does not fill is not cleared.
PackString_noClear(vm, n) ==
    LET text == Characters(IF vm.type = "MAP" THEN Field(vm.value, vm.field) ELSE vm.value) IN
    CASE ~Has(vm, n) \/ Len(text) > n -> Raise(vm, "DATA_LEN_TOO_SHORT")
      [] OTHER -> [WriteBytes(vm, text) EXCEPT !.next = vm.next + n]

\* execPackString: the whole area is cleared first.
PackString(vm, n) ==
    LET text == Characters(IF vm.type = "MAP" THEN Field(vm.value, vm.field) ELSE vm.value) IN
    CASE ~Has(vm, n) -> Raise(vm, "DATA_LEN_TOO_SHORT")
      [] Has(vm, n) /\ vm.type = "LIST" -> Raise(vm, "INVALID_VARIANT_TYPE")
      [] Has(vm, n) /\ vm.type # "LIST" /\ Len(text) > n -> Raise(vm, "DATA_LEN_TOO_SHORT")
      [] OTHER -> WriteBytes(vm, text \o [i \in 1 .. n - Len(text) |-> 0])

\* execUnpackString: up to the first 0
UnpackString(vm, n) ==
    LET text == SubSeq(vm.raw, vm.next,
                       vm.next - 1 + Min({k \in 0 .. n : k = n \/ vm.raw[vm.next + k] = 0}))
        rest == [vm EXCEPT !.next = @ + n]
    IN  IF ~Has(vm, n) THEN Raise(vm, "DATA_LEN_TOO_SHORT")
        ELSE CASE vm.type = "SCALAR" -> [rest EXCEPT !.value = Text(text)]
               [] vm.type = "MAP"    -> [rest EXCEPT !.value = Insert(@, vm.field, Text(text))]
               [] OTHER              -> Raise(rest, "INVALID_VARIANT_TYPE")

ExecOperation(vm, ins, junk) ==
    CASE ins.op = "ARGS"   -> ExecArgs(vm, ins, junk)
      [] ins.op = "SELECT" -> ExecRecordSelect(vm, ins.name)
      [] ins.op = "INT"    -> IF ins.dir = "PACK" THEN PackInteger(vm, ins.base)
                              ELSE UnpackInteger(vm, ins.base)
      [] ins.op = "ARRAY"  -> IF ins.dir = "PACK" THEN PackArray(vm, ins.base, ins.len)
                              ELSE UnpackArray(vm, ins.base, ins.len)
      [] ins.op = "STR"    -> IF ins.dir = "PACK" THEN PackString(vm, ins.len)
                              ELSE UnpackString(vm, ins.len)

\* The loop of execProg: the states after every operation of prog.
ProgStates(prog, vm, junk) ==
    LET state[i \in 0 .. Len(prog)] ==
          IF i = 0 THEN vm
          ELSE LET m == state[i-1] IN
               IF m.exception # "NONE" THEN m ELSE ExecOperation(m, prog[i], junk)
    IN  state

\* exec with one of its three kinds of value.
Exec(prog, type, raw, value, junk) ==
    LET fresh == [type |-> type, value |-> value, field |-> "", index |-> 0, raw |-> raw,
                  next |-> 1, exception |-> "NONE"]
    IN  ProgStates(prog, fresh, junk)[Len(prog)]
=============================================================================
