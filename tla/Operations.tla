----------------------------- MODULE Operations -----------------------------
(***************************************************************************)
(* The numeric and memory operations (m3_exec.h, m3_math_utils.h), in the  *)
(* types of C, and what the compiler reads and emits for them.             *)
(*                                                                         *)
(* Every integer shares the register _r0, which is as wide as the widest:  *)
(* what an operation leaves above its own bits depends on its type, so     *)
(* that each use must cut them off.  Which of an operation's variants is   *)
(* emitted depends on which operand is in the register.                    *)
(***************************************************************************)
EXTENDS Words, Sequences

CONSTANTS
  Width,           \* bits of an i32, a multiple of 4
  Group,           \* bits of a number in a byte of code
  Length,          \* _mem->length
  Pushes,          \* bound: the const instructions that are the first, the second ...
  Consts, Offsets, NONE, \* as in Instructions
  Precision,       \* bits of the significand of an f32 and of an f64
  Branchless,      \* whether clz and ctz of 64 bits are the x86 forms
  Ops              \* bound: what the first other instruction may do, the second ...

ASSUME OperationsAssumption ==
  /\ Width \in Nat \ {0} /\ Width % 4 = 0 /\ Group \in Nat \ {0} /\ Length \in Nat
  /\ Branchless \in BOOLEAN /\ \A h \in DOMAIN Pushes : Pushes[h] \subseteq Consts

VARIABLES
  r0, fp0,     \* _r0 and _fp0; those of which no item is in are what they were
  stack,       \* o's stack: [type, inRegister, slot], the slot's contents
  memory,      \* the bytes of m3MemData
  stopped,     \* NONE, "trap" of an operation, "error" of the compiler
  instruction, \* the one that was compiled and executed last
  read,        \* how far its immediate went
  consts, operations \* how many there were

vars == <<r0, fp0, stack, memory, stopped, instruction, read, consts, operations>>

Byte == Width \div 4
Bits(type) == IF type \in {"i32", "f32"} THEN Width ELSE 2 * Width
IsFpType(type) == type \in {"f32", "f64"}

(***************************************************************************)
(* What the program is to be: the value of an item in the register is what *)
(* its bits there are.                                                     *)
(***************************************************************************)
Values ==
  [k \in DOMAIN stack |->
     [type  |-> stack[k].type,
      value |-> IF ~stack[k].inRegister THEN stack[k].slot
                ELSE IF IsFpType(stack[k].type) THEN fp0
                ELSE Unsigned(Bits(stack[k].type), r0)]]

Wasm == INSTANCE Instructions WITH stack <- Values

-----------------------------------------------------------------------------
(* Immediates (m3_core.c)                                                  *)

\* Bytes after which the loop of ReadLeb is left.
LebStops(code, n) == {p \in 1 .. Len(code) : code[p] < 2^Group \/ Group * p >= n}

\* How many bytes are read, in a set; {} for wasmUnderrun and lebOverflow.
LebLength(code, n) ==
  LET stops == LebStops(code, n)
  IN  {p \in {q \in stops : \A r \in stops : q <= r} : code[p] < 2^Group}

\* value, after p bytes were put one over the other in 64 bits.
ReadLebUnsigned(code, p) ==
  Unsigned(2 * Width, MapThenSumSet(LAMBDA j : (code[j] % 2^Group) * 2^(Group * (j - 1)), 1 .. p))

ReadLebSigned(code, p) ==
  LET shift == Group * p
      extend == (code[p] \div 2^(Group - 1)) % 2 = 1 /\ shift < 2 * Width
  IN  ReadLebUnsigned(code, p) + IF extend THEN 2^(2 * Width) - 2^shift ELSE 0

-----------------------------------------------------------------------------
(* Operands and results                                                    *)

InRegister(type) == [type |-> type, inRegister |-> TRUE, slot |-> 0]
InSlot(type, value) == [type |-> type, inRegister |-> FALSE, slot |-> value]

\* Mutant of Register: the register is taken as it is.
RegisterUncut(type) == IF IsFpType(type) THEN fp0 ELSE r0

\* (TYPE) REG.
Register(type) == IF IsFpType(type) THEN fp0 ELSE Unsigned(Bits(type), r0)

FromTop(s, depth) == s[Len(s) - depth]
TypesOnTop(types) ==
  /\ Len(stack) >= Len(types)
  /\ \A k \in 1 .. Len(types) : stack[Len(stack) - Len(types) + k].type = types[k]

IsRegisterTypeAllocated(s, type) ==
  \E k \in DOMAIN s : s[k].inRegister /\ IsFpType(s[k].type) = IsFpType(type)

\* Mutant of PreserveRegisterIfOccupied: an item of another type is left there.
PreserveRegisterOfType(s, type) ==
  [k \in DOMAIN s |->
     IF s[k].inRegister /\ s[k].type = type
     THEN InSlot(s[k].type, Register(s[k].type)) ELSE s[k]]

\* op_SetSlot to a new slot, if the register of the type is in use.
PreserveRegisterIfOccupied(s, type) ==
  [k \in DOMAIN s |->
     IF s[k].inRegister /\ IsFpType(s[k].type) = IsFpType(type)
     THEN InSlot(s[k].type, Register(s[k].type)) ELSE s[k]]

\* The start of Compile_Operator, with n operands and a result of a type.
Operator(n, type) ==
  LET s == IF IsFpType(FromTop(stack, 0).type) /\ type \in {"i32", "i64"}
           THEN PreserveRegisterIfOccupied(stack, type) ELSE stack
  IN  IF \E d \in 0 .. n - 1 : FromTop(s, d).inRegister THEN s
      ELSE PreserveRegisterIfOccupied(s, type)

Operand(s, depth) ==
  IF FromTop(s, depth).inRegister THEN Register(FromTop(s, depth).type)
  ELSE FromTop(s, depth).slot

\* Mutant of Operands: every operation has its variants in the order of a commutative one.
OperandsUnordered(op, s) ==
  IF FromTop(s, 1).inRegister THEN <<Operand(s, 0), Operand(s, 1)>>
  ELSE <<Operand(s, 1), Operand(s, 0)>>

\* d_commutativeBinOpList: there is no variant _sr, and _rs is used for it.
Commutative == {"eq", "ne", "add", "mul", "and", "or", "xor", "f.eq", "f.ne", "min", "max"}

\* What an operation of two operands takes as the first and as the second.
Operands(op, s) ==
  IF op \in Commutative /\ FromTop(s, 1).inRegister
  THEN <<Operand(s, 0), Operand(s, 1)>>
  ELSE <<Operand(s, 1), Operand(s, 0)>>

\* n operands are popped, and RES is one of values, in the register.  With none
\* to choose the operation traps.
Replaced(s, n, type, values) ==
  /\ UNCHANGED memory
  /\ IF values = {} THEN stopped' = "trap" /\ stack' = s /\ UNCHANGED <<r0, fp0>>
     ELSE /\ stack' = Append(SubSeq(s, 1, Len(s) - n), InRegister(type))
          /\ UNCHANGED stopped
          /\ IF IsFpType(type) THEN fp0' \in values /\ UNCHANGED r0
             ELSE r0' \in {Unsigned(2 * Width, v) : v \in values} /\ UNCHANGED fp0

NoImmediate == read' = 0

-----------------------------------------------------------------------------
(* Operations on integers                                                  *)

\* The operations of c_operations whose TYPE is i32 or i64, not u32 or u64.
SignedType ==
  { "eq", "ne", "lt_s", "gt_s", "le_s", "ge_s", "add", "sub", "mul", "div_s", "rem_s",
    "shr_s", "eqz", "extend8_s", "extend16_s", "extend32_s", "extend_s" }

\* An operand, read as TYPE.
As(op, n, word) == IF op \in SignedType THEN Signed(n, word) ELSE word

\* A signed sum that overflows is undefined: it is cut off at the width of its
\* type, or is left as it is in a wider register.
Wrapped(n, x) == {Signed(n, x), x}

OP_DIV_U(a, b) == IF b = 0 THEN {} ELSE {a \div b}
OP_REM_U(a, b) == IF b = 0 THEN {} ELSE {a % b}

OP_DIV_S(a, b, min) ==
  IF b = 0 \/ (b = -1 /\ a = min) THEN {} ELSE {Quotient(a, b)}

OP_REM_S(a, b, min) ==
  IF b = 0 THEN {} ELSE IF b = -1 /\ a = min THEN {0} ELSE {Remainder(a, b)}

Or(n, a, b) == OfBits(BitsOf(n, a) \cup BitsOf(n, b))

\* rotl32 and its like: with a distance of 0, x is put over x.
Rotl(n, x, c) == Or(n, x * 2^(c % n), x \div 2^((-c) % n))
Rotr(n, x, c) == Or(n, x \div 2^(c % n), x * 2^((-c) % n))

Comparison(op, a, b) ==
  CASE op = "eq" -> a = b  [] op = "ne" -> a # b
    [] op \in {"lt_s", "lt_u"} -> a < b   [] op \in {"gt_s", "gt_u"} -> a > b
    [] op \in {"le_s", "le_u"} -> a <= b  [] op \in {"ge_s", "ge_u"} -> a >= b

\* Mutant of Arithmetic: the smallest number may be divided by -1.
ArithmeticOverflowing(op, n, a, b) ==
  IF op = "div_s" /\ b # 0 THEN {Quotient(a, b)} ELSE {a}

\* {} for a trap.
Arithmetic(op, n, a, b) ==
  CASE op = "add"   -> Wrapped(n, a + b)
    [] op = "sub"   -> Wrapped(n, a - b)
    [] op = "mul"   -> Wrapped(n, a * b)
    [] op = "div_s" -> OP_DIV_S(a, b, -(2^(n - 1)))
    [] op = "div_u" -> OP_DIV_U(a, b)
    [] op = "rem_s" -> OP_REM_S(a, b, -(2^(n - 1)))
    [] op = "rem_u" -> OP_REM_U(a, b)
    [] op = "and"   -> {OfBits(BitsOf(n, a) \cap BitsOf(n, b))}
    [] op = "or"    -> {Or(n, a, b)}
    [] op = "xor"   -> {Or(n, a, b) - OfBits(BitsOf(n, a) \cap BitsOf(n, b))}
    [] op = "shl"   -> {Unsigned(n, a * 2^(b % n))}
    [] op \in {"shr_s", "shr_u"} -> {a \div 2^(b % n)}
    [] op = "rotl"  -> {Rotl(n, a, b)}
    [] op = "rotr"  -> {Rotr(n, a, b)}

\* __builtin_clz and __builtin_ctz, undefined for 0.
BuiltinClz(n, x) == n - 1 - Max(BitsOf(n, x))
BuiltinCtz(n, x) == Min(BitsOf(n, x))

OP_CLZ(n, x) ==
  IF Branchless /\ n = 2 * Width THEN BuiltinClz(n, Or(n, x, 1)) + Truth(x = 0)
  ELSE IF x = 0 THEN n ELSE BuiltinClz(n, x)

OP_CTZ(n, x) ==
  IF Branchless /\ n = 2 * Width THEN BuiltinCtz(n, Or(n, x, 2^(n - 1))) + Truth(x = 0)
  ELSE IF x = 0 THEN n ELSE BuiltinCtz(n, x)

IntUnary(op, n, x) ==
  CASE op = "eqz"        -> Truth(x = 0)
    [] op = "clz"        -> OP_CLZ(n, x)
    [] op = "ctz"        -> OP_CTZ(n, x)
    [] op = "popcnt"     -> Cardinality(BitsOf(n, x))
    [] op = "extend8_s"  -> Signed(Byte, x)
    [] op = "extend16_s" -> Signed(2 * Byte, x)
    [] op = "extend32_s" -> Signed(Width, x)
    [] op = "wrap"       -> Unsigned(Width, x)
    [] op \in {"extend_s", "extend_u"} -> x

-----------------------------------------------------------------------------
(* Operations on floats                                                    *)

FpComparison(op, a, b) ==
  CASE op = "f.eq" -> Equal(a, b)  [] op = "f.ne" -> ~Equal(a, b)
    [] op = "f.lt" -> Less(a, b)   [] op = "f.gt" -> Less(b, a)
    [] op = "f.le" -> Less(a, b) \/ Equal(a, b)
    [] op = "f.ge" -> Less(b, a) \/ Equal(a, b)

min_f(a, b) ==
  IF a = NaN \/ b = NaN THEN NaN
  ELSE IF IsZero(a) /\ Equal(a, b) THEN IF Negative(a) THEN a ELSE b
  ELSE IF Less(b, a) THEN b ELSE a

max_f(a, b) ==
  IF a = NaN \/ b = NaN THEN NaN
  ELSE IF IsZero(a) /\ Equal(a, b) THEN IF Negative(a) THEN b ELSE a
  ELSE IF Less(b, a) THEN a ELSE b

WithSign(a, negative) == IF a = NaN THEN NaN ELSE Float(negative, a \div 2)

FpArithmetic(op, a, b) ==
  CASE op = "min" -> min_f(a, b) [] op = "max" -> max_f(a, b)
    [] op = "copysign" -> WithSign(a, Negative(b))

FpUnary(op, a) ==
  CASE op = "abs" -> WithSign(a, FALSE) [] op = "neg" -> WithSign(a, ~Negative(a))

\* RMIN and RMAX of OP_TRUNC, in halves: the float next to the range, on either
\* side, or the integer if the float has fractions there.
RMin(signed, n, from) ==
  LET next == IF n > Precision[from] THEN 2^(n - Precision[from]) ELSE 1
  IN  IF signed THEN -2 * (2^(n - 1) + next) ELSE -2

RMax(signed, n) == 2 * IF signed THEN 2^(n - 1) ELSE 2^n

\* OP_TRUNC and OP_TRUNC_SAT.
Trunc(op, n, from, a) ==
  LET signed == op \in {"trunc_s", "trunc_sat_s"}
      saturates == op \in {"trunc_sat_s", "trunc_sat_u"}
      Else(value) == IF saturates THEN {value} ELSE {}
  IN  IF a = NaN THEN Else(0)
      ELSE IF Halves(a) <= RMin(signed, n, from) THEN Else(IF signed THEN -(2^(n - 1)) ELSE 0)
      ELSE IF Halves(a) >= RMax(signed, n) THEN Else((IF signed THEN 2^(n - 1) ELSE 2^n) - 1)
      ELSE {Quotient(Halves(a), 2)}

-----------------------------------------------------------------------------
(* Compiling and executing an instruction                                  *)

Compile_Const(i) ==
  LET n == Bits(i.type)
      lengths == IF IsFpType(i.type) THEN {1} ELSE LebLength(i.code, n)
      Value(p) == IF IsFpType(i.type) THEN i.code[1] ELSE Unsigned(n, ReadLebSigned(i.code, p))
  IN  /\ IF lengths = {} THEN stopped' = "error" /\ UNCHANGED <<stack, read>>
         ELSE /\ UNCHANGED stopped
              /\ \E p \in lengths : /\ read' = p
                                    /\ stack' = Append(stack, InSlot(i.type, Value(p)))
      /\ UNCHANGED <<r0, fp0, memory>>

\* Compile_Operator of an operation of one operand.
Compile_Unary(i) ==
  LET s == Operator(1, i.type)
      n == Bits(i.from)
  IN  /\ TypesOnTop(<<i.from>>) /\ NoImmediate
      /\ Replaced(s, 1, i.type,
           {IF IsFpType(i.from) THEN FpUnary(i.op, Operand(s, 0))
            ELSE IntUnary(i.op, n, As(i.op, n, Operand(s, 0)))})

\* Compile_Operator of an operation of two operands.
Compile_Binary(i) ==
  LET s == Operator(2, i.type)
      n == Bits(i.from)
      operands == Operands(i.op, s)
      A == As(i.op, n, operands[1])
      B == As(i.op, n, operands[2])
  IN  /\ TypesOnTop(<<i.from, i.from>>) /\ NoImmediate
      /\ Replaced(s, 2, i.type,
           IF IsFpType(i.from)
           THEN IF i.type = "i32" THEN {Truth(FpComparison(i.op, A, B))} ELSE {FpArithmetic(i.op, A, B)}
           ELSE IF i.op \in Wasm!Compares THEN {Truth(Comparison(i.op, A, B))}
           ELSE Arithmetic(i.op, n, A, B))

TruncMacro(i, x) == Trunc(i.op, Bits(i.type), i.from, x)

Conversion(i, x) ==
  CASE i.op = "convert_s" -> {Float(Signed(Width, x) < 0, 2 * Magnitude(Signed(Width, x)))}
    [] i.op = "convert_u" -> {Float(FALSE, 2 * x)}
    [] OTHER -> TruncMacro(i, x)

\* The result goes to a slot if the register of its type is in use.
Compile_Convert(i) ==
  LET values == Conversion(i, Operand(stack, 0))
      popped == SubSeq(stack, 1, Len(stack) - 1)
      Word(v) == IF IsFpType(i.type) THEN v ELSE Unsigned(Bits(i.type), v)
  IN  /\ TypesOnTop(<<i.from>>) /\ NoImmediate
      /\ IF values # {} /\ IsRegisterTypeAllocated(stack, i.type)
         THEN /\ \E v \in values : stack' = Append(popped, InSlot(i.type, Word(v)))
              /\ UNCHANGED <<r0, fp0, memory, stopped>>
         ELSE Replaced(stack, 1, i.type, values)

Selected(type, s) ==
  LET operand == Operand(s, IF Operand(s, 0) # 0 THEN 2 ELSE 1)
  IN  IF IsFpType(type) THEN operand ELSE Signed(Bits(type), operand)

\* The selector is an i32; the register of the values' type is preserved
\* unless it is used by an operand that the operation takes from it.
Compile_Select(i) ==
  LET used == IF IsFpType(i.type) THEN {1, 2} ELSE {0, 1, 2}
      s == IF \E d \in used : FromTop(stack, d).inRegister THEN stack
           ELSE PreserveRegisterIfOccupied(stack, i.type)
  IN  /\ TypesOnTop(<<i.type, i.type, "i32">>) /\ NoImmediate
      /\ Replaced(s, 3, i.type, {Selected(i.type, s)})

\* The test of the operand, which has 64 bits.
InBounds(operand, size) == Unsigned(2 * Width, operand) + size <= Length

\* The second immediate of a load or store, behind the hint of alignment: how
\* long it is and what it says, in a set; {} if it is not accepted.
MemoryOffset(i) ==
  { [length |-> p, value |-> Unsigned(Width, ReadLebUnsigned(i.code, p))]
      : p \in LebLength(i.code, Width) }

\* DEST_TYPE, for a load: sign extension from the type in memory.
LoadedSigned == {"load", "load8_s", "load16_s", "load32_s"}

\* memcpy of the bytes at an address.
Bytes(address, n) ==
  MapThenSumSet(LAMBDA k : memory[address + k] * 2^(Byte * k), 0 .. n \div Byte - 1)

Load(i, offset) ==
  LET n == Wasm!AccessBits(i.op, i.type)
      s == Operator(1, i.type)
      operand == Operand(s, 0) + offset
      Value(word) == IF i.op \in LoadedSigned THEN Signed(n, word) ELSE word
  IN  Replaced(s, 1, i.type,
        {Value(Bytes(a, n)) : a \in {b \in {operand} : InBounds(b, n \div Byte)}})

\* memory with the bytes from address on given by New.
Overwritten(address, size, New(_)) ==
  [a \in DOMAIN memory |-> IF a \in address .. address + size - 1 THEN New(a - address) ELSE memory[a]]

\* n operands of s are popped, and memory changes if the bytes exist.
Stored(s, n, inBounds, new) ==
  IF inBounds THEN /\ stack' = SubSeq(s, 1, Len(s) - n) /\ memory' = new
                   /\ UNCHANGED stopped
  ELSE stopped' = "trap" /\ stack' = s /\ UNCHANGED memory

Store(i, offset) ==
  LET n == Wasm!AccessBits(i.op, i.from)
      s == Operator(2, "none")
      operand == Operands(i.op, s)[1] + offset
      value == Operands(i.op, s)[2]
  IN  /\ Stored(s, 2, InBounds(operand, n \div Byte),
           Overwritten(operand, n \div Byte, LAMBDA k : Unsigned(Byte, value \div 2^(Byte * k))))
      /\ UNCHANGED <<r0, fp0>>

Compile_Load_Store(i) ==
  /\ TypesOnTop(IF i.type = "none" THEN <<"i32", i.from>> ELSE <<"i32">>)
  /\ IF MemoryOffset(i) = {} THEN stopped' = "error" /\ UNCHANGED <<r0, fp0, stack, memory, read>>
     ELSE \E offset \in MemoryOffset(i) :
            /\ read' = offset.length
            /\ IF i.type = "none" THEN Store(i, offset.value) ELSE Load(i, offset.value)

MemCopy(s, size, source, destination) ==
  Stored(s, 3, InBounds(destination, size) /\ InBounds(source, size),
         Overwritten(destination, size, LAMBDA k : memory[source + k]))

MemFill(s, size, byte, destination) ==
  Stored(s, 3, InBounds(destination, size),
         Overwritten(destination, size, LAMBDA k : Unsigned(Byte, byte)))

\* The size is moved to the register, so the other
\* operands are in slots.
Compile_Memory_CopyFill(i) ==
  LET moved == ~FromTop(stack, 0).inRegister
      s == IF moved THEN PreserveRegisterIfOccupied(stack, "i32") ELSE stack
      size == Operand(s, 0)
  IN  /\ TypesOnTop(<<"i32", "i32", "i32">>) /\ NoImmediate
      /\ r0' = IF moved THEN Unsigned(2 * Width, Signed(Width, size)) ELSE r0
      /\ IF i.op = "memory.copy" THEN MemCopy(s, size, Operand(s, 1), Operand(s, 2))
         ELSE MemFill(s, size, Operand(s, 1), Operand(s, 2))
      /\ UNCHANGED fp0

-----------------------------------------------------------------------------
Init ==
  /\ r0 = 0 /\ fp0 = 0 /\ stack = <<>> /\ stopped = NONE /\ read = 0
  /\ consts = 0 /\ operations = 0
  /\ memory = [a \in 0 .. Length - 1 |-> 0]
  /\ instruction = NONE

Goes(i) == instruction' = i /\ stopped = NONE

\* No const is just before the last operation.
Const(i) ==
  /\ Goes(i) /\ operations < Len(Ops) - 1
  /\ consts' = consts + 1 /\ UNCHANGED operations

Operation(i) ==
  /\ Goes(i) /\ operations < Len(Ops) /\ i.op \in Ops[operations + 1]
  /\ operations' = operations + 1 /\ UNCHANGED consts

Next ==
  \/ consts < Len(Pushes) /\ \E i \in Pushes[consts + 1] : Const(i) /\ Compile_Const(i)
  \/ \E i \in Wasm!UnaryInstruction   : Operation(i) /\ Compile_Unary(i)
  \/ \E i \in Wasm!ConvertInstruction : Operation(i) /\ Compile_Convert(i)
  \/ \E i \in Wasm!BinaryInstruction  : Operation(i) /\ Compile_Binary(i)
  \/ \E i \in Wasm!SelectInstruction  : Operation(i) /\ Compile_Select(i)
  \/ \E i \in Wasm!LoadInstruction \cup Wasm!StoreInstruction : Operation(i) /\ Compile_Load_Store(i)
  \/ \E i \in Wasm!MemoryInstruction  : Operation(i) /\ Compile_Memory_CopyFill(i)

Spec == Init /\ [][Next]_vars

-----------------------------------------------------------------------------
(* Correctness                                                             *)

\* Every variable has its type: a slot holds a word of its type, and a register
\* is that of one item at most.
TypeOK ==
  /\ r0 \in 0 .. 2^(2 * Width) - 1 /\ fp0 \in 0 .. NaN
  /\ stopped \in {NONE, "trap", "error"} /\ consts \in 0 .. Len(Pushes) /\ operations \in 0 .. Len(Ops)
  /\ \A k \in DOMAIN stack :
       IF stack[k].inRegister
       THEN \A j \in DOMAIN stack \ {k} :
              stack[j].inRegister => IsFpType(stack[j].type) # IsFpType(stack[k].type)
       ELSE stack[k].slot \in 0 .. IF IsFpType(stack[k].type) THEN NaN ELSE 2^Bits(stack[k].type) - 1
  /\ memory \in [0 .. Length - 1 -> 0 .. 2^Byte - 1]

\* After any sequence of instructions, whichever variants were emitted for them and
\* whatever is left above the bits of a value in the register, the values, the
\* memory, the traps and the position in the code are those of WebAssembly.
ImplementsInstructions == Wasm!Spec
=============================================================================
