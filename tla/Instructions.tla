---------------------------- MODULE Instructions ----------------------------
(***************************************************************************)
(* What the numeric and memory instructions of WebAssembly do, in terms of *)
(* numbers: a stack of values, a memory of bytes.  Nothing is said of      *)
(* slots, registers or the types of C.                                     *)
(*                                                                         *)
(* Width bits stand for 32, 2 * Width for 64; a byte of memory has a       *)
(* quarter of Width, and Group bits of a number are in a byte of code.     *)
(***************************************************************************)
EXTENDS Words, Sequences

CONSTANTS
  Width, Group,
  Length,  \* bytes of memory
  Consts,  \* the const instructions
  Offsets, \* bytes of code that may follow a load or store
  NONE

VARIABLES
  stack,       \* values, the top last: [type, value]
  memory,
  stopped,     \* NONE, "trap", or "error" when the code is not accepted
  instruction, \* the last one: [op, type, from, code]
  read         \* how many bytes of its code were read

vars == <<stack, memory, stopped, instruction, read>>

Byte == Width \div 4
Bits(t) == IF t \in {"i32", "f32"} THEN Width ELSE 2 * Width

Ints == {"i32", "i64"}
Fps  == {"f32", "f64"}

Make(ops, type, from, codes) == [op : ops, type : {type}, from : {from}, code : codes]

Compares == {"eq", "ne", "lt_s", "lt_u", "gt_s", "gt_u", "le_s", "le_u", "ge_s", "ge_u"}
Arithmetic ==
  { "add", "sub", "mul", "div_s", "div_u", "rem_s", "rem_u", "and", "or", "xor",
    "shl", "shr_s", "shr_u", "rotl", "rotr" }
Counts     == {"clz", "ctz", "popcnt"}
Extends    == {"extend8_s", "extend16_s", "extend32_s"}
Truncs     == {"trunc_s", "trunc_u", "trunc_sat_s", "trunc_sat_u"}
FpCompares == {"f.eq", "f.ne", "f.lt", "f.gt", "f.le", "f.ge"}

\* Bits of memory that a load or store moves.
AccessBits(op, type) ==
  CASE op \in {"load8_s", "load8_u", "store8"}    -> Byte
    [] op \in {"load16_s", "load16_u", "store16"} -> 2 * Byte
    [] op \in {"load32_s", "load32_u", "store32"} -> Width
    [] OTHER -> Bits(type)

Loads(t) == {"load", "load8_s", "load8_u", "load16_s", "load16_u"}
            \cup IF t = "i64" THEN {"load32_s", "load32_u"} ELSE {}
Stores(t) == {"store", "store8", "store16"} \cup IF t = "i64" THEN {"store32"} ELSE {}

\* [op, type, from, code]: what is done, for a result of a type, from operands
\* of a type; code is an immediate as it is in the module.
IntUnary(t) == Make({"eqz"}, "i32", t, {<<>>}) \cup Make(Counts, t, t, {<<>>})
FpUnary(t)  == Make({"abs", "neg"}, t, t, {<<>>})

UnaryInstruction ==
  IntUnary("i32") \cup Make({"extend8_s", "extend16_s"}, "i32", "i32", {<<>>})
  \cup IntUnary("i64") \cup Make(Extends, "i64", "i64", {<<>>})
  \cup Make({"wrap"}, "i32", "i64", {<<>>})
  \cup Make({"extend_s", "extend_u"}, "i64", "i32", {<<>>})
  \cup FpUnary("f32") \cup FpUnary("f64")

ConvertInstruction ==
  Make({"convert_s", "convert_u"}, "f64", "i32", {<<>>})
  \cup [op : Truncs, type : Ints, from : Fps, code : {<<>>}]

IntBinary(t) == Make(Compares, "i32", t, {<<>>}) \cup Make(Arithmetic, t, t, {<<>>})
FpBinary(t)  == Make(FpCompares, "i32", t, {<<>>})
                \cup Make({"min", "max", "copysign"}, t, t, {<<>>})

BinaryInstruction ==
  IntBinary("i32") \cup IntBinary("i64") \cup FpBinary("f32") \cup FpBinary("f64")

Selects(t) == Make({"select"}, t, t, {<<>>})

SelectInstruction == Selects("i32") \cup Selects("i64") \cup Selects("f32") \cup Selects("f64")
LoadInstruction   == Make(Loads("i32"), "i32", "i32", Offsets) \cup Make(Loads("i64"), "i64", "i32", Offsets)
StoreInstruction  == Make(Stores("i32"), "none", "i32", Offsets) \cup Make(Stores("i64"), "none", "i64", Offsets)
MemoryInstruction == Make({"memory.copy", "memory.fill"}, "none", "i32", {<<>>})

-----------------------------------------------------------------------------
(* Numbers in the code: groups of bits, the lowest first, each but the     *)
(* last with its highest bit set.                                          *)

More(b) == b >= 2^Group

\* Bytes of the number that code begins with; none if it has no end.
Lasts(code) == {k \in 1 .. Len(code) : ~More(code[k]) /\ \A j \in 1 .. k - 1 : More(code[j])}

Groups(code, k) == MapThenSumSet(LAMBDA j : (code[j] % 2^Group) * 2^(Group * (j - 1)), 1 .. k)

\* A number of n bits has at most this many groups.
MaxGroups(n) == (n + Group - 1) \div Group

\* The words of n bits that code may stand for, {} if it is malformed.  When
\* the unused bits of the last group are not as they should be, it may or may
\* not be accepted.
Decoded(n, signed, code) ==
  { Unsigned(n, IF signed THEN Signed(Group * k, Groups(code, k)) ELSE Groups(code, k))
      : k \in {l \in Lasts(code) : l <= MaxGroups(n)} }

-----------------------------------------------------------------------------
(* Values: the word or float that an instruction leaves for its operands.  *)

Highest(bits) == Max({-1} \cup bits)
Lowest(n, bits) == Min({n} \cup bits)

Counted(op, n, x) ==
  CASE op = "clz"    -> n - 1 - Highest(BitsOf(n, x))
    [] op = "ctz"    -> Lowest(n, BitsOf(n, x))
    [] op = "popcnt" -> Cardinality(BitsOf(n, x))

Extended(op, n, x) ==
  Unsigned(n, Signed(CASE op = "extend8_s" -> Byte [] op = "extend16_s" -> 2 * Byte
                       [] OTHER -> Width, x))

Compared(op, n, x, y) ==
  Truth(CASE op = "eq" -> x = y
          [] op = "ne" -> x # y
          [] op = "lt_s" -> Signed(n, x) < Signed(n, y)   [] op = "lt_u" -> x < y
          [] op = "gt_s" -> Signed(n, x) > Signed(n, y)   [] op = "gt_u" -> x > y
          [] op = "le_s" -> Signed(n, x) <= Signed(n, y)  [] op = "le_u" -> x <= y
          [] op = "ge_s" -> Signed(n, x) >= Signed(n, y)  [] op = "ge_u" -> x >= y)

\* The bits of x, each k places higher, around the end of the word.
Rotated(n, x, k) == OfBits({(i + k) % n : i \in BitsOf(n, x)})

\* {} if the instruction traps.
Computed(op, n, x, y) ==
  LET sx == Signed(n, x)  sy == Signed(n, y)
      words == CASE op = "add" -> {x + y}
                 [] op = "sub" -> {x - y}
                 [] op = "mul" -> {x * y}
                 [] op = "div_s" -> {q \in {Quotient(sx, d) : d \in {sy} \ {0}} : q < 2^(n - 1)}
                 [] op = "div_u" -> {Quotient(x, d) : d \in {y} \ {0}}
                 [] op = "rem_s" -> {Remainder(sx, d) : d \in {sy} \ {0}}
                 [] op = "rem_u" -> {Remainder(x, d) : d \in {y} \ {0}}
                 [] op = "and" -> {OfBits(BitsOf(n, x) \cap BitsOf(n, y))}
                 [] op = "or"  -> {OfBits(BitsOf(n, x) \cup BitsOf(n, y))}
                 [] op = "xor" -> {OfBits((BitsOf(n, x) \cup BitsOf(n, y))
                                          \ (BitsOf(n, x) \cap BitsOf(n, y)))}
                 [] op = "shl"   -> {x * 2^(y % n)}
                 [] op = "shr_s" -> {sx \div 2^(y % n)}
                 [] op = "shr_u" -> {x \div 2^(y % n)}
                 [] op = "rotl"  -> {Rotated(n, x, y)}
                 [] op = "rotr"  -> {Rotated(n, x, n - (y % n))}
  IN  {Unsigned(n, w) : w \in words}

\* The integer that is left of a float; it must fit the word.
Least(op, n) == IF op \in {"trunc_s", "trunc_sat_s"} THEN -(2^(n - 1)) ELSE 0
Greatest(op, n) == IF op \in {"trunc_s", "trunc_sat_s"} THEN 2^(n - 1) - 1 ELSE 2^n - 1

Truncated(op, n, f) ==
  LET whole == Quotient(Halves(f), 2)
      fits  == f # NaN /\ whole \in Least(op, n) .. Greatest(op, n)
  IN  IF fits THEN {Unsigned(n, whole)}
      ELSE IF op \in {"trunc_s", "trunc_u"} THEN {}
      ELSE {IF f = NaN THEN 0
            ELSE Unsigned(n, IF Negative(f) THEN Least(op, n) ELSE Greatest(op, n))}

FpCompared(op, f, g) ==
  Truth(CASE op = "f.eq" -> Equal(f, g)  [] op = "f.ne" -> ~Equal(f, g)
          [] op = "f.lt" -> Less(f, g)   [] op = "f.le" -> Less(f, g) \/ Equal(f, g)
          [] op = "f.gt" -> Less(g, f)   [] op = "f.ge" -> Less(g, f) \/ Equal(f, g))

\* Of two zeros, the negative one is the smaller.
Before(f, g) == Less(f, g) \/ (Equal(f, g) /\ Negative(f))

FpComputed(op, f, g) ==
  CASE op = "min" -> IF NaN \in {f, g} THEN NaN ELSE IF Before(f, g) THEN f ELSE g
    [] op = "max" -> IF NaN \in {f, g} THEN NaN ELSE IF Before(f, g) THEN g ELSE f
    [] op = "copysign" -> IF f = NaN THEN NaN ELSE Float(Negative(g), Magnitude(Halves(f)))

Signless(op, f) ==
  IF f = NaN THEN NaN ELSE Float(op = "neg" /\ ~Negative(f), Magnitude(Halves(f)))

-----------------------------------------------------------------------------
(* Instructions                                                            *)

Value(depth) == stack[Len(stack) - depth].value
Types(types) == \* what is on top of the stack, the top last
  Len(stack) >= Len(types)
  /\ \A k \in 1 .. Len(types) : stack[Len(stack) - Len(types) + k].type = types[k]

\* n operands are replaced by a value; with none to choose, a trap.
Replace(n, type, values) ==
  /\ UNCHANGED memory
  /\ IF values = {} THEN stopped' = "trap" /\ UNCHANGED stack
     ELSE /\ UNCHANGED stopped
          /\ \E v \in values :
               stack' = Append(SubSeq(stack, 1, Len(stack) - n), [type |-> type, value |-> v])

\* n operands are used up, and memory changes to m if the bytes exist.
Write(n, exist, m) ==
  IF exist THEN /\ stack' = SubSeq(stack, 1, Len(stack) - n)
                /\ memory' = m /\ UNCHANGED stopped
  ELSE stopped' = "trap" /\ UNCHANGED <<stack, memory>>

NoCode == read' = 0

Const(i) ==
  LET words == IF i.type \in Fps THEN {i.code[1]} ELSE Decoded(Bits(i.type), TRUE, i.code)
  IN  IF words = {} THEN stopped' = "error" /\ UNCHANGED <<stack, memory, read>>
      ELSE /\ Replace(0, i.type, words)
           /\ read' \in IF i.type \in Fps THEN {1} ELSE Lasts(i.code)

UnaryValue(i, x) ==
  CASE i.op = "eqz"                 -> Truth(x = 0)
    [] i.op \in Counts              -> Counted(i.op, Bits(i.from), x)
    [] i.op \in Extends             -> Extended(i.op, Bits(i.from), x)
    [] i.op \in {"wrap", "extend_u"} -> Unsigned(Width, x)
    [] i.op = "extend_s"            -> Unsigned(2 * Width, Signed(Width, x))
    [] i.op \in {"abs", "neg"}      -> Signless(i.op, x)

Unary(i) ==
  /\ Types(<<i.from>>) /\ NoCode
  /\ Replace(1, i.type, {UnaryValue(i, Value(0))})

Convert(i) ==
  LET x == Value(0)
  IN  /\ Types(<<i.from>>) /\ NoCode
      /\ Replace(1, i.type,
           CASE i.op = "convert_s" -> {Float(Signed(Width, x) < 0, 2 * Magnitude(Signed(Width, x)))}
             [] i.op = "convert_u" -> {Float(FALSE, 2 * x)}
             [] OTHER -> Truncated(i.op, Bits(i.type), x))

BinaryValues(i, x, y) ==
  CASE i.op \in Compares   -> {Compared(i.op, Bits(i.from), x, y)}
    [] i.op \in Arithmetic -> Computed(i.op, Bits(i.from), x, y)
    [] i.op \in FpCompares -> {FpCompared(i.op, x, y)}
    [] OTHER               -> {FpComputed(i.op, x, y)}

Binary(i) ==
  /\ Types(<<i.from, i.from>>) /\ NoCode
  /\ Replace(2, i.type, BinaryValues(i, Value(1), Value(0)))

Select(i) ==
  /\ Types(<<i.type, i.type, "i32">>) /\ NoCode
  /\ Replace(3, i.type, {Value(IF Value(0) # 0 THEN 2 ELSE 1)})

\* The bytes from address on, as a word; and memory with a word of n bits there.
Word(address, n) ==
  MapThenSumSet(LAMBDA k : memory[address + k] * 2^(Byte * k), 0 .. n \div Byte - 1)

Written(address, n, x) ==
  [a \in DOMAIN memory |->
     IF a \in address .. address + n \div Byte - 1
     THEN Unsigned(Byte, x \div 2^(Byte * (a - address))) ELSE memory[a]]

Exists(address, size) == address + size <= Length

Access(i, Do(_)) ==
  LET offsets == Decoded(Width, FALSE, i.code)
  IN  IF offsets = {} THEN stopped' = "error" /\ UNCHANGED <<stack, memory, read>>
      ELSE read' \in Lasts(i.code) /\ \E offset \in offsets : Do(offset)

Load(i) ==
  LET n == AccessBits(i.op, i.type)
      Extend(x) == IF i.op \in {"load8_s", "load16_s", "load32_s"} THEN Signed(n, x) ELSE x
      From(address) ==
        Replace(1, i.type, {Unsigned(Bits(i.type), Extend(Word(a, n)))
                              : a \in {a \in {address} : Exists(a, n \div Byte)}})
  IN  /\ Types(<<"i32">>)
      /\ Access(i, LAMBDA offset : From(Value(0) + offset))

Store(i) ==
  LET n == AccessBits(i.op, i.from)
      At(address) == Write(2, Exists(address, n \div Byte), Written(address, n, Value(0)))
  IN  /\ Types(<<"i32", i.from>>)
      /\ Access(i, LAMBDA offset : At(Value(1) + offset))

\* The bytes are read before any of them is written.
CopyOrFill(i) ==
  LET size == Value(0)  source == Value(1)  target == Value(2)
      copies == i.op = "memory.copy"
  IN  /\ Types(<<"i32", "i32", "i32">>) /\ NoCode
      /\ Write(3, Exists(target, size) /\ (copies => Exists(source, size)),
               [a \in DOMAIN memory |->
                  IF a \notin target .. target + size - 1 THEN memory[a]
                  ELSE IF copies THEN memory[a - target + source]
                  ELSE Unsigned(Byte, source)])

-----------------------------------------------------------------------------
Init ==
  /\ stack = <<>> /\ stopped = NONE /\ read = 0
  /\ memory = [a \in 0 .. Length - 1 |-> 0]
  /\ instruction = NONE

Next ==
  /\ stopped = NONE
  /\ \/ instruction' \in Consts             /\ Const(instruction')
     \/ instruction' \in UnaryInstruction   /\ Unary(instruction')
     \/ instruction' \in ConvertInstruction /\ Convert(instruction')
     \/ instruction' \in BinaryInstruction  /\ Binary(instruction')
     \/ instruction' \in SelectInstruction  /\ Select(instruction')
     \/ instruction' \in LoadInstruction    /\ Load(instruction')
     \/ instruction' \in StoreInstruction   /\ Store(instruction')
     \/ instruction' \in MemoryInstruction  /\ CopyOrFill(instruction')

Spec == Init /\ [][Next]_vars
=============================================================================
