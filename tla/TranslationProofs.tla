------------------------- MODULE TranslationProofs -------------------------
(***************************************************************************)
(* The slots and registers of the compiler, for any function: that no      *)
(* operation uses a slot there is not, and that the table of registers     *)
(* agrees with the stack.                                                  *)
(***************************************************************************)
EXTENDS Translation, FiniteSetTheorems, SequenceTheorems, WellFoundedInduction, TLAPS

-----------------------------------------------------------------------------
(* The compilation                                                         *)

\* A value on the stack is in slots, or in the register of its type.
Item == [type : ValueType, slot : Nat]

InSlots(x) == x.slot + GetTypeNumSlots(x.type) <= MaxFunctionSlots

StackOk(stack) ==
  /\ stack \in Seq(Item) /\ Len(stack) <= MaxStackHeight
  /\ \A i \in 1 .. Len(stack) :
       stack[i].slot = RegisterOf(stack[i].type) \/ InSlots(stack[i])

\* The fields of the compilation; none of its operations used a slot there is not.
Fields == {"stack", "reg", "top", "maxSlots", "count", "firstConst", "constEnd",
           "firstDynamic", "blocks", "mem", "skip", "to", "failed", "ignored",
           "misread", "wild", "reach", "values"}

Typed(p) ==
  /\ DOMAIN p = Fields
  /\ StackOk(p.stack)
  /\ p.reg \in [Registers -> 0 .. MaxStackHeight]
  /\ p.count \in [0 .. MaxFunctionSlots - 1 -> 0 .. MaxUsageCount]
  /\ p.top \in Nat /\ p.maxSlots \in Nat
  /\ p.firstConst \in Nat /\ p.constEnd \in Nat /\ p.firstDynamic \in Nat
  /\ p.failed \in BOOLEAN /\ p.ignored \in BOOLEAN /\ p.wild = FALSE

\* Locals, then constants, then the slots that are given out.
Bounds(p) ==
  /\ p.firstConst <= p.constEnd /\ p.constEnd <= p.firstDynamic
  /\ p.firstDynamic <= p.top /\ p.firstDynamic <= MaxFunctionSlots

-----------------------------------------------------------------------------
(* Scopes                                                                  *)

\* Parameters and results of a block lie between exit and base.
Scope == [opcode : {"func", "block", "loop", "if", "else"},
          type : {[params |-> <<>>, results |-> RetTypes]} \cup BlockTypes,
          exit : Nat, base : Nat, poly : BOOLEAN]

\* Where the values of the innermost scope begin.
Base(blocks) == blocks[Len(blocks)].base

BlocksOk(blocks) ==
  /\ blocks \in Seq(Scope) /\ Len(blocks) >= 1
  /\ blocks[1].opcode = "func" /\ blocks[1].exit = NumLocals /\ blocks[1].base = NumLocals
  /\ blocks[1].type.results = RetTypes
  /\ \A k \in 2 .. Len(blocks) :
       LET b == blocks[k] IN
       /\ b.opcode # "func"
       /\ b.type \in BlockTypes
       /\ b.base = b.exit + Len(b.type.params) + Len(b.type.results)
       /\ \A j \in 1 .. k - 1 : blocks[j].base <= b.exit
       /\ FpLast(b.type.results) => Len(b.type.results) = 1

\* The records between exit and base.
RecordsOk(stack, b) ==
  LET params == b.type.params  results == b.type.results IN
  /\ \A j \in 1 .. Len(params) :
       stack[b.exit + j].type = params[j] /\ InSlots(stack[b.exit + j])
  /\ \A j \in 1 .. Len(results) :
       LET x == stack[b.exit + Len(params) + j] IN
       x.type = results[j] /\ IF IsFpType(Last(results)) /\ j = Len(results)
                              THEN x.slot = Fp0 ELSE InSlots(x)

-----------------------------------------------------------------------------
(* Registers and locals                                                    *)

\* A register is in use if it is the place of an item of the innermost scope.
RegistersOk(stack, reg, base) ==
  /\ \A r \in Registers :
       reg[r] # 0 => reg[r] \in base + 1 .. Len(stack) /\ stack[reg[r]].slot = r
  /\ \A i \in base + 1 .. Len(stack) :
       stack[i].slot \in Registers => reg[stack[i].slot] = i

\* The others in registers are records of results.
OnlyRecords(stack, blocks) ==
  \A i \in 1 .. Base(blocks) : stack[i].slot \in Registers =>
    \E k \in 2 .. Len(blocks) : blocks[k].exit < i /\ i <= blocks[k].base

\* Below firstConst are the locals: an item there is one, or a reference to it.
LocalsOk(stack, firstConst) ==
  /\ \A i \in 1 .. NumLocals :
       stack[i].slot + GetTypeNumSlots(stack[i].type) <= firstConst
  /\ \A i, j \in 1 .. NumLocals : stack[i].slot = stack[j].slot => i = j
  /\ \A i \in 1 .. Len(stack) : stack[i].slot < firstConst =>
       \E j \in 1 .. NumLocals : stack[i] = stack[j]

\* What a stack is like while nothing failed.
Sound(stack, reg, blocks, firstConst) ==
  /\ Base(blocks) <= Len(stack)
  /\ RegistersOk(stack, reg, Base(blocks))
  /\ OnlyRecords(stack, blocks)
  /\ \A k \in 2 .. Len(blocks) : RecordsOk(stack, blocks[k])
  /\ LocalsOk(stack, firstConst)

\* The invariant of a compilation, for every state inside a handler.
OK(p) == /\ Typed(p) /\ Bounds(p) /\ BlocksOk(p.blocks)
         /\ Base(p.blocks) <= Len(p.stack)
         /\ ~p.failed => Sound(p.stack, p.reg, p.blocks, p.firstConst)

SkipOk(p) == /\ p.skip \in {"no", "end", "else", "loop", "return"}
             /\ p.to \in 0 .. Len(p.blocks)
             /\ p.skip = "no" => p.to = 0

\* The WebAssembly machine has the locals of the function.
MachineOk(x) == DOMAIN x = {"vals", "labels", "locals"} /\ DOMAIN x.locals = 1 .. NumLocals

\* The inductive invariant; what failed is not kept.
IInv == /\ Typed(o)
        /\ o.blocks # <<>>
        /\ Good => OK(o)
        /\ SkipOk(o) /\ MachineOk(w)

-----------------------------------------------------------------------------
(* Parts of the operations                                                 *)

\* The loops of EnterBlock and CallFrame, by name.
PushAgain(p, stack, exit, params) ==
  Iterate(Len(params), LAMBDA q, k : PushParam(q, params[k], stack[exit + k].slot), p)

ArgSlot(frame, args, rets, k) == frame + 2 * (rets + args - k)

CopyArgs(p, frame, args, rets) ==
  Iterate(args, LAMBDA q, k : CopyArg(q, ArgSlot(frame, args, rets, k)), p)

PushRets(p, frame, rets) ==
  Iterate(Len(rets), LAMBDA q, k : PushRet(q, rets[k], frame + 2 * (k - 1)), p)

\* What no operation on the stack changes.
Frame(p, q) ==
  /\ q.blocks = p.blocks /\ q.skip = p.skip /\ q.to = p.to /\ q.ignored = p.ignored
  /\ q.firstConst = p.firstConst /\ q.firstDynamic = p.firstDynamic
  /\ p.failed => q.failed

\* The stack and the registers are as they were.
Close(p, q) ==
  /\ Typed(q) /\ Frame(p, q)
  /\ q.stack = p.stack /\ q.reg = p.reg /\ q.failed = p.failed
  /\ q.constEnd = p.constEnd /\ q.top >= p.top

\* If nothing failed, x came to the top of the stack.
Pushed(p, q, x) == ~q.failed => ~p.failed /\ q.stack = Append(p.stack, x) /\ x \in Item

\* If nothing failed, len items went.
Popped(p, q, len) ==
  ~q.failed => /\ ~p.failed
               /\ Len(q.stack) = Len(p.stack) - len
               /\ \A i \in 1 .. Len(p.stack) - len : q.stack[i] = p.stack[i]

\* The stack with the items J in a slot.
Redirected(stack, J, slot) ==
  [j \in DOMAIN stack |-> IF j \in J THEN [stack[j] EXCEPT !.slot = slot] ELSE stack[j]]

\* If nothing failed, some items went to slots, and registers may be free.
Moved(p, q) ==
  ~q.failed =>
    /\ ~p.failed /\ Len(q.stack) = Len(p.stack)
    /\ \A i \in 1 .. Len(p.stack) :
         /\ q.stack[i].type = p.stack[i].type
         /\ q.stack[i] = p.stack[i] \/ InSlots(q.stack[i])
    /\ \A r \in Registers : q.reg[r] \in {0, p.reg[r]}

\* In the compilation m, which has room for them, the items J go to a slot.
WithMoved(p, m, J, slot, reg) == [m EXCEPT !.stack = Redirected(p.stack, J, slot), !.reg = reg]

MayMove(p, m, J, slot, reg) ==
  /\ OK(p) /\ Close(p, m) /\ slot \in Nat /\ slot >= p.firstDynamic
  /\ \A j \in J \cap 1 .. Len(p.stack) :
       slot + GetTypeNumSlots(p.stack[j].type) <= MaxFunctionSlots
  /\ ~p.failed => J \subseteq NumLocals + 1 .. Len(p.stack)
  /\ ~p.failed => \A j \in J : p.stack[j].slot \in Registers => j > Base(p.blocks)
  /\ reg \in [Registers -> 0 .. MaxStackHeight]
  /\ ~p.failed => \A r \in Registers : reg[r] = IF p.reg[r] \in J THEN 0 ELSE p.reg[r]

\* The items before from are as they were; q is p when the stack is restored.
Copying(p, from, q) ==
  /\ Typed(q) /\ Frame(p, q) /\ q.reg = p.reg
  /\ q.constEnd = p.constEnd /\ q.top = p.top
  /\ Len(q.stack) = Len(p.stack)
  /\ \A i \in 1 .. Len(p.stack) :
       q.stack[i].type = p.stack[i].type /\ (i < from => q.stack[i] = p.stack[i])

\* A value of the type fits in the slots of x.
Fits(x, type) == x.slot \in Nat /\ x.slot + GetTypeNumSlots(type) <= MaxFunctionSlots

\* The items from target on have slots for those with index from and behind.
MayCopy(p, target, from, len) ==
  /\ len \in Nat /\ target \in Nat /\ from \in Nat /\ target >= 1
  /\ from + len <= Len(p.stack) + 1
  /\ \/ len = 1 /\ from >= 1 /\ p.stack[target].slot = p.stack[from].slot
     \/ /\ target + len <= from
        /\ \A k \in 1 .. len : Fits(p.stack[target + k - 1], p.stack[from + k - 1].type)

-----------------------------------------------------------------------------
(* Numbers, least elements, and loops                                      *)

\* The numbers of the model.
LEMMA Numbers ==
  /\ MaxFunctionSlots \in Nat /\ MaxStackHeight \in Nat /\ MaxUsageCount \in Nat \ {0}
  /\ CalleeSlots \in Nat /\ MaxConstantTable \in Nat
  /\ Reg0 \in Nat /\ Fp0 = Reg0 + 2 /\ Reg0 = MaxFunctionSlots + CalleeSlots
  /\ SlotUnused \in Nat /\ SlotUnused > MaxFunctionSlots
  /\ Registers = {Reg0, Fp0}
  /\ Len(ArgTypes) \in Nat /\ Len(LocalTypes) \in Nat /\ Len(RetTypes) \in Nat
  /\ NumLocals \in Nat
BY LimitsAssumption, SignatureAssumption
   DEF Reg0, Fp0, SlotUnused, Registers, NumLocals

\* What a type says of slots and registers.
LEMMA Types ==
  \A t : /\ GetTypeNumSlots(t) \in 1 .. 2
         /\ GetTypeNumSlots(t) = 2 <=> Is64BitType(t)
         /\ RegisterOf(t) \in Registers
BY DEF GetTypeNumSlots, RegisterOf, Registers

\* Alignment moves a slot by at most one.
LEMMA Even ==
  ASSUME NEW s \in Nat
  PROVE  /\ s % 2 \in {0, 1} /\ (s + (s % 2)) % 2 = 0
         /\ \A t : AlignSlotToType(s, t) \in s .. s + 1
         /\ AlignSlotToType(s, "i64") % 2 = 0
<1>1. s % 2 \in {0, 1} /\ (s + (s % 2)) % 2 = 0
  OBVIOUS
<1>2. s % 1 = 0
  OBVIOUS
<1> QED
  BY <1>1, <1>2 DEF AlignSlotToType, GetTypeNumSlots, Is64BitType

\* A nonempty set of numbers has a least element.
LEMMA LeastExists ==
  ASSUME NEW S \in SUBSET Nat, IsFiniteSet(S), S # {}
  PROVE  Min(S) \in S /\ \A y \in S : Min(S) <= y
<1> DEFINE R == StrictSubsetOrdering(S)
           To(a) == {x \in S : x <= a}
           T == {To(a) : a \in S}
<1>1. IsWellFoundedOn(R, FiniteSubsetsOf(S))
  BY FS_StrictSubsetOrderingWellFounded
<1>2. T \subseteq FiniteSubsetsOf(S) /\ T # {}
  <2>1. T \subseteq SUBSET S /\ T # {}
    OBVIOUS
  <2> HIDE DEF T
  <2> QED
    BY <2>1, FS_FiniteSubsetsOfFinite
<1>3. \E U \in T : \A V \in T : <<V, U>> \notin R
  <2> HIDE DEF R, T
  <2> QED
    BY <1>1, <1>2, WFMin
<1>4. PICK a \in S : \A b \in S : <<To(b), To(a)>> \notin R
  BY <1>3
<1>5. ASSUME NEW b \in S, ~(a <= b)
      PROVE  FALSE
  <2>1. a \in Nat /\ b \in Nat
    OBVIOUS
  <2>2. \A x \in S : x <= b => x <= a
    <3> TAKE x \in S
    <3>1. x \in Nat
      OBVIOUS
    <3> QED
      BY <1>5, <2>1, <3>1
  <2>3. a \in To(a) /\ a \notin To(b)
    BY <1>5, <2>1
  <2>4. To(b) \subseteq To(a) /\ To(b) # To(a) /\ To(a) \in SUBSET S /\ To(b) \in SUBSET S
    BY <2>2, <2>3
  <2>5. <<To(b), To(a)>> \in R
    <3> HIDE DEF To
    <3> QED
      BY <2>4 DEF StrictSubsetOrdering
  <2> QED
    BY <1>4, <2>5
<1>6. \E x \in S : \A y \in S : x <= y
  BY <1>5
<1> QED
  BY <1>6 DEF Min

\* The least and the greatest number of a part of a range.
LEMMA LeastInRange ==
  ASSUME NEW m \in Nat, NEW n \in Int, NEW S, S \subseteq m .. n, S # {}
  PROVE  Min(S) \in S /\ \A y \in S : Min(S) <= y
<1>1. IsFiniteSet(m .. n)
  BY FS_Interval
<1>2. S \in SUBSET Nat
  OBVIOUS
<1> QED
  BY <1>1, <1>2, FS_Subset, LeastExists

LEMMA GreatestInRange ==
  ASSUME NEW m \in Nat, NEW n \in Int, NEW S, S \subseteq m .. n, S # {}
  PROVE  Max(S) \in S /\ \A y \in S : y <= Max(S)
<1> DEFINE T == {n - y : y \in S}
           d == n - m
<1>a. ASSUME NEW y \in S PROVE n - y \in 0 .. d
  <2>1. y \in Nat /\ m <= y /\ y <= n
    OBVIOUS
  <2> QED
    BY <2>1
<1>0. T \subseteq 0 .. d /\ T # {}
  BY <1>a
<1>b. d \in Int /\ 0 \in Nat
  OBVIOUS
<1>1. Min(T) \in T /\ \A z \in T : Min(T) <= z
  <2> HIDE DEF T, d
  <2> QED
    BY <1>0, <1>b, LeastInRange
<1>2. PICK x \in S : Min(T) = n - x
  BY <1>1
<1>3. \A y \in S : n - y \in T
  OBVIOUS
<1>4. \A y \in S : n - x <= n - y
  BY <1>1, <1>2, <1>3
<1>5. \A y \in S : x >= y
  BY <1>4
<1> QED
  BY <1>5 DEF Max

\* Of two numbers.
LEMMA MaxOfTwo ==
  ASSUME NEW a \in Int, NEW b \in Int
  PROVE  Max({a, b}) = IF a >= b THEN a ELSE b
<1>1. \E x \in {a, b} : \A y \in {a, b} : x >= y
  OBVIOUS
<1>2. Max({a, b}) \in {a, b} /\ \A y \in {a, b} : Max({a, b}) >= y
  BY <1>1 DEF Max
<1> QED
  BY <1>2

LEMMA MinOfTwo ==
  ASSUME NEW a \in Int, NEW b \in Int
  PROVE  Min({a, b}) = IF a <= b THEN a ELSE b
<1>1. \E x \in {a, b} : \A y \in {a, b} : x <= y
  OBVIOUS
<1>2. Min({a, b}) \in {a, b} /\ \A y \in {a, b} : Min({a, b}) <= y
  BY <1>1 DEF Min
<1> QED
  BY <1>2

\* Induction up to n, for a set.
LEMMA UpTo ==
  ASSUME NEW n \in Nat, NEW S, 0 \in S, \A k \in 1 .. n : k - 1 \in S => k \in S
  PROVE  \A k \in 0 .. n : k \in S
<1> SUFFICES ASSUME {k \in 0 .. n : k \notin S} # {} PROVE FALSE
  OBVIOUS
<1> DEFINE T == {k \in 0 .. n : k \notin S}
<1>1. Min(T) \in T /\ \A y \in T : Min(T) <= y
  <2>1. T \subseteq 0 .. n /\ T # {} /\ n \in Int /\ 0 \in Nat
    OBVIOUS
  <2> HIDE DEF T
  <2> QED
    BY <2>1, LeastInRange
<1>2. Min(T) \in 1 .. n
  BY <1>1
<1>3. Min(T) - 1 \in 0 .. n /\ ~(Min(T) <= Min(T) - 1)
  BY <1>2
<1>4. Min(T) - 1 \in S
  BY <1>1, <1>3
<1> QED
  BY <1>1, <1>2, <1>4

\* What makes a recursive function of the values of a loop one that exists.
LEMMA FromBelow ==
  ASSUME NEW n \in Nat, NEW S, 0 \in S, \A m \in Nat : m \in S => m + 1 \in S
  PROVE  n \in S
<1>1. \A k \in 1 .. n : k - 1 \in S => k \in S
  <2> TAKE k \in 1 .. n
  <2>1. k - 1 \in Nat /\ (k - 1) + 1 = k
    OBVIOUS
  <2> QED
    BY <2>1
<1> QED
  BY <1>1, UpTo

-----------------------------------------------------------------------------
(* Each loop has a function f: f[k] is the state after k steps.            *)

\* Pop, len times.
LEMMA PopNSteps ==
  ASSUME NEW p, NEW len \in Nat
  PROVE  \E f : /\ f[0] = p
                /\ \A k \in 1 .. len : f[k] = Pop(f[k - 1])
                /\ PopN(p, len) = f[len]
<1> DEFINE n == len
           first == p
           Do(q, k) == Pop(q)
           Is(g, m) == g = [k \in 0 .. m |-> IF k = 0 THEN first ELSE Do(g[k - 1], k)]
           S == {m \in Nat : \E g : Is(g, m)}
<1>0. n \in Nat
  OBVIOUS
<1>1. 0 \in S
  <2>1. Is([k \in 0 .. 0 |-> first], 0)
    OBVIOUS
  <2> QED
    BY <2>1
<1>2. ASSUME NEW m \in Nat, m \in S PROVE m + 1 \in S
  <2>1. PICK g : Is(g, m)
    BY <1>2
  <2> DEFINE h == [k \in 0 .. m + 1 |-> IF k <= m THEN g[k] ELSE Do(g[m], m + 1)]
  <2> HIDE DEF Do, first
  <2>2. ASSUME NEW k \in 0 .. m + 1
        PROVE  h[k] = IF k = 0 THEN first ELSE Do(h[k - 1], k)
    <3>1. CASE k = 0
      BY <2>1, <3>1
    <3>2. CASE k \in 1 .. m
      <4>1. k - 1 \in 0 .. m + 1 /\ k - 1 <= m /\ k # 0 /\ k <= m /\ k \in 0 .. m
        BY <3>2
      <4> QED
        BY <2>1, <4>1
    <3>3. CASE k = m + 1
      <4>1. k - 1 = m /\ ~(k <= m) /\ k # 0 /\ m \in 0 .. m + 1 /\ m <= m
        BY <3>3
      <4> QED
        BY <3>3, <4>1
    <3> QED
      BY <3>1, <3>2, <3>3
  <2>3. Is(h, m + 1)
    BY <2>2
  <2>4. m + 1 \in Nat
    OBVIOUS
  <2> HIDE DEF h, Is
  <2> QED
    BY <2>3, <2>4
<1>3. n \in S
  <2> HIDE DEF S, n
  <2> QED
    BY <1>0, <1>1, <1>2, FromBelow
<1> DEFINE f == CHOOSE g : Is(g, n)
<1>4. Is(f, n)
  BY <1>3
<1>5. PopN(p, len) = f[n]
  BY DEF PopN, Iterate
<1>6. f[0] = first /\ \A k \in 1 .. n : f[k] = Do(f[k - 1], k)
  <2> HIDE DEF f, Do, first, n
  <2> QED
    BY <1>0, <1>4
<1> QED
  BY <1>5, <1>6

\* The results of a block, until a push fails.
LEMMA PushBlockResultsSteps ==
  ASSUME NEW p, NEW results, Len(results) \in Nat
  PROVE  \E f : /\ f[0] = p
                /\ \A k \in 1 .. Len(results) : f[k] = Then(f[k - 1], LAMBDA r : PushBlockResult(r, results, k))
                /\ PushBlockResults(p, results) = f[Len(results)]
<1> DEFINE n == Len(results)
           first == p
           Do(q, k) == Then(q, LAMBDA r : PushBlockResult(r, results, k))
           Is(g, m) == g = [k \in 0 .. m |-> IF k = 0 THEN first ELSE Do(g[k - 1], k)]
           S == {m \in Nat : \E g : Is(g, m)}
<1>0. n \in Nat
  OBVIOUS
<1>1. 0 \in S
  <2>1. Is([k \in 0 .. 0 |-> first], 0)
    OBVIOUS
  <2> QED
    BY <2>1
<1>2. ASSUME NEW m \in Nat, m \in S PROVE m + 1 \in S
  <2>1. PICK g : Is(g, m)
    BY <1>2
  <2> DEFINE h == [k \in 0 .. m + 1 |-> IF k <= m THEN g[k] ELSE Do(g[m], m + 1)]
  <2> HIDE DEF Do, first
  <2>2. ASSUME NEW k \in 0 .. m + 1
        PROVE  h[k] = IF k = 0 THEN first ELSE Do(h[k - 1], k)
    <3>1. CASE k = 0
      BY <2>1, <3>1
    <3>2. CASE k \in 1 .. m
      <4>1. k - 1 \in 0 .. m + 1 /\ k - 1 <= m /\ k # 0 /\ k <= m /\ k \in 0 .. m
        BY <3>2
      <4> QED
        BY <2>1, <4>1
    <3>3. CASE k = m + 1
      <4>1. k - 1 = m /\ ~(k <= m) /\ k # 0 /\ m \in 0 .. m + 1 /\ m <= m
        BY <3>3
      <4> QED
        BY <3>3, <4>1
    <3> QED
      BY <3>1, <3>2, <3>3
  <2>3. Is(h, m + 1)
    BY <2>2
  <2>4. m + 1 \in Nat
    OBVIOUS
  <2> HIDE DEF h, Is
  <2> QED
    BY <2>3, <2>4
<1>3. n \in S
  <2> HIDE DEF S, n
  <2> QED
    BY <1>0, <1>1, <1>2, FromBelow
<1> DEFINE f == CHOOSE g : Is(g, n)
<1>4. Is(f, n)
  BY <1>3
<1>5. PushBlockResults(p, results) = f[n]
  BY DEF PushBlockResults, Iterate
<1>6. f[0] = first /\ \A k \in 1 .. n : f[k] = Do(f[k - 1], k)
  <2> HIDE DEF f, Do, first, n
  <2> QED
    BY <1>0, <1>4
<1> QED
  BY <1>5, <1>6

\* Values copied to the slots of others.
LEMMA CopyStackSlotsSteps ==
  ASSUME NEW p, NEW target, NEW from, NEW len \in Nat
  PROVE  \E f : /\ f[0] = [o |-> p, temp |-> AlignSlotToType(p.maxSlots, "i64")]
                /\ \A k \in 1 .. len : f[k] = CopyNext(f[k - 1], target, from, len, k)
                /\ CopyStackSlots(p, target, from, len) = [f[len].o EXCEPT !.stack = p.stack]
<1> DEFINE n == len
           first == [o |-> p, temp |-> AlignSlotToType(p.maxSlots, "i64")]
           Do(q, k) == CopyNext(q, target, from, len, k)
           Is(g, m) == g = [k \in 0 .. m |-> IF k = 0 THEN first ELSE Do(g[k - 1], k)]
           S == {m \in Nat : \E g : Is(g, m)}
<1>0. n \in Nat
  OBVIOUS
<1>1. 0 \in S
  <2>1. Is([k \in 0 .. 0 |-> first], 0)
    OBVIOUS
  <2> QED
    BY <2>1
<1>2. ASSUME NEW m \in Nat, m \in S PROVE m + 1 \in S
  <2>1. PICK g : Is(g, m)
    BY <1>2
  <2> DEFINE h == [k \in 0 .. m + 1 |-> IF k <= m THEN g[k] ELSE Do(g[m], m + 1)]
  <2> HIDE DEF Do, first
  <2>2. ASSUME NEW k \in 0 .. m + 1
        PROVE  h[k] = IF k = 0 THEN first ELSE Do(h[k - 1], k)
    <3>1. CASE k = 0
      BY <2>1, <3>1
    <3>2. CASE k \in 1 .. m
      <4>1. k - 1 \in 0 .. m + 1 /\ k - 1 <= m /\ k # 0 /\ k <= m /\ k \in 0 .. m
        BY <3>2
      <4> QED
        BY <2>1, <4>1
    <3>3. CASE k = m + 1
      <4>1. k - 1 = m /\ ~(k <= m) /\ k # 0 /\ m \in 0 .. m + 1 /\ m <= m
        BY <3>3
      <4> QED
        BY <3>3, <4>1
    <3> QED
      BY <3>1, <3>2, <3>3
  <2>3. Is(h, m + 1)
    BY <2>2
  <2>4. m + 1 \in Nat
    OBVIOUS
  <2> HIDE DEF h, Is
  <2> QED
    BY <2>3, <2>4
<1>3. n \in S
  <2> HIDE DEF S, n
  <2> QED
    BY <1>0, <1>1, <1>2, FromBelow
<1> DEFINE f == CHOOSE g : Is(g, n)
<1>4. Is(f, n)
  BY <1>3
<1>5. CopyStackSlots(p, target, from, len) = [f[n].o EXCEPT !.stack = p.stack]
  BY DEF CopyStackSlots, Iterate
<1>6. f[0] = first /\ \A k \in 1 .. n : f[k] = Do(f[k - 1], k)
  <2> HIDE DEF f, Do, first, n
  <2> QED
    BY <1>0, <1>4
<1> QED
  BY <1>5, <1>6

\* The results of the function, in their slots.
LEMMA ReturnValuesSteps ==
  ASSUME NEW p, NEW len \in Nat, ~(BlockHeight(p) < len)
  PROVE  \E f : /\ f[0] = p
                /\ \A k \in 1 .. len : f[k] = ReturnValue(f[k - 1], len, k)
                /\ ReturnValues(p, len) = f[len]
<1> DEFINE n == len
           first == p
           Do(q, k) == ReturnValue(q, len, k)
           Is(g, m) == g = [k \in 0 .. m |-> IF k = 0 THEN first ELSE Do(g[k - 1], k)]
           S == {m \in Nat : \E g : Is(g, m)}
<1>0. n \in Nat
  OBVIOUS
<1>1. 0 \in S
  <2>1. Is([k \in 0 .. 0 |-> first], 0)
    OBVIOUS
  <2> QED
    BY <2>1
<1>2. ASSUME NEW m \in Nat, m \in S PROVE m + 1 \in S
  <2>1. PICK g : Is(g, m)
    BY <1>2
  <2> DEFINE h == [k \in 0 .. m + 1 |-> IF k <= m THEN g[k] ELSE Do(g[m], m + 1)]
  <2> HIDE DEF Do, first
  <2>2. ASSUME NEW k \in 0 .. m + 1
        PROVE  h[k] = IF k = 0 THEN first ELSE Do(h[k - 1], k)
    <3>1. CASE k = 0
      BY <2>1, <3>1
    <3>2. CASE k \in 1 .. m
      <4>1. k - 1 \in 0 .. m + 1 /\ k - 1 <= m /\ k # 0 /\ k <= m /\ k \in 0 .. m
        BY <3>2
      <4> QED
        BY <2>1, <4>1
    <3>3. CASE k = m + 1
      <4>1. k - 1 = m /\ ~(k <= m) /\ k # 0 /\ m \in 0 .. m + 1 /\ m <= m
        BY <3>3
      <4> QED
        BY <3>3, <4>1
    <3> QED
      BY <3>1, <3>2, <3>3
  <2>3. Is(h, m + 1)
    BY <2>2
  <2>4. m + 1 \in Nat
    OBVIOUS
  <2> HIDE DEF h, Is
  <2> QED
    BY <2>3, <2>4
<1>3. n \in S
  <2> HIDE DEF S, n
  <2> QED
    BY <1>0, <1>1, <1>2, FromBelow
<1> DEFINE f == CHOOSE g : Is(g, n)
<1>4. Is(f, n)
  BY <1>3
<1>5. ReturnValues(p, len) = f[n]
  BY DEF ReturnValues, Iterate
<1>6. f[0] = first /\ \A k \in 1 .. n : f[k] = Do(f[k - 1], k)
  <2> HIDE DEF f, Do, first, n
  <2> QED
    BY <1>0, <1>4
<1> QED
  BY <1>5, <1>6

\* The parameters of a block.
LEMMA PushAgainSteps ==
  ASSUME NEW p, NEW stack, NEW exit, NEW params, Len(params) \in Nat
  PROVE  \E f : /\ f[0] = p
                /\ \A k \in 1 .. Len(params) : f[k] = PushParam(f[k - 1], params[k], stack[exit + k].slot)
                /\ PushAgain(p, stack, exit, params) = f[Len(params)]
<1> DEFINE n == Len(params)
           first == p
           Do(q, k) == PushParam(q, params[k], stack[exit + k].slot)
           Is(g, m) == g = [k \in 0 .. m |-> IF k = 0 THEN first ELSE Do(g[k - 1], k)]
           S == {m \in Nat : \E g : Is(g, m)}
<1>0. n \in Nat
  OBVIOUS
<1>1. 0 \in S
  <2>1. Is([k \in 0 .. 0 |-> first], 0)
    OBVIOUS
  <2> QED
    BY <2>1
<1>2. ASSUME NEW m \in Nat, m \in S PROVE m + 1 \in S
  <2>1. PICK g : Is(g, m)
    BY <1>2
  <2> DEFINE h == [k \in 0 .. m + 1 |-> IF k <= m THEN g[k] ELSE Do(g[m], m + 1)]
  <2> HIDE DEF Do, first
  <2>2. ASSUME NEW k \in 0 .. m + 1
        PROVE  h[k] = IF k = 0 THEN first ELSE Do(h[k - 1], k)
    <3>1. CASE k = 0
      BY <2>1, <3>1
    <3>2. CASE k \in 1 .. m
      <4>1. k - 1 \in 0 .. m + 1 /\ k - 1 <= m /\ k # 0 /\ k <= m /\ k \in 0 .. m
        BY <3>2
      <4> QED
        BY <2>1, <4>1
    <3>3. CASE k = m + 1
      <4>1. k - 1 = m /\ ~(k <= m) /\ k # 0 /\ m \in 0 .. m + 1 /\ m <= m
        BY <3>3
      <4> QED
        BY <3>3, <4>1
    <3> QED
      BY <3>1, <3>2, <3>3
  <2>3. Is(h, m + 1)
    BY <2>2
  <2>4. m + 1 \in Nat
    OBVIOUS
  <2> HIDE DEF h, Is
  <2> QED
    BY <2>3, <2>4
<1>3. n \in S
  <2> HIDE DEF S, n
  <2> QED
    BY <1>0, <1>1, <1>2, FromBelow
<1> DEFINE f == CHOOSE g : Is(g, n)
<1>4. Is(f, n)
  BY <1>3
<1>5. PushAgain(p, stack, exit, params) = f[n]
  BY DEF PushAgain, Iterate
<1>6. f[0] = first /\ \A k \in 1 .. n : f[k] = Do(f[k - 1], k)
  <2> HIDE DEF f, Do, first, n
  <2> QED
    BY <1>0, <1>4
<1> QED
  BY <1>5, <1>6

\* The arguments of a call, from the last.
LEMMA CopyArgsSteps ==
  ASSUME NEW p, NEW frame, NEW args \in Nat, NEW rets
  PROVE  \E f : /\ f[0] = p
                /\ \A k \in 1 .. args : f[k] = CopyArg(f[k - 1], ArgSlot(frame, args, rets, k))
                /\ CopyArgs(p, frame, args, rets) = f[args]
<1> DEFINE n == args
           first == p
           Do(q, k) == CopyArg(q, ArgSlot(frame, args, rets, k))
           Is(g, m) == g = [k \in 0 .. m |-> IF k = 0 THEN first ELSE Do(g[k - 1], k)]
           S == {m \in Nat : \E g : Is(g, m)}
<1>0. n \in Nat
  OBVIOUS
<1>1. 0 \in S
  <2>1. Is([k \in 0 .. 0 |-> first], 0)
    OBVIOUS
  <2> QED
    BY <2>1
<1>2. ASSUME NEW m \in Nat, m \in S PROVE m + 1 \in S
  <2>1. PICK g : Is(g, m)
    BY <1>2
  <2> DEFINE h == [k \in 0 .. m + 1 |-> IF k <= m THEN g[k] ELSE Do(g[m], m + 1)]
  <2> HIDE DEF Do, first
  <2>2. ASSUME NEW k \in 0 .. m + 1
        PROVE  h[k] = IF k = 0 THEN first ELSE Do(h[k - 1], k)
    <3>1. CASE k = 0
      BY <2>1, <3>1
    <3>2. CASE k \in 1 .. m
      <4>1. k - 1 \in 0 .. m + 1 /\ k - 1 <= m /\ k # 0 /\ k <= m /\ k \in 0 .. m
        BY <3>2
      <4> QED
        BY <2>1, <4>1
    <3>3. CASE k = m + 1
      <4>1. k - 1 = m /\ ~(k <= m) /\ k # 0 /\ m \in 0 .. m + 1 /\ m <= m
        BY <3>3
      <4> QED
        BY <3>3, <4>1
    <3> QED
      BY <3>1, <3>2, <3>3
  <2>3. Is(h, m + 1)
    BY <2>2
  <2>4. m + 1 \in Nat
    OBVIOUS
  <2> HIDE DEF h, Is
  <2> QED
    BY <2>3, <2>4
<1>3. n \in S
  <2> HIDE DEF S, n
  <2> QED
    BY <1>0, <1>1, <1>2, FromBelow
<1> DEFINE f == CHOOSE g : Is(g, n)
<1>4. Is(f, n)
  BY <1>3
<1>5. CopyArgs(p, frame, args, rets) = f[n]
  BY DEF CopyArgs, Iterate
<1>6. f[0] = first /\ \A k \in 1 .. n : f[k] = Do(f[k - 1], k)
  <2> HIDE DEF f, Do, first, n
  <2> QED
    BY <1>0, <1>4
<1> QED
  BY <1>5, <1>6

\* The results of a call.
LEMMA PushRetsSteps ==
  ASSUME NEW p, NEW frame, NEW rets, Len(rets) \in Nat
  PROVE  \E f : /\ f[0] = p
                /\ \A k \in 1 .. Len(rets) : f[k] = PushRet(f[k - 1], rets[k], frame + 2 * (k - 1))
                /\ PushRets(p, frame, rets) = f[Len(rets)]
<1> DEFINE n == Len(rets)
           first == p
           Do(q, k) == PushRet(q, rets[k], frame + 2 * (k - 1))
           Is(g, m) == g = [k \in 0 .. m |-> IF k = 0 THEN first ELSE Do(g[k - 1], k)]
           S == {m \in Nat : \E g : Is(g, m)}
<1>0. n \in Nat
  OBVIOUS
<1>1. 0 \in S
  <2>1. Is([k \in 0 .. 0 |-> first], 0)
    OBVIOUS
  <2> QED
    BY <2>1
<1>2. ASSUME NEW m \in Nat, m \in S PROVE m + 1 \in S
  <2>1. PICK g : Is(g, m)
    BY <1>2
  <2> DEFINE h == [k \in 0 .. m + 1 |-> IF k <= m THEN g[k] ELSE Do(g[m], m + 1)]
  <2> HIDE DEF Do, first
  <2>2. ASSUME NEW k \in 0 .. m + 1
        PROVE  h[k] = IF k = 0 THEN first ELSE Do(h[k - 1], k)
    <3>1. CASE k = 0
      BY <2>1, <3>1
    <3>2. CASE k \in 1 .. m
      <4>1. k - 1 \in 0 .. m + 1 /\ k - 1 <= m /\ k # 0 /\ k <= m /\ k \in 0 .. m
        BY <3>2
      <4> QED
        BY <2>1, <4>1
    <3>3. CASE k = m + 1
      <4>1. k - 1 = m /\ ~(k <= m) /\ k # 0 /\ m \in 0 .. m + 1 /\ m <= m
        BY <3>3
      <4> QED
        BY <3>3, <4>1
    <3> QED
      BY <3>1, <3>2, <3>3
  <2>3. Is(h, m + 1)
    BY <2>2
  <2>4. m + 1 \in Nat
    OBVIOUS
  <2> HIDE DEF h, Is
  <2> QED
    BY <2>3, <2>4
<1>3. n \in S
  <2> HIDE DEF S, n
  <2> QED
    BY <1>0, <1>1, <1>2, FromBelow
<1> DEFINE f == CHOOSE g : Is(g, n)
<1>4. Is(f, n)
  BY <1>3
<1>5. PushRets(p, frame, rets) = f[n]
  BY DEF PushRets, Iterate
<1>6. f[0] = first /\ \A k \in 1 .. n : f[k] = Do(f[k - 1], k)
  <2> HIDE DEF f, Do, first, n
  <2> QED
    BY <1>0, <1>4
<1> QED
  BY <1>5, <1>6

\* The locals, before a block.
LEMMA PreserveLocalsSteps ==
  ASSUME NEW p
  PROVE  \E f : /\ f[0] = p
                /\ \A k \in 1 .. NumLocals : f[k] = Then(f[k - 1], LAMBDA r : PreserveLocal(r, k))
                /\ PreserveArgsAndLocals(p) = f[NumLocals]
<1> DEFINE n == NumLocals
           first == p
           Do(q, k) == Then(q, LAMBDA r : PreserveLocal(r, k))
           Is(g, m) == g = [k \in 0 .. m |-> IF k = 0 THEN first ELSE Do(g[k - 1], k)]
           S == {m \in Nat : \E g : Is(g, m)}
<1>0. n \in Nat
  BY Numbers
<1>1. 0 \in S
  <2>1. Is([k \in 0 .. 0 |-> first], 0)
    OBVIOUS
  <2> QED
    BY <2>1
<1>2. ASSUME NEW m \in Nat, m \in S PROVE m + 1 \in S
  <2>1. PICK g : Is(g, m)
    BY <1>2
  <2> DEFINE h == [k \in 0 .. m + 1 |-> IF k <= m THEN g[k] ELSE Do(g[m], m + 1)]
  <2> HIDE DEF Do, first
  <2>2. ASSUME NEW k \in 0 .. m + 1
        PROVE  h[k] = IF k = 0 THEN first ELSE Do(h[k - 1], k)
    <3>1. CASE k = 0
      BY <2>1, <3>1
    <3>2. CASE k \in 1 .. m
      <4>1. k - 1 \in 0 .. m + 1 /\ k - 1 <= m /\ k # 0 /\ k <= m /\ k \in 0 .. m
        BY <3>2
      <4> QED
        BY <2>1, <4>1
    <3>3. CASE k = m + 1
      <4>1. k - 1 = m /\ ~(k <= m) /\ k # 0 /\ m \in 0 .. m + 1 /\ m <= m
        BY <3>3
      <4> QED
        BY <3>3, <4>1
    <3> QED
      BY <3>1, <3>2, <3>3
  <2>3. Is(h, m + 1)
    BY <2>2
  <2>4. m + 1 \in Nat
    OBVIOUS
  <2> HIDE DEF h, Is
  <2> QED
    BY <2>3, <2>4
<1>3. n \in S
  <2> HIDE DEF S, n
  <2> QED
    BY <1>0, <1>1, <1>2, FromBelow
<1> DEFINE f == CHOOSE g : Is(g, n)
<1>4. Is(f, n)
  BY <1>3
<1>5. PreserveArgsAndLocals(p) = f[n]
  BY DEF PreserveArgsAndLocals, Iterate
<1>6. f[0] = first /\ \A k \in 1 .. n : f[k] = Do(f[k - 1], k)
  <2> HIDE DEF f, Do, first, n
  <2> QED
    BY <1>0, <1>4
<1> QED
  BY <1>5, <1>6

\* The parameters of a loop, before it.
LEMMA InstantiateSteps ==
  ASSUME NEW p, NEW len \in Nat
  PROVE  \E f : /\ f[0] = p
                /\ \A k \in 1 .. len : f[k] = Then(f[k - 1], LAMBDA r : Instantiate(r, Len(p.stack) - len + k))
                /\ InstantiateConstants(p, len) = f[len]
<1> DEFINE n == len
           first == p
           Do(q, k) == Then(q, LAMBDA r : Instantiate(r, Len(p.stack) - len + k))
           Is(g, m) == g = [k \in 0 .. m |-> IF k = 0 THEN first ELSE Do(g[k - 1], k)]
           S == {m \in Nat : \E g : Is(g, m)}
<1>0. n \in Nat
  OBVIOUS
<1>1. 0 \in S
  <2>1. Is([k \in 0 .. 0 |-> first], 0)
    OBVIOUS
  <2> QED
    BY <2>1
<1>2. ASSUME NEW m \in Nat, m \in S PROVE m + 1 \in S
  <2>1. PICK g : Is(g, m)
    BY <1>2
  <2> DEFINE h == [k \in 0 .. m + 1 |-> IF k <= m THEN g[k] ELSE Do(g[m], m + 1)]
  <2> HIDE DEF Do, first
  <2>2. ASSUME NEW k \in 0 .. m + 1
        PROVE  h[k] = IF k = 0 THEN first ELSE Do(h[k - 1], k)
    <3>1. CASE k = 0
      BY <2>1, <3>1
    <3>2. CASE k \in 1 .. m
      <4>1. k - 1 \in 0 .. m + 1 /\ k - 1 <= m /\ k # 0 /\ k <= m /\ k \in 0 .. m
        BY <3>2
      <4> QED
        BY <2>1, <4>1
    <3>3. CASE k = m + 1
      <4>1. k - 1 = m /\ ~(k <= m) /\ k # 0 /\ m \in 0 .. m + 1 /\ m <= m
        BY <3>3
      <4> QED
        BY <3>3, <4>1
    <3> QED
      BY <3>1, <3>2, <3>3
  <2>3. Is(h, m + 1)
    BY <2>2
  <2>4. m + 1 \in Nat
    OBVIOUS
  <2> HIDE DEF h, Is
  <2> QED
    BY <2>3, <2>4
<1>3. n \in S
  <2> HIDE DEF S, n
  <2> QED
    BY <1>0, <1>1, <1>2, FromBelow
<1> DEFINE f == CHOOSE g : Is(g, n)
<1>4. Is(f, n)
  BY <1>3
<1>5. InstantiateConstants(p, len) = f[n]
  BY DEF InstantiateConstants, Iterate
<1>6. f[0] = first /\ \A k \in 1 .. n : f[k] = Do(f[k - 1], k)
  <2> HIDE DEF f, Do, first, n
  <2> QED
    BY <1>0, <1>4
<1> QED
  BY <1>5, <1>6

\* The arguments of the function.
LEMMA PushArgsSteps ==
  \E f : /\ f[0] = Start
         /\ \A k \in 1 .. Len(ArgTypes) : f[k] = PushArg(f[k - 1], ArgTypes[k])
         /\ WithArgs = [f[Len(ArgTypes)] EXCEPT !.top = f[Len(ArgTypes)].firstDynamic]
<1> DEFINE n == Len(ArgTypes)
           first == Start
           Do(q, k) == PushArg(q, ArgTypes[k])
           Is(g, m) == g = [k \in 0 .. m |-> IF k = 0 THEN first ELSE Do(g[k - 1], k)]
           S == {m \in Nat : \E g : Is(g, m)}
<1>0. n \in Nat
  BY Numbers
<1>1. 0 \in S
  <2>1. Is([k \in 0 .. 0 |-> first], 0)
    OBVIOUS
  <2> QED
    BY <2>1
<1>2. ASSUME NEW m \in Nat, m \in S PROVE m + 1 \in S
  <2>1. PICK g : Is(g, m)
    BY <1>2
  <2> DEFINE h == [k \in 0 .. m + 1 |-> IF k <= m THEN g[k] ELSE Do(g[m], m + 1)]
  <2> HIDE DEF Do, first
  <2>2. ASSUME NEW k \in 0 .. m + 1
        PROVE  h[k] = IF k = 0 THEN first ELSE Do(h[k - 1], k)
    <3>1. CASE k = 0
      BY <2>1, <3>1
    <3>2. CASE k \in 1 .. m
      <4>1. k - 1 \in 0 .. m + 1 /\ k - 1 <= m /\ k # 0 /\ k <= m /\ k \in 0 .. m
        BY <3>2
      <4> QED
        BY <2>1, <4>1
    <3>3. CASE k = m + 1
      <4>1. k - 1 = m /\ ~(k <= m) /\ k # 0 /\ m \in 0 .. m + 1 /\ m <= m
        BY <3>3
      <4> QED
        BY <3>3, <4>1
    <3> QED
      BY <3>1, <3>2, <3>3
  <2>3. Is(h, m + 1)
    BY <2>2
  <2>4. m + 1 \in Nat
    OBVIOUS
  <2> HIDE DEF h, Is
  <2> QED
    BY <2>3, <2>4
<1>3. n \in S
  <2> HIDE DEF S, n
  <2> QED
    BY <1>0, <1>1, <1>2, FromBelow
<1> DEFINE f == CHOOSE g : Is(g, n)
<1>4. Is(f, n)
  BY <1>3
<1>5. WithArgs = [f[n] EXCEPT !.top = f[n].firstDynamic]
  BY DEF WithArgs, Iterate
<1>6. f[0] = first /\ \A k \in 1 .. n : f[k] = Do(f[k - 1], k)
  <2> HIDE DEF f, Do, first, n
  <2> QED
    BY <1>0, <1>4
<1> QED
  BY <1>5, <1>6

\* Its other locals.
LEMMA PushLocalsSteps ==
  \E f : /\ f[0] = WithArgs
         /\ \A k \in 1 .. Len(LocalTypes) : f[k] = PushLocal(f[k - 1], LocalTypes[k])
         /\ WithLocals = f[Len(LocalTypes)]
<1> DEFINE n == Len(LocalTypes)
           first == WithArgs
           Do(q, k) == PushLocal(q, LocalTypes[k])
           Is(g, m) == g = [k \in 0 .. m |-> IF k = 0 THEN first ELSE Do(g[k - 1], k)]
           S == {m \in Nat : \E g : Is(g, m)}
<1>0. n \in Nat
  BY Numbers
<1>1. 0 \in S
  <2>1. Is([k \in 0 .. 0 |-> first], 0)
    OBVIOUS
  <2> QED
    BY <2>1
<1>2. ASSUME NEW m \in Nat, m \in S PROVE m + 1 \in S
  <2>1. PICK g : Is(g, m)
    BY <1>2
  <2> DEFINE h == [k \in 0 .. m + 1 |-> IF k <= m THEN g[k] ELSE Do(g[m], m + 1)]
  <2> HIDE DEF Do, first
  <2>2. ASSUME NEW k \in 0 .. m + 1
        PROVE  h[k] = IF k = 0 THEN first ELSE Do(h[k - 1], k)
    <3>1. CASE k = 0
      BY <2>1, <3>1
    <3>2. CASE k \in 1 .. m
      <4>1. k - 1 \in 0 .. m + 1 /\ k - 1 <= m /\ k # 0 /\ k <= m /\ k \in 0 .. m
        BY <3>2
      <4> QED
        BY <2>1, <4>1
    <3>3. CASE k = m + 1
      <4>1. k - 1 = m /\ ~(k <= m) /\ k # 0 /\ m \in 0 .. m + 1 /\ m <= m
        BY <3>3
      <4> QED
        BY <3>3, <4>1
    <3> QED
      BY <3>1, <3>2, <3>3
  <2>3. Is(h, m + 1)
    BY <2>2
  <2>4. m + 1 \in Nat
    OBVIOUS
  <2> HIDE DEF h, Is
  <2> QED
    BY <2>3, <2>4
<1>3. n \in S
  <2> HIDE DEF S, n
  <2> QED
    BY <1>0, <1>1, <1>2, FromBelow
<1> DEFINE f == CHOOSE g : Is(g, n)
<1>4. Is(f, n)
  BY <1>3
<1>5. WithLocals = f[n]
  BY DEF WithLocals, Iterate
<1>6. f[0] = first /\ \A k \in 1 .. n : f[k] = Do(f[k - 1], k)
  <2> HIDE DEF f, Do, first, n
  <2> QED
    BY <1>0, <1>4
<1> QED
  BY <1>5, <1>6

-----------------------------------------------------------------------------
(* The stack: an item comes, goes, or moves                                *)

\* A value in slots is not in a register.
LEMMA ItemFacts ==
  /\ \A x \in Item : /\ x.slot \in Nat /\ x.type \in ValueType
                     /\ InSlots(x) => x.slot \notin Registers /\ x.slot < MaxFunctionSlots
  /\ \A t : RegisterOf(t) \in Registers /\ RegisterOf(t) >= MaxFunctionSlots
<1>1. \A x \in Item : /\ x.slot \in Nat /\ x.type \in ValueType
                      /\ InSlots(x) => x.slot \notin Registers /\ x.slot < MaxFunctionSlots
  <2> TAKE x \in Item
  <2>1. x.slot \in Nat /\ x.type \in ValueType
    BY DEF Item
  <2>2. GetTypeNumSlots(x.type) \in 1 .. 2
    BY Types
  <2> QED
    BY <2>1, <2>2, Numbers DEF InSlots
<1> QED
  BY <1>1, Numbers DEF RegisterOf

\* Exits and bases of the scopes ascend.
LEMMA ScopeFacts ==
  ASSUME NEW blocks, BlocksOk(blocks)
  PROVE  /\ Len(blocks) \in Nat /\ Len(blocks) >= 1 /\ Base(blocks) \in Nat
         /\ \A k \in 1 .. Len(blocks) :
              LET b == blocks[k] IN
              /\ b.exit \in Nat /\ b.base \in Nat
              /\ NumLocals <= b.exit /\ b.exit <= b.base /\ b.base <= Base(blocks)
              /\ b.type.params \in Seq(ValueType) /\ b.type.results \in Seq(ValueType)
<1>1. blocks \in Seq(Scope) /\ Len(blocks) \in Nat /\ Len(blocks) >= 1
  BY DEF BlocksOk
<1>2. \A k \in 1 .. Len(blocks) : blocks[k] \in Scope
  BY <1>1
<1>3. \A b \in Scope : /\ b.exit \in Nat /\ b.base \in Nat
                       /\ b.type.params \in Seq(ValueType) /\ b.type.results \in Seq(ValueType)
  <2> TAKE b \in Scope
  <2>1. b.exit \in Nat /\ b.base \in Nat
    BY DEF Scope
  <2>2. CASE b.type \in BlockTypes
    BY <2>1, <2>2, SignatureAssumption
  <2>3. CASE b.type = [params |-> <<>>, results |-> RetTypes]
    BY <2>1, <2>3, SignatureAssumption
  <2> QED
    BY <2>2, <2>3 DEF Scope
<1>4. \A k \in 2 .. Len(blocks) :
        /\ blocks[k].base = blocks[k].exit + Len(blocks[k].type.params) + Len(blocks[k].type.results)
        /\ \A j \in 1 .. k - 1 : blocks[j].base <= blocks[k].exit
  BY DEF BlocksOk
<1>5. blocks[1].exit = NumLocals /\ blocks[1].base = NumLocals
  BY DEF BlocksOk
<1>6. \A k \in 1 .. Len(blocks) : blocks[k].exit <= blocks[k].base /\ NumLocals <= blocks[k].exit
  <2> TAKE k \in 1 .. Len(blocks)
  <2>1. CASE k = 1
    BY <2>1, <1>5, Numbers
  <2>2. CASE k \in 2 .. Len(blocks)
    <3> DEFINE a == Len(blocks[k].type.params)
               c == Len(blocks[k].type.results)
    <3>1. a \in Nat /\ c \in Nat
      BY <1>2, <1>3
    <3>2. blocks[k].base = blocks[k].exit + a + c
      BY <1>4, <2>2
    <3>3. blocks[1].base <= blocks[k].exit
      BY <1>4, <2>2
    <3>4. blocks[k].exit \in Nat
      BY <1>2, <1>3
    <3> HIDE DEF a, c
    <3> QED
      BY <3>1, <3>2, <3>3, <3>4, <1>5, Numbers
  <2> QED
    BY <2>1, <2>2, <1>1
<1>7. \A k \in 1 .. Len(blocks) : blocks[k].base <= Base(blocks)
  <2> TAKE k \in 1 .. Len(blocks)
  <2>1. CASE k = Len(blocks)
    BY <2>1, <1>2, <1>3 DEF Base
  <2>2. CASE k \in 1 .. Len(blocks) - 1
    <3>1. Len(blocks) \in 2 .. Len(blocks) /\ Len(blocks) \in 1 .. Len(blocks)
      BY <2>2, <1>1
    <3>2. blocks[k].base <= blocks[Len(blocks)].exit
      BY <3>1, <1>4, <2>2
    <3> QED
      BY <3>1, <3>2, <1>6, <1>2, <1>3 DEF Base
  <2> QED
    BY <2>1, <2>2, <1>1
<1> QED
  BY <1>1, <1>2, <1>3, <1>6, <1>7 DEF Base

\* What lies below the innermost base does not change.
LEMMA BelowBase ==
  ASSUME NEW stack, NEW new, NEW blocks, BlocksOk(blocks),
         OnlyRecords(stack, blocks),
         \A k \in 2 .. Len(blocks) : RecordsOk(stack, blocks[k]),
         \A i \in 1 .. Base(blocks) : new[i] = stack[i]
  PROVE  /\ OnlyRecords(new, blocks)
         /\ \A k \in 2 .. Len(blocks) : RecordsOk(new, blocks[k])
<1>1. OnlyRecords(new, blocks)
  BY DEF OnlyRecords
<1>2. ASSUME NEW k \in 2 .. Len(blocks) PROVE RecordsOk(new, blocks[k])
  <2> DEFINE b == blocks[k]
             a == Len(b.type.params)
             c == Len(b.type.results)
  <2>1. /\ k \in 1 .. Len(blocks) /\ a \in Nat /\ c \in Nat /\ b.exit \in Nat
        /\ b.base <= Base(blocks) /\ Base(blocks) \in Nat
    BY ScopeFacts
  <2>2. b.base = b.exit + a + c
    BY DEF BlocksOk
  <2>3. \A j \in 1 .. a : b.exit + j \in 1 .. Base(blocks)
    <3> HIDE DEF b, a, c
    <3> QED
      BY <2>1, <2>2
  <2>4. \A j \in 1 .. c : b.exit + a + j \in 1 .. Base(blocks)
    <3> HIDE DEF b, a, c
    <3> QED
      BY <2>1, <2>2
  <2>5. RecordsOk(stack, b)
    OBVIOUS
  <2>6. \A j \in 1 .. a : new[b.exit + j].type = b.type.params[j] /\ InSlots(new[b.exit + j])
    BY <2>3, <2>5 DEF RecordsOk
  <2>7. \A j \in 1 .. c :
          /\ new[b.exit + a + j].type = b.type.results[j]
          /\ IF IsFpType(Last(b.type.results)) /\ j = c THEN new[b.exit + a + j].slot = Fp0
             ELSE InSlots(new[b.exit + a + j])
    BY <2>4, <2>5 DEF RecordsOk
  <2> QED
    BY <2>6, <2>7 DEF RecordsOk
<1> QED
  BY <1>1, <1>2

\* A value comes to slots.
LEMMA AppendItem ==
  ASSUME NEW stack, NEW reg, NEW blocks, NEW firstConst \in Nat,
         StackOk(stack), BlocksOk(blocks), Sound(stack, reg, blocks, firstConst),
         NEW x \in Item, InSlots(x),
         x.slot < firstConst => \E j \in 1 .. NumLocals : x = stack[j]
  PROVE  Sound(Append(stack, x), reg, blocks, firstConst)
<1> DEFINE new == Append(stack, x)
           n == Len(stack)
           base == Base(blocks)
<1>1. /\ n \in Nat /\ base \in Nat /\ base <= n /\ NumLocals \in Nat /\ NumLocals <= base
      /\ stack \in Seq(Item)
  <2>1. NumLocals <= base
    <3>1. 1 \in 1 .. Len(blocks)
      BY ScopeFacts
    <3> QED
      BY <3>1, ScopeFacts, Numbers
  <2> QED
    BY <2>1, ScopeFacts, Numbers DEF StackOk, Sound
<1>2. Len(new) = n + 1 /\ new[n + 1] = x /\ \A i \in 1 .. n : new[i] = stack[i]
  BY <1>1
<1>3. base <= Len(new)
  BY <1>1, <1>2
<1>4. x.slot \notin Registers
  BY ItemFacts
<1>5. RegistersOk(new, reg, base)
  <2>0. RegistersOk(stack, reg, base)
    BY DEF Sound
  <2> HIDE DEF new, n, base
  <2>1. ASSUME NEW r \in Registers, reg[r] # 0
        PROVE  reg[r] \in base + 1 .. Len(new) /\ new[reg[r]].slot = r
    <3>1. reg[r] \in base + 1 .. n /\ stack[reg[r]].slot = r
      BY <2>0, <2>1 DEF RegistersOk, n
    <3>2. reg[r] \in 1 .. n /\ reg[r] \in base + 1 .. n + 1
      BY <3>1, <1>1
    <3> QED
      BY <3>1, <3>2, <1>2
  <2>2. ASSUME NEW i \in base + 1 .. Len(new), new[i].slot \in Registers
        PROVE  reg[new[i].slot] = i
    <3>1. i # n + 1
      BY <2>2, <1>2, <1>4
    <3>2. i \in base + 1 .. n /\ i \in 1 .. n
      BY <3>1, <1>1, <1>2
    <3> QED
      BY <3>2, <2>0, <2>2, <1>2 DEF RegistersOk, n
  <2> QED
    BY <2>1, <2>2 DEF RegistersOk
<1>6. OnlyRecords(new, blocks) /\ \A k \in 2 .. Len(blocks) : RecordsOk(new, blocks[k])
  <2>1. \A i \in 1 .. Base(blocks) : new[i] = stack[i]
    <3> HIDE DEF new
    <3> QED
      BY <1>1, <1>2
  <2> HIDE DEF new
  <2> QED
    BY <2>1, BelowBase DEF Sound
<1>7. LocalsOk(new, firstConst)
  <2>0. LocalsOk(stack, firstConst)
    BY DEF Sound
  <2>a. \A i \in 1 .. NumLocals : i \in 1 .. n /\ new[i] = stack[i]
    <3> HIDE DEF new, n, base
    <3> QED
      BY <1>1, <1>2
  <2> HIDE DEF new, n, base
  <2>1. \A i \in 1 .. NumLocals : new[i].slot + GetTypeNumSlots(new[i].type) <= firstConst
    BY <2>0, <2>a DEF LocalsOk
  <2>2. \A i, j \in 1 .. NumLocals : new[i].slot = new[j].slot => i = j
    BY <2>0, <2>a DEF LocalsOk
  <2>3. ASSUME NEW i \in 1 .. Len(new), new[i].slot < firstConst
        PROVE  \E j \in 1 .. NumLocals : new[i] = new[j]
    <3>1. CASE i = n + 1
      BY <3>1, <2>3, <2>a, <1>2
    <3>2. CASE i # n + 1
      <4>1. i \in 1 .. n /\ new[i] = stack[i]
        BY <3>2, <1>1, <1>2
      <4>2. PICK j \in 1 .. NumLocals : stack[i] = stack[j]
        BY <4>1, <2>0, <2>3 DEF LocalsOk, n
      <4> QED
        BY <4>1, <4>2, <2>a
    <3> QED
      BY <3>1, <3>2
  <2> QED
    BY <2>1, <2>2, <2>3 DEF LocalsOk
<1> QED
  BY <1>3, <1>5, <1>6, <1>7 DEF Sound

\* Who is moved does not go where locals are.
LEMMA LocalsKept ==
  ASSUME NEW stack, NEW new, NEW firstConst, LocalsOk(stack, firstConst),
         \A i \in 1 .. NumLocals : new[i] = stack[i],
         \A i \in 1 .. Len(new) : new[i].slot < firstConst =>
           \/ i \in 1 .. Len(stack) /\ new[i] = stack[i]
           \/ \E j \in 1 .. NumLocals : new[i] = stack[j]
  PROVE  LocalsOk(new, firstConst)
<1>1. \A i \in 1 .. NumLocals : new[i].slot + GetTypeNumSlots(new[i].type) <= firstConst
  BY DEF LocalsOk
<1>2. \A i, j \in 1 .. NumLocals : new[i].slot = new[j].slot => i = j
  BY DEF LocalsOk
<1>3. ASSUME NEW i \in 1 .. Len(new), new[i].slot < firstConst
      PROVE  \E j \in 1 .. NumLocals : new[i] = new[j]
  <2>1. \E j \in 1 .. NumLocals : new[i] = stack[j]
    BY <1>3 DEF LocalsOk
  <2> QED
    BY <2>1
<1> QED
  BY <1>1, <1>2, <1>3 DEF LocalsOk

\* The numbers of a sound stack.
LEMMA StackFacts ==
  ASSUME NEW stack, NEW reg, NEW blocks, NEW firstConst,
         StackOk(stack), BlocksOk(blocks), Sound(stack, reg, blocks, firstConst)
  PROVE  /\ Len(stack) \in Nat /\ Base(blocks) \in Nat /\ NumLocals \in Nat
         /\ NumLocals <= Base(blocks) /\ Base(blocks) <= Len(stack)
         /\ stack \in Seq(Item) /\ DOMAIN stack = 1 .. Len(stack)
         /\ \A i \in 1 .. Len(stack) : stack[i] \in Item
<1>1. NumLocals <= Base(blocks)
  <2>1. 1 \in 1 .. Len(blocks)
    BY ScopeFacts
  <2>2. blocks[1].base <= Base(blocks)
    BY <2>1, ScopeFacts
  <2>3. blocks[1].base = NumLocals
    BY DEF BlocksOk
  <2> QED
    BY <2>2, <2>3
<1> QED
  BY <1>1, ScopeFacts, Numbers DEF StackOk, Sound

\* A value comes to a register that is free.
LEMMA AppendRegister ==
  ASSUME NEW stack, NEW reg \in [Registers -> 0 .. MaxStackHeight], NEW blocks,
         NEW firstConst \in Nat, firstConst <= MaxFunctionSlots,
         StackOk(stack), BlocksOk(blocks), Sound(stack, reg, blocks, firstConst),
         NEW x \in Item, x.slot \in Registers, reg[x.slot] = 0
  PROVE  Sound(Append(stack, x), [reg EXCEPT ![x.slot] = Len(stack) + 1], blocks, firstConst)
<1> DEFINE new == Append(stack, x)
           n == Len(stack)
           base == Base(blocks)
           after == [reg EXCEPT ![x.slot] = n + 1]
<1>1. /\ n \in Nat /\ base \in Nat /\ base <= n /\ NumLocals \in Nat /\ NumLocals <= base
      /\ stack \in Seq(Item)
  BY StackFacts
<1>2. Len(new) = n + 1 /\ new[n + 1] = x /\ \A i \in 1 .. n : new[i] = stack[i]
  BY <1>1
<1>3. base <= Len(new)
  BY <1>1, <1>2
<1>4. \A r \in Registers : after[r] = IF r = x.slot THEN n + 1 ELSE reg[r]
  OBVIOUS
<1>5. RegistersOk(new, after, base)
  <2>0. RegistersOk(stack, reg, base)
    BY DEF Sound
  <2> HIDE DEF new, n, base, after
  <2>1. ASSUME NEW r \in Registers, after[r] # 0
        PROVE  after[r] \in base + 1 .. Len(new) /\ new[after[r]].slot = r
    <3>1. CASE r = x.slot
      <4>1. after[r] = n + 1
        BY <3>1, <1>4
      <4> QED
        BY <4>1, <3>1, <1>1, <1>2
    <3>2. CASE r # x.slot
      <4>1. after[r] = reg[r]
        BY <3>2, <1>4
      <4>2. reg[r] \in base + 1 .. n /\ stack[reg[r]].slot = r
        BY <4>1, <2>0, <2>1 DEF RegistersOk, n
      <4>3. reg[r] \in 1 .. n /\ reg[r] \in base + 1 .. n + 1
        BY <4>2, <1>1
      <4> QED
        BY <4>1, <4>2, <4>3, <1>2
    <3> QED
      BY <3>1, <3>2
  <2>2. ASSUME NEW i \in base + 1 .. Len(new), new[i].slot \in Registers
        PROVE  after[new[i].slot] = i
    <3>1. CASE i = n + 1
      BY <3>1, <1>2, <1>4
    <3>2. CASE i # n + 1
      <4>1. i \in base + 1 .. n /\ i \in 1 .. n /\ i # 0
        BY <3>2, <1>1, <1>2
      <4>2. new[i] = stack[i]
        BY <4>1, <1>2
      <4>3. reg[stack[i].slot] = i
        BY <4>1, <4>2, <2>0, <2>2 DEF RegistersOk, n
      <4>4. stack[i].slot # x.slot
        BY <4>1, <4>3
      <4> QED
        BY <4>2, <4>3, <4>4, <2>2, <1>4
    <3> QED
      BY <3>1, <3>2
  <2> QED
    BY <2>1, <2>2 DEF RegistersOk
<1>6. OnlyRecords(new, blocks) /\ \A k \in 2 .. Len(blocks) : RecordsOk(new, blocks[k])
  <2>1. \A i \in 1 .. Base(blocks) : new[i] = stack[i]
    <3> HIDE DEF new
    <3> QED
      BY <1>1, <1>2
  <2> HIDE DEF new
  <2> QED
    BY <2>1, BelowBase DEF Sound
<1>7. LocalsOk(new, firstConst)
  <2>1. \A i \in 1 .. NumLocals : i \in 1 .. n /\ new[i] = stack[i]
    <3> HIDE DEF new, n, base
    <3> QED
      BY <1>1, <1>2
  <2>2. ~(x.slot < firstConst)
    <3>1. x.slot >= MaxFunctionSlots /\ x.slot \in Nat
      BY Numbers
    <3> QED
      BY <3>1, Numbers
  <2>3. \A i \in 1 .. Len(new) : new[i].slot < firstConst => i \in 1 .. Len(stack) /\ new[i] = stack[i]
    <3> TAKE i \in 1 .. Len(new)
    <3>1. CASE i = n + 1
      BY <3>1, <2>2, <1>2
    <3>2. CASE i # n + 1
      <4> HIDE DEF new
      <4> QED
        BY <3>2, <1>1, <1>2
    <3> QED
      BY <3>1, <3>2
  <2>4. LocalsOk(stack, firstConst)
    BY DEF Sound
  <2> HIDE DEF new, n
  <2> QED
    BY <2>1, <2>3, <2>4, LocalsKept
<1> QED
  BY <1>3, <1>5, <1>6, <1>7 DEF Sound

\* All but the last of a sequence.
LEMMA FrontFacts ==
  ASSUME NEW S, NEW s \in Seq(S), Len(s) >= 1
  PROVE  /\ Front(s) \in Seq(S) /\ Len(Front(s)) = Len(s) - 1
         /\ \A i \in 1 .. Len(s) - 1 : Front(s)[i] = s[i]
<1>1. Len(s) \in Nat /\ 1 \in 1 .. Len(s) + 1 /\ Len(s) - 1 \in 0 .. Len(s)
  OBVIOUS
<1> DEFINE m == Len(s) - 1
<1>2. SubSeq(s, 1, m) \in Seq(S) /\ Len(SubSeq(s, 1, m)) = m - 1 + 1
      /\ \A i \in 1 .. m - 1 + 1 : SubSeq(s, 1, m)[i] = s[1 + i - 1]
  <2>1. m \in 1 - 1 .. Len(s)
    BY <1>1
  <2> HIDE DEF m
  <2> QED
    BY <1>1, <2>1, SubSeqProperties
<1>3. m \in Nat /\ m - 1 + 1 = m
  BY <1>1
<1>4. \A i \in 1 .. m : SubSeq(s, 1, m)[i] = s[i]
  <2> TAKE i \in 1 .. m
  <2>1. 1 + i - 1 = i
    BY <1>3
  <2> HIDE DEF m
  <2> QED
    BY <2>1, <1>2, <1>3
<1> QED
  BY <1>2, <1>3, <1>4 DEF Front

\* A value of the innermost scope goes, and with it the use of its register.
LEMMA RemoveLast ==
  ASSUME NEW stack, NEW reg \in [Registers -> 0 .. MaxStackHeight], NEW blocks, NEW firstConst,
         StackOk(stack), BlocksOk(blocks), Sound(stack, reg, blocks, firstConst),
         Len(stack) > Base(blocks), NEW after,
         after = IF Last(stack).slot \in Registers THEN [reg EXCEPT ![Last(stack).slot] = 0] ELSE reg
  PROVE  Sound(Front(stack), after, blocks, firstConst)
<1> DEFINE new == Front(stack)
           n == Len(stack)
           base == Base(blocks)
           x == stack[n]
<1>1. /\ n \in Nat /\ base \in Nat /\ base <= n - 1 /\ NumLocals \in Nat /\ NumLocals <= base
      /\ stack \in Seq(Item)
  BY StackFacts
<1>2. Len(new) = n - 1 /\ \A i \in 1 .. n - 1 : new[i] = stack[i]
  BY <1>1, FrontFacts
<1>3. base <= Len(new)
  BY <1>1, <1>2
<1>4. \A r \in Registers : after[r] = IF r = x.slot THEN 0 ELSE reg[r]
  BY DEF Last
<1>5. RegistersOk(new, after, base)
  <2>0. RegistersOk(stack, reg, base)
    BY DEF Sound
  <2> HIDE DEF new, base
  <2>1. ASSUME NEW r \in Registers, after[r] # 0
        PROVE  after[r] \in base + 1 .. Len(new) /\ new[after[r]].slot = r
    <3>1. r # x.slot /\ after[r] = reg[r]
      BY <2>1, <1>4
    <3>2. reg[r] \in base + 1 .. n /\ stack[reg[r]].slot = r
      BY <3>1, <2>0, <2>1 DEF RegistersOk
    <3>3. reg[r] # n
      BY <3>1, <3>2
    <3>4. reg[r] \in 1 .. n - 1 /\ reg[r] \in base + 1 .. n - 1
      BY <3>2, <3>3, <1>1
    <3> QED
      BY <3>1, <3>2, <3>4, <1>2
  <2>2. ASSUME NEW i \in base + 1 .. Len(new), new[i].slot \in Registers
        PROVE  after[new[i].slot] = i
    <3>1. i \in base + 1 .. n /\ i \in 1 .. n - 1 /\ i # n /\ n \in base + 1 .. n
      BY <1>1, <1>2
    <3>2. new[i] = stack[i]
      BY <3>1, <1>2
    <3>3. reg[stack[i].slot] = i
      BY <3>1, <3>2, <2>0, <2>2 DEF RegistersOk
    <3>4. stack[i].slot # x.slot
      BY <3>1, <3>2, <3>3, <2>0, <2>2 DEF RegistersOk
    <3> QED
      BY <3>2, <3>3, <3>4, <2>2, <1>4
  <2> QED
    BY <2>1, <2>2 DEF RegistersOk
<1>6. OnlyRecords(new, blocks) /\ \A k \in 2 .. Len(blocks) : RecordsOk(new, blocks[k])
  <2>1. \A i \in 1 .. Base(blocks) : new[i] = stack[i]
    <3> HIDE DEF new
    <3> QED
      BY <1>1, <1>2
  <2> HIDE DEF new
  <2> QED
    BY <2>1, BelowBase DEF Sound
<1>7. LocalsOk(new, firstConst)
  <2>1. \A i \in 1 .. NumLocals : new[i] = stack[i]
    <3> HIDE DEF new, n, base
    <3> QED
      BY <1>1, <1>2
  <2>3. \A i \in 1 .. Len(new) : i \in 1 .. Len(stack) /\ new[i] = stack[i]
    <3> HIDE DEF new
    <3> QED
      BY <1>1, <1>2
  <2>4. LocalsOk(stack, firstConst)
    BY DEF Sound
  <2> HIDE DEF new, n
  <2> QED
    BY <2>1, <2>3, <2>4, LocalsKept
<1> QED
  BY <1>3, <1>5, <1>6, <1>7 DEF Sound

\* Items other than locals go to a slot that is not that of a local.
LEMMA MoveItems ==
  ASSUME NEW stack, NEW reg \in [Registers -> 0 .. MaxStackHeight], NEW blocks,
         NEW firstConst \in Nat,
         StackOk(stack), BlocksOk(blocks), Sound(stack, reg, blocks, firstConst),
         NEW J, J \subseteq NumLocals + 1 .. Len(stack), NEW slot \in Nat, slot >= firstConst,
         \A j \in J : slot + GetTypeNumSlots(stack[j].type) <= MaxFunctionSlots,
         \A j \in J : stack[j].slot \in Registers => j > Base(blocks),
         NEW after, \A r \in Registers : after[r] = IF reg[r] \in J THEN 0 ELSE reg[r]
  PROVE  Sound(Redirected(stack, J, slot), after, blocks, firstConst)
<1> DEFINE new == [j \in DOMAIN stack |-> IF j \in J THEN [stack[j] EXCEPT !.slot = slot] ELSE stack[j]]
           n == Len(stack)
           base == Base(blocks)
<1>1. /\ n \in Nat /\ base \in Nat /\ base <= n /\ NumLocals \in Nat /\ NumLocals <= base
      /\ stack \in Seq(Item) /\ DOMAIN stack = 1 .. n /\ \A i \in 1 .. n : stack[i] \in Item
  BY StackFacts
<1>2. new \in Seq(Item) /\ Len(new) = n
  <2>1. \A j \in 1 .. n : new[j] \in Item
    BY <1>1 DEF Item
  <2>2. DOMAIN new = 1 .. n
    BY <1>1
  <2>a. new = [j \in 1 .. n |-> new[j]]
    BY <2>2
  <2> HIDE DEF new, n
  <2>3. new \in [1 .. n -> Item]
    BY <2>1, <2>a
  <2> QED
    BY <2>3, <1>1
<1>3. \A j \in 1 .. n : /\ new[j].type = stack[j].type
                        /\ new[j].slot = IF j \in J THEN slot ELSE stack[j].slot
                        /\ j \notin J => new[j] = stack[j]
  BY <1>1 DEF Item
<1>4. \A j \in J : InSlots(new[j]) /\ new[j].slot \notin Registers /\ j \in 1 .. n
  <2> TAKE j \in J
  <2>1. j \in 1 .. n
    BY <1>1
  <2>2. InSlots(new[j])
    BY <2>1, <1>3 DEF InSlots
  <2>3. new[j] \in Item
    <3> HIDE DEF new
    <3> QED
      BY <2>1, <1>2
  <2> HIDE DEF new
  <2> QED
    BY <2>1, <2>2, <2>3, ItemFacts
<1> HIDE DEF new
<1>5. RegistersOk(new, after, base)
  <2>0. RegistersOk(stack, reg, base)
    BY DEF Sound
  <2> HIDE DEF base
  <2>1. ASSUME NEW r \in Registers, after[r] # 0
        PROVE  after[r] \in base + 1 .. Len(new) /\ new[after[r]].slot = r
    <3>1. reg[r] \notin J /\ after[r] = reg[r]
      BY <2>1
    <3>2. reg[r] \in base + 1 .. n /\ stack[reg[r]].slot = r
      BY <3>1, <2>0, <2>1 DEF RegistersOk
    <3>3. reg[r] \in 1 .. n
      BY <3>2, <1>1
    <3> QED
      BY <3>1, <3>2, <3>3, <1>2, <1>3
  <2>2. ASSUME NEW i \in base + 1 .. Len(new), new[i].slot \in Registers
        PROVE  after[new[i].slot] = i
    <3>1. i \in base + 1 .. n /\ i \in 1 .. n
      BY <1>1, <1>2
    <3>2. i \notin J /\ new[i] = stack[i]
      BY <3>1, <1>3, <1>4, <2>2
    <3>3. reg[stack[i].slot] = i
      BY <3>1, <3>2, <2>0, <2>2 DEF RegistersOk
    <3> QED
      BY <3>2, <3>3, <2>2
  <2> QED
    BY <2>1, <2>2 DEF RegistersOk
<1>6. OnlyRecords(new, blocks)
  <2>1. \A i \in 1 .. base : i \in 1 .. n
    BY <1>1
  <2>2. \A i \in 1 .. base : new[i].slot \in Registers => stack[i].slot \in Registers
    BY <2>1, <1>3, <1>4
  <2> QED
    BY <2>2 DEF OnlyRecords, Sound
<1>7. ASSUME NEW k \in 2 .. Len(blocks) PROVE RecordsOk(new, blocks[k])
  <2> DEFINE b == blocks[k]
             a == Len(b.type.params)
             c == Len(b.type.results)
  <2>1. /\ k \in 1 .. Len(blocks) /\ a \in Nat /\ c \in Nat /\ b.exit \in Nat
        /\ b.base <= base
    BY ScopeFacts
  <2>2. b.base = b.exit + a + c
    BY DEF BlocksOk
  <2>3. \A j \in 1 .. a : b.exit + j \in 1 .. n /\ b.exit + j <= base
    <3> HIDE DEF b, a, c, n, base
    <3> QED
      BY SMTT(40), <2>1, <2>2, <1>1
  <2>4. \A j \in 1 .. c : b.exit + a + j \in 1 .. n /\ b.exit + a + j <= base
    <3> HIDE DEF b, a, c, n, base
    <3> QED
      BY SMTT(40), <2>1, <2>2, <1>1
  <2>5. RecordsOk(stack, b)
    BY DEF Sound
  <2>6. \A j \in 1 .. a : new[b.exit + j].type = b.type.params[j] /\ InSlots(new[b.exit + j])
    <3> TAKE j \in 1 .. a
    <3>1. stack[b.exit + j].type = b.type.params[j] /\ InSlots(stack[b.exit + j])
      BY <2>5 DEF RecordsOk
    <3> QED
      BY <3>1, <2>3, <1>3, <1>4
  <2>7. \A j \in 1 .. c :
          /\ new[b.exit + a + j].type = b.type.results[j]
          /\ IF IsFpType(Last(b.type.results)) /\ j = c THEN new[b.exit + a + j].slot = Fp0
             ELSE InSlots(new[b.exit + a + j])
    <3> TAKE j \in 1 .. c
    <3> DEFINE i == b.exit + a + j
    <3>1. /\ stack[i].type = b.type.results[j]
          /\ IF IsFpType(Last(b.type.results)) /\ j = c THEN stack[i].slot = Fp0
             ELSE InSlots(stack[i])
      BY <2>5 DEF RecordsOk
    <3>2. i \in 1 .. n /\ i <= base
      BY <2>4
    <3>3. new[i].type = stack[i].type
      BY <3>2, <1>3
    <3>4. CASE i \in J
      <4>0. i \in Nat /\ ~(i > base)
        <5> HIDE DEF base, i, n
        <5> QED
          BY <3>2, <1>1
      <4>1. stack[i].slot \notin Registers
        <5> HIDE DEF i
        <5> QED
          BY <3>4, <4>0
      <4>2. stack[i].slot # Fp0
        BY <4>1, Numbers
      <4> QED
        BY <4>2, <3>1, <3>3, <3>4, <1>4
    <3>5. CASE i \notin J
      BY <3>1, <3>2, <3>5, <1>3
    <3> QED
      BY <3>4, <3>5
  <2> QED
    BY <2>6, <2>7 DEF RecordsOk
<1>8. LocalsOk(new, firstConst)
  <2>1. \A i \in 1 .. NumLocals : new[i] = stack[i]
    <3>1. \A i \in 1 .. NumLocals : i \in 1 .. n /\ i \notin J
      BY <1>1
    <3> QED
      BY <3>1, <1>3
  <2>2. \A i \in 1 .. Len(new) : new[i].slot < firstConst => i \in 1 .. Len(stack) /\ new[i] = stack[i]
    <3> TAKE i \in 1 .. Len(new)
    <3>1. i \in 1 .. n
      BY <1>2
    <3>2. CASE i \in J
      BY <3>1, <3>2, <1>3
    <3> QED
      BY <3>1, <3>2, <1>3
  <2>3. LocalsOk(stack, firstConst)
    BY DEF Sound
  <2> HIDE DEF n
  <2> QED
    BY <2>1, <2>2, <2>3, LocalsKept
<1>9. Sound(new, after, blocks, firstConst)
  BY <1>1, <1>2, <1>5, <1>6, <1>7, <1>8 DEF Sound
<1> QED
  BY <1>9 DEF new, Redirected

-----------------------------------------------------------------------------
(* Operations that leave the stack alone                                   *)

\* Whoever leaves the stack alone preserves the invariant,
LEMMA CloseOK ==
  ASSUME NEW p, NEW q, OK(p), Close(p, q)
  PROVE  OK(q)
<1>1. Bounds(q)
  <2>1. p.top \in Nat /\ q.top \in Nat /\ p.firstDynamic \in Nat
    BY DEF OK, Close, Typed
  <2> QED
    BY <2>1 DEF OK, Close, Frame, Bounds
<1> QED
  BY <1>1 DEF OK, Close, Frame

\* once or twice.
LEMMA CloseTwice ==
  ASSUME NEW p, NEW q, NEW r, Typed(p), Close(p, q), Close(q, r)
  PROVE  Close(p, r)
<1>1. p.top \in Nat /\ q.top \in Nat /\ r.top \in Nat
  BY DEF Close, Typed
<1> QED
  BY <1>1 DEF Close, Frame

LEMMA CloseSelf ==
  ASSUME NEW p, Typed(p)
  PROVE  Close(p, p)
BY DEF Close, Frame, Typed

\* Writing words,
LEMMA WriteClose ==
  ASSUME NEW p, Typed(p), NEW address, NEW words
  PROVE  Close(p, Write(p, address, words))
<1>1. \A mem : Close(p, [p EXCEPT !.mem = mem])
  BY DEF Close, Frame, Typed, Fields
<1>2. Close(p, [p EXCEPT !.mem = Overwrite(@, address, words)])
  BY <1>1
<1> QED
  BY <1>2, CloseSelf DEF Write

\* reading operands,
LEMMA ObserveClose ==
  ASSUME NEW p, Typed(p), NEW got, NEW expected
  PROVE  Close(p, Observe(p, got, expected))
<1>1. \A x : Close(p, [p EXCEPT !.misread = x])
  BY DEF Close, Frame, Typed, Fields
<1> QED
  BY <1>1 DEF Observe

\* and giving a new value its words do.
LEMMA ResultClose ==
  ASSUME NEW p, Typed(p), NEW words
  PROVE  Close(p, Result(p, words))
BY WriteClose, CloseSelf DEF Result

\* A value has as many words as slots.
LEMMA ReadLength ==
  ASSUME NEW p, NEW x
  PROVE  Len(Read(p, x)) = GetTypeNumSlots(x.type)
<1>1. GetTypeNumSlots(x.type) \in Nat
  BY Types
<1> HIDE DEF GetTypeNumSlots
<1> QED
  BY <1>1 DEF Read

\* Operations write to slots of the function or its callee only,
LEMMA WriteSlotClose ==
  ASSUME NEW p, Typed(p), NEW dest \in Nat, NEW words, Len(words) \in Nat,
         dest + Len(words) <= Reg0
  PROVE  Close(p, WriteSlot(p, dest, words))
<1> DEFINE end == dest + Len(words)
           noted == IF end <= Max({p.reach, p.maxSlots + StackMargin}) THEN p
                    ELSE [p EXCEPT !.reach = end]
<1>2. Close(p, p) /\ \A x : Close(p, [p EXCEPT !.reach = x])
  BY DEF Close, Frame, Typed, Fields
<1>3. Close(p, noted)
  BY <1>2
<1>4. WriteSlot(p, dest, words) = Write(noted, dest, words)
  <2>1. ~(dest + Len(words) > Reg0)
    BY Numbers
  <2> QED
    BY <2>1 DEF WriteSlot
<1>5. Typed(noted)
  BY <1>3 DEF Close
<1> HIDE DEF noted
<1>6. Close(noted, Write(noted, dest, words))
  BY <1>5, WriteClose
<1> QED
  BY <1>3, <1>4, <1>6, CloseTwice

\* also when they copy a value.
LEMMA CopyClose ==
  ASSUME NEW p, Typed(p), NEW dest \in Nat, NEW i,
         dest + GetTypeNumSlots(p.stack[i].type) <= Reg0
  PROVE  Close(p, CopyToSlot(p, dest, i))
<1> DEFINE words == Read(p, p.stack[i])
<1>1. Len(words) \in Nat /\ dest + Len(words) <= Reg0
  BY ReadLength, Types
<1>2. Close(p, WriteSlot(p, dest, words))
  <2> HIDE DEF words
  <2> QED
    BY <1>1, WriteSlotClose
<1> QED
  BY <1>2 DEF CopyToSlot

-----------------------------------------------------------------------------
(* Slots                                                                   *)

\* The slot that is found is free, and there.
LEMMA FreeSlotFacts ==
  ASSUME NEW p, Typed(p), NEW t, NEW first \in Nat, NEW end \in Int, end <= MaxFunctionSlots
  PROVE  LET s == FreeSlot(p, t, first, end) IN
         \/ s = SlotUnused
         \/ /\ s \in Nat /\ first <= s /\ s + GetTypeNumSlots(t) <= end
            /\ p.count[s] = 0 /\ p.count[s + GetTypeNumSlots(t) - 1] = 0
            /\ s % GetTypeNumSlots(t) = 0
<1> DEFINE n == GetTypeNumSlots(t)
           from == AlignSlotToType(first, t)
           free == {s \in from .. end - n : /\ s % n = 0 /\ p.count[s] = 0 /\ p.count[s + n - 1] = 0}
<1>1. n \in 1 .. 2 /\ from \in Nat /\ first <= from
  BY Types, Even
<1>2. CASE free = {}
  BY <1>2 DEF FreeSlot
<1>3. CASE free # {}
  <2>1. FreeSlot(p, t, first, end) = Min(free)
    BY <1>3 DEF FreeSlot
  <2>2. Min(free) \in free
    <3>1. free \subseteq from .. end - n /\ end - n \in Int
      BY <1>1
    <3> HIDE DEF free, n, from
    <3> QED
      BY <1>1, <1>3, <3>1, LeastInRange
  <2>3. /\ Min(free) \in from .. end - n /\ Min(free) % n = 0
        /\ p.count[Min(free)] = 0 /\ p.count[Min(free) + n - 1] = 0
    BY <2>2
  <2>4. Min(free) \in Nat /\ first <= Min(free) /\ Min(free) + n <= end
    <3> HIDE DEF free, n, from
    <3> QED
      BY <2>3, <1>1
  <2> HIDE DEF free
  <2> QED
    BY <2>1, <2>3, <2>4
<1> QED
  BY <1>2, <1>3

\* Marking slots leaves the stack alone.
LEMMA MarkClose ==
  ASSUME NEW p, Typed(p), NEW t, NEW slot \in Nat, slot + GetTypeNumSlots(t) <= MaxFunctionSlots
  PROVE  Close(p, MarkSlotsAllocated(p, slot, t))
<1> DEFINE end == slot + GetTypeNumSlots(t)
           count == [s \in DOMAIN p.count |-> IF s \in slot .. end - 1 THEN 1 ELSE p.count[s]]
           q == MarkSlotsAllocated(p, slot, t)
<1>1. GetTypeNumSlots(t) \in Nat /\ end \in Nat /\ ~(end > MaxFunctionSlots)
  BY Types, Numbers
<1>2. count \in [0 .. MaxFunctionSlots - 1 -> 0 .. MaxUsageCount]
  <2>1. 1 \in 0 .. MaxUsageCount
    BY Numbers
  <2>2. p.count \in [0 .. MaxFunctionSlots - 1 -> 0 .. MaxUsageCount]
    BY DEF Typed
  <2> HIDE DEF end
  <2> QED
    BY <2>1, <2>2
<1>3. /\ Max({p.top, end}) \in Nat /\ Max({p.top, end}) >= p.top /\ Max({p.maxSlots, end}) \in Nat
  <2>1. p.top \in Nat /\ p.maxSlots \in Nat
    BY DEF Typed
  <2> HIDE DEF end
  <2> QED
    BY <1>1, <2>1, MaxOfTwo
<1>4. q = [p EXCEPT !.count = count, !.top = Max({p.top, end}), !.maxSlots = Max({p.maxSlots, end}),
                    !.wild = p.wild]
  <2>1. DOMAIN p = Fields /\ p.wild = FALSE
    BY DEF Typed
  <2>2. (p.wild \/ end > MaxFunctionSlots) = p.wild
    BY <1>1, <2>1
  <2> QED
    BY <2>2 DEF MarkSlotsAllocated
<1> HIDE DEF count, end, q
<1>5. /\ DOMAIN q = Fields /\ q.count = count /\ q.top = Max({p.top, end})
      /\ q.maxSlots = Max({p.maxSlots, end}) /\ q.wild = p.wild
      /\ q.stack = p.stack /\ q.reg = p.reg /\ q.failed = p.failed /\ q.constEnd = p.constEnd
      /\ q.blocks = p.blocks /\ q.skip = p.skip /\ q.to = p.to /\ q.ignored = p.ignored
      /\ q.firstConst = p.firstConst /\ q.firstDynamic = p.firstDynamic
  BY <1>4 DEF Typed, Fields
<1>6. Typed(q)
  BY <1>2, <1>3, <1>5 DEF Typed
<1> QED
  BY <1>3, <1>5, <1>6 DEF Close, Frame, q

\* Finding a slot and marking it.
LEMMA Allocation ==
  ASSUME NEW p, Typed(p), NEW t
  PROVE  LET s == FreeSlot(p, t, p.firstDynamic, MaxFunctionSlots) IN
         \/ s = SlotUnused
         \/ /\ s # SlotUnused /\ s \in Nat /\ p.firstDynamic <= s
            /\ s + GetTypeNumSlots(t) <= MaxFunctionSlots
            /\ Close(p, MarkSlotsAllocated(p, s, t))
<1> DEFINE s == FreeSlot(p, t, p.firstDynamic, MaxFunctionSlots)
<1>1. p.firstDynamic \in Nat /\ MaxFunctionSlots \in Int /\ MaxFunctionSlots <= MaxFunctionSlots
  BY Numbers DEF Typed
<1>2. \/ s = SlotUnused
      \/ s \in Nat /\ p.firstDynamic <= s /\ s + GetTypeNumSlots(t) <= MaxFunctionSlots
  <2> HIDE DEF s
  <2> QED
    BY <1>1, FreeSlotFacts DEF s
<1> HIDE DEF s
<1>3. CASE s \in Nat /\ p.firstDynamic <= s /\ s + GetTypeNumSlots(t) <= MaxFunctionSlots
  <2>1. Close(p, MarkSlotsAllocated(p, s, t))
    BY <1>3, MarkClose
  <2>2. s # SlotUnused
    <3>1. GetTypeNumSlots(t) \in Nat
      BY Types
    <3> QED
      BY <1>3, <3>1, Numbers
  <2> QED
    BY <1>3, <2>1, <2>2 DEF s
<1> QED
  BY <1>2, <1>3 DEF s

\* Nothing is said of the stack when the compilation failed.
LEMMA FailOK ==
  ASSUME NEW p, OK(p)
  PROVE  OK(Fail(p)) /\ Frame(p, Fail(p)) /\ Fail(p).failed
<1> DEFINE q == Fail(p)
<1>1. /\ DOMAIN q = Fields /\ q.failed = TRUE /\ q.count = p.count /\ q.top = p.top
      /\ q.maxSlots = p.maxSlots /\ q.wild = p.wild
      /\ q.stack = p.stack /\ q.reg = p.reg /\ q.constEnd = p.constEnd
      /\ q.blocks = p.blocks /\ q.skip = p.skip /\ q.to = p.to /\ q.ignored = p.ignored
      /\ q.firstConst = p.firstConst /\ q.firstDynamic = p.firstDynamic
  BY DEF OK, Typed, Fields, Fail
<1> HIDE DEF q
<1>2. Typed(q) /\ Bounds(q)
  BY <1>1 DEF OK, Typed, Bounds
<1> QED
  BY <1>1, <1>2 DEF OK, Frame, q

-----------------------------------------------------------------------------
(* Push                                                                    *)

\* What Push changes,
LEMMA PushFacts ==
  ASSUME NEW p, OK(p), NEW t, NEW slot, Len(p.stack) < MaxStackHeight
  PROVE  LET q == Push(p, t, slot) IN
         /\ DOMAIN q = Fields /\ q.failed = p.failed /\ q.count = p.count /\ q.top = p.top
         /\ q.maxSlots = p.maxSlots /\ q.wild = p.wild /\ q.constEnd = p.constEnd
         /\ q.stack = Append(p.stack, [type |-> t, slot |-> slot])
         /\ q.reg = IF IsRegister(slot) THEN [p.reg EXCEPT ![slot] = Len(p.stack) + 1] ELSE p.reg
         /\ Frame(p, q)
<1>1. ~(Len(p.stack) >= MaxStackHeight)
  <2>1. Len(p.stack) \in Nat
    BY DEF OK, Typed, StackOk
  <2> QED
    BY <2>1, Numbers
<1> QED
  BY <1>1 DEF OK, Typed, Fields, Push, Frame

\* when the stack is not at its limit.
LEMMA PushFull ==
  ASSUME NEW p, OK(p), NEW t, NEW slot, ~(Len(p.stack) < MaxStackHeight)
  PROVE  LET q == Push(p, t, slot) IN OK(q) /\ Frame(p, q) /\ q.failed
<1>1. Len(p.stack) >= MaxStackHeight
  <2>1. Len(p.stack) \in Nat
    BY DEF OK, Typed, StackOk
  <2> QED
    BY <2>1, Numbers
<1> QED
  BY <1>1, FailOK DEF Push

\* The stack has its type with one value more.
LEMMA AppendTyped ==
  ASSUME NEW stack, StackOk(stack), NEW x \in Item, Len(stack) < MaxStackHeight,
         x.slot = RegisterOf(x.type) \/ InSlots(x)
  PROVE  StackOk(Append(stack, x)) /\ Len(Append(stack, x)) = Len(stack) + 1
<1> DEFINE new == Append(stack, x)
           n == Len(stack)
<1>1. n \in Nat /\ new \in Seq(Item) /\ Len(new) = n + 1 /\ new[n + 1] = x
      /\ \A i \in 1 .. n : new[i] = stack[i]
  BY DEF StackOk
<1>2. Len(new) <= MaxStackHeight
  <2> HIDE DEF new
  <2> QED
    BY <1>1, Numbers
<1>3. ASSUME NEW i \in 1 .. Len(new) PROVE new[i].slot = RegisterOf(new[i].type) \/ InSlots(new[i])
  <2>1. CASE i = n + 1
    BY <2>1, <1>1
  <2>2. CASE i # n + 1
    <3>1. i \in 1 .. n
      <4> HIDE DEF new, n
      <4> QED
        BY <2>2, <1>1
    <3> QED
      BY <3>1, <1>1 DEF StackOk
  <2> QED
    BY <2>1, <2>2
<1> QED
  BY <1>1, <1>2, <1>3 DEF StackOk

\* A value in slots: a local, or behind all locals.
LEMMA PushSlot ==
  ASSUME NEW p, OK(p), NEW t \in ValueType, NEW slot \in Nat,
         slot + GetTypeNumSlots(t) <= MaxFunctionSlots,
         ~p.failed /\ slot < p.firstConst =>
           \E j \in 1 .. NumLocals : [type |-> t, slot |-> slot] = p.stack[j]
  PROVE  LET q == Push(p, t, slot) IN
         /\ OK(q) /\ Frame(p, q) /\ Pushed(p, q, [type |-> t, slot |-> slot])
         /\ ~q.failed => q.reg = p.reg
<1> DEFINE x == [type |-> t, slot |-> slot]
           q == Push(p, t, slot)
<1>1. x \in Item /\ InSlots(x) /\ slot \notin Registers
  <2>1. x \in Item /\ InSlots(x) /\ x.slot = slot
    BY DEF Item, InSlots
  <2> QED
    BY <2>1, ItemFacts
<1>2. CASE ~(Len(p.stack) < MaxStackHeight)
  BY <1>2, PushFull DEF Pushed
<1>3. CASE Len(p.stack) < MaxStackHeight
  <2>0. ~IsRegister(slot)
    BY <1>1 DEF IsRegister
  <2>1. /\ DOMAIN q = Fields /\ q.failed = p.failed /\ q.count = p.count /\ q.top = p.top
        /\ q.maxSlots = p.maxSlots /\ q.wild = p.wild /\ q.constEnd = p.constEnd
        /\ q.stack = Append(p.stack, x) /\ q.reg = p.reg /\ Frame(p, q)
    <3>1. /\ DOMAIN q = Fields /\ q.failed = p.failed /\ q.count = p.count /\ q.top = p.top
          /\ q.maxSlots = p.maxSlots /\ q.wild = p.wild /\ q.constEnd = p.constEnd
          /\ q.stack = Append(p.stack, [type |-> t, slot |-> slot])
          /\ q.reg = IF IsRegister(slot) THEN [p.reg EXCEPT ![slot] = Len(p.stack) + 1] ELSE p.reg
          /\ Frame(p, q)
      BY <1>3, PushFacts
    <3> HIDE DEF q
    <3> QED
      BY <2>0, <3>1
  <2> HIDE DEF q, x
  <2>2. StackOk(q.stack) /\ Len(q.stack) = Len(p.stack) + 1
    BY <2>1, <1>1, <1>3, AppendTyped DEF OK, Typed
  <2>3. Typed(q) /\ Bounds(q) /\ BlocksOk(q.blocks)
    BY <2>1, <2>2 DEF OK, Typed, Bounds, Frame
  <2>4. Base(q.blocks) <= Len(q.stack)
    <3>1. Base(p.blocks) \in Nat /\ Len(p.stack) \in Nat /\ Base(p.blocks) <= Len(p.stack)
      BY ScopeFacts DEF OK, Typed, StackOk
    <3> QED
      BY <3>1, <2>1, <2>2 DEF Frame
  <2>5. ASSUME ~q.failed PROVE Sound(q.stack, q.reg, q.blocks, q.firstConst)
    <3>1. /\ ~p.failed /\ Sound(p.stack, p.reg, p.blocks, p.firstConst) /\ BlocksOk(p.blocks)
          /\ p.firstConst \in Nat /\ StackOk(p.stack)
      BY <2>1, <2>5 DEF OK, Typed
    <3>2. x.slot < p.firstConst => \E j \in 1 .. NumLocals : x = p.stack[j]
      BY <3>1 DEF x
    <3>3. Sound(Append(p.stack, x), p.reg, p.blocks, p.firstConst)
      BY <1>1, <3>1, <3>2, AppendItem
    <3> QED
      BY <3>3, <2>1 DEF Frame
  <2>6. OK(q)
    BY <2>3, <2>4, <2>5 DEF OK
  <2> QED
    BY <2>1, <2>6, <1>1 DEF Pushed, x, q
<1> QED
  BY <1>2, <1>3

\* A value in its register, which must be free.
LEMMA PushInRegister ==
  ASSUME NEW p, OK(p), NEW t \in ValueType, ~p.failed => p.reg[RegisterOf(t)] = 0
  PROVE  LET q == PushRegister(p, t) IN
         /\ OK(q) /\ Frame(p, q) /\ Pushed(p, q, [type |-> t, slot |-> RegisterOf(t)])
         /\ ~q.failed => q.reg = [p.reg EXCEPT ![RegisterOf(t)] = Len(p.stack) + 1]
<1> DEFINE r == RegisterOf(t)
           x == [type |-> t, slot |-> r]
           q == PushRegister(p, t)
<1>1. x \in Item /\ x.slot = RegisterOf(x.type) /\ r \in Registers
  BY ItemFacts, Numbers DEF Item
<1>2. CASE ~(Len(p.stack) < MaxStackHeight)
  BY <1>2, PushFull DEF Pushed, PushRegister
<1>3. CASE Len(p.stack) < MaxStackHeight
  <2>1. /\ DOMAIN q = Fields /\ q.failed = p.failed /\ q.count = p.count /\ q.top = p.top
        /\ q.maxSlots = p.maxSlots /\ q.wild = p.wild /\ q.constEnd = p.constEnd
        /\ q.stack = Append(p.stack, x) /\ q.reg = [p.reg EXCEPT ![r] = Len(p.stack) + 1]
        /\ Frame(p, q)
    <3>1. IsRegister(r) /\ q = Push(p, t, r) /\ x = [type |-> t, slot |-> r]
      BY <1>1 DEF IsRegister, PushRegister
    <3> HIDE DEF q, x, r
    <3>2. LET a == Push(p, t, r) IN
          /\ DOMAIN a = Fields /\ a.failed = p.failed /\ a.count = p.count /\ a.top = p.top
          /\ a.maxSlots = p.maxSlots /\ a.wild = p.wild /\ a.constEnd = p.constEnd
          /\ a.stack = Append(p.stack, [type |-> t, slot |-> r])
          /\ a.reg = IF IsRegister(r) THEN [p.reg EXCEPT ![r] = Len(p.stack) + 1] ELSE p.reg
          /\ Frame(p, a)
      BY <1>3, PushFacts
    <3> QED
      BY <3>1, <3>2
  <2>a. x.slot = r
    OBVIOUS
  <2> HIDE DEF q, x, r
  <2>2. StackOk(q.stack) /\ Len(q.stack) = Len(p.stack) + 1
    BY <2>1, <1>1, <1>3, AppendTyped DEF OK, Typed
  <2>b. Len(p.stack) + 1 \in 0 .. MaxStackHeight
    <3>1. Len(p.stack) \in Nat
      BY DEF OK, Typed, StackOk
    <3> QED
      BY <3>1, <1>3, Numbers
  <2>c. q.reg \in [Registers -> 0 .. MaxStackHeight]
    BY <2>1, <2>b DEF OK, Typed
  <2>3. Typed(q) /\ Bounds(q) /\ BlocksOk(q.blocks)
    BY <2>1, <2>2, <2>c DEF OK, Typed, Bounds, Frame
  <2>4. Base(q.blocks) <= Len(q.stack)
    <3>1. Base(p.blocks) \in Nat /\ Len(p.stack) \in Nat /\ Base(p.blocks) <= Len(p.stack)
      BY ScopeFacts DEF OK, Typed, StackOk
    <3> QED
      BY <3>1, <2>1, <2>2 DEF Frame
  <2>5. ASSUME ~q.failed PROVE Sound(q.stack, q.reg, q.blocks, q.firstConst)
    <3>1. /\ ~p.failed /\ Sound(p.stack, p.reg, p.blocks, p.firstConst) /\ BlocksOk(p.blocks)
          /\ p.firstConst \in Nat /\ StackOk(p.stack) /\ p.reg \in [Registers -> 0 .. MaxStackHeight]
      BY <2>1, <2>5 DEF OK, Typed
    <3>2. p.reg[x.slot] = 0
      BY <3>1, <2>a DEF r
    <3>3. p.firstConst <= MaxFunctionSlots
      <4>1. p.firstConst \in Nat /\ p.constEnd \in Nat /\ p.firstDynamic \in Nat
        BY DEF OK, Typed
      <4>2. p.firstConst <= p.constEnd /\ p.constEnd <= p.firstDynamic
            /\ p.firstDynamic <= MaxFunctionSlots
        BY DEF OK, Bounds
      <4>3. MaxFunctionSlots \in Nat
        BY Numbers
      <4> QED
        BY <4>1, <4>2, <4>3
    <3>4. Sound(Append(p.stack, x), [p.reg EXCEPT ![x.slot] = Len(p.stack) + 1], p.blocks, p.firstConst)
      BY <1>1, <2>a, <3>1, <3>2, <3>3, AppendRegister
    <3> QED
      BY <3>4, <2>1, <2>a DEF Frame
  <2>6. OK(q)
    BY <2>3, <2>4, <2>5 DEF OK
  <2> QED
    BY <2>1, <2>6, <1>1 DEF Pushed, x, q, r
<1> QED
  BY <1>2, <1>3

\* A value in a slot that is looked for.
LEMMA PushAllocated ==
  ASSUME NEW p, OK(p), NEW t \in ValueType
  PROVE  LET q == PushAllocatedSlot(p, t) IN
         /\ OK(q) /\ Frame(p, q)
         /\ ~q.failed => q.reg = p.reg
         /\ \E slot : Pushed(p, q, [type |-> t, slot |-> slot]) /\ (~q.failed => InSlots([type |-> t, slot |-> slot]) /\ slot >= p.firstDynamic)
<1> DEFINE s == FreeSlot(p, t, p.firstDynamic, MaxFunctionSlots)
           m == MarkSlotsAllocated(p, s, t)
           q == PushAllocatedSlot(p, t)
<1>1. q = IF s = SlotUnused THEN Fail(p) ELSE Push(m, t, s)
  BY DEF PushAllocatedSlot, AllocateSlots
<1> HIDE DEF q
<1>2. CASE s = SlotUnused
  BY <1>1, <1>2, FailOK DEF Pushed, q
<1>3. CASE s # SlotUnused
  <2>1. /\ s \in Nat /\ p.firstDynamic <= s /\ s + GetTypeNumSlots(t) <= MaxFunctionSlots
        /\ Close(p, m)
    BY <1>3, Allocation DEF OK
  <2> HIDE DEF m, s
  <2>2. OK(m)
    BY <2>1, CloseOK
  <2>3. p.firstConst \in Nat /\ p.firstDynamic \in Nat /\ p.firstConst <= p.firstDynamic
    <3>1. p.firstConst \in Nat /\ p.constEnd \in Nat /\ p.firstDynamic \in Nat
      BY DEF OK, Typed
    <3> QED
      BY <3>1 DEF OK, Bounds
  <2>4. ~(s < m.firstConst)
    BY <2>1, <2>3 DEF Close, Frame
  <2>5. /\ OK(q) /\ Frame(m, q) /\ Pushed(m, q, [type |-> t, slot |-> s])
        /\ ~q.failed => q.reg = m.reg
    BY <1>1, <1>3, <2>1, <2>2, <2>4, PushSlot
  <2>6. /\ Frame(p, q) /\ Pushed(p, q, [type |-> t, slot |-> s])
        /\ ~q.failed => q.reg = p.reg
    BY <2>1, <2>5 DEF Close, Frame, Pushed
  <2>7. InSlots([type |-> t, slot |-> s]) /\ s >= p.firstDynamic
    BY <2>1, <2>3 DEF InSlots
  <2> QED
    BY <2>5, <2>6, <2>7 DEF q
<1> QED
  BY <1>2, <1>3

-----------------------------------------------------------------------------
(* Pop                                                                     *)

\* Counting a slot down leaves the stack alone.
LEMMA DeallocateClose ==
  ASSUME NEW p, Typed(p), NEW x
  PROVE  Close(p, DeallocateSlot(p, x))
<1> DEFINE Decrement(n) == (n + MaxUsageCount) % (MaxUsageCount + 1)
           count == [s \in DOMAIN p.count |-> IF s \in SlotsOf(x) THEN Decrement(p.count[s]) ELSE p.count[s]]
<1>1. \A n \in 0 .. MaxUsageCount : Decrement(n) \in 0 .. MaxUsageCount
  <2> TAKE n \in 0 .. MaxUsageCount
  <2> DEFINE a == n + MaxUsageCount
             b == MaxUsageCount + 1
  <2>1. a \in Nat /\ b \in Nat /\ b > 0 /\ b - 1 = MaxUsageCount
    BY Numbers
  <2>2. Decrement(n) = a % b
    OBVIOUS
  <2> HIDE DEF Decrement, a, b
  <2>3. a % b \in 0 .. b - 1
    BY <2>1
  <2> QED
    BY <2>1, <2>2, <2>3
<1>2. count \in [0 .. MaxFunctionSlots - 1 -> 0 .. MaxUsageCount]
  <2>1. p.count \in [0 .. MaxFunctionSlots - 1 -> 0 .. MaxUsageCount]
    BY DEF Typed
  <2> HIDE DEF Decrement
  <2> QED
    BY <1>1, <2>1
<1>3. DeallocateSlot(p, x) = [p EXCEPT !.count = count]
  BY DEF DeallocateSlot
<1> HIDE DEF count
<1> QED
  BY <1>2, <1>3 DEF Close, Frame, Typed, Fields

\* The height of the innermost scope.
LEMMA Height ==
  ASSUME NEW p, OK(p)
  PROVE  /\ BlockHeight(p) = Len(p.stack) - Base(p.blocks) /\ BlockHeight(p) \in Nat
         /\ Len(p.stack) \in Nat /\ Base(p.blocks) \in Nat /\ Base(p.blocks) <= Len(p.stack)
         /\ NumLocals \in Nat /\ NumLocals <= Base(p.blocks)
         /\ p.stack \in Seq(Item) /\ \A i \in 1 .. Len(p.stack) : p.stack[i] \in Item
<1>1. BlockHeight(p) = Len(p.stack) - Base(p.blocks)
  BY DEF BlockHeight, Block, Base, Last
<1>2. Len(p.stack) \in Nat /\ Base(p.blocks) \in Nat /\ Base(p.blocks) <= Len(p.stack)
      /\ p.stack \in Seq(Item)
  BY ScopeFacts DEF OK, Typed, StackOk
<1>3. NumLocals <= Base(p.blocks)
  <2>1. BlocksOk(p.blocks)
    BY DEF OK
  <2>2. 1 \in 1 .. Len(p.blocks)
    BY <2>1, ScopeFacts
  <2>3. p.blocks[1].base <= Base(p.blocks)
    BY <2>1, <2>2, ScopeFacts
  <2>4. p.blocks[1].base = NumLocals
    BY <2>1 DEF BlocksOk
  <2> QED
    BY <2>3, <2>4
<1> QED
  BY <1>1, <1>2, <1>3, Numbers

\* The stack has its type with one value less.
LEMMA FrontTyped ==
  ASSUME NEW stack, StackOk(stack), Len(stack) >= 1
  PROVE  StackOk(Front(stack)) /\ Len(Front(stack)) = Len(stack) - 1
         /\ \A i \in 1 .. Len(stack) - 1 : Front(stack)[i] = stack[i]
<1>1. /\ Front(stack) \in Seq(Item) /\ Len(Front(stack)) = Len(stack) - 1
      /\ \A i \in 1 .. Len(stack) - 1 : Front(stack)[i] = stack[i]
  BY FrontFacts DEF StackOk
<1>2. Len(stack) \in Nat /\ \A i \in 1 .. Len(stack) - 1 : i \in 1 .. Len(stack)
  BY DEF StackOk
<1>3. Len(Front(stack)) <= MaxStackHeight
  BY <1>1, <1>2, Numbers DEF StackOk
<1>4. \A i \in 1 .. Len(Front(stack)) :
        Front(stack)[i].slot = RegisterOf(Front(stack)[i].type) \/ InSlots(Front(stack)[i])
  BY <1>1, <1>2 DEF StackOk
<1> QED
  BY <1>1, <1>3, <1>4 DEF StackOk

\* Pop takes the last value of the innermost scope,
LEMMA PopOne ==
  ASSUME NEW p, OK(p), Len(p.stack) > Base(p.blocks)
  PROVE  LET q == Pop(p) IN
         /\ OK(q) /\ Frame(p, q) /\ q.failed = p.failed /\ q.stack = Front(p.stack)
<1> DEFINE q == Pop(p)
           x == Last(p.stack)
           popped == [p EXCEPT !.stack = Front(p.stack)]
           freed == IF IsRegister(x.slot) THEN [popped EXCEPT !.reg[x.slot] = 0] ELSE popped
<1>1. /\ Len(p.stack) \in Nat /\ Base(p.blocks) \in Nat /\ Len(p.stack) >= 1
      /\ Base(p.blocks) <= Len(p.stack) - 1 /\ BlockHeight(p) # 0
  BY Height
<1>2. \/ q = freed
      \/ q = DeallocateSlot(freed, x)
  <2>1. q = IF IsRegister(x.slot) THEN [popped EXCEPT !.reg[x.slot] = 0]
            ELSE IF x.slot >= p.firstDynamic THEN DeallocateSlot(popped, x) ELSE popped
    BY <1>1 DEF Pop
  <2> HIDE DEF q, x, popped
  <2> QED
    BY <2>1 DEF freed
<1>3. /\ DOMAIN freed = Fields /\ freed.failed = p.failed /\ freed.count = p.count
      /\ freed.top = p.top /\ freed.maxSlots = p.maxSlots /\ freed.wild = p.wild
      /\ freed.constEnd = p.constEnd /\ freed.stack = Front(p.stack)
      /\ freed.reg = IF IsRegister(x.slot) THEN [p.reg EXCEPT ![x.slot] = 0] ELSE p.reg
      /\ Frame(p, freed)
  <2> HIDE DEF x
  <2>1. CASE IsRegister(x.slot)
    BY <2>1 DEF OK, Typed, Fields, Frame
  <2>2. CASE ~IsRegister(x.slot)
    BY <2>2 DEF OK, Typed, Fields, Frame
  <2> QED
    BY <2>1, <2>2
<1> HIDE DEF freed, q
<1>4. StackOk(freed.stack) /\ Len(freed.stack) = Len(p.stack) - 1
  <2>1. StackOk(p.stack)
    BY DEF OK, Typed
  <2> QED
    BY <2>1, <1>1, <1>3, FrontTyped
<1>5. freed.reg \in [Registers -> 0 .. MaxStackHeight]
  <2>1. p.reg \in [Registers -> 0 .. MaxStackHeight] /\ 0 \in 0 .. MaxStackHeight
    BY Numbers DEF OK, Typed
  <2> HIDE DEF x
  <2> QED
    BY <2>1, <1>3
<1>6. Typed(freed) /\ Bounds(freed) /\ BlocksOk(freed.blocks)
  BY <1>3, <1>4, <1>5 DEF OK, Typed, Bounds, Frame
<1>7. Base(freed.blocks) <= Len(freed.stack)
  BY <1>1, <1>3, <1>4 DEF Frame
<1>8. ASSUME ~freed.failed PROVE Sound(freed.stack, freed.reg, freed.blocks, freed.firstConst)
  <2>1. /\ ~p.failed /\ Sound(p.stack, p.reg, p.blocks, p.firstConst) /\ BlocksOk(p.blocks)
        /\ StackOk(p.stack) /\ p.reg \in [Registers -> 0 .. MaxStackHeight]
    BY <1>3, <1>8 DEF OK, Typed
  <2>2. freed.reg = IF Last(p.stack).slot \in Registers THEN [p.reg EXCEPT ![Last(p.stack).slot] = 0] ELSE p.reg
    BY <1>3 DEF IsRegister
  <2>3. Sound(Front(p.stack), freed.reg, p.blocks, p.firstConst)
    BY <2>1, <2>2, RemoveLast
  <2> QED
    BY <2>3, <1>3 DEF Frame
<1>9. OK(freed)
  BY <1>6, <1>7, <1>8 DEF OK
<1>10. Close(freed, q)
  BY <1>2, <1>6, DeallocateClose, CloseSelf
<1>11. OK(q)
  BY <1>9, <1>10, CloseOK
<1>12. Frame(p, q) /\ q.failed = p.failed /\ q.stack = Front(p.stack)
  BY <1>3, <1>10 DEF Close, Frame
<1> QED
  BY <1>11, <1>12 DEF q

\* or none, if there is none: an error, unless the code is dead.
LEMMA PopNone ==
  ASSUME NEW p, OK(p), Len(p.stack) = Base(p.blocks)
  PROVE  OK(Pop(p)) /\ Frame(p, Pop(p)) /\ Pop(p).stack = p.stack
         /\ (Block(p).poly => Pop(p).failed = p.failed)
<1>1. BlockHeight(p) = 0
  BY Height
<1>2. Pop(p) = IF Block(p).poly THEN p ELSE Fail(p)
  BY <1>1 DEF Pop
<1>3. Frame(p, p)
  BY DEF Frame
<1>4. Fail(p).stack = p.stack
  BY DEF OK, Typed, Fields, Fail
<1> QED
  BY <1>2, <1>3, <1>4, FailOK

\* In both cases.
LEMMA PopOK ==
  ASSUME NEW p, OK(p)
  PROVE  OK(Pop(p)) /\ Frame(p, Pop(p))
<1>1. \/ Len(p.stack) = Base(p.blocks)
      \/ Len(p.stack) > Base(p.blocks)
  BY Height
<1> QED
  BY <1>1, PopNone, PopOne

\* Of the values of the innermost scope no more than len go.
LEMMA PopNOK ==
  ASSUME NEW p, OK(p), NEW len \in Nat
  PROVE  LET q == PopN(p, len) IN
         /\ OK(q) /\ Frame(p, q)
         /\ len <= BlockHeight(p) => q.failed = p.failed /\ Popped(p, q, len)
                                    /\ Len(q.stack) = Len(p.stack) - len
<1>1. PICK f : f[0] = p /\ (\A k \in 1 .. len : f[k] = Pop(f[k - 1])) /\ PopN(p, len) = f[len]
  BY PopNSteps
<1> DEFINE n == Len(p.stack)
           Enough == len <= BlockHeight(p)
           S == {k \in 0 .. len : /\ OK(f[k]) /\ Frame(p, f[k])
                                  /\ Enough => /\ f[k].failed = p.failed
                                               /\ Len(f[k].stack) = n - k
                                               /\ \A i \in 1 .. n - k : f[k].stack[i] = p.stack[i]}
<1>2. n \in Nat /\ Base(p.blocks) \in Nat /\ BlockHeight(p) = n - Base(p.blocks)
  BY Height
<1>3. 0 \in S
  <2>1. f[0] = p /\ Frame(p, p) /\ n - 0 = n /\ 0 \in 0 .. len
    BY <1>1, <1>2 DEF Frame
  <2> HIDE DEF n, Enough
  <2>2. Len(p.stack) = n
    BY DEF n
  <2> QED
    BY <2>1, <2>2
<1>4. ASSUME NEW k \in 1 .. len, k - 1 \in S PROVE k \in S
  <2> DEFINE a == f[k - 1]
             b == f[k]
  <2>1. b = Pop(a) /\ k \in 0 .. len
    BY <1>1
  <2>2. OK(a) /\ Frame(p, a)
    BY <1>4
  <2>3. OK(b) /\ Frame(a, b)
    BY <2>1, <2>2, PopOK
  <2>4. Frame(p, b)
    BY <2>2, <2>3 DEF Frame
  <2>5. ASSUME Enough
        PROVE  b.failed = p.failed /\ Len(b.stack) = n - k /\ \A i \in 1 .. n - k : b.stack[i] = p.stack[i]
    <3>1. a.failed = p.failed /\ Len(a.stack) = n - (k - 1)
          /\ \A i \in 1 .. n - (k - 1) : a.stack[i] = p.stack[i]
      BY <1>4, <2>5
    <3>2. Base(a.blocks) = Base(p.blocks)
      BY <2>2 DEF Frame
    <3>3. Len(a.stack) > Base(a.blocks) /\ Len(a.stack) >= 1
      <4> HIDE DEF a, n, S
      <4> QED
        BY <3>1, <3>2, <2>5, <1>2 DEF Enough
    <3>4. b.failed = a.failed /\ b.stack = Front(a.stack)
      BY <2>1, <2>2, <3>3, PopOne
    <3>5. a.stack \in Seq(Item)
      BY <2>2, Height
    <3>6. Len(b.stack) = Len(a.stack) - 1 /\ \A i \in 1 .. Len(a.stack) - 1 : b.stack[i] = a.stack[i]
      BY <3>3, <3>4, <3>5, FrontFacts
    <3>7. Len(a.stack) - 1 = n - k /\ \A i \in 1 .. n - k : i \in 1 .. n - (k - 1)
      <4> HIDE DEF a, n, S
      <4> QED
        BY <3>1, <1>2
    <3> HIDE DEF a, b, n, S
    <3> QED
      BY <3>1, <3>4, <3>6, <3>7
  <2> HIDE DEF n, Enough
  <2> QED
    BY <2>1, <2>3, <2>4, <2>5
<1>5. \A k \in 0 .. len : k \in S
  <2> HIDE DEF S
  <2> QED
    BY <1>3, <1>4, UpTo
<1>6. len \in S
  BY <1>5
<1> QED
  BY <1>1, <1>6 DEF Popped

\* A register whose item is among those that went, or was not in use, is free.
LEMMA FreeAfter ==
  ASSUME NEW p, OK(p), NEW q, OK(q), Frame(p, q), NEW len \in Nat, len <= BlockHeight(p),
         Popped(p, q, len), ~q.failed, NEW r \in Registers,
         p.reg[r] = 0 \/ p.reg[r] > Len(p.stack) - len
  PROVE  q.reg[r] = 0
<1> SUFFICES ASSUME q.reg[r] # 0 PROVE FALSE
  OBVIOUS
<1> DEFINE i == q.reg[r]
           base == Base(p.blocks)
           n == Len(p.stack)
<1>1. Len(q.stack) = n - len /\ (\A j \in 1 .. n - len : q.stack[j] = p.stack[j]) /\ ~p.failed
  BY DEF Popped
<1>2. RegistersOk(q.stack, q.reg, base) /\ RegistersOk(p.stack, p.reg, base)
  BY <1>1 DEF OK, Sound, Frame
<1>3. i \in base + 1 .. Len(q.stack) /\ q.stack[i].slot = r
  BY <1>2 DEF RegistersOk
<1>4. n \in Nat /\ base \in Nat
  BY Height
<1>5. i \in base + 1 .. n /\ i \in 1 .. n - len
  <2> HIDE DEF n, base, i
  <2> QED
    BY <1>1, <1>3, <1>4
<1>6. p.stack[i].slot = r
  BY <1>1, <1>3, <1>5
<1>7. p.reg[r] = i
  BY <1>2, <1>5, <1>6 DEF RegistersOk
<1> HIDE DEF i, n, base
<1> QED
  BY <1>4, <1>5, <1>7 DEF n

-----------------------------------------------------------------------------
(* Items that move                                                         *)

\* The stack has its type with some items in other slots.
LEMMA MovedStack ==
  ASSUME NEW stack, StackOk(stack), NEW J, NEW slot \in Nat,
         \A j \in J \cap 1 .. Len(stack) : slot + GetTypeNumSlots(stack[j].type) <= MaxFunctionSlots
  PROVE  LET new == Redirected(stack, J, slot) IN
         /\ StackOk(new) /\ Len(new) = Len(stack)
         /\ \A j \in 1 .. Len(stack) :
              /\ new[j].type = stack[j].type
              /\ new[j].slot = IF j \in J THEN slot ELSE stack[j].slot
              /\ j \notin J => new[j] = stack[j]
              /\ j \in J => InSlots(new[j])
<1> DEFINE new == Redirected(stack, J, slot)
           n == Len(stack)
<1>1. n \in Nat /\ stack \in Seq(Item) /\ DOMAIN stack = 1 .. n /\ \A i \in 1 .. n : stack[i] \in Item
  BY DEF StackOk
<1>2. \A j \in 1 .. n : /\ new[j] \in Item
                        /\ new[j].type = stack[j].type
                        /\ new[j].slot = IF j \in J THEN slot ELSE stack[j].slot
                        /\ j \notin J => new[j] = stack[j]
  BY <1>1 DEF Item, Redirected
<1>3. new \in Seq(Item) /\ Len(new) = n
  <2>1. new = [j \in 1 .. n |-> new[j]]
    BY <1>1 DEF Redirected
  <2> HIDE DEF new, n
  <2>2. new \in [1 .. n -> Item]
    BY <1>2, <2>1
  <2> QED
    BY <2>2, <1>1
<1> HIDE DEF new
<1>4. \A j \in 1 .. n : j \in J => InSlots(new[j])
  BY <1>2 DEF InSlots
<1>5. \A j \in 1 .. Len(new) : new[j].slot = RegisterOf(new[j].type) \/ InSlots(new[j])
  <2> TAKE j \in 1 .. Len(new)
  <2>1. j \in 1 .. n
    BY <1>3
  <2>2. CASE j \in J
    BY <2>1, <2>2, <1>4
  <2>3. CASE j \notin J
    BY <2>1, <2>3, <1>2 DEF StackOk
  <2> QED
    BY <2>2, <2>3
<1>6. StackOk(new)
  BY <1>3, <1>5 DEF StackOk
<1> QED
  BY <1>2, <1>3, <1>4, <1>6 DEF new

\* Items may move again.
LEMMA MovedTwice ==
  ASSUME NEW p, NEW q, NEW s, Moved(p, q), Moved(q, s)
  PROVE  Moved(p, s)
<1> SUFFICES ASSUME ~s.failed PROVE Moved(p, s)
  BY DEF Moved
<1>1. ~q.failed /\ ~p.failed /\ Len(q.stack) = Len(p.stack) /\ Len(s.stack) = Len(p.stack)
  BY DEF Moved
<1>2. ASSUME NEW i \in 1 .. Len(p.stack)
      PROVE  /\ s.stack[i].type = p.stack[i].type
             /\ s.stack[i] = p.stack[i] \/ InSlots(s.stack[i])
  <2>1. /\ q.stack[i].type = p.stack[i].type
        /\ q.stack[i] = p.stack[i] \/ InSlots(q.stack[i])
    BY <1>1 DEF Moved
  <2>2. /\ s.stack[i].type = q.stack[i].type
        /\ s.stack[i] = q.stack[i] \/ InSlots(s.stack[i])
    BY <1>1 DEF Moved
  <2> QED
    BY <2>1, <2>2
<1>3. \A r \in Registers : s.reg[r] \in {0, p.reg[r]}
  BY <1>1 DEF Moved
<1> QED
  BY <1>1, <1>2, <1>3 DEF Moved

\* Nothing moves when the stack is left alone.
LEMMA MovedSelf ==
  ASSUME NEW p, NEW q, Close(p, q)
  PROVE  Moved(p, q) /\ Frame(p, q)
BY DEF Moved, Close

\* Items J go to a slot behind those of locals and constants.
LEMMA RedirectOK ==
  ASSUME NEW p, NEW m, NEW J, NEW slot, NEW reg, MayMove(p, m, J, slot, reg)
  PROVE  LET q == WithMoved(p, m, J, slot, reg) IN
         OK(q) /\ Frame(p, q) /\ Moved(p, q) /\ q.failed = p.failed
         /\ q.stack = Redirected(p.stack, J, slot) /\ q.reg = reg
<1>0. /\ OK(p) /\ Close(p, m) /\ slot \in Nat /\ slot >= p.firstDynamic
      /\ \A j \in J \cap 1 .. Len(p.stack) :
           slot + GetTypeNumSlots(p.stack[j].type) <= MaxFunctionSlots
      /\ ~p.failed => J \subseteq NumLocals + 1 .. Len(p.stack)
      /\ ~p.failed => \A j \in J : p.stack[j].slot \in Registers => j > Base(p.blocks)
      /\ reg \in [Registers -> 0 .. MaxStackHeight]
      /\ ~p.failed => \A r \in Registers : reg[r] = IF p.reg[r] \in J THEN 0 ELSE p.reg[r]
  BY DEF MayMove
<1> DEFINE new == Redirected(p.stack, J, slot)
           q == WithMoved(p, m, J, slot, reg)
<1>1. /\ DOMAIN q = Fields /\ q.failed = p.failed /\ q.count = m.count
      /\ q.top = m.top /\ q.maxSlots = m.maxSlots /\ q.wild = m.wild
      /\ q.constEnd = p.constEnd /\ q.stack = new /\ q.reg = reg /\ q.ignored = m.ignored
      /\ Frame(p, q)
  <2> HIDE DEF new
  <2> QED
    BY <1>0 DEF Close, Frame, Typed, Fields, WithMoved, new
<1> HIDE DEF q
<1>2. /\ StackOk(new) /\ Len(new) = Len(p.stack)
      /\ \A j \in 1 .. Len(p.stack) :
           /\ new[j].type = p.stack[j].type
           /\ new[j].slot = IF j \in J THEN slot ELSE p.stack[j].slot
           /\ j \notin J => new[j] = p.stack[j]
           /\ j \in J => InSlots(new[j])
  BY <1>0, MovedStack DEF OK, Typed
<1>3. OK(m)
  BY <1>0, CloseOK
<1>4. Typed(q) /\ Bounds(q) /\ BlocksOk(q.blocks) /\ Base(q.blocks) <= Len(q.stack)
  <2>1. Typed(q)
    BY <1>0, <1>1, <1>2, <1>3 DEF OK, Typed, Frame
  <2>2. Bounds(q)
    BY <1>0, <1>1, <1>3 DEF OK, Bounds, Close, Frame
  <2> QED
    BY <1>0, <1>1, <1>2, <2>1, <2>2 DEF OK, Frame
<1>5. ASSUME ~q.failed PROVE Sound(q.stack, q.reg, q.blocks, q.firstConst)
  <2>1. /\ ~p.failed /\ Sound(p.stack, p.reg, p.blocks, p.firstConst) /\ BlocksOk(p.blocks)
        /\ StackOk(p.stack) /\ p.reg \in [Registers -> 0 .. MaxStackHeight] /\ p.firstConst \in Nat
    BY <1>0, <1>1, <1>5 DEF OK, Typed
  <2>2. slot >= p.firstConst
    <3>1. p.firstConst \in Nat /\ p.constEnd \in Nat /\ p.firstDynamic \in Nat
      BY <1>0 DEF OK, Typed
    <3> QED
      BY <1>0, <3>1 DEF OK, Bounds
  <2>3. J \subseteq NumLocals + 1 .. Len(p.stack) /\ J \subseteq 1 .. Len(p.stack)
    BY <1>0, <2>1, Numbers
  <2>4. \A j \in J : slot + GetTypeNumSlots(p.stack[j].type) <= MaxFunctionSlots
    BY <1>0, <2>3
  <2>5. /\ \A j \in J : p.stack[j].slot \in Registers => j > Base(p.blocks)
        /\ \A r \in Registers : reg[r] = IF p.reg[r] \in J THEN 0 ELSE p.reg[r]
    BY <1>0, <2>1
  <2>6. Sound(Redirected(p.stack, J, slot), reg, p.blocks, p.firstConst)
    <3> HIDE DEF new
    <3> QED
      BY <1>0, <2>1, <2>2, <2>3, <2>4, <2>5, MoveItems
  <2> QED
    BY <2>6, <1>1 DEF Frame
<1>6. Moved(p, q)
  <2> SUFFICES ASSUME ~q.failed PROVE Moved(p, q)
    BY DEF Moved
  <2>1. ~p.failed
    BY <1>1
  <2>2. \A i \in 1 .. Len(p.stack) : /\ q.stack[i].type = p.stack[i].type
                                     /\ q.stack[i] = p.stack[i] \/ InSlots(q.stack[i])
    BY <1>1, <1>2
  <2>3. \A r \in Registers : q.reg[r] \in {0, p.reg[r]}
    BY <1>0, <1>1, <2>1
  <2> QED
    BY <1>1, <1>2, <2>1, <2>2, <2>3 DEF Moved
<1> QED
  BY <1>1, <1>4, <1>5, <1>6 DEF OK, q

\* The item in a register goes to a slot.
LEMMA PreserveRegister ==
  ASSUME NEW p, OK(p), NEW r \in Registers
  PROVE  LET q == PreserveRegisterIfOccupied(p, r) IN
         /\ OK(q) /\ Frame(p, q) /\ Moved(p, q)
         /\ ~q.failed => q.reg[r] = 0
<1> DEFINE i == p.reg[r]
           t == p.stack[i].type
           s == FreeSlot(p, t, p.firstDynamic, MaxFunctionSlots)
           m == MarkSlotsAllocated(p, s, t)
           moved == [m EXCEPT !.reg[r] = 0, !.stack[i].slot = s]
           q == PreserveRegisterIfOccupied(p, r)
<1>1. q = IF i = 0 THEN p
          ELSE IF s = SlotUnused THEN Fail(p) ELSE Write(moved, s, Read(p, p.stack[i]))
  BY DEF PreserveRegisterIfOccupied, AllocateSlots
<1> HIDE DEF q
<1>2. CASE i = 0
  <2>1. q = p /\ Typed(p)
    BY <1>1, <1>2 DEF OK
  <2>2. Moved(p, q) /\ Frame(p, q)
    BY <2>1, CloseSelf, MovedSelf
  <2> QED
    BY <2>1, <2>2, <1>2 DEF q
<1>3. CASE i # 0 /\ s = SlotUnused
  BY <1>1, <1>3, FailOK DEF Moved, q
<1>4. CASE i # 0 /\ s # SlotUnused
  <2>1. /\ s \in Nat /\ p.firstDynamic <= s /\ s + GetTypeNumSlots(t) <= MaxFunctionSlots
        /\ Close(p, m)
    BY <1>4, Allocation DEF OK
  <2>a. s >= p.firstDynamic
    BY <2>1 DEF OK, Typed
  <2> DEFINE reg == [p.reg EXCEPT ![r] = 0]
             new == Redirected(p.stack, {i}, s)
             after == [m EXCEPT !.stack = new, !.reg = reg]
  <2>2. moved = after
    <3>1. DOMAIN m = Fields /\ m.stack = p.stack /\ m.reg = p.reg
      BY <2>1 DEF Close, Typed
    <3>2. new = [p.stack EXCEPT ![i].slot = s]
      BY DEF Redirected
    <3>3. moved = [m EXCEPT !.reg = [m.reg EXCEPT ![r] = 0], !.stack = [m.stack EXCEPT ![i].slot = s]]
      OBVIOUS
    <3> HIDE DEF m, s, new, i, t
    <3> QED
      BY <3>1, <3>2, <3>3 DEF Fields
  <2>3. reg \in [Registers -> 0 .. MaxStackHeight]
    <3>1. p.reg \in [Registers -> 0 .. MaxStackHeight] /\ 0 \in 0 .. MaxStackHeight
      BY Numbers DEF OK, Typed
    <3> HIDE DEF i, t, s, m
    <3> QED
      BY <3>1
  <2>4. \A j \in {i} \cap 1 .. Len(p.stack) :
          s + GetTypeNumSlots(p.stack[j].type) <= MaxFunctionSlots
    BY <2>1
  <2>5. ASSUME ~p.failed
        PROVE  /\ {i} \subseteq NumLocals + 1 .. Len(p.stack)
               /\ \A j \in {i} : p.stack[j].slot \in Registers => j > Base(p.blocks)
               /\ \A x \in Registers : reg[x] = IF p.reg[x] \in {i} THEN 0 ELSE p.reg[x]
    <3>1. RegistersOk(p.stack, p.reg, Base(p.blocks))
      BY <2>5 DEF OK, Sound
    <3>2. i \in Base(p.blocks) + 1 .. Len(p.stack)
      BY <3>1, <1>4 DEF RegistersOk
    <3>3. i \in NumLocals + 1 .. Len(p.stack) /\ i > Base(p.blocks)
      <4>1. /\ Len(p.stack) \in Nat /\ Base(p.blocks) \in Nat
            /\ NumLocals \in Nat /\ NumLocals <= Base(p.blocks)
        BY Height
      <4> HIDE DEF i
      <4> QED
        BY <4>1, <3>2
    <3>4. \A x \in Registers : p.reg[x] = i => x = r
      BY <3>1, <1>4 DEF RegistersOk
    <3>5. p.reg \in [Registers -> 0 .. MaxStackHeight]
      BY DEF OK, Typed
    <3>6. \A x \in Registers : reg[x] = IF x = r THEN 0 ELSE p.reg[x]
      BY <3>5
    <3> HIDE DEF reg
    <3> QED
      BY <3>3, <3>4, <3>6
  <2> HIDE DEF m, s, new, reg, t, moved
  <2>6. OK(after) /\ Frame(p, after) /\ Moved(p, after) /\ after.reg = reg
    <3> DEFINE J == {i}
    <3>1. /\ ~p.failed => /\ J \subseteq NumLocals + 1 .. Len(p.stack)
                          /\ \A j \in J : p.stack[j].slot \in Registers => j > Base(p.blocks)
          /\ ~p.failed => \A x \in Registers : reg[x] = IF p.reg[x] \in J THEN 0 ELSE p.reg[x]
          /\ \A j \in J \cap 1 .. Len(p.stack) :
               s + GetTypeNumSlots(p.stack[j].type) <= MaxFunctionSlots
          /\ s \in Nat /\ new = Redirected(p.stack, J, s)
      BY <2>1, <2>4, <2>5 DEF new
    <3> HIDE DEF i, after, J
    <3>2. MayMove(p, m, J, s, reg)
      BY <2>1, <2>a, <2>3, <3>1 DEF MayMove
    <3>3. LET x == WithMoved(p, m, J, s, reg) IN
          OK(x) /\ Frame(p, x) /\ Moved(p, x) /\ x.failed = p.failed
          /\ x.stack = Redirected(p.stack, J, s) /\ x.reg = reg
      BY <3>2, RedirectOK
    <3> QED
      BY <3>1, <3>3 DEF after, WithMoved
  <2>7. Close(after, q)
    BY <1>1, <1>4, <2>2, <2>6, WriteClose DEF OK
  <2>8. OK(q) /\ Frame(after, q) /\ Moved(after, q)
    BY <2>6, <2>7, CloseOK, MovedSelf
  <2>9. Frame(p, q) /\ Moved(p, q)
    BY <2>6, <2>8, MovedTwice DEF Frame
  <2>10. q.reg[r] = 0
    <3>1. reg[r] = 0
      BY DEF reg, OK, Typed
    <3> QED
      BY <3>1, <2>6, <2>7 DEF Close
  <2> QED
    BY <2>8, <2>9, <2>10 DEF q
<1> QED
  BY <1>2, <1>3, <1>4

\* The same under a condition.
LEMMA PreserveIfOK ==
  ASSUME NEW p, OK(p), NEW r \in Registers, NEW condition \in BOOLEAN
  PROVE  LET q == PreserveIf(condition, p, r) IN
         /\ OK(q) /\ Frame(p, q) /\ Moved(p, q)
         /\ ~q.failed /\ condition => q.reg[r] = 0
<1>1. CASE condition
  BY <1>1, PreserveRegister DEF PreserveIf
<1>2. CASE ~condition
  <2>1. Frame(p, p) /\ Moved(p, p)
    BY CloseSelf, MovedSelf DEF OK
  <2> QED
    BY <1>2, <2>1 DEF PreserveIf
<1> QED
  BY <1>1, <1>2

\* A register that is free stays free.
LEMMA StaysFree ==
  ASSUME NEW p, NEW q, Moved(p, q), NEW r \in Registers, ~q.failed, p.reg[r] = 0
  PROVE  q.reg[r] = 0
BY DEF Moved

\* No item stays in a register.
LEMMA PreserveBoth ==
  ASSUME NEW p, OK(p)
  PROVE  LET q == PreserveRegisters(p) IN
         /\ OK(q) /\ Frame(p, q) /\ Moved(p, q)
         /\ ~q.failed => \A r \in Registers : q.reg[r] = 0
<1> DEFINE a == PreserveRegisterIfOccupied(p, Fp0)
           q == PreserveRegisterIfOccupied(a, Reg0)
<1>1. Fp0 \in Registers /\ Reg0 \in Registers
  BY Numbers
<1>2. OK(a) /\ Frame(p, a) /\ Moved(p, a) /\ (~a.failed => a.reg[Fp0] = 0)
  BY <1>1, PreserveRegister
<1> HIDE DEF a
<1>3. OK(q) /\ Frame(a, q) /\ Moved(a, q) /\ (~q.failed => q.reg[Reg0] = 0)
  BY <1>1, <1>2, PreserveRegister
<1> HIDE DEF q
<1>4. Frame(p, q) /\ Moved(p, q)
  BY <1>2, <1>3, MovedTwice DEF Frame
<1>5. ~q.failed => q.reg[Fp0] = 0
  <2>1. ~q.failed => ~a.failed
    BY <1>3 DEF Moved
  <2> QED
    BY <1>1, <1>2, <1>3, <2>1, StaysFree
<1>6. ~q.failed => \A r \in Registers : q.reg[r] = 0
  BY SMTT(40), <1>3, <1>5, Numbers
<1> QED
  BY <1>3, <1>4, <1>6 DEF PreserveRegisters, a, q

\* What stays in a register is the top.
LEMMA PreserveOthers ==
  ASSUME NEW p, OK(p)
  PROVE  LET q == PreserveNonTopRegisters(p) IN
         /\ OK(q) /\ Frame(p, q) /\ Moved(p, q)
         /\ ~q.failed => \A r \in Registers : q.reg[r] \in {0, Len(q.stack)}
<1> DEFINE a == PreserveIf(p.reg[Reg0] # Len(p.stack), p, Reg0)
           q == PreserveIf(a.reg[Fp0] # Len(a.stack), a, Fp0)
<1>1. Fp0 \in Registers /\ Reg0 \in Registers
  BY Numbers
<1>2. OK(a) /\ Frame(p, a) /\ Moved(p, a) /\ (~a.failed /\ p.reg[Reg0] # Len(p.stack) => a.reg[Reg0] = 0)
  BY <1>1, PreserveIfOK
<1> HIDE DEF a
<1>3. OK(q) /\ Frame(a, q) /\ Moved(a, q) /\ (~q.failed /\ a.reg[Fp0] # Len(a.stack) => q.reg[Fp0] = 0)
  BY <1>1, <1>2, PreserveIfOK
<1> HIDE DEF q
<1>4. Frame(p, q) /\ Moved(p, q)
  BY <1>2, <1>3, MovedTwice DEF Frame
<1>5. ASSUME ~q.failed PROVE q.reg[Fp0] \in {0, Len(q.stack)} /\ q.reg[Reg0] \in {0, Len(q.stack)}
  <2>1. /\ ~a.failed /\ Len(a.stack) = Len(p.stack) /\ Len(q.stack) = Len(a.stack)
        /\ q.reg[Fp0] \in {0, a.reg[Fp0]} /\ q.reg[Reg0] \in {0, a.reg[Reg0]}
        /\ a.reg[Reg0] \in {0, p.reg[Reg0]}
    BY <1>1, <1>2, <1>3, <1>5 DEF Moved
  <2> QED
    BY <2>1, <1>2, <1>3, <1>5
<1>6. ~q.failed => \A r \in Registers : q.reg[r] \in {0, Len(q.stack)}
  BY <1>5, Numbers
<1> QED
  BY <1>3, <1>4, <1>6 DEF PreserveNonTopRegisters, a, q

\* An item in a register is in that of its type.
LEMMA InSlotsOrRegister ==
  ASSUME NEW p, OK(p), NEW i \in 1 .. Len(p.stack)
  PROVE  /\ p.stack[i] \in Item /\ p.stack[i].type \in ValueType /\ p.stack[i].slot \in Nat
         /\ p.stack[i].slot \in Registers <=> p.stack[i].slot = RegisterOf(p.stack[i].type)
         /\ p.stack[i].slot \notin Registers => InSlots(p.stack[i])
<1>1. StackOk(p.stack)
  BY DEF OK, Typed
<1>2. p.stack[i] \in Item /\ (p.stack[i].slot = RegisterOf(p.stack[i].type) \/ InSlots(p.stack[i]))
  BY <1>1 DEF StackOk
<1> QED
  BY <1>2, ItemFacts

\* An item of the innermost scope in a register is the one the register is in use for.
LEMMA InRegisterFacts ==
  ASSUME NEW p, OK(p), ~p.failed, NEW i \in Base(p.blocks) + 1 .. Len(p.stack),
         IsRegister(p.stack[i].slot)
  PROVE  /\ p.stack[i].slot = RegisterOf(p.stack[i].type)
         /\ p.reg[RegisterOf(p.stack[i].type)] = i
<1>1. i \in 1 .. Len(p.stack)
  BY Height
<1>2. p.stack[i].slot = RegisterOf(p.stack[i].type)
  BY <1>1, InSlotsOrRegister DEF IsRegister
<1>3. p.reg[p.stack[i].slot] = i
  BY DEF OK, Sound, RegistersOk, IsRegister
<1> QED
  BY <1>2, <1>3

\* The top goes to its register, and what was there to a slot.
LEMMA CopyTopOK ==
  ASSUME NEW p, OK(p), Len(p.stack) > Base(p.blocks)
  PROVE  LET q == CopyTopToRegister(p)
             r == RegisterOf(Top(p, 0).type) IN
         /\ OK(q) /\ Frame(p, q) /\ Moved(p, q)
         /\ ~q.failed => q.reg[r] \in {0, Len(p.stack)}
<1> DEFINE q == CopyTopToRegister(p)
           n == Len(p.stack)
           r == RegisterOf(Top(p, 0).type)
           a == PreserveRegisterIfOccupied(p, r)
<1>1. Top(p, 0) = p.stack[n] /\ n \in Base(p.blocks) + 1 .. n /\ n > 0 /\ r \in Registers
  <2>1. n \in Nat /\ Base(p.blocks) \in Nat
    BY Height
  <2> QED
    BY <2>1, Types DEF Top
<1>2. TopInRegister(p, 0) <=> IsRegister(p.stack[n].slot)
  BY <1>1 DEF TopInRegister
<1>3. CASE IsRegister(p.stack[n].slot)
  <2>1. q = p
    BY <1>2, <1>3 DEF CopyTopToRegister
  <2>2. Frame(p, p) /\ Moved(p, p)
    BY CloseSelf, MovedSelf DEF OK
  <2>3. ~p.failed => p.reg[r] = n
    BY <1>1, <1>3, InRegisterFacts
  <2> QED
    BY <2>1, <2>2, <2>3
<1>4. CASE ~IsRegister(p.stack[n].slot)
  <2>1. q = IF a.failed THEN a ELSE Write(a, r, Read(a, Top(a, 0)))
    BY <1>2, <1>4 DEF CopyTopToRegister, Then
  <2>2. OK(a) /\ Frame(p, a) /\ Moved(p, a) /\ (~a.failed => a.reg[r] = 0)
    BY <1>1, PreserveRegister
  <2> HIDE DEF a, q, r
  <2>3. Close(a, q)
    BY <2>1, <2>2, WriteClose, CloseSelf DEF OK
  <2>4. OK(q) /\ Frame(a, q) /\ Moved(a, q)
    BY <2>2, <2>3, CloseOK, MovedSelf
  <2>5. Frame(p, q) /\ Moved(p, q)
    BY <2>2, <2>4, MovedTwice DEF Frame
  <2>6. ~q.failed => q.reg[r] = 0
    BY <2>2, <2>3 DEF Close
  <2> QED
    BY <2>4, <2>5, <2>6 DEF q, r
<1> QED
  BY <1>3, <1>4

-----------------------------------------------------------------------------
(* Copy on write                                                           *)

\* The items of this scope are not locals.
LEMMA ScopeBaseFacts ==
  ASSUME NEW p, OK(p)
  PROVE  ScopeBase(p) \in Nat /\ NumLocals <= ScopeBase(p) /\ ScopeBase(p) <= Base(p.blocks)
<1> DEFINE others == {k \in DOMAIN p.blocks : p.blocks[k].opcode # "block"}
<1>1. BlocksOk(p.blocks)
  BY DEF OK
<1>2. Len(p.blocks) \in Nat /\ Len(p.blocks) >= 1 /\ DOMAIN p.blocks = 1 .. Len(p.blocks)
  BY <1>1 DEF BlocksOk
<1>3. others \subseteq 0 .. Len(p.blocks) /\ others # {} /\ 0 \in Nat /\ Len(p.blocks) \in Int
  <2>1. 1 \in others
    BY <1>1, <1>2 DEF BlocksOk
  <2> QED
    BY <1>2, <2>1
<1>4. Max(others) \in others
  <2> HIDE DEF others
  <2> QED
    BY <1>3, GreatestInRange
<1>5. Max(others) \in 1 .. Len(p.blocks)
  BY <1>2, <1>4
<1> DEFINE k == Max(others)
<1>6. ScopeBase(p) = p.blocks[k].base
  BY DEF ScopeBase
<1> HIDE DEF k
<1>7. k \in 1 .. Len(p.blocks)
  BY <1>5 DEF k
<1>8. /\ p.blocks[k].exit \in Nat /\ p.blocks[k].base \in Nat
      /\ NumLocals <= p.blocks[k].exit /\ p.blocks[k].exit <= p.blocks[k].base
      /\ p.blocks[k].base <= Base(p.blocks)
  BY <1>1, <1>7, ScopeFacts
<1> QED
  BY <1>6, <1>8, Numbers

\* The items that refer to a local have its type.
LEMMA ReferenceFacts ==
  ASSUME NEW p, OK(p), ~p.failed, NEW i \in 1 .. NumLocals
  PROVE  /\ i \in 1 .. Len(p.stack)
         /\ InSlots(p.stack[i]) /\ p.stack[i].slot < p.firstConst
         /\ p.stack[i].slot + GetTypeNumSlots(p.stack[i].type) <= p.firstConst
         /\ p.stack[i].type \in ValueType /\ p.stack[i].slot \in Nat
         /\ \A j \in 1 .. Len(p.stack) : p.stack[j].slot = p.stack[i].slot => p.stack[j] = p.stack[i]
<1>1. LocalsOk(p.stack, p.firstConst)
  BY DEF OK, Sound
<1>2. i \in 1 .. Len(p.stack) /\ i \in Nat
  BY Height
<1>3. /\ p.firstConst \in Nat /\ p.firstConst <= MaxFunctionSlots
  <2>1. p.firstConst \in Nat /\ p.constEnd \in Nat /\ p.firstDynamic \in Nat
    BY DEF OK, Typed
  <2> QED
    BY <2>1, Numbers DEF OK, Bounds
<1>4. /\ p.stack[i].slot \in Nat /\ p.stack[i].type \in ValueType
      /\ GetTypeNumSlots(p.stack[i].type) \in 1 .. 2
  BY <1>2, InSlotsOrRegister, Types
<1>5. p.stack[i].slot + GetTypeNumSlots(p.stack[i].type) <= p.firstConst
  BY <1>1 DEF LocalsOk
<1>6. InSlots(p.stack[i]) /\ p.stack[i].slot < p.firstConst
  BY <1>3, <1>4, <1>5, Numbers DEF InSlots
<1>7. ASSUME NEW j \in 1 .. Len(p.stack), p.stack[j].slot = p.stack[i].slot
      PROVE  p.stack[j] = p.stack[i]
  <2>1. PICK k \in 1 .. NumLocals : p.stack[j] = p.stack[k]
    BY <1>1, <1>6, <1>7 DEF LocalsOk
  <2>2. k = i
    BY <1>1, <1>7, <2>1 DEF LocalsOk
  <2> QED
    BY <2>1, <2>2
<1> QED
  BY <1>2, <1>4, <1>5, <1>6, <1>7

\* A slot gets more references.
LEMMA IncrementOK ==
  ASSUME NEW p, OK(p), NEW slot \in Nat, slot < MaxFunctionSlots, NEW times \in Nat
  PROVE  LET q == IncrementSlotUsageCount(p, slot, times) IN
         OK(q) /\ Frame(p, q) /\ (~q.failed => Close(p, q))
<1> DEFINE q == IncrementSlotUsageCount(p, slot, times)
<1>1. CASE p.count[slot] + times > MaxUsageCount
  BY <1>1, FailOK DEF IncrementSlotUsageCount
<1>2. CASE ~(p.count[slot] + times > MaxUsageCount)
  <2> DEFINE count == [p.count EXCEPT ![slot] = @ + times]
  <2>1. q = [p EXCEPT !.count = count]
    BY <1>2 DEF IncrementSlotUsageCount
  <2>2. count \in [0 .. MaxFunctionSlots - 1 -> 0 .. MaxUsageCount]
    <3>1. slot \in 0 .. MaxFunctionSlots - 1 /\ MaxUsageCount \in Nat
      BY Numbers
    <3>2. p.count \in [0 .. MaxFunctionSlots - 1 -> 0 .. MaxUsageCount]
      BY DEF OK, Typed
    <3> DEFINE n == p.count[slot]
    <3>4. n \in Nat
      <4>1. n \in 0 .. MaxUsageCount
        <5> HIDE DEF q, count
        <5> QED
          BY <3>1, <3>2
      <4> QED
        BY <4>1
    <3> HIDE DEF n, count
    <3>5. ~(n + times > MaxUsageCount)
      BY <1>2 DEF n
    <3>6. n + times \in 0 .. MaxUsageCount
      BY <3>1, <3>4, <3>5
    <3>3. p.count[slot] + times \in 0 .. MaxUsageCount
      BY <3>6 DEF n
    <3> USE DEF count
    <3> QED
      BY <3>2, <3>3
  <2> HIDE DEF count
  <2>3. Close(p, q)
    BY <2>1, <2>2 DEF OK, Close, Frame, Typed, Fields
  <2> HIDE DEF q
  <2>4. OK(q) /\ Frame(p, q)
    BY <2>3, CloseOK DEF Close
  <2> QED
    BY <2>3, <2>4 DEF q
<1> QED
  BY <1>1, <1>2

\* Items that referred to x have gone to the slot s, and are counted there.
Redirecting(p, x, refs, t, s, m, after, counted) ==
  /\ s \in Nat /\ p.firstDynamic <= s /\ s + GetTypeNumSlots(t) <= MaxFunctionSlots
  /\ Close(p, m) /\ t = x.type
  /\ refs \subseteq NumLocals + 1 .. Len(p.stack) /\ IsFiniteSet(refs)
  /\ \A j \in refs : j \in 1 .. Len(p.stack) /\ p.stack[j] = x
  /\ Cardinality(refs) - 1 \in Nat /\ s < MaxFunctionSlots
  /\ OK(after) /\ Frame(p, after) /\ Moved(p, after)
  /\ OK(counted) /\ Frame(after, counted) /\ (~counted.failed => Close(after, counted))

\* The items that refer to a local move to slots that are found for them.
LEMMA ReferencesMoved ==
  ASSUME NEW p, OK(p), ~p.failed, NEW i \in 1 .. NumLocals, References(p, p.stack[i].slot) # {},
         LET t == p.stack[Min(References(p, p.stack[i].slot))].type IN
         FreeSlot(p, t, p.firstDynamic, MaxFunctionSlots) # SlotUnused
  PROVE  LET x == p.stack[i]
             refs == References(p, x.slot)
             t == p.stack[Min(refs)].type
             s == FreeSlot(p, t, p.firstDynamic, MaxFunctionSlots)
             m == MarkSlotsAllocated(p, s, t)
             after == WithMoved(p, m, refs, s, p.reg)
             counted == IncrementSlotUsageCount(after, s, Cardinality(refs) - 1) IN
         Redirecting(p, x, refs, t, s, m, after, counted)
<1> DEFINE x == p.stack[i]
           refs == References(p, x.slot)
           t == p.stack[Min(refs)].type
           s == FreeSlot(p, t, p.firstDynamic, MaxFunctionSlots)
           m == MarkSlotsAllocated(p, s, t)
           after == WithMoved(p, m, refs, s, p.reg)
           counted == IncrementSlotUsageCount(after, s, Cardinality(refs) - 1)
<1>0. refs # {} /\ s # SlotUnused
  OBVIOUS
<1>1. /\ s \in Nat /\ p.firstDynamic <= s /\ s + GetTypeNumSlots(t) <= MaxFunctionSlots
      /\ Close(p, m)
  BY Allocation DEF OK
<1>2. refs \subseteq NumLocals + 1 .. Len(p.stack) /\ IsFiniteSet(refs)
  <2>1. ScopeBase(p) \in Nat /\ NumLocals <= ScopeBase(p) /\ NumLocals \in Nat /\ Len(p.stack) \in Nat
    BY ScopeBaseFacts, Height
  <2>2. refs \subseteq ScopeBase(p) + 1 .. Len(p.stack)
    BY DEF References
  <2>3. ScopeBase(p) + 1 .. Len(p.stack) \subseteq NumLocals + 1 .. Len(p.stack)
    BY <2>1
  <2>4. IsFiniteSet(NumLocals + 1 .. Len(p.stack))
    <3> DEFINE a == NumLocals + 1
               b == Len(p.stack)
    <3>1. a \in Int /\ b \in Int
      BY <2>1
    <3> HIDE DEF a, b
    <3>2. IsFiniteSet(a .. b)
      BY <3>1, FS_Interval
    <3> QED
      BY <3>2 DEF a, b
  <2> HIDE DEF refs
  <2>5. refs \subseteq NumLocals + 1 .. Len(p.stack)
    BY <2>2, <2>3
  <2> QED
    BY <2>4, <2>5, FS_Subset
<1>3. \A j \in refs : j \in 1 .. Len(p.stack) /\ p.stack[j] = x
  <2>1. \A j \in refs : j \in 1 .. Len(p.stack)
    BY <1>2, Height
  <2>2. \A j \in refs : p.stack[j].slot = x.slot
    BY DEF References
  <2> QED
    BY <2>1, <2>2, ReferenceFacts
<1>4. Min(refs) \in refs /\ t = x.type
  <2>1. NumLocals + 1 \in Nat /\ Len(p.stack) \in Int
    BY Height
  <2> DEFINE low == NumLocals + 1
  <2>2. Min(refs) \in refs
    <3> HIDE DEF refs, low
    <3>1. refs \subseteq low .. Len(p.stack) /\ low \in Nat
      BY <1>2, <2>1 DEF low
    <3> QED
      BY <1>0, <2>1, <3>1, LeastInRange
  <2> QED
    BY <1>3, <2>2
<1>5. InSlots(x) /\ x \in Item /\ x.slot \notin Registers
  <2>1. InSlots(x) /\ i \in 1 .. Len(p.stack)
    BY ReferenceFacts
  <2> QED
    BY <2>1, InSlotsOrRegister, ItemFacts
<1>7. MayMove(p, m, refs, s, p.reg)
  <2>1. \A j \in refs \cap 1 .. Len(p.stack) :
          s + GetTypeNumSlots(p.stack[j].type) <= MaxFunctionSlots
    BY <1>1, <1>3, <1>4
  <2>2. \A j \in refs : p.stack[j].slot \notin Registers
    BY <1>3, <1>5
  <2>3. p.reg \in [Registers -> 0 .. MaxStackHeight]
    BY DEF OK, Typed
  <2>4. \A r \in Registers : p.reg[r] \notin refs
    <3> TAKE r \in Registers
    <3>1. CASE p.reg[r] = 0
      <4>1. 0 \notin refs
        BY <1>2, Numbers
      <4> QED
        BY <3>1, <4>1
    <3>2. CASE p.reg[r] # 0
      <4>1. p.stack[p.reg[r]].slot = r
        BY <3>2 DEF OK, Sound, RegistersOk
      <4> QED
        BY <4>1, <2>2
    <3> QED
      BY <3>1, <3>2
  <2>5. s >= p.firstDynamic
    BY <1>1 DEF OK, Typed
  <2> HIDE DEF refs, s, m, t
  <2> QED
    BY <1>1, <1>2, <2>1, <2>2, <2>3, <2>4, <2>5 DEF MayMove
<1> HIDE DEF after
<1>8. OK(after) /\ Frame(p, after) /\ Moved(p, after)
  <2> HIDE DEF refs, s, m, t
  <2> QED
    BY <1>7, RedirectOK DEF after
<1>9. Cardinality(refs) - 1 \in Nat
  <2>1. Cardinality(refs) \in Nat /\ Cardinality(refs) # 0
    <3> HIDE DEF refs
    <3> QED
      BY <1>0, <1>2, FS_CardinalityType, FS_EmptySet
  <2> QED
    BY <2>1
<1>10. s < MaxFunctionSlots
  <2>1. GetTypeNumSlots(t) \in 1 .. 2
    BY Types
  <2> HIDE DEF s, t
  <2> QED
    BY <1>1, <2>1, Numbers
<1> HIDE DEF counted
<1>11. OK(counted) /\ Frame(after, counted) /\ (~counted.failed => Close(after, counted))
  <2> DEFINE times == Cardinality(refs) - 1
  <2>1. counted = IncrementSlotUsageCount(after, s, times)
    BY DEF counted
  <2> HIDE DEF counted, s, times
  <2>2. times \in Nat /\ s \in Nat
    BY <1>1, <1>9 DEF times
  <2> QED
    BY <1>8, <1>10, <2>1, <2>2, IncrementOK
<1> HIDE DEF counted, after
<1> QED
  BY <1>1, <1>2, <1>3, <1>4, <1>8, <1>9, <1>10, <1>11 DEF Redirecting, after, counted

\* Before a local is written, who refers to it moves to a copy.
LEMMA PreserveLocalOK ==
  ASSUME NEW p, OK(p), ~p.failed, NEW i \in 1 .. NumLocals
  PROVE  LET q == PreserveLocal(p, i) IN
         OK(q) /\ Frame(p, q) /\ Moved(p, q)
<1> DEFINE x == p.stack[i]
           refs == References(p, x.slot)
           t == p.stack[Min(refs)].type
           s == FreeSlot(p, t, p.firstDynamic, MaxFunctionSlots)
           m == MarkSlotsAllocated(p, s, t)
           Copied(a) == IF a.failed THEN a ELSE WriteSlot(a, s, Read(a, x))
           moved == [m EXCEPT !.stack = [j \in DOMAIN @ |-> IF j \in refs THEN [@[j] EXCEPT !.slot = s]
                                                            ELSE @[j]]]
           after == WithMoved(p, m, refs, s, p.reg)
           counted == IncrementSlotUsageCount(after, s, Cardinality(refs) - 1)
           q == PreserveLocal(p, i)
<1>1. q = IF refs = {} THEN p
          ELSE IF s = SlotUnused THEN Fail(p)
          ELSE Copied(IncrementSlotUsageCount(moved, s, Cardinality(refs) - 1))
  BY DEF PreserveLocal, AllocateSlots, Then
<1> HIDE DEF q
<1>2. CASE refs = {}
  <2>1. Frame(p, p) /\ Moved(p, p)
    BY CloseSelf, MovedSelf DEF OK
  <2> QED
    BY <1>1, <1>2, <2>1 DEF q
<1>3. CASE refs # {} /\ s = SlotUnused
  BY <1>1, <1>3, FailOK DEF Moved, q
<1>4. CASE refs # {} /\ s # SlotUnused
  <2>1. Redirecting(p, x, refs, t, s, m, after, counted)
    BY <1>4, ReferencesMoved
  <2>2. moved = after
    <3>1. DOMAIN m = Fields /\ m.stack = p.stack /\ m.reg = p.reg
      BY <2>1 DEF Redirecting, Close, Typed
    <3> HIDE DEF m, s, refs
    <3> QED
      BY <3>1 DEF Fields, WithMoved, Redirected
  <2>3. q = Copied(counted)
    BY <1>1, <1>4, <2>2
  <2> HIDE DEF after, moved, m, counted
  <2>4. OK(after) /\ Frame(p, after) /\ Moved(p, after)
    BY <2>1 DEF Redirecting
  <2>5. OK(counted) /\ Frame(after, counted) /\ (~counted.failed => Close(after, counted))
    BY <2>1 DEF Redirecting
  <2>6. CASE counted.failed
    <3>1. q = counted
      BY <2>3, <2>6
    <3> QED
      BY <2>4, <2>5, <2>6, <3>1 DEF Frame, Moved, q
  <2>7. CASE ~counted.failed
    <3>1. q = WriteSlot(counted, s, Read(counted, x))
      BY <2>3, <2>7
    <3> DEFINE words == Read(counted, x)
    <3>2. Len(words) \in Nat /\ s + Len(words) <= Reg0
      <4>1. Len(words) = GetTypeNumSlots(x.type) /\ GetTypeNumSlots(x.type) \in Nat
        BY ReadLength, Types
      <4> HIDE DEF words, s, t, x
      <4> QED
        BY <2>1, <4>1, Numbers DEF Redirecting
    <3> HIDE DEF words, s
    <3>3. Close(counted, q)
      BY <2>1, <2>5, <3>1, <3>2, WriteSlotClose DEF OK, words, Redirecting
    <3>4. OK(q) /\ Close(after, q)
      BY <2>4, <2>5, <2>7, <3>3, CloseOK, CloseTwice DEF OK
    <3>5. Frame(p, q) /\ Moved(p, q)
      BY <2>4, <3>4, MovedSelf, MovedTwice DEF Frame, Close
    <3> QED
      BY <3>4, <3>5 DEF q
  <2> QED
    BY <2>6, <2>7
<1> QED
  BY <1>2, <1>3, <1>4

-----------------------------------------------------------------------------
(* Values that are copied to the slots of results                          *)

\* From an even slot there is room for two.
LEMMA EvenRoom ==
  ASSUME NEW s \in Nat, s % 2 = 0, s < MaxFunctionSlots
  PROVE  s + 2 <= MaxFunctionSlots /\ (s + 2) % 2 = 0
<1>1. MaxFunctionSlots \in Nat /\ MaxFunctionSlots % 2 = 0
  BY LimitsAssumption
<1>2. s + 1 # MaxFunctionSlots
  BY <1>1
<1> QED
  BY <1>1, <1>2

\* One value is copied.
LEMMA CopyItemOK ==
  ASSUME NEW p, NEW from \in Nat, NEW q, Copying(p, from, q),
         NEW i \in 1 .. Len(p.stack), i >= from, NEW dest \in Nat,
         dest + GetTypeNumSlots(p.stack[i].type) <= MaxFunctionSlots
  PROVE  LET a == CopyItem(q, i, dest) IN
         /\ Copying(p, from, a) /\ a.failed = q.failed
<1> DEFINE c == CopyToSlot(q, dest, i)
           new == Redirected(q.stack, {i}, dest)
           a == CopyItem(q, i, dest)
<1>1. Len(q.stack) = Len(p.stack) /\ i \in 1 .. Len(q.stack) /\ q.stack[i].type = p.stack[i].type
  BY DEF Copying
<1>2. Close(q, c)
  <2>1. dest + GetTypeNumSlots(q.stack[i].type) <= Reg0
    <3>1. GetTypeNumSlots(p.stack[i].type) \in Nat
      BY Types
    <3> QED
      BY <1>1, <3>1, Numbers
  <2> QED
    BY <2>1, CopyClose DEF Copying
<1> HIDE DEF c
<1>3. a = [c EXCEPT !.stack = new]
  <2>1. new = [q.stack EXCEPT ![i].slot = dest]
    BY DEF Redirected
  <2>2. a = [c EXCEPT !.stack[i].slot = dest]
    BY DEF CopyItem, c
  <2>3. DOMAIN c = Fields /\ c.stack = q.stack
    BY <1>2 DEF Close, Typed
  <2> HIDE DEF a, new
  <2> QED
    BY <2>1, <2>2, <2>3 DEF Fields
<1>4. /\ StackOk(new) /\ Len(new) = Len(q.stack)
      /\ \A j \in 1 .. Len(q.stack) :
           /\ new[j].type = q.stack[j].type
           /\ j \notin {i} => new[j] = q.stack[j]
  <2> DEFINE J == {i}
  <2>1. \A j \in J \cap 1 .. Len(q.stack) : dest + GetTypeNumSlots(q.stack[j].type) <= MaxFunctionSlots
    BY <1>1
  <2>2. StackOk(q.stack)
    BY DEF Copying, Typed
  <2> HIDE DEF J
  <2>3. LET x == Redirected(q.stack, J, dest) IN
        /\ StackOk(x) /\ Len(x) = Len(q.stack)
        /\ \A j \in 1 .. Len(q.stack) :
             /\ x[j].type = q.stack[j].type
             /\ j \notin J => x[j] = q.stack[j]
    BY <2>1, <2>2, MovedStack
  <2> QED
    BY <2>3 DEF J
<1> HIDE DEF new, a
<1>5. /\ DOMAIN a = Fields /\ a.stack = new /\ a.reg = c.reg /\ a.count = c.count
      /\ a.top = c.top /\ a.maxSlots = c.maxSlots /\ a.wild = c.wild /\ a.failed = c.failed
      /\ a.constEnd = c.constEnd /\ a.ignored = c.ignored /\ Frame(c, a)
  BY <1>2, <1>3 DEF Close, Typed, Fields, Frame
<1>6. Typed(a)
  BY <1>2, <1>4, <1>5 DEF Close, Typed, Frame
<1>7. Frame(p, a)
  BY <1>2, <1>5 DEF Close, Frame, Copying
<1>8. \A j \in 1 .. Len(p.stack) :
        a.stack[j].type = p.stack[j].type /\ (j < from => a.stack[j] = p.stack[j])
  <2> TAKE j \in 1 .. Len(p.stack)
  <2>1. q.stack[j].type = p.stack[j].type /\ (j < from => q.stack[j] = p.stack[j])
    BY DEF Copying
  <2>2. j < from => j \notin {i}
    BY <1>1
  <2> QED
    BY <1>1, <1>4, <1>5, <2>1, <2>2
<1>9. a.top = q.top
  <2>1. c.top = q.top
    <3>1. \A x, y : [x EXCEPT !.mem = y].top = x.top /\ [x EXCEPT !.reach = y].top = x.top
          /\ [x EXCEPT !.wild = y].top = x.top
      OBVIOUS
    <3> QED
      BY <3>1 DEF c, CopyToSlot, WriteSlot, Write
  <2> QED
    BY <1>5, <2>1
<1> QED
  BY <1>1, <1>2, <1>4, <1>5, <1>6, <1>7, <1>8, <1>9 DEF Close, Copying, a

\* There may be no room for copies.
LEMMA CopyingFails ==
  ASSUME NEW p, NEW from, NEW q, Copying(p, from, q)
  PROVE  Copying(p, from, Fail(q)) /\ Fail(q).failed
<1> DEFINE a == [q EXCEPT !.failed = TRUE]
<1>1. DOMAIN q = Fields
  BY DEF Copying, Typed
<1>2. /\ DOMAIN a = Fields /\ a.failed = TRUE
      /\ \A f \in Fields \ {"failed"} : a[f] = q[f]
  BY <1>1 DEF Fields
<1> HIDE DEF a
<1>3. /\ a.stack = q.stack /\ a.reg = q.reg /\ a.count = q.count /\ a.top = q.top
      /\ a.maxSlots = q.maxSlots /\ a.firstConst = q.firstConst /\ a.constEnd = q.constEnd
      /\ a.firstDynamic = q.firstDynamic /\ a.ignored = q.ignored /\ a.wild = q.wild
      /\ a.blocks = q.blocks /\ a.skip = q.skip /\ a.to = q.to
  BY <1>2 DEF Fields
<1>4. Typed(a)
  BY <1>2, <1>3 DEF Copying, Typed
<1>5. Frame(p, a)
  BY <1>2, <1>3 DEF Copying, Frame
<1>6. Copying(p, from, a)
  BY <1>3, <1>4, <1>5 DEF Copying
<1>7. Fail(q) = a
  BY DEF Fail, a
<1> QED
  BY <1>2, <1>6, <1>7

\* Copies need more slots of the stack.
LEMMA CopyingRaised ==
  ASSUME NEW p, NEW from, NEW q, Copying(p, from, q), NEW m \in Nat
  PROVE  LET a == [q EXCEPT !.maxSlots = m] IN Copying(p, from, a) /\ a.failed = q.failed
<1> DEFINE a == [q EXCEPT !.maxSlots = m]
<1>1. DOMAIN q = Fields
  BY DEF Copying, Typed
<1>2. /\ DOMAIN a = Fields /\ a.maxSlots = m
      /\ \A f \in Fields \ {"maxSlots"} : a[f] = q[f]
  BY <1>1 DEF Fields
<1> HIDE DEF a
<1>3. /\ a.stack = q.stack /\ a.reg = q.reg /\ a.count = q.count /\ a.top = q.top
      /\ a.failed = q.failed /\ a.firstConst = q.firstConst /\ a.constEnd = q.constEnd
      /\ a.firstDynamic = q.firstDynamic /\ a.ignored = q.ignored /\ a.wild = q.wild
      /\ a.blocks = q.blocks /\ a.skip = q.skip /\ a.to = q.to
  BY <1>2 DEF Fields
<1>4. Typed(a)
  BY <1>2, <1>3 DEF Copying, Typed
<1>5. Frame(p, a)
  BY <1>2, <1>3 DEF Copying, Frame
<1>6. Copying(p, from, a)
  BY <1>3, <1>4, <1>5 DEF Copying
<1> QED
  BY <1>3, <1>6 DEF a

\* The invariant of the loop of CopyStackSlots.
CopyState(p, from, s) ==
  /\ s = [o |-> s.o, temp |-> s.temp] /\ s.temp \in Nat /\ s.temp % 2 = 0
  /\ Copying(p, from, s.o)

\* The second way to copy of MayCopy, for the k-th item.
Copied(p, target, from, len, k) ==
  /\ len \in Nat /\ target \in Nat /\ from \in Nat /\ target >= 1
  /\ from + len <= Len(p.stack) + 1 /\ target + len <= from
  /\ k \in 1 .. len
  /\ Fits(p.stack[target + k - 1], p.stack[from + k - 1].type)

\* A step of the loop: a value that a later step would overwrite is copied away first.
LEMMA CopyNextOK ==
  ASSUME NEW p, NEW target, NEW from, NEW len, NEW k, Copied(p, target, from, len, k),
         NEW s, CopyState(p, from, s)
  PROVE  CopyState(p, from, CopyNext(s, target, from, len, k))
<1> DEFINE i == from + k - 1
           d == target + k - 1
           dest == s.o.stack[d].slot
           end == dest + GetTypeNumSlots(s.o.stack[i].type) - 1
           moved(c) == [CopyItem(s.o, c, s.temp) EXCEPT !.maxSlots = Max({@, s.temp + 2})]
           colliding == {c \in i + 1 .. from + len - 1 :
                           \/ dest \in SlotsOf(s.o.stack[c])
                           \/ end = s.o.stack[c].slot}
           after == IF colliding = {} THEN [s EXCEPT !.o = CopyItem(@, i, dest)]
                    ELSE IF s.temp >= MaxFunctionSlots THEN [s EXCEPT !.o = Fail(@)]
                    ELSE [o |-> CopyItem(moved(Min(colliding)), i, dest), temp |-> s.temp + 2]
           x == CopyNext(s, target, from, len, k)
<1>1. x = IF s.o.failed \/ dest = s.o.stack[i].slot THEN s ELSE after
  BY DEF CopyNext
<1>2. /\ len \in Nat /\ target \in Nat /\ from \in Nat /\ target >= 1
      /\ from + len <= Len(p.stack) + 1 /\ target + len <= from /\ k \in 1 .. len
      /\ Fits(p.stack[d], p.stack[i].type)
  BY DEF Copied
<1>3. Copying(p, from, s.o) /\ s.temp \in Nat /\ s.temp % 2 = 0 /\ s = [o |-> s.o, temp |-> s.temp]
  BY DEF CopyState
<1>4. Len(p.stack) \in Nat /\ Len(s.o.stack) = Len(p.stack)
  BY <1>3 DEF Copying, Typed, StackOk
<1>5. i \in 1 .. Len(p.stack) /\ i >= from /\ d \in 1 .. Len(p.stack) /\ d < from
  BY SMTT(40), <1>2, <1>4
<1>6. s.o.stack[d] = p.stack[d] /\ s.o.stack[i].type = p.stack[i].type
  BY <1>3, <1>5 DEF Copying
<1>7. dest \in Nat /\ dest + GetTypeNumSlots(p.stack[i].type) <= MaxFunctionSlots
  BY <1>2, <1>6 DEF Fits
<1>8. colliding \subseteq i + 1 .. from + len - 1
  OBVIOUS
<1> HIDE DEF dest, end, d, x, moved, colliding
<1>9. CASE s.o.failed \/ dest = s.o.stack[i].slot
  BY <1>1, <1>9 DEF CopyState, x
<1>10. CASE ~(s.o.failed \/ dest = s.o.stack[i].slot) /\ colliding = {}
  <2> DEFINE a == CopyItem(s.o, i, dest)
  <2>1. Copying(p, from, a)
    <3> HIDE DEF i
    <3> QED
      BY <1>2, <1>3, <1>5, <1>7, CopyItemOK
  <2> HIDE DEF a, i
  <2>2. x = [o |-> a, temp |-> s.temp]
    <3>1. x = [s EXCEPT !.o = a]
      BY <1>1, <1>10 DEF a
    <3> QED
      BY <3>1, <1>3
  <2> QED
    BY <2>1, <2>2, <1>3 DEF CopyState, x
<1>11. CASE ~(s.o.failed \/ dest = s.o.stack[i].slot) /\ colliding # {} /\ s.temp >= MaxFunctionSlots
  <2>1. Copying(p, from, Fail(s.o))
    BY <1>3, CopyingFails
  <2> HIDE DEF i
  <2>2. x = [o |-> Fail(s.o), temp |-> s.temp]
    <3>1. x = [s EXCEPT !.o = Fail(s.o)]
      BY <1>1, <1>11
    <3> QED
      BY <3>1, <1>3
  <2> QED
    BY <2>1, <2>2, <1>3 DEF CopyState, x
<1>12. CASE ~(s.o.failed \/ dest = s.o.stack[i].slot) /\ colliding # {} /\ ~(s.temp >= MaxFunctionSlots)
  <2> DEFINE c == Min(colliding)
             a == CopyItem(s.o, c, s.temp)
             m == Max({a.maxSlots, s.temp + 2})
             b == [a EXCEPT !.maxSlots = m]
             e == CopyItem(b, i, dest)
             low == i + 1
             high == from + len - 1
  <2>1. c \in 1 .. Len(p.stack) /\ c >= from
    <3>1. low \in Nat /\ high \in Int /\ colliding \subseteq low .. high
      BY <1>2, <1>5, <1>8
    <3>2. colliding # {}
      BY <1>12
    <3>3. c \in colliding
      <4> HIDE DEF low, high, colliding
      <4> QED
        BY <3>1, <3>2, LeastInRange
    <3>4. c \in i + 1 .. from + len - 1
      BY <3>3, <1>8
    <3> DEFINE n == Len(p.stack)
    <3>5. n \in Nat /\ i \in 1 .. n /\ i >= from /\ from + len <= n + 1
      BY <1>2, <1>4, <1>5
    <3>6. c \in i + 1 .. from + len - 1 /\ from \in Nat /\ len \in Nat
      BY <3>4, <1>2
    <3> HIDE DEF c, n, i
    <3>7. c \in 1 .. n /\ c >= from
      BY <3>5, <3>6
    <3> QED
      BY <3>7 DEF n
  <2>2. s.temp + 2 <= MaxFunctionSlots /\ (s.temp + 2) % 2 = 0
    BY <1>3, <1>12, EvenRoom, LimitsAssumption
  <2>3. s.temp + GetTypeNumSlots(p.stack[c].type) <= MaxFunctionSlots
    <3> DEFINE g == GetTypeNumSlots(p.stack[c].type)
    <3>1. g \in 1 .. 2
      BY Types
    <3> HIDE DEF g
    <3>2. s.temp + g <= MaxFunctionSlots
      BY <3>1, <2>2, <1>3, Numbers
    <3> QED
      BY <3>2 DEF g
  <2> HIDE DEF c, i
  <2>4. Copying(p, from, a)
    BY <2>1, <2>3, <1>2, <1>3, CopyItemOK
  <2> HIDE DEF a
  <2>5. m \in Nat
    <3>1. a.maxSlots \in Nat
      BY <2>4 DEF Copying, Typed
    <3>2. s.temp + 2 \in Int /\ a.maxSlots \in Int
      BY <3>1, <1>3
    <3>3. m = IF a.maxSlots >= s.temp + 2 THEN a.maxSlots ELSE s.temp + 2
      BY <3>2, MaxOfTwo
    <3> QED
      BY <3>1, <3>3, <1>3
  <2> HIDE DEF m
  <2>6. Copying(p, from, b)
    BY <2>4, <2>5, CopyingRaised
  <2> HIDE DEF b
  <2>7. Copying(p, from, e)
    BY <2>6, <1>2, <1>5, <1>7, CopyItemOK
  <2> HIDE DEF e
  <2>8. x = [o |-> e, temp |-> s.temp + 2]
    <3>1. x = [o |-> CopyItem(moved(Min(colliding)), i, dest), temp |-> s.temp + 2]
      BY <1>1, <1>12
    <3>2. moved(Min(colliding)) = b
      BY DEF moved, b, m, a, c
    <3> QED
      BY <3>1, <3>2 DEF e
  <2> QED
    BY <2>2, <2>7, <2>8, <1>3 DEF CopyState, x
<1> QED
  BY <1>9, <1>10, <1>11, <1>12 DEF x

\* Who pointed to a copy points to its slot again.
LEMMA RestoredOK ==
  ASSUME NEW p, OK(p), NEW from, NEW a, Copying(p, from, a)
  PROVE  LET q == [a EXCEPT !.stack = p.stack] IN
         OK(q) /\ Frame(p, q) /\ (~q.failed => Close(p, q)) /\ q.failed = a.failed
<1> DEFINE q == [a EXCEPT !.stack = p.stack]
<1>1. DOMAIN a = Fields
  BY DEF Copying, Typed
<1>2. /\ DOMAIN q = Fields /\ q.stack = p.stack
      /\ \A f \in Fields \ {"stack"} : q[f] = a[f]
  BY <1>1 DEF Fields
<1> HIDE DEF q
<1>3. /\ q.reg = a.reg /\ q.count = a.count /\ q.top = a.top
      /\ q.maxSlots = a.maxSlots /\ q.firstConst = a.firstConst /\ q.constEnd = a.constEnd
      /\ q.firstDynamic = a.firstDynamic /\ q.ignored = a.ignored /\ q.wild = a.wild
      /\ q.blocks = a.blocks /\ q.skip = a.skip /\ q.to = a.to /\ q.failed = a.failed
  BY <1>2 DEF Fields
<1>4. StackOk(p.stack) /\ p.top \in Nat
  BY DEF OK, Typed
<1>5. Typed(q)
  BY <1>2, <1>3, <1>4 DEF Copying, Typed
<1>6. Frame(p, q)
  BY <1>2, <1>3 DEF Copying, Frame
<1>7. CASE q.failed = p.failed
  <2>1. q.reg = p.reg /\ q.constEnd = p.constEnd /\ q.top = p.top
    BY <1>3 DEF Copying
  <2>2. q.top >= p.top
    BY <2>1, <1>4
  <2>3. Close(p, q)
    BY <1>2, <1>5, <1>6, <1>7, <2>1, <2>2 DEF Close
  <2>4. OK(q)
    BY <2>3, CloseOK
  <2> QED
    BY <1>3, <1>6, <2>3, <2>4 DEF q
<1>8. CASE q.failed # p.failed
  <2>1. q.failed = TRUE
    BY <1>5, <1>6, <1>8 DEF OK, Typed, Frame
  <2>2. Bounds(q) /\ BlocksOk(q.blocks) /\ Base(q.blocks) <= Len(q.stack)
    BY <1>2, <1>3, <1>6 DEF OK, Bounds, Frame, Copying
  <2>3. OK(q)
    BY <1>5, <2>1, <2>2 DEF OK
  <2> QED
    BY <1>3, <1>6, <2>1, <2>3 DEF q
<1> QED
  BY <1>7, <1>8

\* No step of the loop.
LEMMA CopyingSelf ==
  ASSUME NEW p, OK(p), NEW from
  PROVE  Copying(p, from, p)
BY DEF OK, Copying, Frame

\* After the loop the stack is as it was.
LEMMA CopyStackSlotsOK ==
  ASSUME NEW p, OK(p), NEW target, NEW from, NEW len, MayCopy(p, target, from, len)
  PROVE  LET q == CopyStackSlots(p, target, from, len) IN
         OK(q) /\ Frame(p, q) /\ (~q.failed => Close(p, q))
<1>1. len \in Nat
  BY DEF MayCopy
<1>2. PICK f : /\ f[0] = [o |-> p, temp |-> AlignSlotToType(p.maxSlots, "i64")]
               /\ \A k \in 1 .. len : f[k] = CopyNext(f[k - 1], target, from, len, k)
               /\ CopyStackSlots(p, target, from, len) = [f[len].o EXCEPT !.stack = p.stack]
  BY <1>1, CopyStackSlotsSteps
<1>3. CopyState(p, from, f[0])
  <2>1. p.maxSlots \in Nat
    BY DEF OK, Typed
  <2> DEFINE temp == AlignSlotToType(p.maxSlots, "i64")
             m == p.maxSlots
  <2>2. temp \in m .. m + 1 /\ temp % 2 = 0 /\ m \in Nat
    BY <2>1, Even
  <2> HIDE DEF temp, m
  <2>3. temp \in Nat /\ temp % 2 = 0
    BY <2>2
  <2>4. Copying(p, from, p)
    BY CopyingSelf
  <2>5. f[0] = [o |-> p, temp |-> temp]
    BY <1>2 DEF temp
  <2>6. CopyState(p, from, [o |-> p, temp |-> temp])
    BY <2>3, <2>4 DEF CopyState
  <2> QED
    BY <2>5, <2>6
<1>4. Copying(p, from, f[len].o)
  <2>1. CASE len = 1 /\ from >= 1 /\ p.stack[target].slot = p.stack[from].slot
    <3>1. f[1] = CopyNext(f[0], target, from, len, 1)
      <4>1. 1 \in 1 .. len /\ 1 - 1 = 0
        BY <2>1
      <4>2. f[1] = CopyNext(f[1 - 1], target, from, len, 1)
        BY <1>2, <4>1
      <4> QED
        BY <4>1, <4>2
    <3>2. f[0].o = p
      BY <1>2
    <3>3. from + 1 - 1 = from /\ target + 1 - 1 = target
      BY DEF MayCopy
    <3>4. f[1] = f[0]
      BY <3>1, <3>2, <3>3, <2>1 DEF CopyNext
    <3> QED
      BY <3>2, <3>4, <2>1, CopyingSelf
  <2>2. CASE /\ target + len <= from
             /\ \A k \in 1 .. len : Fits(p.stack[target + k - 1], p.stack[from + k - 1].type)
    <3> DEFINE S == {k \in 0 .. len : CopyState(p, from, f[k])}
    <3>1. 0 \in S
      BY <1>1, <1>3
    <3>2. ASSUME NEW k \in 1 .. len, k - 1 \in S PROVE k \in S
      <4>1. CopyState(p, from, f[k - 1]) /\ k \in 0 .. len
        BY <3>2
      <4>2. Copied(p, target, from, len, k)
        BY <2>2 DEF MayCopy, Copied
      <4>3. CopyState(p, from, CopyNext(f[k - 1], target, from, len, k))
        BY <4>1, <4>2, CopyNextOK
      <4> QED
        BY <4>1, <4>3, <1>2
    <3>3. len \in S
      <4> HIDE DEF S
      <4>1. \A k \in 0 .. len : k \in S
        BY <1>1, <3>1, <3>2, UpTo
      <4> QED
        BY <4>1, <1>1
    <3> QED
      BY <3>3 DEF CopyState
  <2> QED
    BY <2>1, <2>2 DEF MayCopy
<1>5. LET q == [f[len].o EXCEPT !.stack = p.stack] IN
         OK(q) /\ Frame(p, q) /\ (~q.failed => Close(p, q)) /\ q.failed = f[len].o.failed
  BY <1>4, RestoredOK
<1> QED
  BY <1>2, <1>5

\* A return copies the results to the first slots.
LEMMA ReturnValuesOK ==
  ASSUME NEW p, OK(p), NEW len \in Nat, 2 * len <= MaxFunctionSlots
  PROVE  LET q == ReturnValues(p, len) IN
         OK(q) /\ Frame(p, q) /\ (~q.failed => Close(p, q))
<1> DEFINE q == ReturnValues(p, len)
<1>1. CASE BlockHeight(p) < len
  BY <1>1, FailOK DEF ReturnValues
<1>2. CASE ~(BlockHeight(p) < len)
  <2>1. PICK f : /\ f[0] = p
                 /\ \A k \in 1 .. len : f[k] = ReturnValue(f[k - 1], len, k)
                 /\ ReturnValues(p, len) = f[len]
    BY <1>2, ReturnValuesSteps
  <2> DEFINE S == {k \in 0 .. len : Close(p, f[k])}
  <2>2. 0 \in S
    BY <2>1, CloseSelf DEF OK
  <2>3. ASSUME NEW k \in 1 .. len, k - 1 \in S PROVE k \in S
    <3> DEFINE a == f[k - 1]
               i == Len(a.stack) - k + 1
               dest == 2 * (len - k)
               x == a.stack[i]
    <3>1. Close(p, a) /\ k \in 0 .. len
      BY <2>3
    <3>2. Typed(a)
      BY <3>1 DEF Close
    <3>3. dest \in Nat /\ dest + GetTypeNumSlots(x.type) <= Reg0
      <4>1. GetTypeNumSlots(x.type) \in 1 .. 2
        BY Types
      <4> DEFINE g == GetTypeNumSlots(x.type)
      <4> HIDE DEF g, x
      <4>2. dest \in Nat /\ dest + 2 <= MaxFunctionSlots
        <5>1. MaxFunctionSlots \in Nat
          BY LimitsAssumption
        <5> QED
          BY <5>1
      <4> HIDE DEF dest
      <4>3. dest + g <= Reg0
        BY <4>1, <4>2, Numbers DEF g
      <4> QED
        BY <4>2, <4>3 DEF g
    <3>4. f[k] = CopyToSlot(a, dest, i)
      BY <2>1 DEF ReturnValue
    <3> HIDE DEF dest, i, a
    <3>5. Close(a, CopyToSlot(a, dest, i))
      BY <3>2, <3>3, CopyClose
    <3>6. Close(p, f[k])
      BY <3>1, <3>4, <3>5, CloseTwice DEF OK
    <3> QED
      BY <3>1, <3>6
  <2>4. len \in S
    <3> HIDE DEF S
    <3>1. \A k \in 0 .. len : k \in S
      BY <2>2, <2>3, UpTo
    <3> QED
      BY <3>1
  <2>5. Close(p, q)
    BY <2>1, <2>4
  <2> QED
    BY <2>5, CloseOK DEF Close
<1> QED
  BY <1>1, <1>2

-----------------------------------------------------------------------------
(* The results of blocks                                                   *)

\* Values of these types are on the top of the stack.
OnTop(p, types) ==
  /\ BlockHeight(p) >= Len(types)
  /\ \A j \in 1 .. Len(types) : p.stack[Len(p.stack) - Len(types) + j].type = types[j]

\* What a scope expects of a branch, or of its end.
Expected(b, isBranch) == IF isBranch /\ b.opcode = "loop" THEN b.type.params ELSE b.type.results

\* Values are where they may be brought to the results of scope k.
MayResolve(p, k, isBranch) ==
  /\ OK(p) /\ ~p.failed /\ k \in 2 .. Len(p.blocks) /\ isBranch \in BOOLEAN
  /\ OnTop(p, Expected(p.blocks[k], isBranch))
  /\ ~(isBranch /\ p.blocks[k].opcode = "loop") /\ FpLast(p.blocks[k].type.results) =>
       BlockHeight(p) = 1 /\ FpLast(Last(p.blocks).type.results)

\* The records that a branch, or an end, copies to are in slots.
LEMMA RecordsInSlots ==
  ASSUME NEW p, OK(p), ~p.failed, NEW k \in 2 .. Len(p.blocks), NEW isBranch \in BOOLEAN,
         \/ isBranch /\ p.blocks[k].opcode = "loop"
         \/ ~FpLast(p.blocks[k].type.results)
  PROVE  LET b == p.blocks[k]
             types == Expected(b, isBranch)
             record == b.exit + 1 + IF isBranch /\ b.opcode = "loop" THEN 0 ELSE Len(b.type.params) IN
         /\ Len(types) \in Nat /\ record \in Nat /\ record >= 1
         /\ record + Len(types) <= Base(p.blocks) + 1
         /\ \A j \in 1 .. Len(types) : Fits(p.stack[record + j - 1], types[j])
<1> DEFINE b == p.blocks[k]
           types == Expected(b, isBranch)
           params == b.type.params
           results == b.type.results
           loop == isBranch /\ b.opcode = "loop"
           record == b.exit + 1 + IF loop THEN 0 ELSE Len(params)
<1>1. /\ b.exit \in Nat /\ b.base \in Nat /\ b.base <= Base(p.blocks) /\ Base(p.blocks) \in Nat
      /\ params \in Seq(ValueType) /\ results \in Seq(ValueType)
  BY ScopeFacts DEF OK
<1>2. b.base = b.exit + Len(params) + Len(results)
  BY DEF OK, BlocksOk
<1>3. RecordsOk(p.stack, b)
  BY DEF OK, Sound
<1>4. Len(params) \in Nat /\ Len(results) \in Nat
  BY SMTT(40), <1>1
<1>5. Base(p.blocks) <= Len(p.stack) /\ Len(p.stack) \in Nat /\ \A i \in 1 .. Len(p.stack) : p.stack[i] \in Item
  BY Height
<1>6. ASSUME NEW i \in 1 .. Base(p.blocks), NEW type, p.stack[i].type = type, InSlots(p.stack[i])
      PROVE  Fits(p.stack[i], type)
  <2>1. i \in 1 .. Len(p.stack)
    BY <1>1, <1>5
  <2>2. p.stack[i].slot \in Nat
    BY <2>1, <1>5 DEF Item
  <2> QED
    BY <2>2, <1>6 DEF Fits, InSlots
<1> HIDE DEF b, params, results, loop
<1>7. CASE loop
  <2>1. types = params
    BY <1>7 DEF Expected, loop, params
  <2>2. record = b.exit + 1
    BY <1>7, <1>1
  <2>3. record + Len(params) <= Base(p.blocks) + 1 /\ record \in Nat /\ record >= 1
    <3> DEFINE m == Len(params)  n == Len(results)  e == b.exit  f == b.base  g == Base(p.blocks)
    <3>1. m \in Nat /\ n \in Nat /\ e \in Nat /\ f \in Nat /\ g \in Nat /\ f <= g /\ f = e + m + n
      BY <1>1, <1>2, <1>4
    <3> HIDE DEF m, n, e, f, g
    <3>2. e + 1 + m <= g + 1 /\ e + 1 \in Nat /\ e + 1 >= 1
      BY <3>1
    <3> QED
      BY <3>2, <2>2 DEF m, e, g
  <2> HIDE DEF types, record
  <2>4. ASSUME NEW j \in 1 .. Len(params) PROVE Fits(p.stack[record + j - 1], params[j])
    <3>1. record + j - 1 = b.exit + j
      BY <2>2, <1>1
    <3>2. b.exit + j \in 1 .. Base(p.blocks)
      BY SMTT(40), <2>2, <2>3, <1>1, <1>4
    <3>3. p.stack[b.exit + j].type = params[j] /\ InSlots(p.stack[b.exit + j])
      BY <1>3 DEF RecordsOk, params
    <3> QED
      BY <3>1, <3>2, <3>3, <1>6
  <2>5. /\ Len(types) \in Nat /\ record \in Nat /\ record >= 1
        /\ record + Len(types) <= Base(p.blocks) + 1
        /\ \A j \in 1 .. Len(types) : Fits(p.stack[record + j - 1], types[j])
    BY <2>1, <2>3, <2>4, <1>4
  <2> QED
    BY <2>5 DEF types, record, loop, b, params
<1>8. CASE ~loop
  <2>1. types = results /\ ~FpLast(results)
    BY <1>8 DEF Expected, loop, results, b
  <2>2. record = b.exit + 1 + Len(params)
    BY <1>8, <1>1
  <2>3. record + Len(results) <= Base(p.blocks) + 1 /\ record \in Nat /\ record >= 1
    <3> DEFINE m == Len(params)  n == Len(results)  e == b.exit  f == b.base  g == Base(p.blocks)
    <3>1. m \in Nat /\ n \in Nat /\ e \in Nat /\ f \in Nat /\ g \in Nat /\ f <= g /\ f = e + m + n
      BY <1>1, <1>2, <1>4
    <3> HIDE DEF m, n, e, f, g
    <3>2. e + 1 + m + n <= g + 1 /\ e + 1 + m \in Nat /\ e + 1 + m >= 1
      BY <3>1
    <3> QED
      BY <3>2, <2>2 DEF m, n, e, g
  <2> HIDE DEF types, record
  <2>4. ASSUME NEW j \in 1 .. Len(results) PROVE Fits(p.stack[record + j - 1], results[j])
    <3> DEFINE i == b.exit + Len(params) + j
    <3>1. record + j - 1 = i
      BY <2>2, <1>1, <1>4
    <3>2. i \in 1 .. Base(p.blocks)
      <4> DEFINE m == Len(params)  n == Len(results)  e == b.exit  f == b.base  g == Base(p.blocks)
      <4>1. m \in Nat /\ n \in Nat /\ e \in Nat /\ f \in Nat /\ g \in Nat /\ f <= g /\ f = e + m + n
        BY <1>1, <1>2, <1>4
      <4>2. j \in 1 .. n /\ i = e + m + j
        OBVIOUS
      <4> HIDE DEF m, n, e, f, g, i
      <4>3. i \in 1 .. g
        BY <4>1, <4>2
      <4> QED
        BY <4>3 DEF g
    <3>3. ~(IsFpType(Last(results)) /\ j = Len(results))
      <4>1. results # <<>>
        BY <1>4
      <4> QED
        BY <2>1, <4>1 DEF FpLast
    <3>4. p.stack[i].type = results[j] /\ InSlots(p.stack[i])
      BY <1>3, <3>3 DEF RecordsOk, results, params
    <3> HIDE DEF i
    <3> QED
      BY <3>1, <3>2, <3>4, <1>6
  <2>5. /\ Len(types) \in Nat /\ record \in Nat /\ record >= 1
        /\ record + Len(types) <= Base(p.blocks) + 1
        /\ \A j \in 1 .. Len(types) : Fits(p.stack[record + j - 1], types[j])
    BY <2>1, <2>3, <2>4, <1>4
  <2> QED
    BY <2>5 DEF types, record, loop, b, params
<1> QED
  BY <1>7, <1>8

\* Copying the values to the records of a scope does not move anything else.
LEMMA ResolveToSlots ==
  ASSUME NEW p, NEW k, NEW isBranch, MayResolve(p, k, isBranch),
         \/ isBranch /\ p.blocks[k].opcode = "loop"
         \/ ~FpLast(p.blocks[k].type.results)
  PROVE  LET b == p.blocks[k]
             n == Len(Expected(b, isBranch))
             record == b.exit + 1 + IF isBranch /\ b.opcode = "loop" THEN 0 ELSE Len(b.type.params)
             q == CopyStackSlots(p, record, Len(p.stack) - n + 1, n) IN
         OK(q) /\ Frame(p, q) /\ Moved(p, q) /\ MayCopy(p, record, Len(p.stack) - n + 1, n)
<1> DEFINE b == p.blocks[k]
           types == Expected(b, isBranch)
           n == Len(types)
           record == b.exit + 1 + IF isBranch /\ b.opcode = "loop" THEN 0 ELSE Len(b.type.params)
           from == Len(p.stack) - n + 1
           q == CopyStackSlots(p, record, from, n)
<1>1. OK(p) /\ ~p.failed /\ OnTop(p, types)
  BY DEF MayResolve
<1>2. /\ n \in Nat /\ record \in Nat /\ record >= 1
      /\ record + n <= Base(p.blocks) + 1
      /\ \A j \in 1 .. n : Fits(p.stack[record + j - 1], types[j])
  <2>1. k \in 2 .. Len(p.blocks) /\ isBranch \in BOOLEAN
    BY DEF MayResolve
  <2> QED
    BY <1>1, <2>1, RecordsInSlots
<1>3. BlockHeight(p) = Len(p.stack) - Base(p.blocks) /\ Len(p.stack) \in Nat /\ Base(p.blocks) \in Nat
  BY <1>1, Height
<1>4. BlockHeight(p) >= n /\ \A j \in 1 .. n : p.stack[Len(p.stack) - n + j].type = types[j]
  BY <1>1 DEF OnTop
<1> HIDE DEF types, record, n
<1>5. from \in Nat /\ from + n = Len(p.stack) + 1 /\ record + n <= from
  <2> DEFINE l == Len(p.stack)  g == Base(p.blocks)
  <2>1. l \in Nat /\ g \in Nat /\ l - g >= n /\ n \in Nat /\ record \in Nat /\ record + n <= g + 1
    BY <1>2, <1>3, <1>4
  <2>2. from = l - n + 1
    BY DEF l
  <2> HIDE DEF l, g, from
  <2>3. from \in Nat /\ from + n = l + 1 /\ record + n <= from
    BY <2>1, <2>2
  <2> QED
    BY <2>3 DEF l
<1>6. ASSUME NEW j \in 1 .. n PROVE Fits(p.stack[record + j - 1], p.stack[from + j - 1].type)
  <2>1. from + j - 1 = Len(p.stack) - n + j
    BY <1>2, <1>3
  <2> QED
    BY <2>1, <1>2, <1>4
<1>7. MayCopy(p, record, from, n)
  <2> HIDE DEF from
  <2>1. from + n <= Len(p.stack) + 1
    BY <1>5, <1>3
  <2> QED
    BY <1>2, <1>5, <1>6, <2>1 DEF MayCopy
<1> HIDE DEF from
<1>8. OK(q) /\ Frame(p, q) /\ (~q.failed => Close(p, q))
  BY <1>1, <1>7, CopyStackSlotsOK
<1>9. Moved(p, q)
  <2>1. CASE q.failed
    BY <2>1 DEF Moved
  <2>2. CASE ~q.failed
    BY <2>2, <1>8, MovedSelf
  <2> QED
    BY <2>1, <2>2
<1> HIDE DEF q
<1>10. OK(q) /\ Frame(p, q) /\ Moved(p, q) /\ MayCopy(p, record, from, n)
  BY <1>7, <1>8, <1>9
<1> QED
  BY <1>10 DEF q, from, n, types, record

\* The last result of a scope may be in the fp register, and is alone there.
LEMMA RecordInRegister ==
  ASSUME NEW p, OK(p), ~p.failed, NEW k \in 2 .. Len(p.blocks), FpLast(p.blocks[k].type.results)
  PROVE  LET b == p.blocks[k] IN
         /\ Len(b.type.results) = 1 /\ b.base = b.exit + 1 + Len(b.type.params) /\ b.base >= 1
         /\ b.base \in Nat /\ p.stack[b.base].slot = Fp0
<1> DEFINE b == p.blocks[k]
           params == b.type.params
           results == b.type.results
<1>1. /\ b.exit \in Nat /\ b.base \in Nat
      /\ params \in Seq(ValueType) /\ results \in Seq(ValueType)
  BY ScopeFacts DEF OK
<1>2. b.base = b.exit + Len(params) + Len(results) /\ (FpLast(results) => Len(results) = 1)
  BY DEF OK, BlocksOk
<1>3. RecordsOk(p.stack, b)
  BY DEF OK, Sound
<1> HIDE DEF b, params, results
<1>4. FpLast(results)
  BY DEF results, b
<1>5. Len(results) = 1 /\ IsFpType(Last(results))
  BY <1>2, <1>4 DEF FpLast
<1>6. b.base = b.exit + Len(params) + 1 /\ Len(params) \in Nat
  BY <1>1, <1>2, <1>5
<1>7. p.stack[b.exit + Len(params) + 1].slot = Fp0
  <2>1. 1 \in 1 .. Len(results)
    BY <1>5
  <2> QED
    BY <2>1, <1>3, <1>5 DEF RecordsOk, params, results
<1>8. /\ Len(results) = 1 /\ b.base = b.exit + 1 + Len(params) /\ b.base >= 1
      /\ b.base \in Nat /\ p.stack[b.base].slot = Fp0
  BY <1>1, <1>5, <1>6, <1>7
<1> QED
  BY <1>8 DEF b, params, results

\* What becomes of the values that a block or a branch passes: an error, or some
\* of them are copied, after the last one got to its register.
Resolved(p, q) ==
  \/ q = Fail(p) \/ q = p
  \/ \E target, from, len : MayCopy(p, target, from, len) /\ q = CopyStackSlots(p, target, from, len)
  \/ LET c == CopyTopToRegister(p) IN
     /\ Len(p.stack) > Base(p.blocks) /\ OK(c)
     /\ \/ q = c
        \/ \E target, from, len : MayCopy(c, target, from, len) /\ q = CopyStackSlots(c, target, from, len)

\* The values of a block are brought to where its results are expected.
LEMMA ResolveOK ==
  ASSUME NEW p, NEW k, NEW isBranch, MayResolve(p, k, isBranch)
  PROVE  LET q == ResolveBlockResults(p, p.blocks[k], isBranch) IN
         OK(q) /\ Frame(p, q) /\ Moved(p, q) /\ Resolved(p, q)
<1> DEFINE b == p.blocks[k]
           isLoop == isBranch /\ b.opcode = "loop"
           params == Len(b.type.params)
           n == IF isLoop THEN params ELSE Len(b.type.results)
           record == b.exit + 1 + IF isLoop THEN 0 ELSE params
           toRegister == ~isLoop /\ IsFpType(Top(p, 0).type)
           end == Len(p.stack) - IF toRegister THEN 1 ELSE 0
           copied == IF toRegister THEN CopyTopToRegister(p) ELSE p
           then == IF copied.failed THEN copied ELSE CopyStackSlots(copied, record, end - n + 1, n)
           types == Expected(b, isBranch)
           q == ResolveBlockResults(p, b, isBranch)
<1>1. q = IF IF isBranch THEN BlockHeight(p) < n ELSE BlockHeight(p) # n THEN Fail(p)
          ELSE IF n = 0 THEN p ELSE then
  BY DEF ResolveBlockResults, Then
<1>2. OK(p) /\ ~p.failed /\ OnTop(p, types) /\ k \in 2 .. Len(p.blocks) /\ isBranch \in BOOLEAN
  BY DEF MayResolve
<1>3. n = Len(types)
  BY DEF Expected
<1>4. BlockHeight(p) = Len(p.stack) - Base(p.blocks) /\ Len(p.stack) \in Nat /\ Base(p.blocks) \in Nat
  BY <1>2, Height
<1>5. ~isLoop /\ FpLast(b.type.results) =>
        BlockHeight(p) = 1 /\ FpLast(Last(p.blocks).type.results)
  BY DEF MayResolve
<1>6. types \in Seq(ValueType)
  <2>1. b.type.params \in Seq(ValueType) /\ b.type.results \in Seq(ValueType)
    BY <1>2, ScopeFacts DEF OK
  <2> QED
    BY <2>1 DEF Expected
<1>7. n # 0 => Top(p, 0).type = Last(types)
  <2> HIDE DEF types, n
  <2>1. SUFFICES ASSUME n # 0 PROVE Top(p, 0).type = Last(types)
    OBVIOUS
  <2>2. n \in Nat /\ n \in 1 .. n
    BY <1>3, <1>6, <2>1
  <2>3. p.stack[Len(p.stack) - n + n].type = types[n]
    BY <1>2, <1>3, <2>2 DEF OnTop
  <2>4. Len(p.stack) - n + n = Len(p.stack) /\ Len(p.stack) - 0 = Len(p.stack)
    BY <2>2, <1>4
  <2> QED
    BY <2>3, <2>4, <1>3 DEF Top, Last
<1>8. toRegister /\ n # 0 => ~isLoop /\ FpLast(b.type.results)
  <2>1. SUFFICES ASSUME toRegister, n # 0 PROVE ~isLoop /\ FpLast(b.type.results)
    OBVIOUS
  <2>2. ~isLoop /\ types = b.type.results
    BY <2>1 DEF Expected
  <2>3. IsFpType(Last(types)) /\ types # <<>>
    BY <1>3, <1>6, <1>7, <2>1
  <2> QED
    BY <2>2, <2>3 DEF FpLast
<1>9. ~toRegister /\ n # 0 => isLoop \/ ~FpLast(b.type.results)
  <2>1. SUFFICES ASSUME ~toRegister, n # 0, ~isLoop PROVE ~FpLast(b.type.results)
    OBVIOUS
  <2>2. types = b.type.results
    BY <2>1 DEF Expected
  <2> QED
    BY <2>1, <2>2, <1>7 DEF FpLast
<1> HIDE DEF isLoop
<1>10. CASE IF isBranch THEN BlockHeight(p) < n ELSE BlockHeight(p) # n
  <2>1. q = Fail(p)
    BY <1>1, <1>10
  <2> HIDE DEF q
  <2> QED
    BY <2>1, <1>2, FailOK DEF Moved, q, Resolved
<1>11. CASE ~(IF isBranch THEN BlockHeight(p) < n ELSE BlockHeight(p) # n) /\ n = 0
  <2>1. q = p
    BY <1>1, <1>11
  <2>2. Close(p, p)
    BY <1>2, CloseSelf DEF OK
  <2>3. Moved(p, p) /\ Frame(p, p)
    BY SMTT(40), <2>2, MovedSelf
  <2> HIDE DEF q
  <2> QED
    BY <2>1, <2>3, <1>2 DEF q, Resolved
<1>12. CASE ~(IF isBranch THEN BlockHeight(p) < n ELSE BlockHeight(p) # n) /\ n # 0 /\ ~toRegister
  <2>1. q = CopyStackSlots(p, record, Len(p.stack) - n + 1, n)
    <3>1. end = Len(p.stack) /\ copied = p
      <4> HIDE DEF toRegister, n
      <4> QED
        BY <1>12, <1>4
    <3>2. q = then
      BY <1>1, <1>12
    <3> QED
      BY <3>1, <3>2, <1>2
  <2>2. isLoop \/ ~FpLast(b.type.results)
    BY <1>9, <1>12
  <2>3. LET c == CopyStackSlots(p, record, Len(p.stack) - n + 1, n) IN
        OK(c) /\ Frame(p, c) /\ Moved(p, c) /\ MayCopy(p, record, Len(p.stack) - n + 1, n)
    <3> HIDE DEF q, then, copied, end, toRegister
    <3> QED
      BY <2>2, <1>3, ResolveToSlots DEF isLoop
  <2> HIDE DEF q, record, n
  <2>4. Resolved(p, q)
    BY <2>1, <2>3 DEF Resolved
  <2> QED
    BY <2>1, <2>3, <2>4 DEF q
<1>13. CASE ~(IF isBranch THEN BlockHeight(p) < n ELSE BlockHeight(p) # n) /\ n # 0 /\ toRegister
  <2> DEFINE c == CopyTopToRegister(p)
  <2>1. ~isLoop /\ FpLast(b.type.results)
    BY <1>8, <1>13
  <2>2. BlockHeight(p) = 1 /\ FpLast(Last(p.blocks).type.results)
    BY <1>5, <2>1
  <2>3. OK(c) /\ Frame(p, c) /\ Moved(p, c) /\ Len(p.stack) > Base(p.blocks)
    <3>1. Len(p.stack) > Base(p.blocks)
      BY <2>2, <1>4
    <3> QED
      BY <1>2, <3>1, CopyTopOK
  <2>4. q = IF c.failed THEN c ELSE CopyStackSlots(c, record, Len(p.stack) - n, n)
    <3>1. end - n + 1 = Len(p.stack) - n /\ copied = c
      <4>1. n \in Nat /\ end = Len(p.stack) - 1
        BY <1>3, <1>6, <1>13
      <4> HIDE DEF end, n
      <4> QED
        BY <4>1, <1>4, <1>13
    <3>2. q = then
      BY <1>1, <1>13
    <3> QED
      BY <3>1, <3>2
  <2> HIDE DEF c, q, toRegister, end, copied, then, types
  <2>5. CASE c.failed
    BY <2>3, <2>4, <2>5 DEF q, c, Resolved
  <2>6. CASE ~c.failed
    <3> DEFINE l == Len(p.blocks)
    <3>1. c.blocks = p.blocks /\ l \in Nat /\ k \in 2 .. l /\ l \in 2 .. l /\ Last(p.blocks) = p.blocks[l]
      <4>1. l \in Nat
        BY <1>2, ScopeFacts DEF OK
      <4> QED
        BY <4>1, <1>2, <2>3 DEF Frame, Last
    <3> HIDE DEF l
    <3>2. /\ n = 1 /\ b.base = record /\ b.base >= 1
          /\ b.base \in Nat /\ c.stack[b.base].slot = Fp0
      <4>1. LET d == c.blocks[k] IN
             /\ Len(d.type.results) = 1 /\ d.base = d.exit + 1 + Len(d.type.params) /\ d.base >= 1
             /\ d.base \in Nat /\ c.stack[d.base].slot = Fp0
        <5>1. k \in 2 .. Len(c.blocks) /\ FpLast(c.blocks[k].type.results)
          BY <3>1, <2>1 DEF l
        <5> QED
          BY <5>1, <2>3, <2>6, RecordInRegister
      <4>2. n = Len(b.type.results) /\ record = b.exit + 1 + Len(b.type.params)
        BY <2>1
      <4> QED
        BY <4>1, <4>2, <3>1
    <3>3. /\ Base(p.blocks) >= 1 /\ c.stack[Base(p.blocks)].slot = Fp0
      <4>1. LET d == c.blocks[l] IN d.base >= 1 /\ c.stack[d.base].slot = Fp0
        <5>1. l \in 2 .. Len(c.blocks) /\ FpLast(c.blocks[l].type.results)
          BY <3>1, <2>2 DEF l
        <5> QED
          BY <5>1, <2>3, <2>6, RecordInRegister
      <4>2. c.blocks[l].base = Base(p.blocks)
        BY <3>1 DEF Base, l
      <4> QED
        BY <4>1, <4>2
    <3>4. Len(p.stack) - n = Base(p.blocks) /\ Len(c.stack) = Len(p.stack)
      <4>1. Len(c.stack) = Len(p.stack)
        BY <2>3, <2>6 DEF Moved
      <4> HIDE DEF n
      <4>2. n = 1 /\ BlockHeight(p) = 1
        BY <3>2, <2>2
      <4>3. Len(p.stack) - 1 = Base(p.blocks)
        BY <4>2, <1>4
      <4> QED
        BY <4>1, <4>2, <4>3
    <3> DEFINE g == Base(p.blocks)
    <3>5. MayCopy(c, record, g, 1)
      <4>1. g \in Nat /\ g >= 1 /\ g + 1 <= Len(c.stack) + 1
        <5> HIDE DEF n, g
        <5>1. g \in Nat /\ g >= 1 /\ n = 1 /\ Len(p.stack) \in Nat
          BY <3>2, <3>3, <1>4 DEF g
        <5>2. Len(c.stack) - 1 = g /\ Len(c.stack) \in Nat
          BY <5>1, <3>4 DEF g
        <5> QED
          BY <5>1, <5>2
      <4> HIDE DEF g, record
      <4>2. c.stack[record].slot = c.stack[g].slot
        BY <3>2, <3>3 DEF g
      <4> QED
        BY <4>1, <4>2, <3>2 DEF MayCopy
    <3> DEFINE e == CopyStackSlots(c, record, g, 1)
    <3>6. OK(e) /\ Frame(c, e) /\ (~e.failed => Close(c, e))
      <4> HIDE DEF g, record
      <4> QED
        BY <3>5, <2>3, CopyStackSlotsOK
    <3>7. q = e
      BY <2>4, <2>6, <3>2, <3>4
    <3> HIDE DEF e
    <3>8. Frame(p, e)
      BY <2>3, <3>6 DEF Frame
    <3>9. Moved(p, e)
      <4>1. CASE e.failed
        BY <4>1 DEF Moved
      <4>2. CASE ~e.failed
        <5>1. Moved(c, e)
          BY <4>2, <3>6, MovedSelf
        <5> QED
          BY <5>1, <2>3, MovedTwice
      <4> QED
        BY <4>1, <4>2
    <3>10. Resolved(p, q)
      <4> HIDE DEF g, record
      <4>1. MayCopy(c, record, g, 1) /\ q = CopyStackSlots(c, record, g, 1)
        BY <3>5, <3>7 DEF e
      <4> QED
        BY <4>1, <2>3 DEF Resolved, c
    <3> QED
      BY <3>6, <3>7, <3>8, <3>9, <3>10 DEF q
  <2> QED
    BY <2>5, <2>6
<1>14. \/ IF isBranch THEN BlockHeight(p) < n ELSE BlockHeight(p) # n
       \/ ~(IF isBranch THEN BlockHeight(p) < n ELSE BlockHeight(p) # n) /\ n = 0
       \/ ~(IF isBranch THEN BlockHeight(p) < n ELSE BlockHeight(p) # n) /\ n # 0 /\ ~toRegister
       \/ ~(IF isBranch THEN BlockHeight(p) < n ELSE BlockHeight(p) # n) /\ n # 0 /\ toRegister
  OBVIOUS
<1> HIDE DEF q, n, toRegister
<1> QED
  BY <1>10, <1>11, <1>12, <1>13, <1>14 DEF q

-----------------------------------------------------------------------------
(* The slots of results                                                    *)

\* Push does not look at the scopes.
WithBlocks(p, blocks) == [p EXCEPT !.blocks = blocks]

\* So the two orders of a push and a change of the scopes are one;
LEMMA PushWith ==
  ASSUME NEW p, DOMAIN p = Fields, NEW blocks, NEW t, NEW slot
  PROVE  /\ Push(WithBlocks(p, blocks), t, slot) = WithBlocks(Push(p, t, slot), blocks)
         /\ DOMAIN Push(p, t, slot) = Fields
<1> DEFINE h == WithBlocks(p, blocks)
           stack == Append(p.stack, [type |-> t, slot |-> slot])
           reg == IF IsRegister(slot) THEN [p.reg EXCEPT ![slot] = Len(p.stack) + 1] ELSE p.reg
<1>1. h.stack = p.stack /\ h.reg = p.reg /\ DOMAIN h = Fields
  BY DEF WithBlocks, Fields
<1>2. Push(h, t, slot) = IF Len(p.stack) >= MaxStackHeight THEN [h EXCEPT !.failed = TRUE]
                         ELSE [h EXCEPT !.stack = stack, !.reg = reg]
  BY <1>1 DEF Push, Fail
<1>3. Push(p, t, slot) = IF Len(p.stack) >= MaxStackHeight THEN [p EXCEPT !.failed = TRUE]
                         ELSE [p EXCEPT !.stack = stack, !.reg = reg]
  BY DEF Push, Fail
<1> HIDE DEF stack, reg
<1>4. [h EXCEPT !.failed = TRUE] = WithBlocks([p EXCEPT !.failed = TRUE], blocks)
  BY DEF WithBlocks, Fields
<1>5. [h EXCEPT !.stack = stack, !.reg = reg] = WithBlocks([p EXCEPT !.stack = stack, !.reg = reg], blocks)
  BY DEF WithBlocks, Fields
<1> QED
  BY <1>2, <1>3, <1>4, <1>5 DEF WithBlocks

\* also with a slot that is looked for,
LEMMA AllocatedWith ==
  ASSUME NEW p, DOMAIN p = Fields, NEW blocks, NEW t
  PROVE  /\ PushAllocatedSlot(WithBlocks(p, blocks), t) = WithBlocks(PushAllocatedSlot(p, t), blocks)
         /\ DOMAIN PushAllocatedSlot(p, t) = Fields
<1> DEFINE h == WithBlocks(p, blocks)
           s == FreeSlot(p, t, p.firstDynamic, MaxFunctionSlots)
           m == MarkSlotsAllocated(p, s, t)
<1>1. /\ h.count = p.count /\ h.firstDynamic = p.firstDynamic /\ h.top = p.top
      /\ h.maxSlots = p.maxSlots /\ h.wild = p.wild /\ DOMAIN h = Fields
  BY DEF WithBlocks, Fields
<1>2. FreeSlot(h, t, h.firstDynamic, MaxFunctionSlots) = s
  BY <1>1 DEF FreeSlot
<1>3. MarkSlotsAllocated(h, s, t) = WithBlocks(m, blocks) /\ DOMAIN m = Fields
  <2> DEFINE end == s + GetTypeNumSlots(t)
             count == [a \in DOMAIN p.count |-> IF a \in s .. end - 1 THEN 1 ELSE p.count[a]]
             top == Max({p.top, end})
             max == Max({p.maxSlots, end})
             wild == p.wild \/ end > MaxFunctionSlots
  <2>1. MarkSlotsAllocated(h, s, t) = [h EXCEPT !.count = count, !.top = top, !.maxSlots = max, !.wild = wild]
    BY <1>1 DEF MarkSlotsAllocated
  <2>2. m = [p EXCEPT !.count = count, !.top = top, !.maxSlots = max, !.wild = wild]
    BY DEF MarkSlotsAllocated
  <2> HIDE DEF count, top, max, wild, m, s
  <2>3. [h EXCEPT !.count = count, !.top = top, !.maxSlots = max, !.wild = wild]
        = WithBlocks([p EXCEPT !.count = count, !.top = top, !.maxSlots = max, !.wild = wild], blocks)
    BY DEF WithBlocks, Fields
  <2> QED
    BY <2>1, <2>2, <2>3
<1>4. Fail(h) = WithBlocks(Fail(p), blocks) /\ DOMAIN Fail(p) = Fields
  BY DEF WithBlocks, Fail, Fields
<1>5. PushAllocatedSlot(p, t) = IF s = SlotUnused THEN Fail(p) ELSE Push(m, t, s)
  BY DEF PushAllocatedSlot, AllocateSlots
<1>6. PushAllocatedSlot(h, t) = IF s = SlotUnused THEN Fail(h) ELSE Push(MarkSlotsAllocated(h, s, t), t, s)
  BY <1>2 DEF PushAllocatedSlot, AllocateSlots
<1> HIDE DEF s, m
<1>7. Push(WithBlocks(m, blocks), t, s) = WithBlocks(Push(m, t, s), blocks) /\ DOMAIN Push(m, t, s) = Fields
  BY <1>3, PushWith
<1>8. PushAllocatedSlot(h, t) = WithBlocks(PushAllocatedSlot(p, t), blocks)
      /\ DOMAIN PushAllocatedSlot(p, t) = Fields
  BY <1>3, <1>4, <1>5, <1>6, <1>7
<1> QED
  BY <1>8

\* for a result,
LEMMA PushResultWith ==
  ASSUME NEW p, DOMAIN p = Fields, NEW blocks, NEW results, NEW k
  PROVE  /\ PushBlockResult(WithBlocks(p, blocks), results, k)
            = WithBlocks(PushBlockResult(p, results, k), blocks)
         /\ DOMAIN PushBlockResult(p, results, k) = Fields
<1>1. CASE k = Len(results) /\ IsFpType(results[k])
  BY <1>1, PushWith DEF PushBlockResult, PushRegister
<1>2. CASE ~(k = Len(results) /\ IsFpType(results[k]))
  BY <1>2, AllocatedWith DEF PushBlockResult
<1> QED
  BY <1>1, <1>2

\* and for all of them.
LEMMA PushResultsWith ==
  ASSUME NEW p, DOMAIN p = Fields, NEW blocks, NEW results, Len(results) \in Nat
  PROVE  PushBlockResults(WithBlocks(p, blocks), results)
         = WithBlocks(PushBlockResults(p, results), blocks)
<1> DEFINE h == WithBlocks(p, blocks)
           n == Len(results)
<1>1. PICK f : /\ f[0] = p
               /\ \A k \in 1 .. Len(results) : f[k] = Then(f[k - 1], LAMBDA r : PushBlockResult(r, results, k))
               /\ PushBlockResults(p, results) = f[Len(results)]
  BY ZenonT(40), PushBlockResultsSteps
<1>2. PICK g : /\ g[0] = h
               /\ \A k \in 1 .. Len(results) : g[k] = Then(g[k - 1], LAMBDA r : PushBlockResult(r, results, k))
               /\ PushBlockResults(h, results) = g[Len(results)]
  BY ZenonT(40), PushBlockResultsSteps
<1> DEFINE S == {k \in 0 .. n : DOMAIN f[k] = Fields /\ g[k] = WithBlocks(f[k], blocks)}
<1>3. 0 \in S
  BY <1>1, <1>2
<1>4. ASSUME NEW k \in 1 .. n, k - 1 \in S PROVE k \in S
  <2> DEFINE a == f[k - 1]  b == g[k - 1]
  <2>1. DOMAIN a = Fields /\ b = WithBlocks(a, blocks) /\ k \in 0 .. n
    BY <1>4
  <2>2. f[k] = IF a.failed THEN a ELSE PushBlockResult(a, results, k)
    BY <1>1 DEF Then
  <2>3. g[k] = IF b.failed THEN b ELSE PushBlockResult(b, results, k)
    BY <1>2 DEF Then
  <2> HIDE DEF a, b
  <2>4. b.failed = a.failed
    BY <2>1 DEF WithBlocks, Fields
  <2>5. /\ PushBlockResult(b, results, k) = WithBlocks(PushBlockResult(a, results, k), blocks)
        /\ DOMAIN PushBlockResult(a, results, k) = Fields
    BY <2>1, PushResultWith
  <2>6. DOMAIN f[k] = Fields /\ g[k] = WithBlocks(f[k], blocks)
    BY <2>1, <2>2, <2>3, <2>4, <2>5
  <2> QED
    BY <2>1, <2>6
<1>5. n \in S
  <2> HIDE DEF S, n
  <2>1. \A k \in 0 .. n : k \in S
    BY <1>3, <1>4, UpTo DEF n
  <2>2. n \in Nat
    BY DEF n
  <2> QED
    BY <2>1, <2>2
<1> QED
  BY <1>1, <1>2, <1>5

\* The j-th result is in its place.
ResultIn(x, results, j) ==
  x.type = results[j] /\ IF IsFpType(Last(results)) /\ j = Len(results) THEN x.slot = Fp0 ELSE InSlots(x)

\* The first k results were pushed.
PushedResults(p, results, k, q) ==
  /\ OK(q) /\ Frame(p, q)
  /\ ~q.failed =>
       /\ ~p.failed /\ Len(q.stack) = Len(p.stack) + k
       /\ \A i \in 1 .. Len(p.stack) : q.stack[i] = p.stack[i]
       /\ \A j \in 1 .. k : ResultIn(q.stack[Len(p.stack) + j], results, j)
       /\ k < Len(results) => q.reg = p.reg
       /\ \A r \in Registers : q.reg[r] \in {p.reg[r], Len(p.stack) + k}

\* The register of the last result is free.
MayPushResults(p, results) ==
  /\ OK(p) /\ results \in Seq(ValueType)
  /\ ~p.failed /\ FpLast(results) => p.reg[Fp0] = 0

\* A result is pushed: only the last may go to a register.
LEMMA PushOneResult ==
  ASSUME NEW p, NEW results, MayPushResults(p, results), NEW k \in 1 .. Len(results),
         NEW q, PushedResults(p, results, k - 1, q), ~q.failed
  PROVE  PushedResults(p, results, k, PushBlockResult(q, results, k))
<1> DEFINE a == PushBlockResult(q, results, k)
           t == results[k]
           n == Len(p.stack)
           inFp == k = Len(results) /\ IsFpType(results[k])
<1>1. /\ OK(p) /\ OK(q) /\ Frame(p, q) /\ ~p.failed /\ Len(q.stack) = n + k - 1 /\ n \in Nat
      /\ Len(results) \in Nat /\ t \in ValueType
  <2>1. OK(p) /\ OK(q) /\ Frame(p, q) /\ ~p.failed /\ Len(q.stack) = n + (k - 1) /\ n \in Nat
    BY Height DEF PushedResults, MayPushResults
  <2>2. results \in Seq(ValueType)
    BY DEF MayPushResults
  <2> HIDE DEF n, t
  <2>3. Len(results) \in Nat
    BY <2>2
  <2>4. t \in ValueType
    BY <2>2, <2>3 DEF t
  <2> QED
    BY <2>1, <2>3, <2>4
<1>2. /\ \A i \in 1 .. n : q.stack[i] = p.stack[i]
      /\ \A j \in 1 .. k - 1 : ResultIn(q.stack[n + j], results, j)
      /\ q.reg = p.reg
  BY <1>1 DEF PushedResults
<1>3. ASSUME NEW slot, OK(a), Frame(q, a), Pushed(q, a, [type |-> t, slot |-> slot]),
             IF inFp THEN slot = Fp0 ELSE ~a.failed => InSlots([type |-> t, slot |-> slot]),
             ~a.failed => /\ k < Len(results) => a.reg = q.reg
                          /\ \A r \in Registers : a.reg[r] \in {q.reg[r], n + k}
      PROVE  PushedResults(p, results, k, a)
  <2> DEFINE x == [type |-> t, slot |-> slot]
  <2> HIDE DEF a, inFp
  <2>1. Frame(p, a)
    BY <1>1, <1>3 DEF Frame
  <2>2. ASSUME ~a.failed
        PROVE  /\ ~p.failed /\ Len(a.stack) = n + k
               /\ \A i \in 1 .. n : a.stack[i] = p.stack[i]
               /\ \A j \in 1 .. k : ResultIn(a.stack[n + j], results, j)
               /\ k < Len(results) => a.reg = p.reg
               /\ \A r \in Registers : a.reg[r] \in {p.reg[r], n + k}
    <3>1. a.stack = Append(q.stack, x) /\ q.stack \in Seq(Item) /\ x \in Item
      BY <2>2, <1>3, <1>1, Height DEF Pushed
    <3> HIDE DEF x
    <3>2. Len(a.stack) = n + k /\ a.stack[n + k] = x
          /\ \A i \in 1 .. n + k - 1 : a.stack[i] = q.stack[i]
      <4> DEFINE m == Len(q.stack)
      <4>1. Len(a.stack) = m + 1 /\ a.stack[m + 1] = x /\ \A i \in 1 .. m : a.stack[i] = q.stack[i]
        BY <3>1
      <4>2. m = n + k - 1 /\ m + 1 = n + k
        BY <1>1
      <4> HIDE DEF m
      <4> QED
        BY <4>1, <4>2
    <3>3. \A i \in 1 .. n : a.stack[i] = p.stack[i]
      BY <3>2, <1>1, <1>2
    <3>4. ASSUME NEW j \in 1 .. k PROVE ResultIn(a.stack[n + j], results, j)
      <4>1. CASE j = k
        <5>1. a.stack[n + j] = x
          BY <3>2, <4>1
        <5>2. x.type = results[k] /\ x.slot = slot
          BY DEF x, t
        <5>3. Last(results) = results[Len(results)]
          BY DEF Last
        <5>4. CASE inFp
          <6>1. slot = Fp0
            BY <1>3, <5>4
          <6>2. IsFpType(Last(results)) /\ j = Len(results)
            BY <5>3, <5>4, <4>1 DEF inFp
          <6> QED
            BY <5>1, <5>2, <6>1, <6>2, <4>1 DEF ResultIn
        <5>5. CASE ~inFp
          <6>1. InSlots(x)
            BY <1>3, <5>5, <2>2 DEF x
          <6>2. ~(IsFpType(Last(results)) /\ j = Len(results))
            BY <5>3, <5>5, <4>1 DEF inFp
          <6> QED
            BY <5>1, <5>2, <6>1, <6>2, <4>1 DEF ResultIn
        <5> QED
          BY <5>4, <5>5
      <4>2. CASE j # k
        <5>1. j \in 1 .. k - 1 /\ n + j \in 1 .. n + k - 1
          BY <4>2, <1>1
        <5> QED
          BY <5>1, <3>2, <1>2
      <4> QED
        BY <4>1, <4>2
    <3>5. k < Len(results) => a.reg = p.reg
      BY <2>2, <1>3, <1>2
    <3>6. \A r \in Registers : a.reg[r] \in {p.reg[r], n + k}
      BY <2>2, <1>3, <1>2
    <3> QED
      BY <3>2, <3>3, <3>4, <3>5, <3>6, <1>1
  <2> QED
    BY <2>1, <2>2, <1>3 DEF PushedResults, n
<1>4. CASE inFp
  <2>1. a = PushRegister(q, t) /\ RegisterOf(t) = Fp0
    BY <1>4 DEF PushBlockResult, RegisterOf
  <2>2. q.reg[Fp0] = 0
    <3>1. FpLast(results)
      <4>1. results # <<>>
        BY <1>1
      <4> QED
        BY <4>1, <1>4 DEF FpLast, Last
    <3> QED
      BY <3>1, <1>1, <1>2 DEF MayPushResults
  <2> DEFINE b == PushRegister(q, t)
  <2>3. /\ OK(b) /\ Frame(q, b) /\ Pushed(q, b, [type |-> t, slot |-> RegisterOf(t)])
        /\ ~b.failed => b.reg = [q.reg EXCEPT ![RegisterOf(t)] = Len(q.stack) + 1]
    <3> HIDE DEF t
    <3>1. q.reg[RegisterOf(t)] = 0
      BY <2>1, <2>2
    <3> QED
      BY <3>1, <1>1, PushInRegister
  <2> HIDE DEF b
  <2>4. a = b
    BY <2>1 DEF b
  <2>5. ~a.failed => /\ k < Len(results) => a.reg = q.reg
                     /\ \A r \in Registers : a.reg[r] \in {q.reg[r], n + k}
    <3>1. SUFFICES ASSUME ~a.failed
                   PROVE  /\ k < Len(results) => a.reg = q.reg
                          /\ \A r \in Registers : a.reg[r] \in {q.reg[r], n + k}
      OBVIOUS
    <3>2. a.reg = [q.reg EXCEPT ![Fp0] = n + k]
      <4> DEFINE m == Len(q.stack) + 1
      <4>1. m = n + k
        BY <1>1
      <4>2. a.reg = [q.reg EXCEPT ![Fp0] = m]
        BY <3>1, <2>1, <2>3, <2>4
      <4> QED
        BY <4>1, <4>2
    <3>3. q.reg \in [Registers -> 0 .. MaxStackHeight]
      BY <1>1 DEF OK, Typed
    <3> HIDE DEF a
    <3>4. ~(k < Len(results))
      BY <1>4, <1>1
    <3> QED
      BY <3>2, <3>3, <3>4
  <2> HIDE DEF a, t, inFp
  <2> QED
    BY <1>3, <1>4, <2>1, <2>3, <2>4, <2>5 DEF a
<1>5. CASE ~inFp
  <2> DEFINE b == PushAllocatedSlot(q, t)
  <2>1. a = b
    BY <1>5 DEF PushBlockResult
  <2>2. /\ OK(b) /\ Frame(q, b)
        /\ ~b.failed => b.reg = q.reg
        /\ \E slot : Pushed(q, b, [type |-> t, slot |-> slot]) /\ (~b.failed => InSlots([type |-> t, slot |-> slot]) /\ slot >= q.firstDynamic)
    <3> HIDE DEF t
    <3> QED
      BY <1>1, PushAllocated
  <2> HIDE DEF b, a
  <2>3. PICK slot : Pushed(q, b, [type |-> t, slot |-> slot]) /\ (~b.failed => InSlots([type |-> t, slot |-> slot]))
    BY <2>2
  <2> HIDE DEF t, inFp
  <2> QED
    BY <1>3, <1>5, <2>1, <2>2, <2>3 DEF a
<1> QED
  BY <1>4, <1>5

\* All are pushed, or the compilation failed.
LEMMA PushBlockResultsOK ==
  ASSUME NEW p, NEW results, MayPushResults(p, results)
  PROVE  PushedResults(p, results, Len(results), PushBlockResults(p, results))
<1> DEFINE n == Len(results)
<1>0. n \in Nat
  BY DEF MayPushResults
<1>1. PICK f : /\ f[0] = p
               /\ \A k \in 1 .. Len(results) : f[k] = Then(f[k - 1], LAMBDA r : PushBlockResult(r, results, k))
               /\ PushBlockResults(p, results) = f[Len(results)]
  BY ZenonT(40), <1>0, PushBlockResultsSteps
<1> DEFINE S == {k \in 0 .. n : PushedResults(p, results, k, f[k])}
<1>2. 0 \in S
  <2>1. OK(p) /\ Frame(p, p) /\ Len(p.stack) \in Nat
    BY Height DEF MayPushResults, Frame
  <2>2. PushedResults(p, results, 0, p)
    BY <2>1 DEF PushedResults
  <2> QED
    BY <1>0, <1>1, <2>2
<1>3. ASSUME NEW k \in 1 .. n, k - 1 \in S PROVE k \in S
  <2> DEFINE a == f[k - 1]
  <2>1. PushedResults(p, results, k - 1, a) /\ k \in 0 .. n
    BY <1>3
  <2>2. f[k] = IF a.failed THEN a ELSE PushBlockResult(a, results, k)
    BY <1>1 DEF Then
  <2> HIDE DEF a
  <2>3. CASE a.failed
    <3>1. PushedResults(p, results, k, a)
      BY <2>1, <2>3 DEF PushedResults
    <3> QED
      BY <3>1, <2>1, <2>2, <2>3
  <2>4. CASE ~a.failed
    <3>1. PushedResults(p, results, k, PushBlockResult(a, results, k))
      BY <2>1, <2>4, PushOneResult
    <3> QED
      BY <3>1, <2>1, <2>2, <2>4
  <2> QED
    BY <2>3, <2>4
<1>4. n \in S
  <2> HIDE DEF S, n
  <2>1. \A k \in 0 .. n : k \in S
    BY <1>0, <1>2, <1>3, UpTo DEF n
  <2> QED
    BY <2>1, <1>0
<1> QED
  BY <1>1, <1>4

-----------------------------------------------------------------------------
(* A block begins                                                          *)

\* With the registers free the items that went may come back.
LEMMA RestoreStack ==
  ASSUME NEW p, NEW q, OK(p), OK(q), Frame(p, q), q.reg = p.reg
  PROVE  LET a == [q EXCEPT !.stack = p.stack] IN
         OK(a) /\ Frame(p, a) /\ a.stack = p.stack /\ a.reg = p.reg /\ a.failed = q.failed
<1> DEFINE a == [q EXCEPT !.stack = p.stack]
<1>1. DOMAIN q = Fields
  BY DEF OK, Typed
<1>2. /\ DOMAIN a = Fields /\ a.stack = p.stack
      /\ \A f \in Fields \ {"stack"} : a[f] = q[f]
  BY <1>1 DEF Fields
<1> HIDE DEF a
<1>3. /\ a.reg = q.reg /\ a.count = q.count /\ a.top = q.top
      /\ a.maxSlots = q.maxSlots /\ a.firstConst = q.firstConst /\ a.constEnd = q.constEnd
      /\ a.firstDynamic = q.firstDynamic /\ a.ignored = q.ignored /\ a.wild = q.wild
      /\ a.blocks = q.blocks /\ a.skip = q.skip /\ a.to = q.to /\ a.failed = q.failed
  BY <1>2 DEF Fields
<1>4. Typed(a)
  BY <1>2, <1>3 DEF OK, Typed
<1>5. Bounds(a) /\ BlocksOk(a.blocks) /\ Base(a.blocks) <= Len(a.stack)
  BY <1>2, <1>3 DEF OK, Bounds, Frame
<1>6. ASSUME ~a.failed PROVE Sound(a.stack, a.reg, a.blocks, a.firstConst)
  <2>1. ~p.failed
    BY <1>3, <1>6 DEF Frame
  <2>2. Sound(p.stack, p.reg, p.blocks, p.firstConst)
    BY <2>1 DEF OK
  <2> QED
    BY <2>2, <1>2, <1>3 DEF Frame
<1>7. OK(a)
  BY <1>4, <1>5, <1>6 DEF OK
<1>8. Frame(p, a)
  BY <1>3 DEF Frame
<1> QED
  BY <1>2, <1>3, <1>7, <1>8 DEF a

NewScope(opcode, type, exit, base) ==
  [opcode |-> opcode, type |-> type, exit |-> exit, base |-> base, poly |-> FALSE]

MayAppend(blocks, opcode, type, exit, base) ==
  /\ BlocksOk(blocks) /\ opcode \in {"block", "loop", "if", "else"} /\ type \in BlockTypes
  /\ FpLast(type.results) => Len(type.results) = 1
  /\ exit \in Nat /\ Base(blocks) <= exit
  /\ base \in Nat /\ base = exit + Len(type.params) + Len(type.results)

\* A scope more.
LEMMA BlocksAppended ==
  ASSUME NEW blocks, NEW opcode, NEW type, NEW exit, NEW base,
         MayAppend(blocks, opcode, type, exit, base)
  PROVE  LET new == Append(blocks, NewScope(opcode, type, exit, base)) IN
         /\ BlocksOk(new) /\ Len(new) = Len(blocks) + 1 /\ Base(new) = base
         /\ new[Len(new)] = NewScope(opcode, type, exit, base)
         /\ \A k \in 1 .. Len(blocks) : new[k] = blocks[k]
<1> DEFINE b == NewScope(opcode, type, exit, base)
           new == Append(blocks, b)
           n == Len(blocks)
<1>1. /\ BlocksOk(blocks) /\ opcode \in {"block", "loop", "if", "else"} /\ type \in BlockTypes
      /\ FpLast(type.results) => Len(type.results) = 1
      /\ exit \in Nat /\ Base(blocks) <= exit
      /\ base \in Nat /\ base = exit + Len(type.params) + Len(type.results)
  BY DEF MayAppend
<1>3. b \in Scope
  BY <1>1 DEF NewScope, Scope
<1>4. blocks \in Seq(Scope) /\ n \in Nat /\ n >= 1
  BY <1>1 DEF BlocksOk
<1>5. /\ b.opcode = opcode /\ b.type = type /\ b.exit = exit /\ b.base = base
  BY DEF NewScope
<1> HIDE DEF b
<1>6. new \in Seq(Scope) /\ Len(new) = n + 1 /\ new[n + 1] = b /\ \A k \in 1 .. n : new[k] = blocks[k]
  BY <1>3, <1>4
<1> HIDE DEF new, n
<1>7. new[1] = blocks[1]
  BY <1>4, <1>6
<1>8. ASSUME NEW k \in 2 .. n + 1
      PROVE  LET c == new[k] IN
             /\ c.opcode # "func" /\ c.type \in BlockTypes
             /\ c.base = c.exit + Len(c.type.params) + Len(c.type.results)
             /\ \A j \in 1 .. k - 1 : new[j].base <= c.exit
             /\ FpLast(c.type.results) => Len(c.type.results) = 1
  <2>1. CASE k = n + 1
    <3>1. new[k] = b
      BY <2>1, <1>6
    <3>2. ASSUME NEW j \in 1 .. k - 1 PROVE new[j].base <= b.exit
      <4>1. j \in 1 .. n
        BY <2>1, <1>4
      <4>2. blocks[j].base <= Base(blocks) /\ blocks[j].base \in Nat /\ Base(blocks) \in Nat
        BY <4>1, <1>1, ScopeFacts DEF n
      <4>3. new[j] = blocks[j]
        BY <4>1, <1>6
      <4> QED
        BY <4>2, <4>3, <1>1, <1>5
    <3>3. b.opcode # "func"
      BY <1>1, <1>5
    <3> QED
      BY <3>1, <3>2, <3>3, <1>1, <1>5
  <2>2. CASE k # n + 1
    <3>1. k \in 2 .. n /\ k \in 1 .. n
      BY <2>2, <1>4
    <3>2. \A j \in 1 .. k - 1 : j \in 1 .. n
      BY <3>1, <1>4
    <3>3. new[k] = blocks[k] /\ \A j \in 1 .. k - 1 : new[j] = blocks[j]
      BY <3>1, <3>2, <1>6
    <3>4. LET c == blocks[k] IN
          /\ c.opcode # "func" /\ c.type \in BlockTypes
          /\ c.base = c.exit + Len(c.type.params) + Len(c.type.results)
          /\ \A j \in 1 .. k - 1 : blocks[j].base <= c.exit
          /\ FpLast(c.type.results) => Len(c.type.results) = 1
      BY <3>1, <1>1 DEF BlocksOk, n
    <3> QED
      BY <3>3, <3>4
  <2> QED
    BY <2>1, <2>2
<1>9. BlocksOk(new)
  <2>1. blocks[1].opcode = "func" /\ blocks[1].exit = NumLocals /\ blocks[1].base = NumLocals
        /\ blocks[1].type.results = RetTypes
    BY <1>1 DEF BlocksOk
  <2>2. Len(new) >= 1
    BY <1>4, <1>6
  <2> QED
    BY <2>1, <2>2, <1>6, <1>7, <1>8 DEF BlocksOk
<1>10. Base(new) = base
  BY <1>5, <1>6 DEF Base
<1> QED
  BY <1>6, <1>9, <1>10 DEF new, b, n

\* A block may begin: the registers are free, and its parameters on top.
MayEnterBlock(p, opcode, type) ==
  /\ OK(p) /\ ~p.failed /\ \A r \in Registers : p.reg[r] = 0
  /\ opcode \in {"block", "loop", "if", "else"} /\ type \in BlockTypes
  /\ FpLast(type.results) => Len(type.results) = 1
  /\ OnTop(p, type.params)

Exit(p, type) == Len(p.stack) - Len(type.params)

EnteredBlocks(p, opcode, type) ==
  Append(p.blocks, NewScope(opcode, type, Exit(p, type), Len(p.stack) + Len(type.results)))

\* The scope of the block that begins.
LEMMA EnteredBlocksOk ==
  ASSUME NEW p, NEW opcode, NEW type, MayEnterBlock(p, opcode, type)
  PROVE  LET new == EnteredBlocks(p, opcode, type)
             exit == Exit(p, type)
             base == Len(p.stack) + Len(type.results) IN
         /\ exit \in Nat /\ Base(p.blocks) <= exit /\ exit + Len(type.params) = Len(p.stack)
         /\ base \in Nat /\ BlocksOk(new) /\ Len(new) = Len(p.blocks) + 1
         /\ new[Len(new)] = NewScope(opcode, type, exit, base)
         /\ Base(new) = base /\ \A k \in 1 .. Len(p.blocks) : new[k] = p.blocks[k]
         /\ type.params \in Seq(ValueType) /\ type.results \in Seq(ValueType)
<1> DEFINE exit == Exit(p, type)
           base == Len(p.stack) + Len(type.results)
<1>1. /\ OK(p) /\ opcode \in {"block", "loop", "if", "else"} /\ type \in BlockTypes
      /\ FpLast(type.results) => Len(type.results) = 1
      /\ BlockHeight(p) >= Len(type.params)
  BY DEF MayEnterBlock, OnTop
<1>2. type.params \in Seq(ValueType) /\ type.results \in Seq(ValueType)
  BY <1>1, SignatureAssumption
<1>3. BlockHeight(p) = Len(p.stack) - Base(p.blocks) /\ Len(p.stack) \in Nat /\ Base(p.blocks) \in Nat
  BY <1>1, Height
<1>4. exit \in Nat /\ Base(p.blocks) <= exit /\ exit + Len(type.params) = Len(p.stack)
      /\ base \in Nat /\ base = exit + Len(type.params) + Len(type.results)
  <2> DEFINE l == Len(p.stack)  g == Base(p.blocks)  m == Len(type.params)  n == Len(type.results)
  <2>1. m \in Nat /\ n \in Nat
    BY <1>2
  <2>2. l \in Nat /\ g \in Nat /\ l - g >= m
    BY <1>1, <1>3
  <2>3. exit = l - m /\ base = l + n
    BY DEF Exit
  <2> HIDE DEF l, g, m, n, exit, base
  <2>4. exit \in Nat /\ g <= exit /\ exit + m = l /\ base \in Nat /\ base = exit + m + n
    BY <2>1, <2>2, <2>3
  <2> QED
    BY <2>4 DEF l, g, m, n
<1> HIDE DEF exit, base
<1>5. LET new == Append(p.blocks, NewScope(opcode, type, exit, base)) IN
         /\ BlocksOk(new) /\ Len(new) = Len(p.blocks) + 1 /\ Base(new) = base
         /\ new[Len(new)] = NewScope(opcode, type, exit, base)
         /\ \A k \in 1 .. Len(p.blocks) : new[k] = p.blocks[k]
  <2>1. BlocksOk(p.blocks)
    BY <1>1 DEF OK
  <2>2. MayAppend(p.blocks, opcode, type, exit, base)
    BY <2>1, <1>1, <1>4 DEF MayAppend
  <2> QED
    BY <2>2, BlocksAppended
<1> QED
  BY <1>2, <1>4, <1>5 DEF EnteredBlocks, exit, base

\* With the slots of the results on it, the stack is sound for the new scope.
LEMMA EnterSound ==
  ASSUME NEW p, NEW opcode, NEW type, MayEnterBlock(p, opcode, type),
         NEW stack, StackOk(stack), Len(stack) = Len(p.stack) + Len(type.results),
         \A i \in 1 .. Len(p.stack) : stack[i] = p.stack[i],
         \A j \in 1 .. Len(type.results) : ResultIn(stack[Len(p.stack) + j], type.results, j),
         LocalsOk(stack, p.firstConst)
  PROVE  Sound(stack, p.reg, EnteredBlocks(p, opcode, type), p.firstConst)
<1> DEFINE new == EnteredBlocks(p, opcode, type)
           exit == Exit(p, type)
           base == Len(p.stack) + Len(type.results)
           b == NewScope(opcode, type, exit, base)
           n == Len(p.blocks)
           l == Len(p.stack)
<1>1. /\ exit \in Nat /\ Base(p.blocks) <= exit /\ exit + Len(type.params) = l
      /\ base \in Nat /\ BlocksOk(new) /\ Len(new) = n + 1
      /\ new[Len(new)] = b /\ Base(new) = base /\ \A k \in 1 .. n : new[k] = p.blocks[k]
      /\ type.params \in Seq(ValueType) /\ type.results \in Seq(ValueType)
  <2>1. LET x == EnteredBlocks(p, opcode, type)
            e == Exit(p, type)
            f == Len(p.stack) + Len(type.results) IN
         /\ e \in Nat /\ Base(p.blocks) <= e /\ e + Len(type.params) = Len(p.stack)
         /\ f \in Nat /\ BlocksOk(x) /\ Len(x) = Len(p.blocks) + 1
         /\ x[Len(x)] = NewScope(opcode, type, e, f)
         /\ Base(x) = f /\ \A k \in 1 .. Len(p.blocks) : x[k] = p.blocks[k]
         /\ type.params \in Seq(ValueType) /\ type.results \in Seq(ValueType)
    BY EnteredBlocksOk
  <2> QED
    BY <2>1
<1>2. OK(p) /\ ~p.failed /\ (\A r \in Registers : p.reg[r] = 0) /\ OnTop(p, type.params)
  BY DEF MayEnterBlock
<1>3. /\ RegistersOk(p.stack, p.reg, Base(p.blocks)) /\ OnlyRecords(p.stack, p.blocks)
      /\ \A k \in 2 .. n : RecordsOk(p.stack, p.blocks[k])
      /\ BlocksOk(p.blocks)
  BY <1>2 DEF OK, Sound
<1>4. l \in Nat /\ n \in Nat /\ n >= 1 /\ Base(p.blocks) \in Nat /\ Base(p.blocks) <= l
      /\ Len(type.params) \in Nat /\ Len(type.results) \in Nat
  <2>1. n \in Nat /\ n >= 1
    BY <1>3, ScopeFacts
  <2>2. Len(type.params) \in Nat /\ Len(type.results) \in Nat
    BY <1>1
  <2> HIDE DEF n
  <2> QED
    BY <2>1, <2>2, <1>2, Height
<1>5. b.opcode = opcode /\ b.type = type /\ b.exit = exit /\ b.base = base
  BY DEF NewScope
<1> HIDE DEF b, new, exit
<1>6. ASSUME NEW i \in 1 .. l, i > Base(p.blocks) PROVE stack[i].slot \notin Registers /\ InSlots(stack[i])
  <2>1. i \in Base(p.blocks) + 1 .. Len(p.stack) /\ i # 0
    BY <1>4, <1>6
  <2>2. p.stack[i].slot \notin Registers
    BY <2>1, <1>2, <1>3 DEF RegistersOk
  <2>3. p.stack[i].slot \notin Registers => InSlots(p.stack[i])
    BY <1>2, InSlotsOrRegister
  <2> QED
    BY <2>2, <2>3
<1>7. Base(new) <= Len(stack)
  BY <1>1
<1>8. RegistersOk(stack, p.reg, Base(new))
  <2> DEFINE m == Len(stack)
  <2>1. base + 1 .. m = {}
    <3>1. m = base /\ base \in Nat
      BY <1>1
    <3> HIDE DEF m, base
    <3> QED
      BY <3>1
  <2> HIDE DEF m
  <2> QED
    BY <2>1, <1>1, <1>2 DEF RegistersOk, m
<1>9. OnlyRecords(stack, new)
  <2>1. SUFFICES ASSUME NEW i \in 1 .. base, stack[i].slot \in Registers
                 PROVE  \E k \in 2 .. Len(new) : new[k].exit < i /\ i <= new[k].base
    BY <1>1 DEF OnlyRecords
  <2>2. CASE i <= Base(p.blocks)
    <3>1. i \in 1 .. Base(p.blocks) /\ i \in 1 .. l
      BY <2>2, <1>4, <1>1
    <3>2. PICK k \in 2 .. n : p.blocks[k].exit < i /\ i <= p.blocks[k].base
      <4>1. p.stack[i].slot \in Registers
        BY <2>1, <3>1
      <4> QED
        BY <3>1, <4>1, <1>3 DEF OnlyRecords
    <3>3. k \in 2 .. n + 1 /\ k \in 1 .. n
      BY <1>4
    <3> QED
      BY <3>2, <3>3, <1>1
  <2>3. CASE Base(p.blocks) < i /\ i <= l
    <3>1. i \in 1 .. l /\ i > Base(p.blocks)
      BY <2>3, <1>1, <1>4
    <3> HIDE DEF l, base
    <3>2. stack[i].slot \notin Registers
      BY <3>1, <1>6
    <3> QED
      BY <3>2, <2>1
  <2>4. CASE i > l
    <3>1. exit < i /\ i <= base
      <4> DEFINE m == Len(type.params)
      <4>1. exit \in Nat /\ m \in Nat /\ exit + m = l /\ l \in Nat /\ i \in 1 .. base /\ base \in Nat
        BY <1>1, <1>4
      <4> HIDE DEF m, l, base
      <4> QED
        BY <2>4, <4>1
    <3>2. n + 1 \in 2 .. Len(new)
      BY <1>1, <1>4
    <3> QED
      BY <3>1, <3>2, <1>1, <1>5
  <2>5. i \in Nat /\ Base(p.blocks) \in Nat /\ l \in Nat
    BY <1>1, <1>4
  <2> QED
    BY <2>2, <2>3, <2>4, <2>5
<1>10. ASSUME NEW k \in 2 .. Len(new) PROVE RecordsOk(stack, new[k])
  <2>1. CASE k = n + 1
    <3>1. ASSUME NEW j \in 1 .. Len(type.params)
          PROVE  stack[exit + j].type = type.params[j] /\ InSlots(stack[exit + j])
      <4>1. exit + j \in 1 .. l /\ exit + j > Base(p.blocks) /\ exit + j = l - Len(type.params) + j
        <5> DEFINE m == Len(type.params)  g == Base(p.blocks)
        <5>1. exit \in Nat /\ m \in Nat /\ exit + m = l /\ l \in Nat /\ g <= exit /\ g \in Nat /\ j \in 1 .. m
          BY <1>1, <1>4
        <5> HIDE DEF m, l, g
        <5>2. exit + j \in 1 .. l /\ exit + j > g /\ exit + j = l - m + j
          BY <5>1
        <5> QED
          BY <5>2 DEF m, g
      <4>2. p.stack[l - Len(type.params) + j].type = type.params[j]
        BY <1>2 DEF OnTop
      <4>3. stack[exit + j] = p.stack[l - Len(type.params) + j]
        BY <4>1
      <4> HIDE DEF l
      <4> QED
        BY <4>1, <4>2, <4>3, <1>6
    <3>2. ASSUME NEW j \in 1 .. Len(type.results)
          PROVE  LET x == stack[exit + Len(type.params) + j] IN
                 x.type = type.results[j] /\ IF IsFpType(Last(type.results)) /\ j = Len(type.results)
                                             THEN x.slot = Fp0 ELSE InSlots(x)
      <4>1. exit + Len(type.params) + j = l + j
        BY <1>1
      <4>2. ResultIn(stack[l + j], type.results, j)
        OBVIOUS
      <4> QED
        BY <4>1, <4>2 DEF ResultIn
    <3>3. RecordsOk(stack, b)
      BY <3>1, <3>2, <1>5 DEF RecordsOk
    <3> QED
      BY <3>3, <2>1, <1>1
  <2>2. CASE k # n + 1
    <3>1. k \in 2 .. n /\ k \in 1 .. n
      BY <2>2, <1>1, <1>4
    <3>2. \A c \in 2 .. n : RecordsOk(stack, p.blocks[c])
      <4>1. \A i \in 1 .. Base(p.blocks) : stack[i] = p.stack[i]
        <5> DEFINE g == Base(p.blocks)
        <5>1. g \in Nat /\ l \in Nat /\ g <= l /\ \A i \in 1 .. l : stack[i] = p.stack[i]
          BY <1>4
        <5> HIDE DEF g, l
        <5>2. ASSUME NEW i \in 1 .. g PROVE stack[i] = p.stack[i]
          <6>1. i \in 1 .. l
            BY <5>1
          <6> QED
            BY <6>1, <5>1
        <5> QED
          BY <5>2 DEF g
      <4> QED
        BY <4>1, <1>3, BelowBase
    <3> QED
      BY <3>1, <3>2, <1>1
  <2> QED
    BY <2>1, <2>2
<1> HIDE DEF l, n, base
<1> QED
  BY <1>7, <1>8, <1>9, <1>10 DEF Sound, new

\* The state after the results were popped again.
Inside(r, results, blocks) ==
  [PopN(r, Len(results)) EXCEPT !.stack = r.stack, !.blocks = blocks]

\* Popping the results frees their slots; they stay as records.
LEMMA InsideOK ==
  ASSUME NEW p, NEW opcode, NEW type, MayEnterBlock(p, opcode, type),
         NEW a, OK(a), Frame(p, a), a.stack = p.stack, a.reg = p.reg,
         NEW r, PushedResults(a, type.results, Len(type.results), r), ~r.failed
  PROVE  LET e == Inside(r, type.results, EnteredBlocks(p, opcode, type)) IN
         /\ OK(e) /\ ~e.failed /\ e.stack = r.stack
         /\ e.blocks = EnteredBlocks(p, opcode, type) /\ e.skip = p.skip /\ e.to = p.to
         /\ e.ignored = p.ignored /\ e.firstConst = p.firstConst /\ e.firstDynamic = p.firstDynamic
<1> DEFINE results == type.results
           n == Len(results)
           new == EnteredBlocks(p, opcode, type)
           x == PopN(r, n)
           e == Inside(r, results, new)
<1>1. /\ OK(r) /\ Frame(a, r) /\ ~a.failed /\ Len(r.stack) = Len(p.stack) + n
      /\ \A i \in 1 .. Len(p.stack) : r.stack[i] = p.stack[i]
      /\ \A j \in 1 .. n : ResultIn(r.stack[Len(p.stack) + j], results, j)
      /\ \A k \in Registers : r.reg[k] \in {p.reg[k], Len(p.stack) + n}
  BY DEF PushedResults
<1>2. OK(p) /\ ~p.failed /\ \A k \in Registers : p.reg[k] = 0
  BY DEF MayEnterBlock
<1>3. /\ BlocksOk(new) /\ Base(new) = Len(p.stack) + n /\ results \in Seq(ValueType) /\ n \in Nat
  <2>1. LET z == EnteredBlocks(p, opcode, type)
            c == Exit(p, type)
            f == Len(p.stack) + Len(type.results) IN
         /\ c \in Nat /\ Base(p.blocks) <= c /\ c + Len(type.params) = Len(p.stack)
         /\ f \in Nat /\ BlocksOk(z) /\ Len(z) = Len(p.blocks) + 1
         /\ z[Len(z)] = NewScope(opcode, type, c, f)
         /\ Base(z) = f /\ \A k \in 1 .. Len(p.blocks) : z[k] = p.blocks[k]
         /\ type.params \in Seq(ValueType) /\ type.results \in Seq(ValueType)
    BY EnteredBlocksOk
  <2>2. BlocksOk(new) /\ Base(new) = Len(p.stack) + n /\ results \in Seq(ValueType)
    BY <2>1
  <2> HIDE DEF results
  <2>3. n \in Nat
    BY <2>2
  <2> HIDE DEF n, new
  <2> QED
    BY <2>2, <2>3
<1> DEFINE l == Len(p.stack)
<1>4. l \in Nat /\ Base(p.blocks) \in Nat /\ Base(p.blocks) <= l /\ r.blocks = p.blocks
      /\ BlockHeight(r) = l + n - Base(p.blocks)
  <2>1. r.blocks = p.blocks
    BY <1>1 DEF Frame
  <2>2. BlockHeight(r) = Len(r.stack) - Base(r.blocks)
    BY <1>1, Height
  <2>3. l \in Nat /\ Base(p.blocks) \in Nat /\ Base(p.blocks) <= l
    BY <1>2, Height
  <2>4. BlockHeight(r) = Len(r.stack) - Base(p.blocks) /\ Len(r.stack) = l + n
    BY <2>1, <2>2, <1>1
  <2>5. BlockHeight(r) = l + n - Base(p.blocks)
    <3>1. l \in Nat /\ n \in Nat /\ Base(p.blocks) \in Nat
      BY <2>3, <1>3
    <3> HIDE DEF l, n
    <3> QED
      BY <2>4, <3>1
  <2> QED
    BY <2>1, <2>3, <2>5
<1>5. n <= BlockHeight(r)
  <2> DEFINE g == Base(p.blocks)
  <2>1. g \in Nat /\ l \in Nat /\ n \in Nat /\ g <= l /\ BlockHeight(r) = l + n - g
    BY <1>3, <1>4
  <2> HIDE DEF n, l, g
  <2> QED
    BY <2>1
<1> HIDE DEF n, results, l, new
<1>6. OK(x) /\ Frame(r, x) /\ ~x.failed /\ Popped(r, x, n) /\ Len(x.stack) = Len(r.stack) - n
  <2>1. OK(x) /\ Frame(r, x) /\ x.failed = r.failed /\ Popped(r, x, n) /\ Len(x.stack) = Len(r.stack) - n
    BY <1>1, <1>3, <1>5, PopNOK
  <2> QED
    BY <2>1
<1> HIDE DEF x
<1>7. x.reg = p.reg
  <2>1. ASSUME NEW k \in Registers PROVE x.reg[k] = 0
    <3>1. r.reg[k] = 0 \/ r.reg[k] > Len(r.stack) - n
      <4>1. CASE r.reg[k] = p.reg[k]
        BY <4>1, <1>2
      <4>2. CASE r.reg[k] = l + n
        <5>1. Len(r.stack) = l + n
          BY <1>1 DEF l, n, results
        <5>2. CASE n = 0
          <6>1. x.reg[k] = 0 \/ TRUE
            OBVIOUS
          <6>2. l + n = Len(r.stack) /\ r.reg[k] = Len(r.stack)
            BY <4>2, <5>1
          <6>3. r.reg[k] = p.reg[k]
            <7>1. r.reg[k] # 0 => r.reg[k] \in Base(r.blocks) + 1 .. Len(r.stack) /\ r.stack[r.reg[k]].slot = k
              BY <1>1 DEF OK, Sound, RegistersOk
            <7>2. CASE r.reg[k] = 0
              BY <7>2, <1>2
            <7>3. CASE r.reg[k] # 0
              <8>1. l \in Base(p.blocks) + 1 .. l /\ p.stack[l].slot = k /\ l \in 1 .. l
                <9>1. r.reg[k] = l /\ Len(r.stack) = l
                  BY <5>1, <5>2, <6>2, <1>4
                <9>2. l \in Base(p.blocks) + 1 .. l /\ r.stack[l].slot = k
                  BY <7>1, <7>3, <9>1, <1>4
                <9>3. l \in 1 .. l
                  BY <9>2, <1>4
                <9> QED
                  BY <9>2, <9>3, <1>1 DEF l
              <8>2. p.reg[k] = l
                BY <8>1, <1>2 DEF OK, Sound, RegistersOk, l
              <8> QED
                BY <8>2, <6>2, <5>1, <5>2, <1>4
            <7> QED
              BY <7>2, <7>3
          <6> QED
            BY <6>3, <1>2
        <5>3. CASE n # 0
          BY <4>2, <5>1, <5>3, <1>3, <1>4
        <5> QED
          BY <5>2, <5>3
      <4> QED
        BY <4>1, <4>2, <1>1 DEF l, n, results
    <3> QED
      BY <3>1, <1>1, <1>3, <1>5, <1>6, FreeAfter
  <2>2. x.reg \in [Registers -> 0 .. MaxStackHeight] /\ p.reg \in [Registers -> 0 .. MaxStackHeight]
    BY <1>2, <1>6 DEF OK, Typed
  <2> QED
    BY <2>1, <2>2, <1>2
<1>8. /\ DOMAIN e = Fields /\ e.stack = r.stack /\ e.blocks = new
      /\ \A f \in Fields \ {"stack", "blocks"} : e[f] = x[f]
  <2>1. DOMAIN x = Fields
    BY <1>6 DEF OK, Typed
  <2>2. e = [x EXCEPT !.stack = r.stack, !.blocks = new]
    BY DEF Inside, x, n
  <2> HIDE DEF e
  <2> QED
    BY <2>1, <2>2 DEF Fields
<1> HIDE DEF e
<1>9. /\ e.reg = x.reg /\ e.count = x.count /\ e.top = x.top
      /\ e.maxSlots = x.maxSlots /\ e.firstConst = x.firstConst /\ e.constEnd = x.constEnd
      /\ e.firstDynamic = x.firstDynamic /\ e.ignored = x.ignored /\ e.wild = x.wild
      /\ e.skip = x.skip /\ e.to = x.to /\ e.failed = x.failed
  BY <1>8 DEF Fields
<1>10. Typed(e)
  <2>1. StackOk(r.stack)
    BY <1>1 DEF OK, Typed
  <2> QED
    BY <2>1, <1>6, <1>8, <1>9 DEF OK, Typed
<1>11. Bounds(e)
  BY <1>6, <1>9 DEF OK, Bounds
<1>12. e.firstConst = p.firstConst /\ e.firstDynamic = p.firstDynamic /\ e.skip = p.skip /\ e.to = p.to
       /\ e.ignored = p.ignored
  <2>1. x.firstConst = p.firstConst /\ x.firstDynamic = p.firstDynamic /\ x.skip = p.skip /\ x.to = p.to
        /\ x.ignored = p.ignored
    BY <1>1, <1>6 DEF Frame
  <2> QED
    BY <2>1, <1>9
<1>13. Sound(e.stack, e.reg, e.blocks, e.firstConst)
  <2>1. StackOk(r.stack) /\ LocalsOk(r.stack, p.firstConst)
    <3>1. LocalsOk(r.stack, r.firstConst) /\ r.firstConst = p.firstConst
      BY <1>1 DEF OK, Sound, Frame
    <3> QED
      BY <3>1, <1>1 DEF OK, Typed
  <2>2. Sound(r.stack, p.reg, new, p.firstConst)
    BY <2>1, <1>1, EnterSound DEF new, n, results
  <2> QED
    BY <2>2, <1>7, <1>8, <1>9, <1>12
<1>14. Base(e.blocks) <= Len(e.stack)
  <2> DEFINE m == Len(p.stack) + n
  <2>1. m \in Nat
    BY <1>3, <1>4 DEF l
  <2>2. Base(new) = m /\ Len(r.stack) = m
    BY <1>1, <1>3 DEF n, results
  <2> HIDE DEF m
  <2> QED
    BY <2>1, <2>2, <1>8
<1>15. OK(e)
  BY <1>3, <1>8, <1>10, <1>11, <1>13, <1>14 DEF OK
<1> QED
  BY <1>6, <1>8, <1>9, <1>12, <1>15 DEF e, new, results

\* The item of the k-th parameter, which is pushed again.
MayPushAgain(e, stack, exit, params) ==
  /\ OK(e) /\ ~e.failed /\ params \in Seq(ValueType)
  /\ \A k \in 1 .. Len(params) :
       LET x == stack[exit + k] IN
       /\ x = [type |-> params[k], slot |-> x.slot] /\ x.slot \in Nat /\ InSlots(x)
       /\ x.slot < e.firstConst => \E j \in 1 .. NumLocals : x = e.stack[j]

\* More items may have come.
Grown(p, q) ==
  /\ OK(q) /\ Frame(p, q)
  /\ ~q.failed => /\ ~p.failed /\ Len(p.stack) <= Len(q.stack)
                  /\ \A i \in 1 .. Len(p.stack) : q.stack[i] = p.stack[i]

\* A parameter is pushed again, where it was.
LEMMA PushParamOK ==
  ASSUME NEW e, NEW stack, NEW exit, NEW params, MayPushAgain(e, stack, exit, params),
         NEW k \in 1 .. Len(params), NEW q, Grown(e, q)
  PROVE  Grown(e, PushParam(q, params[k], stack[exit + k].slot))
<1> DEFINE x == stack[exit + k]
           t == params[k]
           m == IF x.slot >= q.firstDynamic THEN MarkSlotsAllocated(q, x.slot, t) ELSE q
           a == PushParam(q, t, x.slot)
<1>1. /\ OK(e) /\ ~e.failed /\ params \in Seq(ValueType)
      /\ x = [type |-> t, slot |-> x.slot] /\ x.slot \in Nat /\ InSlots(x)
      /\ x.slot < e.firstConst => \E j \in 1 .. NumLocals : x = e.stack[j]
  BY DEF MayPushAgain
<1>2. t \in ValueType
  <2>1. Len(params) \in Nat
    BY <1>1
  <2> QED
    BY <1>1, <2>1
<1>3. OK(q) /\ Frame(e, q)
  BY DEF Grown
<1> HIDE DEF x, t
<1>4. a = Push(m, t, x.slot)
  BY DEF PushParam
<1>5. x.slot + GetTypeNumSlots(t) <= MaxFunctionSlots
  BY <1>1 DEF InSlots
<1>6. Close(q, m)
  <2>1. CASE x.slot >= q.firstDynamic
    BY <2>1, <1>1, <1>3, <1>5, MarkClose DEF OK
  <2>2. CASE ~(x.slot >= q.firstDynamic)
    BY <2>2, <1>3, CloseSelf DEF OK
  <2> QED
    BY <2>1, <2>2
<1>7. OK(m)
  BY <1>3, <1>6, CloseOK
<1> HIDE DEF m, a
<1>8. ~m.failed /\ x.slot < m.firstConst => \E j \in 1 .. NumLocals : [type |-> t, slot |-> x.slot] = m.stack[j]
  <2>1. SUFFICES ASSUME ~m.failed, x.slot < m.firstConst
                 PROVE  \E j \in 1 .. NumLocals : [type |-> t, slot |-> x.slot] = m.stack[j]
    OBVIOUS
  <2>2. m.firstConst = e.firstConst /\ m.stack = q.stack /\ ~q.failed
    BY <2>1, <1>3, <1>6 DEF Close, Frame
  <2>3. PICK j \in 1 .. NumLocals : x = e.stack[j]
    BY <2>1, <2>2, <1>1
  <2>4. q.stack[j] = e.stack[j]
    <3>1. NumLocals \in Nat /\ NumLocals <= Base(e.blocks) /\ Base(e.blocks) <= Len(e.stack)
          /\ Base(e.blocks) \in Nat /\ Len(e.stack) \in Nat
      BY <1>1, Height
    <3>2. j \in 1 .. Len(e.stack)
      BY <3>1
    <3> QED
      BY <3>2, <2>2 DEF Grown
  <2> QED
    BY <2>2, <2>3, <2>4, <1>1
<1>9. /\ OK(a) /\ Frame(m, a) /\ Pushed(m, a, [type |-> t, slot |-> x.slot])
  BY <1>1, <1>2, <1>4, <1>5, <1>7, <1>8, PushSlot
<1>10. Frame(e, a)
  BY <1>3, <1>6, <1>9 DEF Close, Frame
<1>11. ASSUME ~a.failed
       PROVE  /\ ~e.failed /\ Len(e.stack) <= Len(a.stack)
              /\ \A i \in 1 .. Len(e.stack) : a.stack[i] = e.stack[i]
  <2> DEFINE y == [type |-> t, slot |-> x.slot]
  <2>1. ~m.failed /\ a.stack = Append(m.stack, y) /\ y \in Item
    BY <1>9, <1>11 DEF Pushed
  <2>2. m.stack = q.stack /\ ~q.failed /\ q.stack \in Seq(Item)
    BY <2>1, <1>3, <1>6, Height DEF Close
  <2>3. /\ Len(e.stack) <= Len(q.stack) /\ \A i \in 1 .. Len(e.stack) : q.stack[i] = e.stack[i]
    BY <2>2 DEF Grown
  <2> HIDE DEF y
  <2> DEFINE n == Len(q.stack)  l == Len(e.stack)
  <2>4. n \in Nat /\ l \in Nat
    BY <1>1, <1>3, Height
  <2>5. Len(a.stack) = n + 1 /\ \A i \in 1 .. n : a.stack[i] = q.stack[i]
    BY <2>1, <2>2
  <2>6. l <= n /\ \A i \in 1 .. l : q.stack[i] = e.stack[i]
    BY <2>3
  <2> HIDE DEF n, l
  <2>7. l <= n + 1 /\ \A i \in 1 .. l : a.stack[i] = e.stack[i]
    BY <2>4, <2>5, <2>6
  <2> QED
    BY <2>5, <2>7, <1>1 DEF n, l
<1>12. Grown(e, a)
  BY <1>9, <1>10, <1>11 DEF Grown
<1> QED
  BY <1>12 DEF a, t, x

\* All of them are.
LEMMA PushAgainOK ==
  ASSUME NEW e, NEW stack, NEW exit, NEW params, MayPushAgain(e, stack, exit, params)
  PROVE  Grown(e, PushAgain(e, stack, exit, params))
<1>a. Len(params) \in Nat
  BY DEF MayPushAgain
<1>b. PICK last : last = PushAgain(e, stack, exit, params)
  OBVIOUS
<1>1. PICK f : /\ f[0] = e
               /\ \A k \in 1 .. Len(params) : f[k] = PushParam(f[k - 1], params[k], stack[exit + k].slot)
               /\ last = f[Len(params)]
  BY <1>a, <1>b, PushAgainSteps
<1> DEFINE n == Len(params)
<1>0. n \in Nat
  BY <1>a
<1> DEFINE S == {k \in 0 .. n : Grown(e, f[k])}
<1>2. 0 \in S
  <2>1. OK(e) /\ Frame(e, e) /\ Len(e.stack) \in Nat
    BY Height DEF MayPushAgain, Frame
  <2>2. Grown(e, e)
    BY <2>1 DEF Grown
  <2> QED
    BY <1>0, <1>1, <2>2
<1>3. ASSUME NEW k \in 1 .. n, k - 1 \in S PROVE k \in S
  <2> DEFINE a == f[k - 1]
  <2>1. Grown(e, a) /\ k \in 0 .. n /\ k \in 1 .. Len(params)
    BY <1>3
  <2>2. f[k] = PushParam(a, params[k], stack[exit + k].slot)
    BY <1>1
  <2> HIDE DEF a
  <2>3. Grown(e, PushParam(a, params[k], stack[exit + k].slot))
    BY <2>1, PushParamOK
  <2> QED
    BY <2>1, <2>2, <2>3
<1>4. n \in S
  <2> HIDE DEF S, n
  <2>1. \A k \in 0 .. n : k \in S
    BY <1>0, <1>2, <1>3, UpTo DEF n
  <2> QED
    BY <2>1, <1>0
<1> QED
  BY <1>b, <1>1, <1>4

\* A block was entered, unless an error was not passed on.
Entering(p, opcode, type, q) ==
  \/ q = [p EXCEPT !.ignored = TRUE]
  \/ /\ OK(q) /\ q.blocks = EnteredBlocks(p, opcode, type)
     /\ q.skip = p.skip /\ q.to = p.to /\ q.ignored = p.ignored

\* The beginning of CompileBlock: a is the stack when the parameters were popped,
\* r has the results on it, which were popped again in e.
Begun(p, opcode, type, a, r, e, q) ==
  /\ OK(a) /\ Frame(p, a) /\ a.stack = p.stack /\ a.reg = p.reg /\ MayPushResults(a, type.results)
  /\ r.failed => q = [p EXCEPT !.ignored = TRUE]
  /\ ~r.failed =>
       /\ PushedResults(a, type.results, Len(type.results), r)
       /\ OK(e) /\ ~e.failed /\ e.stack = r.stack /\ e.blocks = EnteredBlocks(p, opcode, type)
       /\ e.skip = p.skip /\ e.to = p.to /\ e.ignored = p.ignored
       /\ e.firstConst = p.firstConst /\ e.firstDynamic = p.firstDynamic
       /\ MayPushAgain(e, p.stack, Exit(p, type), type.params)
       /\ LET x == PushAgain(e, p.stack, Exit(p, type), type.params) IN
          q = IF x.failed THEN [p EXCEPT !.ignored = TRUE] ELSE x

\* What EnterBlock does, step by step.
LEMMA EnterBlockIs ==
  ASSUME NEW p, NEW opcode, NEW type, MayEnterBlock(p, opcode, type)
  PROVE  LET popped == IF opcode = "else" THEN p ELSE PopN(p, Len(type.params))
             a == [popped EXCEPT !.stack = p.stack]
             r == PushBlockResults(a, type.results) IN
         Begun(p, opcode, type, a, r, Inside(r, type.results, EnteredBlocks(p, opcode, type)),
               EnterBlock(p, opcode, type))
<1> DEFINE params == type.params
           results == type.results
           n == Len(params)
           exit == Exit(p, type)
           popped == IF opcode = "else" THEN p ELSE PopN(p, n)
           a == [popped EXCEPT !.stack = p.stack]
           r == PushBlockResults(a, results)
           new == EnteredBlocks(p, opcode, type)
           e == Inside(r, results, new)
           y == PopN(r, Len(results))
           scope == NewScope(opcode, type, exit, Len(r.stack))
           entered == [y EXCEPT !.stack = r.stack, !.blocks = Append(@, scope)]
           q == EnterBlock(p, opcode, type)
<1>1. /\ OK(p) /\ ~p.failed /\ \A k \in Registers : p.reg[k] = 0
      /\ FpLast(results) => Len(results) = 1
      /\ OnTop(p, params)
  BY DEF MayEnterBlock
<1>2. /\ exit \in Nat /\ Base(p.blocks) <= exit /\ exit + n = Len(p.stack)
      /\ params \in Seq(ValueType) /\ results \in Seq(ValueType)
      /\ Base(new) = Len(p.stack) + Len(results)
  <2>1. LET z == EnteredBlocks(p, opcode, type)
            c == Exit(p, type)
            f == Len(p.stack) + Len(type.results) IN
         /\ c \in Nat /\ Base(p.blocks) <= c /\ c + Len(type.params) = Len(p.stack)
         /\ f \in Nat /\ BlocksOk(z) /\ Len(z) = Len(p.blocks) + 1
         /\ z[Len(z)] = NewScope(opcode, type, c, f)
         /\ Base(z) = f /\ \A k \in 1 .. Len(p.blocks) : z[k] = p.blocks[k]
         /\ type.params \in Seq(ValueType) /\ type.results \in Seq(ValueType)
    BY EnteredBlocksOk
  <2> QED
    BY <2>1
<1>3. LET x == PushAgain(entered, p.stack, exit, params) IN
      q = IF r.failed \/ x.failed THEN [p EXCEPT !.ignored = TRUE] ELSE x
  BY DEF EnterBlock, PushAgain, Iterate, NewScope, Exit
<1>4. n \in Nat /\ n <= BlockHeight(p)
  <2>1. n \in Nat
    BY <1>2
  <2> QED
    BY <2>1, <1>1 DEF OnTop
<1> HIDE DEF q, new, entered, y
<1>5. OK(popped) /\ Frame(p, popped) /\ ~popped.failed /\ popped.reg = p.reg
  <2>1. CASE opcode = "else"
    BY <2>1, <1>1 DEF Frame
  <2>2. CASE opcode # "else"
    <3> DEFINE x == PopN(p, n)
    <3>1. OK(x) /\ Frame(p, x) /\ x.failed = p.failed /\ Popped(p, x, n)
      BY <1>1, <1>4, PopNOK
    <3> HIDE DEF x, n
    <3>2. ASSUME NEW k \in Registers PROVE x.reg[k] = 0
      BY <3>1, <1>1, <1>4, FreeAfter
    <3>3. x.reg \in [Registers -> 0 .. MaxStackHeight] /\ p.reg \in [Registers -> 0 .. MaxStackHeight]
      BY <3>1, <1>1 DEF OK, Typed
    <3>4. x.reg = p.reg
      BY <3>2, <3>3, <1>1
    <3> QED
      BY <3>1, <3>4, <2>2, <1>1 DEF x
  <2> QED
    BY <2>1, <2>2
<1> HIDE DEF popped, n
<1>6. OK(a) /\ Frame(p, a) /\ a.stack = p.stack /\ a.reg = p.reg /\ a.failed = popped.failed
  BY <1>1, <1>5, RestoreStack
<1> HIDE DEF a
<1>7. MayPushResults(a, results)
  <2>1. Fp0 \in Registers
    BY Numbers
  <2> QED
    BY <2>1, <1>1, <1>2, <1>6 DEF MayPushResults
<1>8. PushedResults(a, results, Len(results), r)
  BY <1>7, PushBlockResultsOK
<1> HIDE DEF r
<1>9. CASE r.failed
  <2>1. q = [p EXCEPT !.ignored = TRUE]
    BY <1>3, <1>9
  <2> HIDE DEF q, e
  <2>2. Begun(p, opcode, type, a, r, e, q)
    BY <1>6, <1>7, <1>9, <2>1 DEF Begun
  <2> QED
    BY <2>2 DEF q, a, r, popped, n, e, new
<1>10. CASE ~r.failed
  <2>1. /\ OK(e) /\ ~e.failed /\ e.stack = r.stack
        /\ e.blocks = new /\ e.skip = p.skip /\ e.to = p.to
        /\ e.ignored = p.ignored /\ e.firstConst = p.firstConst /\ e.firstDynamic = p.firstDynamic
    <3>1. LET x == Inside(r, type.results, EnteredBlocks(p, opcode, type)) IN
         /\ OK(x) /\ ~x.failed /\ x.stack = r.stack
         /\ x.blocks = EnteredBlocks(p, opcode, type) /\ x.skip = p.skip /\ x.to = p.to
         /\ x.ignored = p.ignored /\ x.firstConst = p.firstConst /\ x.firstDynamic = p.firstDynamic
      BY <1>6, <1>8, <1>10, InsideOK
    <3> QED
      BY <3>1 DEF new
  <2> HIDE DEF e
  <2>2. \A i \in 1 .. Len(p.stack) : e.stack[i] = p.stack[i]
    BY <2>1, <1>6, <1>8, <1>10 DEF PushedResults
  <2>3. ASSUME NEW k \in 1 .. Len(params)
        PROVE  LET x == p.stack[exit + k] IN
               /\ x = [type |-> params[k], slot |-> x.slot] /\ x.slot \in Nat /\ InSlots(x)
               /\ x.slot < e.firstConst => \E j \in 1 .. NumLocals : x = e.stack[j]
    <3> DEFINE i == exit + k
               x == p.stack[i]
               l == Len(p.stack)
    <3>1. i \in 1 .. l /\ i > Base(p.blocks) /\ i = l - n + k /\ l \in Nat /\ i \in Base(p.blocks) + 1 .. l
      <4> DEFINE g == Base(p.blocks)
      <4>1. exit \in Nat /\ n \in Nat /\ exit + n = l /\ l \in Nat /\ g <= exit /\ g \in Nat /\ k \in 1 .. n
        BY <1>1, <1>2, <1>4, Height DEF n
      <4> HIDE DEF l, g, exit
      <4>2. exit + k \in 1 .. l /\ exit + k > g /\ exit + k = l - n + k /\ exit + k \in g + 1 .. l
        BY <4>1
      <4> QED
        BY <4>1, <4>2 DEF g
    <3>2. x.type = params[k]
      <4>1. p.stack[l - n + k].type = params[k]
        BY <1>1 DEF OnTop, n
      <4> HIDE DEF i, l
      <4> QED
        BY <4>1, <3>1
    <3> HIDE DEF i
    <3>3. x \in Item /\ x.slot \in Nat /\ (x.slot \notin Registers => InSlots(x))
      BY <3>1, <1>1, InSlotsOrRegister DEF l
    <3>4. x.slot \notin Registers
      <4>1. RegistersOk(p.stack, p.reg, Base(p.blocks))
        BY <1>1 DEF OK, Sound
      <4>2. i # 0
        BY <3>1
      <4> QED
        BY <4>1, <4>2, <3>1, <1>1 DEF RegistersOk, l
    <3>5. ASSUME x.slot < e.firstConst PROVE \E j \in 1 .. NumLocals : x = e.stack[j]
      <4>1. LocalsOk(p.stack, p.firstConst)
        BY <1>1 DEF OK, Sound
      <4>2. PICK j \in 1 .. NumLocals : x = p.stack[j]
        BY <4>1, <2>1, <3>1, <3>5 DEF LocalsOk, l
      <4>3. j \in 1 .. l
        <5>1. NumLocals \in Nat /\ Base(p.blocks) \in Nat /\ NumLocals <= Base(p.blocks) /\ Base(p.blocks) <= l /\ l \in Nat
          BY <1>1, Height
        <5> HIDE DEF l
        <5> QED
          BY <5>1
      <4> QED
        BY <4>2, <4>3, <2>2 DEF l
    <3>6. x = [type |-> params[k], slot |-> x.slot]
      BY <3>2, <3>3 DEF Item
    <3> QED
      BY <3>3, <3>4, <3>5, <3>6 DEF i
  <2>4. MayPushAgain(e, p.stack, exit, params)
    BY <2>1, <2>3, <1>2 DEF MayPushAgain
  <2> DEFINE x == PushAgain(e, p.stack, exit, params)
  <2>5. q = IF x.failed THEN [p EXCEPT !.ignored = TRUE] ELSE x
    <3>1. y.blocks = p.blocks
      <4>1. OK(r) /\ Frame(a, r) /\ Len(results) \in Nat
        BY <1>8, <1>2 DEF PushedResults
      <4>2. Frame(r, y)
        BY <4>1, PopNOK DEF y
      <4> QED
        BY <4>1, <4>2, <1>6 DEF Frame
    <3>2. Len(r.stack) = Len(p.stack) + Len(results)
      BY <1>8, <1>10, <1>6 DEF PushedResults
    <3>3. Append(y.blocks, scope) = new
      BY <3>1, <3>2 DEF new, EnteredBlocks
    <3>4. entered = e
      BY <3>3 DEF entered, e, Inside, y
    <3> QED
      BY <3>4, <1>3, <1>10
  <2> HIDE DEF x, q
  <2>6. Begun(p, opcode, type, a, r, e, q)
    BY <1>6, <1>7, <1>8, <1>10, <2>1, <2>4, <2>5 DEF Begun, x, new
  <2> QED
    BY <2>6 DEF q, a, r, popped, n, e, new
<1> QED
  BY <1>9, <1>10

\* The beginning of CompileBlock, with an error that is not passed on.
LEMMA EnterBlockOK ==
  ASSUME NEW p, NEW opcode, NEW type, MayEnterBlock(p, opcode, type)
  PROVE  Entering(p, opcode, type, EnterBlock(p, opcode, type))
<1> DEFINE popped == IF opcode = "else" THEN p ELSE PopN(p, Len(type.params))
           a == [popped EXCEPT !.stack = p.stack]
           r == PushBlockResults(a, type.results)
           e == Inside(r, type.results, EnteredBlocks(p, opcode, type))
           q == EnterBlock(p, opcode, type)
           x == PushAgain(e, p.stack, Exit(p, type), type.params)
<1>1. Begun(p, opcode, type, a, r, e, q)
  BY EnterBlockIs
<1> HIDE DEF a, r, e, q
<1>2. CASE r.failed
  BY <1>1, <1>2 DEF Begun, Entering, q
<1>3. CASE ~r.failed
  <2>1. Grown(e, x)
    BY <1>1, <1>3, PushAgainOK DEF Begun
  <2>2. q = IF x.failed THEN [p EXCEPT !.ignored = TRUE] ELSE x
    BY <1>1, <1>3 DEF Begun
  <2> HIDE DEF x
  <2>3. OK(x) /\ x.blocks = EnteredBlocks(p, opcode, type) /\ x.skip = p.skip /\ x.to = p.to
        /\ x.ignored = p.ignored
    BY <1>1, <1>3, <2>1 DEF Begun, Grown, Frame
  <2> QED
    BY <2>2, <2>3 DEF Entering, q
<1> QED
  BY <1>2, <1>3

-----------------------------------------------------------------------------
(* A block ends                                                            *)

\* No register is in use by an empty scope.
LEMMA NoneInUse ==
  ASSUME NEW p, OK(p), ~p.failed, Len(p.stack) = Base(p.blocks), NEW r \in Registers
  PROVE  p.reg[r] = 0
<1>1. RegistersOk(p.stack, p.reg, Base(p.blocks)) /\ Len(p.stack) \in Nat
  BY Height DEF OK, Sound
<1> DEFINE n == Len(p.stack)
<1>2. n + 1 .. n = {}
  BY <1>1
<1>3. p.reg[r] # 0 => p.reg[r] \in n + 1 .. n
  BY <1>1 DEF RegistersOk
<1> HIDE DEF n
<1> QED
  BY <1>2, <1>3

\* Up to m parameters of the innermost scope are left on the stack.
Cut(p, m) ==
  [p EXCEPT !.blocks = Front(@), !.stack = SubSeq(@, 1, Last(p.blocks).exit + m)]

\* Nothing of the innermost scope is on the stack.
MayCut(p, m) ==
  /\ OK(p) /\ ~p.failed /\ Len(p.blocks) >= 2 /\ Len(p.stack) = Base(p.blocks)
  /\ m \in 0 .. Len(Last(p.blocks).type.params)

\* A scope less.
LEMMA FrontBlocks ==
  ASSUME NEW blocks, BlocksOk(blocks), Len(blocks) >= 2
  PROVE  LET new == Front(blocks) IN
         /\ BlocksOk(new) /\ Len(new) = Len(blocks) - 1
         /\ \A k \in 1 .. Len(blocks) - 1 : new[k] = blocks[k]
         /\ Base(new) <= Last(blocks).exit
<1> DEFINE new == Front(blocks)
           n == Len(blocks)
<1>1. blocks \in Seq(Scope) /\ n \in Nat /\ n >= 2
  BY DEF BlocksOk
<1>2. new \in Seq(Scope) /\ Len(new) = n - 1 /\ \A k \in 1 .. n - 1 : new[k] = blocks[k]
  BY <1>1, FrontFacts
<1> HIDE DEF new, n
<1>3. new[1] = blocks[1]
  BY <1>1, <1>2
<1>4. ASSUME NEW k \in 2 .. n - 1
      PROVE  LET b == new[k] IN
             /\ b.opcode # "func" /\ b.type \in BlockTypes
             /\ b.base = b.exit + Len(b.type.params) + Len(b.type.results)
             /\ \A j \in 1 .. k - 1 : new[j].base <= b.exit
             /\ FpLast(b.type.results) => Len(b.type.results) = 1
  <2>1. new[k] = blocks[k] /\ \A j \in 1 .. k - 1 : new[j] = blocks[j]
    BY <1>1, <1>2
  <2>2. k \in 2 .. Len(blocks)
    BY <1>1 DEF n
  <2>3. LET b == blocks[k] IN
             /\ b.opcode # "func" /\ b.type \in BlockTypes
             /\ b.base = b.exit + Len(b.type.params) + Len(b.type.results)
             /\ \A j \in 1 .. k - 1 : blocks[j].base <= b.exit
             /\ FpLast(b.type.results) => Len(b.type.results) = 1
    BY <2>2 DEF BlocksOk
  <2> QED
    BY <2>1, <2>3
<1>5. BlocksOk(new)
  <2>1. blocks[1].opcode = "func" /\ blocks[1].exit = NumLocals /\ blocks[1].base = NumLocals
        /\ blocks[1].type.results = RetTypes
    BY DEF BlocksOk
  <2>2. Len(new) >= 1
    BY <1>1, <1>2
  <2> QED
    BY <2>1, <2>2, <1>2, <1>3, <1>4 DEF BlocksOk
<1>6. Base(new) <= Last(blocks).exit
  <2>1. n \in 2 .. n /\ n - 1 \in 1 .. n - 1
    BY <1>1
  <2>2. blocks[n - 1].base <= blocks[n].exit
    BY <2>1 DEF BlocksOk, n
  <2>3. new[n - 1] = blocks[n - 1]
    BY <2>1, <1>2
  <2> QED
    BY <2>2, <2>3, <1>2 DEF Base, Last, n
<1> QED
  BY <1>2, <1>5, <1>6 DEF new, n

\* The numbers of the cut.
LEMMA CutFacts ==
  ASSUME NEW p, NEW m, MayCut(p, m)
  PROVE  LET b == Last(p.blocks) IN
         /\ b.exit \in Nat /\ b.exit + m <= Base(p.blocks) /\ m \in Nat /\ Len(p.stack) \in Nat
         /\ Len(p.blocks) \in Nat /\ Base(p.blocks) <= Len(p.stack) /\ b = p.blocks[Len(p.blocks)]
         /\ NumLocals \in Nat /\ NumLocals <= Base(Front(p.blocks)) /\ Base(Front(p.blocks)) <= b.exit
         /\ Base(Front(p.blocks)) \in Nat
<1> DEFINE b == Last(p.blocks)
           n == Len(p.blocks)
<1>1. OK(p) /\ Len(p.blocks) >= 2 /\ m \in 0 .. Len(b.type.params)
  BY DEF MayCut
<1>2. n \in Nat /\ b = p.blocks[n]
  BY <1>1, ScopeFacts DEF OK, Last
<1>3. n \in 2 .. n /\ n \in 1 .. n
  BY <1>1, <1>2
<1> HIDE DEF b
<1>4. b.exit \in Nat /\ b.type.params \in Seq(ValueType) /\ b.type.results \in Seq(ValueType)
      /\ b.base <= Base(p.blocks) /\ b.base \in Nat
  BY <1>1, <1>2, <1>3, ScopeFacts DEF OK
<1>5. b.base = b.exit + Len(b.type.params) + Len(b.type.results)
  BY <1>1, <1>2, <1>3 DEF OK, BlocksOk
<1>6. Len(p.stack) \in Nat /\ Base(p.blocks) \in Nat /\ Base(p.blocks) <= Len(p.stack) /\ NumLocals \in Nat
  BY <1>1, Height
<1>7. b.exit + m <= Base(p.blocks) /\ m \in Nat
  <2> DEFINE e == b.exit  x == Len(b.type.params)  y == Len(b.type.results)  g == Base(p.blocks)  f == b.base
  <2>1. e \in Nat /\ x \in Nat /\ y \in Nat /\ g \in Nat /\ f = e + x + y /\ m \in 0 .. x /\ f <= g
    BY SMTT(40), <1>1, <1>4, <1>5, <1>6
  <2> HIDE DEF e, x, y, g, f
  <2>2. e + m <= g /\ m \in Nat
    BY <2>1
  <2> QED
    BY <2>2 DEF e, g
<1>8. BlocksOk(Front(p.blocks)) /\ Base(Front(p.blocks)) <= b.exit
  BY <1>1, FrontBlocks DEF OK, b
<1>9. NumLocals <= Base(Front(p.blocks)) /\ Base(Front(p.blocks)) \in Nat
  <2> DEFINE x == Front(p.blocks)  k == Len(x)
  <2>1. k \in Nat /\ k >= 1 /\ Base(x) \in Nat
        /\ \A j \in 1 .. k : /\ x[j].exit \in Nat /\ x[j].base \in Nat
                             /\ NumLocals <= x[j].exit /\ x[j].exit <= x[j].base /\ x[j].base <= Base(x)
    BY <1>8, ScopeFacts
  <2> HIDE DEF x
  <2>2. 1 \in 1 .. k
    BY <2>1
  <2>3. NumLocals <= Base(x)
    BY <2>1, <2>2, <1>6
  <2> QED
    BY <2>1, <2>3 DEF x
<1> QED
  BY <1>1, <1>2, <1>4, <1>6, <1>7, <1>8, <1>9 DEF b, n

\* The stack has its type when it is shortened,
LEMMA SubStack ==
  ASSUME NEW stack, StackOk(stack), NEW n \in Nat, n <= Len(stack)
  PROVE  LET new == SubSeq(stack, 1, n) IN
         StackOk(new) /\ Len(new) = n /\ \A i \in 1 .. n : new[i] = stack[i]
<1> DEFINE new == SubSeq(stack, 1, n)
           m == Len(stack)
<1>1. stack \in Seq(Item) /\ m \in Nat /\ m <= MaxStackHeight
      /\ \A i \in 1 .. m : stack[i].slot = RegisterOf(stack[i].type) \/ InSlots(stack[i])
  BY DEF StackOk
<1>2. new \in Seq(Item) /\ Len(new) = n /\ \A i \in 1 .. n : new[i] = stack[i]
  BY <1>1
<1> HIDE DEF new, m
<1>3. n <= MaxStackHeight
  BY <1>1, Numbers DEF m
<1>4. \A i \in 1 .. n : i \in 1 .. m
  BY <1>1 DEF m
<1>5. \A i \in 1 .. n : new[i].slot = RegisterOf(new[i].type) \/ InSlots(new[i])
  BY <1>1, <1>2, <1>4
<1> QED
  BY <1>2, <1>3, <1>5 DEF StackOk, new

\* and is sound for the scope outside:
LEMMA CutSound ==
  ASSUME NEW p, NEW m, MayCut(p, m)
  PROVE  LET new == SubSeq(p.stack, 1, Last(p.blocks).exit + m) IN
         /\ Sound(new, p.reg, Front(p.blocks), p.firstConst)
         /\ StackOk(new) /\ Len(new) = Last(p.blocks).exit + m
         /\ \A i \in 1 .. Last(p.blocks).exit + m : new[i] = p.stack[i]
<1> DEFINE b == Last(p.blocks)
           c == b.exit + m
           new == SubSeq(p.stack, 1, c)
           blocks == Front(p.blocks)
           n == Len(p.blocks)
           base == Base(blocks)
<1>1. /\ b.exit \in Nat /\ c <= Base(p.blocks) /\ m \in Nat /\ Len(p.stack) \in Nat
      /\ n \in Nat /\ Base(p.blocks) <= Len(p.stack) /\ b = p.blocks[n]
      /\ NumLocals \in Nat /\ NumLocals <= base /\ base <= b.exit /\ base \in Nat
  BY CutFacts
<1>2. OK(p) /\ ~p.failed /\ n >= 2 /\ m \in 0 .. Len(b.type.params) /\ Len(p.stack) = Base(p.blocks)
  BY DEF MayCut
<1>3. /\ OnlyRecords(p.stack, p.blocks) /\ \A k \in 2 .. n : RecordsOk(p.stack, p.blocks[k])
      /\ LocalsOk(p.stack, p.firstConst) /\ BlocksOk(p.blocks) /\ StackOk(p.stack)
  BY <1>2 DEF OK, Sound, Typed
<1>4. /\ BlocksOk(blocks) /\ Len(blocks) = n - 1
      /\ \A k \in 1 .. n - 1 : blocks[k] = p.blocks[k]
  BY <1>2, <1>3, FrontBlocks
<1> HIDE DEF b, n
<1>5. c \in Nat /\ c <= Len(p.stack)
  <2>1. c \in Nat
    BY <1>1
  <2> HIDE DEF c
  <2> QED
    BY <2>1, <1>1, <1>2
<1> HIDE DEF blocks
<1>6. StackOk(new) /\ Len(new) = c /\ \A i \in 1 .. c : new[i] = p.stack[i]
  <2> HIDE DEF c
  <2> QED
    BY <1>3, <1>5, SubStack
<1> HIDE DEF new, base
<1>7. base <= c
  BY <1>1
<1>8. ASSUME NEW i \in 1 .. c, p.stack[i].slot \in Registers PROVE i <= base
  <2>1. i \in 1 .. Base(p.blocks) /\ i \in Nat /\ i \in 1 .. Len(p.stack)
    <3> HIDE DEF c
    <3> QED
      BY <1>1, <1>2, <1>5
  <2>2. PICK k \in 2 .. n : p.blocks[k].exit < i /\ i <= p.blocks[k].base
    BY <2>1, <1>3, <1>8 DEF OnlyRecords, n
  <2>3. CASE k = n
    <3>1. b.exit < i /\ i <= c
      BY <2>2, <2>3, <1>1
    <3> DEFINE j == i - b.exit
    <3>2. j \in 1 .. m /\ b.exit + j = i /\ j \in 1 .. Len(b.type.params)
      <4>1. j \in 1 .. m /\ b.exit + j = i
        BY SMTT(40), <3>1, <1>1, <2>1
      <4>2. b.type.params \in Seq(ValueType)
        <5>1. n \in 1 .. n
          BY <1>1, <1>2
        <5> QED
          BY <5>1, <1>1, <1>3, ScopeFacts DEF n
      <4> DEFINE l == Len(b.type.params)
      <4>3. l \in Nat /\ m \in 0 .. l
        BY <4>2, <1>2
      <4> HIDE DEF j, l
      <4>4. j \in 1 .. l
        BY <4>1, <4>3, <1>1
      <4> QED
        BY <4>1, <4>4 DEF l
    <3>3. RecordsOk(p.stack, b)
      BY <1>1, <1>2, <1>3
    <3>4. InSlots(p.stack[b.exit + j])
      <4> HIDE DEF j
      <4> QED
        BY <3>2, <3>3 DEF RecordsOk
    <3>5. InSlots(p.stack[i])
      <4> HIDE DEF j
      <4> QED
        BY <3>2, <3>4
    <3>6. p.stack[i] \in Item
      BY <2>1, <1>2, InSlotsOrRegister
    <3> QED
      BY <3>5, <3>6, <1>8, ItemFacts
  <2>4. CASE k # n
    <3>1. k \in 1 .. n - 1
      BY <2>4, <1>1, <1>2
    <3>2. k \in 1 .. Len(blocks)
      BY <3>1, <1>4
    <3>3. blocks[k].base <= base /\ blocks[k].base \in Nat
      BY <3>2, <1>4, ScopeFacts DEF base
    <3>4. i <= blocks[k].base
      BY <3>1, <2>2, <1>4
    <3> QED
      BY <3>3, <3>4, <2>1, <1>1
  <2> QED
    BY <2>3, <2>4
<1> HIDE DEF c
<1>9. RegistersOk(new, p.reg, base)
  <2>1. \A r \in Registers : p.reg[r] = 0
    BY <1>2, NoneInUse
  <2>2. ASSUME NEW i \in base + 1 .. Len(new) PROVE new[i].slot \notin Registers
    <3>1. i \in 1 .. c /\ ~(i <= base)
      BY <1>1, <1>5, <1>6
    <3> QED
      BY <3>1, <1>6, <1>8
  <2> QED
    BY <2>1, <2>2 DEF RegistersOk
<1>10. OnlyRecords(p.stack, blocks)
  <2>1. SUFFICES ASSUME NEW i \in 1 .. base, p.stack[i].slot \in Registers
                 PROVE  \E k \in 2 .. Len(blocks) : blocks[k].exit < i /\ i <= blocks[k].base
    BY DEF OnlyRecords, base
  <2>2. i \in 1 .. Base(p.blocks) /\ i <= b.exit
    BY <1>1, <1>2, <1>5, <1>7
  <2>3. PICK k \in 2 .. n : p.blocks[k].exit < i /\ i <= p.blocks[k].base
    BY <2>1, <2>2, <1>3 DEF OnlyRecords, n
  <2>4. k # n
    BY <2>2, <2>3, <1>1
  <2>5. k \in 2 .. n - 1 /\ k \in 1 .. n - 1
    BY <2>4, <1>1
  <2> QED
    BY <2>3, <2>5, <1>4
<1>11. \A k \in 2 .. Len(blocks) : RecordsOk(p.stack, blocks[k])
  <2> TAKE k \in 2 .. Len(blocks)
  <2>1. k \in 2 .. n /\ k \in 1 .. n - 1
    BY <1>1, <1>4
  <2> QED
    BY <2>1, <1>3, <1>4
<1>12. \A i \in 1 .. base : new[i] = p.stack[i]
  <2> TAKE i \in 1 .. base
  <2>1. i \in 1 .. c
    BY <1>1, <1>5, <1>7
  <2> QED
    BY <2>1, <1>6
<1>13. OnlyRecords(new, blocks) /\ \A k \in 2 .. Len(blocks) : RecordsOk(new, blocks[k])
  BY <1>4, <1>10, <1>11, <1>12, BelowBase DEF base
<1>14. LocalsOk(new, p.firstConst)
  <2>1. \A i \in 1 .. NumLocals : new[i] = p.stack[i]
    <3> TAKE i \in 1 .. NumLocals
    <3>1. i \in 1 .. base
      BY <1>1
    <3> QED
      BY <3>1, <1>12
  <2>2. ASSUME NEW i \in 1 .. Len(new) PROVE i \in 1 .. Len(p.stack) /\ new[i] = p.stack[i]
    <3>1. i \in 1 .. c /\ i \in 1 .. Len(p.stack)
      BY <1>1, <1>5, <1>6
    <3> QED
      BY <3>1, <1>6
  <2> QED
    BY <2>1, <2>2, <1>3, LocalsKept
<1> QED
  BY <1>6, <1>7, <1>9, <1>13, <1>14 DEF Sound, new, blocks, base, c, b

\* its registers were not in use inside.
LEMMA CutOK ==
  ASSUME NEW p, NEW m, MayCut(p, m)
  PROVE  LET q == Cut(p, m) IN
         /\ OK(q) /\ ~q.failed /\ q.blocks = Front(p.blocks)
         /\ q.stack = SubSeq(p.stack, 1, Last(p.blocks).exit + m)
         /\ \A r \in Registers : q.reg[r] = 0
         /\ q.skip = p.skip /\ q.to = p.to /\ q.ignored = p.ignored
         /\ q.firstConst = p.firstConst /\ q.firstDynamic = p.firstDynamic
<1> DEFINE new == SubSeq(p.stack, 1, Last(p.blocks).exit + m)
           q == Cut(p, m)
           blocks == Front(p.blocks)
<1>1. Sound(new, p.reg, blocks, p.firstConst) /\ StackOk(new)
  BY CutSound
<1>2. OK(p) /\ ~p.failed /\ Len(p.blocks) >= 2 /\ Len(p.stack) = Base(p.blocks)
  BY DEF MayCut
<1>3. BlocksOk(blocks)
  BY <1>2, FrontBlocks DEF OK
<1>4. Typed(p)
  BY <1>2 DEF OK
<1>5. q = [p EXCEPT !.blocks = blocks, !.stack = new]
  BY DEF Cut
<1> HIDE DEF new, blocks, q
<1>6. Typed(q) /\ q.failed = p.failed /\ q.blocks = blocks /\ q.stack = new /\ q.reg = p.reg
      /\ q.skip = p.skip /\ q.to = p.to /\ q.ignored = p.ignored
      /\ q.firstConst = p.firstConst /\ q.firstDynamic = p.firstDynamic
      /\ q.constEnd = p.constEnd /\ q.top = p.top
  BY <1>1, <1>4, <1>5 DEF Typed, Fields
<1>7. Bounds(q)
  BY <1>2, <1>6 DEF OK, Bounds
<1>8. OK(q)
  BY <1>1, <1>3, <1>6, <1>7 DEF OK, Sound
<1>9. \A r \in Registers : q.reg[r] = 0
  BY <1>2, <1>6, NoneInUse
<1> QED
  BY <1>2, <1>6, <1>8, <1>9 DEF new, blocks, q

\* The innermost scope is done, and nothing of it is on the stack.
LEMMA LeaveBlockOK ==
  ASSUME NEW p, OK(p), ~p.failed, Len(p.blocks) >= 2,
         ~Block(p).poly => /\ BlockHeight(p) = Len(Block(p).type.results)
                           /\ OnTop(p, Block(p).type.results)
  PROVE  LET q == LeaveBlock(p) IN
         /\ OK(q) /\ Frame(p, q)
         /\ ~q.failed => Len(q.stack) = Base(q.blocks)
<1> DEFINE b == Block(p)
           n == Len(p.blocks)
           a == IF b.poly THEN p ELSE ResolveBlockResults(p, b, FALSE)
           c == BlockHeight(a)
           q == LeaveBlock(p)
<1>1. n \in Nat /\ n \in 2 .. n /\ b = p.blocks[n] /\ b = Last(p.blocks) /\ n \in 1 .. n
  <2>1. n \in Nat
    BY ScopeFacts DEF OK
  <2> QED
    BY <2>1 DEF Block, Last
<1>2. q = IF a.failed THEN a ELSE PopN(a, c)
  BY DEF LeaveBlock, Then
<1>3. OK(a) /\ Frame(p, a)
  <2>1. CASE b.poly
    BY <2>1 DEF Frame
  <2>2. CASE ~b.poly
    <3>0. Expected(b, FALSE) = b.type.results
      BY DEF Expected
    <3>1. OnTop(p, Expected(b, FALSE)) /\ BlockHeight(p) = Len(b.type.results)
      BY <2>2, <3>0
    <3>2. FpLast(b.type.results) => Len(b.type.results) = 1
      BY <1>1 DEF OK, BlocksOk
    <3>3. FpLast(b.type.results) => BlockHeight(p) = 1 /\ FpLast(Last(p.blocks).type.results)
      BY <3>1, <3>2, <1>1
    <3> HIDE DEF b
    <3>4. MayResolve(p, n, FALSE)
      BY <1>1, <3>1, <3>3 DEF MayResolve
    <3> DEFINE x == ResolveBlockResults(p, b, FALSE)
    <3>5. OK(x) /\ Frame(p, x)
      BY <3>4, <1>1, ResolveOK
    <3> QED
      BY <3>5, <2>2
  <2> QED
    BY <2>1, <2>2
<1> HIDE DEF a, q, b
<1>4. c \in Nat /\ Len(a.stack) \in Nat /\ Base(a.blocks) \in Nat /\ c = Len(a.stack) - Base(a.blocks)
  BY <1>3, Height
<1>5. CASE a.failed
  BY <1>2, <1>3, <1>5 DEF q
<1>6. CASE ~a.failed
  <2> HIDE DEF c
  <2>1. OK(q) /\ Frame(a, q) /\ Len(q.stack) = Len(a.stack) - c
    <3>1. c <= BlockHeight(a)
      BY <1>4 DEF c
    <3> QED
      BY <3>1, <1>2, <1>3, <1>4, <1>6, PopNOK
  <2>2. Frame(p, q)
    BY <1>3, <2>1 DEF Frame
  <2>3. Len(q.stack) = Base(a.blocks)
    BY <2>1, <1>4
  <2> QED
    BY <2>1, <2>2, <2>3 DEF Frame, q
<1> QED
  BY <1>5, <1>6 DEF q

\* What a jump changes, and that the rest is dead.
GoOn(p, skip, to) == [p EXCEPT !.skip = skip, !.to = to]

\* Where execution is does not matter for the stack.
LEMMA WithSkip ==
  ASSUME NEW p, OK(p), NEW skip, NEW to
  PROVE  LET q == GoOn(p, skip, to) IN
         /\ OK(q) /\ q.skip = skip /\ q.to = to /\ q.failed = p.failed /\ q.ignored = p.ignored
         /\ q.blocks = p.blocks /\ q.stack = p.stack /\ q.reg = p.reg
         /\ q.firstConst = p.firstConst /\ q.firstDynamic = p.firstDynamic
<1> DEFINE q == GoOn(p, skip, to)
<1>1. Typed(p)
  BY DEF OK
<1>2. Typed(q) /\ q.failed = p.failed /\ q.blocks = p.blocks /\ q.stack = p.stack /\ q.reg = p.reg
      /\ q.skip = skip /\ q.to = to /\ q.ignored = p.ignored
      /\ q.firstConst = p.firstConst /\ q.firstDynamic = p.firstDynamic
      /\ q.constEnd = p.constEnd /\ q.top = p.top
  BY <1>1 DEF Typed, Fields, GoOn
<1> HIDE DEF q
<1>3. OK(q)
  BY <1>2 DEF OK, Bounds
<1> QED
  BY <1>2, <1>3 DEF q

\* Nor does it that the code is dead,
LEMMA PolyOK ==
  ASSUME NEW p, OK(p)
  PROVE  LET q == [p EXCEPT !.blocks[Len(p.blocks)].poly = TRUE] IN
         /\ OK(q) /\ q.failed = p.failed /\ q.ignored = p.ignored /\ q.skip = p.skip /\ q.to = p.to
         /\ Len(q.blocks) = Len(p.blocks) /\ q.stack = p.stack /\ q.reg = p.reg
         /\ Base(q.blocks) = Base(p.blocks)
<1> DEFINE n == Len(p.blocks)
           q == [p EXCEPT !.blocks[n].poly = TRUE]
           new == [p.blocks EXCEPT ![n].poly = TRUE]
<1>1. Typed(p) /\ BlocksOk(p.blocks)
  BY DEF OK
<1>2. n \in Nat /\ n >= 1 /\ p.blocks \in Seq(Scope)
  BY <1>1, ScopeFacts DEF BlocksOk
<1>3. new \in Seq(Scope) /\ Len(new) = n /\ DOMAIN new = 1 .. n
      /\ \A k \in 1 .. n : new[k] = IF k = n THEN [p.blocks[k] EXCEPT !.poly = TRUE] ELSE p.blocks[k]
  <2>1. n \in 1 .. n /\ DOMAIN p.blocks = 1 .. n
    BY <1>2
  <2>2. p.blocks[n] \in Scope
    BY <1>2
  <2>3. [p.blocks[n] EXCEPT !.poly = TRUE] \in Scope
    BY <2>2 DEF Scope
  <2>4. new = [p.blocks EXCEPT ![n] = [p.blocks[n] EXCEPT !.poly = TRUE]]
    BY <2>1
  <2> HIDE DEF n, new
  <2>5. new \in Seq(Scope) /\ Len(new) = n /\ DOMAIN new = 1 .. n
    BY <2>1, <2>3, <2>4, <1>2 DEF n
  <2>6. \A k \in 1 .. n : new[k] = IF k = n THEN [p.blocks[k] EXCEPT !.poly = TRUE] ELSE p.blocks[k]
    BY <2>1, <2>4
  <2> QED
    BY <2>5, <2>6 DEF n, new
<1>4. \A k \in 1 .. n : /\ new[k].opcode = p.blocks[k].opcode /\ new[k].type = p.blocks[k].type
                        /\ new[k].exit = p.blocks[k].exit /\ new[k].base = p.blocks[k].base
  <2> TAKE k \in 1 .. n
  <2>1. p.blocks[k] \in Scope
    BY <1>2
  <2> HIDE DEF new, n
  <2> QED
    BY <2>1, <1>3 DEF Scope
<1> HIDE DEF new
<1>5. BlocksOk(new)
  <2>1. Len(new) >= 1 /\ 1 \in 1 .. n /\ Len(p.blocks) = n
    BY <1>2, <1>3
  <2>2. \A k \in 2 .. n : k \in 1 .. n /\ \A j \in 1 .. k - 1 : j \in 1 .. n
    BY <1>2
  <2> HIDE DEF n
  <2> QED
    BY <2>1, <2>2, <1>1, <1>3, <1>4 DEF BlocksOk
<1>6. Base(new) = Base(p.blocks)
  BY <1>2, <1>3, <1>4 DEF Base
<1>7. q = [p EXCEPT !.blocks = new]
  BY DEF new
<1> HIDE DEF q, n
<1>8. Typed(q) /\ q.failed = p.failed /\ q.blocks = new /\ q.stack = p.stack /\ q.reg = p.reg
      /\ q.skip = p.skip /\ q.to = p.to /\ q.ignored = p.ignored
      /\ q.firstConst = p.firstConst /\ q.firstDynamic = p.firstDynamic
      /\ q.constEnd = p.constEnd /\ q.top = p.top
  BY <1>1, <1>7 DEF Typed, Fields
<1>9. Bounds(q)
  BY <1>8 DEF OK, Bounds
<1>10. ASSUME ~p.failed PROVE Sound(p.stack, p.reg, new, p.firstConst)
  <2>1. Sound(p.stack, p.reg, p.blocks, p.firstConst)
    BY <1>10 DEF OK
  <2>2. \A k \in 2 .. n : k \in 1 .. n
    BY <1>2
  <2>3. OnlyRecords(p.stack, new)
    BY <2>1, <2>2, <1>3, <1>4, <1>6 DEF Sound, OnlyRecords, n
  <2>4. \A k \in 2 .. Len(new) : RecordsOk(p.stack, new[k])
    <3> TAKE k \in 2 .. Len(new)
    <3>1. k \in 2 .. Len(p.blocks) /\ k \in 1 .. n
      BY <1>3, <2>2 DEF n
    <3>2. RecordsOk(p.stack, p.blocks[k])
      BY <3>1, <2>1 DEF Sound
    <3> QED
      BY <3>1, <3>2, <1>4 DEF RecordsOk
  <2> QED
    BY <2>1, <2>3, <2>4, <1>6 DEF Sound
<1>11. OK(q)
  BY <1>5, <1>6, <1>8, <1>9, <1>10 DEF OK
<1> QED
  BY <1>3, <1>6, <1>8, <1>11 DEF q, n

\* when the values of the scope go.
LEMMA DeadCodeOK ==
  ASSUME NEW p, OK(p)
  PROVE  LET q == DeadCode(p) IN
         /\ OK(q) /\ q.ignored = p.ignored /\ q.skip = p.skip /\ q.to = p.to
         /\ Len(q.blocks) = Len(p.blocks)
<1> DEFINE a == [p EXCEPT !.blocks[Len(p.blocks)].poly = TRUE]
           n == BlockHeight(p)
           q == PopN(a, n)
<1>1. /\ OK(a) /\ a.ignored = p.ignored /\ a.skip = p.skip /\ a.to = p.to
      /\ Len(a.blocks) = Len(p.blocks)
  BY PolyOK
<1>2. n \in Nat
  BY Height
<1> HIDE DEF a, n
<1>3. OK(q) /\ Frame(a, q)
  BY <1>1, <1>2, PopNOK
<1> HIDE DEF q
<1>4. DeadCode(p) = q
  BY DEF DeadCode, q, a, n
<1> QED
  BY <1>1, <1>3, <1>4 DEF Frame

-----------------------------------------------------------------------------
(* Steps                                                                   *)

\* What an instruction makes of the compilation.
Went(p) ==
  /\ p.failed \in BOOLEAN /\ p.ignored \in BOOLEAN /\ p.wild = FALSE
  /\ ~p.failed /\ ~p.ignored => OK(p) /\ SkipOk(p)

\* Whoever preserves the invariant went well.
LEMMA WentOK ==
  ASSUME NEW p, OK(p), ~p.failed => SkipOk(p)
  PROVE  Went(p)
BY DEF Went, OK, Typed

\* A compilation that has failed.
Stopped(p) == [Start EXCEPT !.failed = p.failed, !.ignored = p.ignored,
                            !.misread = p.misread, !.wild = FALSE]

\* What is left of a compilation that has failed.
LEMMA StartOK ==
  ASSUME NEW p, p.failed \in BOOLEAN, p.ignored \in BOOLEAN
  PROVE  LET q == Stopped(p) IN
         /\ Typed(q) /\ q.blocks # <<>> /\ SkipOk(q)
         /\ q.failed = p.failed /\ q.ignored = p.ignored
<1> DEFINE q == Stopped(p)
           reg == [r \in Registers |-> 0]
           count == [s \in 0 .. MaxFunctionSlots - 1 |-> IF s < 2 * Len(RetTypes) THEN 1 ELSE 0]
<1>1. /\ DOMAIN q = Fields /\ q.stack = <<>> /\ q.reg = reg /\ q.count = count
      /\ q.top = 0 /\ q.maxSlots = 0 /\ q.firstConst = 0 /\ q.constEnd = 0
      /\ q.firstDynamic = 2 * Len(RetTypes) /\ q.skip = "no" /\ q.to = 0
      /\ q.failed = p.failed /\ q.ignored = p.ignored /\ q.wild = FALSE
      /\ Len(q.blocks) = 1 /\ q.blocks # <<>>
  BY DEF Start, Fields, Stopped
<1>2. reg \in [Registers -> 0 .. MaxStackHeight]
  BY Numbers
<1>3. count \in [0 .. MaxFunctionSlots - 1 -> 0 .. MaxUsageCount]
  <2>1. 0 \in 0 .. MaxUsageCount /\ 1 \in 0 .. MaxUsageCount
    BY Numbers
  <2> QED
    BY <2>1
<1>4. StackOk(<<>>)
  BY Numbers DEF StackOk
<1>5. 2 * Len(RetTypes) \in Nat
  BY Numbers
<1> HIDE DEF q, reg, count
<1>6. Typed(q)
  BY <1>1, <1>2, <1>3, <1>4, <1>5 DEF Typed
<1>7. SkipOk(q)
  BY <1>1 DEF SkipOk
<1> QED
  BY <1>1, <1>6, <1>7 DEF q

\* The words in slots are not looked at.
LEMMA WithMem ==
  ASSUME NEW p, OK(p), NEW mem
  PROVE  LET q == [p EXCEPT !.mem = mem] IN
         OK(q) /\ q.skip = p.skip /\ q.to = p.to /\ q.blocks = p.blocks
<1> DEFINE q == [p EXCEPT !.mem = mem]
<1>1. Typed(p)
  BY DEF OK
<1>2. Typed(q) /\ q.failed = p.failed /\ q.blocks = p.blocks /\ q.stack = p.stack /\ q.reg = p.reg
      /\ q.skip = p.skip /\ q.to = p.to
      /\ q.firstConst = p.firstConst /\ q.firstDynamic = p.firstDynamic
      /\ q.constEnd = p.constEnd /\ q.top = p.top
  BY <1>1 DEF Typed, Fields
<1> HIDE DEF q
<1> QED
  BY <1>2 DEF OK, Bounds, q

\* They may be renamed and forgotten.
LEMMA SettledOK ==
  ASSUME IInv, NEW p, OK(p), SkipOk(p), NEW x, MachineOk(x), NEW kept, Settle(p, x, kept)
  PROVE  IInv'
<1> DEFINE Renamed(v) == IF v < FirstName THEN v
                         ELSE Name(Min({a \in kept : Word(p, a) = v} \cup {Fp0 + 2}))
           RenamedAll(values) ==
             [k \in DOMAIN values |-> [j \in DOMAIN values[k] |-> Renamed(values[k][j])]]
           mem == [a \in kept |-> Renamed(Word(p, a))]
<1>1. o' = [p EXCEPT !.mem = mem] /\ w' = [x EXCEPT !.vals = RenamedAll(@), !.locals = RenamedAll(@)]
  BY DEF Settle
<1> HIDE DEF mem
<1>2. OK(o') /\ o'.skip = p.skip /\ o'.to = p.to /\ o'.blocks = p.blocks
  BY <1>1, WithMem
<1>3. SkipOk(o')
  BY <1>2 DEF SkipOk
<1>4. DOMAIN RenamedAll(x.locals) = DOMAIN x.locals
  OBVIOUS
<1> HIDE DEF RenamedAll
<1>5. MachineOk(w')
  BY <1>1, <1>4 DEF MachineOk
<1>6. Typed(o') /\ o'.blocks # <<>>
  <2>1. BlocksOk(o'.blocks)
    BY <1>2 DEF OK
  <2> QED
    BY <2>1, <1>2 DEF OK, BlocksOk
<1> QED
  BY <1>2, <1>3, <1>5, <1>6 DEF IInv

\* The compilation and the machine advance,
LEMMA AdvanceOK ==
  ASSUME IInv, NEW p, Went(p), NEW x, MachineOk(x), Advance(p, x)
  PROVE  IInv'
<1>1. CASE p.failed \/ p.ignored
  <2> DEFINE q == Stopped(p)
  <2>1. o' = q /\ w' = w
    BY <1>1 DEF Advance, Went, Stopped
  <2>2. /\ Typed(q) /\ q.blocks # <<>> /\ SkipOk(q)
        /\ q.failed = p.failed /\ q.ignored = p.ignored
    BY StartOK DEF Went
  <2> HIDE DEF q
  <2>3. ~Good'
    BY <1>1, <2>1, <2>2 DEF Good
  <2>4. o'.blocks # <<>>
    BY <2>1, <2>2
  <2> QED
    BY <2>1, <2>2, <2>3, <2>4 DEF IInv
<1>2. CASE ~p.failed /\ ~p.ignored
  <2>1. OK(p) /\ SkipOk(p) /\ Settle(p, x, Kept(p))
    BY <1>2 DEF Advance, Went
  <2> QED
    BY <2>1, SettledOK
<1> QED
  BY <1>1, <1>2

\* and the machine only if execution is here.
LEMMA StepOK ==
  ASSUME IInv, NEW p, Went(p), NEW x, MachineOk(x), Step(p, x)
  PROVE  IInv'
<1>1. MachineOk(IF Running THEN x ELSE w)
  BY DEF IInv
<1> QED
  BY <1>1, AdvanceOK DEF Step

\* The skip of the compilation does not change.
LEMMA SameSkip ==
  ASSUME IInv, NEW p, OK(p), Frame(o, p)
  PROVE  Went(p)
<1>1. SkipOk(p)
  BY DEF IInv, SkipOk, Frame
<1> QED
  BY <1>1, WentOK

-----------------------------------------------------------------------------
(* Instructions without control flow                                       *)

\* An instruction is compiled when all is well,
LEMMA Now ==
  ASSUME IInv, Compiling
  PROVE  /\ OK(o) /\ ~o.failed /\ ~o.ignored /\ SkipOk(o) /\ MachineOk(w)
         /\ Len(o.stack) \in Nat /\ Base(o.blocks) \in Nat /\ Base(o.blocks) <= Len(o.stack)
         /\ BlockHeight(o) = Len(o.stack) - Base(o.blocks)
<1>1. OK(o) /\ ~o.failed /\ ~o.ignored /\ SkipOk(o) /\ MachineOk(w)
  BY DEF IInv, Compiling, Good
<1> QED
  BY <1>1, Height

\* and has its operands on the stack.
LEMMA NowOnTop ==
  ASSUME IInv, NEW types, types \in Seq(ValueType), TypesOnTop(types)
  PROVE  OnTop(o, types)
<1> DEFINE n == Len(types)  h == Len(o.stack)
<1>1. n \in Nat /\ DOMAIN types = 1 .. n
  OBVIOUS
<1>2. h \in Nat /\ BlockHeight(o) >= n
  BY Now DEF TypesOnTop
<1>3. \A k \in 1 .. n : o.stack[h - (n - k)].type = types[k]
  BY <1>1 DEF TypesOnTop, Top
<1> HIDE DEF n, h
<1>4. \A k \in 1 .. n : h - (n - k) = h - n + k
  BY <1>1, <1>2
<1>5. \A k \in 1 .. n : o.stack[h - n + k].type = types[k]
  BY <1>3, <1>4
<1> QED
  BY <1>2, <1>5 DEF OnTop, n, h

\* The machine changes its values, its labels, and the value of a local.
LEMMA Machines ==
  ASSUME NEW x, MachineOk(x)
  PROVE  /\ \A v : MachineOk([x EXCEPT !.vals = v]) /\ MachineOk([x EXCEPT !.labels = v])
         /\ \A v, u : MachineOk([x EXCEPT !.vals = v, !.labels = u])
         /\ \A i, v : MachineOk([x EXCEPT !.locals[i] = v])
BY DEF MachineOk

\* The machine replaces its operands.
LEMMA ReplaceOK ==
  ASSUME IInv, NEW n, NEW values
  PROVE  MachineOk(Replace(n, values))
BY Machines DEF IInv, Replace

\* A constant gets a slot among those reserved.
LEMMA MarkConstant ==
  ASSUME NEW p, OK(p), NEW t \in ValueType, NEW slot \in Nat, slot >= p.firstConst,
         slot + GetTypeNumSlots(t) <= p.firstDynamic, NEW mem
  PROVE  LET q == [MarkSlotsAllocated(p, slot, t) EXCEPT
                      !.constEnd = Max({@, slot + GetTypeNumSlots(t)}), !.mem = mem] IN
         OK(q) /\ Frame(p, q) /\ q.stack = p.stack /\ q.reg = p.reg
<1> DEFINE m == MarkSlotsAllocated(p, slot, t)
           n == GetTypeNumSlots(t)
           end == Max({m.constEnd, slot + n})
           q == [m EXCEPT !.constEnd = end, !.mem = mem]
<1>1. Typed(p) /\ Bounds(p) /\ p.firstDynamic \in Nat /\ p.constEnd \in Nat /\ n \in Nat
  BY Types DEF OK, Typed
<1>2. slot + n <= MaxFunctionSlots
  BY <1>1, Numbers DEF Bounds
<1>3. Close(p, m)
  BY <1>1, <1>2, MarkClose
<1>4. OK(m)
  BY <1>3, CloseOK
<1> HIDE DEF m, n
<1>5. m.constEnd = p.constEnd /\ m.firstDynamic = p.firstDynamic
  BY <1>3 DEF Close, Frame
<1>6. end \in Nat /\ m.constEnd <= end /\ end <= m.firstDynamic
  <2>1. p.constEnd <= p.firstDynamic
    BY <1>1 DEF Bounds
  <2>2. slot + n \in Nat /\ slot + n <= p.firstDynamic
    BY <1>1 DEF n
  <2>3. end = IF p.constEnd >= slot + n THEN p.constEnd ELSE slot + n
    BY <1>1, <1>5, <2>2, MaxOfTwo
  <2> HIDE DEF end
  <2> QED
    BY <1>1, <1>5, <2>1, <2>2, <2>3
<1> HIDE DEF end
<1>7. Typed(m) /\ Bounds(m)
  BY <1>4 DEF OK
<1>8. Typed(q) /\ q.failed = m.failed /\ q.blocks = m.blocks /\ q.stack = m.stack /\ q.reg = m.reg
      /\ q.skip = m.skip /\ q.to = m.to /\ q.ignored = m.ignored
      /\ q.firstConst = m.firstConst /\ q.firstDynamic = m.firstDynamic
      /\ q.constEnd = end /\ q.top = m.top
  BY <1>6, <1>7 DEF Typed, Fields
<1>9. Bounds(q)
  <2>1. m.firstConst \in Nat /\ m.constEnd \in Nat
    BY <1>7 DEF Typed
  <2>2. m.firstConst <= end
    BY <2>1, <1>6, <1>7 DEF Bounds
  <2> QED
    BY <2>2, <1>6, <1>7, <1>8 DEF Bounds
<1> HIDE DEF q
<1>10. OK(q)
  BY <1>4, <1>8, <1>9 DEF OK
<1> QED
  BY <1>3, <1>8, <1>10 DEF Close, Frame, q, end, n, m

\* A result in a slot,
LEMMA AllocatedResult ==
  ASSUME NEW p, OK(p), NEW t \in ValueType, NEW words
  PROVE  LET q == Result(PushAllocatedSlot(p, t), words) IN OK(q) /\ Frame(p, q)
<1> DEFINE a == PushAllocatedSlot(p, t)
           q == Result(a, words)
<1>1. OK(a) /\ Frame(p, a)
  BY PushAllocated
<1> HIDE DEF a
<1>2. Close(a, q)
  BY <1>1, ResultClose DEF OK
<1> HIDE DEF q
<1>3. OK(q)
  BY <1>1, <1>2, CloseOK
<1> QED
  BY <1>1, <1>2, <1>3 DEF Close, Frame, q, a

\* or in a register.
LEMMA RegisterResult ==
  ASSUME NEW p, OK(p), NEW t \in ValueType, NEW words, ~p.failed => p.reg[RegisterOf(t)] = 0
  PROVE  LET q == Result(PushRegister(p, t), words) IN OK(q) /\ Frame(p, q)
<1> DEFINE a == PushRegister(p, t)
           q == Result(a, words)
<1>1. OK(a) /\ Frame(p, a)
  BY PushInRegister
<1> HIDE DEF a
<1>2. Close(a, q)
  BY <1>1, ResultClose DEF OK
<1> HIDE DEF q
<1>3. OK(q)
  BY <1>1, <1>2, CloseOK
<1> QED
  BY <1>1, <1>2, <1>3 DEF Close, Frame, q, a

\* The slot of a constant, and a slot that is free for one.
LEMMA ConstantOK ==
  ASSUME NEW p, OK(p), NEW t \in ValueType, NEW words
  PROVE  LET q == Constant(p, t, words) IN OK(q) /\ Frame(p, q)
<1> DEFINE n == GetTypeNumSlots(t)
           first == AlignSlotToType(p.firstConst, t)
           match == {s \in first .. p.constEnd - n :
                    /\ n = 2 => s % 2 = 0
                    /\ n = 1 => Head(words) \notin NegativeWords
                    /\ \A k \in 1 .. n : p.count[s + k - 1] # 0 /\ p.mem[s + k - 1] = words[k]}
           end == Min({p.firstDynamic, p.firstConst + MaxConstantTable})
           slot == FreeSlot(p, t, p.firstConst, end)
           allocated == Result(PushAllocatedSlot(p, t), words)
           marked == [MarkSlotsAllocated(p, slot, t) EXCEPT
                        !.constEnd = Max({@, slot + n}), !.mem = Overwrite(@, slot, words)]
           q == Constant(p, t, words)
<1>1. q = IF match # {} THEN Push(p, t, Min(match))
          ELSE IF slot = SlotUnused THEN allocated ELSE Push(marked, t, slot)
  BY DEF Constant
<1>2. /\ Typed(p) /\ Bounds(p) /\ p.firstDynamic \in Nat /\ p.constEnd \in Nat /\ p.firstConst \in Nat
      /\ n \in 1 .. 2 /\ p.firstConst <= p.constEnd /\ p.constEnd <= p.firstDynamic
      /\ p.firstDynamic <= MaxFunctionSlots
  BY Types DEF OK, Typed, Bounds
<1> HIDE DEF q
<1>3. CASE match # {}
  <2> DEFINE s == Min(match)
  <2>1. first \in Nat /\ p.firstConst <= first
    BY <1>2, Even
  <2>2. s \in match
    <3>1. match \subseteq first .. p.constEnd - n /\ p.constEnd - n \in Int
      BY <1>2
    <3> HIDE DEF match, first, n
    <3> QED
      BY <3>1, <2>1, <1>3, LeastInRange
  <2>3. s \in first .. p.constEnd - n
    <3> HIDE DEF s
    <3> QED
      BY <2>2
  <2> HIDE DEF s, first, n, match
  <2>4. s \in Nat /\ ~(s < p.firstConst) /\ s + n <= MaxFunctionSlots
    BY <2>1, <2>3, <1>2, Numbers
  <2>5. q = Push(p, t, s)
    BY <1>1, <1>3 DEF s
  <2> QED
    BY <2>4, <2>5, PushSlot DEF q, n
<1>4. CASE match = {} /\ slot = SlotUnused
  <2>1. q = allocated
    BY <1>1, <1>4
  <2> QED
    BY <2>1, AllocatedResult DEF q
<1>5. CASE match = {} /\ slot # SlotUnused
  <2> HIDE DEF match
  <2>1. end \in Nat /\ end <= p.firstDynamic
    <3>1. p.firstConst + MaxConstantTable \in Nat
      BY <1>2, Numbers
    <3>2. end = IF p.firstDynamic <= p.firstConst + MaxConstantTable THEN p.firstDynamic
                ELSE p.firstConst + MaxConstantTable
      BY <3>1, <1>2, MinOfTwo
    <3> HIDE DEF end
    <3> QED
      BY <3>1, <3>2, <1>2
  <2> HIDE DEF end
  <2>2. end \in Int /\ end <= MaxFunctionSlots
    BY <2>1, <1>2, Numbers
  <2>3. slot \in Nat /\ p.firstConst <= slot /\ slot + n <= end
    BY <2>2, <1>2, <1>5, FreeSlotFacts
  <2> HIDE DEF slot
  <2>4. slot + n <= p.firstDynamic
    BY <2>1, <2>3, <1>2
  <2> DEFINE c == MarkSlotsAllocated(p, slot, t)
             mem == Overwrite(c.mem, slot, words)
             a == [c EXCEPT !.constEnd = Max({@, slot + GetTypeNumSlots(t)}), !.mem = mem]
  <2>5. OK(a) /\ Frame(p, a)
    <3> HIDE DEF mem
    <3> QED
      BY <2>3, <2>4, <1>2, MarkConstant
  <2>6. a = marked
    OBVIOUS
  <2> HIDE DEF a, marked, n
  <2>7. slot + n <= MaxFunctionSlots /\ ~(slot < a.firstConst)
    <3>1. a.firstConst = p.firstConst
      BY <2>5 DEF Frame
    <3> QED
      BY <3>1, <2>3, <2>4, <1>2, Numbers
  <2> DEFINE b == Push(a, t, slot)
  <2>8. OK(b) /\ Frame(a, b)
    BY <2>3, <2>5, <2>7, PushSlot DEF n
  <2>9. q = b
    BY <1>1, <1>5, <2>6
  <2> HIDE DEF b
  <2> QED
    BY <2>5, <2>8, <2>9 DEF Frame, q
<1> QED
  BY <1>3, <1>4, <1>5

\* Operands are read.
LEMMA ObservedOK ==
  ASSUME NEW p, OK(p), NEW got, NEW expected
  PROVE  LET q == Observe(p, got, expected) IN
         OK(q) /\ Frame(p, q) /\ q.failed = p.failed /\ q.stack = p.stack /\ q.reg = p.reg
<1> DEFINE q == Observe(p, got, expected)
<1>1. Close(p, q)
  BY ObserveClose DEF OK
<1> HIDE DEF q
<1>2. OK(q)
  BY <1>1, CloseOK
<1> QED
  BY <1>1, <1>2 DEF Close, q

\* The operands are read, and go.
Consumed(p, got, expected, n) == PopN(Observe(p, got, expected), n)

\* The operands of the innermost scope are.
LEMMA ConsumedOK ==
  ASSUME NEW p, OK(p), NEW got, NEW expected, NEW n \in Nat
  PROVE  LET q == Consumed(p, got, expected, n) IN
         /\ OK(q) /\ Frame(p, q)
         /\ n <= BlockHeight(p) => q.failed = p.failed /\ Popped(p, q, n)
<1> DEFINE a == Observe(p, got, expected)
           q == PopN(a, n)
<1>1. OK(a) /\ Frame(p, a) /\ a.failed = p.failed /\ a.stack = p.stack /\ a.reg = p.reg
  BY ObservedOK
<1> HIDE DEF a
<1>2. OK(q) /\ Frame(a, q)
  BY <1>1, PopNOK
<1>3. n <= BlockHeight(p) => q.failed = p.failed /\ Popped(a, q, n)
  <2>1. BlockHeight(a) = BlockHeight(p)
    BY <1>1 DEF BlockHeight, Block, Frame
  <2> QED
    BY <2>1, <1>1, PopNOK
<1> HIDE DEF q
<1>4. Consumed(p, got, expected, n) = q
  BY DEF Consumed, q, a
<1>5. n <= BlockHeight(p) => Popped(p, q, n)
  BY <1>1, <1>3 DEF Popped
<1> QED
  BY <1>1, <1>2, <1>3, <1>4, <1>5 DEF Frame

\* Items have moved from p to r, and one of the upper n of p was in the register.
WillBeFree(p, r, n, reg) ==
  \/ r.reg[reg] = 0
  \/ \E k \in 0 .. n - 1 : IsRegister(Top(p, k).slot) /\ RegisterOf(Top(p, k).type) = reg

MayConsume(p, r, n, reg) ==
  /\ OK(p) /\ ~p.failed /\ OK(r) /\ Frame(p, r) /\ Moved(p, r)
  /\ n \in Nat /\ n <= BlockHeight(p) /\ reg \in Registers
  /\ ~r.failed => WillBeFree(p, r, n, reg)

\* Then their register is free for the result.
LEMMA ConsumedFree ==
  ASSUME NEW p, NEW r, NEW n, NEW reg, MayConsume(p, r, n, reg), NEW got, NEW expected
  PROVE  LET q == Consumed(r, got, expected, n) IN
         OK(q) /\ Frame(p, q) /\ (~q.failed => q.reg[reg] = 0)
<1> DEFINE q == Consumed(r, got, expected, n)
           h == Len(p.stack)
<1>1. OK(p) /\ ~p.failed /\ OK(r) /\ Frame(p, r) /\ Moved(p, r)
      /\ n \in Nat /\ n <= BlockHeight(p) /\ reg \in Registers
  BY DEF MayConsume
<1>2. OK(q) /\ Frame(r, q) /\ (n <= BlockHeight(r) => q.failed = r.failed /\ Popped(r, q, n))
  BY <1>1, ConsumedOK
<1> HIDE DEF q
<1>3. ASSUME ~q.failed PROVE q.reg[reg] = 0
  <2>1. ~r.failed
    BY <1>2, <1>3 DEF Frame
  <2>2. Len(r.stack) = h /\ r.reg[reg] \in {0, p.reg[reg]}
    BY <2>1, <1>1 DEF Moved
  <2>3. h \in Nat /\ Base(p.blocks) \in Nat /\ BlockHeight(p) = h - Base(p.blocks)
        /\ BlockHeight(r) = Len(r.stack) - Base(r.blocks)
    BY <1>1, Height
  <2>4. n <= BlockHeight(r)
    BY <2>2, <2>3, <1>1 DEF Frame
  <2>5. r.reg[reg] = 0 \/ r.reg[reg] > h - n
    <3>1. CASE r.reg[reg] = 0
      BY <3>1
    <3>2. CASE \E k \in 0 .. n - 1 : IsRegister(Top(p, k).slot) /\ RegisterOf(Top(p, k).type) = reg
      <4>1. PICK k \in 0 .. n - 1 : IsRegister(Top(p, k).slot) /\ RegisterOf(Top(p, k).type) = reg
        BY <3>2
      <4> DEFINE i == h - k
      <4> HIDE DEF h
      <4>2. i \in Base(p.blocks) + 1 .. h /\ i > h - n
        BY <2>3, <1>1
      <4> HIDE DEF i
      <4>3. IsRegister(p.stack[i].slot) /\ RegisterOf(p.stack[i].type) = reg
        BY <4>1 DEF Top, i, h
      <4>4. p.reg[reg] = i
        BY <4>2, <4>3, <1>1, InRegisterFacts DEF h
      <4> QED
        BY <4>2, <4>4, <2>2
    <3> QED
      BY <3>1, <3>2, <2>1 DEF MayConsume, WillBeFree
  <2>6. r.reg[reg] = 0 \/ r.reg[reg] > Len(r.stack) - n
    BY <2>2, <2>5
  <2> QED
    BY <2>4, <2>6, <1>1, <1>2, <1>3, FreeAfter
<1>4. Frame(p, q)
  BY <1>1, <1>2 DEF Frame
<1> QED
  BY <1>2, <1>3, <1>4 DEF q

-----------------------------------------------------------------------------
(* One instruction each: values                                            *)

\* Compile_Const_i32 and the like.
LEMMA ConstStep ==
  ASSUME IInv, NEW c \in Constants, Const(c)
  PROVE  IInv'
<1> DEFINE p == Constant(o, c.type, c.words)
<1>1. Compiling /\ Step(p, Replace(0, <<c.words>>))
  BY DEF Const, TypesOnTop
<1>2. OK(o) /\ c.type \in ValueType
  BY <1>1, Now, SignatureAssumption
<1>3. OK(p) /\ Frame(o, p)
  BY <1>2, ConstantOK
<1> HIDE DEF p
<1>4. Went(p)
  BY <1>3, SameSkip
<1> QED
  BY <1>1, <1>4, StepOK, ReplaceOK

\* Compile_GetLocal
LEMMA LocalGetStep ==
  ASSUME IInv, NEW i \in 1 .. NumLocals, LocalGet(i)
  PROVE  IInv'
<1> DEFINE x == o.stack[i]
           p == Push(o, x.type, x.slot)
<1>1. Compiling /\ Step(p, Replace(0, <<w.locals[i]>>))
  BY DEF LocalGet, TypesOnTop
<1>2. OK(o) /\ ~o.failed
  BY <1>1, Now
<1>3. x \in Item /\ InSlots(x)
  <2>1. i \in 1 .. Len(o.stack) /\ InSlots(o.stack[i])
    BY <1>2, ReferenceFacts
  <2> QED
    BY <2>1, <1>2, InSlotsOrRegister
<1>4. x = [type |-> x.type, slot |-> x.slot] /\ x.type \in ValueType /\ x.slot \in Nat
      /\ x.slot + GetTypeNumSlots(x.type) <= MaxFunctionSlots
  BY <1>3 DEF Item, InSlots
<1>5. \E j \in 1 .. NumLocals : [type |-> x.type, slot |-> x.slot] = o.stack[j]
  BY <1>4
<1> HIDE DEF x
<1>6. OK(p) /\ Frame(o, p)
  BY <1>2, <1>4, <1>5, PushSlot
<1> HIDE DEF p
<1>7. Went(p)
  BY <1>6, SameSkip
<1> QED
  BY <1>1, <1>7, StepOK, ReplaceOK

\* The value on the top is copied to a slot of its type.
LEMMA CopyTopClose ==
  ASSUME NEW p, OK(p), NEW x, InSlots(x), x.slot \in Nat, NEW i, p.stack[i].type = x.type
  PROVE  LET q == CopyToSlot(p, x.slot, i) IN OK(q) /\ Close(p, q) /\ Frame(p, q)
<1> DEFINE q == CopyToSlot(p, x.slot, i)
<1>1. x.slot + GetTypeNumSlots(p.stack[i].type) <= Reg0
  <2> DEFINE a == x.slot + GetTypeNumSlots(x.type)
  <2>1. a \in Nat /\ a <= MaxFunctionSlots
    BY Types DEF InSlots
  <2> HIDE DEF a
  <2>2. a <= Reg0
    BY <2>1, Numbers
  <2> QED
    BY <2>2 DEF a
<1>2. Close(p, q)
  BY <1>1, CopyClose DEF OK
<1> HIDE DEF q
<1>3. OK(q)
  BY <1>2, CloseOK
<1> QED
  BY <1>2, <1>3 DEF Close, q

\* Compile_SetLocal, for local.tee too
LEMMA LocalSetStep ==
  ASSUME IInv, NEW i \in 1 .. NumLocals, NEW tee \in BOOLEAN, LocalSet(i, tee)
  PROVE  IInv'
<1> DEFINE x == o.stack[i]
           h == Len(o.stack)
           p == PreserveLocal(o, i)
           c == CopyToSlot(p, x.slot, h)
           s == IF p.failed THEN p ELSE IF tee THEN c ELSE Pop(c)
           next == [w EXCEPT !.locals[i] = Last(w.vals)]
           y == IF tee THEN next ELSE [next EXCEPT !.vals = Under(1)]
<1>1. TypesOnTop(<<x.type>>) /\ Step(s, y)
  BY DEF LocalSet, Then
<1>2. OK(o) /\ ~o.failed /\ MachineOk(w) /\ h \in Nat
  BY <1>1, Now DEF TypesOnTop
<1>3. x.type \in ValueType /\ InSlots(x) /\ x.slot \in Nat
  BY <1>2, ReferenceFacts
<1>4. h >= 1 /\ o.stack[h].type = x.type
  <2>1. <<x.type>> \in Seq(ValueType) /\ Len(<<x.type>>) = 1 /\ <<x.type>>[1] = x.type
    BY <1>3
  <2>2. OnTop(o, <<x.type>>)
    BY <1>1, <2>1, NowOnTop
  <2>3. BlockHeight(o) >= 1 /\ o.stack[h - 1 + 1].type = x.type
    BY <2>1, <2>2 DEF OnTop
  <2>4. h - 1 + 1 = h
    BY <1>2
  <2>5. h >= 1
    <3>1. BlockHeight(o) = h - Base(o.blocks) /\ Base(o.blocks) \in Nat
      BY <1>2, Height
    <3> QED
      BY <3>1, <2>3, <1>2
  <2> QED
    BY <2>3, <2>4, <2>5
<1>5. OK(p) /\ Frame(o, p) /\ Moved(o, p)
  BY <1>2, PreserveLocalOK
<1> HIDE DEF p, x
<1>6. ASSUME ~p.failed PROVE OK(c) /\ Frame(p, c)
  <2>1. p.stack[h].type = x.type
    <3>1. h \in 1 .. h
      BY <1>2, <1>4
    <3> QED
      BY <3>1, <1>4, <1>5, <1>6 DEF Moved
  <2> QED
    BY <2>1, <1>3, <1>5, CopyTopClose
<1> HIDE DEF c
<1>7. ASSUME ~p.failed PROVE OK(Pop(c)) /\ Frame(c, Pop(c))
  BY <1>6, <1>7, PopOK
<1>8. OK(s) /\ Frame(o, s)
  BY <1>5, <1>6, <1>7 DEF Frame
<1> HIDE DEF s
<1>9. MachineOk(y)
  BY <1>2, Machines
<1> HIDE DEF y
<1> QED
  BY <1>1, <1>8, <1>9, SameSkip, StepOK

\* Compile_Drop
LEMMA DropStep ==
  ASSUME IInv, Drop
  PROVE  IInv'
<1>1. Compiling /\ Step(Pop(o), Replace(1, <<>>))
  BY DEF Drop, TypesOnTop
<1>2. OK(o)
  BY <1>1, Now
<1>3. OK(Pop(o)) /\ Frame(o, Pop(o))
  BY <1>2, PopOK
<1> QED
  BY <1>1, <1>3, SameSkip, StepOK, ReplaceOK

\* Compile_GetGlobal
LEMMA GlobalGetStep ==
  ASSUME IInv, NEW t \in GlobalTypes, GlobalGet(t)
  PROVE  IInv'
<1> DEFINE words == NewWords(t)
           p == Result(PushAllocatedSlot(o, t), words)
<1>1. Compiling /\ Step(p, Replace(0, <<words>>))
  BY DEF GlobalGet, TypesOnTop
<1>2. OK(o) /\ t \in ValueType
  BY <1>1, Now, SignatureAssumption
<1> HIDE DEF words
<1>3. OK(p) /\ Frame(o, p)
  BY <1>2, AllocatedResult
<1> HIDE DEF p
<1> QED
  BY <1>1, <1>3, SameSkip, StepOK, ReplaceOK

\* Compile_SetGlobal
LEMMA GlobalSetStep ==
  ASSUME IInv, NEW t \in GlobalTypes, GlobalSet(t)
  PROVE  IInv'
<1> DEFINE a == Observed(o, 1)
<1>1. Compiling /\ Step(Pop(a), Replace(1, <<>>))
  BY DEF GlobalSet, TypesOnTop
<1>2. OK(o)
  BY <1>1, Now
<1>3. OK(a) /\ Frame(o, a)
  BY <1>2, ObservedOK DEF Observed
<1> HIDE DEF a
<1>4. OK(Pop(a)) /\ Frame(a, Pop(a))
  BY <1>3, PopOK
<1>5. Frame(o, Pop(a))
  BY <1>3, <1>4 DEF Frame
<1> QED
  BY <1>1, <1>4, <1>5, SameSkip, StepOK, ReplaceOK

\* Nothing moves.
LEMMA SelfMoved ==
  ASSUME NEW p, OK(p)
  PROVE  Frame(p, p) /\ Moved(p, p)
<1>1. Close(p, p)
  BY CloseSelf DEF OK
<1> QED
  BY <1>1, MovedSelf

\* A register may be preserved, or else.
LEMMA PreserveMaybe ==
  ASSUME NEW p, OK(p), NEW r \in Registers, NEW q,
         q = p \/ q = PreserveRegisterIfOccupied(p, r)
  PROVE  /\ OK(q) /\ Frame(p, q) /\ Moved(p, q)
         /\ q = PreserveRegisterIfOccupied(p, r) /\ ~q.failed => q.reg[r] = 0
<1> DEFINE a == PreserveRegisterIfOccupied(p, r)
<1>1. /\ OK(a) /\ Frame(p, a) /\ Moved(p, a)
      /\ ~a.failed => a.reg[r] = 0
  BY PreserveRegister
<1> HIDE DEF a
<1>2. Frame(p, p) /\ Moved(p, p)
  BY SelfMoved
<1> QED
  BY <1>1, <1>2 DEF a

\* An operation: registers may be preserved, the operands go, and the register
\* of the result is free.
Operates(op, p, q, r, got, expected) ==
  LET R == op.result
      n == Len(op.operands)
      s == Consumed(r, got, expected, n) IN
  /\ p = o \/ p = PreserveRegisterIfOccupied(o, Reg0)
  /\ q = p \/ q = PreserveRegisterIfOccupied(p, Fp0)
  /\ r = q \/ r = PreserveRegisterIfOccupied(q, RegisterOf(R))
  /\ n \in Nat /\ OK(s) /\ Frame(o, s)
  /\ R = None => Step(s, Replace(n, <<>>))
  /\ R # None => /\ R \in ValueType /\ (~s.failed => s.reg[RegisterOf(R)] = 0)
                 /\ Step(Result(PushRegister(s, R), NewWords(R)), Replace(n, <<NewWords(R)>>))

\* What Compile_Operator and Compile_Load_Store do, step by step.
LEMMA OperateIs ==
  ASSUME IInv, NEW op \in Operators, Operate(op)
  PROVE  \E p, q, r, got, expected : Operates(op, p, q, r, got, expected)
<1> DEFINE T == op.operands
           R == op.result
           n == Len(T)
           words == IF R = None THEN <<>> ELSE <<NewWords(R)>>
           inRegister == TopInRegister(o, 0) \/ (n = 2 /\ TopInRegister(o, 1))
           c1 == IsFpType(Top(o, 0).type) /\ IsIntType(R)
           c2 == op.load /\ IsFpType(R)
           p == IF c1 THEN PreserveRegisterIfOccupied(o, Reg0) ELSE o
           q == IF c2 THEN PreserveRegisterIfOccupied(p, Fp0) ELSE p
           r == IF ~inRegister THEN PreserveRegisterIfOccupied(q, RegisterOf(R)) ELSE q
           got == [k \in 1 .. n |-> Read(r, Top(r, n - k))]
           s == Consumed(r, got, LastN(n), n)
           u == IF words = <<>> THEN s ELSE Result(PushRegister(s, R), Head(words))
<1>1. TypesOnTop(T) /\ Step(u, Replace(n, words))
  BY DEF Operate, PreserveIf, Consumed, Observed
<1>2. OK(o) /\ ~o.failed
  BY <1>1, Now DEF TypesOnTop
<1>3. /\ T \in Seq(ValueType) /\ n \in 1 .. 2
      /\ R # None => /\ R \in ValueType
                     /\ \A type \in Range(T) : IsFpType(type) = IsFpType(T[1])
                     /\ IsFpType(R) => op.load \/ IsFpType(T[1])
  BY SignatureAssumption
<1>4. BlockHeight(o) >= n /\ \A k \in 1 .. n : Top(o, n - k).type = T[k]
  BY <1>1, <1>3 DEF TypesOnTop
<1>5. Reg0 \in Registers /\ Fp0 \in Registers /\ RegisterOf(R) \in Registers
  BY Numbers, Types
<1> HIDE DEF T, R, c1, c2, inRegister
<1>6. OK(p) /\ Frame(o, p) /\ Moved(o, p) /\ (c1 /\ ~p.failed => p.reg[Reg0] = 0)
  BY <1>2, <1>5, PreserveMaybe
<1>13. p = o \/ p = PreserveRegisterIfOccupied(o, Reg0)
  OBVIOUS
<1> HIDE DEF p
<1>7. OK(q) /\ Frame(p, q) /\ Moved(p, q) /\ (c2 /\ ~q.failed => q.reg[Fp0] = 0)
  BY <1>5, <1>6, PreserveMaybe
<1>14. q = p \/ q = PreserveRegisterIfOccupied(p, Fp0)
  OBVIOUS
<1> HIDE DEF q
<1>15. r = q \/ r = PreserveRegisterIfOccupied(q, RegisterOf(R))
  OBVIOUS
<1>8. OK(r) /\ Frame(q, r) /\ Moved(q, r) /\ (~inRegister /\ ~r.failed => r.reg[RegisterOf(R)] = 0)
  BY <1>5, <1>7, PreserveMaybe
<1> HIDE DEF r
<1>9. Frame(o, r) /\ Moved(o, r) /\ Moved(p, r)
  BY <1>6, <1>7, <1>8, MovedTwice DEF Frame
<1>10. R # None /\ ~r.failed => WillBeFree(o, r, n, RegisterOf(R))
  <2> SUFFICES ASSUME R # None, ~r.failed PROVE WillBeFree(o, r, n, RegisterOf(R))
    OBVIOUS
  <2>1. R \in ValueType /\ \A k \in 1 .. n : IsFpType(T[k]) = IsFpType(T[1])
    <3>1. \A k \in 1 .. n : T[k] \in Range(T)
      BY <1>3 DEF Range
    <3> QED
      BY <3>1, <1>3
  <2>2. \A k \in 0 .. n - 1 : n - k \in 1 .. n /\ n - (n - k) = k
    BY <1>3
  <2>3. \A k \in 0 .. n - 1 : IsFpType(Top(o, k).type) = IsFpType(T[1])
    <3> TAKE k \in 0 .. n - 1
    <3>1. n - k \in 1 .. n /\ n - (n - k) = k
      BY <2>2
    <3>2. Top(o, n - (n - k)).type = T[n - k]
      BY <3>1, <1>4
    <3> QED
      BY <3>1, <3>2, <2>1
  <2>4. CASE ~inRegister
    BY <2>4, <1>8 DEF WillBeFree
  <2>5. CASE inRegister /\ IsFpType(R) = IsFpType(T[1])
    <3>1. PICK k \in 0 .. n - 1 : TopInRegister(o, k)
      <4>1. 0 \in 0 .. n - 1 /\ (n = 2 => 1 \in 0 .. n - 1)
        BY <1>3
      <4> QED
        BY <4>1, <2>5 DEF inRegister
    <3>2. IsRegister(Top(o, k).slot)
      BY <3>1 DEF TopInRegister
    <3>3. RegisterOf(Top(o, k).type) = RegisterOf(R)
      BY <2>3, <2>5 DEF RegisterOf
    <3> QED
      BY <3>2, <3>3 DEF WillBeFree
  <2>6. CASE IsFpType(R) /\ ~IsFpType(T[1])
    <3>1. c2 /\ ~q.failed
      BY <2>6, <1>3, <1>8 DEF c2, Frame
    <3>2. r.reg[Fp0] = 0
      BY <3>1, <1>5, <1>7, <1>8, StaysFree
    <3> QED
      BY <3>2, <2>6 DEF WillBeFree, RegisterOf
  <2>7. CASE ~IsFpType(R) /\ IsFpType(T[1])
    <3>1. IsIntType(R)
      BY <2>1, <2>7 DEF ValueType, IsFpType, IsIntType
    <3>2. 0 \in 0 .. n - 1
      BY <1>3
    <3>3. c1 /\ ~p.failed
      BY <3>1, <3>2, <2>3, <2>7, <1>7, <1>8 DEF c1, Frame
    <3>4. r.reg[Reg0] = 0
      BY <3>3, <1>5, <1>6, <1>9, StaysFree
    <3> QED
      BY <3>4, <2>7 DEF WillBeFree, RegisterOf
  <2> QED
    BY <2>4, <2>5, <2>6, <2>7 DEF IsFpType
<1>11. CASE R = None
  <2>1. u = s /\ words = <<>>
    BY <1>11
  <2> HIDE DEF got, n
  <2>2. OK(s) /\ Frame(r, s)
    BY <1>3, <1>8, ConsumedOK
  <2> HIDE DEF s, u, words
  <2>3. Frame(o, s)
    BY <1>9, <2>2 DEF Frame
  <2>4. Step(s, Replace(n, <<>>))
    BY <1>1, <2>1
  <2>5. Operates(op, p, q, r, got, LastN(n))
    BY <1>3, <1>11, <1>13, <1>14, <1>15, <2>2, <2>3, <2>4 DEF Operates, s, n, T, R
  <2> HIDE DEF Operates
  <2> QED
    BY <2>5
<1>12. CASE R # None
  <2>1. u = Result(PushRegister(s, R), NewWords(R)) /\ words = <<NewWords(R)>>
    BY <1>12
  <2> HIDE DEF got, n
  <2>2. MayConsume(o, r, n, RegisterOf(R))
    BY <1>2, <1>3, <1>4, <1>5, <1>8, <1>9, <1>10, <1>12 DEF MayConsume
  <2>3. OK(s) /\ Frame(o, s) /\ (~s.failed => s.reg[RegisterOf(R)] = 0)
    BY <2>2, ConsumedFree
  <2> HIDE DEF s, u, words
  <2>4. Step(Result(PushRegister(s, R), NewWords(R)), Replace(n, <<NewWords(R)>>))
    BY <1>1, <2>1
  <2>5. Operates(op, p, q, r, got, LastN(n))
    BY <1>3, <1>12, <1>13, <1>14, <1>15, <2>3, <2>4 DEF Operates, s, n, T, R
  <2> HIDE DEF Operates
  <2> QED
    BY <2>5
<1> QED
  BY <1>11, <1>12

\* They preserve the invariant.
LEMMA OperateStep ==
  ASSUME IInv, NEW op \in Operators, Operate(op)
  PROVE  IInv'
<1>1. PICK p, q, r, got, expected : Operates(op, p, q, r, got, expected)
  BY OperateIs
<1> DEFINE R == op.result
           n == Len(op.operands)
           s == Consumed(r, got, expected, n)
           u == Result(PushRegister(s, R), NewWords(R))
<1>2. /\ OK(s) /\ Frame(o, s)
      /\ R = None => Step(s, Replace(n, <<>>))
      /\ R # None => /\ R \in ValueType /\ (~s.failed => s.reg[RegisterOf(R)] = 0)
                     /\ Step(u, Replace(n, <<NewWords(R)>>))
  BY <1>1 DEF Operates
<1> HIDE DEF s, n, R
<1>3. CASE R = None
  BY <1>2, <1>3, SameSkip, StepOK, ReplaceOK
<1>4. CASE R # None
  <2>1. OK(u) /\ Frame(s, u)
    BY <1>2, <1>4, RegisterResult
  <2> HIDE DEF u
  <2>2. Frame(o, u)
    BY <1>2, <2>1 DEF Frame
  <2> QED
    BY <1>2, <1>4, <2>1, <2>2, SameSkip, StepOK, ReplaceOK
<1> QED
  BY <1>3, <1>4

\* A value goes, and nothing else.
LEMMA PopTop ==
  ASSUME NEW p, OK(p), BlockHeight(p) >= 1
  PROVE  LET q == Pop(p) IN
         /\ OK(q) /\ Frame(p, q) /\ q.failed = p.failed /\ Popped(p, q, 1)
<1> DEFINE q == Pop(p)  h == Len(p.stack)
<1>1. h \in Nat /\ Base(p.blocks) \in Nat /\ BlockHeight(p) = h - Base(p.blocks)
  BY Height
<1>2. Len(p.stack) > Base(p.blocks) /\ h >= 1
  BY <1>1
<1>3. OK(q) /\ Frame(p, q) /\ q.failed = p.failed /\ q.stack = Front(p.stack)
  BY <1>2, PopOne
<1>4. Len(Front(p.stack)) = h - 1 /\ \A i \in 1 .. h - 1 : Front(p.stack)[i] = p.stack[i]
  BY <1>2, FrontTyped DEF OK, Typed
<1> HIDE DEF q
<1>5. Popped(p, q, 1)
  BY <1>3, <1>4 DEF Popped
<1> QED
  BY <1>3, <1>5 DEF q

\* A register that is free stays free.
LEMMA FreeAfterPop ==
  ASSUME NEW p, OK(p), ~p.failed, BlockHeight(p) >= 1, NEW r \in Registers, p.reg[r] = 0
  PROVE  Pop(p).reg[r] = 0
<1> DEFINE b == Pop(p)
<1>1. OK(b) /\ Frame(p, b) /\ b.failed = p.failed /\ Popped(p, b, 1)
  BY PopTop
<1> HIDE DEF b
<1>2. b.reg[r] = 0
  BY <1>1, FreeAfter
<1> QED
  BY <1>2 DEF b

\* Compile_Convert
LEMMA ConvertStep ==
  ASSUME IInv, NEW op \in Conversions, Convert(op)
  PROVE  IInv'
<1> DEFINE R == op.result
           words == NewWords(R)
           a == Observed(o, 1)
           b == Pop(a)
           c == IF o.reg[RegisterOf(R)] # 0 THEN PushAllocatedSlot(b, R) ELSE PushRegister(b, R)
           u == Result(c, words)
<1>1. TypesOnTop(op.operands) /\ Step(u, Replace(1, <<words>>))
  BY DEF Convert
<1>2. OK(o) /\ ~o.failed
  BY <1>1, Now DEF TypesOnTop
<1>3. R \in ValueType /\ Len(op.operands) = 1 /\ RegisterOf(R) \in Registers
  BY SignatureAssumption, Types
<1>4. BlockHeight(o) >= 1
  BY <1>1, <1>3 DEF TypesOnTop
<1>5. OK(a) /\ Frame(o, a) /\ a.failed = o.failed /\ a.stack = o.stack /\ a.reg = o.reg
  BY <1>2, ObservedOK DEF Observed
<1> HIDE DEF a, R, words
<1>6. BlockHeight(a) = BlockHeight(o)
  BY <1>5 DEF BlockHeight, Block, Frame
<1>7. OK(b) /\ Frame(a, b) /\ b.failed = a.failed /\ Popped(a, b, 1)
  BY <1>4, <1>5, <1>6, PopTop
<1> HIDE DEF b
<1>8. Frame(o, b) /\ ~b.failed
  BY <1>2, <1>5, <1>7 DEF Frame
<1>9. OK(u) /\ Frame(b, u)
  <2>1. CASE o.reg[RegisterOf(R)] # 0
    BY <2>1, <1>3, <1>7, AllocatedResult
  <2>2. CASE o.reg[RegisterOf(R)] = 0
    <3>1. b.reg[RegisterOf(R)] = 0
      BY <2>2, <1>2, <1>3, <1>4, <1>5, <1>6, FreeAfterPop DEF b
    <3> QED
      BY <3>1, <2>2, <1>3, <1>7, RegisterResult
  <2> QED
    BY <2>1, <2>2
<1> HIDE DEF u
<1>10. Frame(o, u)
  BY <1>8, <1>9 DEF Frame
<1> QED
  BY <1>1, <1>9, <1>10, SameSkip, StepOK, ReplaceOK

\* A select: the register of the result is free when its operands are gone.
Selects(t, r, got, expected) ==
  LET s == Consumed(r, got, expected, 3) IN
  /\ t \in ValueType
  /\ r = o \/ r = PreserveRegisterIfOccupied(o, RegisterOf(t))
  /\ OK(s) /\ Frame(o, s) /\ (~s.failed => s.reg[RegisterOf(t)] = 0)
  /\ Step(Result(PushRegister(s, t), NewWords(t)), Replace(3, <<NewWords(t)>>))

\* What Compile_Select does, step by step.
LEMMA SelectIs ==
  ASSUME IInv, NEW t \in SelectTypes, Select(t)
  PROVE  \E r, got, expected : Selects(t, r, got, expected)
<1> DEFINE T == <<t, t, "i32">>
           words == NewWords(t)
           inRegister == TopInRegister(o, 1) \/ TopInRegister(o, 2)
                         \/ (IsIntType(t) /\ TopInRegister(o, 0))
           r == IF ~inRegister THEN PreserveRegisterIfOccupied(o, RegisterOf(t)) ELSE o
           got == [k \in 1 .. 3 |-> Read(r, Top(r, 3 - k))]
           s == Consumed(r, got, LastN(3), 3)
           u == Result(PushRegister(s, t), words)
<1>1. TypesOnTop(T) /\ Step(u, Replace(3, <<words>>))
  BY DEF Select, PreserveIf, Consumed, Observed
<1>2. OK(o) /\ ~o.failed
  BY <1>1, Now DEF TypesOnTop
<1>3. t \in ValueType /\ RegisterOf(t) \in Registers
  BY SignatureAssumption, Types
<1>4. BlockHeight(o) >= 3 /\ Top(o, 0).type = "i32" /\ Top(o, 1).type = t /\ Top(o, 2).type = t
  <2>1. Len(T) = 3 /\ DOMAIN T = 1 .. 3 /\ T[1] = t /\ T[2] = t /\ T[3] = "i32"
    BY <1>3
  <2> HIDE DEF T
  <2>2. BlockHeight(o) >= 3 /\ \A k \in 1 .. 3 : Top(o, 3 - k).type = T[k]
    BY <1>1, <2>1 DEF TypesOnTop
  <2>3. Top(o, 3 - 1).type = t /\ Top(o, 3 - 2).type = t /\ Top(o, 3 - 3).type = "i32"
    BY <2>1, <2>2
  <2> QED
    BY <2>2, <2>3
<1> HIDE DEF inRegister
<1>5. /\ OK(r) /\ Frame(o, r) /\ Moved(o, r)
      /\ ~inRegister /\ ~r.failed => r.reg[RegisterOf(t)] = 0
  BY <1>2, <1>3, PreserveMaybe
<1>9. r = o \/ r = PreserveRegisterIfOccupied(o, RegisterOf(t))
  OBVIOUS
<1> HIDE DEF r, got
<1>6. ~r.failed => WillBeFree(o, r, 3, RegisterOf(t))
  <2>1. CASE ~inRegister
    BY <2>1, <1>5 DEF WillBeFree
  <2>2. CASE inRegister
    <3>1. 0 \in 0 .. 3 - 1 /\ 1 \in 0 .. 3 - 1 /\ 2 \in 0 .. 3 - 1
      OBVIOUS
    <3>2. IsIntType(t) => RegisterOf("i32") = RegisterOf(t)
      BY DEF IsIntType, RegisterOf, IsFpType
    <3> QED
      BY <3>1, <3>2, <2>2, <1>4 DEF inRegister, TopInRegister, WillBeFree
  <2> QED
    BY <2>1, <2>2
<1>7. MayConsume(o, r, 3, RegisterOf(t))
  BY <1>2, <1>3, <1>4, <1>5, <1>6 DEF MayConsume
<1>8. OK(s) /\ Frame(o, s) /\ (~s.failed => s.reg[RegisterOf(t)] = 0)
  BY <1>7, ConsumedFree
<1> HIDE DEF s
<1>10. Selects(t, r, got, LastN(3))
  BY <1>1, <1>3, <1>8, <1>9 DEF Selects, s
<1> HIDE DEF Selects
<1> QED
  BY <1>10

\* It preserves the invariant.
LEMMA SelectStep ==
  ASSUME IInv, NEW t \in SelectTypes, Select(t)
  PROVE  IInv'
<1>1. PICK r, got, expected : Selects(t, r, got, expected)
  BY SelectIs
<1> DEFINE s == Consumed(r, got, expected, 3)
           u == Result(PushRegister(s, t), NewWords(t))
<1>2. /\ t \in ValueType /\ OK(s) /\ Frame(o, s) /\ (~s.failed => s.reg[RegisterOf(t)] = 0)
      /\ Step(u, Replace(3, <<NewWords(t)>>))
  BY <1>1 DEF Selects
<1> HIDE DEF s
<1>3. OK(u) /\ Frame(s, u)
  BY <1>2, RegisterResult
<1> HIDE DEF u
<1>4. Frame(o, u)
  BY <1>2, <1>3 DEF Frame
<1> QED
  BY <1>2, <1>3, <1>4, SameSkip, StepOK, ReplaceOK

\* Compile_Memory_Size
LEMMA MemorySizeStep ==
  ASSUME IInv, MemorySize
  PROVE  IInv'
<1> DEFINE words == NewWords("i32")
           p == PreserveRegisterIfOccupied(o, Reg0)
           u == Result(PushRegister(p, "i32"), words)
<1>1. Compiling /\ Step(u, Replace(0, <<words>>))
  BY DEF MemorySize, TypesOnTop
<1>2. OK(o)
  BY <1>1, Now
<1>3. Reg0 \in Registers /\ RegisterOf("i32") = Reg0 /\ "i32" \in ValueType
  BY Numbers DEF RegisterOf, IsFpType, ValueType
<1>4. OK(p) /\ Frame(o, p) /\ (~p.failed => p.reg[Reg0] = 0)
  BY <1>2, <1>3, PreserveRegister
<1> HIDE DEF p, words
<1>5. OK(u) /\ Frame(p, u)
  BY <1>3, <1>4, RegisterResult
<1> HIDE DEF u
<1>6. Frame(o, u)
  BY <1>4, <1>5 DEF Frame
<1> QED
  BY <1>1, <1>5, <1>6, SameSkip, StepOK, ReplaceOK

\* The top of the stack is of this type, in its register or copied to it, and goes.
LEMMA TopOfType ==
  ASSUME IInv, NEW types, types \in Seq(ValueType), Len(types) >= 1, TypesOnTop(types)
  PROVE  /\ OK(o) /\ ~o.failed /\ Len(o.stack) > Base(o.blocks)
         /\ Top(o, 0).type = Last(types) /\ BlockHeight(o) >= Len(types)
<1> DEFINE n == Len(types)
<1>1. n \in Nat /\ n \in 1 .. n /\ DOMAIN types = 1 .. n /\ n - n = 0
  OBVIOUS
<1>2. Compiling /\ BlockHeight(o) >= n /\ \A k \in DOMAIN types : Top(o, n - k).type = types[k]
  BY DEF TypesOnTop
<1> HIDE DEF n
<1>3. Top(o, 0).type = Last(types)
  BY <1>1, <1>2 DEF Last, n
<1>4. Len(o.stack) > Base(o.blocks)
  <2>1. Len(o.stack) \in Nat /\ Base(o.blocks) \in Nat /\ BlockHeight(o) = Len(o.stack) - Base(o.blocks)
    BY <1>2, Now
  <2>2. n >= 1
    BY DEF n
  <2> QED
    BY <2>1, <2>2, <1>1, <1>2
<1> QED
  BY <1>2, <1>3, <1>4, Now DEF n

\* The operand of memory.grow is read from the register, which is free then.
LEMMA GrowFree ==
  ASSUME IInv, TypesOnTop(<<"i32">>), NEW got, NEW expected
  PROVE  LET a == Observe(CopyTopToRegister(o), got, expected)
             b == Pop(a) IN
         /\ OK(a) /\ OK(b) /\ Frame(o, b) /\ Len(o.stack) > Base(o.blocks)
         /\ ~b.failed => b.reg[Reg0] = 0
<1> DEFINE T == <<"i32">>
           p == CopyTopToRegister(o)
           a == Observe(p, got, expected)
           b == Pop(a)
<1>1. T \in Seq(ValueType) /\ Len(T) = 1 /\ Len(T) >= 1 /\ Last(T) = "i32" /\ TypesOnTop(T)
  BY DEF ValueType, Last
<1> HIDE DEF T
<1>2. OK(o) /\ ~o.failed /\ Len(o.stack) > Base(o.blocks) /\ Top(o, 0).type = "i32"
      /\ BlockHeight(o) >= 1
  BY <1>1, TopOfType
<1>3. Reg0 \in Registers /\ RegisterOf("i32") = Reg0
  BY Numbers DEF RegisterOf, IsFpType
<1>4. OK(p) /\ Frame(o, p) /\ Moved(o, p) /\ (~p.failed => p.reg[Reg0] \in {0, Len(o.stack)})
  <2>1. LET q == CopyTopToRegister(o)
             r == RegisterOf(Top(o, 0).type) IN
         /\ OK(q) /\ Frame(o, q) /\ Moved(o, q)
         /\ ~q.failed => q.reg[r] \in {0, Len(o.stack)}
    BY <1>2, CopyTopOK
  <2> QED
    BY <2>1, <1>2, <1>3
<1> HIDE DEF p
<1>5. OK(a) /\ Frame(p, a) /\ a.failed = p.failed /\ a.stack = p.stack /\ a.reg = p.reg
  BY <1>4, ObservedOK
<1> HIDE DEF a
<1>6. OK(b) /\ Frame(a, b)
  BY <1>5, PopOK
<1>7. ASSUME ~b.failed PROVE b.reg[Reg0] = 0
  <2>1. ~a.failed /\ ~p.failed
    BY <1>5, <1>6, <1>7 DEF Frame
  <2>2. Len(a.stack) = Len(o.stack) /\ a.reg[Reg0] \in {0, Len(o.stack)}
    BY <2>1, <1>4, <1>5 DEF Moved
  <2>3. BlockHeight(a) >= 1 /\ Len(o.stack) \in Nat
    <3>1. a.blocks = o.blocks
      BY <1>4, <1>5 DEF Frame
    <3>2. BlockHeight(a) = BlockHeight(o) /\ Len(o.stack) \in Nat
      BY <3>1, <2>2, <1>2, Height DEF BlockHeight, Block
    <3> QED
      BY <3>2, <1>2
  <2>4. Popped(a, b, 1)
    BY <2>3, <1>5, PopTop
  <2>5. a.reg[Reg0] = 0 \/ a.reg[Reg0] > Len(a.stack) - 1
    BY <2>2, <2>3
  <2> HIDE DEF b
  <2> QED
    BY <2>3, <2>4, <2>5, <1>3, <1>5, <1>6, <1>7, FreeAfter
<1> HIDE DEF b
<1>8. Frame(o, b)
  BY <1>4, <1>5, <1>6 DEF Frame
<1> QED
  BY <1>2, <1>5, <1>6, <1>7, <1>8 DEF b, a, p

\* Compile_Memory_Grow
LEMMA MemoryGrowStep ==
  ASSUME IInv, MemoryGrow
  PROVE  IInv'
<1> DEFINE words == NewWords("i32")
           b == Pop(Observe(CopyTopToRegister(o), InRegister(CopyTopToRegister(o), Reg0), Last(w.vals)))
           u == Result(PushRegister(b, "i32"), words)
<1>1. TypesOnTop(<<"i32">>) /\ Step(u, Replace(1, <<words>>))
  BY DEF MemoryGrow
<1>2. OK(b) /\ Frame(o, b) /\ (~b.failed => b.reg[Reg0] = 0)
  BY <1>1, GrowFree
<1> HIDE DEF b, words
<1>3. RegisterOf("i32") = Reg0 /\ "i32" \in ValueType
  BY DEF RegisterOf, IsFpType, ValueType
<1>4. OK(u) /\ Frame(b, u)
  BY <1>2, <1>3, RegisterResult
<1> HIDE DEF u
<1>5. Frame(o, u)
  BY <1>2, <1>4 DEF Frame
<1> QED
  BY <1>1, <1>4, <1>5, SameSkip, StepOK, ReplaceOK

\* Compile_Memory_CopyFill
LEMMA MemoryCopyFillStep ==
  ASSUME IInv, MemoryCopyFill
  PROVE  IInv'
<1> DEFINE T == <<"i32", "i32", "i32">>
           p == CopyTopToRegister(o)
           got == <<Read(p, Top(p, 2)), Read(p, Top(p, 1)), InRegister(p, Reg0)>>
           u == Consumed(p, got, LastN(3), 3)
<1>1. TypesOnTop(T) /\ Step(u, Replace(3, <<>>))
  BY DEF MemoryCopyFill, Consumed
<1>2. T \in Seq(ValueType) /\ Len(T) >= 1
  BY DEF ValueType
<1> HIDE DEF T
<1>3. OK(o) /\ ~o.failed /\ Len(o.stack) > Base(o.blocks)
  BY <1>1, <1>2, TopOfType
<1>4. OK(p) /\ Frame(o, p)
  BY <1>3, CopyTopOK
<1> HIDE DEF p, got
<1>5. OK(u) /\ Frame(p, u)
  BY <1>4, ConsumedOK
<1> HIDE DEF u
<1>6. Frame(o, u)
  BY <1>4, <1>5 DEF Frame
<1> QED
  BY <1>1, <1>5, <1>6, SameSkip, StepOK, ReplaceOK

-----------------------------------------------------------------------------
(* Calls                                                                   *)

\* All slots in use are below the frame of the callee.
LEMMA HighestUsed ==
  ASSUME NEW p, OK(p)
  PROVE  GetMaxUsedSlotPlusOne(p) \in Nat /\ p.firstDynamic <= GetMaxUsedSlotPlusOne(p)
<1> DEFINE f == p.firstDynamic
           g == p.top
           used == {s \in f .. g - 1 : s \in DOMAIN p.count => p.count[s] # 0}
           m == GetMaxUsedSlotPlusOne(p)
<1>1. f \in Nat /\ g \in Nat /\ f <= g
  BY DEF OK, Typed, Bounds
<1>2. m = IF used = {} THEN Min({g, f}) ELSE Max(used) + 1
  BY DEF GetMaxUsedSlotPlusOne
<1>3. used \subseteq f .. g - 1
  OBVIOUS
<1> HIDE DEF used, m, f, g
<1>4. CASE used = {}
  <2>1. Min({g, f}) = IF g <= f THEN g ELSE f
    BY <1>1, MinOfTwo
  <2>2. m \in Nat /\ f <= m
    BY <2>1, <1>1, <1>2, <1>4
  <2> QED
    BY <2>2 DEF m, f
<1>5. CASE used # {}
  <2>1. g - 1 \in Int
    BY <1>1
  <2>2. Max(used) \in used
    BY <2>1, <1>1, <1>3, <1>5, GreatestInRange
  <2>3. Max(used) \in f .. g - 1
    BY <2>2, <1>3
  <2>4. m \in Nat /\ f <= m
    BY <2>3, <1>1, <1>2, <1>5
  <2> QED
    BY <2>4 DEF m, f
<1> QED
  BY <1>4, <1>5

\* The top of the slots in use may be lowered to that.
LEMMA WithTop ==
  ASSUME NEW p, OK(p), NEW top \in Nat, p.firstDynamic <= top, NEW values
  PROVE  LET q == [p EXCEPT !.top = top, !.values = values] IN OK(q) /\ Frame(p, q)
<1> DEFINE q == [p EXCEPT !.top = top, !.values = values]
<1>1. Typed(p)
  BY DEF OK
<1>2. Typed(q) /\ q.failed = p.failed /\ q.blocks = p.blocks /\ q.stack = p.stack /\ q.reg = p.reg
      /\ q.skip = p.skip /\ q.to = p.to /\ q.ignored = p.ignored
      /\ q.firstConst = p.firstConst /\ q.firstDynamic = p.firstDynamic
      /\ q.constEnd = p.constEnd /\ q.top = top
  BY <1>1 DEF Typed, Fields
<1> HIDE DEF q
<1>3. OK(q)
  BY <1>2 DEF OK, Bounds
<1> QED
  BY <1>2, <1>3 DEF Frame, q

\* Where the frame of the callee is.
MayCall(p, frame, args, rets) ==
  /\ OK(p) /\ frame \in Nat /\ p.firstDynamic <= frame
  /\ args \in Nat /\ 2 * args <= CalleeSlots
  /\ rets \in Seq(ValueType) /\ frame + 2 * Len(rets) <= MaxFunctionSlots

\* An argument is copied to a slot of the callee, and goes.
LEMMA CopyArgOK ==
  ASSUME NEW p, OK(p), NEW slot \in Nat, slot + 2 <= Reg0
  PROVE  LET q == CopyArg(p, slot) IN OK(q) /\ Frame(p, q)
<1> DEFINE i == Len(p.stack)
           a == CopyToSlot(p, slot, i)
           t == p.stack[i].type
<1>1. slot + GetTypeNumSlots(t) <= Reg0
  <2>1. GetTypeNumSlots(t) \in 1 .. 2
    BY Types
  <2> HIDE DEF t
  <2> QED
    BY <2>1, Numbers
<1>2. Close(p, a)
  <2> HIDE DEF i
  <2> QED
    BY <1>1, CopyClose DEF OK
<1> HIDE DEF a
<1>3. OK(a)
  BY <1>2, CloseOK
<1>4. OK(Pop(a)) /\ Frame(a, Pop(a))
  BY <1>3, PopOK
<1>5. CopyArg(p, slot) = Pop(a)
  BY DEF CopyArg, a
<1> QED
  BY <1>2, <1>4, <1>5 DEF Close, Frame

\* All are.
LEMMA CopyArgsOK ==
  ASSUME NEW p, NEW frame, NEW args, NEW rets, MayCall(p, frame, args, rets)
  PROVE  LET q == CopyArgs(p, frame, args, Len(rets)) IN OK(q) /\ Frame(p, q)
<1> DEFINE l == Len(rets)
<1>1. OK(p) /\ frame \in Nat /\ args \in Nat /\ 2 * args <= CalleeSlots /\ l \in Nat
      /\ frame + 2 * l <= MaxFunctionSlots
  BY DEF MayCall
<1> HIDE DEF l
<1>3. PICK f : /\ f[0] = p
               /\ \A k \in 1 .. args : f[k] = CopyArg(f[k - 1], ArgSlot(frame, args, l, k))
               /\ CopyArgs(p, frame, args, l) = f[args]
  <2>1. args \in Nat
    BY <1>1
  <2> QED
    BY <2>1, CopyArgsSteps
<1> DEFINE S == {k \in 0 .. args : OK(f[k]) /\ Frame(p, f[k])}
<1>4. 0 \in S
  BY <1>1, <1>3, SelfMoved
<1>5. ASSUME NEW k \in 1 .. args, k - 1 \in S PROVE k \in S
  <2> DEFINE a == f[k - 1]
             slot == ArgSlot(frame, args, l, k)
  <2>1. OK(a) /\ Frame(p, a) /\ k \in 0 .. args
    BY <1>1, <1>5
  <2>2. slot \in Nat /\ slot + 2 <= Reg0
    BY <1>1, Numbers DEF ArgSlot
  <2>3. f[k] = CopyArg(a, slot)
    BY <1>3
  <2> HIDE DEF a, slot
  <2>4. OK(f[k]) /\ Frame(a, f[k])
    BY <2>1, <2>2, <2>3, CopyArgOK
  <2>5. Frame(p, f[k])
    BY <2>1, <2>4 DEF Frame
  <2> QED
    BY <2>1, <2>4, <2>5
<1>6. args \in S
  <2> HIDE DEF S
  <2>1. \A k \in 0 .. args : k \in S
    BY <1>1, <1>4, <1>5, UpTo
  <2> QED
    BY <2>1, <1>1
<1> QED
  BY <1>3, <1>6 DEF l

\* A result is in a slot of the callee, which is now one of the caller.
LEMMA PushRetOK ==
  ASSUME NEW p, OK(p), NEW t \in ValueType, NEW slot \in Nat, p.firstDynamic <= slot,
         slot + 2 <= MaxFunctionSlots
  PROVE  LET q == PushRet(p, t, slot) IN OK(q) /\ Frame(p, q)
<1> DEFINE a == Push(p, t, slot)
           q == MarkSlotsAllocated(a, slot, t)
<1>1. slot + GetTypeNumSlots(t) <= MaxFunctionSlots
  BY Types, Numbers
<1>2. ~(slot < p.firstConst)
  BY DEF OK, Typed, Bounds
<1>3. OK(a) /\ Frame(p, a)
  BY <1>1, <1>2, PushSlot
<1> HIDE DEF a
<1>4. Close(a, q)
  BY <1>1, <1>3, MarkClose DEF OK
<1> HIDE DEF q
<1>5. OK(q)
  BY <1>3, <1>4, CloseOK
<1>6. PushRet(p, t, slot) = q
  BY DEF PushRet, q, a
<1> QED
  BY <1>3, <1>4, <1>5, <1>6 DEF Close, Frame

\* All are.
LEMMA PushRetsOK ==
  ASSUME NEW p, NEW frame, NEW args, NEW rets, MayCall(p, frame, args, rets)
  PROVE  LET q == PushRets(p, frame, rets) IN OK(q) /\ Frame(p, q)
<1> DEFINE l == Len(rets)
<1>1. OK(p) /\ frame \in Nat /\ l \in Nat /\ rets \in Seq(ValueType)
      /\ frame + 2 * l <= MaxFunctionSlots /\ p.firstDynamic <= frame
  BY DEF MayCall
<1>2. PICK last : last = PushRets(p, frame, rets)
  OBVIOUS
<1>3. PICK f : /\ f[0] = p
               /\ \A k \in 1 .. l : f[k] = PushRet(f[k - 1], rets[k], frame + 2 * (k - 1))
               /\ last = f[l]
  BY <1>1, <1>2, PushRetsSteps
<1>a. \A k \in 1 .. l : rets[k] \in ValueType
  BY <1>1
<1> HIDE DEF l
<1> DEFINE S == {k \in 0 .. l : OK(f[k]) /\ Frame(p, f[k])}
<1>4. 0 \in S
  BY <1>1, <1>3, SelfMoved
<1>5. ASSUME NEW k \in 1 .. l, k - 1 \in S PROVE k \in S
  <2> DEFINE a == f[k - 1]
             slot == frame + 2 * (k - 1)
             t == rets[k]
  <2>1. OK(a) /\ Frame(p, a) /\ k \in 0 .. l /\ t \in ValueType
    BY <1>1, <1>5, <1>a
  <2>2. slot \in Nat /\ slot + 2 <= MaxFunctionSlots /\ frame <= slot
    BY <1>1, Numbers
  <2>3. f[k] = PushRet(a, t, slot)
    BY <1>3
  <2>4. a.firstDynamic = p.firstDynamic /\ p.firstDynamic \in Nat
    BY <2>1, <1>1 DEF Frame, OK, Typed
  <2> HIDE DEF a, slot, t
  <2>5. a.firstDynamic <= slot
    BY <2>2, <2>4, <1>1
  <2>6. OK(f[k]) /\ Frame(a, f[k])
    BY <2>1, <2>2, <2>3, <2>5, PushRetOK
  <2>7. Frame(p, f[k])
    BY <2>1, <2>6 DEF Frame
  <2> QED
    BY <2>1, <2>6, <2>7
<1>6. l \in S
  <2> HIDE DEF S
  <2>1. \A k \in 0 .. l : k \in S
    BY <1>1, <1>4, <1>5, UpTo
  <2> QED
    BY <2>1, <1>1
<1> QED
  BY <1>2, <1>3, <1>6

\* CompileCallArgsAndReturn, and the call.
LEMMA CallFrameOK ==
  ASSUME NEW p, OK(p), NEW call \in CallTypes, NEW indirect, NEW max,
         max \in Nat, p.firstDynamic <= max,
         FrameBehind(max) + 2 * Len(call.rets) <= MaxFunctionSlots
  PROVE  LET q == CallFrame(p, call, indirect, max) IN OK(q) /\ Frame(p, q)
<1> DEFINE args == Len(call.args)
           rets == Len(call.rets)
           frame == FrameBehind(max)
           index == IF indirect THEN <<Top(p, 0)>> ELSE <<>>
           Seen(c) ==
             [k \in 1 .. args |-> Read(c, [type |-> call.args[k], slot |-> frame + 2 * (rets + k - 1)])]
             \o [k \in DOMAIN index |-> Read(c, index[k])]
           m == [p EXCEPT !.top = max, !.values = Max({@, args + rets})]
           popped == PopN(m, Len(index))
           c == CopyArgs(popped, frame, args, rets)
           seen == Seen(c)
           d == Observe(c, seen, LastN(args + Len(index)))
           junk == [k \in 1 .. Reg0 - frame |-> Junk]
           e == Write(d, frame, junk)
           q == PushRets(e, frame, call.rets)
<1>1. CallFrame(p, call, indirect, max) = q
  BY DEF CallFrame, CopyArgs, ArgSlot, PushRets
<1>2. call.args \in Seq(ValueType) /\ call.rets \in Seq(ValueType) /\ 2 * args <= CalleeSlots
  BY SignatureAssumption
<1>3. args \in Nat /\ rets \in Nat
  BY <1>2
<1>4. Len(index) \in Nat
  OBVIOUS
<1> HIDE DEF index, args, rets, Seen
<1>5. frame \in Nat /\ max <= frame
  <2>1. Max({1, max}) = IF 1 >= max THEN 1 ELSE max
    BY MaxOfTwo
  <2> DEFINE g == Max({1, max})
  <2> HIDE DEF g
  <2>2. g \in Nat /\ max <= g
    BY <2>1 DEF g
  <2>3. frame \in g .. g + 1
    BY <2>2, Even DEF FrameBehind, g
  <2> HIDE DEF frame
  <2> QED
    BY <2>2, <2>3
<1>6. OK(m) /\ Frame(p, m)
  <2> DEFINE values == Max({p.values, args + rets})
  <2>1. m = [p EXCEPT !.top = max, !.values = values]
    OBVIOUS
  <2> HIDE DEF values, m
  <2> QED
    BY <2>1, WithTop
<1> HIDE DEF m
<1>7. OK(popped) /\ Frame(m, popped)
  BY <1>4, <1>6, PopNOK
<1> HIDE DEF popped
<1>8. Frame(p, popped)
  BY <1>6, <1>7 DEF Frame
<1>9. frame + 2 * rets <= MaxFunctionSlots
  BY DEF rets
<1> HIDE DEF frame
<1>10. p.firstDynamic \in Nat /\ p.firstDynamic <= frame
  <2>1. p.firstDynamic \in Nat
    BY DEF OK, Typed
  <2> QED
    BY <2>1, <1>5
<1>11. ASSUME NEW x, OK(x), Frame(p, x) PROVE MayCall(x, frame, args, call.rets)
  <2>1. x.firstDynamic = p.firstDynamic
    BY <1>11 DEF Frame
  <2> QED
    BY <2>1, <1>2, <1>3, <1>5, <1>9, <1>10, <1>11 DEF MayCall, rets
<1>12. OK(c) /\ Frame(popped, c)
  <2>1. MayCall(popped, frame, args, call.rets)
    BY <1>7, <1>8, <1>11
  <2> QED
    BY <2>1, CopyArgsOK DEF rets
<1> HIDE DEF c, seen, junk
<1>13. OK(d) /\ Frame(c, d)
  BY <1>12, ObservedOK
<1> HIDE DEF d
<1>14. Close(d, e)
  BY <1>13, WriteClose DEF OK
<1> HIDE DEF e
<1>15. OK(e) /\ Frame(p, e)
  BY <1>8, <1>12, <1>13, <1>14, CloseOK DEF Close, Frame
<1>16. OK(q) /\ Frame(e, q)
  BY <1>11, <1>15, PushRetsOK
<1> HIDE DEF q
<1> QED
  BY <1>1, <1>15, <1>16 DEF Frame

\* Compile_Call and Compile_CallIndirect, whose results have slots of this function.
LEMMA CallStep ==
  ASSUME IInv, "high_calls" \notin Allowed, NEW call \in CallTypes, NEW indirect \in BOOLEAN, Call(call, indirect)
  PROVE  IInv'
<1> DEFINE operands == call.args \o IF indirect THEN <<"i32">> ELSE <<>>
           results == [k \in DOMAIN call.rets |-> NewWords(call.rets[k])]
           p == IF indirect /\ TopInRegister(o, 0) THEN PreserveRegisterIfOccupied(o, Reg0) ELSE o
           max == GetMaxUsedSlotPlusOne(p)
           c == CallFrame(p, call, indirect, max)
           q == IF p.failed THEN p ELSE c
           u == IF results = <<>> THEN q ELSE Result(q, Head(results))
<1>1. /\ Compiling /\ FrameBehind(max) + 2 * Len(call.rets) <= MaxFunctionSlots
      /\ Step(u, Replace(Len(operands), results))
  BY DEF Call, Then, TypesOnTop, PreserveIf
<1>2. OK(o)
  BY <1>1, Now
<1>3. OK(p) /\ Frame(o, p)
  BY <1>2, Numbers, PreserveMaybe
<1> HIDE DEF p, results, operands
<1>4. max \in Nat /\ p.firstDynamic <= max
  BY <1>3, HighestUsed
<1> HIDE DEF max
<1>5. OK(c) /\ Frame(p, c)
  BY <1>1, <1>3, <1>4, CallFrameOK
<1> HIDE DEF c
<1>6. OK(q) /\ Frame(o, q)
  BY <1>3, <1>5 DEF Frame
<1> HIDE DEF q
<1>7. OK(u) /\ Frame(q, u)
  <2>1. Close(q, q)
    BY <1>6, CloseSelf DEF OK
  <2>2. Close(q, u)
    BY <2>1, <1>6, ResultClose DEF OK
  <2> HIDE DEF u
  <2> QED
    BY <2>2, <1>6, CloseOK DEF Close
<1> HIDE DEF u
<1>8. Frame(o, u)
  BY <1>6, <1>7 DEF Frame
<1> QED
  BY <1>1, <1>7, <1>8, SameSkip, StepOK, ReplaceOK

-----------------------------------------------------------------------------
(* The beginning of a block                                                 *)

\* No item refers to a local any more.
LEMMA PreserveLocalsOK ==
  ASSUME NEW p, OK(p)
  PROVE  LET q == PreserveArgsAndLocals(p) IN OK(q) /\ Frame(p, q) /\ Moved(p, q)
<1>1. PICK f : /\ f[0] = p
               /\ \A k \in 1 .. NumLocals : f[k] = Then(f[k - 1], LAMBDA r : PreserveLocal(r, k))
               /\ PreserveArgsAndLocals(p) = f[NumLocals]
  BY PreserveLocalsSteps
<1> DEFINE S == {k \in 0 .. NumLocals : OK(f[k]) /\ Frame(p, f[k]) /\ Moved(p, f[k])}
<1>2. NumLocals \in Nat
  BY Numbers
<1>3. 0 \in S
  BY <1>1, <1>2, SelfMoved
<1>4. ASSUME NEW k \in 1 .. NumLocals, k - 1 \in S PROVE k \in S
  <2> DEFINE a == f[k - 1]
             b == PreserveLocal(a, k)
  <2>1. OK(a) /\ Frame(p, a) /\ Moved(p, a) /\ k \in 0 .. NumLocals
    BY <1>2, <1>4
  <2>2. f[k] = IF a.failed THEN a ELSE b
    BY <1>1 DEF Then
  <2> HIDE DEF a
  <2>3. ASSUME ~a.failed PROVE OK(b) /\ Frame(p, b) /\ Moved(p, b)
    <3>1. OK(b) /\ Frame(a, b) /\ Moved(a, b)
      BY <2>1, <2>3, PreserveLocalOK
    <3> HIDE DEF b
    <3>2. Moved(p, b)
      BY <2>1, <3>1, MovedTwice
    <3> QED
      BY <2>1, <3>1, <3>2 DEF Frame
  <2> HIDE DEF b
  <2> QED
    BY <2>1, <2>2, <2>3
<1>5. NumLocals \in S
  <2> HIDE DEF S
  <2>1. \A k \in 0 .. NumLocals : k \in S
    BY <1>2, <1>3, <1>4, UpTo
  <2> QED
    BY <2>1, <1>2
<1> QED
  BY <1>1, <1>5

\* A parameter that is a constant moves to a slot of its own.
LEMMA InstantiateOK ==
  ASSUME NEW p, OK(p), ~p.failed, NEW i \in Base(p.blocks) + 1 .. Len(p.stack)
  PROVE  LET q == Instantiate(p, i) IN OK(q) /\ Frame(p, q) /\ Moved(p, q)
<1> DEFINE x == p.stack[i]
           t == x.type
           s == FreeSlot(p, t, p.firstDynamic, MaxFunctionSlots)
           m == MarkSlotsAllocated(p, s, t)
           c == CopyToSlot(m, s, i)
           moved == [c EXCEPT !.stack[i].slot = s]
           q == Instantiate(p, i)
<1>1. q = IF x.slot \notin p.firstConst .. p.constEnd - 1 THEN p
          ELSE IF s = SlotUnused THEN Fail(p) ELSE moved
  BY DEF Instantiate, AllocateSlots, CopyItem
<1> HIDE DEF q
<1>2. CASE x.slot \notin p.firstConst .. p.constEnd - 1
  BY <1>1, <1>2, SelfMoved DEF q
<1>3. CASE x.slot \in p.firstConst .. p.constEnd - 1 /\ s = SlotUnused
  BY <1>1, <1>3, FailOK DEF Moved, q
<1>4. CASE x.slot \in p.firstConst .. p.constEnd - 1 /\ s # SlotUnused
  <2>1. /\ s \in Nat /\ p.firstDynamic <= s /\ s + GetTypeNumSlots(t) <= MaxFunctionSlots
        /\ Close(p, m)
    BY <1>4, Allocation DEF OK
  <2>2. OK(m) /\ m.stack = p.stack
    BY <2>1, CloseOK DEF Close
  <2>3. Close(p, c)
    <3>1. s + GetTypeNumSlots(m.stack[i].type) <= Reg0
      <4> DEFINE a == s + GetTypeNumSlots(t)
      <4>1. a \in Nat /\ a <= MaxFunctionSlots
        BY <2>1, Types
      <4> HIDE DEF a, m
      <4>2. a <= Reg0
        BY <4>1, Numbers
      <4> QED
        BY <2>2, <4>2 DEF a
    <3> HIDE DEF m, s
    <3>2. Close(m, c)
      BY <2>1, <2>2, <3>1, CopyClose DEF OK
    <3> QED
      BY <2>1, <3>2, CloseTwice DEF OK
  <2> DEFINE J == {i}
             after == WithMoved(p, c, J, s, p.reg)
  <2>4. moved = after
    <3>1. DOMAIN c = Fields /\ c.stack = p.stack /\ c.reg = p.reg
      BY <2>3 DEF Close, Typed
    <3>2. Redirected(p.stack, J, s) = [p.stack EXCEPT ![i].slot = s]
      BY DEF Redirected
    <3>3. moved = [c EXCEPT !.stack = [c.stack EXCEPT ![i].slot = s]]
      OBVIOUS
    <3> HIDE DEF c, s, J
    <3> QED
      BY <3>1, <3>2, <3>3 DEF Fields, WithMoved
  <2>5. x.slot \notin Registers
    <3>1. p.firstConst \in Nat /\ p.constEnd \in Nat /\ p.constEnd <= MaxFunctionSlots
      BY Numbers DEF OK, Typed, Bounds
    <3>2. x.slot < MaxFunctionSlots
      <4> HIDE DEF x
      <4> QED
        BY <3>1, <1>4, Numbers
    <3> HIDE DEF x
    <3> QED
      BY <3>1, <3>2, <1>4, Numbers
  <2>6. MayMove(p, c, J, s, p.reg)
    <3>1. s >= p.firstDynamic
      BY <2>1 DEF OK, Typed
    <3>2. \A j \in J \cap 1 .. Len(p.stack) :
            s + GetTypeNumSlots(p.stack[j].type) <= MaxFunctionSlots
      BY <2>1
    <3>3. J \subseteq NumLocals + 1 .. Len(p.stack) /\ \A j \in J : p.stack[j].slot \notin Registers
      <4>1. /\ Len(p.stack) \in Nat /\ Base(p.blocks) \in Nat
            /\ NumLocals \in Nat /\ NumLocals <= Base(p.blocks)
        BY Height
      <4>2. i \in NumLocals + 1 .. Len(p.stack)
        BY <4>1
      <4> QED
        BY <4>2, <2>5
    <3>4. p.reg \in [Registers -> 0 .. MaxStackHeight]
      BY DEF OK, Typed
    <3>5. \A r \in Registers : p.reg[r] \notin J
      <4> TAKE r \in Registers
      <4>1. i # 0
        BY Height
      <4>2. p.reg[r] # 0 => p.stack[p.reg[r]].slot = r
        BY DEF OK, Sound, RegistersOk
      <4> QED
        BY <4>1, <4>2, <2>5
    <3> HIDE DEF c, s, J
    <3> QED
      BY <2>1, <2>3, <3>1, <3>2, <3>3, <3>4, <3>5 DEF MayMove
  <2> HIDE DEF c, s, J, moved
  <2>7. OK(after) /\ Frame(p, after) /\ Moved(p, after)
    BY <2>6, RedirectOK
  <2>8. q = after
    BY <1>1, <1>4, <2>4
  <2> QED
    BY <2>7, <2>8 DEF q
<1> QED
  BY <1>2, <1>3, <1>4

\* All of them do.
LEMMA InstantiateConstantsOK ==
  ASSUME NEW p, OK(p), NEW n \in Nat, n <= BlockHeight(p)
  PROVE  LET q == InstantiateConstants(p, n) IN OK(q) /\ Frame(p, q) /\ Moved(p, q)
<1> DEFINE h == Len(p.stack)
<1>1. PICK f : /\ f[0] = p
               /\ \A k \in 1 .. n : f[k] = Then(f[k - 1], LAMBDA r : Instantiate(r, h - n + k))
               /\ InstantiateConstants(p, n) = f[n]
  BY InstantiateSteps
<1> DEFINE S == {k \in 0 .. n : OK(f[k]) /\ Frame(p, f[k]) /\ Moved(p, f[k])}
<1>2. h \in Nat /\ Base(p.blocks) \in Nat /\ BlockHeight(p) = h - Base(p.blocks)
  BY Height
<1> HIDE DEF h
<1>3. 0 \in S
  BY <1>1, SelfMoved
<1>4. ASSUME NEW k \in 1 .. n, k - 1 \in S PROVE k \in S
  <2> DEFINE a == f[k - 1]
             i == h - n + k
             b == Instantiate(a, i)
  <2>1. OK(a) /\ Frame(p, a) /\ Moved(p, a) /\ k \in 0 .. n
    BY <1>4
  <2>2. f[k] = IF a.failed THEN a ELSE b
    BY <1>1 DEF Then
  <2>3. i \in Base(p.blocks) + 1 .. h
    BY <1>2
  <2> HIDE DEF a, i
  <2>4. ASSUME ~a.failed PROVE OK(b) /\ Frame(p, b) /\ Moved(p, b)
    <3>1. Len(a.stack) = h /\ Base(a.blocks) = Base(p.blocks)
      BY <2>1, <2>4 DEF Frame, Moved, h
    <3>2. i \in Base(a.blocks) + 1 .. Len(a.stack)
      BY <2>3, <3>1
    <3>3. OK(b) /\ Frame(a, b) /\ Moved(a, b)
      BY <2>1, <2>4, <3>2, InstantiateOK
    <3> HIDE DEF b
    <3>4. Moved(p, b)
      BY <2>1, <3>3, MovedTwice
    <3> QED
      BY <2>1, <3>3, <3>4 DEF Frame
  <2> HIDE DEF b
  <2> QED
    BY <2>1, <2>2, <2>4
<1>5. n \in S
  <2> HIDE DEF S
  <2>1. \A k \in 0 .. n : k \in S
    BY <1>3, <1>4, UpTo
  <2> QED
    BY <2>1
<1> QED
  BY <1>1, <1>5

\* What is on top stays there when items move,
LEMMA OnTopMoved ==
  ASSUME NEW p, NEW q, NEW types, types \in Seq(ValueType), OK(p), OnTop(p, types),
         Frame(p, q), Moved(p, q), ~q.failed
  PROVE  OnTop(q, types) /\ BlockHeight(q) = BlockHeight(p)
<1> DEFINE h == Len(p.stack)  n == Len(types)
<1>1. h \in Nat /\ Base(p.blocks) \in Nat /\ Base(p.blocks) <= h /\ BlockHeight(p) = h - Base(p.blocks)
  BY Height
<1>2. n \in Nat
  OBVIOUS
<1>3. Len(q.stack) = h /\ \A i \in 1 .. h : q.stack[i].type = p.stack[i].type
  BY DEF Moved
<1>4. BlockHeight(q) = BlockHeight(p)
  BY <1>3 DEF BlockHeight, Block, Frame, h
<1>5. BlockHeight(p) >= n /\ \A j \in 1 .. n : p.stack[h - n + j].type = types[j]
  BY DEF OnTop
<1> HIDE DEF h, n
<1>6. \A j \in 1 .. n : h - n + j \in 1 .. h
  BY <1>1, <1>2, <1>5
<1>7. \A j \in 1 .. n : q.stack[h - n + j].type = types[j]
  BY <1>3, <1>5, <1>6
<1> QED
  BY <1>3, <1>4, <1>5, <1>7 DEF OnTop, n

\* and comes to the top when the value above it goes.
LEMMA OnTopPopped ==
  ASSUME NEW p, NEW q, NEW types, types \in Seq(ValueType), NEW t \in ValueType, OK(p),
         OnTop(p, Append(types, t)), Frame(p, q), Popped(p, q, 1), ~q.failed
  PROVE  OnTop(q, types) /\ BlockHeight(q) = BlockHeight(p) - 1 /\ BlockHeight(p) >= 1
<1> DEFINE h == Len(p.stack)  n == Len(types)  more == Append(types, t)
<1>1. h \in Nat /\ Base(p.blocks) \in Nat /\ Base(p.blocks) <= h /\ BlockHeight(p) = h - Base(p.blocks)
  BY Height
<1>2. n \in Nat /\ Len(more) = n + 1 /\ \A j \in 1 .. n : more[j] = types[j]
  OBVIOUS
<1>3. Len(q.stack) = h - 1 /\ \A i \in 1 .. h - 1 : q.stack[i] = p.stack[i]
  BY DEF Popped
<1> HIDE DEF more
<1>4. BlockHeight(p) >= n + 1 /\ \A j \in 1 .. n + 1 : p.stack[h - (n + 1) + j].type = more[j]
  BY <1>2 DEF OnTop, more
<1> HIDE DEF h, n
<1>a. BlockHeight(q) = h - 1 - Base(p.blocks)
  BY <1>3 DEF BlockHeight, Block, Frame, Base, Last
<1>5. BlockHeight(q) = BlockHeight(p) - 1
  BY <1>1, <1>a
<1>6. \A j \in 1 .. n : /\ j \in 1 .. n + 1 /\ h - (n + 1) + j = h - 1 - n + j
                        /\ h - 1 - n + j \in 1 .. h - 1
  BY <1>1, <1>2, <1>4
<1>7. \A j \in 1 .. n : q.stack[h - 1 - n + j].type = types[j]
  <2> TAKE j \in 1 .. n
  <2>1. j \in 1 .. n + 1 /\ h - (n + 1) + j = h - 1 - n + j /\ h - 1 - n + j \in 1 .. h - 1
    BY <1>6
  <2>2. p.stack[h - (n + 1) + j].type = more[j] /\ more[j] = types[j]
    BY <2>1, <1>2, <1>4
  <2>3. q.stack[h - 1 - n + j] = p.stack[h - 1 - n + j]
    BY <2>1, <1>3
  <2> QED
    BY <2>1, <2>2, <2>3
<1>8. BlockHeight(q) >= n /\ BlockHeight(p) >= 1
  BY <1>1, <1>2, <1>4, <1>5
<1> QED
  BY <1>3, <1>5, <1>7, <1>8 DEF OnTop, n

\* The same for those who go on from there,
LEMMA EnteredHeld ==
  ASSUME NEW p, NEW opcode, NEW type, MayEnterBlock(p, opcode, type)
  PROVE  LET q == EnterBlock(p, opcode, type) IN
         /\ q.failed \in BOOLEAN /\ q.ignored \in BOOLEAN /\ q.wild = FALSE
         /\ ~q.ignored => OK(q) /\ q.skip = p.skip /\ q.to = p.to
                          /\ Len(q.blocks) = Len(p.blocks) + 1
<1> DEFINE q == EnterBlock(p, opcode, type)
<1>1. Entering(p, opcode, type, q)
  BY EnterBlockOK
<1>2. OK(p) /\ Typed(p)
  BY DEF MayEnterBlock, OK
<1> HIDE DEF q
<1>3. CASE q = [p EXCEPT !.ignored = TRUE]
  <2>1. q.ignored = TRUE /\ q.failed = p.failed /\ q.wild = p.wild
    BY <1>2, <1>3 DEF Typed, Fields
  <2> QED
    BY <2>1, <1>2 DEF Typed, q
<1>4. CASE OK(q) /\ q.blocks = EnteredBlocks(p, opcode, type)
           /\ q.skip = p.skip /\ q.to = p.to /\ q.ignored = p.ignored
  <2>1. Len(EnteredBlocks(p, opcode, type)) = Len(p.blocks) + 1
    BY ZenonT(40), EnteredBlocksOk
  <2> QED
    BY <1>4, <2>1 DEF q, OK, Typed
<1> QED
  BY <1>1, <1>3, <1>4 DEF Entering

\* and for those who do not.
LEMMA EnteredWent ==
  ASSUME NEW p, NEW opcode, NEW type, MayEnterBlock(p, opcode, type), SkipOk(p)
  PROVE  Went(EnterBlock(p, opcode, type))
<1> DEFINE q == EnterBlock(p, opcode, type)
<1>1. /\ q.failed \in BOOLEAN /\ q.ignored \in BOOLEAN /\ q.wild = FALSE
      /\ ~q.ignored => OK(q) /\ q.skip = p.skip /\ q.to = p.to
                       /\ Len(q.blocks) = Len(p.blocks) + 1
  BY EnteredHeld
<1> HIDE DEF q
<1>2. Len(p.blocks) \in Nat
  BY ScopeFacts DEF MayEnterBlock, OK
<1>3. p.to \in 0 .. Len(p.blocks) => p.to \in 0 .. Len(p.blocks) + 1
  BY <1>2
<1>4. ~q.ignored => SkipOk(q)
  BY <1>1, <1>3 DEF SkipOk
<1> QED
  BY <1>1, <1>4 DEF Went, q

\* What MayEnter says, when nothing is allowed that is not compiled well.
LEMMA MayEnterFacts ==
  ASSUME "fp_results" \notin Allowed, NEW p, NEW type \in BlockTypes, MayEnter(p, type)
  PROVE  FpLast(type.results) => Len(type.results) = 1
<1>1. Len(type.results) < 2 \/ ~FpLast(type.results)
  BY DEF MayEnter
<1>2. type.results \in Seq(ValueType)
  BY SignatureAssumption
<1>3. type.results # <<>> /\ Len(type.results) < 2 => Len(type.results) = 1
  <2> SUFFICES ASSUME type.results # <<>>, Len(type.results) < 2 PROVE Len(type.results) = 1
    OBVIOUS
  <2> DEFINE l == Len(type.results)
  <2>1. l \in Nat \ {0}
    BY <1>2, EmptySeq
  <2>2. l < 2
    OBVIOUS
  <2> HIDE DEF l
  <2>3. l = 1
    BY <2>1, <2>2
  <2> QED
    BY <2>3 DEF l
<1> QED
  BY <1>1, <1>3 DEF FpLast

\* The labels of the machine.
LEMMA EnterLabelOK ==
  ASSUME NEW x, MachineOk(x), NEW params, NEW label
  PROVE  MachineOk(EnterLabel(x, params, label)) /\ MachineOk(ExitLabel(x))
BY Machines DEF EnterLabel, ExitLabel

\* Nothing is done after an error.
LEMMA InstantiateFailed ==
  ASSUME NEW p, p.failed, NEW n \in Nat
  PROVE  InstantiateConstants(p, n) = p
<1> DEFINE h == Len(p.stack)
<1>1. PICK f : /\ f[0] = p
               /\ \A k \in 1 .. n : f[k] = Then(f[k - 1], LAMBDA r : Instantiate(r, h - n + k))
               /\ InstantiateConstants(p, n) = f[n]
  BY ZenonT(40), InstantiateSteps
<1> DEFINE S == {k \in 0 .. n : f[k] = p}
<1>2. 0 \in S
  BY <1>1
<1>3. ASSUME NEW k \in 1 .. n, k - 1 \in S PROVE k \in S
  <2>1. f[k - 1] = p /\ k \in 0 .. n
    BY <1>3
  <2> QED
    BY <2>1, <1>1 DEF Then
<1>4. n \in S
  <2> HIDE DEF S
  <2>1. \A k \in 0 .. n : k \in S
    BY <1>2, <1>3, UpTo
  <2> QED
    BY <2>1
<1> QED
  BY <1>1, <1>4

\* What Compile_LoopOrBlock does before the block begins.
LEMMA LoopOrBlockIs ==
  ASSUME IInv, "fp_results" \notin Allowed, NEW opcode \in {"block", "loop"}, NEW type \in BlockTypes,
         LoopOrBlock(opcode, type)
  PROVE  LET n == Len(type.params)
             p == PreserveArgsAndLocals(PreserveRegisters(o))
             label == IF opcode = "loop" THEN n ELSE Len(type.results)
             q == IF opcode = "loop" THEN InstantiateConstants(p, n) ELSE p
             u == IF q.failed THEN q ELSE EnterBlock(q, opcode, type) IN
         /\ n \in Nat /\ OK(p) /\ (opcode = "loop" /\ ~p.failed => n <= BlockHeight(p))
         /\ OK(q) /\ Frame(o, q) /\ MayEnter(q, type)
         /\ ~q.failed => MayEnterBlock(q, opcode, type)
         /\ Compiling /\ Step(u, EnterLabel(w, n, label))
<1> DEFINE n == Len(type.params)
           a == PreserveRegisters(o)
           p == PreserveArgsAndLocals(a)
           label == IF opcode = "loop" THEN n ELSE Len(type.results)
           q == IF opcode = "loop" THEN InstantiateConstants(p, n) ELSE p
           e == EnterBlock(q, opcode, type)
           u == IF q.failed THEN q ELSE e
           x == EnterLabel(w, n, label)
<1>1. TypesOnTop(type.params) /\ MayEnter(q, type) /\ Step(u, x)
  BY DEF LoopOrBlock, Then
<1>2. OK(o) /\ ~o.failed /\ Compiling
  BY <1>1, Now DEF TypesOnTop
<1>3. type.params \in Seq(ValueType) /\ n \in Nat
  BY SignatureAssumption
<1>4. OnTop(o, type.params)
  BY <1>1, <1>3, NowOnTop
<1>6. OK(a) /\ Frame(o, a) /\ Moved(o, a) /\ (~a.failed => \A r \in Registers : a.reg[r] = 0)
  BY <1>2, PreserveBoth
<1> HIDE DEF a
<1>7. OK(p) /\ Frame(a, p) /\ Moved(a, p)
  BY <1>6, PreserveLocalsOK
<1> HIDE DEF p
<1>8. Frame(o, p) /\ Moved(o, p)
  BY <1>6, <1>7, MovedTwice DEF Frame
<1>5. opcode = "loop" /\ ~p.failed => n <= BlockHeight(p)
  <2> SUFFICES ASSUME ~p.failed PROVE n <= BlockHeight(p)
    OBVIOUS
  <2>1. OnTop(p, type.params)
    BY <1>2, <1>3, <1>4, <1>7, <1>8, OnTopMoved
  <2>2. BlockHeight(p) \in Nat
    BY <1>7, Height
  <2> QED
    BY <2>1, <2>2, <1>3 DEF OnTop
<1>9. OK(q) /\ Frame(p, q) /\ (~p.failed => Moved(p, q))
  <2>1. CASE opcode # "loop"
    BY <2>1, <1>7, SelfMoved
  <2>2. CASE opcode = "loop" /\ ~p.failed
    <3> DEFINE b == InstantiateConstants(p, n)
    <3>2. OK(b) /\ Frame(p, b) /\ Moved(p, b)
      BY <2>2, <1>5, <1>3, <1>7, InstantiateConstantsOK
    <3> QED
      BY <3>2, <2>2
  <2>3. CASE opcode = "loop" /\ p.failed
    <3>1. q = p
      BY <2>3, <1>3, InstantiateFailed
    <3> HIDE DEF q
    <3> QED
      BY <3>1, <2>3, <1>7, SelfMoved
  <2> QED
    BY <2>1, <2>2, <2>3
<1> HIDE DEF q, n
<1>10. OK(q) /\ Frame(o, q)
  BY <1>8, <1>9 DEF Frame
<1>11. ASSUME ~q.failed PROVE MayEnterBlock(q, opcode, type)
  <2>1. ~p.failed /\ ~a.failed /\ Moved(p, q)
    BY <1>11, <1>7, <1>9 DEF Frame, Moved
  <2>2. Moved(o, q) /\ Moved(a, q)
    BY <2>1, <1>7, <1>8, MovedTwice
  <2>3. \A r \in Registers : q.reg[r] = 0
    BY <2>1, <2>2, <1>6, <1>11, StaysFree
  <2>4. OnTop(q, type.params)
    BY <2>2, <1>2, <1>3, <1>4, <1>10, <1>11, OnTopMoved
  <2>5. FpLast(type.results) => Len(type.results) = 1
    BY <1>1, MayEnterFacts
  <2> QED
    BY <2>3, <2>4, <2>5, <1>10, <1>11 DEF MayEnterBlock
<1> HIDE DEF u, e, x
<1> QED
  BY <1>1, <1>2, <1>3, <1>5, <1>7, <1>10, <1>11 DEF q, p, a, n, u, e, x

\* Compile_LoopOrBlock, where the block begins
LEMMA LoopOrBlockStep ==
  ASSUME IInv, "fp_results" \notin Allowed, NEW opcode \in {"block", "loop"}, NEW type \in BlockTypes,
         LoopOrBlock(opcode, type)
  PROVE  IInv'
<1> DEFINE n == Len(type.params)
           p == PreserveArgsAndLocals(PreserveRegisters(o))
           label == IF opcode = "loop" THEN n ELSE Len(type.results)
           q == IF opcode = "loop" THEN InstantiateConstants(p, n) ELSE p
           e == EnterBlock(q, opcode, type)
           u == IF q.failed THEN q ELSE e
           x == EnterLabel(w, n, label)
<1>1. OK(q) /\ Frame(o, q) /\ (~q.failed => MayEnterBlock(q, opcode, type)) /\ Compiling /\ Step(u, x)
  BY LoopOrBlockIs
<1>2. SkipOk(o) /\ MachineOk(w)
  BY <1>1, Now
<1>3. MachineOk(x)
  BY <1>2, EnterLabelOK
<1> HIDE DEF x, q, p
<1>4. CASE q.failed
  <2>1. u = q
    BY <1>4
  <2> QED
    BY <2>1, <1>1, <1>3, SameSkip, StepOK
<1>5. CASE ~q.failed
  <2>1. SkipOk(q)
    BY <1>1, <1>2 DEF SkipOk, Frame
  <2>2. Went(e)
    BY <1>1, <1>5, <2>1, EnteredWent
  <2>3. u = e
    BY <1>5
  <2> HIDE DEF u, e
  <2> QED
    BY <2>2, <2>3, <1>1, <1>3, StepOK
<1> QED
  BY <1>4, <1>5

\* Execution may go on elsewhere.
Held(p) ==
  /\ p.failed \in BOOLEAN /\ p.ignored \in BOOLEAN /\ p.wild = FALSE
  /\ ~p.failed /\ ~p.ignored => OK(p)

\* Execution goes on somewhere else.
LEMMA SkipTo ==
  ASSUME NEW p, Held(p), NEW skip, skip \in {"no", "end", "else", "loop", "return"}, NEW to,
         ~p.failed /\ ~p.ignored => to \in 0 .. Len(p.blocks) /\ (skip = "no" => to = 0)
  PROVE  Went(GoOn(p, skip, to))
<1> DEFINE q == GoOn(p, skip, to)
<1>1. q.failed = p.failed /\ q.ignored = p.ignored /\ q.wild = p.wild
  BY DEF GoOn
<1>2. ASSUME ~p.failed, ~p.ignored PROVE OK(q) /\ SkipOk(q)
  <2>1. OK(p)
    BY <1>2 DEF Held
  <2>2. OK(q) /\ q.skip = skip /\ q.to = to /\ q.blocks = p.blocks
    BY <2>1, WithSkip
  <2> HIDE DEF q
  <2> QED
    BY <2>2, <1>2 DEF SkipOk
<1> HIDE DEF q
<1>3. Went(q)
  BY <1>1, <1>2 DEF Held, Went
<1> QED
  BY <1>3 DEF q

\* What Compile_If does before the block begins: the condition goes.
LEMMA IfIs ==
  ASSUME IInv, "fp_results" \notin Allowed, NEW type \in BlockTypes, NEW taken \in BOOLEAN, If(type, taken)
  PROVE  LET p == PreserveArgsAndLocals(PreserveNonTopRegisters(o))
             b == Observed(p, 1)
             c == Pop(b)
             q == IF p.failed THEN p ELSE c
             e == EnterBlock(q, "if", type)
             u == IF q.failed THEN q ELSE IF taken \/ e.ignored THEN e ELSE GoOn(e, "else", Len(e.blocks))
             x == EnterLabel([w EXCEPT !.vals = Under(1)], Len(type.params), Len(type.results)) IN
         /\ OK(p) /\ Frame(o, p) /\ MayEnter(q, type) /\ Compiling /\ Step(u, x)
         /\ ~p.failed => /\ OK(b) /\ OK(c) /\ Frame(o, c) /\ ~c.failed
                         /\ MayEnterBlock(c, "if", type)
<1> DEFINE T == Append(type.params, "i32")
           a == PreserveNonTopRegisters(o)
           p == PreserveArgsAndLocals(a)
           b == Observed(p, 1)
           c == Pop(b)
           q == IF p.failed THEN p ELSE c
           e == EnterBlock(q, "if", type)
           u == IF q.failed THEN q ELSE IF taken \/ e.ignored THEN e ELSE GoOn(e, "else", Len(e.blocks))
           x == EnterLabel([w EXCEPT !.vals = Under(1)], Len(type.params), Len(type.results))
<1>1. TypesOnTop(type.params \o <<"i32">>) /\ MayEnter(q, type) /\ Step(u, x)
  BY DEF If, Then, GoOn
<1>2. OK(o) /\ ~o.failed /\ Compiling
  BY <1>1, Now DEF TypesOnTop
<1>3. type.params \in Seq(ValueType) /\ T \in Seq(ValueType) /\ "i32" \in ValueType
      /\ T = type.params \o <<"i32">>
  <2>1. type.params \in Seq(ValueType) /\ "i32" \in ValueType
    BY SignatureAssumption DEF ValueType
  <2> QED
    BY <2>1
<1>4. OnTop(o, T)
  BY <1>1, <1>3, NowOnTop
<1>6. OK(a) /\ Frame(o, a) /\ Moved(o, a) /\ (~a.failed => \A r \in Registers : a.reg[r] \in {0, Len(a.stack)})
  BY <1>2, PreserveOthers
<1> HIDE DEF a
<1>7. OK(p) /\ Frame(a, p) /\ Moved(a, p)
  BY <1>6, PreserveLocalsOK
<1> HIDE DEF p
<1>8. Frame(o, p) /\ Moved(o, p)
  BY <1>6, <1>7, MovedTwice DEF Frame
<1>10. ASSUME ~p.failed
       PROVE  OK(b) /\ OK(c) /\ Frame(o, c) /\ ~c.failed /\ MayEnterBlock(c, "if", type)
  <2>1. OnTop(p, T)
    BY <1>2, <1>3, <1>4, <1>8, <1>10, OnTopMoved
  <2>2. OK(b) /\ Frame(p, b) /\ b.failed = p.failed /\ b.stack = p.stack /\ b.reg = p.reg
    BY <1>7, ObservedOK DEF Observed
  <2> HIDE DEF b, T
  <2>3. OnTop(b, T)
    BY <2>1, <2>2 DEF OnTop, BlockHeight, Block, Frame
  <2>4. BlockHeight(b) >= 1
    <3>1. Len(T) \in Nat /\ Len(T) >= 1
      BY <1>3 DEF T
    <3>2. BlockHeight(b) \in Nat
      BY <2>2, Height
    <3> QED
      BY <2>3, <3>1, <3>2 DEF OnTop
  <2>5. OK(c) /\ Frame(b, c) /\ ~c.failed /\ Popped(b, c, 1)
    BY <2>2, <2>4, <1>10, PopTop
  <2> HIDE DEF c
  <2>6. \A r \in Registers : c.reg[r] = 0
    <3> TAKE r \in Registers
    <3>1. ~a.failed
      BY <1>7, <1>10 DEF Frame
    <3>2. p.reg[r] \in {0, a.reg[r]} /\ Len(p.stack) = Len(a.stack)
      BY <1>7, <1>10 DEF Moved
    <3>3. b.reg[r] = 0 \/ b.reg[r] = Len(b.stack)
      BY <3>1, <3>2, <2>2, <1>6
    <3>4. Len(b.stack) \in Nat
      BY <2>2, Height
    <3>5. b.reg[r] = 0 \/ b.reg[r] > Len(b.stack) - 1
      BY <3>3, <3>4
    <3> QED
      BY <3>5, <2>2, <2>4, <2>5, FreeAfter
  <2>7. OnTop(c, type.params)
    BY <2>2, <2>3, <2>5, <1>3, OnTopPopped DEF T
  <2>8. FpLast(type.results) => Len(type.results) = 1
    BY <1>1, MayEnterFacts
  <2>9. MayEnterBlock(c, "if", type)
    BY <2>5, <2>6, <2>7, <2>8 DEF MayEnterBlock
  <2>10. Frame(o, c)
    BY <1>8, <2>2, <2>5 DEF Frame
  <2> QED
    BY <2>2, <2>5, <2>9, <2>10
<1> HIDE DEF u, e, x, q, c, b
<1> QED
  BY <1>1, <1>2, <1>7, <1>8, <1>10 DEF u, e, x, q, c, b, p, a

\* Compile_If, where the block begins
LEMMA IfStep ==
  ASSUME IInv, "fp_results" \notin Allowed, NEW type \in BlockTypes, NEW taken \in BOOLEAN, If(type, taken)
  PROVE  IInv'
<1> DEFINE p == PreserveArgsAndLocals(PreserveNonTopRegisters(o))
           b == Observed(p, 1)
           c == Pop(b)
           q == IF p.failed THEN p ELSE c
           e == EnterBlock(q, "if", type)
           u == IF q.failed THEN q ELSE IF taken \/ e.ignored THEN e ELSE GoOn(e, "else", Len(e.blocks))
           x == EnterLabel([w EXCEPT !.vals = Under(1)], Len(type.params), Len(type.results))
<1>1. /\ OK(p) /\ Frame(o, p) /\ Compiling /\ Step(u, x)
      /\ ~p.failed => OK(c) /\ Frame(o, c) /\ ~c.failed /\ MayEnterBlock(c, "if", type)
  BY IfIs
<1>2. SkipOk(o) /\ MachineOk(w)
  BY <1>1, Now
<1>3. MachineOk(x)
  BY <1>2, EnterLabelOK, Machines
<1> HIDE DEF x, c, p
<1>4. CASE p.failed
  <2>1. u = p
    BY <1>4
  <2> HIDE DEF u
  <2> QED
    BY <2>1, <1>1, <1>3, SameSkip, StepOK
<1>5. CASE ~p.failed
  <2>1. q = c
    BY <1>5
  <2> HIDE DEF q
  <2>2. SkipOk(c)
    BY <1>1, <1>2, <1>5 DEF SkipOk, Frame
  <2>3. Went(e) /\ (~e.ignored => OK(e)) /\ Held(e)
    BY <1>1, <1>5, <2>1, <2>2, EnteredWent, EnteredHeld DEF Held
  <2> HIDE DEF e
  <2>4. Went(u)
    <3>1. CASE taken \/ e.ignored
      BY <3>1, <1>1, <1>5, <2>1, <2>3
    <3>2. CASE ~taken /\ ~e.ignored
      <4> DEFINE k == Len(e.blocks)
      <4>1. k \in Nat
        BY <2>3, <3>2, ScopeFacts DEF OK
      <4>2. k \in 0 .. k
        BY <4>1
      <4> HIDE DEF k
      <4>3. Went(GoOn(e, "else", k))
        BY <4>2, <2>3, SkipTo DEF k
      <4> QED
        BY <4>3, <3>2, <1>1, <1>5, <2>1 DEF k
    <3> QED
      BY <3>1, <3>2
  <2> HIDE DEF u
  <2> QED
    BY <2>4, <1>1, <1>3, StepOK
<1> QED
  BY <1>4, <1>5

-----------------------------------------------------------------------------
(* The end of a block                                                      *)

\* The end of a block, and what it leaves.
LEMMA EndFacts ==
  ASSUME IInv, AtBlockEnd
  PROVE  LET p == LeaveBlock(o)
             k == Len(o.blocks) IN
         /\ OK(o) /\ ~o.failed /\ ~o.ignored /\ SkipOk(o) /\ MachineOk(w)
         /\ k \in Nat /\ k >= 2 /\ Block(o) = o.blocks[k]
         /\ OK(p) /\ Frame(o, p)
         /\ \A m \in 0 .. Len(Block(o).type.params) : ~p.failed => MayCut(p, m)
<1> DEFINE p == LeaveBlock(o)
           k == Len(o.blocks)
           T == Block(o).type.results
<1>1. /\ OK(o) /\ ~o.failed /\ ~o.ignored /\ SkipOk(o) /\ MachineOk(w)
  BY Now DEF AtBlockEnd
<1>2. k \in Nat /\ k >= 2 /\ k - 1 > 0 /\ k \in 1 .. k
  <2>1. k \in Nat
    BY <1>1, ScopeFacts DEF OK
  <2> QED
    BY <2>1 DEF AtBlockEnd, Depth
<1>3. Block(o) = o.blocks[k]
  BY DEF Block, Last
<1>4. T \in Seq(ValueType)
  BY <1>1, <1>2, <1>3, ScopeFacts DEF OK
<1>5. ~Block(o).poly => BlockHeight(o) = Len(T) /\ OnTop(o, T)
  BY <1>4, NowOnTop DEF AtBlockEnd
<1>6. OK(p) /\ Frame(o, p) /\ (~p.failed => Len(p.stack) = Base(p.blocks))
  BY <1>1, <1>2, <1>5, LeaveBlockOK
<1> HIDE DEF p, T
<1>7. p.blocks = o.blocks /\ Last(p.blocks) = Block(o)
  BY <1>6 DEF Frame, Block
<1>8. \A m \in 0 .. Len(Block(o).type.params) : ~p.failed => MayCut(p, m)
  BY <1>2, <1>6, <1>7 DEF MayCut
<1> QED
  BY <1>1, <1>2, <1>3, <1>6, <1>8 DEF p

\* What CompileElseBlock does: the if block ends, and another begins in its place.
LEMMA ElseIs ==
  ASSUME IInv, Else
  PROVE  LET b == Block(o)
             k == Len(o.blocks)
             p == LeaveBlock(o)
             n == Len(b.type.params)
             c == Cut(p, n)
             e == EnterBlock(c, "else", b.type)
             f == CASE o.skip = "no" -> GoOn(e, "end", k)
                    [] o.skip = "else" /\ o.to = k -> GoOn(e, "no", 0)
                    [] OTHER -> e IN
         /\ AtBlockEnd /\ Step(IF p.failed THEN p ELSE f, ExitLabel(w))
         /\ ~p.failed => /\ MayCut(p, n) /\ Last(p.blocks) = b /\ MayEnterBlock(c, "else", b.type)
                         /\ c.skip = o.skip /\ c.to = o.to /\ Len(c.blocks) + 1 = k
<1> DEFINE b == Block(o)
           k == Len(o.blocks)
           p == LeaveBlock(o)
           n == Len(b.type.params)
           c == [p EXCEPT !.blocks = Front(@), !.stack = SubSeq(@, 1, b.exit + n)]
           e == EnterBlock(c, "else", b.type)
           f == CASE o.skip = "no" -> GoOn(e, "end", k)
                  [] o.skip = "else" /\ o.to = k -> GoOn(e, "no", 0)
                  [] OTHER -> e
           u == IF p.failed THEN p ELSE f
           x == ExitLabel(w)
<1>1. AtBlockEnd /\ Step(u, x)
  BY DEF Else, Then, GoOn
<1>2. /\ OK(o) /\ ~o.failed /\ ~o.ignored /\ SkipOk(o) /\ MachineOk(w)
      /\ k \in Nat /\ k >= 2 /\ b = o.blocks[k]
      /\ OK(p) /\ Frame(o, p)
      /\ \A m \in 0 .. n : ~p.failed => MayCut(p, m)
  BY <1>1, EndFacts
<1> HIDE DEF x, p
<1>5. ASSUME ~p.failed
      PROVE  /\ MayCut(p, n) /\ Last(p.blocks) = b /\ MayEnterBlock(c, "else", b.type) /\ c = Cut(p, n)
             /\ c.skip = o.skip /\ c.to = o.to /\ Len(c.blocks) + 1 = k
  <2>0. p.blocks = o.blocks /\ Last(p.blocks) = b
    BY <1>2 DEF Frame, Block
  <2>1. k \in 1 .. k /\ k \in 2 .. k /\ BlocksOk(o.blocks)
    BY <1>2 DEF OK
  <2>2. b.type.params \in Seq(ValueType) /\ n \in Nat /\ b.exit \in Nat /\ b.type \in BlockTypes
        /\ (FpLast(b.type.results) => Len(b.type.results) = 1)
    <3>1. b.type.params \in Seq(ValueType) /\ b.exit \in Nat
      BY <2>1, <1>2, ScopeFacts
    <3>2. b.type \in BlockTypes /\ (FpLast(b.type.results) => Len(b.type.results) = 1)
      BY <2>1, <1>2 DEF BlocksOk
    <3> QED
      BY <3>1, <3>2
  <2>3. MayCut(p, n)
    BY <2>2, <1>2, <1>5
  <2>4. c = Cut(p, n)
    BY <2>0 DEF Cut
  <2>5. /\ OK(c) /\ ~c.failed /\ c.blocks = Front(o.blocks)
        /\ c.stack = SubSeq(p.stack, 1, b.exit + n)
        /\ \A r \in Registers : c.reg[r] = 0
        /\ c.skip = o.skip /\ c.to = o.to
    <3>1. LET q == Cut(p, n) IN
          /\ OK(q) /\ ~q.failed /\ q.blocks = Front(p.blocks)
          /\ q.stack = SubSeq(p.stack, 1, Last(p.blocks).exit + n)
          /\ \A r \in Registers : q.reg[r] = 0
          /\ q.skip = p.skip /\ q.to = p.to /\ q.ignored = p.ignored
          /\ q.firstConst = p.firstConst /\ q.firstDynamic = p.firstDynamic
      BY <2>3, CutOK
    <3>2. p.skip = o.skip /\ p.to = o.to
      BY <1>2 DEF Frame
    <3> HIDE DEF c, b, n, k
    <3> QED
      BY <3>1, <3>2, <2>0, <2>4
  <2> HIDE DEF c
  <2>6. /\ Len(c.stack) = b.exit + n /\ \A i \in 1 .. b.exit + n : c.stack[i] = p.stack[i]
    <3>1. LET new == SubSeq(p.stack, 1, Last(p.blocks).exit + n) IN
         /\ Sound(new, p.reg, Front(p.blocks), p.firstConst)
         /\ StackOk(new) /\ Len(new) = Last(p.blocks).exit + n
         /\ \A i \in 1 .. Last(p.blocks).exit + n : new[i] = p.stack[i]
      BY <2>3, CutSound
    <3> HIDE DEF b, n, k
    <3> QED
      BY <3>1, <2>0, <2>5
  <2>7. Len(c.blocks) = k - 1 /\ Base(c.blocks) <= b.exit /\ Base(c.blocks) \in Nat
    <3>1. /\ Len(Front(o.blocks)) = k - 1 /\ Base(Front(o.blocks)) <= Last(o.blocks).exit
      BY <2>1, <1>2, FrontBlocks
    <3>2. Base(c.blocks) \in Nat
      BY <2>5, ScopeFacts DEF OK
    <3> HIDE DEF k
    <3> QED
      BY <3>1, <3>2, <2>5 DEF Block
  <2> HIDE DEF b, n, k
  <2>8. OnTop(c, b.type.params)
    <3>1. RecordsOk(p.stack, b)
      <4>1. \A j \in 2 .. Len(p.blocks) : RecordsOk(p.stack, p.blocks[j])
        BY <1>2, <1>5 DEF OK, Sound
      <4>2. p.blocks[k] = b /\ k \in 2 .. Len(p.blocks)
        BY <2>0, <2>1, <1>2 DEF k
      <4> QED
        BY <4>1, <4>2
    <3>2. \A j \in 1 .. n : p.stack[b.exit + j].type = b.type.params[j]
      BY <3>1 DEF RecordsOk, n
    <3> DEFINE d == b.exit
    <3>3. d \in Nat /\ n \in Nat
      BY <2>2
    <3>4. \A j \in 1 .. n : c.stack[d + j].type = b.type.params[j]
      <4> TAKE j \in 1 .. n
      <4> HIDE DEF d
      <4>1. d + j \in 1 .. d + n
        BY <3>3
      <4>2. c.stack[d + j] = p.stack[d + j]
        BY <4>1, <2>6 DEF d
      <4> QED
        BY <4>2, <3>2 DEF d
    <3>5. Len(c.stack) = d + n /\ Base(c.blocks) <= d
      BY <2>6, <2>7
    <3> HIDE DEF d
    <3>6. BlockHeight(c) >= n
      <4>1. BlockHeight(c) = Len(c.stack) - Base(c.blocks)
        BY <2>5, Height
      <4> QED
        BY <4>1, <3>3, <3>5, <2>7
    <3>7. \A j \in 1 .. n : Len(c.stack) - n + j = d + j
      BY <3>3, <3>5
    <3>8. \A j \in 1 .. n : c.stack[Len(c.stack) - n + j].type = b.type.params[j]
      BY <3>4, <3>7
    <3> QED
      BY <3>6, <3>8 DEF OnTop, n
  <2>9. MayEnterBlock(c, "else", b.type)
    BY <2>2, <2>5, <2>8 DEF MayEnterBlock
  <2>10. Len(c.blocks) + 1 = k
    <3>1. Len(c.blocks) = k - 1 /\ k \in Nat
      BY <2>7, <1>2
    <3> HIDE DEF k
    <3> QED
      BY <3>1
  <2> QED
    BY <2>0, <2>3, <2>4, <2>5, <2>9, <2>10
<1> DEFINE d == Cut(p, n)
           ed == EnterBlock(d, "else", b.type)
           fd == CASE o.skip = "no" -> GoOn(ed, "end", k)
                   [] o.skip = "else" /\ o.to = k -> GoOn(ed, "no", 0)
                   [] OTHER -> ed
<1>6. Step(IF p.failed THEN p ELSE fd, x)
  <2>1. CASE p.failed
    <3>1. u = p /\ (IF p.failed THEN p ELSE fd) = p
      BY <2>1
    <3> HIDE DEF u
    <3> QED
      BY <3>1, <1>1
  <2>2. CASE ~p.failed
    <3>1. c = d
      BY <1>5, <2>2
    <3> HIDE DEF c, d
    <3>2. u = (IF p.failed THEN p ELSE fd)
      BY <3>1
    <3> HIDE DEF u, fd
    <3> QED
      BY <3>2, <1>1
  <2> QED
    BY <2>1, <2>2
<1> HIDE DEF u, f, e, c
<1>7. ~p.failed => /\ MayCut(p, n) /\ Last(p.blocks) = b /\ MayEnterBlock(d, "else", b.type)
                   /\ d.skip = o.skip /\ d.to = o.to /\ Len(d.blocks) + 1 = k
  <2> HIDE DEF d
  <2> QED
    BY <1>5 DEF d
<1> QED
  BY <1>1, <1>6, <1>7 DEF p, x

\* CompileElseBlock
LEMMA ElseStep ==
  ASSUME IInv, Else
  PROVE  IInv'
<1> DEFINE b == Block(o)
           k == Len(o.blocks)
           p == LeaveBlock(o)
           n == Len(b.type.params)
           c == Cut(p, n)
           e == EnterBlock(c, "else", b.type)
           f == CASE o.skip = "no" -> GoOn(e, "end", k)
                  [] o.skip = "else" /\ o.to = k -> GoOn(e, "no", 0)
                  [] OTHER -> e
           u == IF p.failed THEN p ELSE f
           x == ExitLabel(w)
<1>1. /\ AtBlockEnd /\ Step(u, x)
      /\ ~p.failed => /\ MayEnterBlock(c, "else", b.type)
                      /\ c.skip = o.skip /\ c.to = o.to /\ Len(c.blocks) + 1 = k
  BY ElseIs
<1>2. /\ OK(o) /\ SkipOk(o) /\ MachineOk(w) /\ k \in Nat /\ OK(p) /\ Frame(o, p)
  BY <1>1, EndFacts
<1>3. MachineOk(x)
  BY <1>2, EnterLabelOK
<1> HIDE DEF x, p, k, c, n, b
<1>4. CASE p.failed
  <2>1. u = p
    BY <1>4
  <2> HIDE DEF u
  <2> QED
    BY <2>1, <1>1, <1>2, <1>3, SameSkip, StepOK
<1>5. CASE ~p.failed
  <2>1. Held(e) /\ (~e.ignored => e.skip = o.skip /\ e.to = o.to /\ Len(e.blocks) = k)
    <3>0. LET q == EnterBlock(c, "else", b.type) IN
         /\ q.failed \in BOOLEAN /\ q.ignored \in BOOLEAN /\ q.wild = FALSE
         /\ ~q.ignored => OK(q) /\ q.skip = c.skip /\ q.to = c.to
                          /\ Len(q.blocks) = Len(c.blocks) + 1
      BY ZenonT(40), <1>1, <1>5, EnteredHeld
    <3>1. Held(e) /\ (~e.ignored => e.skip = c.skip /\ e.to = c.to /\ Len(e.blocks) = Len(c.blocks) + 1)
      BY <3>0 DEF Held
    <3> HIDE DEF e
    <3> QED
      BY <3>1, <1>1, <1>5
  <2> HIDE DEF e
  <2>2. Went(f)
    <3>1. CASE o.skip = "no"
      <4>1. f = GoOn(e, "end", k)
        BY <3>1
      <4>2. k \in 0 .. k
        BY <1>2
      <4> QED
        BY <4>1, <4>2, <2>1, SkipTo
    <3>2. CASE o.skip = "else" /\ o.to = k
      <4>1. f = GoOn(e, "no", 0)
        BY <3>2
      <4>2. 0 \in 0 .. k
        BY <1>2
      <4> QED
        BY <4>1, <4>2, <2>1, SkipTo
    <3>3. CASE o.skip # "no" /\ ~(o.skip = "else" /\ o.to = k)
      <4>1. f = e
        BY <3>3
      <4>2. ~e.ignored => SkipOk(e)
        BY <2>1, <1>2 DEF SkipOk, k
      <4> QED
        BY <4>1, <4>2, <2>1 DEF Held, Went
    <3> QED
      BY <3>1, <3>2, <3>3
  <2>3. u = f
    BY <1>5
  <2> HIDE DEF u, f
  <2> QED
    BY <2>2, <2>3, <1>1, <1>3, StepOK
<1> QED
  BY <1>4, <1>5

\* At the end of an if block without results its parameters stay on the stack.
LEMMA EndOfIf ==
  ASSUME NEW p, NEW n, MayCut(p, n), n = Len(Last(p.blocks).type.params),
         Last(p.blocks).type.results = <<>>
  PROVE  WithBlocks(p, Front(p.blocks)) = Cut(p, n)
<1> DEFINE b == Last(p.blocks)
           k == Len(p.blocks)
           c == SubSeq(p.stack, 1, b.exit + n)
<1>1. OK(p) /\ ~p.failed /\ k >= 2 /\ k \in Nat /\ Len(p.stack) = Base(p.blocks) /\ b = p.blocks[k]
  BY CutFacts DEF MayCut
<1>3. b.exit \in Nat /\ n \in Nat
  BY CutFacts
<1>2. b.base = b.exit + n
  <2>1. k \in 2 .. k
    BY <1>1
  <2>2. p.blocks[k].base = p.blocks[k].exit + Len(p.blocks[k].type.params) + Len(p.blocks[k].type.results)
    BY <1>1, <2>1 DEF OK, BlocksOk
  <2>3. Len(b.type.results) = 0
    OBVIOUS
  <2>4. b.base = b.exit + n + Len(b.type.results)
    BY <2>2, <1>1
  <2> DEFINE e == b.exit
  <2>5. b.base = e + n + 0
    BY <2>3, <2>4
  <2>6. e \in Nat
    BY <1>3
  <2> HIDE DEF e
  <2>7. e + n + 0 = e + n
    BY <2>6, <1>3
  <2> QED
    BY <2>5, <2>7 DEF e
<1>4. Base(p.blocks) = b.base
  BY <1>1 DEF Base
<1> HIDE DEF b, k
<1>5. Len(p.stack) = b.exit + n
  BY <1>1, <1>2, <1>3, <1>4
<1>6. c = p.stack
  <2>1. p.stack \in Seq(Item)
    BY <1>1, Height
  <2> QED
    BY <2>1, <1>5, SubSeqFull
<1> HIDE DEF c
<1>7. Cut(p, n) = [p EXCEPT !.blocks = Front(p.blocks), !.stack = c]
  BY DEF Cut, c, b
<1>8. DOMAIN p = Fields
  BY <1>1 DEF OK, Typed
<1> QED
  BY <1>6, <1>7, <1>8 DEF WithBlocks, Fields

\* At the end of others the results are pushed, in place of the records.
Shortened(p) == [p EXCEPT !.stack = SubSeq(@, 1, Last(p.blocks).exit)]

LEMMA EndOfOthers ==
  ASSUME NEW p, MayCut(p, 0), NEW results, results \in Seq(ValueType)
  PROVE  LET y == PushBlockResults(Shortened(p), results)
             z == WithBlocks(y, Front(p.blocks)) IN
         /\ y.blocks = p.blocks
         /\ OK(z) /\ z.blocks = Front(p.blocks)
         /\ z.skip = p.skip /\ z.to = p.to /\ z.ignored = p.ignored
<1> DEFINE s == Shortened(p)
           F == Front(p.blocks)
           c == Cut(p, 0)
           y == PushBlockResults(s, results)
           z == WithBlocks(y, F)
           a == PushBlockResults(c, results)
<1>1. OK(p) /\ DOMAIN p = Fields
  BY DEF MayCut, OK, Typed
<1>2. /\ OK(c) /\ ~c.failed /\ c.blocks = F
      /\ \A r \in Registers : c.reg[r] = 0
      /\ c.skip = p.skip /\ c.to = p.to /\ c.ignored = p.ignored
  BY CutOK
<1>3. DOMAIN s = Fields /\ s.blocks = p.blocks
  BY <1>1 DEF Shortened, Fields
<1>4. WithBlocks(s, F) = c
  <2>1. Last(p.blocks).exit + 0 = Last(p.blocks).exit
    BY CutFacts
  <2> QED
    BY <2>1, <1>1 DEF WithBlocks, Shortened, Cut, Fields
<1>5. WithBlocks(s, p.blocks) = s
  BY <1>3 DEF WithBlocks, Fields, Shortened
<1>6. Len(results) \in Nat
  BY LenProperties
<1> HIDE DEF s, F, c
<1>7. a = z
  BY <1>3, <1>4, <1>6, PushResultsWith
<1>8. y = WithBlocks(y, p.blocks)
  <2>1. PushBlockResults(WithBlocks(s, p.blocks), results) = WithBlocks(PushBlockResults(s, results), p.blocks)
    BY <1>3, <1>6, PushResultsWith
  <2> QED
    BY <2>1, <1>5
<1>9. MayPushResults(c, results)
  BY <1>2, Numbers DEF MayPushResults
<1>10. OK(a) /\ Frame(c, a)
  BY <1>9, PushBlockResultsOK DEF PushedResults
<1> HIDE DEF y, a
<1>11. OK(z) /\ z.blocks = F /\ z.skip = p.skip /\ z.to = p.to /\ z.ignored = p.ignored
  <2> HIDE DEF z
  <2> QED
    BY <1>2, <1>7, <1>10 DEF Frame
<1>12. y.blocks = p.blocks
  <2>1. DOMAIN z = Fields
    BY <1>11 DEF OK, Typed
  <2>2. DOMAIN y = Fields
    BY <2>1 DEF WithBlocks
  <2> QED
    BY <2>2, <1>8 DEF WithBlocks, Fields
<1> QED
  BY <1>11, <1>12 DEF y, s, F

\* What the end of a block does: its scope goes, its results are pushed, and execution that was to go
\* on behind it goes on.
LEMMA EndIs ==
  ASSUME IInv, End
  PROVE  LET b == Block(o)
             k == Len(o.blocks)
             p == LeaveBlock(o)
             resumes == o.skip # "no" /\ o.to = k
             y == IF b.opcode = "if" THEN p ELSE PushBlockResults(Shortened(p), b.type.results)
             z == WithBlocks(y, Front(p.blocks))
             g == GoOn(z, IF resumes THEN "no" ELSE o.skip, IF resumes THEN 0 ELSE o.to) IN
         /\ AtBlockEnd
         /\ Advance(IF p.failed THEN p ELSE g,
                    IF Running \/ (resumes /\ o.skip = "else") THEN ExitLabel(w) ELSE w)
         /\ b.opcode = "if" => b.type.params = <<>> /\ b.type.results = <<>>
         /\ b.type.results \in Seq(ValueType)
         /\ ~p.failed => /\ Last(p.blocks) = b /\ MayCut(p, 0) /\ OK(z) /\ Len(z.blocks) = k - 1
<1> DEFINE b == Block(o)
           k == Len(o.blocks)
           p == LeaveBlock(o)
           n == Len(b.type.params)
           R == b.type.results
           resumes == o.skip # "no" /\ o.to = k
           s == [p EXCEPT !.stack = SubSeq(@, 1, b.exit)]
           y0 == IF b.opcode = "if" THEN p ELSE PushBlockResults(s, R)
           v == [y0 EXCEPT !.blocks = Front(@), !.skip = IF resumes THEN "no" ELSE @,
                           !.to = IF resumes THEN 0 ELSE @]
           y == IF b.opcode = "if" THEN p ELSE PushBlockResults(Shortened(p), R)
           z == WithBlocks(y, Front(p.blocks))
           skip == IF resumes THEN "no" ELSE o.skip
           to == IF resumes THEN 0 ELSE o.to
           x == IF Running \/ (resumes /\ o.skip = "else") THEN ExitLabel(w) ELSE w
<1>1. AtBlockEnd /\ Advance(IF p.failed THEN p ELSE v, x)
      /\ (b.opcode = "if" => b.type.params = <<>> /\ b.type.results = <<>>)
  BY DEF End, Then
<1>2. /\ OK(o) /\ ~o.failed /\ ~o.ignored /\ SkipOk(o) /\ MachineOk(w)
      /\ k \in Nat /\ k >= 2 /\ b = o.blocks[k]
      /\ OK(p) /\ Frame(o, p)
      /\ \A m \in 0 .. n : ~p.failed => MayCut(p, m)
  BY <1>1, EndFacts
<1> HIDE DEF x, p
<1>3. R \in Seq(ValueType) /\ n \in Nat
  <2>1. k \in 1 .. k /\ BlocksOk(o.blocks)
    BY <1>2 DEF OK
  <2> QED
    BY <2>1, <1>2, ScopeFacts
<1>5. ASSUME ~p.failed
      PROVE  Last(p.blocks) = b /\ MayCut(p, 0) /\ OK(z) /\ Len(z.blocks) = k - 1 /\ v = GoOn(z, skip, to)
  <2>1. p.blocks = o.blocks /\ Last(p.blocks) = b /\ p.skip = o.skip /\ p.to = o.to
    BY <1>2 DEF Frame, Block
  <2>3. MayCut(p, n) /\ MayCut(p, 0)
    BY <1>2, <1>3, <1>5
  <2>4. Len(Front(o.blocks)) = k - 1
    BY <1>2, FrontBlocks DEF OK
  <2>a. y0 = y
    BY <2>1 DEF Shortened
  <2> HIDE DEF k, y0
  <2>5. /\ y.blocks = o.blocks /\ OK(z) /\ z.blocks = Front(o.blocks)
        /\ z.skip = o.skip /\ z.to = o.to
    <3>1. CASE b.opcode = "if"
      <4>1. y = p /\ z = WithBlocks(p, Front(p.blocks))
        BY <3>1
      <4>2. WithBlocks(p, Front(p.blocks)) = Cut(p, n)
        BY <3>1, <1>1, <2>1, <2>3, EndOfIf
      <4>3. OK(Cut(p, n)) /\ Cut(p, n).blocks = Front(p.blocks)
            /\ Cut(p, n).skip = p.skip /\ Cut(p, n).to = p.to
        BY <2>3, CutOK
      <4> HIDE DEF y, z
      <4> QED
        BY <4>1, <4>2, <4>3, <2>1
    <3>2. CASE b.opcode # "if"
      <4>1. y = PushBlockResults(Shortened(p), R)
        BY <3>2
      <4> HIDE DEF R
      <4>2. LET e == PushBlockResults(Shortened(p), R)
                g == WithBlocks(e, Front(p.blocks)) IN
            /\ e.blocks = p.blocks
            /\ OK(g) /\ g.blocks = Front(p.blocks)
            /\ g.skip = p.skip /\ g.to = p.to /\ g.ignored = p.ignored
        BY <1>3, <2>1, <2>3, EndOfOthers DEF R
      <4> HIDE DEF y
      <4> QED
        BY <4>1, <4>2, <2>1
    <3> QED
      BY <3>1, <3>2
  <2>6. v = GoOn(z, skip, to)
    <3>1. DOMAIN y = Fields
      <4>1. DOMAIN z = Fields
        BY <2>5 DEF OK, Typed
      <4> HIDE DEF y
      <4> QED
        BY SMTT(40), <4>1 DEF WithBlocks
    <3> HIDE DEF y
    <3>2. z.skip = y.skip /\ z.to = y.to
      BY <3>1 DEF WithBlocks, Fields
    <3>3. y.skip = o.skip /\ y.to = o.to
      BY <3>2, <2>5
    <3>4. v = [y EXCEPT !.blocks = Front(o.blocks), !.skip = skip, !.to = to]
      BY <2>a, <2>5, <3>3
    <3>5. z = [y EXCEPT !.blocks = Front(o.blocks)]
      BY <2>1 DEF WithBlocks
    <3> HIDE DEF skip, to, z, v
    <3> QED
      BY <3>1, <3>4, <3>5 DEF Fields, GoOn
  <2> HIDE DEF y, z, v
  <2> QED
    BY <2>1, <2>3, <2>4, <2>5, <2>6 DEF k
<1>6. (IF p.failed THEN p ELSE v) = (IF p.failed THEN p ELSE GoOn(z, skip, to))
  BY <1>5
<1> HIDE DEF z, v, skip, to
<1>7. Advance(IF p.failed THEN p ELSE GoOn(z, skip, to), x)
  BY <1>1, <1>6
<1> QED
  BY <1>1, <1>3, <1>5, <1>7 DEF b, k, p, R, resumes, y, z, skip, to, x

\* The end of a block, in Compile_LoopOrBlock and Compile_If
LEMMA EndStep ==
  ASSUME IInv, End
  PROVE  IInv'
<1> DEFINE b == Block(o)
           k == Len(o.blocks)
           p == LeaveBlock(o)
           resumes == o.skip # "no" /\ o.to = k
           y == IF b.opcode = "if" THEN p ELSE PushBlockResults(Shortened(p), b.type.results)
           z == WithBlocks(y, Front(p.blocks))
           skip == IF resumes THEN "no" ELSE o.skip
           to == IF resumes THEN 0 ELSE o.to
           u == IF p.failed THEN p ELSE GoOn(z, skip, to)
           x == IF Running \/ (resumes /\ o.skip = "else") THEN ExitLabel(w) ELSE w
<1>1. /\ AtBlockEnd /\ Advance(u, x)
      /\ ~p.failed => OK(z) /\ Len(z.blocks) = k - 1
  BY EndIs
<1>2. SkipOk(o) /\ MachineOk(w) /\ k \in Nat /\ k >= 2 /\ OK(p) /\ Frame(o, p)
  BY <1>1, EndFacts
<1>3. MachineOk(x)
  BY <1>2, EnterLabelOK
<1> HIDE DEF x, p
<1>4. CASE p.failed
  <2>1. u = p
    BY <1>4
  <2> HIDE DEF u
  <2> QED
    BY <2>1, <1>1, <1>2, <1>3, <1>4, AdvanceOK, SameSkip
<1>5. CASE ~p.failed
  <2> HIDE DEF k, z
  <2>7. skip \in {"no", "end", "else", "loop", "return"} /\ to \in 0 .. Len(z.blocks) /\ (skip = "no" => to = 0)
    <3>1. CASE resumes
      <4>1. 0 \in 0 .. k - 1
        BY <1>2
      <4> QED
        BY <4>1, <3>1, <1>1, <1>5
    <3>2. CASE ~resumes
      <4>1. skip = o.skip /\ to = o.to
        BY <3>2
      <4>2. o.skip \in {"no", "end", "else", "loop", "return"} /\ o.to \in 0 .. k /\ (o.skip = "no" => o.to = 0)
        BY <1>2 DEF SkipOk, k
      <4>3. o.to # k
        BY <4>2, <3>2, <1>2
      <4>4. o.to \in 0 .. k - 1
        BY <4>2, <4>3, <1>2
      <4> HIDE DEF resumes
      <4> QED
        BY <4>1, <4>2, <4>4, <1>1, <1>5
    <3> QED
      BY <3>1, <3>2
  <2> HIDE DEF skip, to
  <2>8. Held(z)
    BY <1>1, <1>5 DEF Held, OK, Typed
  <2>9. Went(GoOn(z, skip, to))
    BY <2>7, <2>8, SkipTo
  <2>10. u = GoOn(z, skip, to)
    BY <1>5
  <2> HIDE DEF u
  <2> QED
    BY <2>9, <2>10, <1>1, <1>3, AdvanceOK
<1> QED
  BY <1>4, <1>5

-----------------------------------------------------------------------------
(* Branches                                                                *)

\* The values a branch to scope k takes along are on the top of the stack.
MayGo(p, k) ==
  /\ OK(p) /\ ~p.failed /\ k \in 1 .. Len(p.blocks)
  /\ OnTop(p, LabelTypes(p.blocks[k]))
  /\ p.blocks[k].opcode \notin {"loop", "func"} /\ FpLast(p.blocks[k].type.results) =>
       BlockHeight(p) = 1 /\ FpLast(Last(p.blocks).type.results)

\* The types of a label.
LEMMA LabelFacts ==
  ASSUME NEW blocks, BlocksOk(blocks), NEW k \in 1 .. Len(blocks)
  PROVE  /\ LabelTypes(blocks[k]) \in Seq(ValueType)
         /\ blocks[k].opcode = "func" <=> k = 1
<1>1. LabelTypes(blocks[k]) \in Seq(ValueType)
  BY ScopeFacts DEF LabelTypes
<1>2. blocks[k].opcode = "func" <=> k = 1
  <2>1. k = 1 \/ k \in 2 .. Len(blocks)
    BY ScopeFacts
  <2> QED
    BY <2>1 DEF BlocksOk
<1> QED
  BY <1>1, <1>2

\* The values of a branch are moved.
LEMMA MoveValuesOK ==
  ASSUME NEW p, NEW k, MayGo(p, k)
  PROVE  LET q == MoveValues(p, p.blocks[k]) IN OK(q) /\ Frame(p, q) /\ Moved(p, q)
<1> DEFINE b == p.blocks[k]
           q == MoveValues(p, b)
           r == ReturnValues(p, Len(RetTypes))
           s == ResolveBlockResults(p, b, TRUE)
<1>1. OK(p) /\ ~p.failed /\ k \in 1 .. Len(p.blocks) /\ BlocksOk(p.blocks)
  BY DEF MayGo, OK
<1>2. CASE b.opcode = "func"
  <2>1. Len(RetTypes) \in Nat /\ 2 * Len(RetTypes) <= MaxFunctionSlots
    BY Numbers, SignatureAssumption
  <2>2. OK(r) /\ Frame(p, r) /\ (~r.failed => Close(p, r))
    BY <1>1, <2>1, ReturnValuesOK
  <2>3. q = r
    BY <1>2 DEF MoveValues
  <2> HIDE DEF q, r
  <2>4. Moved(p, r)
    <3>1. CASE r.failed
      BY <3>1 DEF Moved
    <3>2. CASE ~r.failed
      BY <3>2, <2>2, MovedSelf
    <3> QED
      BY <3>1, <3>2
  <2> QED
    BY <2>2, <2>3, <2>4 DEF q
<1>3. CASE b.opcode # "func"
  <2>1. k # 1
    BY <1>1, <1>3, LabelFacts
  <2>2. Len(p.blocks) \in Nat
    BY <1>1, ScopeFacts
  <2>3. k \in 2 .. Len(p.blocks)
    BY <1>1, <2>1, <2>2
  <2>4. LabelTypes(b) = Expected(b, TRUE)
    BY DEF LabelTypes, Expected
  <2>5. MayResolve(p, k, TRUE)
    BY <1>1, <1>3, <2>3, <2>4 DEF MayResolve, MayGo
  <2>6. OK(s) /\ Frame(p, s) /\ Moved(p, s)
    BY <2>5, ResolveOK
  <2>7. q = s
    BY <1>3 DEF MoveValues
  <2> HIDE DEF q, s
  <2> QED
    BY <2>6, <2>7 DEF q
<1> QED
  BY <1>2, <1>3

\* They are still there when items moved.
LEMMA MayGoKept ==
  ASSUME NEW p, NEW q, NEW k, MayGo(p, k), OK(q), Frame(p, q), Moved(p, q), ~q.failed
  PROVE  MayGo(q, k)
<1>1. OK(p) /\ k \in 1 .. Len(p.blocks) /\ q.blocks = p.blocks
  BY DEF MayGo, Frame
<1>2. LabelTypes(p.blocks[k]) \in Seq(ValueType)
  BY <1>1, LabelFacts DEF OK
<1>3. OnTop(q, LabelTypes(p.blocks[k])) /\ BlockHeight(q) = BlockHeight(p)
  BY <1>1, <1>2, OnTopMoved DEF MayGo
<1> QED
  BY <1>1, <1>3 DEF MayGo

\* Where the values are does not depend on where execution is.
LEMMA MayGoAnywhere ==
  ASSUME NEW p, NEW k, MayGo(p, k), NEW skip, NEW to
  PROVE  MayGo(GoOn(p, skip, to), k)
<1> DEFINE q == GoOn(p, skip, to)
<1>1. OK(q) /\ q.failed = p.failed /\ q.blocks = p.blocks /\ q.stack = p.stack
  BY WithSkip DEF MayGo
<1> HIDE DEF q
<1>2. MayGo(q, k)
  BY <1>1 DEF MayGo, OnTop, BlockHeight, Block
<1> QED
  BY <1>2 DEF q

\* They are there when br is compiled.
LEMMA BranchNow ==
  ASSUME IInv, "fp_results" \notin Allowed, NEW k \in DOMAIN o.blocks, MayBranch(0, o.blocks[k])
  PROVE  MayGo(o, k)
<1> DEFINE b == o.blocks[k]
           T == LabelTypes(b)
<1>1. TypesOnTop(T \o <<>>)
  BY DEF MayBranch
<1>2. OK(o) /\ ~o.failed
  BY <1>1, Now DEF TypesOnTop
<1>3. k \in 1 .. Len(o.blocks)
  BY <1>2 DEF OK, BlocksOk
<1>4. T \in Seq(ValueType)
  BY <1>2, <1>3, LabelFacts DEF OK
<1>5. T \o <<>> = T
  BY <1>4, ConcatEmptySeq
<1>6. OnTop(o, T)
  BY <1>1, <1>4, <1>5, NowOnTop
<1>7. b.opcode \notin {"loop", "func"} /\ FpLast(b.type.results) =>
        BlockHeight(o) = 1 /\ FpLast(Last(o.blocks).type.results)
  <2>1. BlockHeight(o) = 0 + 1 => BlockHeight(o) = 1
    OBVIOUS
  <2> QED
    BY <2>1 DEF MayBranch, Block
<1> QED
  BY <1>2, <1>3, <1>6, <1>7 DEF MayGo

\* The condition of br_if, or the index of br_table, goes first.
LEMMA BranchAfterPop ==
  ASSUME IInv, "fp_results" \notin Allowed, NEW k \in DOMAIN o.blocks, MayBranch(1, o.blocks[k]),
         NEW p, OK(p), Frame(o, p), Moved(o, p), ~p.failed,
         NEW q, OK(q), Frame(p, q), Popped(p, q, 1), ~q.failed
  PROVE  MayGo(q, k)
<1> DEFINE b == o.blocks[k]
           T == LabelTypes(b)
<1>1. TypesOnTop(T \o <<"i32">>)
  BY DEF MayBranch
<1>2. OK(o) /\ ~o.failed
  BY <1>1, Now DEF TypesOnTop
<1>3. k \in 1 .. Len(o.blocks)
  BY <1>2 DEF OK, BlocksOk
<1>4. T \in Seq(ValueType) /\ "i32" \in ValueType
  <2>1. T \in Seq(ValueType)
    BY <1>2, <1>3, LabelFacts DEF OK
  <2> QED
    BY <2>1 DEF ValueType
<1> DEFINE U == Append(T, "i32")
<1> HIDE DEF T
<1>5. U \in Seq(ValueType) /\ U = T \o <<"i32">>
  BY <1>4
<1>6. OnTop(o, U)
  BY <1>1, <1>5, NowOnTop
<1>7. OnTop(p, U) /\ BlockHeight(p) = BlockHeight(o)
  BY <1>2, <1>5, <1>6, OnTopMoved
<1>8. OnTop(q, T) /\ BlockHeight(q) = BlockHeight(p) - 1
  BY <1>4, <1>7, OnTopPopped
<1>9. q.blocks = o.blocks
  BY DEF Frame
<1>10. b.opcode \notin {"loop", "func"} /\ FpLast(b.type.results) =>
         BlockHeight(q) = 1 /\ FpLast(Last(q.blocks).type.results)
  <2>1. BlockHeight(o) = 1 + 1 => BlockHeight(q) = 1
    BY <1>7, <1>8
  <2> QED
    BY <2>1, <1>9 DEF MayBranch, Block
<1> QED
  BY <1>3, <1>8, <1>9, <1>10 DEF MayGo, T

\* Execution goes to the scope, if it is here.
LEMMA JumpOK ==
  ASSUME NEW p, OK(p), SkipOk(p), NEW k \in 1 .. Len(p.blocks)
  PROVE  LET q == Jump(p, k) IN
         /\ OK(q) /\ SkipOk(q) /\ q.blocks = p.blocks
         /\ q.failed = p.failed /\ q.ignored = p.ignored
<1> DEFINE b == p.blocks[k]
           s == CASE b.opcode = "loop" -> "loop"
                  [] b.opcode = "func" -> "return"
                  [] OTHER -> "end"
           q == GoOn(p, s, k)
<1>1. s \in {"end", "loop", "return"}
  BY Zenon
<1>2. Jump(p, k) = IF p.skip # "no" THEN p ELSE q
  BY DEF Jump, GoOn
<1> HIDE DEF s
<1>3. OK(q) /\ q.skip = s /\ q.to = k /\ q.blocks = p.blocks
      /\ q.failed = p.failed /\ q.ignored = p.ignored
  BY WithSkip
<1>4. k \in 0 .. Len(p.blocks)
  BY ScopeFacts DEF OK
<1> HIDE DEF q
<1>5. SkipOk(q)
  BY <1>1, <1>3, <1>4 DEF SkipOk
<1> QED
  BY <1>2, <1>3, <1>5

\* Execution, if it was here, has gone on, and the rest of the block is dead.
LEMMA JumpedDead ==
  ASSUME NEW p, OK(p), SkipOk(p), NEW k \in 1 .. Len(p.blocks)
  PROVE  Went(DeadCode(Jump(p, k)))
<1> DEFINE j == Jump(p, k)
           q == DeadCode(j)
<1>1. OK(j) /\ SkipOk(j)
  BY JumpOK
<1> HIDE DEF j
<1>2. /\ OK(q) /\ q.skip = j.skip /\ q.to = j.to /\ Len(q.blocks) = Len(j.blocks)
  BY <1>1, DeadCodeOK
<1> HIDE DEF q
<1>3. SkipOk(q)
  BY <1>1, <1>2 DEF SkipOk
<1>4. Went(q)
  BY <1>2, <1>3, WentOK
<1> QED
  BY <1>4 DEF q, j

\* The machine branches.
LEMMA BranchToOK ==
  ASSUME NEW x, MachineOk(x), NEW k
  PROVE  MachineOk(BranchTo(x, k))
BY Machines DEF BranchTo

\* Compile_Branch: br
LEMMA BrStep ==
  ASSUME IInv, "fp_results" \notin Allowed, NEW k \in DOMAIN o.blocks, Br(k)
  PROVE  IInv'
<1> DEFINE b == o.blocks[k]
           m == MoveValues(o, b)
           d == DeadCode(Jump(m, k))
           u == IF m.failed THEN m ELSE d
           x == BranchTo(w, k)
<1>1. MayBranch(0, b) /\ Step(u, x)
  BY DEF Br, Then
<1>2. OK(o) /\ ~o.failed /\ SkipOk(o) /\ MachineOk(w)
  BY <1>1, Now DEF MayBranch, TypesOnTop
<1>3. MachineOk(x)
  BY <1>2, BranchToOK
<1>4. MayGo(o, k)
  BY <1>1, BranchNow
<1>5. OK(m) /\ Frame(o, m)
  BY <1>4, MoveValuesOK
<1> HIDE DEF m, x
<1>6. k \in 1 .. Len(m.blocks) /\ SkipOk(m)
  BY <1>2, <1>4, <1>5 DEF MayGo, Frame, SkipOk
<1>7. Went(d)
  BY <1>5, <1>6, JumpedDead
<1>8. Went(m)
  BY <1>5, SameSkip
<1> HIDE DEF d
<1>9. Went(u)
  BY <1>7, <1>8
<1> HIDE DEF u
<1> QED
  BY <1>1, <1>3, <1>9, StepOK

\* The same to a loop.
LEMMA BrLoopStep ==
  ASSUME IInv, "fp_results" \notin Allowed, NEW k \in DOMAIN o.blocks, BrLoop(k)
  PROVE  IInv'
<1> DEFINE b == o.blocks[k]
           j == Jump(o, k)
           h == Len(o.blocks)
           u == [j EXCEPT !.blocks[h].poly = TRUE]
           x == BranchTo(w, k)
<1>1. MayBranch(0, b) /\ Step(u, x)
  BY DEF BrLoop
<1>2. OK(o) /\ ~o.failed /\ SkipOk(o) /\ MachineOk(w)
  BY <1>1, Now DEF MayBranch, TypesOnTop
<1>3. MachineOk(x)
  BY <1>2, BranchToOK
<1>4. k \in 1 .. Len(o.blocks)
  BY <1>2 DEF OK, BlocksOk
<1>5. OK(j) /\ SkipOk(j) /\ h = Len(j.blocks)
  BY <1>2, <1>4, JumpOK
<1> HIDE DEF x, j, h
<1>6. /\ OK(u) /\ u.skip = j.skip /\ u.to = j.to /\ Len(u.blocks) = Len(j.blocks)
  BY <1>5, PolyOK
<1> HIDE DEF u
<1>7. SkipOk(u)
  BY <1>5, <1>6 DEF SkipOk
<1>8. Went(u)
  BY <1>6, <1>7, WentOK
<1> QED
  BY <1>1, <1>3, <1>8, StepOK

\* Compile_Return
LEMMA ReturnStep ==
  ASSUME IInv, Return
  PROVE  IInv'
<1> DEFINE m == ReturnValues(o, Len(RetTypes))
           u == DeadCode(Jump(m, 1))
           x == BranchTo(w, 1)
<1>1. TypesOnTop(RetTypes) /\ Step(u, x)
  BY DEF Return
<1>2. OK(o) /\ ~o.failed /\ SkipOk(o) /\ MachineOk(w)
  BY <1>1, Now DEF TypesOnTop
<1>3. MachineOk(x)
  BY <1>2, BranchToOK
<1>4. Len(RetTypes) \in Nat /\ 2 * Len(RetTypes) <= MaxFunctionSlots
  BY Numbers, SignatureAssumption
<1>5. OK(m) /\ Frame(o, m)
  BY <1>2, <1>4, ReturnValuesOK
<1> HIDE DEF x, m
<1>6. 1 \in 1 .. Len(m.blocks)
  BY <1>5, ScopeFacts DEF OK
<1>7. SkipOk(m)
  BY <1>2, <1>5 DEF SkipOk, Frame
<1>8. Went(u)
  BY <1>5, <1>6, <1>7, JumpedDead
<1> HIDE DEF u
<1> QED
  BY <1>1, <1>3, <1>8, StepOK

\* The values are moved, and then the stack is popped.
LEMMA MayGoHere ==
  ASSUME NEW p, NEW k, MayGo(p, k), NEW h, h = p \/ \E skip : h = GoOn(p, skip, p.to)
  PROVE  MayGo(h, k) /\ h.to = p.to /\ h.blocks = p.blocks /\ h.ignored = p.ignored
<1>1. CASE h = p
  BY <1>1
<1>2. CASE \E skip : h = GoOn(p, skip, p.to)
  <2>1. PICK skip : h = GoOn(p, skip, p.to)
    BY <1>2
  <2> DEFINE q == GoOn(p, skip, p.to)
  <2>2. MayGo(q, k)
    BY MayGoAnywhere
  <2>3. q.to = p.to /\ q.blocks = p.blocks /\ q.ignored = p.ignored
    BY WithSkip DEF MayGo
  <2> HIDE DEF q
  <2> QED
    BY <2>1, <2>2, <2>3 DEF q
<1> QED
  BY <1>1, <1>2

\* The condition of br_if is read from the register when nothing is moved.
LEMMA TestInRegister ==
  ASSUME IInv, TypesOnTop(<<"i32">>), NEW got, NEW expected
  PROVE  LET q == Pop(Observe(CopyTopToRegister(o), got, expected)) IN OK(q) /\ Frame(o, q)
<1> DEFINE c == CopyTopToRegister(o)
           d == Observe(c, got, expected)
           q == Pop(d)
<1>1. OK(o) /\ ~o.failed /\ Len(o.stack) > Base(o.blocks)
  <2> DEFINE T == <<"i32">>
  <2>1. T \in Seq(ValueType) /\ Len(T) >= 1
    BY DEF ValueType
  <2> HIDE DEF T
  <2>2. TypesOnTop(T)
    BY DEF T
  <2> QED
    BY <2>1, <2>2, TopOfType
<1>2. OK(c) /\ Frame(o, c)
  BY <1>1, CopyTopOK
<1> HIDE DEF c
<1>3. OK(d) /\ Frame(c, d)
  BY <1>2, ObservedOK
<1> HIDE DEF d
<1>4. OK(q) /\ Frame(d, q)
  BY <1>3, PopOK
<1> HIDE DEF q
<1>5. Frame(o, q)
  BY <1>2, <1>3, <1>4 DEF Frame
<1> QED
  BY <1>4, <1>5 DEF q, d, c

\* Otherwise it is read where it is.
LEMMA TestOnTop ==
  ASSUME IInv, "fp_results" \notin Allowed, NEW k \in DOMAIN o.blocks, MayBranch(1, o.blocks[k]),
         NEW p, OK(p), Frame(o, p), Moved(o, p), ~p.failed
  PROVE  LET q == Pop(Observed(p, 1)) IN MayGo(q, k) /\ Frame(o, q)
<1> DEFINE d == Observed(p, 1)
           q == Pop(d)
           T == LabelTypes(o.blocks[k])
           U == Append(T, "i32")
<1>1. TypesOnTop(T \o <<"i32">>)
  BY DEF MayBranch
<1>2. OK(o) /\ ~o.failed
  BY <1>1, Now DEF TypesOnTop
<1>3. k \in 1 .. Len(o.blocks)
  BY <1>2 DEF OK, BlocksOk
<1>4. T \in Seq(ValueType) /\ "i32" \in ValueType
  <2>1. T \in Seq(ValueType)
    BY <1>2, <1>3, LabelFacts DEF OK
  <2> QED
    BY <2>1 DEF ValueType
<1> HIDE DEF T
<1>5. U \in Seq(ValueType) /\ U = T \o <<"i32">> /\ Len(U) \in Nat /\ Len(U) >= 1
  BY <1>4
<1>6. OnTop(o, U)
  BY <1>1, <1>5, NowOnTop
<1> HIDE DEF U
<1>7. OnTop(p, U) /\ BlockHeight(p) = BlockHeight(o) /\ BlockHeight(o) \in Nat
  BY <1>2, <1>5, <1>6, OnTopMoved, Height
<1>8. BlockHeight(p) >= 1
  BY <1>5, <1>7 DEF OnTop
<1>9. OK(d) /\ Frame(p, d) /\ d.failed = p.failed /\ d.stack = p.stack /\ d.reg = p.reg
  BY ObservedOK DEF Observed
<1> HIDE DEF d
<1>10. BlockHeight(d) >= 1
  BY <1>8, <1>9 DEF BlockHeight, Block, Frame
<1>11. OK(q) /\ Frame(d, q) /\ q.failed = d.failed /\ Popped(d, q, 1)
  BY <1>9, <1>10, PopTop
<1> HIDE DEF q
<1>12. OK(q) /\ Frame(p, q) /\ ~q.failed /\ Popped(p, q, 1)
  BY <1>9, <1>11 DEF Frame, Popped
<1>13. MayGo(q, k)
  BY <1>12, BranchAfterPop
<1>14. Frame(o, q)
  BY <1>12 DEF Frame
<1> QED
  BY <1>13, <1>14 DEF q, d

\* What br_if does: the condition goes, values are moved if there are any, and execution goes to the
\* scope or on.
LEMMA BrIfIs ==
  ASSUME IInv, "fp_results" \notin Allowed, NEW k \in DOMAIN o.blocks, NEW taken \in BOOLEAN, BrIf(k, taken)
  PROVE  LET b == o.blocks[k]
             moves == LabelTypes(b) # <<>> \/ b.opcode = "func"
             c == CopyTopToRegister(o)
             inReg == Pop(Observe(c, <<InRegister(c, Reg0)>>, LastN(1)))
             onTop == Pop(Observed(o, 1))
             test == IF b.opcode = "loop" /\ ~moves THEN inReg ELSE onTop
             h == IF taken \/ ~Running THEN test ELSE GoOn(test, "prologue", test.to)
             m == IF moves THEN MoveValues(h, h.blocks[k]) ELSE h
             u == IF m.failed THEN m ELSE IF taken THEN Jump(m, k) ELSE GoOn(m, o.skip, m.to)
             popped == [w EXCEPT !.vals = Under(1)]
             x == IF taken THEN BranchTo(popped, k) ELSE popped IN
         /\ Compiling /\ (taken => Running) /\ Step(u, x) /\ MachineOk(x)
         /\ test = onTop \/ (test = inReg /\ TypesOnTop(<<"i32">>))
         /\ OK(test) /\ Frame(o, test)
         /\ OK(h) /\ h.blocks = o.blocks /\ h.to = o.to /\ h.ignored = o.ignored /\ (taken => h.skip = o.skip)
         /\ (moves => MayGo(h, k)) /\ OK(m) /\ Frame(h, m)
<1> DEFINE b == o.blocks[k]
           moves == LabelTypes(b) # <<>> \/ b.opcode = "func"
           c == CopyTopToRegister(o)
           inReg == Pop(Observe(c, <<InRegister(c, Reg0)>>, LastN(1)))
           onTop == Pop(Observed(o, 1))
           test == IF b.opcode = "loop" /\ ~moves THEN inReg ELSE onTop
           h0 == IF taken \/ ~Running THEN test ELSE [test EXCEPT !.skip = "prologue"]
           m0 == IF moves THEN MoveValues(h0, b) ELSE h0
           u0 == IF m0.failed THEN m0 ELSE IF taken THEN Jump(m0, k) ELSE [m0 EXCEPT !.skip = o.skip]
           h == IF taken \/ ~Running THEN test ELSE GoOn(test, "prologue", test.to)
           m == IF moves THEN MoveValues(h, h.blocks[k]) ELSE h
           u == IF m.failed THEN m ELSE IF taken THEN Jump(m, k) ELSE GoOn(m, o.skip, m.to)
           popped == [w EXCEPT !.vals = Under(1)]
           x == IF taken THEN BranchTo(popped, k) ELSE popped
<1>1. MayBranch(1, b) /\ (taken => Running) /\ Step(u0, x)
  BY DEF BrIf, Then
<1>2. OK(o) /\ ~o.failed /\ Compiling /\ MachineOk(w)
  BY <1>1, Now DEF MayBranch, TypesOnTop
<1>3. MachineOk(x)
  BY <1>2, BranchToOK, Machines
<1> HIDE DEF x
<1>4. k \in 1 .. Len(o.blocks)
  BY <1>2 DEF OK, BlocksOk
<1>5. /\ OK(test) /\ Frame(o, test)
      /\ moves => MayGo(test, k)
      /\ test = onTop \/ (test = inReg /\ TypesOnTop(<<"i32">>))
  <2>1. CASE b.opcode = "loop" /\ ~moves
    <3>1. TypesOnTop(<<"i32">>)
      <4> DEFINE T == <<"i32">>
      <4>1. LabelTypes(b) = <<>>
        BY <2>1
      <4>2. TypesOnTop(LabelTypes(b) \o T)
        BY <1>1 DEF MayBranch
      <4>3. <<>> \o T = T
        <5>1. T \in Seq(ValueType)
          BY DEF ValueType
        <5> HIDE DEF T
        <5> QED
          BY <5>1, ConcatEmptySeq
      <4> HIDE DEF T
      <4>4. TypesOnTop(T)
        BY <4>1, <4>2, <4>3
      <4> QED
        BY <4>4 DEF T
    <3> DEFINE got == <<InRegister(c, Reg0)>>
               expected == LastN(1)
    <3>2. test = Pop(Observe(CopyTopToRegister(o), got, expected))
      BY <2>1
    <3> HIDE DEF got, expected
    <3>3. OK(test) /\ Frame(o, test)
      <4> HIDE DEF test
      <4>1. LET q == Pop(Observe(CopyTopToRegister(o), got, expected)) IN OK(q) /\ Frame(o, q)
        BY <3>1, TestInRegister
      <4> QED
        BY <4>1, <3>2
    <3>4. test = inReg
      BY <2>1
    <3> HIDE DEF test, inReg
    <3> QED
      BY <3>1, <3>3, <3>4, <2>1
  <2>2. CASE ~(b.opcode = "loop" /\ ~moves)
    <3>1. Frame(o, o) /\ Moved(o, o)
      BY <1>2, SelfMoved
    <3>2. MayGo(onTop, k) /\ Frame(o, onTop)
      BY <3>1, <1>1, <1>2, TestOnTop
    <3>3. test = onTop
      BY <2>2
    <3> HIDE DEF test, onTop
    <3> QED
      BY <3>2, <3>3 DEF MayGo
  <2> QED
    BY <2>1, <2>2
<1> HIDE DEF test
<1>6. DOMAIN test = Fields /\ test.blocks = o.blocks /\ test.to = o.to /\ test.skip = o.skip
      /\ test.ignored = o.ignored
  BY <1>5 DEF OK, Typed, Frame
<1>7. h0 = h
  <2>1. [test EXCEPT !.skip = "prologue"] = GoOn(test, "prologue", test.to)
    BY <1>6 DEF GoOn, Fields
  <2> QED
    BY <2>1
<1> HIDE DEF h0
<1>8. /\ OK(h) /\ h.blocks = o.blocks /\ h.to = o.to /\ h.ignored = o.ignored
      /\ taken => h.skip = o.skip
      /\ moves => MayGo(h, k)
  <2> DEFINE g == GoOn(test, "prologue", test.to)
  <2>1. OK(g) /\ g.to = test.to /\ g.blocks = test.blocks /\ g.ignored = test.ignored
    BY <1>5, WithSkip
  <2>2. moves => MayGo(g, k)
    BY <1>5, MayGoAnywhere
  <2> HIDE DEF g, moves
  <2>3. h = test \/ (h = g /\ ~taken)
    BY DEF g
  <2> HIDE DEF h
  <2> QED
    BY <2>1, <2>2, <2>3, <1>5, <1>6
<1> HIDE DEF h
<1>9. OK(m) /\ Frame(h, m)
  <2>1. CASE moves
    <3> DEFINE g == MoveValues(h, h.blocks[k])
    <3>1. OK(g) /\ Frame(h, g)
      BY <2>1, <1>8, MoveValuesOK
    <3>2. m = g
      BY <2>1
    <3> HIDE DEF g, m
    <3> QED
      BY <3>1, <3>2
  <2>2. CASE ~moves
    <3>1. m = h
      BY <2>2
    <3> HIDE DEF m
    <3> QED
      BY <3>1, <1>8, SelfMoved
  <2> QED
    BY <2>1, <2>2
<1>10. u0 = u
  <2>1. m0 = m
    BY <1>7, <1>8
  <2> HIDE DEF m, m0
  <2>2. [m EXCEPT !.skip = o.skip] = GoOn(m, o.skip, m.to)
    BY <1>9 DEF GoOn, OK, Typed, Fields
  <2> QED
    BY <2>1, <2>2
<1> HIDE DEF m, u0, u
<1>11. Step(u, x)
  BY <1>1, <1>10
<1> HIDE DEF moves, inReg, onTop
<1> QED
  BY <1>1, <1>2, <1>3, <1>5, <1>8, <1>9, <1>11 DEF x, u, m, h, test, inReg, onTop, moves

\* Compile_Branch: br_if
LEMMA BrIfStep ==
  ASSUME IInv, "fp_results" \notin Allowed, NEW k \in DOMAIN o.blocks, NEW taken \in BOOLEAN, BrIf(k, taken)
  PROVE  IInv'
<1> DEFINE b == o.blocks[k]
           moves == LabelTypes(b) # <<>> \/ b.opcode = "func"
           c == CopyTopToRegister(o)
           inReg == Pop(Observe(c, <<InRegister(c, Reg0)>>, LastN(1)))
           onTop == Pop(Observed(o, 1))
           test == IF b.opcode = "loop" /\ ~moves THEN inReg ELSE onTop
           h == IF taken \/ ~Running THEN test ELSE GoOn(test, "prologue", test.to)
           m == IF moves THEN MoveValues(h, h.blocks[k]) ELSE h
           j == Jump(m, k)
           g == GoOn(m, o.skip, m.to)
           u == IF m.failed THEN m ELSE IF taken THEN j ELSE g
           popped == [w EXCEPT !.vals = Under(1)]
           x == IF taken THEN BranchTo(popped, k) ELSE popped
<1>1. /\ Compiling /\ (taken => Running) /\ Step(u, x) /\ MachineOk(x)
      /\ h.blocks = o.blocks /\ h.to = o.to /\ h.ignored = o.ignored /\ (taken => h.skip = o.skip)
      /\ OK(m) /\ Frame(h, m)
  BY BrIfIs
<1> HIDE DEF x, h, m
<1>2. OK(o) /\ SkipOk(o)
  BY <1>1, Now
<1>3. k \in 1 .. Len(o.blocks)
  BY <1>2 DEF OK, BlocksOk
<1>4. m.blocks = o.blocks /\ m.to = o.to /\ m.ignored = o.ignored /\ (taken => m.skip = o.skip)
  BY <1>1 DEF Frame
<1>5. CASE m.failed
  <2>1. u = m
    BY <1>5
  <2>2. Went(m)
    BY <1>1, <1>5, WentOK
  <2> HIDE DEF u
  <2> QED
    BY <2>1, <2>2, <1>1, StepOK
<1>6. CASE ~m.failed /\ taken
  <2>1. u = j
    BY <1>6
  <2>2. SkipOk(m)
    BY <1>2, <1>4, <1>6 DEF SkipOk
  <2>3. OK(j) /\ SkipOk(j)
    BY <2>2, <1>1, <1>3, <1>4, JumpOK
  <2> HIDE DEF u, j
  <2>4. Went(u)
    BY <2>1, <2>3, WentOK
  <2> QED
    BY <2>4, <1>1, StepOK
<1>7. CASE ~m.failed /\ ~taken
  <2>1. OK(g) /\ g.skip = o.skip /\ g.to = o.to /\ g.blocks = o.blocks
    BY <1>1, <1>4, WithSkip
  <2>2. u = g
    BY <1>7
  <2> HIDE DEF u, g
  <2>3. SkipOk(g)
    BY <2>1, <1>2 DEF SkipOk
  <2>4. Went(u)
    BY <2>1, <2>2, <2>3, WentOK
  <2> QED
    BY <2>4, <1>1, StepOK
<1> QED
  BY <1>5, <1>6, <1>7

\* A target of br_table has code of its own.
TargetCode(p, k, skip) ==
  [MoveValues([p EXCEPT !.skip = skip], p.blocks[k]) EXCEPT !.skip = p.skip]

\* What was moved for a target.
LEMMA TargetOK ==
  ASSUME NEW p, NEW k, MayGo(p, k), NEW skip
  PROVE  LET q == TargetCode(p, k, skip) IN OK(q) /\ Frame(p, q) /\ Moved(p, q)
<1> DEFINE g == GoOn(p, skip, p.to)
           m == MoveValues(g, g.blocks[k])
           r == GoOn(m, p.skip, m.to)
           q == TargetCode(p, k, skip)
<1>1. OK(p) /\ DOMAIN p = Fields
  BY DEF MayGo, OK, Typed
<1>2. /\ OK(g) /\ g.skip = skip /\ g.to = p.to /\ g.failed = p.failed /\ g.ignored = p.ignored
      /\ g.blocks = p.blocks /\ g.stack = p.stack /\ g.reg = p.reg
      /\ g.firstConst = p.firstConst /\ g.firstDynamic = p.firstDynamic
  BY <1>1, WithSkip
<1>3. MayGo(g, k)
  BY MayGoAnywhere
<1>4. g = [p EXCEPT !.skip = skip]
  BY <1>1 DEF GoOn, Fields
<1> HIDE DEF g
<1>5. OK(m) /\ Frame(g, m) /\ Moved(g, m)
  BY <1>3, MoveValuesOK
<1>6. q = [m EXCEPT !.skip = p.skip]
  BY <1>2, <1>4 DEF TargetCode
<1> HIDE DEF m, q
<1>7. q = r
  BY <1>5, <1>6 DEF GoOn, OK, Typed, Fields
<1>8. /\ OK(r) /\ r.skip = p.skip /\ r.to = m.to /\ r.failed = m.failed /\ r.ignored = m.ignored
      /\ r.blocks = m.blocks /\ r.stack = m.stack /\ r.reg = m.reg
      /\ r.firstConst = m.firstConst /\ r.firstDynamic = m.firstDynamic
  BY <1>5, WithSkip
<1> HIDE DEF r
<1>9. Frame(p, r)
  BY <1>2, <1>5, <1>8 DEF Frame
<1>10. Moved(p, r)
  BY <1>2, <1>5, <1>8 DEF Moved
<1> QED
  BY <1>7, <1>8, <1>9, <1>10 DEF q

\* Compile_BranchTable
LEMMA BrTableStep ==
  ASSUME IInv, "fp_results" \notin Allowed, NEW first \in DOMAIN o.blocks, NEW second \in DOMAIN o.blocks,
         NEW chosen \in 1 .. 2, BrTable(<<first, second>>, chosen)
  PROVE  IInv'
<1> DEFINE targets == <<first, second>>
           Skip(p, i) == IF i = chosen \/ ~Running THEN p.skip ELSE "prologue"
           a == PreserveRegisterIfOccupied(o, Reg0)
           c == Pop(Observed(a, 1))
           t1 == TargetCode(c, targets[1], Skip(c, 1))
           t2 == TargetCode(t1, targets[2], Skip(t1, 2))
           both == IF t1.failed THEN t1 ELSE t2
           m == IF a.failed THEN a ELSE both
           k == targets[chosen]
           d == DeadCode(Jump(m, k))
           u == IF m.failed THEN m ELSE d
           x == BranchTo([w EXCEPT !.vals = Under(1)], k)
<1>1. MayBranch(1, o.blocks[first]) /\ MayBranch(1, o.blocks[second]) /\ Step(u, x)
  <2>1. MayBranch(1, o.blocks[first]) /\ MayBranch(1, o.blocks[second])
    <3>1. DOMAIN targets = 1 .. 2 /\ targets[1] = first /\ targets[2] = second
      OBVIOUS
    <3>2. \A i \in DOMAIN targets : MayBranch(1, o.blocks[targets[i]])
      BY SMTT(40) DEF BrTable
    <3> HIDE DEF targets
    <3> QED
      BY <3>1, <3>2
  <2>2. Step(u, x)
    BY DEF BrTable, Then, TargetCode
  <2> QED
    BY <2>1, <2>2
<1>2. OK(o) /\ ~o.failed /\ SkipOk(o) /\ MachineOk(w)
  BY <1>1, Now DEF MayBranch, TypesOnTop
<1>3. MachineOk(x)
  BY <1>2, BranchToOK, Machines
<1> HIDE DEF x
<1>4. k \in DOMAIN o.blocks
  OBVIOUS
<1> HIDE DEF k
<1>5. k \in 1 .. Len(o.blocks)
  BY <1>2, <1>4 DEF OK, BlocksOk
<1>6. OK(a) /\ Frame(o, a) /\ Moved(o, a)
  BY <1>2, Numbers, PreserveRegister
<1> HIDE DEF a
<1>7. ASSUME ~a.failed PROVE OK(both) /\ Frame(o, both)
  <2>1. MayGo(c, targets[1]) /\ MayGo(c, targets[2]) /\ Frame(o, c)
    BY <1>1, <1>6, <1>7, TestOnTop
  <2> HIDE DEF c
  <2> DEFINE s == Skip(c, 1)
  <2>2. OK(t1) /\ Frame(c, t1) /\ Moved(c, t1)
    <3> HIDE DEF s
    <3>1. LET q == TargetCode(c, targets[1], s) IN OK(q) /\ Frame(c, q) /\ Moved(c, q)
      BY <2>1, TargetOK
    <3> QED
      BY <3>1 DEF s
  <2> HIDE DEF t1, s
  <2>3. ASSUME ~t1.failed PROVE OK(t2) /\ Frame(t1, t2)
    <3>1. MayGo(t1, targets[2])
      BY <2>1, <2>2, <2>3, MayGoKept
    <3> DEFINE z == Skip(t1, 2)
    <3> HIDE DEF z
    <3>2. LET q == TargetCode(t1, targets[2], z) IN OK(q) /\ Frame(t1, q) /\ Moved(t1, q)
      BY <3>1, TargetOK
    <3> QED
      BY <3>2 DEF z
  <2> HIDE DEF t2
  <2>4. OK(both) /\ Frame(c, both)
    BY <2>2, <2>3 DEF Frame
  <2> HIDE DEF both
  <2> QED
    BY <2>1, <2>4 DEF Frame
<1> HIDE DEF both
<1>8. OK(m) /\ Frame(o, m)
  BY <1>6, <1>7
<1> HIDE DEF m
<1>9. k \in 1 .. Len(m.blocks) /\ SkipOk(m)
  BY <1>2, <1>5, <1>8 DEF Frame, SkipOk
<1>10. Went(d)
  BY <1>8, <1>9, JumpedDead
<1>11. Went(m)
  BY <1>8, SameSkip
<1> HIDE DEF d
<1>12. Went(u)
  BY <1>10, <1>11
<1> HIDE DEF u
<1> QED
  BY <1>1, <1>3, <1>12, StepOK

-----------------------------------------------------------------------------
(* Up to the first instruction                                             *)

\* Nothing was thrown but by the pushes.
Opening(p) ==
  /\ Typed(p) /\ p.blocks = Start.blocks /\ p.skip = "no" /\ p.to = 0 /\ p.ignored = FALSE

\* Slots are in use, once.
Marked(count, s, end) == [y \in DOMAIN count |-> IF y \in s .. end - 1 THEN 1 ELSE count[y]]

\* An item came in a free slot.
PushedIn(p, t, s, q) ==
  LET end == s + GetTypeNumSlots(t) IN
  /\ s \in Nat /\ p.firstDynamic <= s /\ end <= MaxFunctionSlots /\ p.count[s] = 0 /\ ~p.failed
  /\ q.stack = Append(p.stack, [type |-> t, slot |-> s]) /\ q.reg = p.reg
  /\ q.top = Max({p.top, end})
  /\ q.count = Marked(p.count, s, end)

\* Before the first instruction a local is pushed to a slot that is free.
LEMMA OpeningPush ==
  ASSUME NEW p, Opening(p), NEW t \in ValueType, NEW words
  PROVE  LET q == Result(PushAllocatedSlot(p, t), words)
             s == FreeSlot(p, t, p.firstDynamic, MaxFunctionSlots) IN
         /\ Opening(q) /\ q.firstDynamic = p.firstDynamic
         /\ ~q.failed => PushedIn(p, t, s, q)
<1> DEFINE s == FreeSlot(p, t, p.firstDynamic, MaxFunctionSlots)
           n == GetTypeNumSlots(t)
           m == MarkSlotsAllocated(p, s, t)
           x == [type |-> t, slot |-> s]
           a == PushAllocatedSlot(p, t)
           q == Result(a, words)
           end == s + n
<1>1. Typed(p) /\ p.firstDynamic \in Nat /\ n \in Nat /\ MaxFunctionSlots \in Int
      /\ MaxFunctionSlots <= MaxFunctionSlots /\ DOMAIN p.count = 0 .. MaxFunctionSlots - 1
      /\ DOMAIN p = Fields
  <2>1. Typed(p)
    BY DEF Opening
  <2>2. n \in Nat
    BY Types
  <2> HIDE DEF n
  <2>3. MaxFunctionSlots \in Int /\ MaxFunctionSlots <= MaxFunctionSlots
    BY Numbers
  <2>4. p.firstDynamic \in Nat /\ DOMAIN p.count = 0 .. MaxFunctionSlots - 1 /\ DOMAIN p = Fields
    BY <2>1 DEF Typed
  <2> QED
    BY <2>1, <2>2, <2>3, <2>4
<1>2. a = IF s = SlotUnused THEN Fail(p) ELSE Push(m, t, s)
  BY DEF PushAllocatedSlot, AllocateSlots
<1> HIDE DEF a
<1>3. Fail(p).failed /\ Opening(Fail(p)) /\ Fail(p).firstDynamic = p.firstDynamic
  BY <1>1 DEF Fail, Opening, Typed, Fields
<1>4. CASE s = SlotUnused
  <2>1. a.failed /\ Opening(a) /\ a.firstDynamic = p.firstDynamic
    BY <1>2, <1>3, <1>4
  <2>2. q = a
    BY <2>1 DEF Result
  <2> HIDE DEF q
  <2> QED
    BY <2>1, <2>2 DEF q, a
<1>5. CASE s # SlotUnused
  <2>1. s \in Nat /\ p.firstDynamic <= s /\ s + n <= MaxFunctionSlots /\ p.count[s] = 0
    <3> HIDE DEF s, n
    <3>1. LET z == FreeSlot(p, t, p.firstDynamic, MaxFunctionSlots) IN
         \/ z = SlotUnused
         \/ /\ z \in Nat /\ p.firstDynamic <= z /\ z + GetTypeNumSlots(t) <= MaxFunctionSlots
            /\ p.count[z] = 0 /\ p.count[z + GetTypeNumSlots(t) - 1] = 0
            /\ z % GetTypeNumSlots(t) = 0
      BY <1>1, FreeSlotFacts
    <3> QED
      BY <3>1, <1>5 DEF s, n
  <2> HIDE DEF s
  <2>2. Close(p, m)
    BY <1>1, <2>1, MarkClose
  <2>3. m.count = Marked(p.count, s, end) /\ m.top = Max({p.top, end})
    <3>1. m = [p EXCEPT !.count = [y \in DOMAIN p.count |-> IF y \in s .. end - 1 THEN 1 ELSE p.count[y]],
                        !.top = Max({p.top, end}), !.maxSlots = Max({p.maxSlots, end}),
                        !.wild = p.wild \/ end > MaxFunctionSlots]
      BY DEF MarkSlotsAllocated
    <3> HIDE DEF m, end, n
    <3>2. m.count = [y \in DOMAIN p.count |-> IF y \in s .. end - 1 THEN 1 ELSE p.count[y]]
          /\ m.top = Max({p.top, end})
      BY <3>1, <1>1 DEF Fields
    <3> QED
      BY <3>2 DEF Marked
  <2> HIDE DEF m
  <2>4. Opening(m) /\ m.stack = p.stack /\ m.reg = p.reg /\ m.firstDynamic = p.firstDynamic
        /\ m.failed = p.failed /\ DOMAIN m = Fields
    BY <2>2 DEF Close, Frame, Opening, Typed
  <2>5. CASE Len(m.stack) >= MaxStackHeight
    <3>1. a = Fail(m)
      BY <1>2, <1>5, <2>5 DEF Push
    <3>2. Fail(m).failed /\ Opening(Fail(m)) /\ Fail(m).firstDynamic = p.firstDynamic
      BY <2>4 DEF Fail, Opening, Typed, Fields
    <3>3. q = a
      BY <3>1, <3>2 DEF Result
    <3> HIDE DEF q, a
    <3> QED
      BY <3>1, <3>2, <3>3 DEF q, s, a
  <2>6. CASE ~(Len(m.stack) >= MaxStackHeight)
    <3>1. x \in Item /\ InSlots(x) /\ ~IsRegister(s)
      <4>1. x \in Item /\ InSlots(x)
        BY <2>1 DEF Item, InSlots, n
      <4> HIDE DEF x
      <4>2. x.slot \notin Registers
        BY <4>1, ItemFacts
      <4> QED
        BY <4>1, <4>2 DEF x, IsRegister
    <3>2. a = [m EXCEPT !.stack = Append(m.stack, x), !.reg = m.reg]
      BY <1>2, <1>5, <2>6, <3>1 DEF Push
    <3> HIDE DEF x
    <3>3. Len(m.stack) < MaxStackHeight /\ StackOk(m.stack)
      <4>1. Len(m.stack) \in Nat /\ StackOk(m.stack)
        BY <2>4 DEF Opening, Typed, StackOk
      <4> QED
        BY <4>1, <2>6, Numbers
    <3>4. StackOk(Append(m.stack, x))
      BY <3>1, <3>3, AppendTyped
    <3> DEFINE after == Append(m.stack, x)
    <3> HIDE DEF after
    <3>5. Opening(a) /\ a.stack = after /\ a.reg = m.reg /\ a.count = m.count /\ a.top = m.top
          /\ a.firstDynamic = m.firstDynamic /\ a.failed = m.failed
      BY <3>2, <3>4, <2>4 DEF Opening, Typed, Fields, after
    <3>6. Opening(q) /\ q.stack = a.stack /\ q.reg = a.reg /\ q.count = a.count /\ q.top = a.top
          /\ q.firstDynamic = a.firstDynamic /\ q.failed = a.failed
      BY <3>5 DEF Opening, Typed, Fields, Result, Write
    <3> HIDE DEF q
    <3>7. ~q.failed => PushedIn(p, t, s, q)
      <4>1. q.stack = Append(p.stack, [type |-> t, slot |-> s]) /\ q.reg = p.reg
        BY <3>5, <3>6, <2>4 DEF after, x
      <4>2. q.top = Max({p.top, s + GetTypeNumSlots(t)})
        BY <3>5, <3>6, <2>3
      <4>3. q.count = Marked(p.count, s, s + GetTypeNumSlots(t))
        BY <3>5, <3>6, <2>3
      <4>4. s + GetTypeNumSlots(t) <= MaxFunctionSlots
        BY <2>1 DEF n
      <4>5. ~q.failed => ~p.failed
        BY <3>5, <3>6, <2>4
      <4> QED
        BY <4>1, <4>2, <4>3, <4>4, <4>5, <2>1 DEF PushedIn
    <3> QED
      BY <3>5, <3>6, <3>7, <2>4 DEF q, s, a
  <2> QED
    BY <2>5, <2>6
<1> QED
  BY <1>4, <1>5

\* The items have slots of their own.
Apart(stack, n) ==
  /\ Len(stack) = n /\ n \in Nat
  /\ \A i \in 1 .. n : stack[i] \in Item /\ InSlots(stack[i])
  /\ \A i, j \in 1 .. n : stack[i].slot = stack[j].slot => i = j

\* It has slots of its own.
LEMMA ApartAppend ==
  ASSUME NEW stack, NEW n, Apart(stack, n), stack \in Seq(Item), NEW x \in Item, InSlots(x),
         \A i \in 1 .. n : stack[i].slot # x.slot
  PROVE  LET new == Append(stack, x) IN
         /\ Apart(new, n + 1) /\ new[n + 1] = x /\ \A i \in 1 .. n : new[i] = stack[i]
<1> DEFINE new == Append(stack, x)
<1>1. n \in Nat /\ n + 1 \in Nat /\ Len(stack) = n
  BY DEF Apart
<1>2. /\ Len(new) = n + 1 /\ new[n + 1] = x /\ \A i \in 1 .. n : new[i] = stack[i]
  BY <1>1
<1> HIDE DEF new
<1>3. \A i \in 1 .. n + 1 : i = n + 1 \/ i \in 1 .. n
  BY <1>1
<1>4. Apart(new, n + 1)
  BY <1>1, <1>2, <1>3 DEF Apart
<1> QED
  BY <1>2, <1>4 DEF new

\* No register is in use.
Unused(p) == \A r \in Registers : p.reg[r] = 0

\* The slot behind an item.
Ends(x) == x.slot + GetTypeNumSlots(x.type)

\* k arguments are on the stack.
ArgsIn(k, q) ==
  /\ Opening(q)
  /\ ~q.failed => /\ Apart(q.stack, k) /\ Unused(q)
                  /\ q.firstDynamic % 2 = 0
                  /\ \A i \in 1 .. k : Ends(q.stack[i]) <= q.firstDynamic
                  /\ \A s \in q.firstDynamic .. MaxFunctionSlots - 1 : q.count[s] = 0

\* All arguments are, and k other locals.
LocalsIn(k, q) ==
  /\ Opening(q)
  /\ ~q.failed =>
       /\ Apart(q.stack, Len(ArgTypes) + k) /\ Unused(q) /\ q.top >= q.firstDynamic
       /\ \A i \in 1 .. Len(ArgTypes) + k :
            LET x == q.stack[i] IN
            \/ Ends(x) <= q.firstDynamic
            \/ q.firstDynamic <= x.slot /\ Ends(x) <= q.top
               /\ q.count[x.slot] # 0 /\ q.count[Ends(x) - 1] # 0

\* The use of one slot.
LEMMA MarkedAt ==
  ASSUME NEW count, NEW s, NEW end, NEW y \in DOMAIN count
  PROVE  Marked(count, s, end)[y] = IF y \in s .. end - 1 THEN 1 ELSE count[y]
BY DEF Marked

\* While no slot behind firstDynamic is in use, the first one is free.
LEMMA FirstFree ==
  ASSUME NEW p, Typed(p), NEW t, p.firstDynamic % 2 = 0,
         \A x \in p.firstDynamic .. MaxFunctionSlots - 1 : p.count[x] = 0,
         NEW s, s = FreeSlot(p, t, p.firstDynamic, MaxFunctionSlots), s \in Nat,
         p.firstDynamic <= s, s + GetTypeNumSlots(t) <= MaxFunctionSlots
  PROVE  s = p.firstDynamic
<1> DEFINE f == p.firstDynamic
           n == GetTypeNumSlots(t)
           from == AlignSlotToType(f, t)
           free == {x \in from .. MaxFunctionSlots - n : /\ x % n = 0 /\ p.count[x] = 0 /\ p.count[x + n - 1] = 0}
<1>1. f \in Nat /\ MaxFunctionSlots \in Nat /\ SlotUnused > MaxFunctionSlots /\ SlotUnused \in Nat
  BY Numbers DEF Typed
<1>2. n \in 1 .. 2
  BY Types
<1>3. s = IF free = {} THEN SlotUnused ELSE Min(free)
  BY DEF FreeSlot
<1>4. f % n = 0
  <2>1. n = 1 \/ n = 2
    BY <1>2
  <2> HIDE DEF n, f
  <2>2. f % 1 = 0
    BY <1>1
  <2> QED
    BY <2>1, <2>2 DEF f
<1>5. from = f
  <2>1. from = f + (f % n)
    BY DEF AlignSlotToType
  <2> HIDE DEF from, n, f
  <2> QED
    BY <2>1, <1>1, <1>4
<1> HIDE DEF from
<1>6. f \in free
  <2> HIDE DEF n, f
  <2>1. f \in from .. MaxFunctionSlots - n
    BY <1>1, <1>2, <1>5 DEF f, n
  <2>2. f \in f .. MaxFunctionSlots - 1 /\ f + n - 1 \in f .. MaxFunctionSlots - 1
    BY <2>1, <1>1, <1>2, <1>5
  <2>3. p.count[f] = 0 /\ p.count[f + n - 1] = 0
    BY <2>2 DEF f
  <2> QED
    BY <2>1, <2>3, <1>4
<1>7. s = Min(free)
  BY <1>3, <1>6
<1>8. Min(free) \in free /\ \A y \in free : Min(free) <= y
  <2>1. free \subseteq f .. MaxFunctionSlots - n
    BY <1>5
  <2>2. MaxFunctionSlots - n \in Int /\ free # {}
    BY <1>1, <1>2, <1>6
  <2> HIDE DEF free, n, f
  <2> QED
    BY <2>1, <2>2, <1>1, LeastInRange
<1>9. s <= f
  BY <1>6, <1>7, <1>8
<1> HIDE DEF free, n, f
<1>10. s = f
  BY <1>1, <1>9 DEF f
<1> QED
  BY <1>10 DEF f

\* An argument gets the two slots behind those of the last.
LEMMA OneArg ==
  ASSUME NEW k \in 1 .. Len(ArgTypes), NEW p, ArgsIn(k - 1, p)
  PROVE  ArgsIn(k, PushArg(p, ArgTypes[k]))
<1> DEFINE t == ArgTypes[k]
           f == p.firstDynamic
           n == GetTypeNumSlots(t)
           words == SubSeq(<<Name(f), Name(f + 1)>>, 1, n)
           a == Result(PushAllocatedSlot(p, t), words)
           q == PushArg(p, t)
           s == FreeSlot(p, t, p.firstDynamic, MaxFunctionSlots)
           x == [type |-> t, slot |-> s]
<1>1. t \in ValueType
  BY SignatureAssumption
<1>2. q = [a EXCEPT !.firstDynamic = f + 2]
  BY DEF PushArg
<1> HIDE DEF words, q, t
<1>3. Opening(p) /\ f \in Nat /\ n \in 1 .. 2 /\ k - 1 \in Nat /\ k - 1 + 1 = k
  <2>1. Opening(p) /\ f \in Nat
    BY DEF ArgsIn, Opening, Typed
  <2>2. n \in 1 .. 2
    BY Types
  <2>3. k - 1 \in Nat /\ k - 1 + 1 = k
    BY Numbers
  <2> QED
    BY <2>1, <2>2, <2>3
<1>4. Opening(a) /\ a.firstDynamic = f /\ (~a.failed => PushedIn(p, t, s, a))
  BY <1>1, <1>3, OpeningPush
<1> HIDE DEF a, f
<1>5. f + 2 \in Nat
  BY <1>3
<1>6. Opening(q) /\ q.firstDynamic = f + 2 /\ q.failed = a.failed /\ q.stack = a.stack
      /\ q.reg = a.reg /\ q.count = a.count
  BY <1>2, <1>4, <1>5 DEF Opening, Typed, Fields
<1>7. ASSUME ~q.failed
      PROVE  /\ Apart(q.stack, k) /\ Unused(q)
             /\ q.firstDynamic % 2 = 0
             /\ \A i \in 1 .. k : Ends(q.stack[i]) <= q.firstDynamic
             /\ \A y \in q.firstDynamic .. MaxFunctionSlots - 1 : q.count[y] = 0
  <2>1. PushedIn(p, t, s, a)
    BY <1>4, <1>6, <1>7
  <2> HIDE DEF s
  <2>2. /\ s \in Nat /\ f <= s /\ s + n <= MaxFunctionSlots /\ ~p.failed
        /\ q.stack = Append(p.stack, x) /\ q.reg = p.reg
        /\ q.count = Marked(p.count, s, s + n)
    BY <2>1, <1>6 DEF PushedIn, f
  <2>3. /\ Apart(p.stack, k - 1) /\ Unused(p) /\ f % 2 = 0
        /\ \A i \in 1 .. k - 1 : Ends(p.stack[i]) <= f
        /\ \A y \in f .. MaxFunctionSlots - 1 : p.count[y] = 0
    BY <2>2 DEF ArgsIn, f
  <2>4. s = f
    BY <2>2, <2>3, <1>3, FirstFree DEF Opening, f, n, s
  <2>5. x \in Item /\ InSlots(x) /\ x.slot = s /\ x.type = t
    BY <1>1, <2>2 DEF Item, InSlots
  <2> HIDE DEF x, n
  <2>6. \A i \in 1 .. k - 1 : p.stack[i].slot # s
    <3> TAKE i \in 1 .. k - 1
    <3>1. p.stack[i].slot \in Nat /\ GetTypeNumSlots(p.stack[i].type) \in 1 .. 2
      BY <2>3, ItemFacts, Types DEF Apart
    <3>2. p.stack[i].slot + GetTypeNumSlots(p.stack[i].type) <= s
      BY <2>3, <2>4 DEF Ends
    <3> QED
      BY <3>1, <3>2, <2>2
  <2>7. p.stack \in Seq(Item)
    BY <1>3 DEF Opening, Typed, StackOk
  <2>8. /\ Apart(q.stack, k) /\ q.stack[k] = x /\ \A i \in 1 .. k - 1 : q.stack[i] = p.stack[i]
    <3>1. LET new == Append(p.stack, x) IN
         /\ Apart(new, k - 1 + 1) /\ new[k - 1 + 1] = x /\ \A i \in 1 .. k - 1 : new[i] = p.stack[i]
      BY <2>3, <2>5, <2>6, <2>7, ApartAppend
    <3> QED
      BY <3>1, <2>2, <1>3
  <2>9. Unused(q)
    BY <2>2, <2>3 DEF Unused
  <2>10. (f + 2) % 2 = 0
    BY <2>3, <1>3
  <2>11. \A i \in 1 .. k : Ends(q.stack[i]) <= f + 2
    <3> TAKE i \in 1 .. k
    <3>1. CASE i = k
      <4>1. Ends(x) = s + n
        BY <2>5 DEF Ends, n
      <4> QED
        BY <4>1, <3>1, <2>2, <2>4, <2>8, <1>3
    <3>2. CASE i # k
      <4>1. i \in 1 .. k - 1
        BY <3>2, <1>3
      <4>2. q.stack[i] = p.stack[i] /\ Ends(p.stack[i]) <= f
        BY <4>1, <2>3, <2>8
      <4>3. Ends(p.stack[i]) \in Nat
        <5> DEFINE z == p.stack[i]
        <5>1. z \in Item
          BY <4>1, <2>3 DEF Apart
        <5> HIDE DEF z
        <5>2. z.slot \in Nat /\ GetTypeNumSlots(z.type) \in 1 .. 2
          BY <5>1, ItemFacts, Types
        <5>3. Ends(z) \in Nat
          BY <5>2 DEF Ends
        <5> QED
          BY <5>3 DEF z
      <4> QED
        BY <4>2, <4>3, <1>3
    <3> QED
      BY <3>1, <3>2
  <2>12. \A y \in f + 2 .. MaxFunctionSlots - 1 : q.count[y] = 0
    <3> TAKE y \in f + 2 .. MaxFunctionSlots - 1
    <3>1. y \in f .. MaxFunctionSlots - 1 /\ y \in 0 .. MaxFunctionSlots - 1
      BY <1>3, <2>4, Numbers
    <3>2. DOMAIN p.count = 0 .. MaxFunctionSlots - 1
      BY <1>3 DEF Opening, Typed
    <3>3. q.count[y] = p.count[y]
      <4> DEFINE c == p.count
                 z == s + n
      <4>1. y \in DOMAIN c
        BY <3>1, <3>2
      <4>2. q.count = Marked(c, s, z)
        BY <2>2
      <4>3. y \notin s .. z - 1
        <5>1. y >= f + 2 /\ y \in Int /\ z = f + n
          BY <3>1, <2>4, <1>3
        <5>2. z - 1 < y
          BY <5>1, <1>3
        <5> HIDE DEF z
        <5>3. z \in Int
          BY <5>1, <1>3
        <5> QED
          BY <5>1, <5>2, <5>3, <1>3, <2>2
      <4> HIDE DEF c, z
      <4>4. Marked(c, s, z)[y] = IF y \in s .. z - 1 THEN 1 ELSE c[y]
        BY <4>1, MarkedAt
      <4> QED
        BY <4>2, <4>3, <4>4 DEF c
    <3> QED
      BY <3>1, <3>3, <2>3
  <2> QED
    BY <2>8, <2>9, <2>10, <2>11, <2>12, <1>6
<1>8. ArgsIn(k, q)
  BY <1>6, <1>7 DEF ArgsIn
<1> QED
  BY <1>8 DEF q, t

\* Where an item begins and ends.
LEMMA InSlotsEnds ==
  ASSUME NEW x \in Item, InSlots(x)
  PROVE  /\ x.slot \in 0 .. MaxFunctionSlots - 1 /\ Ends(x) - 1 \in 0 .. MaxFunctionSlots - 1
         /\ x.slot \in Nat /\ Ends(x) \in Nat /\ x.slot < Ends(x) /\ Ends(x) = x.slot + GetTypeNumSlots(x.type)
<1> DEFINE a == x.slot
           n == GetTypeNumSlots(x.type)
<1>1. a \in Nat /\ n \in 1 .. 2
  BY ItemFacts, Types
<1>2. a + n <= MaxFunctionSlots /\ Ends(x) = a + n
  BY DEF InSlots, Ends
<1> HIDE DEF a, n
<1>3. a + n - 1 \in 0 .. MaxFunctionSlots - 1 /\ a \in 0 .. MaxFunctionSlots - 1
  BY <1>1, <1>2, Numbers
<1> QED
  BY <1>1, <1>2, <1>3 DEF a, n

\* A slot in use stays in use.
LEMMA MarkedStays ==
  ASSUME NEW count, NEW s \in Nat, NEW end \in Nat, s < end, NEW y \in DOMAIN count, y \in Nat
  PROVE  LET new == Marked(count, s, end) IN
         /\ count[y] # 0 => new[y] # 0
         /\ s <= y /\ y < end => new[y] = 1
<1>1. Marked(count, s, end)[y] = IF y \in s .. end - 1 THEN 1 ELSE count[y]
  BY MarkedAt
<1>2. s <= y /\ y < end => y \in s .. end - 1
  OBVIOUS
<1> QED
  BY <1>1, <1>2

\* A local gets slots that are free.
LEMMA OneLocal ==
  ASSUME NEW k \in 1 .. Len(LocalTypes), NEW p, LocalsIn(k - 1, p)
  PROVE  LocalsIn(k, PushLocal(p, LocalTypes[k]))
<1> DEFINE t == LocalTypes[k]
           f == p.firstDynamic
           n == GetTypeNumSlots(t)
           words == [j \in 1 .. n |-> Zero]
           q == PushLocal(p, t)
           s == FreeSlot(p, t, p.firstDynamic, MaxFunctionSlots)
           x == [type |-> t, slot |-> s]
           a == Len(ArgTypes)
           h == a + (k - 1)
           In(z, r) == \/ Ends(z) <= r.firstDynamic
                       \/ r.firstDynamic <= z.slot /\ Ends(z) <= r.top
                          /\ r.count[z.slot] # 0 /\ r.count[Ends(z) - 1] # 0
<1>1. t \in ValueType
  BY SignatureAssumption
<1>2. q = Result(PushAllocatedSlot(p, t), words)
  BY DEF PushLocal
<1> HIDE DEF words, q, t
<1>3. Opening(p) /\ f \in Nat /\ n \in 1 .. 2 /\ p.top \in Nat
  <2>1. Opening(p) /\ f \in Nat /\ p.top \in Nat
    BY DEF LocalsIn, Opening, Typed
  <2>2. n \in 1 .. 2
    BY Types
  <2> QED
    BY <2>1, <2>2
<1>4. h \in Nat /\ h + 1 = a + k /\ a + k \in Nat
  <2>1. a \in Nat /\ k \in Nat /\ k - 1 \in Nat
    BY Numbers
  <2> HIDE DEF a
  <2> QED
    BY <2>1
<1>5. Opening(q) /\ q.firstDynamic = f /\ (~q.failed => PushedIn(p, t, s, q))
  BY <1>1, <1>2, <1>3, OpeningPush
<1> HIDE DEF f, a, h, In
<1>6. ASSUME ~q.failed
      PROVE  /\ Apart(q.stack, a + k) /\ Unused(q) /\ q.top >= q.firstDynamic
             /\ \A i \in 1 .. a + k : In(q.stack[i], q)
  <2>1. PushedIn(p, t, s, q)
    BY <1>5, <1>6
  <2> HIDE DEF s
  <2>2. /\ s \in Nat /\ f <= s /\ s + n <= MaxFunctionSlots /\ ~p.failed /\ p.count[s] = 0
        /\ q.stack = Append(p.stack, x) /\ q.reg = p.reg
        /\ q.count = Marked(p.count, s, s + n) /\ q.top = Max({p.top, s + n})
    BY <2>1 DEF PushedIn, f
  <2>3. Apart(p.stack, h) /\ Unused(p) /\ \A i \in 1 .. h : In(p.stack[i], p)
    BY <2>2 DEF LocalsIn, h, a, In
  <2>4. x \in Item /\ InSlots(x) /\ x.slot = s /\ x.type = t
    BY <1>1, <2>2 DEF Item, InSlots
  <2> HIDE DEF x, n
  <2>5. Ends(x) = s + n
    BY <2>4 DEF Ends, n
  <2>6. \A i \in 1 .. h : p.stack[i] \in Item /\ InSlots(p.stack[i])
    BY <2>3 DEF Apart
  <2>7. \A i \in 1 .. h : p.stack[i].slot # s
    <3> TAKE i \in 1 .. h
    <3> DEFINE z == p.stack[i]
    <3>1. z \in Item /\ InSlots(z) /\ In(z, p)
      BY <2>3, <2>6
    <3> HIDE DEF z
    <3>2. z.slot \in Nat /\ Ends(z) \in Nat /\ z.slot < Ends(z)
      BY <3>1, InSlotsEnds
    <3>3. Ends(z) <= f \/ p.count[z.slot] # 0
      BY <3>1 DEF f, In
    <3>4. z.slot # s
      BY <3>2, <3>3, <2>2, <1>3
    <3> QED
      BY <3>4 DEF z
  <2>8. p.stack \in Seq(Item)
    BY <1>3 DEF Opening, Typed, StackOk
  <2>9. /\ Apart(q.stack, a + k) /\ q.stack[a + k] = x /\ \A i \in 1 .. h : q.stack[i] = p.stack[i]
    <3>1. LET new == Append(p.stack, x) IN
         /\ Apart(new, h + 1) /\ new[h + 1] = x /\ \A i \in 1 .. h : new[i] = p.stack[i]
      <4> DEFINE v == p.stack
      <4>1. Apart(v, h) /\ v \in Seq(Item)
        BY <2>3, <2>8
      <4>2. \A i \in 1 .. h : v[i].slot # x.slot
        BY <2>4, <2>7
      <4> HIDE DEF v
      <4>3. LET new == Append(v, x) IN
         /\ Apart(new, h + 1) /\ new[h + 1] = x /\ \A i \in 1 .. h : new[i] = v[i]
        BY <4>1, <4>2, <2>4, <1>4, ApartAppend
      <4> QED
        BY <4>3 DEF v
    <3> QED
      BY <3>1, <2>2, <1>4
  <2>10. Unused(q)
    BY <2>2, <2>3 DEF Unused
  <2>11. q.top >= p.top /\ q.top >= s + n /\ q.top \in Nat
    <3> DEFINE e == s + n
    <3>1. e \in Nat /\ q.top = Max({p.top, e})
      BY <2>2, <1>3
    <3> HIDE DEF e
    <3>2. Max({p.top, e}) = IF p.top >= e THEN p.top ELSE e
      BY <3>1, <1>3, MaxOfTwo
    <3>3. q.top >= p.top /\ q.top >= e /\ q.top \in Nat
      BY <3>1, <3>2, <1>3
    <3> QED
      BY <3>3 DEF e
  <2>12. DOMAIN p.count = 0 .. MaxFunctionSlots - 1
    BY <1>3 DEF Opening, Typed
  <2>13. \A i \in 1 .. a + k : In(q.stack[i], q)
    <3> TAKE i \in 1 .. a + k
    <3>1. CASE i = a + k
      <4>1. x.slot \in DOMAIN p.count /\ Ends(x) - 1 \in DOMAIN p.count
            /\ x.slot \in Nat /\ Ends(x) - 1 \in Nat
        BY <2>4, <2>12, InSlotsEnds
      <4>2. q.count[x.slot] = 1 /\ q.count[Ends(x) - 1] = 1
        <5> DEFINE c == p.count
                   e == s + n
                   y == e - 1
        <5>1. e \in Nat /\ s < e
          BY <2>2, <1>3
        <5>2. q.count = Marked(c, s, e) /\ x.slot = s /\ Ends(x) = e
          BY <2>2, <2>4, <2>5
        <5> HIDE DEF c, e
        <5>3. s \in DOMAIN c /\ y \in DOMAIN c /\ y \in Nat
          BY <5>2, <4>1 DEF c
        <5>4. Marked(c, s, e)[s] = 1
          BY <5>1, <5>3, <2>2, MarkedStays
        <5>a. s <= y /\ y < e
          BY <5>1, <2>2
        <5> HIDE DEF y
        <5>5. Marked(c, s, e)[y] = 1
          BY <5>1, <5>3, <5>a, <2>2, MarkedStays
        <5> QED
          BY <5>2, <5>4, <5>5 DEF y
      <4>3. In(x, q)
        BY <4>2, <2>2, <2>4, <2>5, <2>11, <1>5 DEF In
      <4> QED
        BY <4>3, <3>1, <2>9
    <3>2. CASE i # a + k
      <4>1. i \in 1 .. h
        BY <3>2, <1>4
      <4> DEFINE z == p.stack[i]
      <4>2. z \in Item /\ InSlots(z) /\ In(z, p) /\ q.stack[i] = z
        BY <4>1, <2>3, <2>6, <2>9
      <4> HIDE DEF z
      <4>3. z.slot \in DOMAIN p.count /\ Ends(z) - 1 \in DOMAIN p.count
            /\ z.slot \in Nat /\ Ends(z) - 1 \in Nat /\ Ends(z) \in Nat
        BY <4>2, <2>12, InSlotsEnds
      <4>4. /\ p.count[z.slot] # 0 => q.count[z.slot] # 0
            /\ p.count[Ends(z) - 1] # 0 => q.count[Ends(z) - 1] # 0
        <5> DEFINE c == p.count
                   e == s + n
                   y == Ends(z) - 1
                   u == z.slot
        <5>1. e \in Nat /\ s < e
          BY <2>2, <1>3
        <5>2. q.count = Marked(c, s, e)
          BY <2>2
        <5>3. u \in DOMAIN c /\ y \in DOMAIN c /\ u \in Nat /\ y \in Nat
          BY <4>3
        <5> HIDE DEF c, e, y, u
        <5>4. c[u] # 0 => Marked(c, s, e)[u] # 0
          BY <5>1, <5>3, <2>2, MarkedStays
        <5>5. c[y] # 0 => Marked(c, s, e)[y] # 0
          BY <5>1, <5>3, <2>2, MarkedStays
        <5> QED
          BY <5>2, <5>4, <5>5 DEF c, y, u
      <4>5. Ends(z) <= p.top => Ends(z) <= q.top
        BY <4>3, <2>11, <1>3
      <4>6. In(z, q)
        BY <4>2, <4>4, <4>5, <1>5 DEF f, In
      <4> QED
        BY <4>2, <4>6
    <3> QED
      BY <3>1, <3>2
  <2>14. q.top >= q.firstDynamic
    <3>1. p.top >= f
      BY <2>2 DEF LocalsIn, f
    <3> QED
      BY <3>1, <2>11, <1>3, <1>5
  <2> QED
    BY <2>9, <2>10, <2>13, <2>14
<1>7. LocalsIn(k, q)
  BY <1>5, <1>6 DEF LocalsIn, a, In
<1> QED
  BY <1>7 DEF q, t

\* No argument is there,
LEMMA StartIn ==
  ArgsIn(0, Start)
<1> DEFINE d == 2 * Len(RetTypes)
           count == [s \in 0 .. MaxFunctionSlots - 1 |-> IF s < d THEN 1 ELSE 0]
           reg == [r \in Registers |-> 0]
<1>0. /\ Start.failed \in BOOLEAN /\ Start.ignored \in BOOLEAN
      /\ Start.failed = FALSE /\ Start.ignored = FALSE /\ Start.wild = FALSE
  BY DEF Start
<1>1. /\ Start.stack = <<>> /\ Start.reg = reg /\ Start.count = count /\ Start.firstDynamic = d
      /\ Start.skip = "no" /\ Start.to = 0
  BY DEF Start
<1>2. /\ DOMAIN Start = Fields /\ Start.top = 0 /\ Start.maxSlots = 0
      /\ Start.firstConst = 0 /\ Start.constEnd = 0
  BY DEF Start, Fields
<1>3. Typed(Start)
  <2>1. reg \in [Registers -> 0 .. MaxStackHeight]
    BY Numbers
  <2>2. count \in [0 .. MaxFunctionSlots - 1 -> 0 .. MaxUsageCount]
    <3>1. 0 \in 0 .. MaxUsageCount /\ 1 \in 0 .. MaxUsageCount
      BY Numbers
    <3> QED
      BY <3>1
  <2>3. StackOk(<<>>)
    BY Numbers DEF StackOk
  <2>4. d \in Nat
    BY Numbers
  <2> HIDE DEF reg, count, d
  <2> QED
    BY <1>0, <1>1, <1>2, <2>1, <2>2, <2>3, <2>4 DEF Typed
<1>4. Opening(Start)
  BY <1>0, <1>1, <1>3 DEF Opening
<1>5. Apart(Start.stack, 0)
  BY <1>1 DEF Apart
<1>6. Unused(Start)
  BY <1>1 DEF Unused
<1>7. d \in Nat /\ d % 2 = 0
  BY Numbers
<1>8. \A i \in 1 .. 0 : Ends(Start.stack[i]) <= Start.firstDynamic
  OBVIOUS
<1>9. \A s \in d .. MaxFunctionSlots - 1 : count[s] = 0
  <2> HIDE DEF d
  <2> QED
    BY <1>7
<1> HIDE DEF count, d, reg
<1>10. \A s \in Start.firstDynamic .. MaxFunctionSlots - 1 : Start.count[s] = 0
  BY <1>1, <1>9
<1> QED
  BY <1>1, <1>4, <1>5, <1>6, <1>7, <1>8, <1>10 DEF ArgsIn

\* then all are,
LEMMA AllArgs ==
  LocalsIn(0, WithArgs)
<1>1. PICK f : /\ f[0] = Start
               /\ \A k \in 1 .. Len(ArgTypes) : f[k] = PushArg(f[k - 1], ArgTypes[k])
               /\ WithArgs = [f[Len(ArgTypes)] EXCEPT !.top = f[Len(ArgTypes)].firstDynamic]
  BY PushArgsSteps
<1> DEFINE a == Len(ArgTypes)
           S == {k \in 0 .. a : ArgsIn(k, f[k])}
           g == f[a]
<1>2. a \in Nat
  BY Numbers
<1>3. 0 \in S
  BY <1>1, <1>2, StartIn
<1>4. ASSUME NEW k \in 1 .. a, k - 1 \in S PROVE k \in S
  <2>1. ArgsIn(k - 1, f[k - 1]) /\ k \in 0 .. a
    BY <1>2, <1>4
  <2>2. ArgsIn(k, PushArg(f[k - 1], ArgTypes[k]))
    BY <2>1, OneArg
  <2> QED
    BY <2>1, <2>2, <1>1
<1>5. ArgsIn(a, g)
  <2>1. a \in S
    <3> HIDE DEF S, a
    <3>1. \A k \in 0 .. a : k \in S
      BY <1>2, <1>3, <1>4, UpTo
    <3> QED
      BY <3>1, <1>2
  <2> QED
    BY <2>1
<1> HIDE DEF S, g
<1>6. WithArgs = [g EXCEPT !.top = g.firstDynamic]
  BY <1>1 DEF g
<1> DEFINE q == WithArgs
<1> HIDE DEF q
<1>7. Opening(q) /\ q.failed = g.failed /\ q.stack = g.stack /\ q.reg = g.reg
      /\ q.firstDynamic = g.firstDynamic /\ q.top = g.firstDynamic /\ g.firstDynamic \in Nat
  BY <1>5, <1>6 DEF ArgsIn, Opening, Typed, Fields, q
<1>8. a + 0 = a
  BY <1>2
<1>10. q.top >= q.firstDynamic
  BY <1>7
<1>9. LocalsIn(0, q)
  BY <1>10, <1>5, <1>7, <1>8 DEF ArgsIn, LocalsIn, Unused
<1> QED
  BY <1>9 DEF q

\* and then all other locals.
LEMMA AllLocals ==
  LocalsIn(Len(LocalTypes), WithLocals)
<1>1. PICK f : /\ f[0] = WithArgs
               /\ \A k \in 1 .. Len(LocalTypes) : f[k] = PushLocal(f[k - 1], LocalTypes[k])
               /\ WithLocals = f[Len(LocalTypes)]
  BY PushLocalsSteps
<1> DEFINE a == Len(LocalTypes)
           S == {k \in 0 .. a : LocalsIn(k, f[k])}
<1>2. a \in Nat
  BY Numbers
<1>3. 0 \in S
  BY <1>1, <1>2, AllArgs
<1>4. ASSUME NEW k \in 1 .. a, k - 1 \in S PROVE k \in S
  <2>1. LocalsIn(k - 1, f[k - 1]) /\ k \in 0 .. a
    BY <1>2, <1>4
  <2>2. LocalsIn(k, PushLocal(f[k - 1], LocalTypes[k]))
    BY <2>1, OneLocal
  <2> QED
    BY <2>1, <2>2, <1>1
<1>5. a \in S
  <2> HIDE DEF S, a
  <2>1. \A k \in 0 .. a : k \in S
    BY <1>2, <1>3, <1>4, UpTo
  <2> QED
    BY <2>1, <1>2
<1> QED
  BY <1>1, <1>5

\* Behind the highest slot in use.
LEMMA BehindAll ==
  ASSUME NEW p, Opening(p)
  PROVE  LET m == GetMaxUsedSlotPlusOne(p) IN
         /\ m \in Nat
         /\ p.top >= p.firstDynamic => m >= p.firstDynamic
         /\ \A s \in 0 .. MaxFunctionSlots - 1 :
              p.count[s] # 0 /\ p.firstDynamic <= s /\ s < p.top => s < m
<1> DEFINE f == p.firstDynamic
           g == p.top
           used == {s \in f .. g - 1 : s \in DOMAIN p.count => p.count[s] # 0}
           m == GetMaxUsedSlotPlusOne(p)
<1>1. f \in Nat /\ g \in Nat
  BY DEF Opening, Typed
<1>2. m = IF used = {} THEN Min({g, f}) ELSE Max(used) + 1
  BY DEF GetMaxUsedSlotPlusOne
<1>3. used \subseteq f .. g - 1
  OBVIOUS
<1>4. \A s \in 0 .. MaxFunctionSlots - 1 : p.count[s] # 0 /\ f <= s /\ s < g => s \in used
  <2> HIDE DEF f, g
  <2> QED
    BY <1>1
<1> HIDE DEF used, m, f, g
<1>5. CASE used = {}
  <2>1. Min({g, f}) = IF g <= f THEN g ELSE f
    BY <1>1, MinOfTwo
  <2>2. m \in Nat /\ (g >= f => m >= f)
    BY <2>1, <1>1, <1>2, <1>5
  <2> QED
    BY <2>2, <1>4, <1>5 DEF m, f, g
<1>6. CASE used # {}
  <2>1. g - 1 \in Int
    BY <1>1
  <2>2. Max(used) \in used /\ \A y \in used : y <= Max(used)
    BY <2>1, <1>1, <1>3, <1>6, GreatestInRange
  <2>3. Max(used) \in f .. g - 1 /\ m = Max(used) + 1
    BY <2>2, <1>2, <1>3, <1>6
  <2>4. m \in Nat /\ f <= m
    BY <2>3, <1>1
  <2>5. \A s \in 0 .. MaxFunctionSlots - 1 : s \in used => s < m
    BY <2>2, <2>3, <1>1
  <2> QED
    BY <2>4, <2>5, <1>4 DEF m, f, g
<1> QED
  BY <1>5, <1>6

\* The scope of the function, when the locals are there.
LEMMA FunctionEntered ==
  LET blocks == [Start.blocks EXCEPT ![1].exit = NumLocals, ![1].base = NumLocals] IN
  BlocksOk(blocks) /\ Base(blocks) = NumLocals /\ Len(blocks) = 1
<1> DEFINE a == [opcode |-> "func", type |-> [params |-> <<>>, results |-> RetTypes],
                 exit |-> 0, base |-> 0, poly |-> FALSE]
           s == <<a>>
           new == [s EXCEPT ![1].exit = NumLocals, ![1].base = NumLocals]
           b == [a EXCEPT !.exit = NumLocals, !.base = NumLocals]
<1>1. Start.blocks = s
  BY DEF Start
<1>2. a \in Scope /\ a.opcode = "func" /\ a.type.results = RetTypes
  BY DEF Scope
<1> HIDE DEF a
<1>3. /\ b \in Scope /\ b.opcode = "func" /\ b.type.results = RetTypes
      /\ b.exit = NumLocals /\ b.base = NumLocals
  BY <1>2, Numbers DEF Scope
<1>4. s \in Seq(Scope) /\ Len(s) = 1 /\ s[1] = a
  BY <1>2
<1> HIDE DEF s
<1>5. new \in Seq(Scope) /\ Len(new) = 1 /\ new[1] = b
  <2>1. new = [s EXCEPT ![1] = b]
    BY <1>4
  <2> HIDE DEF new, b
  <2>2. 1 \in 1 .. Len(s) /\ b \in Scope
    BY <1>3, <1>4
  <2>3. new \in Seq(Scope) /\ Len(new) = Len(s)
    BY <2>1, <2>2, <1>4, ExceptSeq
  <2>4. new[1] = b
    BY <2>1, <2>2, <1>4
  <2> QED
    BY <2>3, <2>4, <1>4
<1> HIDE DEF new, b
<1>6. BlocksOk(new) /\ Base(new) = NumLocals
  BY <1>3, <1>5 DEF BlocksOk, Base
<1> QED
  BY <1>1, <1>5, <1>6 DEF new

\* No local reaches into the slots of constants.
LEMMA LocalsEnd ==
  ASSUME NEW p, LocalsIn(Len(LocalTypes), p), ~p.failed
  PROVE  /\ Apart(p.stack, NumLocals) /\ Unused(p) /\ NumLocals \in Nat
         /\ \A i \in 1 .. NumLocals : Ends(p.stack[i]) <= GetMaxUsedSlotPlusOne(p)
<1> DEFINE m == GetMaxUsedSlotPlusOne(p)
           f == p.firstDynamic
<1>1. NumLocals = Len(ArgTypes) + Len(LocalTypes) /\ NumLocals \in Nat
  BY Numbers DEF NumLocals
<1>2. /\ Opening(p) /\ Apart(p.stack, NumLocals) /\ Unused(p)
      /\ \A i \in 1 .. NumLocals :
           LET x == p.stack[i] IN
           \/ Ends(x) <= p.firstDynamic
           \/ p.firstDynamic <= x.slot /\ Ends(x) <= p.top
              /\ p.count[x.slot] # 0 /\ p.count[Ends(x) - 1] # 0
  BY <1>1 DEF LocalsIn
<1>5. p.top >= f
  BY DEF LocalsIn
<1>3. f \in Nat /\ p.top \in Nat
  BY <1>2 DEF Opening, Typed
<1>4. /\ m \in Nat /\ (p.top >= f => m >= f)
      /\ \A s \in 0 .. MaxFunctionSlots - 1 : p.count[s] # 0 /\ f <= s /\ s < p.top => s < m
  BY <1>2, BehindAll
<1> HIDE DEF m
<1>6. \A i \in 1 .. NumLocals : Ends(p.stack[i]) <= m
  <2> TAKE i \in 1 .. NumLocals
  <2> DEFINE x == p.stack[i]
             e == Ends(x)
  <2>1. x \in Item /\ InSlots(x)
    BY <1>2 DEF Apart
  <2>2. \/ e <= f
        \/ f <= x.slot /\ e <= p.top /\ p.count[e - 1] # 0
    BY <1>2
  <2> HIDE DEF x
  <2>3. x.slot \in Nat /\ e \in Nat /\ x.slot < e /\ e - 1 \in 0 .. MaxFunctionSlots - 1
    BY <2>1, InSlotsEnds
  <2> HIDE DEF e
  <2>4. CASE f <= x.slot /\ e <= p.top /\ p.count[e - 1] # 0
    <3> DEFINE y == e - 1
    <3>1. f <= y /\ y < p.top
      BY <2>3, <2>4, <1>3
    <3> HIDE DEF y, f
    <3>2. y < m
      BY <3>1, <2>3, <2>4, <1>4 DEF y
    <3> QED
      BY <3>2, <2>3, <1>4 DEF y, e, x
  <2>5. CASE e <= f
    <3>1. p.top >= f
      BY <1>5
    <3> QED
      BY <2>3, <2>5, <1>3, <1>4, <3>1 DEF e, x
  <2> QED
    BY <2>2, <2>4, <2>5
<1> QED
  BY <1>1, <1>2, <1>6 DEF m

\* The state in which the compilation of the first instruction begins.
LEMMA EnteredOK ==
  /\ Typed(Entered) /\ Entered.blocks # <<>> /\ SkipOk(Entered)
  /\ ~Entered.failed => OK(Entered) /\ Len(Entered.stack) = NumLocals
<1> DEFINE p == WithLocals
           m == GetMaxUsedSlotPlusOne(p)
           d == m + AlignSlotToType(ReservedConstants, "i64")
           blocks == [Start.blocks EXCEPT ![1].exit = NumLocals, ![1].base = NumLocals]
           e == Entered
<1>1. LocalsIn(Len(LocalTypes), p)
  BY AllLocals
<1>2. Opening(p)
  BY <1>1 DEF LocalsIn
<1>3. m \in Nat
  BY <1>2, BehindAll
<1>4. d \in Nat /\ m <= d
  <2> DEFINE a == AlignSlotToType(ReservedConstants, "i64")
  <2>1. ReservedConstants \in Nat
    BY FunctionAssumption
  <2>2. a \in ReservedConstants .. ReservedConstants + 1
    BY <2>1, Even
  <2>3. d = m + a
    OBVIOUS
  <2> HIDE DEF a, m, d
  <2> QED
    BY <2>1, <2>2, <2>3, <1>3
<1>5. BlocksOk(blocks) /\ Base(blocks) = NumLocals /\ Len(blocks) = 1
  BY FunctionEntered
<1>6. /\ e = [p EXCEPT !.firstConst = m, !.constEnd = m,
                       !.firstDynamic = d, !.top = d, !.maxSlots = d,
                       !.blocks[1].exit = NumLocals, !.blocks[1].base = NumLocals,
                       !.failed = @ \/ d >= MaxFunctionSlots]
      /\ p.blocks = Start.blocks
  BY <1>2 DEF Entered, ReserveConstants, Opening
<1> HIDE DEF m, d, p, e
<1>7. DOMAIN p = Fields /\ p.failed \in BOOLEAN
  BY <1>2 DEF Opening, Typed
<1>8. /\ DOMAIN e = Fields
      /\ e.stack = p.stack /\ e.reg = p.reg /\ e.count = p.count
      /\ e.skip = p.skip /\ e.to = p.to /\ e.ignored = p.ignored /\ e.wild = p.wild
  BY <1>6, <1>7 DEF Fields
<1>9. /\ e.firstConst = m /\ e.constEnd = m /\ e.firstDynamic = d /\ e.top = d /\ e.maxSlots = d
      /\ e.failed = (p.failed \/ d >= MaxFunctionSlots)
  BY <1>6, <1>7 DEF Fields
<1>14. e.blocks = blocks
  <2>1. "blocks" \in DOMAIN p
    BY <1>7 DEF Fields
  <2>2. e.blocks = [p.blocks EXCEPT ![1].exit = NumLocals, ![1].base = NumLocals]
    BY <1>6, <2>1
  <2> QED
    BY <2>2, <1>6
<1> HIDE DEF blocks
<1>10. Typed(e)
  BY <1>2, <1>3, <1>4, <1>8, <1>9 DEF Opening, Typed
<1>11. e.blocks # <<>>
  BY <1>5, <1>14
<1>12. SkipOk(e)
  <2>1. e.skip = "no" /\ e.to = 0 /\ Len(e.blocks) = 1
    BY <1>2, <1>5, <1>8, <1>14 DEF Opening
  <2> QED
    BY <2>1 DEF SkipOk
<1>13. ASSUME ~e.failed PROVE OK(e) /\ Len(e.stack) = NumLocals
  <2>1. ~p.failed /\ ~(d >= MaxFunctionSlots)
    BY <1>9, <1>13
  <2>2. /\ Apart(p.stack, NumLocals) /\ Unused(p) /\ NumLocals \in Nat
        /\ \A i \in 1 .. NumLocals : Ends(p.stack[i]) <= m
    BY <1>1, <2>1, LocalsEnd DEF m
  <2>3. Len(p.stack) = NumLocals
    BY <2>2 DEF Apart
  <2>4. Bounds(e)
    BY <1>3, <1>4, <1>9, <2>1, Numbers DEF Bounds
  <2>5. \A i \in 1 .. NumLocals : p.stack[i].slot \notin Registers
    BY <2>2, ItemFacts DEF Apart
  <2>6. RegistersOk(p.stack, p.reg, NumLocals)
    BY <2>2, <2>3, Numbers DEF RegistersOk, Unused
  <2>7. OnlyRecords(p.stack, blocks)
    BY <1>5, <2>5 DEF OnlyRecords
  <2>8. LocalsOk(p.stack, m)
    <3>1. \A i \in 1 .. NumLocals :
            p.stack[i].slot + GetTypeNumSlots(p.stack[i].type) <= m
      BY <2>2 DEF Ends
    <3>2. \A i, j \in 1 .. NumLocals : p.stack[i].slot = p.stack[j].slot => i = j
      BY <2>2 DEF Apart
    <3> QED
      BY <2>3, <3>1, <3>2 DEF LocalsOk
  <2>9. Sound(p.stack, p.reg, blocks, m)
    <3>1. \A k \in 2 .. Len(blocks) : RecordsOk(p.stack, blocks[k])
      BY <1>5
    <3> QED
      BY <1>5, <2>2, <2>3, <2>6, <2>7, <2>8, <3>1 DEF Sound
  <2> QED
    BY <1>5, <1>8, <1>9, <1>14, <1>10, <2>2, <2>3, <2>4, <2>9 DEF OK
<1> QED
  BY <1>10, <1>11, <1>12, <1>13 DEF e

\* Init => IInv
LEMMA InitOK ==
  ASSUME Init
  PROVE  IInv
<1>1. o = Entered /\ w = [vals |-> <<>>, labels |-> <<[height |-> 0, arity |-> Len(RetTypes)]>>,
                          locals |-> [i \in 1 .. NumLocals |-> Read(o, o.stack[i])]]
  BY DEF Init
<1>2. MachineOk(w)
  BY <1>1 DEF MachineOk
<1>3. Good => OK(o)
  BY <1>1, EnteredOK DEF Good
<1> QED
  BY <1>1, <1>2, <1>3, EnteredOK DEF IInv

\* IInv /\ [Next]_vars => IInv'
LEMMA NextOK ==
  ASSUME IInv, "fp_results" \notin Allowed, "high_calls" \notin Allowed, [Next]_vars
  PROVE  IInv'
<1>1. CASE Next
  <2>1. CASE \E c \in Constants : Const(c)
    BY <2>1, ConstStep
  <2>2. CASE \E i \in 1 .. NumLocals : LocalGet(i)
    BY <2>2, LocalGetStep
  <2>3. CASE \E i \in 1 .. NumLocals, tee \in BOOLEAN : LocalSet(i, tee)
    BY <2>3, LocalSetStep
  <2>4. CASE Drop
    BY <2>4, DropStep
  <2>5. CASE \E t \in GlobalTypes : GlobalGet(t) \/ GlobalSet(t)
    BY <2>5, GlobalGetStep, GlobalSetStep
  <2>6. CASE \E op \in Operators : Operate(op)
    BY <2>6, OperateStep
  <2>7. CASE \E op \in Conversions : Convert(op)
    BY <2>7, ConvertStep
  <2>8. CASE \E t \in SelectTypes : Select(t)
    BY <2>8, SelectStep
  <2>9. CASE MemorySize \/ MemoryGrow \/ MemoryCopyFill
    BY <2>9, MemorySizeStep, MemoryGrowStep, MemoryCopyFillStep
  <2>10. CASE \E call \in CallTypes, indirect \in BOOLEAN : Call(call, indirect)
    BY <2>10, CallStep
  <2>11. CASE \E opcode \in {"block", "loop"}, type \in BlockTypes : LoopOrBlock(opcode, type)
    BY <2>11, LoopOrBlockStep
  <2>12. CASE \E type \in BlockTypes, taken \in BOOLEAN : If(type, taken)
    BY <2>12, IfStep
  <2>13. CASE Else
    BY <2>13, ElseStep
  <2>14. CASE End
    BY <2>14, EndStep
  <2>15. CASE \E k \in DOMAIN o.blocks : Br(k) \/ BrLoop(k)
    BY <2>15, BrStep, BrLoopStep
  <2>16. CASE \E k \in DOMAIN o.blocks, taken \in BOOLEAN : BrIf(k, taken)
    BY <2>16, BrIfStep
  <2>17. CASE \E first, second \in DOMAIN o.blocks, chosen \in 1 .. 2 :
                BrTable(<<first, second>>, chosen)
    BY <2>17, BrTableStep
  <2>18. CASE Return
    BY <2>18, ReturnStep
  <2> QED
    BY <1>1, <2>1, <2>2, <2>3, <2>4, <2>5, <2>6, <2>7, <2>8, <2>9, <2>10, <2>11, <2>12, <2>13,
       <2>14, <2>15, <2>16, <2>17, <2>18 DEF Next
<1>2. CASE UNCHANGED vars
  BY <1>2 DEF vars, IInv, Good
<1> QED
  BY <1>1, <1>2

\* IInv => TypeOK
LEMMA TypesOfIInv ==
  ASSUME IInv
  PROVE  TypeOK
<1>1. Typed(o) /\ SkipOk(o) /\ MachineOk(w)
  BY DEF IInv
<1>2. o.stack \in Seq(Item) /\ Len(o.stack) <= MaxStackHeight
      /\ \A i \in 1 .. Len(o.stack) :
           o.stack[i].slot = RegisterOf(o.stack[i].type) \/ InSlots(o.stack[i])
  BY <1>1 DEF Typed, StackOk
<1>3. \A i \in DOMAIN o.stack : o.stack[i].type \in ValueType /\ o.stack[i].slot \in Addresses
  <2> TAKE i \in DOMAIN o.stack
  <2> DEFINE x == o.stack[i]
  <2>1. i \in 1 .. Len(o.stack) /\ x \in Item
    BY <1>2
  <2>2. x.slot = RegisterOf(x.type) \/ InSlots(x)
    BY <1>2, <2>1
  <2> HIDE DEF x
  <2>3. x.slot \in Nat /\ x.type \in ValueType
    BY <2>1 DEF Item
  <2>4. CASE x.slot = RegisterOf(x.type)
    <3>1. x.slot \in {Reg0, Fp0}
      BY <2>4 DEF RegisterOf
    <3> QED
      BY <2>3, <3>1, Numbers DEF Addresses, x
  <2>5. CASE InSlots(x)
    <3>1. x.slot < MaxFunctionSlots
      BY <2>1, <2>5, ItemFacts
    <3> QED
      BY <2>3, <3>1, Numbers DEF Addresses, x
  <2> QED
    BY <2>2, <2>4, <2>5
<1>4. Len(w.locals) = NumLocals
  BY <1>1, Numbers DEF MachineOk
<1> QED
  BY <1>1, <1>2, <1>3, <1>4 DEF TypeOK, Typed, SkipOk

\* What is live in a register is behind the base of the innermost scope: what
\* is before it in one is a record of a result.
LEMMA RegistersOfIInv ==
  ASSUME IInv
  PROVE  RegistersAgree
<1> SUFFICES ASSUME Good, NEW r \in Registers
             PROVE  {i \in Live(o) : o.stack[i].slot = r} = IF o.reg[r] = 0 THEN {} ELSE {o.reg[r]}
  BY DEF RegistersAgree
<1> DEFINE base == Base(o.blocks)
           n == Len(o.stack)
<1>1. /\ Typed(o) /\ BlocksOk(o.blocks) /\ base <= n
      /\ Sound(o.stack, o.reg, o.blocks, o.firstConst)
  BY DEF IInv, Good, OK
<1>2. /\ RegistersOk(o.stack, o.reg, base) /\ OnlyRecords(o.stack, o.blocks)
  BY <1>1 DEF Sound
<1>3. n \in Nat /\ base \in Nat /\ DOMAIN o.stack = 1 .. n /\ o.reg[r] \in Nat
  <2>1. base \in Nat
    BY <1>1, ScopeFacts
  <2>2. o.stack \in Seq(Item)
    BY <1>1 DEF Typed, StackOk
  <2>3. o.reg[r] \in 0 .. MaxStackHeight
    BY <1>1 DEF Typed
  <2> QED
    BY <2>1, <2>2, <2>3, Numbers
<1>4. ASSUME NEW i \in 1 .. n, i <= base, o.stack[i].slot = r PROVE i \notin Live(o)
  <2>1. PICK k \in 2 .. Len(o.blocks) : o.blocks[k].exit < i /\ i <= o.blocks[k].base
    BY <1>2, <1>3, <1>4 DEF OnlyRecords
  <2>2. o.blocks[k] \in Range(o.blocks)
    BY <1>1, <2>1 DEF BlocksOk, Range
  <2>3. o.blocks[k].exit \in Nat /\ o.blocks[k].base \in Nat
    BY <1>1, <2>1, ScopeFacts
  <2> QED
    BY <2>1, <2>2, <2>3 DEF Live
<1>5. ASSUME NEW i \in base + 1 .. n PROVE i \in Live(o)
  <2>1. \A k \in 1 .. Len(o.blocks) : o.blocks[k].base \in Nat /\ o.blocks[k].base <= base
    BY <1>1, ScopeFacts
  <2>2. \A b \in Range(o.blocks) : i > b.base
    BY <1>1, <1>3, <2>1 DEF BlocksOk, Range
  <2>3. i \in DOMAIN o.stack
    BY <1>3
  <2> QED
    BY <2>2, <2>3 DEF Live
<1>6. \A i \in Live(o) : i \in 1 .. n
  BY <1>3 DEF Live
<1>7. /\ o.reg[r] # 0 => o.reg[r] \in base + 1 .. n /\ o.stack[o.reg[r]].slot = r
      /\ \A i \in base + 1 .. n : o.stack[i].slot = r => o.reg[r] = i
  BY <1>2 DEF RegistersOk
<1> HIDE DEF base, n
<1>8. \A i \in Live(o) : o.stack[i].slot = r => i \in base + 1 .. n /\ o.reg[r] = i /\ i # 0
  BY <1>3, <1>4, <1>6, <1>7
<1>9. CASE o.reg[r] = 0
  BY <1>8, <1>9
<1>10. CASE o.reg[r] # 0
  BY <1>5, <1>7, <1>8, <1>10
<1> QED
  BY <1>9, <1>10

\* The inductive invariant: which items are in slots, which in registers, what
\* is below the base of each scope, and that none but locals and references to
\* them are in the slots of locals.  Two things that the code does not guard
\* against are excluded: a floating-point result on top of others, for which
\* it lowers endIndex, and a call whose results are behind the last slot.
THEOREM Invariance ==
  ASSUME "fp_results" \notin Allowed, "high_calls" \notin Allowed
  PROVE  Spec => []IInv
<1>1. Init => IInv
  BY InitOK
<1>2. IInv /\ [Next]_vars => IInv'
  BY NextOK
<1> QED
  BY <1>1, <1>2, PTL DEF Spec

\* Every slot on the stack, in the tables of counts and registers, and in what
\* is emitted is one there is, for any function of any size.
THEOREM TypeCorrect ==
  ASSUME "fp_results" \notin Allowed, "high_calls" \notin Allowed
  PROVE  Spec => []TypeOK
<1>1. IInv => TypeOK
  BY TypesOfIInv
<1> QED
  BY <1>1, Invariance, PTL

\* regStackIndexPlusOne names, for each register, the one item that is in it,
\* or none: PreserveRegisterIfOccupied and Pop rely on it.
THEOREM RegistersAlwaysAgree ==
  ASSUME "fp_results" \notin Allowed, "high_calls" \notin Allowed
  PROVE  Spec => []RegistersAgree
<1>1. IInv => RegistersAgree
  BY RegistersOfIInv
<1> QED
  BY <1>1, Invariance, PTL
=============================================================================
