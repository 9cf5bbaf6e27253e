----------------------------- MODULE SlotAlloc -----------------------------
(***************************************************************************)
(* Where the compiler of m3_compile.c keeps the values of a function: the  *)
(* type stack and slot stack of M3Compilation, the use counts of the slots *)
(* (m3Slots), the two registers, the constant table, and the operations    *)
(* that move values between them.  The build is the default one, with      *)
(* 32-bit slots: a 64-bit value takes two slots, the first of them even.   *)
(*                                                                         *)
(* All operators take and return the compilation o, a record:              *)
(*   stack      wasmStack and typeStack up to stackIndex: [type, slot]     *)
(*   count      m3Slots                                                    *)
(*   reg        regStackIndexPlusOne, 0 when the register is not in use    *)
(*   top        slotMaxAllocatedIndexPlusOne                               *)
(*   maxSlots   maxStackSlots                                              *)
(*   firstConst, constEnd, firstDynamic   slotFirstConstIndex,             *)
(*              slotMaxConstIndex and slotFirstDynamicIndex                *)
(*   blocks     the scopes, the innermost last                             *)
(*   failed     an error was thrown; nothing else matters any more         *)
(*   ignored    an error was not passed on, and records are missing        *)
(* Code is executed as it is emitted, so o also holds the machine:         *)
(*   mem        the words in the slots and in the two registers            *)
(*   skip       why the code being emitted is not executed, or "no"        *)
(*   to         the scope at which execution goes on                       *)
(*   misread    an operation read something else than its operands         *)
(*   wild       an operation or the compiler used a slot there is not      *)
(* and a history, which nothing depends on:                                *)
(*   reach      the end of the furthest slots that an operation writes     *)
(*              behind the margin, 0 when none does                        *)
(*   values     the most arguments and results of a call so far            *)
(***************************************************************************)
EXTENDS Integers, Sequences, FiniteSets, FiniteSetsExt, SequencesExt, TLC

CONSTANTS
    MaxFunctionSlots,    \* d_m3MaxFunctionSlots, even
    MaxStackHeight,      \* d_m3MaxFunctionStackHeight
    MaxConstantTable,    \* d_m3MaxConstantTableSize
    MaxUsageCount,       \* 0xFF
    CalleeSlots,         \* slots of a called function's frame that are modelled
    NegativeWords        \* words that are negative as an i32

ASSUME LimitsAssumption ==
    /\ MaxFunctionSlots \in Nat /\ MaxFunctionSlots % 2 = 0
    /\ MaxStackHeight \in Nat
    /\ MaxConstantTable \in Nat
    /\ MaxUsageCount \in Nat \ {0}
    /\ CalleeSlots \in Nat /\ CalleeSlots % 2 = 0

-----------------------------------------------------------------------------
(* Types, slots and registers. *)

None == "none"
ValueType == {"i32", "i64", "f32", "f64"}
Is64BitType(t) == t \in {"i64", "f64"}
IsFpType(t)    == t \in {"f32", "f64"}
IsIntType(t)   == t \in {"i32", "i64"}

GetTypeNumSlots(t) == IF Is64BitType(t) THEN 2 ELSE 1

AlignSlotToType(s, t) == s + (s % GetTypeNumSlots(t))

\* The slots of a callee lie behind those of the function; the registers
\* get addresses behind all slots, as their aliases 60000 and 60002 do.
Reg0 == MaxFunctionSlots + CalleeSlots
Fp0  == Reg0 + 2
Registers  == {Reg0, Fp0}
Addresses  == 0 .. Fp0 + 1
SlotUnused == Fp0 + 2

RegisterOf(t)     == IF IsFpType(t) THEN Fp0 ELSE Reg0
IsRegister(slot)  == slot \in Registers

SlotsOf(item) == item.slot .. item.slot + GetTypeNumSlots(item.type) - 1

Fail(o) == [o EXCEPT !.failed = TRUE]

\* The macro _ of the code: it goes on, unless an error was thrown.
Then(o, Continue(_)) == IF o.failed THEN o ELSE Continue(o)

\* The loops: Do(_, 1), Do(_, 2), ... and Do(_, n), one after the other.
Iterate(n, Do(_, _), o) ==
    LET after[k \in 0 .. n] == IF k = 0 THEN o ELSE Do(after[k - 1], k)
    IN  after[n]

-----------------------------------------------------------------------------
(* The stack of the compiler and its scopes.  The items of a block between *)
(* exit and base are records: the saved parameters and the slots of the    *)
(* results.  They are on the stack only to be looked up.                   *)

Block(o) == Last(o.blocks)

Top(o, k) == o.stack[Len(o.stack) - k]

TopInRegister(o, k) == Len(o.stack) > k /\ IsRegister(Top(o, k).slot)

BlockHeight(o) == Len(o.stack) - Block(o).base

Live(o) == {i \in DOMAIN o.stack : \A b \in Range(o.blocks) : i <= b.exit \/ i > b.base}

-----------------------------------------------------------------------------
(* The machine. *)

Junk == 0

Word(o, a) == IF a \in DOMAIN o.mem THEN o.mem[a] ELSE Junk

Read(o, item) == [k \in 1 .. GetTypeNumSlots(item.type) |-> Word(o, item.slot + k - 1)]

Overwrite(mem, address, words) ==
    [a \in address .. address + Len(words) - 1 |-> words[a - address + 1]] @@ mem

Write(o, address, words) ==
    IF o.skip # "no" THEN o
    ELSE [o EXCEPT !.mem = Overwrite(@, address, words)]

\* What there is behind maxStackSlots: op_Entry has made sure of another slot;
\* m3_NewRuntime adds four.
StackMargin == 5

\* A slot that is written by an operation with a slot operand.
WriteSlot(o, slot, words) ==
    LET end == slot + Len(words)
        noted == IF end <= Max({o.reach, o.maxSlots + StackMargin}) THEN o
                 ELSE [o EXCEPT !.reach = end]
    IN  IF end > Reg0 THEN [o EXCEPT !.wild = TRUE] ELSE Write(noted, slot, words)

\* An operation has read these values, and should have read those.
Observe(o, got, expected) ==
    [o EXCEPT !.misread = @ \/ (o.skip = "no" /\ got # expected)]

-----------------------------------------------------------------------------
(* Slots and their use counts. *)

\* Mutant of FreeSlot: the loop goes up to and including the end.
FreeSlotUpToEnd(o, t, first, end) ==
    LET n == GetTypeNumSlots(t)
        free == {s \in AlignSlotToType(first, t) .. end :
                    /\ s % n = 0
                    /\ \A a \in (s .. s + n - 1) \cap DOMAIN o.count : o.count[a] = 0}
    IN  IF free = {} THEN SlotUnused ELSE Min(free)

FreeSlot(o, t, first, end) ==
    LET n == GetTypeNumSlots(t)
        free == {s \in AlignSlotToType(first, t) .. end - n :
                    /\ s % n = 0
                    /\ o.count[s] = 0
                    /\ o.count[s + n - 1] = 0}
    IN  IF free = {} THEN SlotUnused ELSE Min(free)

\* Mutant of MarkSlotsAllocated: maxStackSlots is not raised.
MarkSlotsAllocatedLow(o, slot, t) ==
    LET end == slot + GetTypeNumSlots(t)
    IN  [o EXCEPT !.count = [s \in DOMAIN @ |-> IF s \in slot .. end - 1 THEN 1 ELSE @[s]],
                  !.top = Max({@, end}),
                  !.wild = @ \/ end > MaxFunctionSlots]

MarkSlotsAllocated(o, slot, t) ==
    LET end == slot + GetTypeNumSlots(t)
    IN  [o EXCEPT !.count = [s \in DOMAIN @ |-> IF s \in slot .. end - 1 THEN 1 ELSE @[s]],
                  !.top = Max({@, end}),
                  !.maxSlots = Max({@, end}),
                  !.wild = @ \/ end > MaxFunctionSlots]

IncrementSlotUsageCount(o, slot, times) ==
    IF o.count[slot] + times > MaxUsageCount THEN Fail(o)
    ELSE [o EXCEPT !.count[slot] = @ + times]

\* Mutant of DeallocateSlot: the second slot of a 64-bit value is not given back.
DeallocateFirstSlot(o, item) == [o EXCEPT !.count[item.slot] = @ - 1]

\* The counts are bytes: a count of zero wraps around.
DeallocateSlot(o, item) ==
    LET Decrement(n) == (n + MaxUsageCount) % (MaxUsageCount + 1)
    IN  [o EXCEPT !.count = [s \in DOMAIN @ |-> IF s \in SlotsOf(item) THEN Decrement(@[s]) ELSE @[s]]]

GetMaxUsedSlotPlusOne(o) ==
    LET used == {s \in o.firstDynamic .. o.top - 1 : s \in DOMAIN o.count => o.count[s] # 0}
    IN  IF used = {} THEN Min({o.top, o.firstDynamic}) ELSE Max(used) + 1

-----------------------------------------------------------------------------
(* Push and Pop.  Items in slots below firstDynamic are locals or          *)
(* constants, whose slots are never given back.                            *)

\* Use is what is done with the slot, when there is one.
AllocateSlots(o, t, Use(_, _)) ==
    LET In(slot) == IF slot = SlotUnused THEN Fail(o)
                    ELSE Use(MarkSlotsAllocated(o, slot, t), slot)
    IN  In(FreeSlot(o, t, o.firstDynamic, MaxFunctionSlots))

Push(o, t, slot) ==
    IF Len(o.stack) >= MaxStackHeight THEN Fail(o)
    ELSE [o EXCEPT !.stack = Append(@, [type |-> t, slot |-> slot]),
                   !.reg = IF IsRegister(slot) THEN [@ EXCEPT ![slot] = Len(o.stack) + 1]
                           ELSE @]

PushRegister(o, t) == Push(o, t, RegisterOf(t))

PushAllocatedSlot(o, t) == AllocateSlots(o, t, LAMBDA p, slot : Push(p, t, slot))

Pop(o) ==
    LET item == Last(o.stack)
        popped == [o EXCEPT !.stack = Front(@)]
    IN  IF BlockHeight(o) = 0 THEN IF Block(o).poly THEN o ELSE Fail(o)
        ELSE IF IsRegister(item.slot) THEN [popped EXCEPT !.reg[item.slot] = 0]
        ELSE IF item.slot >= o.firstDynamic THEN DeallocateSlot(popped, item)
        ELSE popped

PopN(o, n) == Iterate(n, LAMBDA p, k : Pop(p), o)

\* The result of an operation, written where the item on the top now is.
Result(o, words) == IF o.failed THEN o ELSE Write(o, Top(o, 0).slot, words)

-----------------------------------------------------------------------------
(* Moving values. *)

\* CopyStackIndexToSlot: i is the index of an item, dest a slot.
CopyToSlot(o, dest, i) == WriteSlot(o, dest, Read(o, o.stack[i]))

\* Mutant of PreserveRegisterIfOccupied: the register stays in use.
PreserveRegisterHeld(o, r) ==
    LET i == o.reg[r]
        Move(p, slot) == Write([p EXCEPT !.stack[i].slot = slot], slot, Read(o, o.stack[i]))
    IN  IF i = 0 THEN o ELSE AllocateSlots(o, o.stack[i].type, Move)

PreserveRegisterIfOccupied(o, r) ==
    LET i == o.reg[r]
        Move(p, slot) == Write([p EXCEPT !.reg[r] = 0, !.stack[i].slot = slot],
                               slot, Read(o, o.stack[i]))
    IN  IF i = 0 THEN o ELSE AllocateSlots(o, o.stack[i].type, Move)

PreserveIf(condition, o, r) == IF condition THEN PreserveRegisterIfOccupied(o, r) ELSE o

PreserveRegisters(o) ==
    PreserveRegisterIfOccupied(PreserveRegisterIfOccupied(o, Fp0), Reg0)

PreserveNonTopRegisters(o) ==
    LET Preserve(p, r) == PreserveIf(p.reg[r] # Len(p.stack), p, r)
    IN  Preserve(Preserve(o, Reg0), Fp0)

\* Mutant of CopyTopToRegister: what is in the register is not preserved.
CopyTopToRegisterOver(o) ==
    IF TopInRegister(o, 0) THEN o ELSE Write(o, RegisterOf(Top(o, 0).type), Read(o, Top(o, 0)))

\* CopyStackTopToRegister without i_updateStack.
CopyTopToRegister(o) ==
    LET r == RegisterOf(Top(o, 0).type)
        Copy(p) == Write(p, r, Read(p, Top(p, 0)))
    IN  IF TopInRegister(o, 0) THEN o ELSE Then(PreserveRegisterIfOccupied(o, r), Copy)

\* PushConst.  op_Entry puts the constants of a function into its slots, so
\* they are there whether or not the code that names them is executed.
Constant(o, t, words) ==
    LET n == GetTypeNumSlots(t)
        match == {s \in AlignSlotToType(o.firstConst, t) .. o.constEnd - n :
                    /\ n = 2 => s % 2 = 0
                    /\ n = 1 => Head(words) \notin NegativeWords
                    /\ \A k \in 1 .. n : o.count[s + k - 1] # 0 /\ o.mem[s + k - 1] = words[k]}
        AddTo(slot) ==
            IF slot = SlotUnused THEN Result(PushAllocatedSlot(o, t), words)
            ELSE Push([MarkSlotsAllocated(o, slot, t) EXCEPT
                          !.constEnd = Max({@, slot + n}), !.mem = Overwrite(@, slot, words)],
                      t, slot)
    IN  IF match # {} THEN Push(o, t, Min(match))
        ELSE AddTo(FreeSlot(o, t, o.firstConst,
                            Min({o.firstDynamic, o.firstConst + MaxConstantTable})))

-----------------------------------------------------------------------------
(* Copy on write: an item that local.get pushes is the slot of the local,  *)
(* until the local is set, or a block begins.  Then the items that refer   *)
(* to it share a slot of their own.                                        *)

\* Items below the innermost scope that is not a `block' are not touched.
ScopeBase(o) ==
    LET others == {k \in DOMAIN o.blocks : o.blocks[k].opcode # "block"}
    IN  o.blocks[Max(others)].base

\* Mutant of References: the search ends one item too early.
ReferencesButLowest(o, slot) ==
    {i \in ScopeBase(o) + 2 .. Len(o.stack) : o.stack[i].slot = slot}

References(o, slot) == {i \in ScopeBase(o) + 1 .. Len(o.stack) : o.stack[i].slot = slot}

\* FindReferencedLocalWithinCurrentBlock for the i-th local, and the operation
\* that copies the local to the slot, when anything refers to it.
PreserveLocal(o, i) ==
    LET local == o.stack[i]
        refs == References(o, local.slot)
        Redirect(p, slot) ==
            Then(IncrementSlotUsageCount(
                     [p EXCEPT !.stack = [j \in DOMAIN @ |-> IF j \in refs THEN [@[j] EXCEPT !.slot = slot]
                                                             ELSE @[j]]],
                     slot, Cardinality(refs) - 1),
                 LAMBDA q : WriteSlot(q, slot, Read(q, local)))
    IN  IF refs = {} THEN o ELSE AllocateSlots(o, o.stack[Min(refs)].type, Redirect)

-----------------------------------------------------------------------------
(* Blocks: their results have slots, or the fp register, that are found    *)
(* when the block begins, and every way out of the block copies to them.   *)

\* CopyStackSlotsR: copies n items, the first of them with index from, to the
\* slots of the items from index target on.  An item in a slot that is about
\* to be written is moved to a slot behind all others first.
CopyItem(o, i, dest) == [CopyToSlot(o, dest, i) EXCEPT !.stack[i].slot = dest]

\* Mutant of CopyNext: no item is moved away before its slot is written.
CopyNextOver(s, target, from, n, k) ==
    LET i == from + k - 1
        dest == s.o.stack[target + k - 1].slot
    IN  IF s.o.failed \/ dest = s.o.stack[i].slot THEN s
        ELSE [s EXCEPT !.o = CopyItem(@, i, dest)]

CopyNext(s, target, from, n, k) ==
    LET i == from + k - 1
        dest == s.o.stack[target + k - 1].slot
        end == dest + GetTypeNumSlots(s.o.stack[i].type) - 1
        MovedAway(c) == [CopyItem(s.o, c, s.temp) EXCEPT !.maxSlots = Max({@, s.temp + 2})]
        CopyAfter(colliding) ==
            IF colliding = {} THEN [s EXCEPT !.o = CopyItem(@, i, dest)]
            ELSE IF s.temp >= MaxFunctionSlots THEN [s EXCEPT !.o = Fail(@)]
            ELSE [o |-> CopyItem(MovedAway(Min(colliding)), i, dest), temp |-> s.temp + 2]
    IN  IF s.o.failed \/ dest = s.o.stack[i].slot THEN s
        ELSE CopyAfter({c \in i + 1 .. from + n - 1 :
                           \/ dest \in SlotsOf(s.o.stack[c])
                           \/ end = s.o.stack[c].slot})

CopyStackSlots(o, target, from, n) ==
    LET Next(s, k) == CopyNext(s, target, from, n, k)
        copied == Iterate(n, Next, [o |-> o, temp |-> AlignSlotToType(o.maxSlots, "i64")])
    IN  [copied.o EXCEPT !.stack = o.stack]

ResolveBlockResults(o, block, isBranch) ==
    LET isLoop == isBranch /\ block.opcode = "loop"
        params == Len(block.type.params)
        n == IF isLoop THEN params ELSE Len(block.type.results)
        record == block.exit + 1 + IF isLoop THEN 0 ELSE params
        toRegister == ~isLoop /\ IsFpType(Top(o, 0).type)
        end == Len(o.stack) - IF toRegister THEN 1 ELSE 0
    IN  IF IF isBranch THEN BlockHeight(o) < n ELSE BlockHeight(o) # n THEN Fail(o)
        ELSE IF n = 0 THEN o
        ELSE Then(IF toRegister THEN CopyTopToRegister(o) ELSE o,
                  LAMBDA p : CopyStackSlots(p, record, end - n + 1, n))

\* ReturnValues: the results of the function are copied to the first slots.
ReturnValue(o, n, k) == CopyToSlot(o, 2 * (n - k), Len(o.stack) - k + 1)

ReturnValues(o, n) ==
    IF BlockHeight(o) < n THEN Fail(o) ELSE Iterate(n, LAMBDA p, k : ReturnValue(p, n, k), o)

PushBlockResult(o, results, k) ==
    IF k = Len(results) /\ IsFpType(results[k]) THEN PushRegister(o, results[k])
    ELSE PushAllocatedSlot(o, results[k])

PushBlockResults(o, results) ==
    Iterate(Len(results), LAMBDA p, k : Then(p, LAMBDA q : PushBlockResult(q, results, k)), o)

\* The first half of CompileBlock.  The parameters are popped, to be saved as
\* records; slots are found for the results, which are popped again and stay
\* as records; then the parameters are pushed once more.  Errors in the last
\* two are ignored.
PushParam(o, t, slot) ==
    Push(IF slot >= o.firstDynamic THEN MarkSlotsAllocated(o, slot, t) ELSE o, t, slot)

EnterBlock(o, opcode, type) ==
    LET params == type.params
        exit == Len(o.stack) - Len(params)
        popped == IF opcode = "else" THEN o ELSE PopN(o, Len(params))
        Scope(base) ==
            [opcode |-> opcode, type |-> type, exit |-> exit, base |-> base, poly |-> FALSE]
        Enter(p) == [PopN(p, Len(type.results)) EXCEPT
                        !.stack = p.stack,
                        !.blocks = Append(@, Scope(Len(p.stack)))]
        PushAgain(p, k) == PushParam(p, params[k], o.stack[exit + k].slot)
        Reenter(p) == Iterate(Len(params), PushAgain, Enter(p))
        EnterWith(p) == IF p.failed \/ Reenter(p).failed THEN [o EXCEPT !.ignored = TRUE]
                        ELSE Reenter(p)
    IN  EnterWith(PushBlockResults([popped EXCEPT !.stack = o.stack], type.results))

\* The second half, as far as it is done whatever comes after the block.
LeaveBlock(o) ==
    Then(IF Block(o).poly THEN o ELSE ResolveBlockResults(o, Block(o), FALSE),
         LAMBDA p : PopN(p, BlockHeight(p)))

=============================================================================
