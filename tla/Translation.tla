---------------------------- MODULE Translation ----------------------------
(***************************************************************************)
(* The compiler translates a function of a stack machine, WebAssembly, to  *)
(* operations on slots and registers.  Here a function is compiled         *)
(* instruction by instruction; the operations are executed as soon as they *)
(* are emitted (module SlotAlloc), and w is the WebAssembly machine that   *)
(* executes the same instructions.  Execution takes one path through the   *)
(* function: the code of the other paths is compiled, but skipped, until   *)
(* the compiler comes to where execution goes on.  When execution goes     *)
(* back to the beginning of a loop, or returns, the behaviour ends.        *)
(***************************************************************************)
EXTENDS SlotAlloc

CONSTANTS
    ArgTypes, LocalTypes, RetTypes,   \* the function, as sequences of types
    ReservedConstants,                \* slots that ReserveConstants counts
    Constants,                        \* the constants: [type, words]
    Operators,                        \* signatures of Compile_Operator: [operands, result]
    Conversions,                      \* signatures of Compile_Convert
    SelectTypes, GlobalTypes,
    CallTypes,                        \* signatures of called functions: [args, rets]
    BlockTypes,                       \* signatures of blocks: [params, results]
    MaxDepth,                         \* bound on nested blocks
    MaxValues,                        \* bound on the values on the stack in execution
    Memory,                           \* whether there are instructions on the memory
    Allowed                           \* what the function may do that is not compiled well

VARIABLES o, w

vars == <<o, w>>

ASSUME FunctionAssumption ==
    /\ ReservedConstants \in Nat
    /\ MaxDepth \in Nat /\ MaxValues \in Nat
    /\ Memory \in BOOLEAN
    /\ Allowed \subseteq {"double_refs", "shared_params", "fp_results", "loop_params", "high_calls"}

\* The parser lets through the four types of values, and not more results than
\* there are slots for.  In the tables of operations the operands of one with a
\* result are of one kind, and a floating-point result of others is loaded.
ASSUME SignatureAssumption ==
    /\ {ArgTypes, LocalTypes, RetTypes} \subseteq Seq(ValueType)
    /\ 2 * Len(RetTypes) <= MaxFunctionSlots
    /\ SelectTypes \cup GlobalTypes \subseteq ValueType
    /\ \A c \in Constants : c.type \in ValueType
    /\ \A op \in Operators :
          /\ op.operands \in Seq(ValueType) /\ Len(op.operands) \in 1 .. 2
          /\ op.result # None =>
                /\ op.result \in ValueType
                /\ \A type \in Range(op.operands) : IsFpType(type) = IsFpType(op.operands[1])
                /\ IsFpType(op.result) => op.load \/ IsFpType(op.operands[1])
    /\ \A op \in Conversions : /\ op.operands \in Seq(ValueType) /\ Len(op.operands) = 1
                                /\ op.result \in ValueType
    /\ \A call \in CallTypes : /\ {call.args, call.rets} \subseteq Seq(ValueType)
                                /\ 2 * Len(call.args) <= CalleeSlots /\ Len(call.rets) <= 1
    /\ \A type \in BlockTypes : {type.params, type.results} \subseteq Seq(ValueType)

NumLocals == Len(ArgTypes) + Len(LocalTypes)

\* Words: Junk is what no value has, Zero is in a local at first, then come
\* those of the constants.  Any other is named after the first address with it.
Zero == 1

FirstName == 1 + Max({Zero} \cup UNION {Range(c.words) : c \in Constants})
Name(a)   == FirstName + a

NewWords(t) == SubSeq(<<Name(Fp0 + 2), Name(Fp0 + 3)>>, 1, GetTypeNumSlots(t))

-----------------------------------------------------------------------------
(* CompileFunction, up to the first instruction.  Arguments and results    *)
(* have two slots each.                                                    *)

Start ==
    [stack |-> <<>>, reg |-> [r \in Registers |-> 0], top |-> 0, maxSlots |-> 0,
     count |-> [s \in 0 .. MaxFunctionSlots - 1 |-> IF s < 2 * Len(RetTypes) THEN 1 ELSE 0],
     firstConst |-> 0, constEnd |-> 0, firstDynamic |-> 2 * Len(RetTypes),
     blocks |-> <<[opcode |-> "func", type |-> [params |-> <<>>, results |-> RetTypes],
                   exit |-> 0, base |-> 0, poly |-> FALSE]>>,
     mem |-> [a \in {} |-> Junk], skip |-> "no", to |-> 0,
     failed |-> FALSE, ignored |-> FALSE, misread |-> FALSE, wild |-> FALSE, reach |-> 0, values |-> 0]

PushArg(p, t) ==
    [Result(PushAllocatedSlot(p, t),
            SubSeq(<<Name(p.firstDynamic), Name(p.firstDynamic + 1)>>, 1, GetTypeNumSlots(t)))
        EXCEPT !.firstDynamic = p.firstDynamic + 2]

WithArgs ==
    LET Reserve(p) == [p EXCEPT !.top = p.firstDynamic]
    IN  Reserve(Iterate(Len(ArgTypes), LAMBDA p, i : PushArg(p, ArgTypes[i]), Start))

PushLocal(p, t) == Result(PushAllocatedSlot(p, t), [k \in 1 .. GetTypeNumSlots(t) |-> Zero])

WithLocals == Iterate(Len(LocalTypes), LAMBDA p, i : PushLocal(p, LocalTypes[i]), WithArgs)

\* ReserveConstants makes room for the constants behind the locals.
ReserveConstants(p, maxSlot) ==
    LET dynamic == maxSlot + AlignSlotToType(ReservedConstants, "i64")
    IN  [p EXCEPT !.firstConst = maxSlot, !.constEnd = maxSlot,
                  !.firstDynamic = dynamic, !.top = dynamic, !.maxSlots = dynamic,
                  !.blocks[1].exit = NumLocals, !.blocks[1].base = NumLocals,
                  !.failed = @ \/ dynamic >= MaxFunctionSlots]

Entered ==
    LET Enter(p) == ReserveConstants(p, GetMaxUsedSlotPlusOne(p))
    IN  Enter(WithLocals)

Init ==
    /\ o = Entered
    /\ w = [vals |-> <<>>, labels |-> <<[height |-> 0, arity |-> Len(RetTypes)]>>,
            locals |-> [i \in 1 .. NumLocals |-> Read(o, o.stack[i])]]

-----------------------------------------------------------------------------
(* The WebAssembly machine: the values on its stack, its locals, and the   *)
(* labels of the blocks it is in.                                          *)

Running == o.skip = "no"

Under(n)  == SubSeq(w.vals, 1, Len(w.vals) - n)
LastN(n)  == SubSeq(w.vals, Len(w.vals) - n + 1, Len(w.vals))

Replace(n, values) == [w EXCEPT !.vals = Under(n) \o values]

EnterLabel(x, params, label) ==
    [x EXCEPT !.labels = Append(@, [height |-> Len(x.vals) - params, arity |-> label])]

ExitLabel(x) == [x EXCEPT !.labels = Front(@)]

BranchTo(x, k) ==
    LET label == x.labels[k]
        n == Len(x.vals)
    IN  [x EXCEPT !.vals = SubSeq(@, 1, label.height) \o SubSeq(@, n - label.arity + 1, n),
                  !.labels = SubSeq(@, 1, k - 1)]

-----------------------------------------------------------------------------
(* Where the machine of slots has the values of w.vals.                    *)

LiveUpTo(p, n) ==
    LET live == SelectSeq([i \in 1 .. n |-> i], LAMBDA i : i > NumLocals /\ i \in Live(p))
    IN  [k \in DOMAIN live |-> p.stack[live[k]]]

Records(p, b, first, types) ==
    [k \in DOMAIN types |-> [type |-> types[k], slot |-> p.stack[b.exit + first + k].slot]]

Places(p) ==
    LET b == p.blocks[p.to]
        params == b.type.params
    IN  CASE p.skip = "no"     -> LiveUpTo(p, Len(p.stack))
          [] p.skip = "end"    -> LiveUpTo(p, b.exit)
                                  \o Records(p, b, Len(params), b.type.results)
          [] p.skip \in {"else", "loop"} -> LiveUpTo(p, b.exit) \o Records(p, b, 0, params)
          [] p.skip = "return" -> [k \in DOMAIN RetTypes |->
                                      [type |-> RetTypes[k], slot |-> 2 * (k - 1)]]

\* Words in slots that hold none of these values are forgotten: an operation
\* that reads one all the same reads Junk.
Kept(p) ==
    LET SlotsIn(places) == UNION {SlotsOf(places[k]) : k \in DOMAIN places}
    IN  SlotsIn(Places(p)) \cup SlotsIn(SubSeq(p.stack, 1, NumLocals))
        \cup p.firstConst .. p.constEnd - 1

\* The same state with the words in these slots only, and with their names.
Settle(p, x, kept) ==
    LET Renamed(v) == IF v < FirstName THEN v
                      ELSE Name(Min({a \in kept : Word(p, a) = v} \cup {Fp0 + 2}))
        RenamedAll(values) ==
            [k \in DOMAIN values |-> [j \in DOMAIN values[k] |-> Renamed(values[k][j])]]
    IN  /\ o' = [p EXCEPT !.mem = [a \in kept |-> Renamed(Word(p, a))]]
        /\ w' = [x EXCEPT !.vals = RenamedAll(@), !.locals = RenamedAll(@)]

\* The compiler is then p, and the WebAssembly machine is x.  Nothing is kept
\* of a compilation that has failed.
Advance(p, x) ==
    IF p.failed \/ p.ignored
    THEN /\ o' = [Start EXCEPT !.failed = p.failed, !.ignored = p.ignored,
                               !.misread = p.misread, !.wild = p.wild]
         /\ UNCHANGED w
    ELSE /\ Len(x.vals) <= MaxValues
         /\ Settle(p, x, Kept(p))

\* The same for an instruction that is executed if execution is here.
Step(p, x) == Advance(p, IF Running THEN x ELSE w)

-----------------------------------------------------------------------------
(* What the validation of WebAssembly guarantees to an instruction.        *)

Compiling == ~o.failed /\ ~o.ignored /\ o.skip \notin {"loop", "return"}

TypesOnTop(types) ==
    /\ Compiling
    /\ ~Block(o).poly
    /\ BlockHeight(o) >= Len(types)
    /\ \A k \in DOMAIN types : Top(o, Len(types) - k).type = types[k]

Observed(p, n) ==
    Observe(p, [k \in 1 .. n |-> Read(p, Top(p, n - k))], LastN(n))

-----------------------------------------------------------------------------
(* Instructions without control flow. *)

Const(c) ==
    /\ TypesOnTop(<<>>)
    /\ Step(Constant(o, c.type, c.words), Replace(0, <<c.words>>))

LocalGet(i) ==
    LET local == o.stack[i]
        referenced == \E j \in NumLocals + 1 .. Len(o.stack) : o.stack[j].slot = local.slot
    IN  /\ TypesOnTop(<<>>)
        /\ Is64BitType(local.type) /\ referenced => "double_refs" \in Allowed
        /\ Step(Push(o, local.type, local.slot), Replace(0, <<w.locals[i]>>))

\* local.set, and local.tee, which leaves the value on the stack.
LocalSet(i, tee) ==
    LET local == o.stack[i]
        Set(p) == CopyToSlot(p, local.slot, Len(o.stack))
        set == Then(PreserveLocal(o, i), LAMBDA p : IF tee THEN Set(p) ELSE Pop(Set(p)))
        next == [w EXCEPT !.locals[i] = Last(w.vals)]
    IN  /\ TypesOnTop(<<local.type>>)
        /\ Step(set, IF tee THEN next ELSE [next EXCEPT !.vals = Under(1)])

Drop ==
    /\ BlockHeight(o) > 0 /\ TypesOnTop(<<>>)
    /\ Step(Pop(o), Replace(1, <<>>))

GlobalGet(t) ==
    LET words == NewWords(t)
    IN  /\ TypesOnTop(<<>>)
        /\ Step(Result(PushAllocatedSlot(o, t), words), Replace(0, <<words>>))

GlobalSet(t) ==
    /\ TypesOnTop(<<t>>)
    /\ Step(Pop(Observed(o, 1)), Replace(1, <<>>))

\* An operation with these operands, some in registers and some in slots, and
\* a result in a register: loads, stores, comparisons, arithmetic.
Operate(op) ==
    LET n == Len(op.operands)
        words == IF op.result = None THEN <<>> ELSE <<NewWords(op.result)>>
        inRegister == TopInRegister(o, 0) \/ (n = 2 /\ TopInRegister(o, 1))
        p == PreserveIf(IsFpType(Top(o, 0).type) /\ IsIntType(op.result), o, Reg0)
        q == PreserveIf(op.load /\ IsFpType(op.result), p, Fp0)
        r == PreserveIf(~inRegister, q, RegisterOf(op.result))
        PushResult(s) == IF words = <<>> THEN s
                         ELSE Result(PushRegister(s, op.result), Head(words))
        Consume(s) == PopN(Observed(s, n), n)
    IN  /\ TypesOnTop(op.operands)
        /\ Step(PushResult(Consume(r)), Replace(n, words))

\* The result goes to a slot when its register is in use, even by the operand.
Convert(op) ==
    LET words == NewWords(op.result)
        PushResult(p) == IF o.reg[RegisterOf(op.result)] # 0 THEN PushAllocatedSlot(p, op.result)
                         ELSE PushRegister(p, op.result)
    IN  /\ TypesOnTop(op.operands)
        /\ Step(Result(PushResult(Pop(Observed(o, 1))), words), Replace(1, <<words>>))

Select(t) ==
    LET words == NewWords(t)
        inRegister == TopInRegister(o, 1) \/ TopInRegister(o, 2)
                      \/ (IsIntType(t) /\ TopInRegister(o, 0))
        Consume(p) == PopN(Observed(p, 3), 3)
        consumed == Consume(PreserveIf(~inRegister, o, RegisterOf(t)))
    IN  /\ TypesOnTop(<<t, t, "i32">>)
        /\ Step(Result(PushRegister(consumed, t), words), Replace(3, <<words>>))

MemorySize ==
    LET words == NewWords("i32")
        p == PreserveRegisterIfOccupied(o, Reg0)
    IN  /\ Memory /\ TypesOnTop(<<>>)
        /\ Step(Result(PushRegister(p, "i32"), words), Replace(0, <<words>>))

InRegister(p, r) == Read(p, [type |-> "i32", slot |-> r])

MemoryGrow ==
    LET words == NewWords("i32")
        Grow(p) == PushRegister(Pop(Observe(p, InRegister(p, Reg0), Last(w.vals))), "i32")
    IN  /\ Memory /\ TypesOnTop(<<"i32">>)
        /\ Step(Result(Grow(CopyTopToRegister(o)), words), Replace(1, <<words>>))

MemoryCopyFill ==
    LET Move(p) == PopN(Observe(p, <<Read(p, Top(p, 2)), Read(p, Top(p, 1)), InRegister(p, Reg0)>>,
                                LastN(3)), 3)
    IN  /\ Memory /\ TypesOnTop(<<"i32", "i32", "i32">>)
        /\ Step(Move(CopyTopToRegister(o)), Replace(3, <<>>))

\* CompileCallArgsAndReturn, and the call: the frame of the callee begins
\* behind all slots in use, with its results and its arguments.  It overwrites
\* what it likes behind that; the registers come back as they were.  The top
\* of the stack is the index of an indirect call.
FrameBehind(top) == AlignSlotToType(Max({1, top}), "i64")

CopyArg(p, slot) == Pop(CopyToSlot(p, slot, Len(p.stack)))

PushRet(p, t, slot) == MarkSlotsAllocated(Push(p, t, slot), slot, t)

CallFrame(q, call, indirect, top) ==
    LET args == Len(call.args)
        rets == Len(call.rets)
        frame == FrameBehind(top)
        index == IF indirect THEN <<Top(q, 0)>> ELSE <<>>
        Seen(p) ==
            [k \in 1 .. args |-> Read(p, [type |-> call.args[k], slot |-> frame + 2 * (rets + k - 1)])]
            \o [k \in DOMAIN index |-> Read(p, index[k])]
        Invoke(p) == Write(Observe(p, Seen(p), LastN(args + Len(index))), frame,
                           [k \in 1 .. Reg0 - frame |-> Junk])
        popped == PopN([q EXCEPT !.top = top, !.values = Max({@, args + rets})], Len(index))
        CopyNextArg(p, k) == CopyArg(p, frame + 2 * (rets + args - k))
        PushNextRet(p, k) == PushRet(p, call.rets[k], frame + 2 * (k - 1))
    IN  Iterate(rets, PushNextRet, Invoke(Iterate(args, CopyNextArg, popped)))

\* A called function returns one value, or none.
Call(call, indirect) ==
    LET operands == call.args \o IF indirect THEN <<"i32">> ELSE <<>>
        results == [k \in DOMAIN call.rets |-> NewWords(call.rets[k])]
        p == PreserveIf(indirect /\ TopInRegister(o, 0), o, Reg0)
        Invoke(q) == CallFrame(q, call, indirect, GetMaxUsedSlotPlusOne(q))
        PushReturn(q) == IF results = <<>> THEN q ELSE Result(q, Head(results))
        FrameFits(q) == FrameBehind(GetMaxUsedSlotPlusOne(q)) + 2 * Len(call.rets) <= MaxFunctionSlots
    IN  /\ TypesOnTop(operands)
        /\ "high_calls" \in Allowed \/ FrameFits(p)
        /\ Step(PushReturn(Then(p, Invoke)), Replace(Len(operands), results))

-----------------------------------------------------------------------------
(* Control flow. *)

Depth == Len(o.blocks) - 1

\* PreserveArgsAndLocals: no item refers to a local when a block begins.
PreserveArgsAndLocals(p) ==
    Iterate(NumLocals, LAMBDA q, i : Then(q, LAMBDA r : PreserveLocal(r, i)), p)

\* The parameters of a loop get slots that can be written.
Instantiate(p, i) ==
    IF p.stack[i].slot \notin p.firstConst .. p.constEnd - 1 THEN p
    ELSE AllocateSlots(p, p.stack[i].type, LAMBDA q, slot : CopyItem(q, i, slot))

InstantiateConstants(p, n) ==
    LET base == Len(p.stack) - n
    IN  Iterate(n, LAMBDA q, k : Then(q, LAMBDA r : Instantiate(r, base + k)), p)

\* The slots of the parameters belong to no other item.
ParamsUnshared(p, n) ==
    \A i \in Len(p.stack) - n + 1 .. Len(p.stack), j \in Live(p) :
        i # j /\ p.stack[i].slot >= p.firstDynamic => p.stack[i].slot # p.stack[j].slot

FpLast(types) == types # <<>> /\ IsFpType(Last(types))

MayEnter(p, type) ==
    /\ Depth < MaxDepth
    /\ "fp_results" \in Allowed \/ Len(type.results) < 2 \/ ~FpLast(type.results)
    /\ "shared_params" \in Allowed \/ p.failed \/ ParamsUnshared(p, Len(type.params))

LoopOrBlock(opcode, type) ==
    LET n == Len(type.params)
        p == PreserveArgsAndLocals(PreserveRegisters(o))
        label == IF opcode = "loop" THEN n ELSE Len(type.results)
    IN  /\ TypesOnTop(type.params)
        /\ \E q \in {IF opcode = "loop" THEN InstantiateConstants(p, n) ELSE p} :
               /\ MayEnter(q, type)
               /\ Step(Then(q, LAMBDA r : EnterBlock(r, opcode, type)), EnterLabel(w, n, label))

\* When the condition is zero, execution goes on at the else block.
If(type, taken) ==
    LET p == PreserveArgsAndLocals(PreserveNonTopRegisters(o))
        EnterIf(q) ==
            IF taken \/ q.ignored THEN q
            ELSE [q EXCEPT !.skip = "else", !.to = Len(q.blocks)]
    IN  /\ TypesOnTop(type.params \o <<"i32">>)
        /\ taken \/ Running
        /\ \E q \in {Then(p, LAMBDA r : Pop(Observed(r, 1)))} :
               /\ MayEnter(q, type)
               /\ Step(Then(q, LAMBDA r : EnterIf(EnterBlock(r, "if", type))),
                       EnterLabel([w EXCEPT !.vals = Under(1)], Len(type.params), Len(type.results)))

\* At its end a block has just its results on the stack, if the end is reached.
AtBlockEnd ==
    /\ Compiling /\ Depth > 0
    /\ ~Block(o).poly => /\ BlockHeight(o) = Len(Block(o).type.results)
                         /\ TypesOnTop(Block(o).type.results)

\* The if block ends, and the else block begins with the saved parameters.
\* When the source has no else, but results, an empty one is compiled; in valid
\* code its parameters are then the results, so End has neither.
Else ==
    LET b == Block(o)
        k == Len(o.blocks)
        Enter(p) == EnterBlock([p EXCEPT !.blocks = Front(@),
                                         !.stack = SubSeq(@, 1, b.exit + Len(b.type.params))],
                               "else", b.type)
        Resume(p) == CASE o.skip = "no" -> [p EXCEPT !.skip = "end", !.to = k]
                       [] o.skip = "else" /\ o.to = k -> [p EXCEPT !.skip = "no", !.to = 0]
                       [] OTHER -> p
    IN  /\ AtBlockEnd
        /\ b.opcode = "if"
        /\ Step(Then(LeaveBlock(o), LAMBDA p : Resume(Enter(p))), ExitLabel(w))

End ==
    LET b == Block(o)
        resumes == o.skip # "no" /\ o.to = Len(o.blocks)
        PushResults(p) == IF b.opcode = "if" THEN p
                          ELSE PushBlockResults([p EXCEPT !.stack = SubSeq(@, 1, b.exit)],
                                                b.type.results)
        Leave(p) == [p EXCEPT !.blocks = Front(@),
                              !.skip = IF resumes THEN "no" ELSE @,
                              !.to = IF resumes THEN 0 ELSE @]
    IN  /\ AtBlockEnd
        /\ b.opcode = "if" => b.type.params = <<>> /\ b.type.results = <<>>
        /\ Advance(Then(LeaveBlock(o), LAMBDA p : Leave(PushResults(p))),
                   IF Running \/ (resumes /\ o.skip = "else") THEN ExitLabel(w) ELSE w)

\* SetStackPolymorphic
DeadCode(p) == PopN([p EXCEPT !.blocks[Len(p.blocks)].poly = TRUE], BlockHeight(p))

\* Execution, if it is here, goes on where scope k says.
Jump(p, k) ==
    IF p.skip # "no" THEN p
    ELSE [p EXCEPT !.skip = CASE p.blocks[k].opcode = "loop" -> "loop"
                              [] p.blocks[k].opcode = "func" -> "return"
                              [] OTHER -> "end",
                   !.to = k]

\* The types a branch to the scope takes along.
LabelTypes(b) == IF b.opcode = "loop" THEN b.type.params ELSE b.type.results

MayBranch(n, b) ==
    /\ TypesOnTop(LabelTypes(b) \o IF n = 1 THEN <<"i32">> ELSE <<>>)
    /\ \/ "fp_results" \in Allowed
       \/ b.opcode \in {"loop", "func"} \/ ~FpLast(b.type.results)
       \/ BlockHeight(o) = n + 1 /\ FpLast(Block(o).type.results)

\* What a branch emits to bring its values to where they are expected.
MoveValues(p, b) ==
    IF b.opcode = "func" THEN ReturnValues(p, Len(RetTypes)) ELSE ResolveBlockResults(p, b, TRUE)

\* br to the k-th scope.  The parameters of a loop are not moved to their
\* slots, and the stack is left as it is.
Br(k) ==
    LET b == o.blocks[k]
    IN  /\ b.opcode # "loop"
        /\ MayBranch(0, b)
        /\ Step(Then(MoveValues(o, b), LAMBDA p : DeadCode(Jump(p, k))), BranchTo(w, k))

BrLoop(k) ==
    LET b == o.blocks[k]
    IN  /\ b.opcode = "loop"
        /\ MayBranch(0, b)
        /\ b.type.params # <<>> => "loop_params" \in Allowed
        /\ Step([Jump(o, k) EXCEPT !.blocks[Len(o.blocks)].poly = TRUE], BranchTo(w, k))

\* br_if.  What is emitted to move values is executed only if the branch is
\* taken, but the compiler goes on as it is after emitting it.
BrIf(k, taken) ==
    LET b == o.blocks[k]
        moves == LabelTypes(b) # <<>> \/ b.opcode = "func"
        TestRegister(p) == Pop(Observe(p, <<InRegister(p, Reg0)>>, LastN(1)))
        test == IF b.opcode = "loop" /\ ~moves THEN TestRegister(CopyTopToRegister(o))
                ELSE Pop(Observed(o, 1))
        Move(p) == IF moves THEN MoveValues(p, b) ELSE p
        Go(p) == IF taken THEN Jump(p, k) ELSE [p EXCEPT !.skip = o.skip]
        Here(p) == IF taken \/ ~Running THEN p ELSE [p EXCEPT !.skip = "prologue"]
        popped == [w EXCEPT !.vals = Under(1)]
    IN  /\ MayBranch(1, b)
        /\ taken => Running
        /\ Step(Then(Move(Here(test)), Go), IF taken THEN BranchTo(popped, k) ELSE popped)

\* br_table with two targets.  Each has code of its own, compiled one after
\* the other; the chosen one is executed.
BrTable(targets, chosen) ==
    LET Target(p, i) ==
            LET skip == IF i = chosen \/ ~Running THEN p.skip ELSE "prologue"
            IN  [MoveValues([p EXCEPT !.skip = skip], p.blocks[targets[i]]) EXCEPT !.skip = p.skip]
        Targets(p) == Then(Target(Pop(Observed(p, 1)), 1), LAMBDA q : Target(q, 2))
        moved == Then(PreserveRegisterIfOccupied(o, Reg0), Targets)
    IN  /\ \A i \in DOMAIN targets : MayBranch(1, o.blocks[targets[i]])
        /\ chosen > 1 => Running
        /\ Step(Then(moved, LAMBDA p : DeadCode(Jump(p, targets[chosen]))),
                BranchTo([w EXCEPT !.vals = Under(1)], targets[chosen]))

\* return, and the end of the function.
Return ==
    /\ Running
    /\ TypesOnTop(RetTypes)
    /\ Step(DeadCode(Jump(ReturnValues(o, Len(RetTypes)), 1)), BranchTo(w, 1))

-----------------------------------------------------------------------------
Next ==
    \/ \E c \in Constants : Const(c)
    \/ \E i \in 1 .. NumLocals : LocalGet(i)
    \/ \E i \in 1 .. NumLocals, tee \in BOOLEAN : LocalSet(i, tee)
    \/ Drop
    \/ \E t \in GlobalTypes : GlobalGet(t) \/ GlobalSet(t)
    \/ \E op \in Operators : Operate(op)
    \/ \E op \in Conversions : Convert(op)
    \/ \E t \in SelectTypes : Select(t)
    \/ MemorySize \/ MemoryGrow \/ MemoryCopyFill
    \/ \E call \in CallTypes, indirect \in BOOLEAN : Call(call, indirect)
    \/ \E opcode \in {"block", "loop"}, type \in BlockTypes : LoopOrBlock(opcode, type)
    \/ \E type \in BlockTypes, taken \in BOOLEAN : If(type, taken)
    \/ Else
    \/ End
    \/ \E k \in DOMAIN o.blocks : Br(k) \/ BrLoop(k)
    \/ \E k \in DOMAIN o.blocks, taken \in BOOLEAN : BrIf(k, taken)
    \/ \E first, second \in DOMAIN o.blocks, chosen \in 1 .. 2 : BrTable(<<first, second>>, chosen)
    \/ Return

Spec == Init /\ [][Next]_vars

-----------------------------------------------------------------------------
(* Properties. *)

\* Every variable has its type; and no operation and no table of the compiler
\* uses a slot there is not.
TypeOK ==
    /\ \A i \in DOMAIN o.stack : o.stack[i].type \in ValueType
                                 /\ o.stack[i].slot \in Addresses
    /\ Len(o.stack) <= MaxStackHeight
    /\ o.count \in [0 .. MaxFunctionSlots - 1 -> 0 .. MaxUsageCount]
    /\ o.reg \in [Registers -> 0 .. MaxStackHeight]
    /\ o.skip \in {"no", "end", "else", "loop", "return"}
    /\ o.to \in 0 .. Len(o.blocks)
    /\ o.failed \in BOOLEAN /\ o.ignored \in BOOLEAN
    /\ Len(w.locals) = NumLocals
    /\ ~o.wild

Good == ~o.failed /\ ~o.ignored

\* The values of the WebAssembly machine are where the compiler has them: the
\* stack in slots and registers, wherever execution goes, and the locals.
ValuesInPlace ==
    Good => LET places == Places(o)
            IN  /\ [k \in DOMAIN places |-> Read(o, places[k])] = w.vals
                /\ [i \in 1 .. NumLocals |-> Read(o, o.stack[i])] = w.locals

\* Every operation reads the operands of its instruction.
OperandsRead == ~o.misread

\* A slot is counted once for each item that is in it, so that it is given to
\* others when, and only when, the last of them is gone.
CountsAgree ==
    Good => LET live == Live(o)
            IN  \A s \in o.firstDynamic .. MaxFunctionSlots - 1 :
                    o.count[s] = Cardinality({i \in live : s \in SlotsOf(o.stack[i])})

\* A register is in use if it is the place of an item, and of one only.
RegistersAgree ==
    Good => \A r \in Registers :
        {i \in Live(o) : o.stack[i].slot = r} = IF o.reg[r] = 0 THEN {} ELSE {o.reg[r]}

\* The arguments of a call are copied to the frame of the callee before its
\* op_Entry looks.  This is where the last of them may end: the frame begins
\* behind all slots in use, with two slots for each value of the call.
FrameEnd == FrameBehind(o.maxSlots) + 2 * o.values

\* A call has so many values that they may not fit the margin: three, or two in
\* a function that uses no slot.
LongCall == FrameEnd > o.maxSlots + StackMargin

\* op_Entry makes sure of maxStackSlots slots, and every value is in one of
\* them.  Operations write to these or to the margin behind them, but for the
\* arguments of long calls, which may be behind the margin, within their frame.
EntryCoversUnlessLongCall ==
    Good => /\ \A i \in DOMAIN o.stack :
                  ~IsRegister(o.stack[i].slot) => \A s \in SlotsOf(o.stack[i]) : s < o.maxSlots
            /\ o.reach <= IF LongCall THEN FrameEnd ELSE o.maxSlots + StackMargin

=============================================================================
