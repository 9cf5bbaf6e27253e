----------------------------- MODULE Compilation -----------------------------
(***************************************************************************)
(* Where compiled code goes: the emitter of m3_emit.c, and the part of     *)
(* m3_compile.c that decides which page a word is written to and which     *)
(* line a jump points to.                                                  *)
(*                                                                         *)
(* The program being compiled is any sequence of statements; a statement   *)
(* is the number of words it emits and what it does to control.  Code that *)
(* follows an unconditional branch in its block is never reached, and is   *)
(* not modelled.  The runtimes of an environment run on one thread: at     *)
(* most one function, or one constant expression, is being compiled.       *)
(***************************************************************************)
EXTENDS CodePages, FiniteSets

CONSTANTS
  Function,    \* functions with a wasm body
  Import,      \* imported functions, linked to a host function
  Home,        \* the runtime of the module that holds each of them
  Scratch,     \* the M3Runtime on EvaluateExpression's stack
  Operands,    \* how many operand words can follow an operation
  MaxTargets,  \* bound: targets of a branch table, the default apart
  MaxJobs,     \* bound: compilations and linkings of a behaviour
  MaxSteps     \* bound: statements of a behaviour

ASSUME CompilationAssumption ==
  /\ Scratch \in Runtime
  /\ Home \in [Function \cup Import -> Runtime \ {Scratch}]
  /\ NULL \notin Function \cup Import \cup Page
  \* "max is: select _sss & CallIndirect" (m3_core.h)
  /\ Operands \subseteq 0 .. FreeLinesThreshold - 1
  /\ MaxTargets \in Nat /\ MaxJobs \in Nat /\ MaxSteps \in Nat

VARIABLES
  pool,      \* the pages
  live,      \* runtimes that are neither freed nor still to be created
  compiled,  \* io_function->compiled, with the job that emitted the code
  o,         \* the M3Compilation in progress, or NULL
  ignored,   \* an EmitOp has failed and its caller went on
  job,       \* compilations and linkings so far
  steps      \* statements so far

vars == <<pool, live, compiled, o, ignored, job, steps>>

(***************************************************************************)
(* A block being compiled (M3CompilationScope), with the locals of the C   *)
(* function that compiles it: the pointer word of op_If, the page to come  *)
(* back to.  "targets" and "target" are the locals of Compile_BranchTable. *)
(***************************************************************************)
BlockOpcode == {"function", "block", "loop", "if", "else"}

Scope ==
  [ opcode  : BlockOpcode \cup {"expression", "targets", "target"},
    pc      : PC,           \* the start of the block; of a target's code
    patches : SUBSET PC,    \* pointers to patch with the line after the block
    pointer : PC \cup {NULL},
    saved   : Page \cup {NULL},
    left    : Nat ]         \* entries of a branch table still to be emitted

NewScope(opcode, pc) ==
  [opcode |-> opcode, pc |-> pc, patches |-> {}, pointer |-> NULL,
   saved |-> NULL, left |-> 0]

\* M3Compilation: page is o->page; fn is NULL for a constant expression; dead
\* is the current block's isPolymorphic.
CompilationType ==
  [ runtime : Runtime, fn : Function \cup {NULL}, job : Nat, pc : PC,
    page : Page, scopes : Seq(Scope), dead : BOOLEAN ]

ASSUME CompilationNotNull == NULL \notin CompilationType

NewCompilation(r, f, j, pc, page, opcode) ==
  [runtime |-> r, fn |-> f, job |-> j, pc |-> pc, page |-> page,
   scopes |-> <<NewScope(opcode, pc)>>, dead |-> FALSE]

Top == Len(o.scopes)
Current == o.scopes[Top]
Outer == SubSeq(o.scopes, 1, Top - 1)

-----------------------------------------------------------------------------
(* Words                                                                   *)

\* An operation or an operand: control passes to the line below.
Plain(j) == [job |-> j, falls |-> TRUE, to |-> NULL]
\* op_Return
Stop(j) == [job |-> j, falls |-> FALSE, to |-> NULL]
\* The pointer of op_Branch and op_ContinueLoop.
Jump(j, pc) == [job |-> j, falls |-> FALSE, to |-> pc]
\* The pointer of op_If, op_BranchIf, op_ContinueLoopIf.
Fork(j, pc) == [job |-> j, falls |-> TRUE, to |-> pc]

PlainWords(j, n) == [i \in 1 .. n |-> Plain(j)]

-----------------------------------------------------------------------------
(***************************************************************************)
(* The emitter.  A state of it is the pool, the page that receives the     *)
(* words (o->page), and whether an error is being returned; each operator  *)
(* gives the set of states it may end in.                                  *)
(***************************************************************************)
Emitter(s, p) == [pool |-> s, page |-> p, failed |-> FALSE]

\* Bridge from page e.page to the page just acquired.
Bridge(e, r, j, a) ==
  LET bridged == EmitWords(a.pool, e.page,
                           <<Plain(j), Jump(j, GetPagePC(a.pool, a.page))>>)
  IN  Emitter(ReleaseCodePage(bridged, r, e.page), a.page)

\* Mutant of EnsureCodePageNumLines: the two lines of the bridge are forgotten.
EnsureCodePageNumLinesNoBridge(e, r, j, n) ==
  IF NumFreeLines(e.pool, e.page) >= n
  THEN {e}
  ELSE {IF a.page = NULL THEN [e EXCEPT !.failed = TRUE] ELSE Bridge(e, r, j, a) :
          a \in AcquireCodePageWithCapacity(e.pool, r, n + 2)}

EnsureCodePageNumLines(e, r, j, n) ==
  IF NumFreeLines(e.pool, e.page) >= n + 2
  THEN {e}
  ELSE {IF a.page = NULL THEN [e EXCEPT !.failed = TRUE] ELSE Bridge(e, r, j, a) :
          a \in AcquireCodePageWithCapacity(e.pool, r, n + 2)}

\* EmitOp and the operand words that follow it; only EmitOp makes room.
EmitOp(e, r, j, words) ==
  {IF x.failed THEN x ELSE [x EXCEPT !.pool = EmitWords(@, x.page, words)] :
     x \in EnsureCodePageNumLines(e, r, j, FreeLinesThreshold)}

\* PreserveArgsAndLocals, for n locals that are still referenced (0 or 1): a
\* copy with two slot operands.  The result of EmitOp is not looked at.
PreserveArgsAndLocals(e, r, j, n) ==
  IF n = 0 THEN {e}
  ELSE {IF x.failed THEN [x EXCEPT !.pool = EmitWords(@, x.page, PlainWords(j, 2))]
                    ELSE x :
          x \in EmitOp(e, r, j, PlainWords(j, 3))}

-----------------------------------------------------------------------------
(* What every step of a compilation has in common.                         *)

\* An overrun page is undefined behaviour (a failed assertion in a debug
\* build); nothing is said of what follows.
Overrun == \E p \in Page : Len(pool.code[p]) > pool.numLines[p]

Resting == o = NULL /\ ~Overrun
Emitting == o # NULL /\ ~Overrun /\ ~o.dead
Busy == Emitting /\ steps < MaxSteps
Start == Emitter(pool, o.page)

\* Mutant of Abandon: the runtime on the stack is released on success only.
AbandonKeepingScratch(e) ==
  /\ pool' = LET s == ReleaseCodePage(e.pool, o.runtime, e.page)
             IN  IF o.fn = NULL /\ ~e.failed THEN Runtime_Release(s, Scratch) ELSE s
  /\ o' = NULL
  /\ UNCHANGED <<compiled>>

\* _catch: o->page is released; saved pages are in locals that are gone.
Abandon(e) ==
  /\ pool' = LET s == ReleaseCodePage(e.pool, o.runtime, e.page)
             IN  IF o.fn = NULL THEN Runtime_Release(s, Scratch) ELSE s
  /\ o' = NULL
  /\ UNCHANGED <<compiled>>

\* Go on with compilation c, or return the error of the emitter.
Continue(e, c) ==
  IF e.failed THEN Abandon(e)
  ELSE /\ pool' = e.pool
       /\ o' = [c EXCEPT !.page = e.page]
       /\ UNCHANGED <<compiled>>

-----------------------------------------------------------------------------
(* Runtimes and linking                                                    *)

m3_NewRuntime(r) ==
  /\ Resting /\ r # Scratch /\ r \notin live
  /\ live' = live \cup {r}
  /\ UNCHANGED <<pool, compiled, o, ignored, job, steps>>

\* The modules of the runtime are freed with it.
m3_FreeRuntime(r) ==
  /\ Resting /\ r \in live
  /\ live' = live \ {r}
  /\ pool' = Runtime_Release(pool, r)
  /\ compiled' = [f \in DOMAIN compiled |-> IF Home[f] = r THEN NULL ELSE compiled[f]]
  /\ UNCHANGED <<o, ignored, job, steps>>

\* The environment is freed after its runtimes, and another one is made.
m3_FreeEnvironment ==
  /\ Resting /\ live = {}
  /\ pool' = Environment_Release(pool)
  /\ UNCHANGED <<live, compiled, o, ignored, job, steps>>

\* Links import f to a host function, for the first time or again.
LinkRawFunction(f) ==
  /\ Resting /\ Home[f] \in live /\ job < MaxJobs
  /\ job' = job + 1
  /\ \E a \in AcquireCodePageWithCapacity(pool, Home[f], 4) :
       IF a.page = NULL THEN UNCHANGED <<pool, compiled>>
       ELSE /\ compiled' = [compiled EXCEPT ![f] =
                              [job |-> job', pc |-> GetPagePC(a.pool, a.page)]]
            /\ pool' = ReleaseCodePage(
                         EmitWords(a.pool, a.page,
                                   PlainWords(job', 3) \o <<Stop(job')>>),
                         Home[f], a.page)
  /\ UNCHANGED <<live, o, ignored, steps>>

-----------------------------------------------------------------------------
(* Starting                                                                *)

\* CompileFunction up to op_Entry.  A function is compiled when it has not
\* been, or when m3_InjectFunction has reset it.
CompileFunction(f) ==
  /\ Resting /\ Home[f] \in live /\ job < MaxJobs
  /\ job' = job + 1
  /\ compiled' = [compiled EXCEPT ![f] = NULL]
  /\ \E a \in AcquireCodePage(pool, Home[f]) :
       IF a.page = NULL THEN UNCHANGED <<pool, o>>
       ELSE LET pc == GetPagePC(a.pool, a.page) IN
            \E e \in EmitOp(Emitter(a.pool, a.page), Home[f], job', PlainWords(job', 2)) :
              IF e.failed
              THEN pool' = ReleaseCodePage(e.pool, Home[f], e.page) /\ UNCHANGED o
              ELSE /\ pool' = e.pool
                   /\ o' = NewCompilation(Home[f], f, job', pc, e.page, "function")
  /\ UNCHANGED <<live, ignored, steps>>

\* EvaluateExpression, for a module of a live runtime.
EvaluateExpression ==
  /\ Resting /\ live # {} /\ job < MaxJobs
  /\ job' = job + 1
  /\ \E a \in AcquireCodePage(pool, Scratch) :
       IF a.page = NULL
       THEN pool' = Runtime_Release(a.pool, Scratch) /\ UNCHANGED o
       ELSE /\ pool' = a.pool
            /\ o' = NewCompilation(Scratch, NULL, job', GetPagePC(a.pool, a.page),
                                   a.page, "expression")
  /\ UNCHANGED <<live, compiled, ignored, steps>>

-----------------------------------------------------------------------------
(* Statements                                                              *)

\* A statement of the program being compiled.
Counted == steps' = steps + 1 /\ UNCHANGED <<live, job>>

\* The statement is malformed, or does not type-check.
Malformed ==
  /\ o # NULL /\ ~Overrun
  /\ Abandon(Start)
  /\ UNCHANGED <<live, ignored, job, steps>>

\* An operation with n operands.  Constant expressions allow few operations,
\* but they emit words as the others do.
Instruction(n) ==
  /\ Busy /\ Current.opcode # "targets"
  /\ \E e \in EmitOp(Start, o.runtime, o.job, PlainWords(o.job, n + 1)) :
       Continue(e, o)
  /\ Counted /\ UNCHANGED ignored

InBlock == Busy /\ Current.opcode \in BlockOpcode

\* Compile_LoopOrBlock, then the head of CompileBlock.  A block emits nothing
\* of its own, a loop op_Loop.
Compile_LoopOrBlock(opcode, n) ==
  /\ InBlock
  /\ \E x \in PreserveArgsAndLocals(Start, o.runtime, o.job, n) :
       LET y == [x EXCEPT !.failed = FALSE] IN
       /\ ignored' = (ignored \/ x.failed)
       /\ \E e \in IF opcode = "block" THEN {y}
                   ELSE EmitOp(y, o.runtime, o.job, PlainWords(o.job, 1)) :
            Continue(e, [o EXCEPT !.scopes =
              Append(@, NewScope(opcode, GetPagePC(e.pool, e.page)))])
  /\ Counted

\* Compile_If: op_If and the pointer to the else code, still unknown.
Compile_If(n) ==
  /\ InBlock
  /\ \E x \in PreserveArgsAndLocals(Start, o.runtime, o.job, n) :
       /\ ignored' = (ignored \/ x.failed)
       /\ \E e \in EmitOp([x EXCEPT !.failed = FALSE], o.runtime, o.job,
                          <<Plain(o.job), Fork(o.job, Unpatched)>>) :
            Continue(e, [o EXCEPT !.scopes =
              Append(@, [NewScope("if", GetPagePC(e.pool, e.page))
                           EXCEPT !.pointer = LastPC(e.pool, e.page)])])
  /\ Counted

\* The words that leave for the block at index t: back to the start of a loop,
\* out of the function, or to the end of a block, which is still unknown.
LeavingWords(t, falls) ==
  CASE o.scopes[t].opcode = "function" -> <<Stop(o.job)>>
    [] o.scopes[t].opcode = "loop" ->
         <<Plain(o.job), [Jump(o.job, o.scopes[t].pc) EXCEPT !.falls = falls]>>
    [] OTHER ->
         <<Plain(o.job), [Jump(o.job, Unpatched) EXCEPT !.falls = falls]>>

\* Mutant of WithPatch: an if is taken for a block that needs no patch.
WithPatchNoIf(c, t, e) ==
  IF c.scopes[t].opcode \in {"function", "loop", "if"} THEN c
  ELSE [c EXCEPT !.scopes[t].patches = @ \cup {LastPC(e.pool, e.page)}]

\* EmitPatchingBranchPointer: the pointer just emitted joins the patches of t.
WithPatch(c, t, e) ==
  IF c.scopes[t].opcode \in {"function", "loop"} THEN c
  ELSE [c EXCEPT !.scopes[t].patches = @ \cup {LastPC(e.pool, e.page)}]

Leave(e, t, falls) == EmitOp(e, o.runtime, o.job, LeavingWords(t, falls))

\* br and return (a branch to the function's block).
Compile_Branch(t) ==
  /\ InBlock
  /\ \E e \in Leave(Start, t, FALSE) :
       Continue(e, [WithPatch(o, t, e) EXCEPT !.dead = TRUE])
  /\ Counted /\ UNCHANGED ignored

\* br_if to a block or loop that takes no values.
Compile_BranchIf(t) ==
  /\ InBlock /\ o.scopes[t].opcode # "function"
  /\ \E e \in Leave(Start, t, TRUE) : Continue(e, WithPatch(o, t, e))
  /\ Counted /\ UNCHANGED ignored

\* br_if with values to move: op_BranchIfPrologue skips the branch by a pointer
\* (jumpTo) that is patched when the branch has been emitted.
Compile_BranchIfPrologue(t) ==
  /\ InBlock
  /\ \E x \in EmitOp(Start, o.runtime, o.job, <<Plain(o.job), Fork(o.job, Unpatched)>>) :
       IF x.failed THEN Abandon(x)
       ELSE \E e \in Leave(x, t, FALSE) :
              Continue([e EXCEPT !.pool =
                          SetPointers(@, {LastPC(x.pool, x.page)},
                                      GetPagePC(e.pool, e.page))],
                       WithPatch(o, t, e))
  /\ Counted /\ UNCHANGED ignored

-----------------------------------------------------------------------------
(* Branch tables                                                           *)

\* Compile_BranchTable up to its loop: room for the whole table, then
\* op_BranchTable, the slot and the count.  n targets and the default follow.
Compile_BranchTable(n) ==
  /\ InBlock
  /\ \E x \in EnsureCodePageNumLines(Start, o.runtime, o.job, n + 4) :
       IF x.failed THEN Abandon(x)
       ELSE \E e \in EmitOp(x, o.runtime, o.job, PlainWords(o.job, 3)) :
              Continue(e, [o EXCEPT !.scopes =
                Append(@, [NewScope("targets", GetPagePC(e.pool, e.page))
                             EXCEPT !.left = n + 1])])
  /\ Counted /\ UNCHANGED ignored

\* A pass of the loop begins: the code of the next target goes to a page of
\* its own, and o->page is kept in savedPage.
OpenTarget ==
  /\ Emitting /\ Current.opcode = "targets"
  /\ \E a \in AcquireCodePage(pool, o.runtime) :
       IF a.page = NULL THEN Abandon(Start)
       ELSE Continue(Emitter(a.pool, a.page), [o EXCEPT !.scopes =
              Append(@, [NewScope("target", GetPagePC(a.pool, a.page))
                           EXCEPT !.saved = o.page])])
  /\ UNCHANGED <<live, ignored, job, steps>>

\* The pass ends: leave for block t, release the page, come back to the saved
\* one and add the target's start to the table.  After the last entry the
\* code that follows is not reached.
CloseTarget(t) ==
  /\ Emitting /\ Current.opcode = "target"
  /\ \E e \in Leave(Start, t, FALSE) :
       IF e.failed THEN Abandon(e)
       ELSE LET last  == o.scopes[Top - 1].left = 1
                entry == [Jump(o.job, Current.pc) EXCEPT !.falls = ~last]
                c     == WithPatch(o, t, e)
                s     == EmitWords(ReleaseCodePage(e.pool, o.runtime, e.page),
                                   Current.saved, <<entry>>)
            IN Continue(Emitter(s, Current.saved),
                 IF last THEN [c EXCEPT !.scopes = SubSeq(c.scopes, 1, Top - 2),
                                        !.dead = TRUE]
                 ELSE [c EXCEPT !.scopes = Append(SubSeq(c.scopes, 1, Top - 2),
                                                  [c.scopes[Top - 1] EXCEPT !.left = @ - 1])])
  /\ UNCHANGED <<live, ignored, job, steps>>

-----------------------------------------------------------------------------
(* The ends of blocks                                                      *)

AtEnd(opcodes) ==
  o # NULL /\ ~Overrun /\ Current.opcode \in opcodes

\* PatchBranches: the pointers that wait for the end of the current block.
PatchBranches(s) == SetPointers(s, Current.patches, GetPagePC(s, o.page))

\* The end of a block or loop, or of an if that has no else and no results,
\* whose pointer then leads to the end as well.
EndBlock ==
  /\ AtEnd({"block", "loop", "if"})
  /\ LET s == PatchBranches(pool)
         t == IF Current.opcode # "if" THEN s
              ELSE SetPointers(s, {Current.pointer}, GetPagePC(s, o.page))
     IN  Continue(Emitter(t, o.page), [o EXCEPT !.scopes = Outer, !.dead = FALSE])
  /\ UNCHANGED <<live, ignored, job, steps>>

\* The end of an if block that has an else, or has results and needs one made
\* up; CompileElseBlock begins on a page of its own.
CompileElseBlock ==
  /\ AtEnd({"if"})
  /\ \E a \in AcquireCodePage(PatchBranches(pool), o.runtime) :
       IF a.page = NULL THEN Abandon(Emitter(a.pool, o.page))
       ELSE LET pc == GetPagePC(a.pool, a.page) IN
            Continue(Emitter(SetPointers(a.pool, {Current.pointer}, pc), a.page),
                     [o EXCEPT !.scopes = Append(Outer, [NewScope("else", pc)
                                                           EXCEPT !.saved = o.page]),
                               !.dead = FALSE])
  /\ UNCHANGED <<live, ignored, job, steps>>

\* CompileElseBlock ends: branch back to the saved page.
EndElse ==
  /\ AtEnd({"else"})
  /\ LET back == GetPagePC(pool, Current.saved) IN
     \E e \in EmitOp(Emitter(PatchBranches(pool), o.page), o.runtime, o.job,
                     <<Plain(o.job), Jump(o.job, back)>>) :
       IF e.failed THEN Abandon(e)
       ELSE Continue(Emitter(ReleaseCodePage(e.pool, o.runtime, e.page), Current.saved),
                     [o EXCEPT !.scopes = Outer, !.dead = FALSE])
  /\ UNCHANGED <<live, ignored, job, steps>>

\* The end of the body: op_Return, and the code is the function's.
EndFunction ==
  /\ AtEnd({"function"})
  /\ \E e \in EmitOp(Start, o.runtime, o.job, <<Stop(o.job)>>) :
       IF e.failed THEN Abandon(e)
       ELSE /\ compiled' = [compiled EXCEPT ![o.fn] = [job |-> o.job, pc |-> o.pc]]
            /\ pool' = ReleaseCodePage(e.pool, o.runtime, e.page)
            /\ o' = NULL
  /\ UNCHANGED <<live, ignored, job, steps>>

\* The end of an expression: op_Return; it is run, and the runtime on the
\* stack is released whatever happened.
EndExpression ==
  /\ AtEnd({"expression"})
  /\ \E e \in EmitOp(Start, o.runtime, o.job, <<Stop(o.job)>>) : Abandon(e)
  /\ UNCHANGED <<live, ignored, job, steps>>

-----------------------------------------------------------------------------
Init ==
  /\ pool = EmptyPool
  /\ live = {}
  /\ compiled = [f \in Function \cup Import |-> NULL]
  /\ o = NULL
  /\ ignored = FALSE
  /\ job = 0
  /\ steps = 0

\* The blocks a branch may name: those around the current statement.
BranchTarget ==
  IF o = NULL THEN {} ELSE {t \in 1 .. Top : o.scopes[t].opcode \in BlockOpcode}

Next ==
  \/ \E r \in Runtime : m3_NewRuntime(r)
  \/ \E r \in Runtime : m3_FreeRuntime(r)
  \/ m3_FreeEnvironment
  \/ \E f \in Import : LinkRawFunction(f)
  \/ \E f \in Function : CompileFunction(f)
  \/ EvaluateExpression
  \/ Malformed
  \/ \E n \in Operands : Instruction(n)
  \/ \E n \in {0, 1} : Compile_LoopOrBlock("block", n)
  \/ \E n \in {0, 1} : Compile_LoopOrBlock("loop", n)
  \/ \E n \in {0, 1} : Compile_If(n)
  \/ \E t \in BranchTarget : Compile_Branch(t)
  \/ \E t \in BranchTarget : Compile_BranchIf(t)
  \/ \E t \in BranchTarget : Compile_BranchIfPrologue(t)
  \/ \E n \in 0 .. MaxTargets : Compile_BranchTable(n)
  \/ OpenTarget
  \/ \E t \in BranchTarget : CloseTarget(t)
  \/ EndBlock
  \/ CompileElseBlock
  \/ EndElse
  \/ EndFunction
  \/ EndExpression

Spec == Init /\ [][Next]_vars

-----------------------------------------------------------------------------
(* Correctness                                                             *)

\* Every variable has its type.  (numActiveCodePages is a u32 in the program;
\* CountersAgree says why it does not go below 0.)
TypeOK ==
  /\ pool \in PoolType
  /\ live \subseteq Runtime \ {Scratch}
  /\ compiled \in [Function \cup Import -> {NULL} \cup [job : Nat, pc : PC]]
  /\ o \in {NULL} \cup CompilationType
  /\ ignored \in BOOLEAN
  /\ job \in Nat /\ steps \in Nat

\* Page ownership.  No page is on two lists, or twice on one, or on a list while
\* a compilation writes to it: two functions would be compiled over each other.
\* What a compilation holds (o->page and the saved pages of else blocks and
\* branch tables) is active, and held once.
Saved == {i \in 1 .. Top : o.scopes[i].saved # NULL}

HeldPagesActive ==
  o # NULL =>
    /\ o.page \in pool.active[o.runtime]
    /\ \A i \in Saved : /\ o.scopes[i].saved \in pool.active[o.runtime] \ {o.page}
                        /\ \A j \in Saved :
                             o.scopes[i].saved = o.scopes[j].saved => i = j

PageInOnePlace == OnePlace(pool) /\ HeldPagesActive

\* The assertion of ReleaseCodePage (m3_env.c): the lists and the active pages
\* account for every page of the runtime.
CountersAgree ==
  /\ CountersAgreeOn(pool)
  /\ \A r \in Runtime : Cardinality(pool.active[r]) = pool.numActiveCodePages[r]

\* Room.  Operands are emitted without a check, so whenever a statement begins,
\* o->page and every saved page must have the two lines a bridge takes, and
\* no page is ever written past its end.
HasRoom(p) == NumFreeLines(pool, p) >= 2

RoomForBridge ==
  o # NULL => HasRoom(o.page) /\ \A i \in Saved : HasRoom(o.scopes[i].saved)

\* The assertion of EmitWord_impl and EmitWord64 (m3_code.c:84): nothing is
\* written behind the last line of a page.
NoOverrun == ~Overrun

\* Both hold for as long as no error of EmitOp has been dropped.
RoomUnlessIgnored == ~ignored => RoomForBridge /\ NoOverrun

\* Control flow.  Follow the code of a compiled function from its first line,
\* below or through any pointer: it is all there, on pages that have not been
\* wiped, and none of it belongs to another function.
Emitted(pc, j) ==
  /\ pc[2] <= Len(pool.code[pc[1]])
  /\ pool.code[pc[1]][pc[2]].job = j

CodeIntact(j) ==
  \A p \in Page : \A i \in 1 .. Len(pool.code[p]) :
    LET w == pool.code[p][i] IN
    w.job = j => /\ w.falls => Emitted(<<p, i + 1>>, j)
                 /\ w.to # Unpatched
                 /\ w.to # NULL => Emitted(w.to, j)

CompiledCodeIntact ==
  \A f \in DOMAIN compiled :
    compiled[f] # NULL => /\ Emitted(compiled[f].pc, compiled[f].job)
                          /\ CodeIntact(compiled[f].job)

\* Code in use does not change: a word of a compiled function stays what it is
\* until the function is compiled again or its runtime is freed.
CodeStable ==
  [][\A f \in DOMAIN compiled :
       compiled[f] # NULL /\ compiled'[f] = compiled[f] =>
         \A p \in Page : \A i \in 1 .. Len(pool.code[p]) :
           pool.code[p][i].job = compiled[f].job =>
             i <= Len(pool'.code[p]) /\ pool'.code[p][i] = pool.code[p][i]]_vars

\* A constant expression leaves nothing behind: every page of the runtime on
\* EvaluateExpression's stack is back with the environment.
ScratchRuntimeEmpty ==
  o = NULL => /\ pool.list[Open(Scratch)] = <<>> /\ pool.list[Full(Scratch)] = <<>>
              /\ pool.active[Scratch] = {} /\ pool.numCodePages[Scratch] = 0
=============================================================================
