------------------------------ MODULE Execution ------------------------------
(***************************************************************************)
(* Calls and linear memory of one runtime (m3_exec.h, m3_env.c).           *)
(*                                                                         *)
(* Wasm code runs as nested C calls.  Each of them holds _sp, and _mem, a  *)
(* copy of runtime->memory.mallocated that goes stale when the memory is   *)
(* moved further down.  The limit of the stack is in the header of the     *)
(* memory, so that one pointer serves for both.  A host function may call  *)
(* back: it then is the embedder, and runtime->stack is moved to where its *)
(* own frame begins.                                                       *)
(*                                                                         *)
(* Slots are counted from the bottom of the stack, in 64-bit slots.        *)
(***************************************************************************)
EXTENDS Integers, Sequences, FiniteSetsExt

CONSTANTS
  Block,          \* where malloc may put the memory
  NULL,
  StackSlots,     \* runtime->numStackSlots
  Sizes,          \* maxStackSlots of the functions
  ModuleMemory,   \* the memory of a module: [imported, initPages, maxPages]
  Wrap,           \* 2^32
  PageBytes,      \* d_m3MemPageSize
  PageLimit,      \* 65536: maxPages of a memory that declares none
  MaxLinearPages, \* d_m3MaxLinearMemoryPages
  MemoryLimit,    \* runtime->memoryLimit, 0 for none
  MaxLoops,       \* bound: loops around a call
  MaxFrames       \* bound: nested C calls

ASSUME ExecutionAssumption ==
  /\ NULL \notin Block /\ NULL \notin [length : Nat, maxStack : Nat]
  /\ StackSlots \in Nat /\ Sizes \subseteq Nat
  /\ ModuleMemory \subseteq [imported : BOOLEAN, initPages : Nat, maxPages : Nat]
  /\ \A m \in ModuleMemory : m.initPages < Wrap /\ m.maxPages < Wrap
  /\ Wrap \in Nat /\ PageBytes \in Nat \ {0, 1} /\ PageLimit * PageBytes = Wrap
  /\ PageLimit \in Nat /\ MaxLinearPages \in 1 .. PageLimit - 1
  /\ MemoryLimit \in Nat /\ MaxLoops \in Nat /\ MaxFrames \in Nat

VARIABLES
  mallocated,  \* runtime->memory.mallocated
  header,      \* the M3MemoryHeader at the start of each block, NULL when free
  numPages,    \* runtime->memory.numPages
  maxPages,    \* runtime->memory.maxPages
  stack,       \* runtime->stack
  frames,      \* the nested C calls, the innermost last
  resizedDeep  \* the memory was resized while runtime->stack was moved

vars == <<mallocated, header, numPages, maxPages, stack, frames, resizedDeep>>
memory == <<mallocated, header, numPages, maxPages, resizedDeep>>

(***************************************************************************)
(* A C call: op_Entry of a function, op_Loop, or op_CallRawFunction with   *)
(* the host function.  size is the function's maxStackSlots; backup is     *)
(* stack_backup of op_CallRawFunction.                                     *)
(***************************************************************************)
Frame ==
  [ kind : {"function", "loop", "host"}, sp : Nat, size : Nat, mem : Block,
    backup : Nat ]

Top == frames[Len(frames)]
Running  == frames # <<>> /\ Top.kind # "host"
Embedder == ~Running

\* Room for one more call.
Shallow == Len(frames) < MaxFrames

\* The innermost frame of a kind among the first n, 0 if there is none.
InnermostOf(kind, n) == Max({0} \cup {i \in 1 .. n : frames[i].kind = kind})

Innermost(kind) == InnermostOf(kind, Len(frames))

Below(i) == SubSeq(frames, 1, i - 1)

\* Mutant of Refreshed: the caller keeps its copy.
NotRefreshed(fs, mem) == fs

\* A call has returned to the last of fs.  Wasm code takes _mem from the
\* runtime again; an embedder holds none.
Refreshed(fs, mem) ==
  IF fs # <<>> /\ fs[Len(fs)].kind # "host" THEN [fs EXCEPT ![Len(fs)].mem = mem] ELSE fs

-----------------------------------------------------------------------------
(* Memory                                                                  *)

\* Mutant of WithinLimits: d_m3MaxLinearMemoryPages is not looked at.
WithinMax(n, max) == n <= max

WithinLimits(n, max) == n <= max /\ n <= MaxLinearPages

\* Bytes of n pages, multiplied in 32 bits, then limited.
AllocatedBytes(n) ==
  LET bytes == (n * PageBytes) % Wrap
  IN  IF MemoryLimit > 0 /\ MemoryLimit < bytes THEN MemoryLimit ELSE bytes

\* m3_Realloc: the block stays where it is when its size is said to be the
\* same; else it may move, and malloc may fail.
Realloc(n) ==
  IF numPages > 0 /\ numPages * PageBytes = AllocatedBytes(n) THEN {mallocated}
  ELSE {NULL, mallocated} \cup {b \in Block : header[b] = NULL}

\* ResizeMemory to n pages, with max for memory->maxPages.
ResizeMemory(n, max) ==
  \E b \in IF WithinLimits(n, max) THEN Realloc(n) ELSE {NULL} :
    IF b = NULL THEN UNCHANGED <<mallocated, header, numPages, resizedDeep>>
    ELSE /\ mallocated' = b
         /\ header' = [c \in Block |->
                         IF c = b THEN [length   |-> AllocatedBytes(n),
                                        maxStack |-> stack + StackSlots]
                                  ELSE NULL]
         /\ numPages' = n
         /\ resizedDeep' = (resizedDeep \/ stack # 0)

\* m3_LoadModule as far as InitMemory: a module that does not import its
\* memory replaces that of the modules loaded before it.
m3_LoadModule(m) ==
  /\ Embedder
  /\ IF m.imported THEN UNCHANGED memory
     ELSE LET max == IF m.maxPages = 0 THEN PageLimit ELSE m.maxPages
          IN  maxPages' = max /\ ResizeMemory(m.initPages, max)
  /\ UNCHANGED <<stack, frames>>

\* op_MemGrow: the sum has 32 bits; _mem is taken anew, grown or not.
MemGrow(n) ==
  /\ Running
  /\ ResizeMemory((numPages + n) % Wrap, maxPages)
  /\ frames' = [frames EXCEPT ![Len(frames)].mem = mallocated']
  /\ UNCHANGED <<maxPages, stack>>

-----------------------------------------------------------------------------
(* Calls                                                                   *)

\* Mutant of Fits: only the start of the frame is compared with the limit.
FitsAtStart(sp, size, mem) == sp < header[mem].maxStack

\* The test of op_Entry.
Fits(sp, size, mem) == sp + size < header[mem].maxStack

FunctionFrame(sp, size, mem) ==
  [kind |-> "function", sp |-> sp, size |-> size, mem |-> mem, backup |-> 0]

\* Mutant of HostFrame: it remembers the bottom of the stack.
HostFrameAtBottom(sp, mem) ==
  [kind |-> "host", sp |-> sp, size |-> 0, mem |-> mem, backup |-> 0]

HostFrame(sp, mem) ==
  [kind |-> "host", sp |-> sp, size |-> 0, mem |-> mem, backup |-> stack]

\* An error goes up to the embedder's last call, or out of the program's.
Unwound == SubSeq(frames, 1, Innermost("host"))

\* op_Entry at sp, called with _mem = mem.
Entry(sp, size, mem) ==
  /\ frames' = IF Fits(sp, size, mem) THEN Append(frames, FunctionFrame(sp, size, mem))
               ELSE Unwound
  /\ UNCHANGED <<memory, stack>>

\* op_CallRawFunction at sp: the host function becomes the embedder.
CallRawFunction(sp, mem) ==
  /\ frames' = Append(frames, HostFrame(sp, mem))
  /\ stack' = sp
  /\ UNCHANGED memory

\* Mutant of StackOffsets: a function that uses no slot moves the stack by none.
StackOffsetsFromZero(size) == 0 .. size

\* Where the arguments of a call may begin, in the caller's frame: at least one
\* slot further on, at most behind all the slots in use.
StackOffsets(size) == 1 .. IF size = 0 THEN 1 ELSE size

\* m3_Call, and the call of a start function: of a wasm function, or of a linked
\* import.  As long as there is no memory no module is in the runtime, and
\* nothing to call: InitDataSegments has thrown.
m3_Call ==
  /\ Embedder /\ mallocated # NULL /\ Shallow
  /\ \/ \E size \in Sizes : Entry(stack, size, mallocated)
     \/ CallRawFunction(stack, mallocated)

\* op_Call and op_CallIndirect, to either kind of function.
Call ==
  /\ Running /\ Shallow
  /\ \E offset \in StackOffsets(Top.size) :
       \/ \E size \in Sizes : Entry(Top.sp + offset, size, Top.mem)
       \/ CallRawFunction(Top.sp + offset, Top.mem)

\* The function returns, out of all the loops around op_Return.
Return ==
  /\ Running
  /\ frames' = Refreshed(Below(Innermost("function")), mallocated)
  /\ UNCHANGED <<memory, stack>>

\* An operation traps.
Trap ==
  /\ Running
  /\ frames' = Unwound
  /\ UNCHANGED <<memory, stack>>

\* The host function returns, with an error or without.
HostReturns(error) ==
  /\ frames # <<>> /\ Top.kind = "host"
  /\ stack' = Top.backup
  /\ frames' = IF error THEN SubSeq(frames, 1, InnermostOf("host", Len(frames) - 1))
                ELSE Refreshed(Below(Len(frames)), mallocated)
  /\ UNCHANGED memory

\* op_Loop.
Loop ==
  /\ Running /\ Shallow
  /\ Len(frames) - Innermost("function") < MaxLoops
  /\ frames' = Append(frames, [Top EXCEPT !.kind = "loop"])
  /\ UNCHANGED <<memory, stack>>

\* op_ContinueLoop: out of the loops within loop i, which begins another pass.
ContinueLoop(i) ==
  /\ Running /\ Innermost("function") < i
  /\ frames' = Refreshed(SubSeq(frames, 1, i), mallocated)
  /\ UNCHANGED <<memory, stack>>

-----------------------------------------------------------------------------
\* A new runtime.
Init ==
  /\ mallocated = NULL
  /\ header = [b \in Block |-> NULL]
  /\ numPages = 0 /\ maxPages = 0
  /\ stack = 0
  /\ frames = <<>>
  /\ resizedDeep = FALSE

Next ==
  \/ \E m \in ModuleMemory : m3_LoadModule(m)
  \/ \E n \in 1 .. Wrap - 1 : MemGrow(n)
  \/ m3_Call
  \/ Call
  \/ Return
  \/ Trap
  \/ \E error \in BOOLEAN : HostReturns(error)
  \/ Loop
  \/ \E i \in 1 .. Len(frames) : ContinueLoop(i)

Spec == Init /\ [][Next]_vars

-----------------------------------------------------------------------------
(* Correctness                                                             *)

\* Every variable has its type.
TypeOK ==
  /\ mallocated \in Block \cup {NULL}
  /\ header \in [Block -> {NULL} \cup [length : Nat, maxStack : Nat]]
  /\ numPages \in 0 .. MaxLinearPages /\ maxPages \in 0 .. Wrap - 1
  /\ stack \in Nat
  /\ frames \in Seq(Frame)
  /\ resizedDeep \in BOOLEAN

\* The cached pointer.  Whatever a callee, a loop or a host function did to the
\* memory, the wasm code that runs holds the pointer to where it is now.
MemCurrent == Running => Top.mem = mallocated

\* The header describes the memory, for the bounds checks of every access: no
\* page count has wrapped around; and the block before a move is freed.
HeaderAgrees ==
  mallocated # NULL =>
    /\ \A b \in Block : header[b] # NULL <=> b = mallocated
    /\ header[mallocated].length =
         IF MemoryLimit > 0 /\ MemoryLimit < numPages * PageBytes THEN MemoryLimit
         ELSE numPages * PageBytes

\* runtime->stack is where the innermost host function's frame begins, and the
\* bottom again when none runs; and each host function knows what it was before.
StackBefore(i) ==
  LET host == InnermostOf("host", i - 1) IN IF host = 0 THEN 0 ELSE frames[host].sp

StackFollowsHosts ==
  /\ stack = StackBefore(Len(frames) + 1)
  /\ \A i \in 1 .. Len(frames) :
       frames[i].kind = "host" => frames[i].backup = StackBefore(i)

\* "so that op_Entry can precisely detect stack overflow" (m3_compile.c:2782):
\* every function that was entered has all its slots on the stack.
StackOverflowDetected ==
  \A i \in 1 .. Len(frames) :
    frames[i].kind = "function" => frames[i].sp + frames[i].size <= StackSlots

\* It is so for as long as the memory is not resized by a nested call.
OverflowDetectedUnlessDeep == ~resizedDeep => StackOverflowDetected

\* "ensure the m3 stack overflows (and traps) before the native stack can
\* overflow" (m3_compile.c:1529): a recursion of functions that need no slot,
\* through host functions or not, ends after as many calls as there are slots.
RunawayTraps ==
  ~resizedDeep =>
    Cardinality({i \in 1 .. Len(frames) : frames[i].kind = "function"}) <= StackSlots
=============================================================================
