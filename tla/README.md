# A TLA+ verification of CWasm3

CWasm3 packages wasm3 0.5.0, a WebAssembly interpreter in C, for Swift. A module
is parsed, loaded into a runtime and linked with host functions. Its functions are
compiled lazily, in one pass, into *code pages* of operation pointers and operands,
which a chain of tail calls then runs. Everything happens on the caller's thread.
The hard part is not interleaving. It is ownership and order:

- pages, types and memory are shared and reused,
- code is written in several places at once and patched later,
- pointers are cached across calls that may move what they point to,
- every allocation may fail half way through a handler.

All source paths below are relative to `src/Sources/CWasm3/`.

## Inventory

| Component | State | Operations | What makes it correct |
|---|---|---|---|
| Code pages (`m3_code.c`, `m3_emit.c`, lists in `m3_env.c`) | pages with `lineIndex`/`numLines`; `pagesReleased` of the environment, `pagesOpen` and `pagesFull` of each runtime, two counters | acquire, release, emit, bridge, release all | a page has one owner; the counters agree with the lists; nothing is written behind a page |
| Compiler, placement and control (`m3_compile.c`) | `M3Compilation`: page, scopes, patch lists; pages saved in C locals | blocks, loops, ifs, else pages, branch tables, function prologue and end, constant expressions | every pointer of finished code leads to code of the same function |
| Compiler, stack and slots (`m3_compile.c`) | operand stack, slot usage counts, registers, constant table | push, pop, preserve, copy, resolve results | a live value's slot is never given away; results land in their slots |
| Function types (`m3_env.c`, `m3_function.c`) | `env->funcTypes`, `retFuncTypes`, the pointers of modules and functions | `Environment_AddFuncType` and its callers, comparisons | pointers are equal exactly if the types are; nothing dangles |
| Linear memory (`m3_env.c`, `m3_exec.h`) | `numPages`, `maxPages`, `mallocated`, its header with `maxStack` | `InitMemory`, `ResizeMemory`, `memory.grow` | growing never takes pages away; header and runtime agree; cached pointers are refreshed |
| Interpreter: calls and traps (`m3_exec.h`) | `_pc`, `_sp`, `_mem`, the words of the code | `op_Entry`, `op_Call`, `op_CallIndirect`, `op_Compile`, `op_CallRawFunction`, `op_Loop` | the stack stays within its limit; a call site always holds code |
| Module life (`m3_env.c`, `m3_module.c`, `m3_extensions.c`) | module list, `startFunction`, globals, `table0`, `lastCalled` | load, find, call, get results, inject, free | the start function runs once; results belong to the last call; a failed load leaves nothing usable |
| Parser (`m3_parse.c`) | the module being filled | one handler per section | sections in order; indices within bounds; every string has one owner |
| LEB128 (`m3_core.c`) | none | `ReadLEB_*` | the value, the overflow rules and the position |
| Arithmetic (`m3_exec.h`, `m3_math_utils.h`) | `_r0`, `_fp0`, slots, the bytes of the memory | some two hundred operations, in a variant for each place of their operands | each computes and traps as its instruction says, whatever else the register holds |
| Fixed heap (`m3_core.c`, optional) | bump pointer, last chunk | malloc, realloc, free | chunks are disjoint |
| Linker (`m3_bind.c`) | `compiled` of imports | link by name, signature parser | every match is linked with a signature that agrees |
| WASI, libc, tracer (`m3_api_*.c`) | preopened directories | host functions | pointers are checked before use |

Components meet in four ways. Calls are the obvious one. Shared state is the
second: the environment's pages and types are shared by all its runtimes, and one
`M3Compilation` by all the functions of a runtime. The third is the code itself: it
holds pointers to functions, types, modules and lines of other pages. The fourth are
callbacks: a host function may call back into the runtime that is running it.

The behaviours that tests hardly reach are listed, with their lines, under `hazards`
in `PROJECT.json`: malloc failing inside a handler, a compilation that throws
while a page is put aside, pages and addresses being reused, stale cached pointers,
32-bit wrap-around, and legal calls in an unusual order.

## Modules

| Module | What it is |
|---|---|
| `CodePages` | The pool of pages as operators on one record, as the C functions are called several at a time inside a handler. |
| `Compilation` | The state machine: runtimes, linking, one function or constant expression being compiled, statement by statement. EXTENDS `CodePages`. |
| `CompilationProofs` | Lemmas about the pool; the inductive invariant of the state machine; the invariant of code, where its words are and lead, and of the room on pages; theorems. |
| `Signatures` | Abstract: each module has lists of signatures, comparisons look at signatures only. |
| `FuncTypes` | The environment's list of interned types, at addresses that malloc reuses. It implements `Signatures`. |
| `ExecutionProofs` | The inductive invariant of nested calls, and its theorems. |
| `FuncTypesProofs` | The inductive invariant of the type list, its theorems, and that it implements `Signatures`. |
| `Execution` | Nested C calls of wasm and host functions on one stack, and the linear memory that any of them may move. |
| `CallSites` | What calls lead to: functions compiled on demand, linked, overwritten and appended, while calls, the table and the prologues hold addresses of code and of functions. |
| `CallSitesProofs` | Its inductive invariant and theorems. |
| `ModuleLife` | Modules in a runtime, as the embedder goes through it: parse, load, link, find, start, call, get results, free. |
| `ModuleLifeProofs` | Its inductive invariant and theorems. |
| `Parser` | Filling a module section by section, the ownership of its strings, and freeing it. |
| `ParserProofs` | Its inductive invariant and theorems. |
| `SlotAlloc` | Where the compiler keeps values: operand stack, slots and their counts, registers, constants, copies of locals, results of blocks; and the machine that executes what is emitted. |
| `Translation` | The instructions of a function, one action each, compiled to operations on slots and executed next to the WebAssembly machine. EXTENDS `SlotAlloc`. |
| `TranslationProofs` | The inductive invariant of the operand stack and the registers, and its theorems. |
| `SlotCountsProofs` | The inductive invariant of the use counts of slots and of `maxStackSlots`, and its theorems. |
| `Words` | Numbers of a fixed width as bit patterns, floats as a sign and a magnitude. |
| `Instructions` | Abstract: what WebAssembly's numeric and memory instructions do to a stack of values. |
| `Operations` | The C operations behind them, with operands in a shared register or in slots, and the numbers in the code. It implements `Instructions`. |
| `MCCompilation`, `MCFuncTypes`, `MCExecution`, `MCCallSites`, `MCModuleLife`, `MCParser`, `MCTranslation`, `MCOperations` | Values of the constants for TLC. |

### How `Compilation` follows the code

`pool` holds the linked lists, the words of each page and the counters. A page is
named by its `info.sequence`; a word is who emitted it (`job`), whether control falls
to the line below, and the line it points to. `pool.active` is the only history
variable: the set of pages that `numActiveCodePages` counts. `o` is the
`M3Compilation` and the C locals of the functions on the compiler's stack: every
`CompileBlock` on it is a scope with its patch list; the saved page of
`CompileElseBlock` and of `Compile_BranchTable` is a field of the scope that will
come back to it.

One action is one statement of the wasm body, with the calls it makes: `EmitOp`, a
possible bridge (acquire, two words, release), the operands, the patch, and the
release of the page if the statement throws. `Malformed` is an error in the body at any
point. A failure of malloc is a second outcome of every acquisition. The body is any
sequence of statements, so no wasm program is singled out.

What is abstracted: types, slots and values (a statement is a number of words);
code behind an unconditional branch, which is compiled but not reached (its block ends
at once here); `EmitWord64` on 32-bit targets; logging and back traces.
`Environment_Release` never gives a page number again, so `MaxPages` bounds the pages
of a whole behaviour.

After an overrun the behaviour of the C program is undefined, so no action is enabled
(`Overrun`). That is why the runs of this module do not check deadlock.

### How `FuncTypes` follows the code

`heap` gives the type at each address, `list` is `env->funcTypes`. A type is
allocated at any free address, looked up, and freed at once when an equal one is found:
this is what lets addresses come back. `m3_NewEnvironment`'s loop takes one step per
type, each of which may fail. A module gets types and functions from the parser or from
`m3_InjectFunction`, and loses all of them when it is freed. `answer` records what the
last request was told, so that the refinement can compare it. A failing realloc is
modelled as the freeing of the module, which is what the parser does; the module that
`m3_InjectFunction` leaves behind then is not modelled.

### How `Execution` follows the code

Wasm code is a chain of tail calls, so only some operations leave a frame on the C
stack: `op_Entry` of a function, `op_Loop`, and `op_CallRawFunction`, below which a host
function runs. `frames` is these, with the `_sp` and the `_mem` that each of them (or the
`op_Call` under it) holds. `op_Call` and `op_Entry` are one step: the caller's `_mem` is
passed on, and compared with nothing but the stack limit that lies in the block it points
to. Whoever runs no wasm code is the embedder, outside or inside a host function; it calls
`m3_Call` and `m3_LoadModule`. An error unwinds to the innermost host function, which is
the caller of the `m3_Call` that failed, and goes on.

`header` is what is at the start of each block that malloc may return. `Realloc` chooses:
it fails, grows in place, or moves (and the old block is free, for the next move to come
back to). Page counts are 32-bit: `Wrap`, `PageBytes`, `PageLimit` and `MaxLinearPages`
stand for 2^32, 65536, 65536 and 32768, and keep the relation that matters: the largest
declared memory has as many bytes as make 0 in 32 bits. `resizedDeep` is a history
variable: some resize has happened while a host function ran.

What is left out: the contents of memory and slots, the bounds checks of loads and stores,
the pointer a host function itself keeps across a callback, which code a call leads to,
freeing the runtime. `m3_Call` needs a memory: without one in the runtime `InitDataSegments` lets no
module be loaded (`m3_env.c:449`), so there is no function to call. Slots are 64-bit units, since every frame is aligned
to them.

### How `CallSites` follows the code

`functions` are the `M3Function` structs of one loaded module, `array` the address they
are at. An `IM3Function` is that address and an index, so a pointer into an array that
has moved is told from a good one (`Valid`). `code` is whatever was compiled or linked,
in order; a number in it is an address of code. Each body has at most one direct call,
whose `site` is `op_Call` with code, or `op_Compile` with a function; and may have an
indirect one. Constants are named by the code they were collected for, which is how
`op_Entry`, that reads them from the function and not from the code, is seen to copy the
wrong ones.

`CompileFunction` may fail at once for any reason, or after the function was marked as
compiled, when its constants cannot be copied. Its callers are `op_Compile`, which has
rewritten its operation by then, `op_CallIndirect`, `m3_FindFunction` and
`m3_InjectFunction`. Host functions run in raw frames, where the embedder's operations
are enabled, so functions may be injected, linked and called below running code. Using a
pointer that leads nowhere, or an operand that is not code, has no step in the model: what
the program does then is undefined, which is why these runs do not check deadlock. When the
array cannot grow (`InjectFails`), the module counts functions it has no array for, and
only returns and traps follow.

`failed`, `replaced` and `lost` are history: the calls whose `op_Compile` failed, the
functions that were given other code, the functions left without constants. They are the
three ways in which calls go wrong, and the properties say that nothing else does. What is
left out: types of functions (those of a call and an injection are compared in
`FuncTypes`), `m3_CompileModule` and the start function (they are in `ModuleLife`), and
injection into a module that is not loaded.

### How `ModuleLife` follows the code

`stage` and `loaded` are the modules and `runtime->modules`. What is in a module does not
change and is the constant `Contents`; code and `startFunction` do change. `frames` is the nested
`m3_Call`s and `m3_RunStart`s, and `results` says for each place that `runtime->stack` has
been moved to, by host functions, whose results are there. An `m3_FindFunction` that runs the start
function is cut in two by that call: `finds`, in the frame, is what it will return, and
until then a host function may do anything, find functions in the same module included. Loading is
one step with two outcomes, since nothing calls back out of it; a load that fails has used
the stack for its expressions all the same.

A body compiles if all imports it calls are linked, which is the one reason to fail that
depends on what else happened; `CallSites` and `Compilation` have the others. A call of a
function of the same module that is not compiled yet is compiled by `op_Compile` later, and
is not in `calls`.

The code departs from its comments in two places, which the properties except by name:

- `m3_FindFunction` asks `if (function->module->startFunction)` where `m3_RunStart` asks
  for `>= 0` (`m3_env.c:721`, `547`), so a start function with index 0 is never run by it,
  although it is to be "called before a function call is attempted" (`m3_env.c:588-589`).
- `lastCalled` is the "last function that successfully executed" (`m3_env.h:168`), but a
  start function and the expressions of a load overwrite its results and leave it as it is;
  `m3_GetResults` then converts what they left. `quiet` is the history that tells.

What is left out: globals and their accessors, tables, memory (in `Execution`), and the
embedder freeing a runtime or a loaded module while it runs code in it.

### How `Parser` follows the code

An action is a section, or one entry of the sections that are read entry by entry, since an
entry that fails leaves the ones before. `Fail` is every malformed number, count or
index, at any point; it does what `_catch` of `m3_ParseModule` does. Strings have an identity
and a text; malloc gives an identity that is free, so a freed string's address comes back. What is
freed is a row of pointers
for each function and global (`FreeRows`), in which null pointers and aliases may occur.
`Read_utf8` is silent when malloc fails, and its callers go on with a null string. Imports,
functions and exports are any sequence over two texts, one of which imports use.

`SectionsOrder` is the array of the source; `expected` how far its loop has got. An
order that is not accepted throws, which is `Fail`. What the sections for tables, memory,
elements and data contain is left out, as are the bodies and expressions, whose bytes are only
delimited here. (`ParseSection_Memory` drops the result of `ParseType_Memory`; no state of the
model depends on it.) A custom section reads its own name, compares it and frees it; when malloc fails there, `strcmp`
reads a null pointer (`m3_parse.c:485`), and the model has no step for that. The model has no failing realloc of the arrays of functions and
globals: `m3_FreeModule` would then read a null array, which `hazards` lists.

`LookupFindsExport` names what `v_FindFunction` does not find: a fourth name of one
function is dropped, and a name of the name section, which may come first, is taken for an
export.

### How `Translation` follows the code

The compiler turns a stack machine into operations on slots and two registers, in one
pass and without looking ahead. `o` is what `M3Compilation` knows about values, and the
machine that executes the operations as they are emitted; `w` is the machine of the
WebAssembly specification, which executes the instructions themselves. That the two agree is the
abstract specification here: `ValuesInPlace` is the abstraction, from slots and registers
to the values they hold. Most definitions of `SlotAlloc` have the name of the C function
they stand for and take the compilation as an argument, because handlers call many of them
one after the other; those of `Translation` are the `Compile_...` functions.

Of a value only its identity matters: a value that an operation computes is a new word, or
two for a 64-bit type, so an operand taken from another place is always noticed
(`OperandsRead`). Words are then renamed after the first address that holds them; this
keeps the states finite and loses nothing, since no operation looks into a word. Words in slots
that hold no value any more are forgotten. Two constants may be the same, and
`NegativeWords` are the 32-bit constants that `PushConst` never finds again, because it
compares an unsigned word with a sign-extended one.

Control flow is chosen by the action (`taken`, `chosen`), and code that is not executed is
still compiled: `skip` and `to` say where execution goes on, and the operations emitted until then have
no effect on slots. So one run compiles both arms of an `if` in the order of the
source and executes one of them; all choices together are all paths. `Places` says where the
values have to be for the code that comes next: on the stack of the compiler, in the
records of the results behind the parameters, in the records of the parameters for an
`else` or a loop, or in the first slots for a return. At the back edge of a
loop and at a return the behaviour ends. The stack in the model has the records
that `CompileBlock` leaves below a block; `Live` are the items that count.

What is left out: instructions behind an unconditional branch, which are compiled on a polymorphic
stack and never executed (a block whose end is not reached still ends); functions with more
than one result, as callees; 64-bit slots (`d_m3Use32BitSlots` 0); `unreachable`
and `nop`; the failing `EmitOp`s, which are in `Compilation`. An error in the result
of `PushBlockResults`, or of the `Push` of a parameter, which `CompileBlock` ignores, sets `ignored`, and
nothing is claimed from there on.

`reach` and `values` are history variables for the stack check: how far behind the margin an operation has
written, and the number of values of the longest call. Nothing depends on them.

The code does not translate every function well. `Allowed` names the kinds of functions
that the runs keep out, and the guards that use it are the only guards that are neither the code's nor
WebAssembly's validation:

- `double_refs`: a 64-bit local that is on the stack twice (violation run `double_refs`);
- `fp_results`: branches to blocks whose last result is floating point, with other values
  on the stack, and blocks with several results of which that is the last:
  `ResolveBlockResults` moves that result to the register and lowers `endIndex`, but not
  `numValues` (`m3_compile.c:992`), so the copies of the others begin one item too low, and
  may take the alias of the register for a slot;
- `shared_params`: a block whose parameters share a slot with another item, whose count
  `CompileBlock` sets to one;
- `loop_params`: `br` to a loop with parameters, which copies nothing;
- `high_calls`: a call so high in the frame that its results are marked behind `m3Slots`.

### How `Operations` follows the code

`Translation` says where values are; `Operations` says what is computed of them. All integers
share `_r0`, which has 64 bits: an operation on an `i32` leaves there whatever its C type makes of
the result, sign-extended or not, and each use reads `(TYPE) _r0`. So `r0` is a bit pattern of
twice the width, `Register` is the cast, and `Values` is the refinement mapping: an item that is in
a register has the bits of its type, one in a slot what was written there. Signed sums that
overflow are undefined in C; `Wrapped` leaves either the cut or the full sum in the register,
which are the outcomes that compilers produce. Which variant is emitted, and which operand is read first,
is `Operands`: a commutative operation has no variant `_sr`. The register is preserved, or a
result goes to a slot, as `Compile_Operator`, `Compile_Convert` and `Compile_Select` do it.

Floats are those numbers for which nothing rounds: `Halves` of an integer, so that a conversion
has a fraction to cut off, two zeros, two infinities and one `NaN`. `RMin` and `RMax` are computed
from the precision of the float as the literals of `m3_math_utils.h` are.
Integers in the code are read byte by byte with the width they may have; an encoding whose unused bits
are wrong may be accepted or not, in `Instructions`, but what is read and how far is the same.

What is left out: arithmetic of floats that rounds (`+`, `-`, `*`, `/`, `sqrt`, `nearest` and its
like, `demote`, conversions from 64 bits), `reinterpret`, loads and stores of floats, which NaN it
is, big-endian machines, and the hint of alignment.

## Runs

| Run | Shows |
|---|---|
| `compilation` | All invariants below hold on two runtimes, a function and two imports, three pages, with the runtime of constant expressions as a third. 316,936 states. |
| `func_types` | Two modules, three signatures (two of which differ only in where the arguments begin), four addresses. Pointer comparison is type comparison, and the module implements `Signatures`. 21,824 states (with symmetry). |
| `execution` | Wasm and host functions nested five deep, memories of 0 to 4 pages, of which only five bytes may be allocated (2.5 pages), two addresses. 465,429 states (with symmetry). |
| `stack_limit` | **Violation.** A host function calls back, the callee grows the memory: `maxStack` is computed from the moved `runtime->stack`, and later a function is entered whose slots lie behind the stack. |
| `call_sites` | An import, two functions, a table with both kinds, one body to inject, nested calls: whoever asks first, calls lead where they should. 835,297 states (with symmetry). |
| `failed_site` | **Violation.** `op_Compile` rewrites its operation first; if the compilation then fails, `op_Call` is left with a function as its operand. |
| `module_life` | A module whose start function and export call an import, and one whose start function has index 0, in every order of loading, linking, finding, starting, calling, trapping and freeing, three calls deep. 58,772 states. |
| `translation` | A function with an argument and a result, three values on the stack, ten slots: constants, locals, a global, arithmetic, conversions, loads and stores, select, memory, calls of one argument and of three, which are copied behind the margin of the stack. Every value is where the compiler has it, until slots, stack or counts run out. 62,728 states. |
| `blocks` | Blocks, loops and ifs with no parameter and result, one of each, or two results, left in every way, with two values; a global and a local put the two results in each other's way. 38,978 states. |
| `double_refs` | **Violation.** A 64-bit local is pushed twice and set; the copy that is saved for the two is counted twice in one slot only, and is overwritten after the first is gone. |
| `operations` | Up to three literals and three instructions, with 4 bits for 32: every integer instruction at the limits of its type, in every variant; conversions at the limits of four types; loads, stores and bulk memory around the end of twelve bytes; broken and overlong numbers in the code. 154,343 states. |
| `parser` | Sections in any order, up to two functions, a global, four strings at a time, one failure of malloc per module, freed at any point. 1,588,531 states. |

The properties of `compilation`:

- `PageInOnePlace`: a page is at one position of one list or active for one runtime,
  and what the compiler holds is active and held once.
- `CountersAgree`: `numOpen + numFull + numActiveCodePages == numCodePages`
  (`ReleaseCodePage`), and the counter counts the active pages.
- `RoomUnlessIgnored`: whenever a statement begins, `o->page` and every saved page have
  room for a bridge, unless an error of `EmitOp` was dropped before
  (`PreserveArgsAndLocals` does drop it, and its operands may then go behind the page).
- `CompiledCodeIntact`: from the first line of a compiled function, control stays in
  words of that function that are still there; no pointer is left unpatched.
- `CodeStable`: a word of a function in use does not change.
- `ScratchRuntimeEmpty`: a constant expression gives every page back, also if it fails.

Those of `func_types`: `PointerEquivalence` (the comment of `m3_env.h:136`),
`TypesOnList` (ownership), and `ImplementsSignatures`.

Those of `execution`:

- `MemCurrent`: whatever a callee, a loop or a host function did to the memory, the code
  that runs holds the pointer to where it is now.
- `HeaderAgrees`: there is one live block, and its header has the length of the pages, so
  no page count has wrapped; also after refused and failed resizes.
- `StackFollowsHosts`: `runtime->stack` is where the innermost host function's frame
  begins, each of them will put back the right value, on errors too.
- `OverflowDetectedUnlessDeep`: every function that was entered has its slots on the stack,
  unless a nested call has resized the memory. `stack_limit` is the same without that
  condition.
- `RunawayTraps`: a recursion of functions that need no slots ends, because every call
  moves the stack by one. It is why `topSlot` is at least 1.

Those of `call_sites`:

- `CallSitesHoldCodeUnlessFailed`: an `op_Call` has the address of code, unless an
  `op_Compile` failed there. `failed_site` is the same without that condition.
- `CallsLeadToCallee`: a direct call leads to code of the function that its body names,
  and to the code the function has now unless it was overwritten or linked again. Calls
  that were patched before keep leading to the old code; that is what `replaced` excepts.
- `CompiledOnce`: however many ask for a function, it is compiled once.
- `RunsWithItsConstants`: the constants that a frame was entered with are those of the
  code that runs in it, unless the function was replaced or its constants were lost. Old
  code of a replaced function does run with the constants of the new one.

Those of `module_life`:

- `HandlesReady`: a function that `m3_FindFunction` returned has code, and the start function
  of its module has returned, though both may have trapped or failed before, and a host
  function may have asked below a start function that still runs. (It gets no function either
  until an inner run of the start function has returned.)
- `StartNotAgain`: a start function that has returned is not called as such again.
- `ResultsOfLastCall`: `m3_GetResults` reads the results of the function whose types it converts
  them by.
- `CompiledCallsLinked`: code calls imports only after they are linked, also when linking
  stopped half way.

Those of `translation` and `blocks`:

- `ValuesInPlace`: what the WebAssembly machine has on its stack and in its locals is what the slots and
  registers hold, where the compiler believes it to be, for the path that is executed and at
  every point where execution goes on. It fails when a slot is given away too early, when
  a value in a register is not moved away in time, when a set of a local shows through
  to a value pushed before, or when a path out of a block leaves its results elsewhere.
- `OperandsRead`: each operation reads the values of its instruction, those of
  `memory.fill`, `select` and calls included, whose operands are moved first.
- `CountsAgree`: a slot's count is the number of items that are in it; none is given away
  while in use and none is lost.
- `RegistersAgree`: a register is in use by one item, the one that is in it.
- `TypeOK` says besides that no slot behind `d_m3MaxFunctionSlots` is used or marked.
- `EntryCoversUnlessLongCall`: `maxStackSlots`, which `op_Entry` compares with the end of the stack, is
  above every slot in use; what is written above it stays within the margin
  of `m3_NewRuntime`, until the function has a `LongCall`. Arguments are copied to
  the callee's frame before its `op_Entry` looks, and those of a call with three values may not fit. (Nor
  those of one with two, from a function that uses no slot at all, when both
  arguments are in registers: the frame begins at slot 2, and the margin is 5.) So the code does not
  "precisely detect stack overflow", as the comment at `m3_compile.c:2782` has it: `translation` has a call with three arguments, and
  in its runs the last is written behind the margin (`reach` is 13 where
  `maxStackSlots` is 7). For functions with such calls the property says what is left: nothing is written behind
  `FrameEnd`, which has two slots for each value of the longest call.

Those of `operations`: `ImplementsInstructions`, that every step is a step of WebAssembly on the
values that the registers and slots stand for (traps, memory and the position in the code
included); and `TypeOK`, that slots hold words of their types and two items never share a register.

Those of `parser`:

- `StringsOwnedOnce`: each string that is allocated has one owner, none is freed twice and none is
  lost, on every path.
- `TablesAgree`: types, imports, names and the start function are within the tables that
  later code indexes without a check.
- `LookupFindsExport`: exports are found under their names.

### Bounds

A page has 13 lines (`AlignLines - HeaderLines`) where the program's has about 500.
`FreeLinesThreshold`, 6, is the program's own. 13 lines are enough for one or two
statements before a bridge, which is what makes bridges, full pages and saved pages
without room frequent. Three pages let one be active, one saved and one be acquired, and
let pages go from one runtime to the other. Two statements and three jobs let a
function be compiled after another one filled the page, and be compiled again. `Operands = {4}` is the longest
operation that the comment of `d_m3CodePageFreeLinesThreshold` names, the worst
case for room. The theorems below do not depend on any of these bounds.

In `func_types`, one value type is enough for the signatures () -> (), () -> i32 and
(i32) -> (): the first two are on the list from the start, and the third is their
near miss. The fourth address is the duplicate that is about to be freed. Permutations of
addresses and of modules are symmetries: no definition orders or names them, and the
abstract module does not mention addresses.

In `execution` the stack has three slots and functions use none or two, so a frame may fit,
end exactly at the limit, or not fit. Five frames hold the three functions that fit on the
stack with host functions between them, and one function more than may fit. Two addresses are
enough: a block either stays or moves to one that is free. The modules have a memory with
and without a maximum, none, or an imported one.

In `call_sites` four functions (one more than declared), four pieces of code, two nested calls
and two injections are enough for each kind of history: a call patched before its callee is
replaced, a function appended twice so that the array moves and may move back, a host
function that injects below running code. The injected body calls an existing function
and has constants; a body that cannot be copied is the other choice.

In `module_life` three calls are one from outside, one from a host function in it, and one
from a host function in that; so a start function can run below itself. The two modules
have names in common, so the newest loaded is searched first. Their functions differ in what
matters: imported, with a call of an import, without, nullary or not.

In `translation` the frame has ten slots, four of them for values, so that the allocation of
a 64-bit slot fails while single slots are free. The constant is negative, so it is put in the
table anew when it is pushed again, and inline once the one slot of the table is taken. Three values are what select takes, and one more than most instructions; with
the argument they fill the stack of the compiler, so the push of a fourth fails. They are also the arguments of the
longer call, which is too long for the margin wherever the frame begins behind an odd number of slots. All types matter only by
their size and their register: `i32` and `f64` are one of each. In `blocks` one level of nesting and the
function's own scope give branches a near and a far target, and two values a parameter with
another value below it. The table of constants is full from the start there, so that constants come to slots that are
given out, where results may collide. Slots behind the frame, `CalleeSlots`, are those a callee has at least.

In `operations` a width of 4 stands for 32 and 8 for 64, a byte of memory has one bit and a byte of
code three bits of a number and one to go on: so a byte still divides an `i16`, an `i32` takes two
bytes of code of which the second has spare bits, and an `i64` three, as 5 and 10 do in the program.
Precisions of 3 and 6 bits keep that an `f32` has fewer bits than an `i32` and an `f64` more than
an `i32` and fewer than an `i64`. The first literal of a function is each limit of a type or of a
conversion; the second is the divisor, distance or other operand; two instructions put a result in the
register before it is used by any other, and the third a comparison of floats while both registers
are in use. The one offset, 2, makes addresses end before, at and behind the length.

In `parser` a function holds two names where the program's holds three: one from each source, and
then one too many. Two functions are an imported one and another, or two that may export the
same name; four strings are an import's and two names.

### Fairness

There is none, and no liveness property. The library has no thread, no queue and no timer: every
function runs on its caller's thread until it returns, and what is called next is up to the
embedder or the wasm body, which may loop for ever as WebAssembly lets it. What has to end are the
loops over a body, a section or a list, which are bounded by the bytes or entries they go over.
The one recursion that must end by itself, of functions that need no slots, has a bound instead
of a liveness property: `RunawayTraps`.

## Proofs

`CompilationProofs` proves, for every value of the constants that the assumptions
`PageAssumption` and `CompilationAssumption` allow, `TypeCorrect`, `PagesInOnePlace` and
`CountersAlwaysAgree`. `PageInOnePlace` is not inductive: to show that a page being
released is not yet on a list one must know that the scopes of the compilation hold
distinct active pages, that lists are without repetition, and that a page with a number
not yet given is nowhere. `IInv` says this in parts:

- `Good(pool)`: the pool has its type and every page is in one place;
- `Accounted`: the counters agree with the lists and with the set of active pages;
- `Owns`: the runtime of the compilation owns `o->page` and, apart from it, the pages
  that the scopes have saved;
- `ScopesOk`: how blocks are nested, which of them have saved a page, and that no two
  saved the same one; what else a scope holds has its type.

The lemmas in the first part of the module show that each pool operation keeps `Good`, for
any pool and any outcome. The others show it for the emitter, and then for each action. The theorems follow from `Init => IInv`, `IInv /\ [Next]_vars => IInv'` and
`IInv => P`.

Its second half goes on from there to what the pages contain: `CodeAlwaysIntact`,
`CompiledCodeStable`, `RoomOnEveryPage` and `ScratchAlwaysEmpty`, which are every other property
of the run `compilation`. That compiled code is closed is not inductive, because a function
becomes one only by its last statement, and until then its words lead to lines that are not
there yet. `CInv` therefore says two things next to each other:

- `Finished`: the words of a compiled function are on pages of its runtime and lead from one
  to another (`Sound` with nothing to wait for), and a page that is with the environment or
  was never allocated has no words (`Clean`), so who acquires it finds no old code;
- `Sane`: the words of the function that is being compiled lead to one another, or to the
  next line of a page it will write to (`Writes`, the current page and those saved by the
  scopes), or have a pointer that some open block will patch (`Pending`). `Begun` says
  whose function it is.

The scratch runtime is empty (`EmptyRuntime`) unless an expression is being compiled, which returns
all it took, also where it throws. `SInv` counts: `RoomFor` gives every page that will be written the two
lines of a bridge, and the page of a branch table those of the entries that are left, because the
targets are compiled on another page meanwhile and the table's is taken up again after each of them.

Each handler is several operations on the pool, so the lemmas are about one operation on any pool:
`Work` says what it may do, for one job in one runtime (append words of that job, change such words,
take pages), and is transitive. Stability follows from `Work` alone: a step never changes words of
another job. What a finished function needs then follows from its words being there still (`Finished`
is kept by `Work` of a job that is not its own). For the other half, `Sound` is shown to survive the
appending of a word, a bridge to a page acquired, a change of the page and the patching of a pointer.
Two assumptions name what C takes for granted: `Unpatched`, the word left for a pointer that is
not known yet, is neither an address nor null, and a compilation (`CompilationNotNull`) is not null either.

`FuncTypesProofs` proves `TypeCorrect`, `NothingDangles` and `PointersCompareTypes` for
any set of addresses, modules and signatures. Its `IInv` says that the list holds exactly
what is allocated, without two equal types (`Interned`), that every pointer of
`retFuncTypes`, of modules and of functions is on it (`Held`), and that modules exist
only while the environment is whole, since freeing the environment frees the types they
point to. `AddOk` is the heart of it: `Environment_AddFuncType` keeps `Interned`, leaves
every type on the list where it is, and answers with a pointer on the list.
`RefinesSignatures` is the property `ImplementsSignatures` for any constants: the initial state maps to the
abstract one and every action to the abstract action of the same name. It needs `IInv` and
`WellFormedTypes`, that every type on the list has argument and result types of the module's: with `IInv` the
value behind every pointer stays what it was while others are added, duplicates are freed and
addresses reused, and comparing pointers answers what comparing signatures does.

`ExecutionProofs` proves every property of the run `execution`, for any stack, page size,
limits and nesting. Its `IInv` adds to them that loops are in a function, that each frame
is further up the stack than the wasm code below it (`Nested`, from the slot that every
call is made to use), that every entered function has its slots below `numStackSlots`
(`Fitting`), and that the limit in the header is that number (`MemoryOk`); the last two
only while `resizedDeep` is false. `Following` is `StackFollowsHosts` for any sequence of
frames, so that three lemmas serve all the actions: frames are appended (`AppendShape`),
cut off (`PrefixShape`), or have their `_mem` replaced (`SameShape`). `RunawaysTrap` then
counts: the functions' `_sp` are distinct slots of the stack. `MaxProperty`, that a finite
set of numbers has a greatest element, follows from the well-foundedness of the subset
ordering, without an induction. The one assumption about sizes is
that `PageLimit * PageBytes = Wrap`, and that `MaxLinearPages` is below `PageLimit`.

`CallSitesProofs` proves every property of the run `call_sites`, for any declared
functions, table, injected bodies and numbers of them. The invariant, `ModuleOk`, is about any
`functions` and `code`, because a handler changes them in several steps: a body is replaced
or a function appended (`InjectOk`), then compiled (`CompileFunctionOk`), then the call
is patched (`PatchOk`). It is needed because where a call leads is fixed when it is
emitted or patched, but what is right depends on what others did to the callee later:
`OwnerOk` says that code is what its function has, or the function was replaced, so a
compilation of a function without code cannot leave older code behind. `FramesOk`
carries the constants.

`ModuleLifeProofs` proves every property of the run `module_life`, for any modules, contents
and depth of calls. The properties are not inductive: a handle is on its way while a
start function runs, so `FramesOk` says of `finds` what is said of handles, but for the
start; and that results are there when the outermost call returns needs the number of levels to be
the number of frames (`StackOk`), and that an outermost start function is not quiet.
`StartsOk` ties `startFunction` to what has returned. The lemmas `CallOk` and `RunStartOk` serve the
three ways to call; `FramesShrink` serves the three ways to return.

`ParserProofs` proves every property of the run `parser`, for any texts and any numbers of types,
functions, globals, names and failures of malloc, from `ParserAssumption` and `NullAssumption`,
that no number, string or module is the null pointer. Its `IInv` adds three things to the
properties. `OrderOk` ties the section to the place in `SectionsOrder` and says what cannot
have been read yet: no function before the imports, none but imports before the function section.
Without it, a function imported late would shift the indices behind it. `OwnedBy` is
`StringsOwnedOnce`: a string that is read is new (`FreshId`, by the pigeonhole
principle), so it has no owner yet, and the only string with two pointers to it is the field
of an imported function, its first name (`ReleaseRow` shows that `Function_Release` frees
exactly what `OwnersInFunctions` lists). `Owned` takes the pointers as rows, one for
each function or global, because a handler changes one row (`FunctionOwns`, `NameAdded`,
`GlobalNamed`). `ExportsOk` says that who was exported has the name or is full; `ExportsAreFound`
follows with `MinProperty`, the counterpart of `MaxProperty`.

`TranslationProofs` proves two properties of the runs `translation` and `blocks` for
any function, any signatures and any limits: `TypeCorrect`, whose last conjunct says that no operation that is
emitted and no table of the compiler uses a slot there is not, and `RegistersAlwaysAgree`. Neither is
inductive. `IInv` is about one compilation, `OK(o)`:

- `Typed`: every item of the stack is in slots below `MaxFunctionSlots` or in the register of its type;
- `Bounds`: locals, constants and the slots that are given out follow each other, in this order;
- `BlocksOk`: a block's parameters and results lie between its `exit` and its `base`, above the
  bases of the blocks around it;
- `Sound`, while nothing has failed: `RegistersOk` (a register that is in use has one item, above the base of the
  innermost scope), `OnlyRecords` (what is in a register below that is the record of a result), `RecordsOk`
  (the records of a block have its types and, but for a floating-point result, slots) and `LocalsOk` (who is
  in a slot of a local is a local or refers to one, with its type, so that copy-on-write finds them all).

`RegistersAgree` speaks of live items only, and needs `OnlyRecords` and `RecordsOk`: after a branch has left code
dead, or a block has ended, records come to be where values were. A handler is many operations on the
stack, as a loop over parameters that may fail in the middle, so the lemmas are about one operation on any
compilation `p`: they prove `OK` of the result, what it leaves alone (`Frame`, `Close`), and what came, went
or moved (`Pushed`, `Popped`, `Moved`). Each loop has a lemma that gives its states as a function of the
number of steps, and `UpTo` goes through them. After that each instruction is a lemma of a few
operations, and `AdvanceOK` says that renaming words and forgetting failed compilations changes nothing.
Before the first instruction `ArgsIn` and `LocalsIn` say that arguments and locals get slots of their own.

The theorems have two hypotheses about `Allowed`: no block has a floating-point result on top of others (`"fp_results"`), and
no call has results behind the last slot (`"high_calls"`). `How Translation follows the code` says what happens otherwise. The other
three peculiarities (locals referred to twice, shared parameters, parameters of loops) are harmless for these two
properties. An assumption about signatures, `SignatureAssumption`, says what the parser and the table of
operations guarantee.

`SlotCountsProofs` proves two more properties of those runs: `CountsAlwaysAgree`, that the use count of a slot
is the number of live values in it, and `SlotsAlwaysCovered`, that `maxStackSlots` covers every value on the stack. The
invariant is `CInv`, which stands on `IInv`; about one compilation it says `Counts(p)`:

- `Covers`: the top of the slots, the end of every item in slots and the slots of the function's results are within
  `maxStackSlots`, and no operation has written behind `Limit`, the margin or the end of the longest call's frame;
- `Accounted`, the accounts of the stack (`Acc`): `Tally` (each slot is counted once for each live item in it, and none from
  the top on is in use), `Whole` (no item begins below `firstDynamic` and ends above it) and `Together` (live items share
  all their slots or none);
- `Accounted`, where items are (`Spots`): `Single` (a local with two slots is referred to once), `Below` (no reference to
  a local is left below the base of the innermost scope, because blocks begin with copy-on-write for all of them) and
  `Saved` (nobody else uses the slots in which a block has saved its parameters).

`CountsAgree` alone is not inductive. `DeallocateSlot` takes one from each slot of a value, so of two
values that overlapped each would free part of the other (`Together`). `IncrementSlotUsageCount`
counts the first slot only, so copy-on-write loses the second slot of a value with more than one reference
(`Single`). The parameters of a block are saved as records, and the slots they had are marked as used once when the
parameters are pushed again, and once more for an `else`; that is right only if nobody else is in
those slots, then and when the `else` begins (`Saved`). `PreserveArgsAndLocals` is what makes `Below` true, and
without it a set of a local inside a block would have to change items outside.
`AccAdded`, `AccGone` and `AccKept` are the three ways the accounts change: a value comes to slots that are
free, one goes, or nothing that is counted changes; every handler is a sequence of these, on a
compilation in the middle of the handler. For the first state an induction over arguments and locals
(`Quiescent`) shows that no slot from `GetMaxUsedSlotPlusOne` on is in use.

Both theorems have the hypotheses of `TranslationProofs`. `CountsAlwaysAgree` has two more, `"double_refs"` and
`"shared_params"`, where the code does lose a count. `SlotsAlwaysCovered` has no other: it is about calls with any number of
arguments. `Limit` grows with `maxStackSlots` and with the values of calls (`LimitGrows`), so what was within it stays
so; the arguments of a call are within it because the frame is the one behind the slots in use, and `maxStackSlots` is not
less than those (`CallFrameCounts`).

Only model-checked: `ValuesInPlace` and `OperandsRead` of `Translation`, which say that two machines agree step by step and would need
everything above and the contents of memory besides, the
properties of `operations` with the refinement `ImplementsInstructions`, and that the violations can happen. `Operations` is about
words of `2^n` values, and the provers know nothing of powers with a variable exponent. Out of the prover's
reach and left to TLC: liveness, and what recursive definitions compute.

## Plan

1. `CodePages`, `Compilation` and their proofs (done).
2. `Signatures`, `FuncTypes` and its proofs (done), with the refinement as a theorem.
3. `Execution` (done, as far as calls, memory and the stack limit); to come: a memory that
   only grows as its abstract specification, and freeing the runtime.
4. `CallSites` and its proofs (done); to come: a module that is not loaded, for which
   `m3_InjectFunction` compiles without a runtime.
5. `ModuleLife` and its proofs (done); to come: globals and their initialisation.
6. `Parser` and its proofs (done); to come: arrays that cannot grow, the memory and data sections.
7. `SlotAlloc` and `Translation` (done); to come: code on a polymorphic stack,
   copies of more than two block results (two levels of blocks are too many states as it is), and a proof
   of `ValuesInPlace`; those of the counts of slots and of `EntryCoversUnlessLongCall` are done.
8. `FixedHeap` and its proofs: chunks are disjoint and within the heap.
9. `Instructions` and `Operations` (done), with the numbers in the code; to come: the parser of
   signature strings.
10. Proofs: room for bridges, where control goes, the stability of code (done).

Not to be modelled: floating-point arithmetic that rounds, WASI, libc and tracer
bindings beyond their pointer checks, printing in `m3_info.c`, build files, scripts and the
Swift packaging.
