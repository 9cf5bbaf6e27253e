------------------------------ MODULE CallSites ------------------------------
(***************************************************************************)
(* What a call in compiled code leads to (m3_exec.h, m3_compile.c,         *)
(* m3_bind.c, m3_extensions.c), for the functions of one loaded module.    *)
(*                                                                         *)
(* A function is compiled when it is first looked up or called.  A call of *)
(* a function that was compiled before is op_Call with the address of its  *)
(* code; any other is op_Compile with an IM3Function, which rewrites       *)
(* itself to op_Call.  One word of the code holds either operand.          *)
(*                                                                         *)
(* An IM3Function points into the array module->functions.  Calls, tables  *)
(* and the prologue of every function hold such pointers, and a function   *)
(* appended later may move the array.  What follows the use of a pointer   *)
(* or an operand that leads nowhere is undefined: such a step is not taken.*)
(***************************************************************************)
EXTENDS Naturals, Sequences

CONSTANTS
  Block,        \* where malloc may put module->functions
  NULL,
  Body,         \* what wasm bodies do: [callee, indirect, constants]
  Declared,     \* the functions of the module: a sequence of bodies, NULL for imports
  Table,        \* its element segment: a sequence of function indices
  Injected,     \* the bodies that are injected
  MaxFunctions, \* bound: functions of the module
  MaxCode,      \* bound: functions compiled and imports linked
  MaxFrames,    \* bound: nested calls
  MaxInjections \* bound: calls of m3_InjectFunction

\* A callee is a function index from 1, or 0 for a body without a call.
ASSUME CallSitesAssumption ==
  /\ NULL \notin Block \cup Body /\ NULL \notin [array : Block, index : Nat]
  /\ Body \subseteq [callee : Nat, indirect : BOOLEAN, constants : BOOLEAN]
  /\ Declared \in Seq(Body \cup {NULL})
  /\ Table \in Seq(1 .. Len(Declared))
  /\ Injected \subseteq Body
  /\ MaxFunctions \in Nat /\ MaxCode \in Nat /\ MaxFrames \in Nat
  /\ MaxInjections \in Nat

VARIABLES
  array,     \* module->functions, NULL when a realloc has failed
  functions, \* the M3Function structs in it
  table0,    \* module->table0, of IM3Function
  code,      \* what has been compiled or linked: code i is at address i
  frames,    \* the nested calls, the innermost last
  failed,    \* history: code whose op_Compile has failed
  replaced,  \* history: functions whose code was replaced by other code
  lost,      \* history: functions whose constants could not be copied
  injections \* the calls of m3_InjectFunction, to bound them

vars == <<array, functions, table0, code, frames, failed, replaced, lost,
          injections>>

Pointer == [array : Block, index : Nat \ {0}]

\* wasm is NULL where there is no body; module, whether it is set; compiled, an
\* address, 0 for NULL; constants, the code they were collected for.
Function ==
  [wasm : Body \cup {NULL}, imported : BOOLEAN, module : BOOLEAN,
   compiled : Nat, constants : Nat]

\* The operation and the operand of a call: one of code and function is there.
Site == [op : {"none", "op_Call", "op_Compile"}, code : Nat, function : Pointer \cup {NULL}]

\* The code of a function, or of a linked import, which has no body.  owner is the
\* operand of its op_Entry or op_CallRawFunction.
Code == [owner : Pointer, body : Body \cup {NULL}, site : Site]

\* A call of code, with the constants that op_Entry has copied.
Frame == [code : Nat \ {0}, constants : Nat]

NoSite       == [op |-> "none", code |-> 0, function |-> NULL]
CallOf(c)    == [op |-> "op_Call", code |-> c, function |-> NULL]
CompileOf(p) == [op |-> "op_Compile", code |-> 0, function |-> p]
At(a, i)     == [array |-> a, index |-> i]

\* p points to a function, and not into an array that was freed.
Valid(p) == p # NULL /\ p.array = array /\ p.index \in 1 .. Len(functions)

IsRaw(c) == code[c].body = NULL

Running  == frames # <<>> /\ ~IsRaw(frames[Len(frames)].code)
Embedder == ~Running /\ array # NULL
Top      == frames[Len(frames)].code

\* An error is returned to the innermost host function of the first n frames, or to
\* the outside.
Unwind(n) ==
  \E k \in 0 .. n :
    /\ k # 0 => IsRaw(frames[k].code)
    /\ \A m \in k + 1 .. n : ~IsRaw(frames[m].code)
    /\ frames' = SubSeq(frames, 1, k)

-----------------------------------------------------------------------------
(* Compilation                                                             *)

\* Mutant of CallTo: whether the callee is compiled is not looked at.
CallToUnchecked(fs, a, callee) ==
  IF callee = 0 THEN NoSite ELSE CallOf(fs[callee].compiled)

\* Compile_Call of a callee in fs, an array at a.
CallTo(fs, a, callee) ==
  IF callee = 0 THEN NoSite
  ELSE IF fs[callee].compiled # 0 THEN CallOf(fs[callee].compiled)
  ELSE CompileOf(At(a, callee))

\* A body is there, and calls no function that does not exist or has no module.
Compilable(fs, i) ==
  /\ fs[i].wasm # NULL
  /\ fs[i].wasm.callee \in 0 .. Len(fs)
  /\ fs[i].wasm.callee # 0 => fs[fs[i].wasm.callee].module

\* The results of compiling function i of fs, an array at a, whose constants are copied
\* after it was marked as compiled.
Emitted(fs, a, i) ==
  LET new     == Len(code) + 1
      emitted == [owner |-> At(a, i), body |-> fs[i].wasm,
                  site  |-> CallTo(fs, a, fs[i].wasm.callee)]
  IN  { [ok |-> copied, code |-> Append(code, emitted),
         functions |-> [fs EXCEPT ![i].compiled = new,
                                  ![i].constants = IF copied THEN new ELSE 0]] :
          copied \in {TRUE, ~fs[i].wasm.constants} }

CanEmit(fs, i) == Compilable(fs, i) /\ Len(code) < MaxCode

\* Mutant of CompileFunction: the function is marked before its body is compiled.
CompileFunctionMarkedFirst(fs, a, i) ==
  {[ok |-> FALSE, functions |-> [fs EXCEPT ![i].compiled = Len(code) + 1], code |-> code]}
  \cup (IF CanEmit(fs, i) THEN Emitted(fs, a, i) ELSE {})

\* CompileFunction, which may fail before anything is marked.
CompileFunction(fs, a, i) ==
  {[ok |-> FALSE, functions |-> fs, code |-> code]}
  \cup (IF CanEmit(fs, i) THEN Emitted(fs, a, i) ELSE {})

\* A function that CompileFunction with result r left compiled but without constants.
LostBy(r, i) == IF ~r.ok /\ r.functions[i].compiled # 0 THEN {i} ELSE {}

\* Mutant of Compiled: compiled again by everyone who asks.
CompiledAgain(i) == CompileFunction(functions, array, i)

\* CompileFunction of a function that is not compiled yet.
Compiled(i) ==
  IF functions[i].compiled # 0 THEN {[ok |-> TRUE, functions |-> functions, code |-> code]}
  ELSE CompileFunction(functions, array, i)

-----------------------------------------------------------------------------
(* Running code                                                            *)

\* Control goes to code c of fs and cs; op_Entry reads the function c belongs to.
Enter(fs, cs, c) ==
  /\ c # 0 /\ Len(frames) < MaxFrames /\ Valid(cs[c].owner)
  /\ frames' = Append(frames, [code |-> c, constants |-> fs[cs[c].owner.index].constants])

\* op_Call.
Call ==
  /\ Running /\ code[Top].site.op = "op_Call"
  /\ Enter(functions, code, code[Top].site.code)
  /\ UNCHANGED <<array, functions, table0, code, failed, replaced, lost, injections>>

\* Mutant of Patched: the operation is rewritten, and the operand is not.
PatchedOperation(site, r, i) == [site EXCEPT !.op = "op_Call"]

\* op_Compile has rewritten the operation before it compiled, with result r.
Patched(site, r, i) ==
  IF r.ok THEN CallOf(r.functions[i].compiled) ELSE [site EXCEPT !.op = "op_Call"]

\* op_Compile.
Compile ==
  /\ Running /\ code[Top].site.op = "op_Compile" /\ Valid(code[Top].site.function)
  /\ LET i == code[Top].site.function.index
     IN  \E r \in Compiled(i) :
           /\ functions' = r.functions
           /\ code' = [r.code EXCEPT ![Top].site = Patched(@, r, i)]
           /\ IF r.ok THEN Enter(r.functions, r.code, r.functions[i].compiled)
              ELSE Unwind(Len(frames))
           /\ failed' = IF r.ok THEN failed ELSE failed \cup {Top}
           /\ lost' = lost \cup LostBy(r, i)
  /\ UNCHANGED <<array, table0, replaced, injections>>

\* op_CallIndirect of an entry that has the type called.
CallIndirect ==
  /\ Running /\ code[Top].body.indirect
  /\ \E e \in 1 .. Len(table0) :
       /\ Valid(table0[e])
       /\ LET i == table0[e].index
          IN  \E r \in Compiled(i) :
                /\ functions' = r.functions /\ code' = r.code
                /\ IF r.ok THEN Enter(r.functions, r.code, r.functions[i].compiled)
                   ELSE Unwind(Len(frames))
                /\ lost' = lost \cup LostBy(r, i)
  /\ UNCHANGED <<array, table0, failed, replaced, injections>>

\* op_Return, or the return of a host function.
Return ==
  /\ frames # <<>>
  /\ frames' = SubSeq(frames, 1, Len(frames) - 1)
  /\ UNCHANGED <<array, functions, table0, code, failed, replaced, lost, injections>>

\* A trap, or an error returned by a host function.
Trap ==
  /\ frames # <<>>
  /\ Unwind(Len(frames) - 1)
  /\ UNCHANGED <<array, functions, table0, code, failed, replaced, lost, injections>>

-----------------------------------------------------------------------------
(* The embedder, outside or inside a host function                         *)

\* m3_FindFunction, which passes over imports and over functions without a name.
m3_FindFunction(i) ==
  /\ Embedder /\ i <= Len(Declared) /\ ~functions[i].imported
  /\ \E r \in Compiled(i) :
       functions' = r.functions /\ code' = r.code /\ lost' = lost \cup LostBy(r, i)
  /\ UNCHANGED <<array, table0, frames, failed, replaced, injections>>

\* m3_Call of a function that m3_FindFunction or m3_GetFunctionByIndex has returned.
m3_Call(i) ==
  /\ Embedder /\ functions[i].compiled # 0
  /\ Enter(functions, code, functions[i].compiled)
  /\ UNCHANGED <<array, functions, table0, code, failed, replaced, lost, injections>>

\* Code of function i is in no use from now on, except by those who have its address.
Replacing(i) == IF functions[i].compiled # 0 THEN replaced \cup {i} ELSE replaced

\* LinkRawFunction of an import, when a page was found.
m3_LinkRawFunction(i) ==
  /\ Embedder /\ functions[i].imported /\ Len(code) < MaxCode
  /\ code' = Append(code, [owner |-> At(array, i), body |-> NULL, site |-> NoSite])
  /\ functions' = [functions EXCEPT ![i].compiled = Len(code) + 1, ![i].module = TRUE]
  /\ replaced' = Replacing(i)
  /\ UNCHANGED <<array, table0, frames, failed, lost, injections>>

\* m3_InjectFunction gives function f a body, which may not be copied.
Inject(f, body) ==
  [f EXCEPT !.compiled = 0, !.wasm = body, !.module = (body # NULL \/ @)]

\* m3_InjectFunction is called.
Injecting == Embedder /\ injections < MaxInjections /\ injections' = injections + 1

\* m3_InjectFunction in place of function i; it is compiled whatever i_doCompilation is.
InjectFunction(i, body) ==
  /\ Injecting
  /\ LET fs == [functions EXCEPT ![i] = Inject(@, body)]
     IN  \E r \in CompileFunction(fs, array, i) :
           /\ functions' = r.functions /\ code' = r.code
           /\ lost' = lost \cup LostBy(r, i)
  /\ replaced' = Replacing(i)
  /\ UNCHANGED <<array, table0, frames, failed>>

\* The M3Function that m3_ReallocArray has zeroed.
Zeroed == [wasm |-> NULL, imported |-> FALSE, module |-> FALSE, compiled |-> 0, constants |-> 0]

\* m3_InjectFunction of a new function: the array grows in place, or moves.
InjectNewFunction(body) ==
  /\ Injecting /\ Len(functions) < MaxFunctions
  /\ LET i  == Len(functions) + 1
         fs == Append(functions, Inject(Zeroed, body))
     IN  \E a \in Block : \E r \in CompileFunction(fs, a, i) :
           /\ array' = a /\ functions' = r.functions /\ code' = r.code
           /\ lost' = lost \cup LostBy(r, i)
  /\ UNCHANGED <<table0, frames, failed, replaced>>

\* The array cannot grow: the module has counted the function and has no array.
InjectFails ==
  /\ Injecting
  /\ array' = NULL
  /\ UNCHANGED <<functions, table0, code, frames, failed, replaced, lost>>

-----------------------------------------------------------------------------
\* The module was parsed and loaded, and nothing is compiled or linked yet.
Init ==
  /\ array \in Block
  /\ functions = [i \in 1 .. Len(Declared) |->
                    [Zeroed EXCEPT !.wasm     = Declared[i],
                                   !.imported = (Declared[i] = NULL),
                                   !.module   = (Declared[i] # NULL)]]
  /\ table0 = [e \in 1 .. Len(Table) |-> At(array, Table[e])]
  /\ code = <<>> /\ frames = <<>>
  /\ failed = {} /\ replaced = {} /\ lost = {} /\ injections = 0

Next ==
  \/ Call \/ Compile \/ CallIndirect \/ Return \/ Trap
  \/ \E i \in 1 .. Len(functions) :
       \/ m3_FindFunction(i) \/ m3_Call(i) \/ m3_LinkRawFunction(i)
       \/ \E body \in Injected \cup {NULL} : InjectFunction(i, body)
  \/ \E body \in Injected \cup {NULL} : InjectNewFunction(body)
  \/ InjectFails

Spec == Init /\ [][Next]_vars

-----------------------------------------------------------------------------
(* Properties                                                              *)

\* The state has its type: every address is that of code, every pointer was one to a
\* function of the module, and every frame runs code.
TypeOK ==
  /\ array \in Block \cup {NULL}
  /\ functions \in Seq(Function)
  /\ table0 \in Seq(Pointer)
  /\ code \in Seq(Code)
  /\ frames \in Seq(Frame)
  /\ \A i \in 1 .. Len(functions) :
       functions[i].compiled <= Len(code) /\ functions[i].constants <= Len(code)
  /\ \A c \in 1 .. Len(code) :
       /\ code[c].owner.index <= Len(functions)
       /\ code[c].site.code <= Len(code)
  /\ \A n \in 1 .. Len(frames) : frames[n].code <= Len(code)
  /\ failed \subseteq 1 .. Len(code) /\ injections \in 0 .. MaxInjections
  /\ replaced \subseteq 1 .. Len(functions) /\ lost \subseteq 1 .. Len(functions)

\* An operand of op_Call is the address of code (op_Compile patches it), unless the
\* op_Compile that was there has failed; an operand of op_Compile is a function.
SiteHoldsCode(c) ==
  /\ code[c].site.op = "op_Call"    => code[c].site.code # 0
  /\ code[c].site.op = "op_Compile" => code[c].site.function # NULL

CallSitesHoldCodeUnlessFailed == \A c \in 1 .. Len(code) \ failed : SiteHoldsCode(c)

\* The same without the condition ("patch up compiled pc and call rewritten op_Call").
CallSitesHoldCode == \A c \in 1 .. Len(code) : SiteHoldsCode(c)

\* A direct call leads to code of the function that the body names, however often and
\* by whom it was compiled, linked or overwritten; and to the code that the function
\* has now, unless it was replaced.
CallsLeadToCallee ==
  \A c \in 1 .. Len(code) :
    code[c].site.code # 0 =>
      LET callee == code[c].body.callee
      IN  /\ code[code[c].site.code].owner.index = callee
          /\ callee \notin replaced => code[c].site.code = functions[callee].compiled

\* A function is compiled or linked once unless it is overwritten or linked again,
\* whoever asks for it first: the embedder, a table or a call.
CompiledOnce ==
  \A c, d \in 1 .. Len(code) :
    code[c].owner.index = code[d].owner.index /\ code[c].owner.index \notin replaced => c = d

\* Code runs with the constants that were collected when it was compiled: op_Entry
\* takes those its function has when it is entered.
RunsWithItsConstants ==
  \A n \in 1 .. Len(frames) :
    LET c == frames[n].code
        i == code[c].owner.index
    IN  ~IsRaw(c) /\ i \notin replaced \cup lost => frames[n].constants = c
=============================================================================
