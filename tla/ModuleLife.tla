------------------------------ MODULE ModuleLife ------------------------------
(***************************************************************************)
(* The life of modules in a runtime, as the embedder goes through it       *)
(* (m3_env.c, m3_bind.c): parsed modules are loaded, linked with host      *)
(* functions, searched for functions, called and asked for results.        *)
(*                                                                         *)
(* The start function of a module may need imports that are linked after   *)
(* loading, so it is not run by m3_LoadModule but by the first             *)
(* m3_FindFunction that finds something in the module, or by m3_RunStart.  *)
(*                                                                         *)
(* Host functions may call back, so all of this may happen at any level of *)
(* nested calls, also below a running start function.  Results are left    *)
(* where runtime->stack points to, which is at another place in every host *)
(* function, and runtime->lastCalled is to tell whose they are.            *)
(***************************************************************************)
EXTENDS Integers, SequencesExt

CONSTANTS
  NULL,
  Module,   \* the modules that are parsed
  Contents, \* what is in each of them
  Name,     \* names that functions and imports have
  MaxFrames \* bound: nested calls

\* Functions are indexed from 0, as in the C code.  An import has no body; calls are the
\* imports a body calls; nullary is whether there are neither arguments nor results.
Function ==
  [name : Name, import : BOOLEAN, body : BOOLEAN, calls : SUBSET Nat, nullary : BOOLEAN]

\* startFunction is -1 if there is none; expressions is whether loading evaluates any, for
\* globals, data or elements.

ASSUME ModuleLifeAssumption ==
  /\ MaxFrames \in Nat
  /\ NULL \notin Module \X Nat
  /\ \A m \in Module :
       /\ Contents[m].functions \in Seq(Function)
       /\ \A i \in DOMAIN Contents[m].functions :
            LET f == Contents[m].functions[i] IN f.import => ~f.body /\ f.calls = {}
       /\ Contents[m].startFunction \in -1 .. Len(Contents[m].functions) - 1
       /\ Contents[m].expressions \in BOOLEAN

VARIABLES
  stage,         \* of each module: "absent", "parsed" or "loaded"
  loaded,        \* runtime->modules, the newest first
  startFunction, \* of each module
  compiled,      \* the functions of each module that have code
  frames,        \* nested calls from C, the innermost last
  results,       \* whose results are at runtime->stack, at each level
  lastCalled,    \* runtime->lastCalled
  handles,       \* the functions m3_FindFunction has returned
  started,       \* history: the modules whose start function has returned
  quiet          \* history: nothing but m3_Call has used the stack since the last one
                 \* that the outermost level made

vars == <<stage, loaded, startFunction, compiled, frames, results, lastCalled, handles,
          started, quiet>>

Handle == Module \X Nat

\* A call of function, by m3_RunStart if start is set, for an m3_FindFunction that will
\* return finds.  in_host is whether a host function runs in it.
Frame ==
  [function : Handle, start : BOOLEAN, finds : Handle \cup {NULL}, in_host : BOOLEAN]

FunctionOf(f) == Contents[f[1]].functions[f[2] + 1]
Functions(m)  == 0 .. Len(Contents[m].functions) - 1
Imports(m)    == {i \in Functions(m) : FunctionOf(<<m, i>>).import}

Level == Len(results)
Top   == Last(frames)

\* The embedder is outside of all calls, or in a host function.
WasmRuns     == frames # <<>> /\ ~Top.in_host
EmbedderRuns == ~WasmRuns

Used(level) == [results EXCEPT ![level] = NULL]

-----------------------------------------------------------------------------
(* Loading and freeing.                                                      *)

m3_ParseModule(m) ==
  /\ EmbedderRuns
  /\ stage[m] = "absent"
  /\ stage' = [stage EXCEPT ![m] = "parsed"]
  /\ startFunction' = [startFunction EXCEPT ![m] = Contents[m].startFunction]
  /\ UNCHANGED <<loaded, compiled, frames, results, lastCalled, handles, started, quiet>>

m3_FreeModule(m) ==
  /\ EmbedderRuns
  /\ stage[m] = "parsed"
  /\ stage' = [stage EXCEPT ![m] = "absent"]
  /\ startFunction' = [startFunction EXCEPT ![m] = -1]
  /\ UNCHANGED <<loaded, compiled, frames, results, lastCalled, handles,
                 started, quiet>>

\* Expressions are evaluated on runtime->stack.
Evaluate(m) ==
  IF Contents[m].expressions
  THEN results' = Used(Level) /\ quiet' = FALSE
  ELSE UNCHANGED <<results, quiet>>

m3_LoadModule(m) ==
  /\ EmbedderRuns
  /\ stage[m] = "parsed"
  /\ stage' = [stage EXCEPT ![m] = "loaded"]
  /\ loaded' = <<m>> \o loaded
  /\ Evaluate(m)
  /\ UNCHANGED <<startFunction, compiled, frames, lastCalled, handles, started>>

\* Mutant of LoadFails: the module is linked into the list before it is initialised.
FailsInList(m) ==
  /\ EmbedderRuns
  /\ stage[m] = "parsed"
  /\ loaded' = <<m>> \o loaded
  /\ Evaluate(m)
  /\ UNCHANGED <<stage, startFunction, compiled, frames, lastCalled, handles, started>>

\* The memory cannot be had, an expression is malformed, a segment is out of bounds:
\* the module belongs to its owner again, who may free it or try to load it again.
LoadFails(m) ==
  /\ EmbedderRuns
  /\ stage[m] = "parsed"
  /\ Evaluate(m)
  /\ UNCHANGED <<stage, loaded, startFunction, compiled, frames, lastCalled, handles,
                 started>>

\* m3_FreeRuntime, and m3_NewRuntime.  The runtime frees the modules it has loaded.
m3_FreeRuntime ==
  LET kept == {m \in Module : stage[m] # "loaded"} IN
  /\ frames = <<>>
  /\ loaded # <<>>
  /\ stage' = [m \in Module |-> IF m \in kept THEN stage[m] ELSE "absent"]
  /\ startFunction' = [m \in Module |-> IF m \in kept THEN startFunction[m] ELSE -1]
  /\ compiled' = [m \in Module |-> {}]
  /\ loaded' = <<>>
  /\ results' = <<NULL>>
  /\ lastCalled' = NULL
  /\ handles' = {}
  /\ started' = started \cap kept
  /\ quiet' = TRUE
  /\ UNCHANGED frames

-----------------------------------------------------------------------------
(* Linking and compiling.                                                    *)

\* Every import of that name is linked, in order, until one fails, because its
\* signature does not match or there is no code page.
m3_LinkRawFunction(m, name) ==
  LET matches == {i \in Imports(m) : FunctionOf(<<m, i>>).name = name} IN
  /\ EmbedderRuns
  /\ stage[m] = "loaded"
  /\ \E linked \in SUBSET matches :
       /\ \A i \in linked, j \in matches : j < i => j \in linked
       /\ compiled' = [compiled EXCEPT ![m] = @ \cup linked]
  /\ UNCHANGED <<stage, loaded, startFunction, frames, results, lastCalled, handles,
                 started, quiet>>

HasCode(f) == f[2] \in compiled[f[1]]

\* Mutant of Compilable: the imports of a body need not be linked.
CompilableUnlinked(f) == FunctionOf(f).body

\* A call of an import that is not linked does not compile.
Compilable(f) == FunctionOf(f).body /\ FunctionOf(f).calls \subseteq compiled[f[1]]

\* CompileFunction, unless the function has code.
Ready(f) == HasCode(f) \/ Compilable(f)

WithCode(c, f) == [c EXCEPT ![f[1]] = @ \cup {f[2]}]

\* Bodies are compiled in order, until one fails.
m3_CompileModule(m) ==
  LET bodies == {i \in Functions(m) : FunctionOf(<<m, i>>).body}
      fails  == {i \in bodies : ~Ready(<<m, i>>)}
  IN
  /\ EmbedderRuns
  /\ stage[m] = "loaded"
  /\ compiled' = [compiled EXCEPT ![m] =
                    @ \cup {i \in bodies : \A j \in fails : i < j}]
  /\ UNCHANGED <<stage, loaded, startFunction, frames, results, lastCalled, handles,
                 started, quiet>>

-----------------------------------------------------------------------------
(* Finding and starting.                                                     *)

HasName(f, name) == ~FunctionOf(f).import /\ FunctionOf(f).name = name

\* The first function of its module that has the name.
v_FindFunction(name, f) ==
  /\ HasName(f, name)
  /\ \A i \in Functions(f[1]) : HasName(<<f[1], i>>, name) => f[2] <= i

\* ForEachModule: no module on the list before has one.
IsFound(name, f) ==
  \E k \in DOMAIN loaded :
    /\ loaded[k] = f[1]
    /\ v_FindFunction(name, f)
    /\ \A j \in 1 .. k - 1 : \A i \in Functions(loaded[j]) : ~HasName(<<loaded[j], i>>, name)

Call(function, start, finds) ==
  /\ Len(frames) < MaxFrames
  /\ frames' = Append(frames, [function |-> function, start |-> start,
                               finds |-> finds, in_host |-> FALSE])
  /\ results' = Used(Level)

\* m3_FindFunction asks for it, m3_RunStart does not.
AsksForStart(m) == startFunction[m] # 0

StartOf(m) == <<m, startFunction[m]>>

\* m3_RunStart with code c, up to the call.  It ends without a call if the start function
\* does not compile or is not nullary.
RunStart(m, c, finds) ==
  IF startFunction[m] < 0
  THEN /\ compiled' = c
       /\ handles' = handles \cup ({finds} \ {NULL})
       /\ UNCHANGED <<frames, results, quiet>>
  ELSE /\ compiled' = IF Ready(StartOf(m)) THEN WithCode(c, StartOf(m)) ELSE c
       /\ UNCHANGED handles
       /\ IF Ready(StartOf(m)) /\ FunctionOf(StartOf(m)).nullary
          THEN Call(StartOf(m), TRUE, finds) /\ quiet' = FALSE
          ELSE UNCHANGED <<frames, results, quiet>>

m3_RunStart(m) ==
  /\ EmbedderRuns
  /\ stage[m] = "loaded"
  /\ RunStart(m, compiled, NULL)
  /\ UNCHANGED <<stage, loaded, startFunction, lastCalled, started>>

\* f is what has the name.  If nothing does, or f does not compile, NULL is returned.
m3_FindFunction(name, f) ==
  /\ EmbedderRuns
  /\ IsFound(name, f)
  /\ Ready(f)
  /\ IF AsksForStart(f[1])
     THEN RunStart(f[1], WithCode(compiled, f), f)
     ELSE /\ compiled' = WithCode(compiled, f)
          /\ handles' = handles \cup {f}
          /\ UNCHANGED <<frames, results, quiet>>
  /\ UNCHANGED <<stage, loaded, startFunction, lastCalled, started>>

-----------------------------------------------------------------------------
(* Calling.                                                                  *)

\* Arguments and results are at runtime->stack.
m3_Call(f) ==
  /\ EmbedderRuns
  /\ f \in handles
  /\ HasCode(f)
  /\ Call(f, FALSE, NULL)
  /\ UNCHANGED <<stage, loaded, startFunction, compiled, lastCalled, handles, started,
                 quiet>>

\* op_CallRawFunction: runtime->stack is moved to the slots of the import.
CallHost ==
  /\ WasmRuns
  /\ \/ FunctionOf(Top.function).import
     \/ FunctionOf(Top.function).calls # {}
  /\ frames' = [frames EXCEPT ![Len(frames)].in_host = TRUE]
  /\ results' = Append(results, NULL)
  /\ UNCHANGED <<stage, loaded, startFunction, compiled, lastCalled, handles, started,
                 quiet>>

HostReturns ==
  /\ frames # <<>> /\ Top.in_host
  /\ frames' = [frames EXCEPT ![Len(frames)].in_host = FALSE]
  /\ results' = Front(results)
  /\ UNCHANGED <<stage, loaded, startFunction, compiled, lastCalled, handles, started,
                 quiet>>

\* Mutant of LastCalled: a trap leaves it as a return does.
CalledLast(r) == Top.function

\* The end of m3_Call, m3_CallV and m3_CallArgv: r is whether the code has trapped.
LastCalled(r) == IF r THEN NULL ELSE Top.function

CallReturns(r) ==
  /\ WasmRuns /\ ~Top.start
  /\ frames' = Front(frames)
  /\ lastCalled' = LastCalled(r)
  /\ results' = [results EXCEPT ![Level] = IF r THEN NULL ELSE Top.function]
  /\ quiet' = IF Level = 1 THEN TRUE ELSE quiet
  /\ UNCHANGED <<stage, loaded, startFunction, compiled, handles, started>>

\* Mutant of Reset: it is forgotten.
NotReset(m) == startFunction

\* After it has returned, startFunction is reset.
Reset(m) == [startFunction EXCEPT ![m] = -1]

StartReturns ==
  LET m == Top.function[1] IN
  /\ WasmRuns /\ Top.start
  /\ frames' = Front(frames)
  /\ startFunction' = Reset(m)
  /\ handles' = handles \cup ({Top.finds} \ {NULL})
  /\ started' = started \cup {m}
  /\ UNCHANGED <<stage, loaded, compiled, results, lastCalled, quiet>>

\* Mutant of StartTraps: m3_FindFunction does not look at the result of m3_RunStart.
TrapIgnored ==
  /\ WasmRuns /\ Top.start
  /\ frames' = Front(frames)
  /\ handles' = handles \cup ({Top.finds} \ {NULL})
  /\ UNCHANGED <<stage, loaded, startFunction, compiled, results, lastCalled, started,
                 quiet>>

StartTraps ==
  /\ WasmRuns /\ Top.start
  /\ frames' = Front(frames)
  /\ UNCHANGED <<stage, loaded, startFunction, compiled, results, lastCalled, handles,
                 started, quiet>>

-----------------------------------------------------------------------------
Init ==
  /\ stage = [m \in Module |-> "absent"]
  /\ loaded = <<>>
  /\ startFunction = [m \in Module |-> -1]
  /\ compiled = [m \in Module |-> {}]
  /\ frames = <<>>
  /\ results = <<NULL>>
  /\ lastCalled = NULL
  /\ handles = {}
  /\ started = {}
  /\ quiet = TRUE

Next ==
  \/ \E m \in Module :
       \/ m3_ParseModule(m) \/ m3_FreeModule(m) \/ m3_LoadModule(m) \/ LoadFails(m)
       \/ m3_CompileModule(m) \/ m3_RunStart(m)
       \/ \E name \in Name : m3_LinkRawFunction(m, name)
  \/ \E name \in Name, m \in Module : \E i \in Functions(m) : m3_FindFunction(name, <<m, i>>)
  \/ \E f \in handles : m3_Call(f)
  \/ CallHost \/ HostReturns \/ StartReturns \/ StartTraps
  \/ \E r \in BOOLEAN : CallReturns(r)
  \/ m3_FreeRuntime

Spec == Init /\ [][Next]_vars

-----------------------------------------------------------------------------
(* Properties.                                                               *)

TypeOK ==
  /\ stage \in [Module -> {"absent", "parsed", "loaded"}]
  /\ IsInjective(loaded) /\ Range(loaded) = {m \in Module : stage[m] = "loaded"}
  /\ startFunction \in [Module -> Int]
  /\ \A m \in Module : compiled[m] \subseteq Functions(m)
  /\ frames \in Seq(Frame)
  /\ results \in Seq(Handle \cup {NULL})
  /\ \A k \in 1 .. Len(frames) - 1 : frames[k].in_host
  /\ Level = Len(frames) + (IF EmbedderRuns THEN 1 ELSE 0)
  /\ lastCalled \in Handle \cup {NULL}
  /\ handles \subseteq Handle
  /\ started \subseteq Module
  /\ quiet \in BOOLEAN

\* Whatever failed or trapped before, at whatever level: a function that m3_FindFunction
\* has returned is one with code, in a loaded module whose start function has returned,
\* unless that function has index 0, which m3_FindFunction takes for none.
HandlesReady ==
  \A f \in handles :
    /\ stage[f[1]] = "loaded"
    /\ ~FunctionOf(f).import
    /\ HasCode(f)
    /\ f[1] \in started \/ Contents[f[1]].startFunction \in {-1, 0}

\* A start function that has returned is not called again as such, by any m3_FindFunction
\* or m3_RunStart; one that has not may be, also by a host function below it.
StartNotAgain ==
  [][\A m \in started :
       Len(frames') > Len(frames) /\ Last(frames').start => Last(frames').function[1] # m
    ]_vars

\* Outside of all calls, m3_GetResults finds at runtime->stack the results of the function
\* it asks lastCalled for, whatever was called, failed or trapped below; unless a start
\* function or an expression has used the stack since the last call.
ResultsOfLastCall ==
  frames = <<>> /\ quiet /\ lastCalled # NULL => results[Level] = lastCalled

\* Code that is there calls only imports that are linked, in whatever order functions
\* were linked, found, started and compiled.
CompiledCallsLinked ==
  \A m \in Module : \A i \in compiled[m] : FunctionOf(<<m, i>>).calls \subseteq compiled[m]
=============================================================================
