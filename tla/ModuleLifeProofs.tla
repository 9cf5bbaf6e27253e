--------------------------- MODULE ModuleLifeProofs ---------------------------
(***************************************************************************)
(* The inductive invariant of ModuleLife, and the theorems that follow.    *)
(*                                                                         *)
(* A handle may be on its way in a frame while the start function of its   *)
(* module runs, so what is known of handles is said of those as well; and  *)
(* what is at runtime->stack depends on how many host functions are        *)
(* nested, so levels are counted.                                          *)
(***************************************************************************)
EXTENDS ModuleLife, SequenceTheorems, TLAPS

Loaded(m) == stage[m] = "loaded"

StagesOk ==
  /\ stage \in [Module -> {"absent", "parsed", "loaded"}]
  /\ loaded \in Seq(Module)
  /\ IsInjective(loaded)
  /\ Range(loaded) = {m \in Module : Loaded(m)}

StartsOk ==
  /\ startFunction \in [Module -> Int]
  /\ started \subseteq Module
  /\ \A m \in Module :
       /\ startFunction[m] \in {-1, Contents[m].startFunction}
       /\ stage[m] = "parsed" => startFunction[m] = Contents[m].startFunction
       /\ Loaded(m) /\ m \notin started => startFunction[m] = Contents[m].startFunction
       /\ m \in started => Loaded(m) /\ startFunction[m] = -1

\* c is code that calls only what is linked.
CodeOk(c) ==
  /\ c \in [Module -> SUBSET Nat]
  /\ \A m \in Module :
       /\ c[m] \subseteq Functions(m)
       /\ \A i \in c[m] : FunctionOf(<<m, i>>).calls \subseteq c[m]

HandleOk(f) ==
  /\ f \in Handle
  /\ Loaded(f[1])
  /\ ~FunctionOf(f).import
  /\ HasCode(f)

HandlesOk ==
  \A f \in handles :
    /\ HandleOk(f)
    /\ f[1] \in started \/ Contents[f[1]].startFunction \in {-1, 0}

FramesOk ==
  /\ frames \in Seq(Frame)
  /\ \A k \in 1 .. Len(frames) :
       /\ Loaded(frames[k].function[1])
       /\ frames[k].finds # NULL =>
            /\ HandleOk(frames[k].finds)
            /\ frames[k].start /\ frames[k].finds[1] = frames[k].function[1]
       /\ k < Len(frames) => frames[k].in_host

StackOk ==
  /\ results \in Seq(Handle \cup {NULL})
  /\ Level = Len(frames) + (IF EmbedderRuns THEN 1 ELSE 0)
  /\ lastCalled \in Handle \cup {NULL}
  /\ quiet \in BOOLEAN
  /\ frames # <<>> /\ frames[1].start => ~quiet
  /\ ResultsOfLastCall

IInv == StagesOk /\ StartsOk /\ CodeOk(compiled) /\ HandlesOk /\ FramesOk /\ StackOk

-----------------------------------------------------------------------------
(* Helpers                                                                 *)

LEMMA Describes ==
  ASSUME NEW m \in Module
  PROVE  /\ Functions(m) \subseteq Nat
         /\ Contents[m].startFunction \in {-1} \cup Functions(m)
         /\ \A i \in Functions(m) :
              /\ <<m, i>> \in Handle
              /\ FunctionOf(<<m, i>>).import =>
                   ~FunctionOf(<<m, i>>).body /\ FunctionOf(<<m, i>>).calls = {}
<1>1. Len(Contents[m].functions) \in Nat
      /\ DOMAIN Contents[m].functions = 1 .. Len(Contents[m].functions)
  BY ModuleLifeAssumption
<1>2. \A i \in Functions(m) : i \in Nat /\ i + 1 \in DOMAIN Contents[m].functions
  BY <1>1 DEF Functions
<1>3. Contents[m].startFunction \in {-1} \cup Functions(m)
  BY <1>1, ModuleLifeAssumption DEF Functions
<1> QED BY <1>2, <1>3, ModuleLifeAssumption DEF FunctionOf, Handle

\* Compiling a function whose imports are linked, or again what has code, keeps code well.
LEMMA WithCodeOk ==
  ASSUME NEW c, CodeOk(c), NEW f \in Handle, f[2] \in Functions(f[1]),
         FunctionOf(f).calls \subseteq c[f[1]]
  PROVE  /\ CodeOk(WithCode(c, f))
         /\ \A m \in Module : c[m] \subseteq WithCode(c, f)[m]
         /\ f[2] \in WithCode(c, f)[f[1]]
<1>1. f[1] \in Module /\ f[2] \in Nat /\ f = <<f[1], f[2]>> BY DEF Handle
<1>2. WithCode(c, f) \in [Module -> SUBSET Nat] BY <1>1 DEF CodeOk, WithCode
<1>3. \A m \in Module : WithCode(c, f)[m] = IF m = f[1] THEN c[m] \cup {f[2]} ELSE c[m]
  BY <1>1 DEF CodeOk, WithCode
<1>4. ASSUME NEW m \in Module
      PROVE  /\ WithCode(c, f)[m] \subseteq Functions(m)
             /\ \A i \in WithCode(c, f)[m] :
                  FunctionOf(<<m, i>>).calls \subseteq WithCode(c, f)[m]
  <2>1. CASE m = f[1]
    <3>1. WithCode(c, f)[m] = c[m] \cup {f[2]} BY <1>3, <2>1
    <3>2. c[m] \subseteq Functions(m) /\ f[2] \in Functions(m)
          /\ \A i \in c[m] : FunctionOf(<<m, i>>).calls \subseteq c[m]
      BY <2>1 DEF CodeOk
    <3>3. FunctionOf(<<m, f[2]>>).calls \subseteq c[m] BY <1>1, <2>1
    <3> QED BY <3>1, <3>2, <3>3
  <2>2. CASE m # f[1] BY <1>3, <2>2 DEF CodeOk
  <2> QED BY <2>1, <2>2
<1> QED BY <1>1, <1>2, <1>3, <1>4 DEF CodeOk

\* What is ready may be compiled.
LEMMA ReadyCalls ==
  ASSUME CodeOk(compiled), NEW f \in Handle, f[2] \in Functions(f[1]), Ready(f)
  PROVE  FunctionOf(f).calls \subseteq compiled[f[1]]
<1>1. f[1] \in Module /\ f = <<f[1], f[2]>> BY DEF Handle
<1> QED BY <1>1 DEF CodeOk, Ready, HasCode, Compilable

\* More code and another stage of modules that are not loaded leave handles as they are.
LEMMA HandleStays ==
  ASSUME NEW f, HandleOk(f),
         \A m \in Module : compiled[m] \subseteq compiled'[m],
         \A m \in Module : Loaded(m) => Loaded(m)'
  PROVE  HandleOk(f)'
BY DEF HandleOk, HasCode, Handle

\* The part of the invariant that is not about the stack, when code grows.
LEMMA CodeGrows ==
  ASSUME IInv, CodeOk(compiled'), \A m \in Module : compiled[m] \subseteq compiled'[m],
         UNCHANGED <<stage, loaded, startFunction, started>>
  PROVE  /\ StagesOk' /\ StartsOk'
         /\ UNCHANGED handles => HandlesOk'
         /\ UNCHANGED frames => FramesOk'
<1>1. StagesOk' /\ StartsOk' BY DEF IInv, StagesOk, StartsOk, Loaded
<1>2. \A m \in Module : Loaded(m) => Loaded(m)' BY DEF Loaded
<1>3. ASSUME NEW f, HandleOk(f) PROVE HandleOk(f)' BY <1>2, <1>3, HandleStays
<1>4. UNCHANGED handles => HandlesOk' BY <1>3 DEF IInv, HandlesOk
<1>5. UNCHANGED frames => FramesOk'
  <2> SUFFICES ASSUME UNCHANGED frames PROVE FramesOk' OBVIOUS
  <2> QED BY <1>3 DEF IInv, FramesOk, Loaded
<1> QED BY <1>1, <1>4, <1>5

-----------------------------------------------------------------------------
(* Loading, freeing, linking, compiling                                    *)

\* The part of the invariant that loading and freeing one module may touch.
LEMMA StageStep ==
  ASSUME IInv, NEW m \in Module, NEW to \in {"absent", "parsed", "loaded"},
         ~Loaded(m), stage' = [stage EXCEPT ![m] = to],
         UNCHANGED <<compiled, frames, handles, started>>
  PROVE  /\ CodeOk(compiled') /\ HandlesOk' /\ FramesOk'
         /\ \A n \in Module : Loaded(n) => Loaded(n)'
<1>1. \A n \in Module : Loaded(n) => Loaded(n)' BY DEF IInv, StagesOk, Loaded
<1>2. ASSUME NEW f, HandleOk(f) PROVE HandleOk(f)' BY <1>1, <1>2, HandleStays
<1>3. HandlesOk' BY <1>2 DEF IInv, HandlesOk
<1>4. FramesOk'
  <2>1. \A k \in 1 .. Len(frames) : frames[k] \in Frame BY DEF IInv, FramesOk
  <2>2. \A k \in 1 .. Len(frames) : frames[k].function[1] \in Module
    BY <2>1 DEF Frame, Handle
  <2> QED BY <1>1, <1>2, <2>2 DEF IInv, FramesOk
<1> QED BY <1>1, <1>3, <1>4 DEF IInv

\* Expressions use the stack, and no call is quiet about that.
LEMMA EvaluateOk ==
  ASSUME IInv, NEW m \in Module, EmbedderRuns, Evaluate(m), UNCHANGED <<frames, lastCalled>>
  PROVE  StackOk'
<1>1. CASE Contents[m].expressions
  <2>1. Level \in DOMAIN results /\ Level \in Nat
    BY DEF IInv, StackOk, Level, FramesOk
  <2>2. results' \in Seq(Handle \cup {NULL}) /\ Len(results') = Len(results)
    BY <1>1, <2>1 DEF IInv, StackOk, Evaluate, Used
  <2> QED BY <1>1, <2>2 DEF IInv, StackOk, Evaluate, Level, EmbedderRuns, WasmRuns, Top,
                            ResultsOfLastCall
<1>2. CASE ~Contents[m].expressions
  BY <1>2 DEF IInv, StackOk, Evaluate, Level, EmbedderRuns, WasmRuns, Top, ResultsOfLastCall
<1> QED BY <1>1, <1>2

LEMMA StackSame ==
  ASSUME StackOk, UNCHANGED <<frames, results, lastCalled, quiet>>
  PROVE  StackOk'
BY DEF StackOk, Level, EmbedderRuns, WasmRuns, Top, ResultsOfLastCall

LEMMA ParseStep == ASSUME IInv, NEW m \in Module, m3_ParseModule(m) PROVE IInv'
<1>1. CodeOk(compiled') /\ HandlesOk' /\ FramesOk' BY StageStep DEF m3_ParseModule, Loaded
<1>2. StackOk' BY StackSame DEF IInv, m3_ParseModule
<1>3. StagesOk' BY DEF IInv, StagesOk, m3_ParseModule, Loaded
<1>4. StartsOk'
  <2>1. Contents[m].startFunction \in Int BY Describes
  <2> QED BY <2>1 DEF IInv, StartsOk, StagesOk, m3_ParseModule, Loaded
<1> QED BY <1>1, <1>2, <1>3, <1>4 DEF IInv

LEMMA FreeModuleStep == ASSUME IInv, NEW m \in Module, m3_FreeModule(m) PROVE IInv'
<1>1. CodeOk(compiled') /\ HandlesOk' /\ FramesOk' BY StageStep DEF m3_FreeModule, Loaded
<1>2. StackOk' BY StackSame DEF IInv, m3_FreeModule
<1>3. StagesOk' BY DEF IInv, StagesOk, m3_FreeModule, Loaded
<1>4. StartsOk' BY DEF IInv, StartsOk, StagesOk, m3_FreeModule, Loaded
<1> QED BY <1>1, <1>2, <1>3, <1>4 DEF IInv

LEMMA LoadStep == ASSUME IInv, NEW m \in Module, m3_LoadModule(m) PROVE IInv'
<1>1. CodeOk(compiled') /\ HandlesOk' /\ FramesOk' BY StageStep DEF m3_LoadModule, Loaded
<1>2. StackOk' BY EvaluateOk DEF m3_LoadModule
<1>3. StagesOk'
  <2>1. loaded \in Seq(Module) /\ <<m>> \in Seq(Module) /\ Len(<<m>>) = 1 /\ <<m>>[1] = m
    BY DEF IInv, StagesOk
  <2>2. loaded' = <<m>> \o loaded BY DEF m3_LoadModule
  <2>3. loaded' \in Seq(Module) /\ Len(loaded') = Len(loaded) + 1
    BY <2>1, <2>2, ConcatProperties
  <2>4. \A k \in 1 .. Len(loaded) + 1 : loaded'[k] = IF k = 1 THEN m ELSE loaded[k - 1]
    BY <2>1, <2>2
  <2>5. \A k \in 1 .. Len(loaded) : loaded[k] \in Module /\ loaded[k] # m
    <3>1. m \notin Range(loaded) BY DEF IInv, StagesOk, m3_LoadModule, Loaded
    <3> QED BY <2>1, <3>1 DEF Range
  <2>6. IsInjective(loaded')
    <3>1. \A j, k \in 1 .. Len(loaded) : loaded[j] = loaded[k] => j = k
      BY <2>1 DEF IInv, StagesOk, IsInjective
    <3> QED BY <2>1, <2>3, <2>4, <2>5, <3>1 DEF IsInjective
  <2>7. Range(loaded') = Range(loaded) \cup {m}
    <3>1. DOMAIN loaded' = 1 .. Len(loaded) + 1 /\ DOMAIN loaded = 1 .. Len(loaded)
      BY <2>1, <2>3
    <3>2. ASSUME NEW x \in Range(loaded) PROVE x \in Range(loaded')
      <4>1. PICK k \in 1 .. Len(loaded) : loaded[k] = x BY <3>1 DEF Range
      <4>2. k + 1 \in DOMAIN loaded' /\ loaded'[k + 1] = x BY <2>1, <2>4, <3>1, <4>1
      <4> QED BY <4>2 DEF Range
    <3>3. m \in Range(loaded')
      <4>1. 1 \in DOMAIN loaded' /\ loaded'[1] = m BY <2>1, <2>4, <3>1
      <4> QED BY <4>1 DEF Range
    <3>4. ASSUME NEW x \in Range(loaded'), x # m PROVE x \in Range(loaded)
      <4>1. PICK k \in 1 .. Len(loaded) + 1 : loaded'[k] = x BY <3>1 DEF Range
      <4>2. k - 1 \in DOMAIN loaded /\ loaded[k - 1] = x BY <2>1, <2>4, <3>1, <3>4, <4>1
      <4> QED BY <4>2 DEF Range
    <3> QED BY <3>2, <3>3, <3>4
  <2> QED BY <2>3, <2>6, <2>7 DEF IInv, StagesOk, m3_LoadModule, Loaded
<1>4. StartsOk' BY DEF IInv, StartsOk, StagesOk, m3_LoadModule, Loaded
<1> QED BY <1>1, <1>2, <1>3, <1>4 DEF IInv

LEMMA LoadFailsStep == ASSUME IInv, NEW m \in Module, LoadFails(m) PROVE IInv'
<1>1. StackOk' BY EvaluateOk DEF LoadFails
<1> QED BY <1>1, CodeGrows DEF IInv, LoadFails

LEMMA FreeRuntimeStep == ASSUME IInv, m3_FreeRuntime PROVE IInv'
<1>1. StagesOk'
  <2>1. Range(loaded') = {} /\ IsInjective(loaded') /\ loaded' \in Seq(Module)
    BY DEF m3_FreeRuntime, Range, IsInjective
  <2>2. \A m \in Module : ~Loaded(m)' BY DEF m3_FreeRuntime, Loaded
  <2> QED BY <2>1, <2>2 DEF IInv, StagesOk, m3_FreeRuntime, Loaded
<1>2. StartsOk'
  BY DEF IInv, StartsOk, StagesOk, m3_FreeRuntime, Loaded
<1>3. CodeOk(compiled') BY DEF CodeOk, m3_FreeRuntime
<1>4. HandlesOk' BY DEF HandlesOk, m3_FreeRuntime
<1>5. FramesOk' BY DEF IInv, FramesOk, m3_FreeRuntime
<1>6. StackOk'
  BY DEF IInv, StackOk, m3_FreeRuntime, Level, EmbedderRuns, WasmRuns, Top, ResultsOfLastCall
<1> QED BY <1>1, <1>2, <1>3, <1>4, <1>5, <1>6 DEF IInv

LEMMA LinkStep ==
  ASSUME IInv, NEW m \in Module, NEW name \in Name, m3_LinkRawFunction(m, name)
  PROVE  IInv'
<1>1. PICK linked \in SUBSET Imports(m) : compiled' = [compiled EXCEPT ![m] = @ \cup linked]
  BY DEF m3_LinkRawFunction
<1>2. \A i \in linked : i \in Functions(m) /\ i \in Nat /\ FunctionOf(<<m, i>>).calls = {}
  BY <1>1, Describes DEF Imports
<1>3. \A n \in Module : compiled'[n] = IF n = m THEN compiled[n] \cup linked ELSE compiled[n]
  BY <1>1 DEF IInv, CodeOk
<1>4. CodeOk(compiled')
  <2>1. compiled' \in [Module -> SUBSET Nat] BY <1>1, <1>2 DEF IInv, CodeOk
  <2> QED BY <1>2, <1>3, <2>1 DEF IInv, CodeOk
<1>5. StackOk' BY StackSame DEF IInv, m3_LinkRawFunction
<1> QED BY <1>3, <1>4, <1>5, CodeGrows DEF IInv, m3_LinkRawFunction

LEMMA CompileModuleStep == ASSUME IInv, NEW m \in Module, m3_CompileModule(m) PROVE IInv'
<1>1. PICK done \in SUBSET Functions(m) :
        /\ compiled' = [compiled EXCEPT ![m] = @ \cup done]
        /\ \A i \in done : Ready(<<m, i>>)
  <2> DEFINE bodies == {i \in Functions(m) : FunctionOf(<<m, i>>).body}
             fails  == {i \in bodies : ~Ready(<<m, i>>)}
             done   == {i \in bodies : \A j \in fails : i < j}
  <2>1. compiled' = [compiled EXCEPT ![m] = @ \cup done] BY DEF m3_CompileModule
  <2>2. \A i \in done : i \in Functions(m) /\ Ready(<<m, i>>)
    <3> SUFFICES ASSUME NEW i \in done, i \in fails PROVE FALSE OBVIOUS
    <3>1. i < i /\ i \in Nat BY Describes
    <3> QED BY <3>1
  <2> QED BY <2>1, <2>2
<1>2. \A i \in done : i \in Nat /\ FunctionOf(<<m, i>>).calls \subseteq compiled[m]
  <2> TAKE i \in done
  <2>1. <<m, i>> \in Handle /\ i \in Nat BY Describes
  <2>2. <<m, i>>[1] = m /\ <<m, i>>[2] = i OBVIOUS
  <2> QED BY <1>1, <2>1, <2>2, ReadyCalls DEF IInv
<1>3. \A n \in Module : compiled'[n] = IF n = m THEN compiled[n] \cup done ELSE compiled[n]
  BY <1>1 DEF IInv, CodeOk
<1>4. CodeOk(compiled')
  <2>1. compiled' \in [Module -> SUBSET Nat] BY <1>1, <1>2 DEF IInv, CodeOk
  <2> QED BY <1>2, <1>3, <2>1 DEF IInv, CodeOk
<1>5. StackOk' BY StackSame DEF IInv, m3_CompileModule
<1> QED BY <1>3, <1>4, <1>5, CodeGrows DEF IInv, m3_CompileModule

-----------------------------------------------------------------------------
(* Calls and returns                                                       *)

\* A call that m3_Call or m3_RunStart makes: f may be found when it has returned.
LEMMA CallOk ==
  ASSUME IInv, CodeOk(compiled'), \A m \in Module : compiled[m] \subseteq compiled'[m],
         NEW g \in Handle, Loaded(g[1]), NEW start \in BOOLEAN, NEW f,
         f # NULL => HandleOk(f)' /\ start /\ f[1] = g[1],
         f = NULL \/ f \in Handle,
         EmbedderRuns, Call(g, start, f),
         UNCHANGED <<stage, loaded, startFunction, lastCalled, handles, started>>,
         quiet' = quiet \/ quiet' = FALSE, start => quiet' = FALSE
  PROVE  IInv'
<1> DEFINE new == [function |-> g, start |-> start, finds |-> f, in_host |-> FALSE]
<1>1. StagesOk' /\ StartsOk' /\ HandlesOk' BY CodeGrows
<1>2. frames \in Seq(Frame) /\ new \in Frame /\ frames' = Append(frames, new)
  BY DEF Frame, IInv, FramesOk, Call
<1>3. /\ frames' \in Seq(Frame) /\ Len(frames') = Len(frames) + 1
      /\ \A k \in 1 .. Len(frames) : frames'[k] = frames[k]
      /\ frames'[Len(frames) + 1] = new
  BY <1>2
<1>4. FramesOk'
  <2>1. ASSUME NEW h, HandleOk(h) PROVE HandleOk(h)' BY <2>1, HandleStays DEF Loaded
  <2>2. ASSUME NEW k \in 1 .. Len(frames)
        PROVE  (/\ Loaded(frames[k].function[1])
                /\ frames[k].finds # NULL =>
                     /\ HandleOk(frames[k].finds)
                     /\ frames[k].start /\ frames[k].finds[1] = frames[k].function[1]
                /\ frames[k].in_host)'
    <3>1. frames'[k] = frames[k] BY <1>3
    <3>2. frames[k].in_host
      <4>1. CASE k < Len(frames) BY <4>1 DEF IInv, FramesOk
      <4>2. CASE k = Len(frames)
        BY <1>2, <4>2 DEF EmbedderRuns, WasmRuns, Top, Last
      <4> QED BY <1>2, <4>1, <4>2
    <3>3. frames[k].finds # NULL => HandleOk(frames[k].finds) BY DEF IInv, FramesOk
    <3>4. frames[k].finds # NULL => HandleOk(frames[k].finds)' BY <2>1, <3>1, <3>3
    <3> QED BY <3>1, <3>2, <3>4 DEF IInv, FramesOk, Loaded
  <2>3. /\ Loaded(new.function[1])'
        /\ new.finds # NULL =>
             HandleOk(new.finds)' /\ new.start /\ new.finds[1] = new.function[1]
    BY DEF Loaded
  <2>4. \A k \in 1 .. Len(frames') : k \in 1 .. Len(frames) \/ k = Len(frames')
    BY <1>2, <1>3
  <2> HIDE DEF new
  <2> QED BY <1>2, <1>3, <2>2, <2>3, <2>4 DEF FramesOk
<1>5. StackOk'
  <2>1. Level \in DOMAIN results /\ Level \in Nat /\ Level = Len(frames) + 1
    BY <1>2 DEF IInv, StackOk, Level
  <2>2. results' \in Seq(Handle \cup {NULL}) /\ Len(results') = Len(results)
    BY <2>1 DEF IInv, StackOk, Call, Used
  <2>3. frames' # <<>> /\ Last(frames') = new BY <1>2, <1>3 DEF Last
  <2>4. ~EmbedderRuns' BY <2>3 DEF EmbedderRuns, WasmRuns, Top
  <2>5. Level' = Len(frames') + (IF EmbedderRuns' THEN 1 ELSE 0)
    BY <1>2, <1>3, <2>1, <2>2, <2>4 DEF Level
  <2>6. frames'[1].start => ~quiet'
    <3>1. CASE frames = <<>> BY <1>3, <3>1
    <3>2. CASE frames # <<>> BY <1>2, <1>3, <3>2 DEF IInv, StackOk
    <3> QED BY <3>1, <3>2
  <2>7. lastCalled' \in Handle \cup {NULL} /\ quiet' \in BOOLEAN BY DEF IInv, StackOk
  <2> QED BY <2>2, <2>3, <2>5, <2>6, <2>7 DEF StackOk, ResultsOfLastCall
<1> QED BY <1>1, <1>4, <1>5 DEF IInv

\* RunStart after c has been compiled, for m3_RunStart or for an m3_FindFunction that asks.
LEMMA RunStartOk ==
  ASSUME IInv, NEW c, CodeOk(c), \A n \in Module : compiled[n] \subseteq c[n],
         NEW m \in Module, Loaded(m), NEW f, f = NULL \/ f \in Handle,
         f # NULL => f[1] = m /\ ~FunctionOf(f).import /\ f[2] \in c[m],
         EmbedderRuns, RunStart(m, c, f),
         UNCHANGED <<stage, loaded, startFunction, lastCalled, started>>
  PROVE  IInv'
<1>1. startFunction[m] \in {-1} \cup Functions(m) /\ Functions(m) \subseteq Nat
  BY Describes DEF IInv, StartsOk
<1>2. CASE startFunction[m] < 0
  <2>1. /\ compiled' = c /\ handles' = handles \cup ({f} \ {NULL})
        /\ UNCHANGED <<frames, results, quiet>>
    BY <1>2 DEF RunStart
  <2>2. StagesOk' /\ StartsOk' /\ FramesOk' BY <2>1, CodeGrows
  <2>3. HandlesOk'
    <3>1. ASSUME NEW h \in handles
          PROVE  HandleOk(h)' /\ (h[1] \in started' \/ Contents[h[1]].startFunction \in {-1, 0})
      <4>1. HandleOk(h) BY DEF IInv, HandlesOk
      <4>2. HandleOk(h)' BY <2>1, <4>1, HandleStays DEF Loaded
      <4> QED BY <4>2 DEF IInv, HandlesOk
    <3>2. ASSUME f # NULL
          PROVE  HandleOk(f)' /\ (f[1] \in started' \/ Contents[f[1]].startFunction \in {-1, 0})
      <4>1. HandleOk(f)' BY <2>1, <3>2 DEF HandleOk, HasCode, Loaded
      <4>2. m \in started \/ Contents[m].startFunction = -1
        BY <1>1, <1>2 DEF IInv, StartsOk
      <4> QED BY <3>2, <4>1, <4>2
    <3> QED BY <2>1, <3>1, <3>2 DEF HandlesOk
  <2>4. StackOk' BY <2>1, StackSame DEF IInv
  <2> QED BY <2>1, <2>2, <2>3, <2>4 DEF IInv
<1>3. CASE ~(startFunction[m] < 0)
  <2> DEFINE g == StartOf(m)
  <2>1. g \in Handle /\ g[1] = m /\ g[2] \in Functions(m)
    BY <1>1, <1>3, Describes DEF StartOf, Handle
  <2>2. /\ compiled' = IF Ready(g) THEN WithCode(c, g) ELSE c
        /\ UNCHANGED handles
        /\ IF Ready(g) /\ FunctionOf(g).nullary
           THEN Call(g, TRUE, f) /\ quiet' = FALSE
           ELSE UNCHANGED <<frames, results, quiet>>
    BY <1>3 DEF RunStart
  <2> HIDE DEF g
  <2>3. /\ CodeOk(compiled')
        /\ \A n \in Module : compiled[n] \subseteq compiled'[n] /\ c[n] \subseteq compiled'[n]
    <3>1. CASE Ready(g)
      <4>1. FunctionOf(g).calls \subseteq c[g[1]] BY <2>1, <3>1, ReadyCalls DEF IInv
      <4> QED BY <2>1, <2>2, <3>1, <4>1, WithCodeOk
    <3>2. CASE ~Ready(g) BY <2>2, <3>2
    <3> QED BY <3>1, <3>2
  <2>4. CASE Ready(g) /\ FunctionOf(g).nullary
    <3>1. f # NULL => HandleOk(f)' BY <2>3 DEF HandleOk, HasCode, Loaded
    <3> QED BY <2>1, <2>2, <2>3, <2>4, <3>1, CallOk
  <2>5. CASE ~(Ready(g) /\ FunctionOf(g).nullary)
    <3>1. UNCHANGED <<handles, frames, results, quiet>> BY <2>2, <2>5
    <3> QED BY <2>3, <3>1, CodeGrows, StackSame DEF IInv
  <2> QED BY <2>4, <2>5
<1> QED BY <1>2, <1>3

LEMMA RunStartStep == ASSUME IInv, NEW m \in Module, m3_RunStart(m) PROVE IInv'
BY RunStartOk DEF IInv, m3_RunStart, Loaded

LEMMA FindFunctionStep ==
  ASSUME IInv, NEW name \in Name, NEW f \in Handle, f[2] \in Functions(f[1]),
         m3_FindFunction(name, f)
  PROVE  IInv'
<1> DEFINE c == WithCode(compiled, f)
<1>1. f[1] \in Module BY DEF Handle
<1>2. /\ CodeOk(c) /\ \A m \in Module : compiled[m] \subseteq c[m]
      /\ f[2] \in c[f[1]]
  BY ReadyCalls, WithCodeOk DEF IInv, m3_FindFunction
<1>3. Loaded(f[1]) /\ ~FunctionOf(f).import
  <2>1. PICK k \in DOMAIN loaded : loaded[k] = f[1] /\ v_FindFunction(name, f)
    BY DEF m3_FindFunction, IsFound
  <2>2. f[1] \in Range(loaded) BY <2>1 DEF Range
  <2> QED BY <2>1, <2>2 DEF IInv, StagesOk, v_FindFunction, HasName
<1> HIDE DEF c
<1>4. CASE AsksForStart(f[1])
  BY <1>1, <1>2, <1>3, <1>4, RunStartOk, ModuleLifeAssumption DEF m3_FindFunction, c, Handle
<1>5. CASE ~AsksForStart(f[1])
  <2>1. compiled' = c /\ handles' = handles \cup {f}
        /\ UNCHANGED <<frames, results, quiet, stage, loaded, startFunction, lastCalled,
                       started>>
    BY <1>5 DEF m3_FindFunction, c
  <2>2. StagesOk' /\ StartsOk' /\ FramesOk' BY <1>2, <2>1, CodeGrows
  <2>3. HandlesOk'
    <3>1. ASSUME NEW h \in handles
          PROVE  HandleOk(h)' /\ (h[1] \in started' \/ Contents[h[1]].startFunction \in {-1, 0})
      <4>1. HandleOk(h) BY DEF IInv, HandlesOk
      <4>2. HandleOk(h)' BY <1>2, <2>1, <4>1, HandleStays DEF Loaded
      <4> QED BY <2>1, <4>2 DEF IInv, HandlesOk
    <3>2. HandleOk(f)' BY <1>2, <1>3, <2>1 DEF HandleOk, HasCode, Loaded
    <3>3. Contents[f[1]].startFunction = 0
      BY <1>1, <1>5 DEF AsksForStart, IInv, StartsOk
    <3> QED BY <2>1, <3>1, <3>2, <3>3 DEF HandlesOk
  <2>4. StackOk' BY <2>1, StackSame DEF IInv
  <2> QED BY <1>2, <2>1, <2>2, <2>3, <2>4 DEF IInv
<1> QED BY <1>4, <1>5

LEMMA CallStep == ASSUME IInv, NEW f \in handles, m3_Call(f) PROVE IInv'
<1>1. HandleOk(f) BY DEF IInv, HandlesOk
<1> QED BY <1>1, CallOk DEF m3_Call, HandleOk, IInv

\* The innermost frame, as returns find it.
LEMMA TopIs ==
  ASSUME IInv, frames # <<>>
  PROVE  /\ frames \in Seq(Frame) /\ Len(frames) \in Nat \ {0} /\ Top = frames[Len(frames)]
         /\ Top \in Frame /\ Top.function \in Handle /\ Top.start \in BOOLEAN
         /\ Loaded(Top.function[1])
         /\ Top.finds # NULL =>
              HandleOk(Top.finds) /\ Top.start /\ Top.finds[1] = Top.function[1]
<1>1. frames \in Seq(Frame) BY DEF IInv, FramesOk
<1>2. Len(frames) \in Nat \ {0} /\ Top = frames[Len(frames)] BY <1>1 DEF Top, Last
<1>3. Top \in Frame BY <1>1, <1>2
<1>4. Top.function \in Handle /\ Top.start \in BOOLEAN BY <1>3 DEF Frame
<1> QED BY <1>1, <1>2, <1>3, <1>4 DEF IInv, FramesOk

\* A frame is left: what is said of the frames that stay still holds of them.
LEMMA FramesShrink ==
  ASSUME IInv, frames # <<>>, frames' = Front(frames), UNCHANGED <<stage, compiled>>
  PROVE  /\ FramesOk' /\ Len(frames') = Len(frames) - 1 /\ EmbedderRuns'
         /\ \A k \in 1 .. Len(frames') : frames'[k] = frames[k]
<1>1. /\ frames' \in Seq(Frame) /\ Len(frames') = Len(frames) - 1
      /\ \A k \in 1 .. Len(frames') : frames'[k] = frames[k] /\ k \in 1 .. Len(frames)
  <2>1. frames \in Seq(Frame) /\ Len(frames) \in Nat \ {0} BY TopIs
  <2>2. frames' = SubSeq(frames, 1, Len(frames) - 1) BY DEF Front
  <2>3. \A k \in 1 .. Len(frames) - 1 : frames[k] \in Frame BY <2>1
  <2>4. frames' = [k \in 1 .. Len(frames) - 1 |-> frames[k]] BY <2>1, <2>2
  <2> QED BY <2>1, <2>3, <2>4
<1>2. ASSUME NEW f, HandleOk(f) PROVE HandleOk(f)' BY <1>2, HandleStays DEF Loaded
<1>3. ASSUME NEW k \in 1 .. Len(frames)
      PROVE  /\ Loaded(frames[k].function[1])
             /\ frames[k].finds # NULL =>
                  /\ HandleOk(frames[k].finds)
                  /\ frames[k].start /\ frames[k].finds[1] = frames[k].function[1]
             /\ k < Len(frames) => frames[k].in_host
  BY DEF IInv, FramesOk
<1>4. FramesOk' BY <1>1, <1>2, <1>3 DEF FramesOk, Loaded
<1>5. EmbedderRuns'
  <2>1. CASE frames' = <<>> BY <2>1 DEF EmbedderRuns, WasmRuns
  <2>2. CASE frames' # <<>>
    <3>1. Len(frames') \in 1 .. Len(frames) - 1 BY <1>1, <2>2, TopIs
    <3>2. frames'[Len(frames')].in_host BY <1>1, <1>3, <3>1, TopIs
    <3> QED BY <3>2 DEF EmbedderRuns, WasmRuns, Top, Last
  <2> QED BY <2>1, <2>2
<1> QED BY <1>1, <1>4, <1>5

LEMMA CallHostStep == ASSUME IInv, CallHost PROVE IInv'
<1> DEFINE top == [Top EXCEPT !.in_host = TRUE]
<1>1. frames # <<>> /\ ~Top.in_host BY DEF CallHost, WasmRuns
<1>2. /\ frames' = [frames EXCEPT ![Len(frames)] = top] /\ top \in Frame
      /\ top.function = Top.function /\ top.start = Top.start /\ top.finds = Top.finds
      /\ top.in_host
  BY <1>1, TopIs DEF CallHost, Frame
<1>3. UNCHANGED <<stage, loaded, startFunction, compiled, lastCalled, handles, started, quiet>>
  BY DEF CallHost
<1>4. StagesOk' /\ StartsOk' /\ CodeOk(compiled') /\ HandlesOk'
  BY <1>3, CodeGrows DEF IInv
<1> HIDE DEF top
<1>5. /\ frames' \in Seq(Frame) /\ Len(frames') = Len(frames) /\ Len(frames) \in Nat \ {0}
      /\ \A k \in 1 .. Len(frames) : frames'[k] = IF k = Len(frames) THEN top ELSE frames[k]
  BY <1>1, <1>2, TopIs
<1>6. FramesOk'
  <2>1. ASSUME NEW k \in 1 .. Len(frames)
        PROVE  /\ frames'[k].function = frames[k].function
               /\ frames'[k].start = frames[k].start /\ frames'[k].finds = frames[k].finds
               /\ k < Len(frames) => frames'[k].in_host = frames[k].in_host
    <3>1. CASE k = Len(frames) BY <1>1, <1>2, <1>5, <3>1, TopIs
    <3>2. CASE k # Len(frames) BY <1>5, <3>2
    <3> QED BY <3>1, <3>2
  <2>2. ASSUME NEW k \in 1 .. Len(frames)
        PROVE  /\ Loaded(frames[k].function[1])
               /\ frames[k].finds # NULL =>
                    /\ HandleOk(frames[k].finds) /\ HandleOk(frames[k].finds)'
                    /\ frames[k].start /\ frames[k].finds[1] = frames[k].function[1]
               /\ k < Len(frames) => frames[k].in_host
    <3>1. frames[k].finds # NULL => HandleOk(frames[k].finds) BY DEF IInv, FramesOk
    <3>2. frames[k].finds # NULL => HandleOk(frames'[k].finds) BY <2>1, <3>1
    <3>3. frames[k].finds # NULL => HandleOk(frames[k].finds)'
      BY <2>1, <3>2, <1>3 DEF HandleOk, HasCode, Loaded
    <3> QED BY <3>1, <3>3 DEF IInv, FramesOk
  <2> QED BY <1>3, <1>5, <2>1, <2>2 DEF FramesOk, Loaded
<1>7. StackOk'
  <2>1. results \in Seq(Handle \cup {NULL}) /\ results' = Append(results, NULL)
    BY DEF IInv, StackOk, CallHost
  <2>2. Len(results') = Len(results) + 1 /\ results' \in Seq(Handle \cup {NULL}) BY <2>1
  <2>3. frames' # <<>> /\ EmbedderRuns'
    BY <1>2, <1>5 DEF EmbedderRuns, WasmRuns, Top, Last
  <2>4. frames'[1].start = frames[1].start BY <1>1, <1>2, <1>5, TopIs
  <2>5. Level = Len(frames) BY <1>1, <1>5 DEF IInv, StackOk, EmbedderRuns, WasmRuns
  <2> QED BY <1>1, <1>3, <1>5, <2>2, <2>3, <2>4, <2>5
          DEF IInv, StackOk, Level, ResultsOfLastCall
<1> QED BY <1>4, <1>6, <1>7 DEF IInv

LEMMA HostReturnsStep == ASSUME IInv, HostReturns PROVE IInv'
<1> DEFINE top == [Top EXCEPT !.in_host = FALSE]
<1>1. frames # <<>> /\ Top.in_host BY DEF HostReturns
<1>2. /\ frames' = [frames EXCEPT ![Len(frames)] = top] /\ top \in Frame
      /\ top.function = Top.function /\ top.start = Top.start /\ top.finds = Top.finds
      /\ ~top.in_host
  BY <1>1, TopIs DEF HostReturns, Frame
<1>3. UNCHANGED <<stage, loaded, startFunction, compiled, lastCalled, handles, started, quiet>>
  BY DEF HostReturns
<1>4. StagesOk' /\ StartsOk' /\ CodeOk(compiled') /\ HandlesOk'
  BY <1>3, CodeGrows DEF IInv
<1> HIDE DEF top
<1>5. /\ frames' \in Seq(Frame) /\ Len(frames') = Len(frames) /\ Len(frames) \in Nat \ {0}
      /\ \A k \in 1 .. Len(frames) : frames'[k] = IF k = Len(frames) THEN top ELSE frames[k]
  BY <1>1, <1>2, TopIs
<1>6. FramesOk'
  <2>1. ASSUME NEW k \in 1 .. Len(frames)
        PROVE  /\ frames'[k].function = frames[k].function
               /\ frames'[k].start = frames[k].start /\ frames'[k].finds = frames[k].finds
               /\ k < Len(frames) => frames'[k].in_host = frames[k].in_host
    <3>1. CASE k = Len(frames) BY <1>1, <1>2, <1>5, <3>1, TopIs
    <3>2. CASE k # Len(frames) BY <1>5, <3>2
    <3> QED BY <3>1, <3>2
  <2>2. ASSUME NEW k \in 1 .. Len(frames)
        PROVE  /\ Loaded(frames[k].function[1])
               /\ frames[k].finds # NULL =>
                    /\ HandleOk(frames[k].finds) /\ HandleOk(frames[k].finds)'
                    /\ frames[k].start /\ frames[k].finds[1] = frames[k].function[1]
               /\ k < Len(frames) => frames[k].in_host
    <3>1. frames[k].finds # NULL => HandleOk(frames[k].finds) BY DEF IInv, FramesOk
    <3>2. frames[k].finds # NULL => HandleOk(frames'[k].finds) BY <2>1, <3>1
    <3>3. frames[k].finds # NULL => HandleOk(frames[k].finds)'
      BY <2>1, <3>2, <1>3 DEF HandleOk, HasCode, Loaded
    <3> QED BY <3>1, <3>3 DEF IInv, FramesOk
  <2> QED BY <1>3, <1>5, <2>1, <2>2 DEF FramesOk, Loaded
<1>7. StackOk'
  <2>1. EmbedderRuns BY <1>1 DEF EmbedderRuns, WasmRuns
  <2>2. Level = Len(frames) + 1 /\ results \in Seq(Handle \cup {NULL})
    BY <1>5, <2>1 DEF IInv, StackOk
  <2>3. results' = SubSeq(results, 1, Len(frames)) BY <1>5, <2>2 DEF HostReturns, Front, Level
  <2>4. \A k \in 1 .. Len(frames) : results[k] \in Handle \cup {NULL}
    BY <1>5, <2>2 DEF Level
  <2>5. results' = [k \in 1 .. Len(frames) |-> results[k]] BY <1>5, <2>2, <2>3
  <2>6. results' \in Seq(Handle \cup {NULL}) /\ Len(results') = Len(frames)
    BY <1>5, <2>4, <2>5
  <2>7. frames' # <<>> /\ ~EmbedderRuns'
    BY <1>2, <1>5 DEF EmbedderRuns, WasmRuns, Top, Last
  <2>8. frames'[1].start = frames[1].start BY <1>1, <1>2, <1>5, TopIs
  <2> QED BY <1>1, <1>3, <1>5, <2>6, <2>7, <2>8 DEF IInv, StackOk, Level, ResultsOfLastCall
<1> QED BY <1>3, <1>4, <1>6, <1>7 DEF IInv

LEMMA CallReturnsStep == ASSUME IInv, NEW r \in BOOLEAN, CallReturns(r) PROVE IInv'
<1>1. /\ frames # <<>> /\ WasmRuns /\ ~Top.start /\ frames' = Front(frames)
      /\ UNCHANGED <<stage, loaded, startFunction, compiled, handles, started>>
  BY DEF CallReturns, WasmRuns
<1>2. StagesOk' /\ StartsOk' /\ CodeOk(compiled') /\ HandlesOk'
  BY <1>1, CodeGrows DEF IInv
<1>3. /\ FramesOk' /\ Len(frames') = Len(frames) - 1 /\ EmbedderRuns'
      /\ \A k \in 1 .. Len(frames') : frames'[k] = frames[k]
  BY <1>1, FramesShrink
<1>4. Len(frames) \in Nat \ {0} /\ Top.function \in Handle BY <1>1, TopIs
<1>5. Level = Len(frames) /\ Level \in DOMAIN results /\ results \in Seq(Handle \cup {NULL})
  BY <1>1, <1>4 DEF IInv, StackOk, EmbedderRuns, Level
<1> DEFINE x == IF r THEN NULL ELSE Top.function
<1>6. results' = [results EXCEPT ![Level] = x] /\ lastCalled' = x /\ x \in Handle \cup {NULL}
  BY <1>4 DEF CallReturns, LastCalled
<1> HIDE DEF x
<1>7. results' \in Seq(Handle \cup {NULL}) /\ Level' = Level /\ results'[Level] = x
  BY <1>5, <1>6 DEF Level
<1>8. frames' # <<>> /\ frames'[1].start => ~quiet'
  <2> SUFFICES ASSUME frames' # <<>>, frames'[1].start PROVE ~quiet' OBVIOUS
  <2>1. Len(frames') \in Nat \ {0} BY <1>3 DEF FramesOk
  <2>2. Level # 1 /\ frames'[1] = frames[1] BY <1>3, <1>4, <1>5, <2>1
  <2> QED BY <1>1, <2>2 DEF IInv, StackOk, CallReturns
<1>9. quiet' \in BOOLEAN BY DEF IInv, StackOk, CallReturns
<1>10. StackOk'
  BY <1>3, <1>4, <1>5, <1>6, <1>7, <1>8, <1>9 DEF StackOk, Level, ResultsOfLastCall
<1> QED BY <1>1, <1>2, <1>3, <1>10 DEF IInv

\* A start function is left, with its results or without: only the stack is looked at.
LEMMA StartLeaves ==
  ASSUME IInv, WasmRuns, Top.start, frames' = Front(frames),
         UNCHANGED <<stage, compiled, results, lastCalled, quiet>>
  PROVE  FramesOk' /\ StackOk'
<1>1. frames # <<>> BY DEF WasmRuns
<1>2. /\ FramesOk' /\ Len(frames') = Len(frames) - 1 /\ EmbedderRuns'
      /\ \A k \in 1 .. Len(frames') : frames'[k] = frames[k]
  BY <1>1, FramesShrink
<1>3. Len(frames) \in Nat \ {0} /\ Top = frames[Len(frames)] BY <1>1, TopIs
<1>4. Level = Len(frames) /\ Level' = Level
  BY <1>1, <1>3 DEF IInv, StackOk, EmbedderRuns, Level
<1>5. frames' = <<>> => ~quiet
  <2> SUFFICES ASSUME frames' = <<>> PROVE ~quiet OBVIOUS
  <2>1. Len(frames) = 1 BY <1>2, <1>3
  <2> QED BY <1>1, <1>3, <2>1 DEF IInv, StackOk
<1>6. frames' # <<>> /\ frames'[1].start => ~quiet'
  <2> SUFFICES ASSUME frames' # <<>>, frames'[1].start PROVE ~quiet' OBVIOUS
  <2>1. Len(frames') \in Nat \ {0} BY <1>2 DEF FramesOk
  <2>2. frames'[1] = frames[1] BY <1>2, <2>1
  <2> QED BY <1>1, <2>2 DEF IInv, StackOk
<1> QED BY <1>2, <1>3, <1>4, <1>5, <1>6 DEF IInv, StackOk, Level, ResultsOfLastCall

LEMMA StartTrapsStep == ASSUME IInv, StartTraps PROVE IInv'
<1>1. FramesOk' /\ StackOk' BY StartLeaves DEF StartTraps
<1> QED BY <1>1, CodeGrows DEF IInv, StartTraps

LEMMA StartReturnsStep == ASSUME IInv, StartReturns PROVE IInv'
<1>0. frames # <<>> BY DEF StartReturns, WasmRuns
<1> PICK m \in Module : m = Top.function[1] BY <1>0, TopIs DEF Handle
<1>1. /\ startFunction' = [startFunction EXCEPT ![m] = -1]
      /\ handles' = handles \cup ({Top.finds} \ {NULL}) /\ started' = started \cup {m}
      /\ UNCHANGED <<stage, loaded, compiled, results, lastCalled, quiet>>
  BY DEF StartReturns, Reset
<1>2. FramesOk' /\ StackOk' BY StartLeaves DEF StartReturns
<1>3. Loaded(m) BY <1>0, TopIs
<1>4. Top.finds # NULL => HandleOk(Top.finds) /\ Top.finds[1] = m BY <1>0, TopIs
<1>5. StagesOk' BY <1>1 DEF IInv, StagesOk, Loaded
<1>6. StartsOk'
  <2>1. startFunction \in [Module -> Int] BY DEF IInv, StartsOk
  <2>2. /\ startFunction' \in [Module -> Int]
        /\ \A n \in Module : startFunction'[n] = IF n = m THEN -1 ELSE startFunction[n]
    BY <1>1, <2>1
  <2>3. stage[m] # "parsed" BY <1>3 DEF Loaded
  <2> QED BY <1>1, <1>3, <2>2, <2>3 DEF IInv, StartsOk, Loaded
<1>7. HandlesOk'
  <2>1. \A f : HandleOk(f) => HandleOk(f)' BY <1>1 DEF HandleOk, HasCode, Loaded
  <2> QED BY <1>1, <1>4, <2>1 DEF IInv, HandlesOk
<1> QED BY <1>1, <1>2, <1>5, <1>6, <1>7 DEF IInv

-----------------------------------------------------------------------------
(* The theorems                                                            *)

LEMMA Initially == ASSUME Init PROVE IInv
<1>1. StagesOk
  <2>1. Range(loaded) = {} /\ IsInjective(loaded) /\ loaded \in Seq(Module)
    BY DEF Init, Range, IsInjective
  <2> QED BY <2>1 DEF Init, StagesOk, Loaded
<1>2. StartsOk BY DEF Init, StartsOk, Loaded
<1>3. CodeOk(compiled) /\ HandlesOk BY DEF Init, CodeOk, HandlesOk
<1>4. FramesOk BY DEF Init, FramesOk
<1>5. StackOk
  BY DEF Init, StackOk, Level, EmbedderRuns, WasmRuns, ResultsOfLastCall
<1> QED BY <1>1, <1>2, <1>3, <1>4, <1>5 DEF IInv

LEMMA Stepwise == ASSUME IInv, [Next]_vars PROVE IInv'
<1>1. ASSUME NEW m \in Module,
             \/ m3_ParseModule(m) \/ m3_FreeModule(m) \/ m3_LoadModule(m) \/ LoadFails(m)
             \/ m3_CompileModule(m) \/ m3_RunStart(m)
             \/ \E name \in Name : m3_LinkRawFunction(m, name)
      PROVE  IInv'
  BY <1>1, ParseStep, FreeModuleStep, LoadStep, LoadFailsStep, CompileModuleStep,
     RunStartStep, LinkStep
<1>2. ASSUME NEW name \in Name, NEW m \in Module, NEW i \in Functions(m),
             m3_FindFunction(name, <<m, i>>)
      PROVE  IInv'
  <2>1. <<m, i>> \in Handle /\ <<m, i>>[1] = m /\ <<m, i>>[2] = i BY Describes
  <2> QED BY <1>2, <2>1, FindFunctionStep
<1>3. ASSUME NEW f \in handles, m3_Call(f) PROVE IInv' BY <1>3, CallStep
<1>4. ASSUME CallHost \/ HostReturns \/ StartReturns \/ StartTraps \/ m3_FreeRuntime
      PROVE  IInv'
  BY <1>4, CallHostStep, HostReturnsStep, StartReturnsStep, StartTrapsStep, FreeRuntimeStep
<1>5. ASSUME NEW r \in BOOLEAN, CallReturns(r) PROVE IInv' BY <1>5, CallReturnsStep
<1>6. ASSUME UNCHANGED vars PROVE IInv'
  <2>1. StackOk' BY <1>6, StackSame DEF IInv, vars
  <2> QED BY <1>6, <2>1, CodeGrows DEF IInv, vars
<1> QED BY <1>1, <1>2, <1>3, <1>4, <1>5, <1>6 DEF Next

\* What m3_env.c keeps of modules, code, handles and the stack holds at all times, for any
\* modules and any depth of nested calls.
THEOREM Invariance == Spec => []IInv
BY Initially, Stepwise, PTL DEF Spec

\* The list of modules of the runtime has each loaded module once and no other, and the
\* stack is moved by host functions only.
THEOREM TypeCorrect == Spec => []TypeOK
<1>1. IInv => TypeOK
  <2> SUFFICES ASSUME IInv PROVE TypeOK OBVIOUS
  <2>1. handles \subseteq Handle BY DEF IInv, HandlesOk, HandleOk
  <2>2. \A k \in 1 .. Len(frames) - 1 : frames[k].in_host
    <3>1. Len(frames) \in Nat BY DEF IInv, FramesOk
    <3> QED BY <3>1 DEF IInv, FramesOk
  <2> QED BY <2>1, <2>2 DEF IInv, StagesOk, StartsOk, CodeOk, FramesOk, StackOk, TypeOK, Loaded
<1> QED BY <1>1, Invariance, PTL

\* What m3_FindFunction returns can be called: it has code, and the start function of its
\* module has returned, however the way there was.
THEOREM HandlesAreReady == Spec => []HandlesReady
<1>1. IInv => HandlesReady BY DEF IInv, HandlesOk, HandleOk, HandlesReady, Loaded
<1> QED BY <1>1, Invariance, PTL

\* Code calls imports only after they are linked, in whatever order functions are linked,
\* found, started and compiled.
THEOREM CodeCallsLinked == Spec => []CompiledCallsLinked
<1>1. IInv => CompiledCallsLinked BY DEF IInv, CodeOk, CompiledCallsLinked
<1> QED BY <1>1, Invariance, PTL

\* m3_GetResults, outside of all calls, reads the results of the function whose results it
\* converts, however calls and host functions were nested.
THEOREM ResultsBelong == Spec => []ResultsOfLastCall
<1>1. IInv => ResultsOfLastCall BY DEF IInv, StackOk
<1> QED BY <1>1, Invariance, PTL

\* No m3_FindFunction or m3_RunStart calls a start function that has returned.
THEOREM StartedOnce == Spec => StartNotAgain
<1>1. ASSUME IInv, [Next]_vars, NEW n \in started,
             Len(frames') > Len(frames), Last(frames').start
      PROVE  Last(frames').function[1] # n
  <2> DEFINE Starts(m, f) ==
        startFunction[m] >= 0 /\ Call(StartOf(m), TRUE, f)
  <2>1. n \in Module /\ startFunction[n] = -1 /\ frames \in Seq(Frame)
    BY <1>1 DEF IInv, StartsOk, FramesOk
  <2>2. \E m \in Module : \E f : Starts(m, f)
    <3>1. ASSUME NEW m \in Module, NEW c, NEW f, RunStart(m, c, f) PROVE Starts(m, f)
      <4>1. startFunction[m] \in Int BY <1>1 DEF IInv, StartsOk
      <4>2. frames' # frames BY <1>1, <2>1
      <4>3. CASE startFunction[m] < 0 BY <3>1, <4>2, <4>3 DEF RunStart
      <4>4. CASE ~(startFunction[m] < 0)
        <5>1. Call(StartOf(m), TRUE, f) BY <3>1, <4>2, <4>4 DEF RunStart
        <5>2. startFunction[m] >= 0 BY <4>1, <4>4
        <5> QED BY <5>1, <5>2, Zenon
      <4> QED BY <4>3, <4>4
    <3>2. ASSUME NEW m \in Module, m3_RunStart(m) PROVE Starts(m, NULL)
      BY <3>1, <3>2 DEF m3_RunStart
    <3>3. ASSUME NEW name \in Name, NEW m \in Module, NEW i \in Functions(m),
                 m3_FindFunction(name, <<m, i>>)
          PROVE  Starts(m, <<m, i>>)
      <4>1. <<m, i>>[1] = m OBVIOUS
      <4>2. CASE RunStart(m, WithCode(compiled, <<m, i>>), <<m, i>>) BY <3>1, <4>2
      <4>3. CASE frames' = frames BY <1>1, <2>1, <4>3
      <4> QED BY <3>3, <4>1, <4>2, <4>3 DEF m3_FindFunction
    <3>4. ASSUME NEW f \in handles, m3_Call(f) PROVE FALSE
      <4>1. Last(frames').start = FALSE BY <2>1, <3>4 DEF m3_Call, Call, Last
      <4> QED BY <1>1, <4>1
    <3>5. CallHost \/ HostReturns => Len(frames') = Len(frames)
      BY <2>1 DEF CallHost, HostReturns
    <3>6. frames' = Front(frames) /\ frames # <<>> => Len(frames') < Len(frames)
      BY <2>1 DEF Front
    <3>7. ASSUME frames' = frames PROVE FALSE BY <1>1, <2>1, <3>7
    <3>8. ASSUME NEW m \in Module,
                 \/ m3_ParseModule(m) \/ m3_FreeModule(m) \/ m3_LoadModule(m)
                 \/ LoadFails(m) \/ m3_CompileModule(m)
                 \/ \E name \in Name : m3_LinkRawFunction(m, name)
          PROVE  FALSE
      BY <3>7, <3>8 DEF m3_ParseModule, m3_FreeModule, m3_LoadModule, LoadFails,
                        m3_CompileModule, m3_LinkRawFunction
    <3>9. ASSUME NEW r \in BOOLEAN,
                 CallReturns(r) \/ StartReturns \/ StartTraps \/ m3_FreeRuntime
          PROVE  FALSE
      <4>1. frames' = frames \/ (frames' = Front(frames) /\ frames # <<>>)
        BY <3>9 DEF CallReturns, StartReturns, StartTraps, m3_FreeRuntime, WasmRuns
      <4> QED BY <1>1, <2>1, <3>6, <3>7, <4>1
    <3> HIDE DEF Starts
    <3>10. CASE \E m \in Module : m3_RunStart(m) BY <3>2, <3>10
    <3>11. CASE \E name \in Name, m \in Module : \E i \in Functions(m) :
                  m3_FindFunction(name, <<m, i>>)
      BY <3>3, <3>11
    <3>12. CASE ~(\E m \in Module : m3_RunStart(m))
                /\ ~(\E name \in Name, m \in Module : \E i \in Functions(m) :
                       m3_FindFunction(name, <<m, i>>))
      <4>1. ~(CallHost \/ HostReturns) BY <1>1, <2>1, <3>5
      <4>2. ~(UNCHANGED vars) BY <3>7 DEF vars
      <4> QED BY <1>1, <3>4, <3>8, <3>9, <3>12, <4>1, <4>2 DEF Next
    <3> QED BY <3>10, <3>11, <3>12
  <2>3. PICK m \in Module : \E f : Starts(m, f) BY <2>2
  <2>4. Last(frames').function = StartOf(m) BY <2>1, <2>3 DEF Call, Last
  <2>5. m # n BY <2>1, <2>3
  <2> QED BY <2>4, <2>5 DEF StartOf
<1>2. IInv /\ [Next]_vars =>
        [\A m \in started :
           Len(frames') > Len(frames) /\ Last(frames').start
             => Last(frames').function[1] # m]_vars
  BY <1>1
<1> QED BY <1>2, Invariance, PTL DEF Spec, StartNotAgain

=============================================================================
