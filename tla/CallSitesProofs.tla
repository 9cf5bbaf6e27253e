--------------------------- MODULE CallSitesProofs ---------------------------
(***************************************************************************)
(* The inductive invariant of CallSites, and the theorems that follow.     *)
(*                                                                         *)
(* Where a call leads depends on who else compiled, linked or injected the *)
(* callee before, so the invariant relates functions and code as a whole:  *)
(* ModuleOk, for any functions and code, because one handler may change    *)
(* them several times.                                                     *)
(***************************************************************************)
EXTENDS CallSites, TLAPS

\* The call in code c of cs.
SiteOk(fs, cs, rp, fl, c) ==
  LET s == cs[c].site
  IN  /\ s.op = "none" => s = NoSite
      /\ s.op # "none" => cs[c].body # NULL /\ cs[c].body.callee \in 1 .. Len(fs)
      /\ s.op = "op_Compile" => /\ s.function # NULL /\ s.code = 0
                                /\ s.function.index = cs[c].body.callee
      /\ s.op = "op_Call" /\ c \notin fl => s.code # 0
      /\ s.code # 0 => /\ s.code \in 1 .. Len(cs)
                       /\ cs[s.code].owner.index = cs[c].body.callee
                       /\ cs[c].body.callee \notin rp =>
                            s.code = fs[cs[c].body.callee].compiled

\* Function i of fs.
FunctionOk(fs, cs, rp, ls, i) ==
  /\ fs[i].compiled <= Len(cs) /\ fs[i].constants <= Len(cs)
  /\ fs[i].compiled # 0 => cs[fs[i].compiled].owner.index = i
  /\ i \notin rp \cup ls /\ fs[i].compiled # 0 =>
       cs[fs[i].compiled].body = NULL \/ fs[i].constants = fs[i].compiled

\* The code c of cs belongs to a function, and is the one it has unless it was replaced.
OwnerOk(fs, cs, rp, c) ==
  /\ cs[c].owner.index <= Len(fs)
  /\ cs[c].owner.index \notin rp => fs[cs[c].owner.index].compiled = c

ModuleOk(fs, cs, rp, fl, ls) ==
  /\ fs \in Seq(Function) /\ cs \in Seq(Code)
  /\ rp \subseteq 1 .. Len(fs) /\ ls \subseteq 1 .. Len(fs) /\ fl \subseteq 1 .. Len(cs)
  /\ \A i \in 1 .. Len(fs) : FunctionOk(fs, cs, rp, ls, i)
  /\ \A c \in 1 .. Len(cs) : OwnerOk(fs, cs, rp, c) /\ SiteOk(fs, cs, rp, fl, c)

\* The frames fr run code of cs, with its constants.
FramesOk(fr, cs, rp, ls) ==
  /\ fr \in Seq(Frame)
  /\ \A n \in 1 .. Len(fr) :
       /\ fr[n].code <= Len(cs)
       /\ cs[fr[n].code].body # NULL /\ cs[fr[n].code].owner.index \notin rp \cup ls =>
            fr[n].constants = fr[n].code

IInv ==
  /\ array \in Block \cup {NULL} /\ table0 \in Seq(Pointer)
  /\ injections \in 0 .. MaxInjections
  /\ ModuleOk(functions, code, replaced, failed, lost)
  /\ FramesOk(frames, code, replaced, lost)

\* Code that is only ever appended to, and patched.
Extends(cs, ds) ==
  /\ Len(cs) <= Len(ds)
  /\ \A c \in 1 .. Len(cs) : ds[c].body = cs[c].body /\ ds[c].owner = cs[c].owner

-----------------------------------------------------------------------------
(* Compilation                                                             *)

LEMMA BodyType == ASSUME NEW b \in Body
                  PROVE  b \in [callee : Nat, indirect : BOOLEAN, constants : BOOLEAN]
                         /\ b # NULL
BY CallSitesAssumption

\* Appending the code of function i, which has none, keeps what is known of a module.
LEMMA AppendOk ==
  ASSUME NEW fs, NEW cs, NEW rp, NEW fl, NEW ls, NEW new \in Code, NEW i \in 1 .. Len(fs),
         NEW f \in Function, NEW lost2 \in SUBSET {i},
         ModuleOk(fs, cs, rp, fl, ls),
         fs[i].compiled = 0 \/ i \in rp,
         new.owner.index = i, f.compiled = Len(cs) + 1, f.constants <= Len(cs) + 1,
         new.body = NULL \/ f.constants = Len(cs) + 1 \/ lost2 = {i},
         \/ new.site = NoSite
         \/ /\ new.body # NULL /\ new.body.callee \in 1 .. Len(fs)
            /\ \/ /\ fs[new.body.callee].compiled # 0
                  /\ new.site = CallOf(fs[new.body.callee].compiled)
                  /\ new.body.callee # i
               \/ /\ new.site = CompileOf(new.site.function)
                  /\ new.site.function # NULL
                  /\ new.site.function.index = new.body.callee
  PROVE  ModuleOk([fs EXCEPT ![i] = f], Append(cs, new), rp, fl, ls \cup lost2)
<1> DEFINE gs == [fs EXCEPT ![i] = f]
           ds == Append(cs, new)
<1>1. fs \in Seq(Function) /\ cs \in Seq(Code) BY DEF ModuleOk
<1>2. /\ gs \in Seq(Function) /\ Len(gs) = Len(fs) /\ gs[i] = f
      /\ \A j \in 1 .. Len(fs) : j # i => gs[j] = fs[j]
  BY <1>1
<1>3. /\ ds \in Seq(Code) /\ Len(ds) = Len(cs) + 1 /\ ds[Len(cs) + 1] = new
      /\ \A c \in 1 .. Len(cs) : ds[c] = cs[c]
  BY <1>1
<1>4. Len(cs) \in Nat /\ Len(fs) \in Nat BY <1>1
<1>5. rp \subseteq 1 .. Len(gs) /\ ls \cup lost2 \subseteq 1 .. Len(gs) /\ fl \subseteq 1 .. Len(ds)
  BY <1>2, <1>3, <1>4 DEF ModuleOk
<1>6. ASSUME NEW j \in 1 .. Len(gs) PROVE FunctionOk(gs, ds, rp, ls \cup lost2, j)
  <2>1. CASE j = i
    <3>1. gs[i].compiled = Len(cs) + 1 /\ gs[i].constants <= Len(ds) BY <1>2, <1>3
    <3>2. ds[gs[i].compiled] = new BY <3>1, <1>3
    <3>3. i \notin rp \cup ls \cup lost2 => new.body = NULL \/ gs[i].constants = gs[i].compiled
      BY <3>1, <1>2
    <3>4. gs[i].compiled <= Len(ds) /\ ds[gs[i].compiled].owner.index = i
      BY <3>1, <3>2, <1>3, <1>4
    <3>5. ds[gs[i].compiled].body = new.body BY <3>2
    <3> HIDE DEF gs, ds
    <3> QED BY <2>1, <3>1, <3>3, <3>4, <3>5 DEF FunctionOk
  <2>2. CASE j # i
    <3>1. FunctionOk(fs, cs, rp, ls, j) /\ gs[j] = fs[j] BY <2>2, <1>2 DEF ModuleOk
    <3>5. fs[j] \in Function BY <1>1, <1>2
    <3>2. fs[j].compiled \in Nat /\ fs[j].constants \in Nat BY <3>5 DEF Function
    <3>3. fs[j].compiled # 0 => ds[fs[j].compiled] = cs[fs[j].compiled]
      BY <3>1, <3>2, <1>3, <1>4 DEF FunctionOk
    <3> QED BY <3>1, <3>2, <3>3, <1>3, <1>4 DEF FunctionOk
  <2> QED BY <2>1, <2>2
<1>7. ASSUME NEW c \in 1 .. Len(ds) PROVE OwnerOk(gs, ds, rp, c) /\ SiteOk(gs, ds, rp, fl, c)
  <2>1. CASE c = Len(cs) + 1
    <3>1. OwnerOk(gs, ds, rp, c) BY <2>1, <1>2, <1>3, <1>4 DEF OwnerOk
    <3>2. CASE new.site = NoSite
      BY <3>1, <3>2, <2>1, <1>2, <1>3, <1>4 DEF SiteOk, NoSite
    <3>3. CASE /\ new.body # NULL /\ new.body.callee \in 1 .. Len(fs)
               /\ fs[new.body.callee].compiled # 0
               /\ new.site = CallOf(fs[new.body.callee].compiled)
               /\ new.body.callee # i
      <4> DEFINE k == new.body.callee
      <4>1. FunctionOk(fs, cs, rp, ls, k) /\ fs[k].compiled \in Nat \ {0}
        <5>1. FunctionOk(fs, cs, rp, ls, k) BY <3>3 DEF ModuleOk
        <5>2. fs[k] \in Function BY <3>3, <1>1
        <5> QED BY <5>1, <5>2, <3>3 DEF Function
      <4>2. fs[k].compiled \in 1 .. Len(cs) BY <4>1, <1>4 DEF FunctionOk
      <4>3. ds[fs[k].compiled].owner.index = k BY <4>1, <4>2, <1>3 DEF FunctionOk
      <4>4. gs[k].compiled = fs[k].compiled BY <3>3, <1>2
      <4> QED BY <3>1, <3>3, <4>1, <4>2, <4>3, <4>4, <2>1, <1>2, <1>3, <1>4 DEF SiteOk, CallOf
    <3>4. CASE /\ new.body # NULL /\ new.body.callee \in 1 .. Len(fs)
               /\ new.site = CompileOf(new.site.function)
               /\ new.site.function # NULL
               /\ new.site.function.index = new.body.callee
      BY <3>1, <3>4, <2>1, <1>2, <1>3, <1>4 DEF SiteOk, CompileOf
    <3> QED BY <3>2, <3>3, <3>4
  <2>2. CASE c \in 1 .. Len(cs)
    <3>1. OwnerOk(fs, cs, rp, c) /\ SiteOk(fs, cs, rp, fl, c) /\ ds[c] = cs[c]
      BY <2>2, <1>3 DEF ModuleOk
    <3>2. OwnerOk(gs, ds, rp, c)
      <4>1. cs[c] \in Code BY <2>2, <1>1
      <4>4. cs[c].owner.index \in Nat \ {0} BY <4>1 DEF Code, Pointer
      <4>2. cs[c].owner.index \in 1 .. Len(fs) BY <3>1, <4>4, <1>4 DEF OwnerOk
      <4>3. cs[c].owner.index = i => i \in rp BY <3>1, <2>2 DEF OwnerOk
      <4> QED BY <3>1, <4>2, <4>3, <1>2 DEF OwnerOk
    <3>3. SiteOk(gs, ds, rp, fl, c)
      <4> DEFINE s == cs[c].site
                 k == cs[c].body.callee
      <4>1. s.code # 0 => s.code \in 1 .. Len(cs) /\ s.op # "none" BY <3>1 DEF SiteOk, NoSite
      <4>2. s.code # 0 => ds[s.code] = cs[s.code] /\ k \in 1 .. Len(fs)
        BY <3>1, <4>1, <1>3 DEF SiteOk
      <4>3. s.code # 0 /\ k \notin rp => gs[k].compiled = fs[k].compiled
        BY <3>1, <4>2, <1>2 DEF SiteOk
      <4> QED BY <3>1, <4>1, <4>2, <4>3, <1>2, <1>3, <1>4 DEF SiteOk
    <3> QED BY <3>2, <3>3
  <2> QED BY <2>1, <2>2, <1>3, <1>4
<1> QED BY <1>2, <1>3, <1>5, <1>6, <1>7 DEF ModuleOk

\* What a result r of compiling function i of fs is good for.
ResultOk(fs, rp, ls, i, r) ==
  /\ ModuleOk(r.functions, r.code, rp, failed, ls \cup LostBy(r, i))
  /\ LostBy(r, i) \subseteq {i}
  /\ Len(code) <= Len(r.code) /\ \A c \in 1 .. Len(code) : r.code[c] = code[c]
  /\ Len(r.functions) = Len(fs)
  /\ r.ok => r.functions[i].compiled \in 1 .. Len(r.code)

\* CompileFunction keeps what is known of the module, also when it fails.
LEMMA CompileFunctionOk ==
  ASSUME NEW fs, NEW rp, NEW ls, NEW a \in Block, NEW i \in 1 .. Len(fs),
         ModuleOk(fs, code, rp, failed, ls), fs[i].compiled = 0,
         NEW r \in CompileFunction(fs, a, i)
  PROVE  ResultOk(fs, rp, ls, i, r)
<1>1. fs \in Seq(Function) /\ code \in Seq(Code) /\ fs[i] \in Function BY DEF ModuleOk
<1>2. CASE r = [ok |-> FALSE, functions |-> fs, code |-> code]
  <2>1. LostBy(r, i) = {} BY <1>2 DEF LostBy
  <2>2. ls \cup LostBy(r, i) = ls BY <2>1
  <2>3. r.functions = fs /\ r.code = code /\ ~r.ok BY <1>2
  <2>4. Len(code) <= Len(code) BY <1>1
  <2> QED BY <2>1, <2>2, <2>3, <2>4 DEF ResultOk
<1>3. CASE CanEmit(fs, i) /\ r \in Emitted(fs, a, i)
  <2> DEFINE k == fs[i].wasm.callee
             n == Len(code) + 1
             new == [owner |-> At(a, i), body |-> fs[i].wasm, site |-> CallTo(fs, a, k)]
             f(copied) == [fs[i] EXCEPT !.compiled = n, !.constants = IF copied THEN n ELSE 0]
  <2>1. PICK copied \in BOOLEAN :
          r = [ok |-> copied, code |-> Append(code, new), functions |-> [fs EXCEPT ![i] = f(copied)]]
    <3>1. fs[i].wasm \in Body BY <1>1, <1>3 DEF Function, CanEmit, Compilable
    <3>2. fs[i].wasm.constants \in BOOLEAN BY <3>1, BodyType
    <3> QED BY <1>1, <1>3, <3>2 DEF Emitted
  <2>2. fs[i].wasm \in Body /\ fs[i].wasm # NULL /\ k \in 0 .. Len(fs)
    BY <1>1, <1>3 DEF Function, CanEmit, Compilable
  <2>3. n \in Nat \ {0} BY <1>1
  <2>4. f(copied) \in Function /\ f(copied).compiled = n
        /\ f(copied).constants = IF copied THEN n ELSE 0
    BY <1>1, <2>3 DEF Function
  <2>5. /\ At(a, i) \in Pointer /\ i \in Nat \ {0}
        /\ k # 0 => At(a, k) \in Pointer /\ k \in 1 .. Len(fs)
    BY <1>1, <2>2 DEF At, Pointer
  <2>6. /\ new \in Code
        /\ \/ new.site = NoSite
           \/ /\ k \in 1 .. Len(fs) /\ k # i
              /\ fs[k].compiled # 0 /\ new.site = CallOf(fs[k].compiled)
           \/ /\ k \in 1 .. Len(fs) /\ new.site = CompileOf(At(a, k))
    <3>1. CASE k = 0
      BY <3>1, <2>2, <2>5 DEF CallTo, NoSite, Code, Site
    <3>2. CASE k # 0
      <4>1. k \in 1 .. Len(fs) /\ At(a, k) \in Pointer BY <3>2, <2>5
      <4>2. fs[k].compiled \in Nat
        <5>1. fs[k] \in Function BY <4>1, <1>1
        <5> QED BY <5>1 DEF Function
      <4>3. CASE fs[k].compiled # 0
        BY <3>2, <4>1, <4>2, <4>3, <2>2, <2>5 DEF CallTo, CallOf, Code, Site
      <4>4. CASE fs[k].compiled = 0
        BY <3>2, <4>1, <4>4, <2>2, <2>5 DEF CallTo, CompileOf, Code, Site
      <4> QED BY <4>3, <4>4
    <3> QED BY <3>1, <3>2
  <2>7. At(a, k).index = k /\ At(a, k) # NULL /\ new.owner.index = i /\ new.body = fs[i].wasm
    <3>1. At(a, k) \in [array : Block, index : Nat] BY <2>2, <1>1 DEF At
    <3>2. At(a, k) # NULL BY <3>1, CallSitesAssumption
    <3> QED BY <3>2 DEF At
  <2>8. LostBy(r, i) = IF copied THEN {} ELSE {i}
    BY <2>1, <2>3, <2>4, <1>1 DEF LostBy
  <2>9. ModuleOk([fs EXCEPT ![i] = f(copied)], Append(code, new), rp, failed, ls \cup LostBy(r, i))
    <3>1. f(copied).constants <= Len(code) + 1 BY <2>3, <2>4
    <3>2. new.body = NULL \/ f(copied).constants = Len(code) + 1 \/ LostBy(r, i) = {i}
      BY <2>4, <2>8
    <3>3. LostBy(r, i) \in SUBSET {i} BY <2>8
    <3>4. \/ new.site = NoSite
          \/ /\ new.body # NULL /\ new.body.callee \in 1 .. Len(fs)
             /\ \/ /\ fs[new.body.callee].compiled # 0
                   /\ new.site = CallOf(fs[new.body.callee].compiled)
                   /\ new.body.callee # i
                \/ /\ new.site = CompileOf(new.site.function)
                   /\ new.site.function # NULL
                   /\ new.site.function.index = new.body.callee
      <4>1. ASSUME new.site = CompileOf(At(a, k)) PROVE new.site.function = At(a, k)
        BY <4>1 DEF CompileOf
      <4>2. new.body.callee = k /\ new.body # NULL BY <2>2, <2>7
      <4> HIDE DEF new, k
      <4> QED BY <4>1, <4>2, <2>6, <2>7
    <3>5. f(copied) \in Function /\ f(copied).compiled = Len(code) + 1 BY <2>4
    <3>6. new \in Code /\ new.owner.index = i BY <2>6, <2>7
    <3> HIDE DEF f, new, k
    <3> QED BY <3>1, <3>2, <3>3, <3>4, <3>5, <3>6, AppendOk
  <2>10. r.functions = [fs EXCEPT ![i] = f(copied)] /\ r.code = Append(code, new) BY <2>1
  <2>11. /\ Len(r.functions) = Len(fs) /\ r.functions[i].compiled = n
         /\ Len(r.code) = n /\ \A c \in 1 .. Len(code) : r.code[c] = code[c]
    <3>1. r.functions[i] = f(copied) /\ Len(r.functions) = Len(fs)
      <4> HIDE DEF f
      <4> QED BY <2>4, <2>10, <1>1
    <3>2. Len(r.code) = n /\ \A c \in 1 .. Len(code) : r.code[c] = code[c]
      <4> HIDE DEF new
      <4>1. new \in Code BY <2>6
      <4> QED BY <4>1, <2>10, <1>1
    <3> QED BY <3>1, <3>2, <2>4
  <2>12. LostBy(r, i) \subseteq {i} BY <2>8
  <2>13. Len(code) <= n /\ n \in 1 .. n BY <2>3
  <2> HIDE DEF f, new, n
  <2> QED BY <2>9, <2>10, <2>11, <2>12, <2>13 DEF ResultOk
<1> QED BY <1>2, <1>3 DEF CompileFunction

\* The same when the function may be compiled already; afterwards it has code.
LEMMA CompiledOk ==
  ASSUME NEW i \in 1 .. Len(functions), array \in Block,
         ModuleOk(functions, code, replaced, failed, lost), NEW r \in Compiled(i)
  PROVE  ResultOk(functions, replaced, lost, i, r)
<1>1. functions[i] \in Function /\ code \in Seq(Code) BY DEF ModuleOk
<1>2. CASE functions[i].compiled = 0
  <2>1. r \in CompileFunction(functions, array, i) BY <1>2 DEF Compiled
  <2> QED BY <1>2, <2>1, CompileFunctionOk
<1>3. CASE functions[i].compiled # 0
  <2>1. r.ok /\ r.functions = functions /\ r.code = code
    <3>1. r = [ok |-> TRUE, functions |-> functions, code |-> code] BY <1>3 DEF Compiled
    <3> QED BY <3>1
  <2>2. LostBy(r, i) = {} /\ lost \cup LostBy(r, i) = lost BY <2>1 DEF LostBy
  <2>3. FunctionOk(functions, code, replaced, lost, i) BY DEF ModuleOk
  <2>4. functions[i].compiled \in Nat /\ Len(code) \in Nat BY <1>1 DEF Function
  <2>5. functions[i].compiled \in 1 .. Len(code) BY <1>3, <2>3, <2>4 DEF FunctionOk
  <2> QED BY <2>1, <2>2, <2>4, <2>5 DEF ResultOk
<1> QED BY <1>2, <1>3

\* Where op_Compile has rewritten itself, the site holds code of the callee or has failed.
LEMMA PatchOk ==
  ASSUME NEW fs, NEW cs, NEW rp, NEW fl, NEW ls, NEW c \in 1 .. Len(cs), NEW s \in Site,
         NEW fl2 \in SUBSET (1 .. Len(cs)),
         ModuleOk(fs, cs, rp, fl, ls), cs[c].site.op = "op_Compile",
         fl \subseteq fl2, s.op = "op_Call",
         c \notin fl2 => s.code # 0,
         s.code # 0 => /\ s.code \in 1 .. Len(cs)
                       /\ s.code = fs[cs[c].site.function.index].compiled
  PROVE  /\ ModuleOk(fs, [cs EXCEPT ![c].site = s], rp, fl2, ls)
         /\ Extends(cs, [cs EXCEPT ![c].site = s])
<1> DEFINE ds == [cs EXCEPT ![c].site = s]
<1>1. fs \in Seq(Function) /\ cs \in Seq(Code) BY DEF ModuleOk
<1>2. ds \in Seq(Code) /\ Len(ds) = Len(cs)
  <2>1. cs[c] \in Code BY <1>1
  <2>2. [cs[c] EXCEPT !.site = s] \in Code BY <2>1 DEF Code
  <2> QED BY <1>1, <2>2
<1>3. /\ \A d \in 1 .. Len(cs) : d # c => ds[d] = cs[d]
      /\ ds[c] = [cs[c] EXCEPT !.site = s] /\ Len(cs) \in Nat
  BY <1>1
<1>4. cs[c] \in Code BY <1>1
<1>5. \A d \in 1 .. Len(cs) : ds[d].body = cs[d].body /\ ds[d].owner = cs[d].owner
  <2>1. ds[c].body = cs[c].body /\ ds[c].owner = cs[c].owner BY <1>3, <1>4 DEF Code
  <2> QED BY <2>1, <1>3
<1>6. Extends(cs, ds)
  <2>1. Len(cs) <= Len(ds) BY <1>2, <1>3
  <2> HIDE DEF ds
  <2> QED BY <1>5, <2>1 DEF Extends
<1>7. ds[c].site = s BY <1>3, <1>4 DEF Code
<1> HIDE DEF ds
<1>8. ASSUME NEW i \in 1 .. Len(fs) PROVE FunctionOk(fs, ds, rp, ls, i)
  <2>1. FunctionOk(fs, cs, rp, ls, i) BY DEF ModuleOk
  <2>2. fs[i] \in Function BY <1>1
  <2>3. fs[i].compiled \in Nat BY <2>2 DEF Function
  <2>4. fs[i].compiled # 0 => fs[i].compiled \in 1 .. Len(cs) BY <2>1, <2>3, <1>3 DEF FunctionOk
  <2> QED BY <2>1, <2>4, <1>2, <1>5 DEF FunctionOk
<1>9. ASSUME NEW d \in 1 .. Len(ds) PROVE OwnerOk(fs, ds, rp, d) /\ SiteOk(fs, ds, rp, fl2, d)
  <2>1. d \in 1 .. Len(cs) /\ OwnerOk(fs, cs, rp, d) /\ SiteOk(fs, cs, rp, fl, d)
    BY <1>2 DEF ModuleOk
  <2>2. OwnerOk(fs, ds, rp, d) BY <2>1, <1>5 DEF OwnerOk
  <2>3. CASE d = c
    <3>1. SiteOk(fs, cs, rp, fl, c) BY <2>1, <2>3
    <3>2. /\ cs[c].body # NULL /\ cs[c].body.callee \in 1 .. Len(fs)
          /\ cs[c].site.function.index = cs[c].body.callee
      BY <3>1 DEF SiteOk
    <3>3. FunctionOk(fs, cs, rp, ls, cs[c].body.callee) BY <3>2 DEF ModuleOk
    <3>4. s.code # 0 => cs[s.code].owner.index = cs[c].body.callee
      BY <3>2, <3>3 DEF FunctionOk
    <3>5. s.code # 0 => ds[s.code].owner.index = ds[c].body.callee BY <3>4, <1>5
    <3> QED BY <2>2, <2>3, <3>2, <3>5, <1>2, <1>5, <1>7 DEF SiteOk
  <2>4. CASE d # c
    <3>1. ds[d] = cs[d] BY <2>1, <2>4, <1>3
    <3>2. cs[d].site.code # 0 => cs[d].site.code \in 1 .. Len(cs)
                                 /\ ds[cs[d].site.code].owner = cs[cs[d].site.code].owner
      BY <2>1, <1>5 DEF SiteOk
    <3> QED BY <2>1, <2>2, <3>1, <3>2, <1>2 DEF SiteOk
  <2> QED BY <2>3, <2>4
<1>10. rp \subseteq 1 .. Len(fs) /\ ls \subseteq 1 .. Len(fs) /\ fl2 \subseteq 1 .. Len(ds)
  BY <1>2 DEF ModuleOk
<1>11. ModuleOk(fs, ds, rp, fl2, ls) BY <1>1, <1>2, <1>8, <1>9, <1>10 DEF ModuleOk
<1> QED BY <1>6, <1>11 DEF ds

-----------------------------------------------------------------------------
(* Frames                                                                  *)

\* Entering code gives it the constants its function has.
LEMMA EnterOk ==
  ASSUME NEW fs, NEW cs, NEW rp, NEW fl, NEW ls, NEW c \in Nat,
         ModuleOk(fs, cs, rp, fl, ls), FramesOk(frames, cs, rp, ls),
         c <= Len(cs), Enter(fs, cs, c)
  PROVE  FramesOk(frames', cs, rp, ls)
<1> DEFINE i == cs[c].owner.index
           f == [code |-> c, constants |-> fs[i].constants]
<1>1. /\ fs \in Seq(Function) /\ cs \in Seq(Code) /\ c \in 1 .. Len(cs)
      /\ frames \in Seq(Frame) /\ frames' = Append(frames, f)
  BY DEF ModuleOk, FramesOk, Enter
<1>2. OwnerOk(fs, cs, rp, c) /\ cs[c] \in Code BY <1>1 DEF ModuleOk
<1>3. i \in 1 .. Len(fs)
  <2>1. i \in Nat \ {0} /\ Len(fs) \in Nat BY <1>1, <1>2 DEF Code, Pointer
  <2> QED BY <1>2, <2>1 DEF OwnerOk
<1>4. fs[i] \in Function /\ FunctionOk(fs, cs, rp, ls, i) BY <1>1, <1>3 DEF ModuleOk
<1>5. f \in Frame BY <1>1, <1>4 DEF Frame, Function
<1>6. cs[c].body # NULL /\ i \notin rp \cup ls => f.constants = c
  BY <1>1, <1>2, <1>4 DEF OwnerOk, FunctionOk
<1> HIDE DEF i
<1>7. /\ frames' \in Seq(Frame) /\ Len(frames') = Len(frames) + 1 /\ Len(frames) \in Nat
      /\ \A n \in 1 .. Len(frames) : frames'[n] = frames[n]
      /\ frames'[Len(frames) + 1] = f
  BY <1>1, <1>5
<1>8. ASSUME NEW n \in 1 .. Len(frames')
      PROVE  /\ frames'[n].code <= Len(cs)
             /\ cs[frames'[n].code].body # NULL /\ cs[frames'[n].code].owner.index \notin rp \cup ls =>
                  frames'[n].constants = frames'[n].code
  <2>1. CASE n \in 1 .. Len(frames) BY <2>1, <1>7 DEF FramesOk
  <2>2. CASE n = Len(frames) + 1 BY <2>2, <1>6, <1>7 DEF i
  <2> QED BY <2>1, <2>2, <1>7
<1> QED BY <1>7, <1>8 DEF FramesOk

\* Frames keep their constants while code is appended and more is replaced or lost.
LEMMA FramesExtend ==
  ASSUME NEW fr, NEW cs, NEW ds, NEW rp, NEW ls, NEW rp2, NEW ls2,
         FramesOk(fr, cs, rp, ls), cs \in Seq(Code), ds \in Seq(Code), Extends(cs, ds),
         rp \subseteq rp2, ls \subseteq ls2
  PROVE  FramesOk(fr, ds, rp2, ls2)
<1>1. fr \in Seq(Frame) BY DEF FramesOk
<1>2. ASSUME NEW n \in 1 .. Len(fr)
      PROVE  /\ fr[n].code <= Len(ds)
             /\ ds[fr[n].code].body # NULL /\ ds[fr[n].code].owner.index \notin rp2 \cup ls2 =>
                  fr[n].constants = fr[n].code
  <2>1. fr[n] \in Frame BY <1>1
  <2>2. fr[n].code \in Nat \ {0} /\ Len(cs) \in Nat /\ Len(ds) \in Nat BY <2>1 DEF Frame
  <2>3. fr[n].code \in 1 .. Len(cs) BY <2>2 DEF FramesOk
  <2>4. ds[fr[n].code].body = cs[fr[n].code].body /\ ds[fr[n].code].owner = cs[fr[n].code].owner
    BY <2>3 DEF Extends
  <2> QED BY <2>2, <2>3, <2>4 DEF FramesOk, Extends
<1> QED BY <1>1, <1>2 DEF FramesOk

\* So do those that are left when calls return or fail.
LEMMA PrefixOk ==
  ASSUME NEW cs, NEW rp, NEW ls, NEW k \in 0 .. Len(frames), FramesOk(frames, cs, rp, ls),
         frames' = SubSeq(frames, 1, k)
  PROVE  FramesOk(frames', cs, rp, ls)
<1>1. frames \in Seq(Frame) BY DEF FramesOk
<1>2. frames' \in Seq(Frame) /\ Len(frames') = k /\ \A n \in 1 .. k : frames'[n] = frames[n]
  BY <1>1
<1> QED BY <1>1, <1>2 DEF FramesOk

-----------------------------------------------------------------------------
(* The steps                                                               *)

LEMMA Types ==
  ASSUME IInv
  PROVE  /\ functions \in Seq(Function) /\ code \in Seq(Code) /\ frames \in Seq(Frame)
         /\ Len(functions) \in Nat /\ Len(code) \in Nat /\ Len(frames) \in Nat
         /\ replaced \subseteq 1 .. Len(functions) /\ lost \subseteq 1 .. Len(functions)
         /\ failed \subseteq 1 .. Len(code)
BY DEF IInv, ModuleOk, FramesOk

LEMMA RunningCode == ASSUME IInv, Running PROVE Top \in 1 .. Len(code)
<1>1. Len(frames) \in 1 .. Len(frames) BY Types DEF Running
<1>2. frames[Len(frames)] \in Frame BY <1>1, Types
<1> QED BY <1>1, <1>2, Types DEF IInv, FramesOk, Top, Frame

\* A result of CompileFunction, when only that has changed functions and code.
LEMMA ResultInv ==
  ASSUME IInv, NEW i \in 1 .. Len(functions), NEW r, ResultOk(functions, replaced, lost, i, r)
  PROVE  /\ FramesOk(frames, r.code, replaced, lost \cup LostBy(r, i))
         /\ r.functions \in Seq(Function) /\ r.code \in Seq(Code)
         /\ Extends(code, r.code)
<1>1. r.functions \in Seq(Function) /\ r.code \in Seq(Code) BY DEF ResultOk, ModuleOk
<1>2. Extends(code, r.code) BY DEF ResultOk, Extends
<1> QED BY <1>1, <1>2, Types, FramesExtend DEF IInv

\* Control enters the code of a result, or an error is returned.
LEMMA GoOn ==
  ASSUME IInv, NEW i \in 1 .. Len(functions), NEW r, ResultOk(functions, replaced, lost, i, r),
         IF r.ok THEN Enter(r.functions, r.code, r.functions[i].compiled) ELSE Unwind(Len(frames))
  PROVE  FramesOk(frames', r.code, replaced, lost \cup LostBy(r, i))
<1> DEFINE ls == lost \cup LostBy(r, i)
<1>1. FramesOk(frames, r.code, replaced, ls) /\ r.code \in Seq(Code) BY ResultInv
<1>2. ModuleOk(r.functions, r.code, replaced, failed, ls) BY DEF ResultOk
<1>3. CASE r.ok
  <2>1. r.functions[i].compiled \in Nat /\ r.functions[i].compiled <= Len(r.code)
    BY <1>1, <1>3 DEF ResultOk
  <2>2. Enter(r.functions, r.code, r.functions[i].compiled) BY <1>3
  <2> HIDE DEF ls
  <2>3. FramesOk(frames', r.code, replaced, ls) BY <1>1, <1>2, <2>1, <2>2, EnterOk
  <2> QED BY <2>3 DEF ls
<1>4. CASE ~r.ok
  <2>1. PICK k \in 0 .. Len(frames) : frames' = SubSeq(frames, 1, k) BY <1>4 DEF Unwind
  <2> QED BY <1>1, <2>1, PrefixOk
<1> QED BY <1>3, <1>4

LEMMA CallStep == ASSUME IInv, Call PROVE IInv'
<1>1. code[Top].site \in Site
  <2>1. code[Top] \in Code BY Types, RunningCode DEF Call
  <2> QED BY <2>1 DEF Code
<1>2. code[Top].site.code \in Nat BY <1>1 DEF Site
<1>3. code[Top].site.code <= Len(code)
  <2>1. SiteOk(functions, code, replaced, failed, Top) BY RunningCode DEF IInv, ModuleOk, Call
  <2> QED BY <1>2, <2>1, Types DEF SiteOk
<1>4. FramesOk(frames', code, replaced, lost) BY <1>2, <1>3, EnterOk DEF IInv, Call
<1> QED BY <1>4 DEF IInv, Call

LEMMA CompileStep == ASSUME IInv, Compile PROVE IInv'
<1> DEFINE i == code[Top].site.function.index
<1>1. Top \in 1 .. Len(code) /\ code[Top] \in Code /\ array \in Block /\ i \in 1 .. Len(functions)
  <2>1. Top \in 1 .. Len(code) /\ code[Top] \in Code BY RunningCode, Types DEF Compile
  <2>2. code[Top].site.function # NULL /\ code[Top].site.function.array = array
        /\ i \in 1 .. Len(functions)
    BY DEF Compile, Valid
  <2>3. code[Top].site.function \in Pointer BY <2>1, <2>2 DEF Code, Site
  <2> QED BY <2>1, <2>2, <2>3 DEF Pointer
<1>2. PICK r \in Compiled(i) :
        /\ functions' = r.functions
        /\ code' = [r.code EXCEPT ![Top].site = Patched(@, r, i)]
        /\ IF r.ok THEN Enter(r.functions, r.code, r.functions[i].compiled)
           ELSE Unwind(Len(frames))
        /\ failed' = IF r.ok THEN failed ELSE failed \cup {Top}
        /\ lost' = lost \cup LostBy(r, i)
  BY DEF Compile
<1> HIDE DEF i
<1>3. ResultOk(functions, replaced, lost, i, r) BY <1>1, CompiledOk DEF IInv
<1>4. FramesOk(frames', r.code, replaced, lost') BY <1>1, <1>2, <1>3, GoOn
<1>5. /\ ModuleOk(r.functions, r.code, replaced, failed, lost')
      /\ r.functions \in Seq(Function) /\ r.code \in Seq(Code)
      /\ Top \in 1 .. Len(r.code) /\ r.code[Top] = code[Top] /\ Len(code) <= Len(r.code)
  <2>1. Len(r.code) \in Nat BY <1>1, <1>3, ResultInv
  <2>2. r.functions \in Seq(Function) /\ r.code \in Seq(Code) BY <1>1, <1>3, ResultInv
  <2>3. ModuleOk(r.functions, r.code, replaced, failed, lost') BY <1>2, <1>3 DEF ResultOk
  <2>4. Len(code) <= Len(r.code) /\ r.code[Top] = code[Top] BY <1>1, <1>3 DEF ResultOk
  <2> QED BY <1>1, <2>1, <2>2, <2>3, <2>4, Types
<1> DEFINE s == Patched(code[Top].site, r, i)
<1>6. code[Top].site \in Site /\ code[Top].site.op = "op_Compile" /\ code[Top].site.code = 0
  <2>1. SiteOk(functions, code, replaced, failed, Top) BY <1>1 DEF IInv, ModuleOk
  <2> QED BY <1>1, <2>1 DEF SiteOk, Code, Compile
<1>7. /\ s \in Site /\ s.op = "op_Call"
      /\ r.ok => s.code # 0
      /\ s.code # 0 => s.code \in 1 .. Len(r.code) /\ s.code = r.functions[i].compiled
  <2>1. CASE r.ok
    <3>1. s = CallOf(r.functions[i].compiled) BY <2>1 DEF Patched
    <3>2. r.functions[i].compiled \in 1 .. Len(r.code) BY <2>1, <1>3 DEF ResultOk
    <3> QED BY <3>1, <3>2, <1>5 DEF CallOf, Site
  <2>2. CASE ~r.ok
    <3>1. s = [code[Top].site EXCEPT !.op = "op_Call"] BY <2>2 DEF Patched
    <3> QED BY <2>2, <3>1, <1>6 DEF Site
  <2> QED BY <2>1, <2>2
<1>8. code' = [r.code EXCEPT ![Top].site = s]
  BY <1>2, <1>5
<1> HIDE DEF s
<1>9. /\ failed' \in SUBSET (1 .. Len(r.code)) /\ failed \subseteq failed'
      /\ Top \notin failed' => r.ok
  BY <1>1, <1>2, <1>5, Types
<1>10. ModuleOk(functions', code', replaced', failed', lost') /\ Extends(r.code, code')
  <2>1. r.code[Top].site.op = "op_Compile" /\ r.code[Top].site.function.index = i
    BY <1>5, <1>6 DEF i
  <2>2. /\ ModuleOk(r.functions, [r.code EXCEPT ![Top].site = s], replaced, failed', lost')
        /\ Extends(r.code, [r.code EXCEPT ![Top].site = s])
    BY <1>5, <1>7, <1>9, <2>1, PatchOk
  <2>3. replaced' = replaced BY DEF Compile
  <2> QED BY <1>2, <1>8, <2>2, <2>3
<1>11. FramesOk(frames', code', replaced', lost')
  <2>1. code' \in Seq(Code) BY <1>10 DEF ModuleOk
  <2>2. replaced' = replaced BY DEF Compile
  <2> QED BY <1>4, <1>5, <1>10, <2>1, <2>2, FramesExtend
<1> QED BY <1>10, <1>11 DEF IInv, Compile

\* A step that leaves a result of Compiled(i), and goes on or returns with it.
LEMMA ResultStep ==
  ASSUME IInv, NEW i \in 1 .. Len(functions), array \in Block, NEW r \in Compiled(i),
         functions' = r.functions, code' = r.code, lost' = lost \cup LostBy(r, i),
         UNCHANGED <<array, table0, failed, replaced, injections>>,
         \/ UNCHANGED frames
         \/ IF r.ok THEN Enter(r.functions, r.code, r.functions[i].compiled)
            ELSE Unwind(Len(frames))
  PROVE  IInv'
<1>1. ResultOk(functions, replaced, lost, i, r) BY CompiledOk DEF IInv
<1>2. ModuleOk(functions', code', replaced', failed', lost') BY <1>1 DEF ResultOk
<1>3. FramesOk(frames', code', replaced', lost') BY <1>1, ResultInv, GoOn
<1> QED BY <1>2, <1>3 DEF IInv

LEMMA CallIndirectStep == ASSUME IInv, CallIndirect PROVE IInv'
<1>1. PICK e \in 1 .. Len(table0) :
        /\ Valid(table0[e])
        /\ \E r \in Compiled(table0[e].index) :
             /\ functions' = r.functions /\ code' = r.code
             /\ IF r.ok THEN Enter(r.functions, r.code, r.functions[table0[e].index].compiled)
                ELSE Unwind(Len(frames))
             /\ lost' = lost \cup LostBy(r, table0[e].index)
  BY DEF CallIndirect
<1> DEFINE i == table0[e].index
<1>2. i \in 1 .. Len(functions) /\ array \in Block
  <2>1. table0[e] \in Pointer BY DEF IInv
  <2> QED BY <1>1, <2>1 DEF Valid, Pointer
<1>3. PICK r \in Compiled(i) :
        /\ functions' = r.functions /\ code' = r.code
        /\ IF r.ok THEN Enter(r.functions, r.code, r.functions[i].compiled)
           ELSE Unwind(Len(frames))
        /\ lost' = lost \cup LostBy(r, i)
  BY <1>1
<1> HIDE DEF i
<1> QED BY <1>2, <1>3, ResultStep DEF CallIndirect

LEMMA ReturnStep == ASSUME IInv, Return \/ Trap PROVE IInv'
<1>1. frames # <<>> /\ Len(frames) - 1 \in 0 .. Len(frames) BY Types DEF Return, Trap
<1>2. PICK k \in 0 .. Len(frames) : frames' = SubSeq(frames, 1, k)
  BY <1>1, Types DEF Return, Trap, Unwind
<1>3. FramesOk(frames', code, replaced, lost) BY <1>2, PrefixOk DEF IInv
<1> QED BY <1>3 DEF IInv, Return, Trap

LEMMA FindFunctionStep ==
  ASSUME IInv, NEW i \in 1 .. Len(functions), m3_FindFunction(i) PROVE IInv'
<1>1. array \in Block BY DEF IInv, m3_FindFunction, Embedder
<1>2. PICK r \in Compiled(i) :
        functions' = r.functions /\ code' = r.code /\ lost' = lost \cup LostBy(r, i)
  BY DEF m3_FindFunction
<1> QED BY <1>1, <1>2, ResultStep DEF m3_FindFunction

LEMMA CallFromHostStep == ASSUME IInv, NEW i \in 1 .. Len(functions), m3_Call(i) PROVE IInv'
<1>1. FunctionOk(functions, code, replaced, lost, i) /\ functions[i] \in Function
  BY Types DEF IInv, ModuleOk
<1>2. functions[i].compiled \in Nat /\ functions[i].compiled <= Len(code)
  BY <1>1 DEF FunctionOk, Function
<1>3. FramesOk(frames', code, replaced, lost) BY <1>2, EnterOk DEF IInv, m3_Call
<1> QED BY <1>3 DEF IInv, m3_Call

\* If more functions count as replaced, less is promised.
LEMMA ReplacingOk ==
  ASSUME NEW fs, NEW cs, NEW rp, NEW fl, NEW ls, NEW rp2 \in SUBSET (1 .. Len(fs)),
         ModuleOk(fs, cs, rp, fl, ls), rp \subseteq rp2
  PROVE  ModuleOk(fs, cs, rp2, fl, ls)
<1>1. ASSUME NEW i \in 1 .. Len(fs) PROVE FunctionOk(fs, cs, rp2, ls, i)
  BY DEF ModuleOk, FunctionOk
<1>2. ASSUME NEW c \in 1 .. Len(cs) PROVE OwnerOk(fs, cs, rp2, c)
  BY DEF ModuleOk, OwnerOk
<1>3. ASSUME NEW c \in 1 .. Len(cs) PROVE SiteOk(fs, cs, rp2, fl, c)
  <2>1. SiteOk(fs, cs, rp, fl, c) BY DEF ModuleOk
  <2> QED BY <2>1 DEF SiteOk
<1> QED BY <1>1, <1>2, <1>3 DEF ModuleOk

LEMMA ReplacingInv ==
  ASSUME IInv, NEW i \in 1 .. Len(functions)
  PROVE  /\ ModuleOk(functions, code, Replacing(i), failed, lost)
         /\ FramesOk(frames, code, Replacing(i), lost)
         /\ functions[i].compiled = 0 \/ i \in Replacing(i)
<1>1. Replacing(i) \in SUBSET (1 .. Len(functions)) /\ replaced \subseteq Replacing(i)
  BY Types DEF Replacing
<1>2. Extends(code, code) BY Types DEF Extends
<1> QED BY <1>1, <1>2, Types, ReplacingOk, FramesExtend DEF IInv, Replacing

LEMMA LinkStep ==
  ASSUME IInv, NEW i \in 1 .. Len(functions), m3_LinkRawFunction(i) PROVE IInv'
<1> DEFINE new == [owner |-> At(array, i), body |-> NULL, site |-> NoSite]
           f == [functions[i] EXCEPT !.compiled = Len(code) + 1, !.module = TRUE]
<1>1. functions[i] \in Function /\ array \in Block
  BY Types DEF IInv, m3_LinkRawFunction, Embedder
<1>2. new \in Code /\ new.owner.index = i /\ new.site = NoSite /\ new.body = NULL
  <2>1. At(array, i) \in Pointer /\ At(array, i).index = i BY <1>1, Types DEF At, Pointer
  <2>2. NoSite \in Site BY DEF NoSite, Site
  <2> QED BY <2>1, <2>2 DEF Code
<1>3. f \in Function /\ f.compiled = Len(code) + 1 /\ f.constants = functions[i].constants
  <2>1. Len(code) + 1 \in Nat BY Types
  <2> QED BY <1>1, <2>1 DEF Function
<1>4. f.constants <= Len(code) + 1
  <2>1. FunctionOk(functions, code, replaced, lost, i) BY DEF IInv, ModuleOk
  <2>2. functions[i].constants \in Nat BY <1>1 DEF Function
  <2> QED BY <1>3, <2>1, <2>2, Types DEF FunctionOk
<1>5. functions' = [functions EXCEPT ![i] = f] /\ code' = Append(code, new)
      /\ replaced' = Replacing(i)
  BY Types DEF m3_LinkRawFunction
<1> HIDE DEF new, f
<1>6. {} \in SUBSET {i} /\ lost \cup {} = lost OBVIOUS
<1>7. ModuleOk([functions EXCEPT ![i] = f], Append(code, new), Replacing(i), failed, lost \cup {})
  BY <1>2, <1>3, <1>4, <1>6, ReplacingInv, AppendOk
<1>8. code' \in Seq(Code) /\ Extends(code, code')
  BY <1>2, <1>5, Types DEF Extends
<1>9. FramesOk(frames, code', replaced', lost) BY <1>5, <1>8, Types, ReplacingInv, FramesExtend
<1> QED BY <1>5, <1>6, <1>7, <1>9 DEF IInv, m3_LinkRawFunction

\* A function without code can be given a body.
LEMMA InjectOk ==
  ASSUME IInv, NEW i \in 1 .. Len(functions), NEW body \in Injected \cup {NULL}
  PROVE  ModuleOk([functions EXCEPT ![i] = Inject(@, body)], code, Replacing(i), failed, lost)
<1> DEFINE f == Inject(functions[i], body)
           fs == [functions EXCEPT ![i] = Inject(@, body)]
<1>1. functions[i] \in Function /\ body \in Body \cup {NULL} BY Types, CallSitesAssumption
<1>2. f \in Function /\ f.compiled = 0 /\ f.constants = functions[i].constants
  BY <1>1 DEF Inject, Function
<1>3. fs = [functions EXCEPT ![i] = f] BY Types
<1> HIDE DEF f, fs
<1>4. /\ fs \in Seq(Function) /\ Len(fs) = Len(functions) /\ fs[i] = f
      /\ \A j \in 1 .. Len(functions) : j # i => fs[j] = functions[j]
  BY <1>2, <1>3, Types
<1>5. ModuleOk(functions, code, Replacing(i), failed, lost) BY ReplacingInv
<1>6. functions[i].compiled = 0 \/ i \in Replacing(i) BY ReplacingInv
<1>7. ASSUME NEW j \in 1 .. Len(fs) PROVE FunctionOk(fs, code, Replacing(i), lost, j)
  <2>1. FunctionOk(functions, code, Replacing(i), lost, j) BY <1>4, <1>5 DEF ModuleOk
  <2>2. CASE j = i BY <2>1, <2>2, <1>2, <1>4, Types DEF FunctionOk
  <2>3. CASE j # i BY <2>1, <2>3, <1>4 DEF FunctionOk
  <2> QED BY <2>2, <2>3
<1>8. ASSUME NEW c \in 1 .. Len(code)
      PROVE  OwnerOk(fs, code, Replacing(i), c) /\ SiteOk(fs, code, Replacing(i), failed, c)
  <2>1. OwnerOk(functions, code, Replacing(i), c) /\ SiteOk(functions, code, Replacing(i), failed, c)
    BY <1>5 DEF ModuleOk
  <2>2. code[c] \in Code BY Types
  <2>3. code[c].owner.index \in 1 .. Len(functions)
    <3>1. code[c].owner.index \in Nat \ {0} BY <2>2 DEF Code, Pointer
    <3> QED BY <2>1, <3>1, Types DEF OwnerOk
  <2>4. OwnerOk(fs, code, Replacing(i), c) BY <2>1, <2>3, <1>4, <1>6 DEF OwnerOk
  <2>5. code[c].site.code # 0 /\ code[c].body.callee \notin Replacing(i) =>
          functions[code[c].body.callee].compiled = fs[code[c].body.callee].compiled
    <3>1. code[c].site.code # 0 => code[c].body.callee \in 1 .. Len(functions)
      BY <2>1 DEF SiteOk, NoSite
    <3> QED BY <2>1, <3>1, <1>4, <1>6 DEF SiteOk
  <2> QED BY <2>1, <2>4, <2>5, <1>4 DEF SiteOk
<1> QED BY <1>4, <1>5, <1>7, <1>8 DEF ModuleOk, fs

LEMMA InjectFunctionStep ==
  ASSUME IInv, NEW i \in 1 .. Len(functions), NEW body \in Injected \cup {NULL},
         InjectFunction(i, body)
  PROVE  IInv'
<1> DEFINE fs == [functions EXCEPT ![i] = Inject(@, body)]
<1>1. PICK r \in CompileFunction(fs, array, i) :
        functions' = r.functions /\ code' = r.code /\ lost' = lost \cup LostBy(r, i)
  BY DEF InjectFunction
<1>2. ModuleOk(fs, code, Replacing(i), failed, lost) /\ array \in Block
  BY InjectOk DEF IInv, InjectFunction, Injecting, Embedder
<1>3. Len(fs) = Len(functions) /\ fs[i].compiled = 0
  <2>1. functions[i] \in Function BY Types
  <2>2. fs[i] = Inject(functions[i], body) /\ Len(fs) = Len(functions) BY Types
  <2>3. Inject(functions[i], body).compiled = 0 BY <2>1 DEF Inject, Function
  <2> QED BY <2>2, <2>3
<1> HIDE DEF fs
<1>4. ResultOk(fs, Replacing(i), lost, i, r) BY <1>2, <1>3, CompileFunctionOk
<1>5. ModuleOk(functions', code', replaced', failed', lost')
  BY <1>1, <1>4 DEF ResultOk, InjectFunction
<1>6. code' \in Seq(Code) /\ Extends(code, code') BY <1>1, <1>4 DEF ResultOk, ModuleOk, Extends
<1>7. FramesOk(frames', code', replaced', lost')
  <2>1. FramesOk(frames, code, Replacing(i), lost) BY ReplacingInv
  <2>2. replaced' = Replacing(i) /\ lost \subseteq lost' BY <1>1 DEF InjectFunction
  <2>3. FramesOk(frames, code', replaced', lost') BY <1>6, <2>1, <2>2, Types, FramesExtend
  <2> QED BY <2>3 DEF InjectFunction
<1>8. injections' \in 0 .. MaxInjections
  BY CallSitesAssumption DEF IInv, InjectFunction, Injecting
<1> QED BY <1>5, <1>7, <1>8 DEF IInv, InjectFunction

LEMMA InjectNewFunctionStep ==
  ASSUME IInv, NEW body \in Injected \cup {NULL}, InjectNewFunction(body) PROVE IInv'
<1> DEFINE i == Len(functions) + 1
           f == Inject(Zeroed, body)
           fs == Append(functions, f)
<1>0. PICK a \in Block : \E r \in CompileFunction(fs, a, i) :
        /\ array' = a /\ functions' = r.functions /\ code' = r.code
        /\ lost' = lost \cup LostBy(r, i)
  BY DEF InjectNewFunction
<1>1. PICK r \in CompileFunction(fs, a, i) :
        /\ array' = a /\ functions' = r.functions /\ code' = r.code
        /\ lost' = lost \cup LostBy(r, i)
  BY <1>0
<1>2. f \in Function /\ f.compiled = 0 /\ f.constants = 0
  BY CallSitesAssumption DEF Inject, Zeroed, Function
<1> HIDE DEF f
<1>3. /\ fs \in Seq(Function) /\ Len(fs) = i /\ fs[i] = f
      /\ \A j \in 1 .. Len(functions) : fs[j] = functions[j]
  BY <1>2, Types
<1>4. i \in 1 .. i /\ 1 .. Len(functions) \subseteq 1 .. i BY Types
<1> HIDE DEF fs
<1>5. ModuleOk(fs, code, replaced, failed, lost)
  <2>1. ASSUME NEW j \in 1 .. Len(fs) PROVE FunctionOk(fs, code, replaced, lost, j)
    <3>1. CASE j = i BY <3>1, <1>2, <1>3, Types DEF FunctionOk
    <3>2. CASE j \in 1 .. Len(functions)
      <4>1. FunctionOk(functions, code, replaced, lost, j) BY <3>2 DEF IInv, ModuleOk
      <4> QED BY <3>2, <4>1, <1>3 DEF FunctionOk
    <3> QED BY <3>1, <3>2, <1>3, Types
  <2>2. ASSUME NEW c \in 1 .. Len(code)
        PROVE  OwnerOk(fs, code, replaced, c) /\ SiteOk(fs, code, replaced, failed, c)
    <3>1. OwnerOk(functions, code, replaced, c) /\ SiteOk(functions, code, replaced, failed, c)
      BY DEF IInv, ModuleOk
    <3>2. code[c].owner.index \in Nat \ {0}
      <4>1. code[c] \in Code BY Types
      <4> QED BY <4>1 DEF Code, Pointer
    <3>3. code[c].owner.index \in 1 .. Len(functions) BY <3>1, <3>2, Types DEF OwnerOk
    <3>4. OwnerOk(fs, code, replaced, c) BY <3>1, <3>3, <1>3, <1>4 DEF OwnerOk
    <3>5. code[c].site.op # "none" => code[c].body.callee \in 1 .. Len(functions)
      BY <3>1 DEF SiteOk
    <3>6. code[c].site.code # 0 => code[c].site.op # "none" BY <3>1 DEF SiteOk, NoSite
    <3> QED BY <3>1, <3>4, <3>5, <3>6, <1>3, <1>4 DEF SiteOk
  <2> QED BY <2>1, <2>2, <1>3, <1>4, Types DEF ModuleOk
<1>6. ResultOk(fs, replaced, lost, i, r) BY <1>1, <1>2, <1>3, <1>4, <1>5, CompileFunctionOk
<1>7. ModuleOk(functions', code', replaced', failed', lost')
  BY <1>1, <1>6 DEF ResultOk, InjectNewFunction
<1>8. code' \in Seq(Code) /\ Extends(code, code') BY <1>1, <1>6 DEF ResultOk, ModuleOk, Extends
<1>9. FramesOk(frames', code', replaced', lost')
  <2>1. lost \subseteq lost' /\ FramesOk(frames, code, replaced, lost) BY <1>1 DEF IInv
  <2>2. FramesOk(frames, code', replaced, lost') BY <1>8, <2>1, Types, FramesExtend
  <2> QED BY <2>2 DEF InjectNewFunction
<1>10. injections' \in 0 .. MaxInjections
  BY CallSitesAssumption DEF IInv, InjectNewFunction, Injecting
<1> QED BY <1>1, <1>7, <1>9, <1>10 DEF IInv, InjectNewFunction

LEMMA InjectFailsStep == ASSUME IInv, InjectFails PROVE IInv'
BY CallSitesAssumption DEF IInv, InjectFails, Injecting

LEMMA Initially == Init => IInv
<1> SUFFICES ASSUME Init PROVE IInv OBVIOUS
<1> DEFINE n == Len(Declared)
<1>1. n \in Nat /\ \A i \in 1 .. n : Declared[i] \in Body \cup {NULL} BY CallSitesAssumption
<1>0. /\ array \in Block /\ code = <<>> /\ frames = <<>> /\ failed = {} /\ replaced = {}
      /\ lost = {} /\ injections = 0 /\ table0 = [e \in 1 .. Len(Table) |-> At(array, Table[e])]
  BY Zenon DEF Init
<1> DEFINE f(i) == [Zeroed EXCEPT !.wasm = Declared[i], !.imported = (Declared[i] = NULL),
                                  !.module = (Declared[i] # NULL)]
<1>2. functions = [i \in 1 .. n |-> f(i)] BY Zenon DEF Init
<1>9. \A i \in 1 .. n : f(i) \in Function /\ f(i).compiled = 0 /\ f(i).constants = 0
  <2> TAKE i \in 1 .. n
  <2>1. Zeroed \in Function BY DEF Zeroed, Function
  <2>2. (Declared[i] = NULL) \in BOOLEAN /\ (Declared[i] # NULL) \in BOOLEAN OBVIOUS
  <2> QED BY <1>1, <2>1, <2>2 DEF Zeroed, Function
<1> HIDE DEF f
<1>3. /\ functions \in Seq(Function) /\ Len(functions) = n
      /\ \A i \in 1 .. n : functions[i].compiled = 0 /\ functions[i].constants = 0
  BY <1>1, <1>2, <1>9
<1>4. code \in Seq(Code) /\ frames \in Seq(Frame) /\ Len(code) = 0 /\ Len(frames) = 0
  BY <1>0
<1>5. table0 \in Seq(Pointer)
  <2>1. \A e \in 1 .. Len(Table) : At(array, Table[e]) \in Pointer
    <3>1. \A e \in 1 .. Len(Table) : Table[e] \in 1 .. n BY CallSitesAssumption
    <3> QED BY <1>0, <1>1, <3>1 DEF At, Pointer
  <2>2. Len(Table) \in Nat BY CallSitesAssumption
  <2> QED BY <1>0, <2>1, <2>2
<1>6. \A i \in 1 .. n : FunctionOk(functions, code, replaced, lost, i)
  BY <1>3, <1>4 DEF FunctionOk
<1>7. ModuleOk(functions, code, replaced, failed, lost)
  BY <1>0, <1>3, <1>4, <1>6 DEF ModuleOk
<1>8. FramesOk(frames, code, replaced, lost) BY <1>4 DEF FramesOk
<1> QED BY <1>0, <1>5, <1>7, <1>8, CallSitesAssumption DEF IInv

LEMMA Stepwise == IInv /\ [Next]_vars => IInv'
<1> SUFFICES ASSUME IInv, [Next]_vars PROVE IInv' OBVIOUS
<1>1. CASE Call BY <1>1, CallStep
<1>2. CASE Compile BY <1>2, CompileStep
<1>3. CASE CallIndirect BY <1>3, CallIndirectStep
<1>4. CASE Return \/ Trap BY <1>4, ReturnStep
<1>5. CASE \E i \in 1 .. Len(functions) :
             \/ m3_FindFunction(i) \/ m3_Call(i) \/ m3_LinkRawFunction(i)
             \/ \E body \in Injected \cup {NULL} : InjectFunction(i, body)
  BY <1>5, FindFunctionStep, CallFromHostStep, LinkStep, InjectFunctionStep
<1>6. CASE \E body \in Injected \cup {NULL} : InjectNewFunction(body)
  BY <1>6, InjectNewFunctionStep
<1>7. CASE InjectFails BY <1>7, InjectFailsStep
<1>8. CASE UNCHANGED vars BY <1>8 DEF IInv, vars
<1> QED BY <1>1, <1>2, <1>3, <1>4, <1>5, <1>6, <1>7, <1>8 DEF Next

-----------------------------------------------------------------------------
(* Theorems                                                                *)

\* Functions and code agree, and calls hold what their operation needs, in every
\* reachable state.
THEOREM Invariance == Spec => []IInv
BY Initially, Stepwise, PTL DEF Spec

\* TypeOK holds for every module, table, bound and address of the array.
THEOREM TypeCorrect == Spec => []TypeOK
<1>1. IInv => TypeOK
  <2> SUFFICES ASSUME IInv PROVE TypeOK OBVIOUS
  <2>1. \A i \in 1 .. Len(functions) :
          functions[i].compiled <= Len(code) /\ functions[i].constants <= Len(code)
    BY DEF IInv, ModuleOk, FunctionOk
  <2>2. ASSUME NEW c \in 1 .. Len(code)
        PROVE  code[c].owner.index <= Len(functions) /\ code[c].site.code <= Len(code)
    <3>1. OwnerOk(functions, code, replaced, c) /\ SiteOk(functions, code, replaced, failed, c)
      BY DEF IInv, ModuleOk
    <3> QED BY <3>1, Types DEF OwnerOk, SiteOk
  <2> QED BY <2>1, <2>2, Types DEF IInv, FramesOk, TypeOK
<1> QED BY <1>1, Invariance, PTL

\* op_Call is never without code, except where an op_Compile has failed.
THEOREM SitesHoldCode == Spec => []CallSitesHoldCodeUnlessFailed
<1>1. IInv => CallSitesHoldCodeUnlessFailed
  BY DEF IInv, ModuleOk, SiteOk, CallSitesHoldCodeUnlessFailed, SiteHoldsCode
<1> QED BY <1>1, Invariance, PTL

\* Direct calls lead to the function that the body names, and to its current code unless
\* that was replaced.
THEOREM CallsLead == Spec => []CallsLeadToCallee
<1>1. IInv => CallsLeadToCallee
  BY DEF IInv, ModuleOk, SiteOk, CallsLeadToCallee
<1> QED BY <1>1, Invariance, PTL

\* No function is compiled twice, unless it is overwritten or linked again.
THEOREM NoSecondCompilation == Spec => []CompiledOnce
<1>1. IInv => CompiledOnce
  BY DEF IInv, ModuleOk, OwnerOk, CompiledOnce
<1> QED BY <1>1, Invariance, PTL

\* Running code has its own constants, unless it was replaced or they were lost.
THEOREM OwnConstants == Spec => []RunsWithItsConstants
<1>1. IInv => RunsWithItsConstants
  BY DEF IInv, FramesOk, RunsWithItsConstants, IsRaw
<1> QED BY <1>1, Invariance, PTL

=============================================================================
