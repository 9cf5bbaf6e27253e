----------------------------- MODULE ParserProofs -----------------------------
(***************************************************************************)
(* The inductive invariant of Parser, and the theorems that follow.        *)
(*                                                                         *)
(* Indices are right because sections are in order, so the invariant says  *)
(* what the tables hold as long as a section may still come.  Strings have *)
(* one owner because a string that is read is not one of those that are    *)
(* allocated, so the only alias is the one Function_Release looks for.     *)
(***************************************************************************)
EXTENDS Parser, FiniteSetTheorems, SequenceTheorems, WellFoundedInduction, TLAPS

Heap == [live : SUBSET String, sound : BOOLEAN, failures : Nat]

HeapOk(h) == h \in Heap /\ IsFiniteSet(h.live)

\* StringsOwnedOnce, of any strings and rows of pointers that own them.
Owned(live, ofFunctions, ofGlobals) ==
  /\ NoAlias(ofFunctions) /\ NoAlias(ofGlobals)
  /\ StringsIn(ofFunctions) \cap StringsIn(ofGlobals) = {}
  /\ StringsIn(ofFunctions) \cup StringsIn(ofGlobals) = live

OwnedBy(h, m) == h.sound /\ Owned(h.live, OwnersInFunctions(m), OwnersInGlobals(m))

\* Where the parser is among the sections, and what it has not seen yet.
OrderOk ==
  /\ \A k \in 1 .. Len(SectionsOrder) : section = SectionsOrder[k] => expected = k
  /\ Idle => expected = 0
  /\ module # NULL =>
       /\ expected <= 1 => module.functions = <<>>
       /\ expected <= 2 => module.numFuncImports = NumFunctions

\* What TablesAgree says of the functions of m, of which the imported ones have a name.
FunctionsOk(m) ==
  /\ m.numFuncImports <= Len(m.functions)
  /\ \A i \in DOMAIN m.functions :
       LET f == m.functions[i] IN
       /\ f.funcType < m.numFuncTypes
       /\ Len(f.names) <= MaxNames
       /\ i <= m.numFuncImports =>
            ~f.body /\ f.names # <<>> /\ f.names[1] = f.import.field
       /\ i > m.numFuncImports => f.import = NoImport

HasName(f, text) == \E k \in DOMAIN f.names : f.names[k] # NULL /\ f.names[k].text = text

\* Whoever is exported has the name or is full.
ExportsOk(m) ==
  \A e \in exported :
    /\ e[1] \in DOMAIN m.functions
    /\ \/ HasName(m.functions[e[1]], e[2])
       \/ Len(m.functions[e[1]].names) = MaxNames

IInv ==
  /\ TypeOK
  /\ HeapOk(heap)
  /\ OrderOk
  /\ module = NULL => exported = {} /\ heap.sound /\ heap.live = {}
  /\ module # NULL =>
       /\ module.startFunction <= NumFunctions
       /\ FunctionsOk(module) /\ ExportsOk(module) /\ OwnedBy(heap, module)

-----------------------------------------------------------------------------
(* Helpers                                                                 *)

LEMMA InRows ==
  ASSUME NEW rows, NEW s
  PROVE  s \in StringsIn(rows) <=>
           /\ s # NULL
           /\ \E i \in DOMAIN rows : \E k \in DOMAIN rows[i] : rows[i][k] = s
BY DEF StringsIn, Range

\* Among the first n + 1 numbers there is one that n strings do not use.
LEMMA FreshId ==
  ASSUME NEW live, live \subseteq String, IsFiniteSet(live)
  PROVE  \E n \in 1 .. Cardinality(live) + 1 : \A s \in live : s.id # n
<1> DEFINE N == 1 .. Cardinality(live) + 1
<1> SUFFICES ASSUME \A n \in N : \E s \in live : s.id = n
             PROVE  FALSE
  OBVIOUS
<1> DEFINE f == [n \in N |-> CHOOSE s \in live : s.id = n]
<1>1. Cardinality(live) \in Nat BY FS_CardinalityType
<1>2. IsFiniteSet(N) /\ Cardinality(N) = Cardinality(live) + 1 BY <1>1, FS_Interval
<1>3. \A n \in N : f[n] \in live /\ f[n].id = n OBVIOUS
<1>4. f \in [N -> live] BY <1>3
<1>5. Cardinality(live) < Cardinality(N) BY <1>1, <1>2
<1> HIDE DEF f, N
<1>6. PICK a, b \in N : a # b /\ f[a] = f[b] BY <1>2, <1>4, <1>5, FS_PigeonHole
<1> QED BY <1>3, <1>6

\* A string that is read is in no place yet.
LEMMA ReadString ==
  ASSUME NEW h, HeapOk(h), NEW text \in Texts \cup {NULL}
  PROVE  LET read == Read_utf8(h, text)
         IN  /\ HeapOk(read.heap)
             /\ read.string \in String \cup {NULL}
             /\ read.string = NULL <=> text = NULL
             /\ read.string # NULL => read.string.text = text
             /\ read.string \notin h.live
             /\ read.heap.live = h.live \cup ({read.string} \ {NULL})
             /\ read.heap.sound = h.sound
<1> DEFINE read == Read_utf8(h, text)
<1>1. NULL \notin h.live /\ h.live \subseteq String BY NullAssumption DEF HeapOk, Heap
<1>2. CASE text = NULL
  <2>1. read.string = NULL /\ read.heap = [h EXCEPT !.failures = @ + 1]
    BY <1>2 DEF Read_utf8
  <2>2. read.heap.live = h.live /\ read.heap.sound = h.sound /\ read.heap \in Heap
    BY <2>1 DEF HeapOk, Heap
  <2> HIDE DEF read
  <2>3. HeapOk(read.heap) BY <2>2 DEF HeapOk
  <2> QED BY <1>1, <1>2, <2>1, <2>2, <2>3 DEF read
<1>3. CASE text # NULL
  <2> DEFINE s == FreshString(h, text)
  <2>1. /\ s.id \in 1 .. Cardinality(h.live) + 1 /\ \A t \in h.live : t.id # s.id
        /\ s.text = text /\ s = [id |-> s.id, text |-> s.text]
    BY <1>1, FreshId DEF FreshString, HeapOk
  <2>2. s \in String /\ s \notin h.live
    <3>1. Cardinality(h.live) \in Nat BY FS_CardinalityType DEF HeapOk
    <3>2. s.id \in Nat \ {0} BY <2>1, <3>1
    <3> HIDE DEF s
    <3> QED BY <1>3, <2>1, <3>2 DEF String
  <2>3. read.string = s /\ read.heap = [h EXCEPT !.live = @ \cup {s}]
    BY <1>3 DEF Read_utf8
  <2> HIDE DEF s, read
  <2>4. read.heap.live = h.live \cup {s} /\ read.heap.sound = h.sound /\ read.heap \in Heap
    BY <2>2, <2>3 DEF HeapOk, Heap
  <2>5. HeapOk(read.heap) BY <2>4, FS_AddElement DEF HeapOk
  <2>6. s # NULL BY <2>2, NullAssumption
  <2> QED BY <1>3, <2>1, <2>2, <2>3, <2>4, <2>5, <2>6 DEF read
<1> QED BY <1>2, <1>3

\* Freeing what rows of pointers have.
LEMMA FreeRowsOk ==
  ASSUME NEW h, HeapOk(h), NEW rows
  PROVE  /\ HeapOk(FreeRows(h, rows))
         /\ FreeRows(h, rows).live = h.live \ StringsIn(rows)
         /\ h.sound /\ NoAlias(rows) /\ StringsIn(rows) \subseteq h.live =>
              FreeRows(h, rows).sound
<1>1. h \in Heap BY DEF HeapOk
<1> DEFINE sound == h.sound /\ NoAlias(rows) /\ StringsIn(rows) \subseteq h.live
           free == FreeRows(h, rows)
<1>2. free = [h EXCEPT !.live = h.live \ StringsIn(rows), !.sound = sound]
  BY <1>1 DEF FreeRows, Heap
<1>3. sound \in BOOLEAN OBVIOUS
<1> HIDE DEF sound, free
<1>4. free \in Heap /\ free.live = h.live \ StringsIn(rows) /\ free.sound = sound
  BY <1>1, <1>2, <1>3 DEF Heap
<1>5. IsFiniteSet(free.live) BY <1>4, FS_Subset DEF HeapOk
<1> QED BY <1>4, <1>5 DEF HeapOk, sound, free

-----------------------------------------------------------------------------
(* Rows of pointers                                                        *)

LEMMA FunctionParts ==
  ASSUME NEW f \in Function
  PROVE  /\ f.import.module \in String \cup {NULL} /\ f.import.field \in String \cup {NULL}
         /\ FreeImportInfo(f.import) \in Seq(String \cup {NULL})
         /\ Len(FreeImportInfo(f.import)) = 2
         /\ FreeImportInfo(f.import)[1] = f.import.module
         /\ FreeImportInfo(f.import)[2] = f.import.field
         /\ f.names \in Seq(String \cup {NULL}) /\ Len(f.names) \in Nat
         /\ DOMAIN f.names = 1 .. Len(f.names)
<1>1. f.import \in Import /\ f.names \in Seq(String \cup {NULL}) BY DEF Function
<1>2. f.import.module \in String \cup {NULL} /\ f.import.field \in String \cup {NULL}
  BY <1>1 DEF Import
<1>3. Len(f.names) \in Nat /\ DOMAIN f.names = 1 .. Len(f.names) BY <1>1
<1> QED BY <1>1, <1>2, <1>3 DEF FreeImportInfo

LEMMA Joined ==
  ASSUME NEW s \in Seq(String \cup {NULL}), NEW t \in Seq(String \cup {NULL})
  PROVE  /\ DOMAIN (s \o t) = 1 .. Len(s) + Len(t)
         /\ \A p \in 1 .. Len(s) + Len(t) : (s \o t)[p] = IF p <= Len(s) THEN s[p]
                                                          ELSE t[p - Len(s)]
BY ConcatProperties

LEMMA OwnersRow ==
  ASSUME NEW m \in Module, NEW i \in DOMAIN m.functions
  PROVE  LET f   == m.functions[i]
             row == OwnersInFunctions(m)[i]
         IN  /\ \A p : p \in DOMAIN row <=>
                  p \in 1 .. Len(f.names) + 2 /\ ~(p = 3 /\ i <= m.numFuncImports)
             /\ \A p \in DOMAIN row :
                  row[p] = CASE p = 1 -> f.import.module
                             [] p = 2 -> f.import.field
                             [] OTHER -> f.names[p - 2]
<1> DEFINE f == m.functions[i]
           n == Len(f.names)
           pointers == FreeImportInfo(f.import) \o f.names
           row == OwnersInFunctions(m)[i]
<1>1. f \in Function BY DEF Module
<1>2. n \in Nat BY <1>1, FunctionParts
<1>3. /\ DOMAIN pointers = 1 .. n + 2
      /\ \A p \in 1 .. n + 2 : pointers[p] = CASE p = 1 -> f.import.module
                                               [] p = 2 -> f.import.field
                                               [] OTHER -> f.names[p - 2]
  <2> DEFINE info == FreeImportInfo(f.import)
  <2>1. info \in Seq(String \cup {NULL}) /\ f.names \in Seq(String \cup {NULL})
        /\ Len(info) = 2 /\ info[1] = f.import.module /\ info[2] = f.import.field
    BY <1>1, FunctionParts
  <2> HIDE DEF f, info
  <2>2. /\ DOMAIN (info \o f.names) = 1 .. Len(info) + n
        /\ \A p \in 1 .. Len(info) + n :
             (info \o f.names)[p] = IF p <= Len(info) THEN info[p]
                                                      ELSE f.names[p - Len(info)]
    BY <2>1, Joined
  <2> HIDE DEF n
  <2>3. DOMAIN pointers = 1 .. n + 2 BY <1>2, <2>1, <2>2 DEF info
  <2>4. ASSUME NEW p \in 1 .. n + 2
        PROVE  pointers[p] = IF p <= 2 THEN info[p] ELSE f.names[p - 2]
    <3>1. p \in 1 .. Len(info) + n BY <1>2, <2>1
    <3>2. (info \o f.names)[p] = IF p <= 2 THEN info[p] ELSE f.names[p - 2]
      BY <2>1, <2>2, <3>1
    <3> QED BY <3>2 DEF info
  <2> HIDE DEF pointers
  <2> QED BY <1>2, <2>1, <2>3, <2>4
<1>4. row = IF i <= m.numFuncImports THEN Restrict(pointers, DOMAIN pointers \ {3})
                                     ELSE pointers
  BY DEF OwnersInFunctions
<1> HIDE DEF pointers, f, row
<1>5. CASE i <= m.numFuncImports
  <2>1. row = [p \in (1 .. n + 2) \ {3} |-> pointers[p]] BY <1>3, <1>4, <1>5 DEF Restrict
  <2> QED BY <1>2, <1>3, <1>5, <2>1 DEF row, f
<1>6. CASE ~(i <= m.numFuncImports)
  BY <1>2, <1>3, <1>4, <1>6 DEF row, f
<1> QED BY <1>5, <1>6

LEMMA ReleaseRow ==
  ASSUME NEW f \in Function
  PROVE  LET row == Function_Release(f)
             n   == Len(f.names)
         IN  /\ \A p : p \in DOMAIN row <=>
                  p \in 1 .. n + 2 /\ ~(p <= n /\ f.names[p] = f.import.field)
             /\ \A p \in DOMAIN row :
                  row[p] = CASE p <= n     -> f.names[p]
                             [] p = n + 1  -> f.import.module
                             [] OTHER      -> f.import.field
<1> DEFINE n == Len(f.names)
           pointers == f.names \o FreeImportInfo(f.import)
           aliases == {k \in DOMAIN f.names : f.names[k] = f.import.field}
           row == Function_Release(f)
<1>1. n \in Nat BY FunctionParts
<1>2. /\ DOMAIN pointers = 1 .. n + 2
      /\ \A p \in 1 .. n + 2 : pointers[p] = CASE p <= n    -> f.names[p]
                                               [] p = n + 1 -> f.import.module
                                               [] OTHER     -> f.import.field
  <2> DEFINE info == FreeImportInfo(f.import)
  <2>1. info \in Seq(String \cup {NULL}) /\ f.names \in Seq(String \cup {NULL})
        /\ Len(info) = 2 /\ info[1] = f.import.module /\ info[2] = f.import.field
    BY FunctionParts
  <2> HIDE DEF info
  <2>2. /\ DOMAIN (f.names \o info) = 1 .. n + Len(info)
        /\ \A p \in 1 .. n + Len(info) :
             (f.names \o info)[p] = IF p <= n THEN f.names[p] ELSE info[p - n]
    BY <2>1, Joined
  <2> HIDE DEF n
  <2>3. DOMAIN pointers = 1 .. n + 2 BY <1>1, <2>1, <2>2 DEF info
  <2>4. ASSUME NEW p \in 1 .. n + 2
        PROVE  pointers[p] = IF p <= n THEN f.names[p] ELSE info[p - n]
    BY <1>1, <2>1, <2>2 DEF info
  <2> HIDE DEF pointers
  <2>5. (n + 1) - n = 1 /\ (n + 2) - n = 2 BY <1>1
  <2>6. \A p \in 1 .. n + 2 : p <= n \/ p = n + 1 \/ p = n + 2 BY <1>1
  <2> QED BY <1>1, <2>1, <2>3, <2>4, <2>5, <2>6
<1>3. row = [p \in DOMAIN pointers \ aliases |-> pointers[p]]
  BY DEF Function_Release, Restrict
<1>4. \A p : p \in aliases <=> p \in 1 .. n /\ f.names[p] = f.import.field
  BY FunctionParts
<1> HIDE DEF pointers, aliases, row
<1> QED BY <1>1, <1>2, <1>3, <1>4 DEF row

LEMMA GlobalRow ==
  ASSUME NEW m \in Module, NEW i \in DOMAIN m.globals
  PROVE  LET g == m.globals[i]
         IN  /\ OwnersInGlobals(m)[i] = <<g.name, g.import.module, g.import.field>>
             /\ g.name \in String \cup {NULL}
             /\ g.import.module \in String \cup {NULL}
             /\ g.import.field \in String \cup {NULL}
<1>1. m.globals[i] \in Global BY DEF Module
<1>2. m.globals[i].import \in Import /\ m.globals[i].name \in String \cup {NULL}
  BY <1>1 DEF Global
<1> QED BY <1>1, <1>2 DEF Import, OwnersInGlobals, Global_Release

LEMMA OwnersRows ==
  ASSUME NEW m \in Module
  PROVE  /\ DOMAIN OwnersInFunctions(m) = 1 .. Len(m.functions) /\ Len(m.functions) \in Nat
         /\ DOMAIN m.functions = 1 .. Len(m.functions)
         /\ DOMAIN OwnersInGlobals(m) = 1 .. Len(m.globals) /\ Len(m.globals) \in Nat
         /\ DOMAIN m.globals = 1 .. Len(m.globals)
         /\ \A i \in DOMAIN m.functions : m.functions[i] \in Function
<1>1. m.functions \in Seq(Function) /\ m.globals \in Seq(Global) BY DEF Module
<1>2. /\ DOMAIN m.functions = 1 .. Len(m.functions) /\ Len(m.functions) \in Nat
      /\ DOMAIN m.globals = 1 .. Len(m.globals) /\ Len(m.globals) \in Nat
      /\ \A i \in DOMAIN m.functions : m.functions[i] \in Function
  BY <1>1
<1> QED BY <1>2 DEF OwnersInFunctions, OwnersInGlobals

\* What is released are the strings that the module owns, each of them once.
LEMMA Released ==
  ASSUME NEW m \in Module, FunctionsOk(m), NoAlias(OwnersInFunctions(m))
  PROVE  LET rows == [i \in DOMAIN m.functions |-> Function_Release(m.functions[i])]
         IN  NoAlias(rows) /\ StringsIn(rows) = StringsIn(OwnersInFunctions(m))
<1> DEFINE rows == [i \in DOMAIN m.functions |-> Function_Release(m.functions[i])]
           owners == OwnersInFunctions(m)
           n(i) == Len(m.functions[i].names)
           At(i, k) == IF k <= n(i) THEN k + 2 ELSE k - n(i)
<1>1. DOMAIN rows = DOMAIN m.functions /\ DOMAIN owners = DOMAIN m.functions
  BY OwnersRows
<1>2. ASSUME NEW i \in DOMAIN m.functions
      PROVE  /\ n(i) \in Nat
             /\ \A k \in DOMAIN rows[i] : rows[i][k] # NULL =>
                  /\ k \in 1 .. n(i) + 2
                  /\ At(i, k) \in DOMAIN owners[i] /\ owners[i][At(i, k)] = rows[i][k]
             /\ \A p \in DOMAIN owners[i] : owners[i][p] # NULL =>
                  \E k \in DOMAIN rows[i] : rows[i][k] = owners[i][p]
  <2> DEFINE f == m.functions[i]
             row == Function_Release(f)
             own == owners[i]
  <2>1. f \in Function /\ n(i) \in Nat /\ DOMAIN f.names = 1 .. n(i)
    BY OwnersRows, FunctionParts
  <2>2. /\ \A p : p \in DOMAIN row <=>
             p \in 1 .. n(i) + 2 /\ ~(p <= n(i) /\ f.names[p] = f.import.field)
        /\ \A p \in DOMAIN row : row[p] = CASE p <= n(i)     -> f.names[p]
                                            [] p = n(i) + 1  -> f.import.module
                                            [] OTHER         -> f.import.field
    BY <2>1, ReleaseRow
  <2>3. /\ \A p : p \in DOMAIN own <=>
             p \in 1 .. n(i) + 2 /\ ~(p = 3 /\ i <= m.numFuncImports)
        /\ \A p \in DOMAIN own : own[p] = CASE p = 1 -> f.import.module
                                            [] p = 2 -> f.import.field
                                            [] OTHER -> f.names[p - 2]
    BY OwnersRow
  <2>4. /\ i <= m.numFuncImports => f.names # <<>> /\ f.names[1] = f.import.field
        /\ ~(i <= m.numFuncImports) => f.import = NoImport
    <3>1. i \in Nat /\ m.numFuncImports \in Nat
      <4>1. i \in 1 .. Len(m.functions) /\ Len(m.functions) \in Nat BY OwnersRows
      <4>2. m.numFuncImports \in Nat BY DEF Module
      <4> QED BY <4>1, <4>2
    <3> QED BY <3>1 DEF FunctionsOk
  <2>5. \A p, q \in DOMAIN own : own[p] = own[q] /\ own[p] # NULL => p = q
    BY <1>1 DEF NoAlias
  <2>6. rows[i] = row OBVIOUS
  <2>7. ~(i <= m.numFuncImports) => f.import.field = NULL BY <2>4 DEF NoImport
  <2> HIDE DEF f, row, own, n, rows, owners
  <2>8. ASSUME NEW k \in DOMAIN row, row[k] # NULL
        PROVE  At(i, k) \in DOMAIN own /\ own[At(i, k)] = row[k] /\ k \in 1 .. n(i) + 2
    <3>1. CASE k <= n(i)
      <4>1. k \in 1 .. n(i) /\ f.names[k] # f.import.field /\ row[k] = f.names[k]
        BY <2>1, <2>2, <2>8, <3>1
      <4>2. ~(k = 1 /\ i <= m.numFuncImports) BY <2>4, <4>1
      <4>3. k + 2 \in DOMAIN own /\ (k + 2) - 2 = k
        <5>1. k + 2 \in 1 .. n(i) + 2 /\ (k + 2 = 3 => k = 1) /\ (k + 2) - 2 = k
          BY <2>1, <4>1
        <5> QED BY <2>3, <4>2, <5>1
      <4>4. own[k + 2] = f.names[k] BY <2>1, <2>3, <4>1, <4>3
      <4> QED BY <2>1, <2>2, <3>1, <4>1, <4>3, <4>4
    <3>2. CASE k = n(i) + 1
      <4>1. k - n(i) = 1 /\ ~(k <= n(i)) BY <2>1, <3>2
      <4>2. 1 \in DOMAIN own /\ own[1] = f.import.module BY <2>1, <2>3
      <4> QED BY <2>1, <2>2, <3>2, <4>1, <4>2
    <3>3. CASE k = n(i) + 2
      <4>1. k - n(i) = 2 /\ ~(k <= n(i)) /\ k # n(i) + 1 BY <2>1, <3>3
      <4>2. 2 \in DOMAIN own /\ own[2] = f.import.field BY <2>1, <2>3
      <4> QED BY <2>1, <2>2, <3>3, <4>1, <4>2
    <3>4. k \in 1 .. n(i) + 2 BY <2>2
    <3> QED BY <2>1, <3>1, <3>2, <3>3, <3>4
  <2>9. ASSUME NEW p \in DOMAIN own, own[p] # NULL
        PROVE  \E k \in DOMAIN row : row[k] = own[p]
    <3>1. CASE p = 1
      <4>1. n(i) + 1 \in DOMAIN row /\ row[n(i) + 1] = f.import.module BY <2>1, <2>2
      <4> QED BY <2>3, <3>1, <4>1
    <3>2. CASE p = 2
      <4>1. n(i) + 2 \in DOMAIN row /\ row[n(i) + 2] = f.import.field BY <2>1, <2>2
      <4> QED BY <2>3, <3>2, <4>1
    <3>3. CASE p # 1 /\ p # 2
      <4>1. p - 2 \in 1 .. n(i) /\ own[p] = f.names[p - 2] BY <2>1, <2>3, <3>3
      <4>2. 2 \in DOMAIN own /\ own[2] = f.import.field BY <2>1, <2>3
      <4>3. f.names[p - 2] # f.import.field BY <2>5, <2>9, <3>3, <4>1, <4>2
      <4>4. p - 2 \in DOMAIN row /\ row[p - 2] = f.names[p - 2] BY <2>1, <2>2, <4>1, <4>3
      <4> QED BY <4>1, <4>4
    <3> QED BY <3>1, <3>2, <3>3
  <2> QED BY <2>1, <2>6, <2>8, <2>9 DEF own
<1>3. NoAlias(owners) OBVIOUS
<1> HIDE DEF rows, owners, n
<1>4. NoAlias(rows)
  <2> SUFFICES ASSUME NEW i \in DOMAIN rows, NEW k \in DOMAIN rows[i], rows[i][k] # NULL,
                      NEW j \in DOMAIN rows, NEW l \in DOMAIN rows[j],
                      rows[i][k] = rows[j][l]
               PROVE  i = j /\ k = l
    BY DEF NoAlias
  <2>1. /\ k \in 1 .. n(i) + 2 /\ l \in 1 .. n(j) + 2 /\ n(i) \in Nat /\ n(j) \in Nat
        /\ At(i, k) \in DOMAIN owners[i] /\ owners[i][At(i, k)] = rows[i][k]
        /\ At(j, l) \in DOMAIN owners[j] /\ owners[j][At(j, l)] = rows[j][l]
    BY <1>1, <1>2
  <2>2. i = j /\ At(i, k) = At(j, l)
    <3> HIDE DEF At
    <3> QED BY <1>1, <1>3, <2>1 DEF NoAlias
  <2> QED BY <2>1, <2>2
<1>5. StringsIn(rows) = StringsIn(owners)
  <2>1. \A s : s \in StringsIn(rows) => s \in StringsIn(owners) BY <1>1, <1>2, InRows
  <2>2. \A s : s \in StringsIn(owners) => s \in StringsIn(rows) BY <1>1, <1>2, InRows
  <2> QED BY <2>1, <2>2
<1> QED BY <1>4, <1>5 DEF rows, owners

\* Freeing a module frees what it owns.
LEMMA FreeModuleOk ==
  ASSUME NEW h, HeapOk(h), NEW m \in Module, FunctionsOk(m), OwnedBy(h, m)
  PROVE  /\ HeapOk(m3_FreeModule(h, m))
         /\ m3_FreeModule(h, m).live = {} /\ m3_FreeModule(h, m).sound
<1> DEFINE functions == [i \in DOMAIN m.functions |-> Function_Release(m.functions[i])]
           globals == [i \in DOMAIN m.globals |-> Global_Release(m.globals[i])]
           first == FreeRows(h, functions)
           second == FreeRows(first, globals)
<1>1. NoAlias(functions) /\ StringsIn(functions) = StringsIn(OwnersInFunctions(m))
  BY Released DEF OwnedBy, Owned
<1>2. globals = OwnersInGlobals(m) BY DEF OwnersInGlobals
<1>3. m3_FreeModule(h, m) = second BY DEF m3_FreeModule
<1> HIDE DEF functions, globals
<1>4. /\ h.sound /\ NoAlias(globals)
      /\ StringsIn(functions) \cap StringsIn(globals) = {}
      /\ StringsIn(functions) \cup StringsIn(globals) = h.live
  BY <1>1, <1>2 DEF OwnedBy, Owned
<1>5. HeapOk(first) /\ first.live = StringsIn(globals) /\ first.sound
  <2>1. HeapOk(first) /\ first.live = h.live \ StringsIn(functions) BY FreeRowsOk
  <2>2. first.sound BY <1>1, <1>4, FreeRowsOk
  <2> QED BY <1>4, <2>1, <2>2
<1> HIDE DEF first
<1>6. HeapOk(second) /\ second.live = {} /\ second.sound
  BY <1>4, <1>5, FreeRowsOk
<1> QED BY <1>3, <1>6

LEMMA OwnedSwaps ==
  ASSUME NEW live, NEW F, NEW G, Owned(live, F, G)
  PROVE  Owned(live, G, F)
BY DEF Owned

\* Rows whose further pointers are to new strings, one to each.
LEMMA OwnMore ==
  ASSUME NEW live, NEW F, NEW G, Owned(live, F, G), NEW more, NEW new,
         new \cap live = {}, NULL \notin new,
         \A i \in DOMAIN F : i \in DOMAIN more
           /\ \A k \in DOMAIN F[i] : k \in DOMAIN more[i] /\ more[i][k] = F[i][k],
         \A i \in DOMAIN more : \A k \in DOMAIN more[i] :
           ~(i \in DOMAIN F /\ k \in DOMAIN F[i]) => more[i][k] \in new \cup {NULL},
         \A i, j \in DOMAIN more : \A k \in DOMAIN more[i], l \in DOMAIN more[j] :
           more[i][k] \in new /\ more[i][k] = more[j][l] => i = j /\ k = l,
         \A s \in new : \E i \in DOMAIN more : \E k \in DOMAIN more[i] : more[i][k] = s
  PROVE  Owned(live \cup new, more, G)
<1>1. NoAlias(F) /\ NoAlias(G) /\ StringsIn(F) \cap StringsIn(G) = {}
      /\ StringsIn(F) \cup StringsIn(G) = live
  BY DEF Owned
<1>2. \A i \in DOMAIN F : \A k \in DOMAIN F[i] : F[i][k] # NULL => F[i][k] \in StringsIn(F)
  BY InRows
<1>3. StringsIn(more) = StringsIn(F) \cup new
  <2>1. \A s : s \in StringsIn(more) => s \in StringsIn(F) \/ s \in new
    BY <1>2, InRows
  <2>2. \A s : s \in StringsIn(F) => s \in StringsIn(more) BY InRows
  <2>3. \A s : s \in new => s \in StringsIn(more) BY InRows
  <2> QED BY <2>1, <2>2, <2>3
<1>4. NoAlias(more)
  <2> SUFFICES ASSUME NEW i \in DOMAIN more, NEW k \in DOMAIN more[i], more[i][k] # NULL,
                      NEW j \in DOMAIN more, NEW l \in DOMAIN more[j],
                      more[i][k] = more[j][l]
               PROVE  i = j /\ k = l
    BY DEF NoAlias
  <2>1. CASE more[i][k] \in new BY <2>1
  <2>2. CASE more[i][k] \notin new
    <3>1. i \in DOMAIN F /\ k \in DOMAIN F[i] /\ j \in DOMAIN F /\ l \in DOMAIN F[j]
      BY <2>2
    <3>2. more[i][k] = F[i][k] /\ more[j][l] = F[j][l] BY <3>1
    <3>3. F[i][k] # NULL /\ F[i][k] = F[j][l] BY <3>2
    <3> QED BY <1>1, <3>1, <3>3 DEF NoAlias
  <2> QED BY <2>1, <2>2
<1>5. StringsIn(more) \cap StringsIn(G) = {}
      /\ StringsIn(more) \cup StringsIn(G) = live \cup new
  BY <1>1, <1>3
<1> QED BY <1>1, <1>4, <1>5 DEF Owned

-----------------------------------------------------------------------------
(* What is read, kept and dropped                                          *)

\* The two strings of an import, and freeing them again.
LEMMA ReadImport ==
  ASSUME HeapOk(heap), NEW m \in Texts \cup {NULL}, NEW f \in Texts \cup {NULL}
  PROVE  LET read == ImportStrings(m, f)
             new  == {read.import.module, read.import.field} \ {NULL}
             back == Free(read.heap, FreeImportInfo(read.import))
         IN  /\ HeapOk(read.heap) /\ read.heap.live = heap.live \cup new
             /\ read.heap.sound = heap.sound
             /\ read.import \in Import /\ new \cap heap.live = {}
             /\ read.import.module = read.import.field => read.import.field = NULL
             /\ HeapOk(back) /\ back.live = heap.live
             /\ heap.sound => back.sound
<1> DEFINE a == Read_utf8(heap, m)
           b == Read_utf8(a.heap, f)
           read == ImportStrings(m, f)
           new == {a.string, b.string} \ {NULL}
           row == <<a.string, b.string>>
           back == FreeRows(b.heap, <<row>>)
<1>1. /\ HeapOk(a.heap) /\ a.string \in String \cup {NULL} /\ a.string \notin heap.live
      /\ a.heap.live = heap.live \cup ({a.string} \ {NULL}) /\ a.heap.sound = heap.sound
  BY ReadString
<1>2. /\ HeapOk(b.heap) /\ b.string \in String \cup {NULL} /\ b.string \notin a.heap.live
      /\ b.heap.live = a.heap.live \cup ({b.string} \ {NULL}) /\ b.heap.sound = a.heap.sound
  BY <1>1, ReadString
<1>3. read = [import |-> [module |-> a.string, field |-> b.string], heap |-> b.heap]
      /\ Free(read.heap, FreeImportInfo(read.import)) = back
  BY DEF ImportStrings, Free, FreeImportInfo
<1> HIDE DEF a, b, read
<1>4. read.heap = b.heap /\ read.import.module = a.string /\ read.import.field = b.string
      /\ read.import \in Import
  BY <1>1, <1>2, <1>3 DEF Import
<1>5. a.string = b.string => b.string = NULL BY <1>1, <1>2
<1>6. b.heap.live = heap.live \cup new /\ new \cap heap.live = {} BY <1>1, <1>2
<1>7. StringsIn(<<row>>) = new
  <2>1. \A s : s \in StringsIn(<<row>>) <=> s # NULL /\ (s = row[1] \/ s = row[2])
    <3>1. DOMAIN <<row>> = {1} /\ <<row>>[1] = row /\ DOMAIN row = {1, 2} OBVIOUS
    <3> HIDE DEF row
    <3> QED BY <3>1, InRows
  <2> QED BY <2>1
<1>8. NoAlias(<<row>>)
  <2>1. DOMAIN <<row>> = {1} /\ <<row>>[1] = row /\ DOMAIN row = {1, 2}
        /\ (row[1] = row[2] => row[1] = NULL)
    BY <1>5
  <2> HIDE DEF row
  <2> QED BY <2>1 DEF NoAlias
<1>9. HeapOk(back) /\ back.live = heap.live /\ (heap.sound => back.sound)
  <2>1. HeapOk(back) /\ back.live = b.heap.live \ new
        /\ (b.heap.sound /\ new \subseteq b.heap.live => back.sound)
    BY <1>2, <1>7, <1>8, FreeRowsOk
  <2> QED BY <1>1, <1>2, <1>6, <2>1
<1> HIDE DEF back
<1>10. /\ {read.import.module, read.import.field} \ {NULL} = new
       /\ read.import.module = read.import.field => read.import.field = NULL
       /\ read.heap.sound = heap.sound /\ HeapOk(read.heap)
       /\ read.heap.live = heap.live \cup new
  BY <1>1, <1>2, <1>4, <1>5, <1>6
<1> QED BY <1>3, <1>4, <1>6, <1>9, <1>10 DEF read

\* The string of a name, and freeing it again.
LEMMA ReadName ==
  ASSUME HeapOk(heap), NEW text \in Texts \cup {NULL}
  PROVE  LET read == Read_utf8(heap, text)
             back == Free(read.heap, <<read.string>>)
         IN  /\ HeapOk(back) /\ back.live = heap.live
             /\ heap.sound => back.sound
<1> DEFINE read == Read_utf8(heap, text)
           new == {read.string} \ {NULL}
           rows == <<<<read.string>>>>
           back == FreeRows(read.heap, rows)
<1>1. HeapOk(read.heap) /\ read.string \notin heap.live
      /\ read.heap.live = heap.live \cup new /\ read.heap.sound = heap.sound
  BY ReadString
<1>2. Free(read.heap, <<read.string>>) = back BY DEF Free
<1> HIDE DEF read
<1>3. DOMAIN rows = {1} /\ DOMAIN rows[1] = {1} /\ rows[1][1] = read.string OBVIOUS
<1> HIDE DEF rows
<1>4. \A s : s \in StringsIn(rows) <=> s # NULL /\ s = read.string BY <1>3, InRows
<1>5. StringsIn(rows) = new BY <1>4
<1>6. NoAlias(rows) BY <1>3 DEF NoAlias
<1>7. HeapOk(back) /\ back.live = read.heap.live \ new BY <1>1, <1>5, FreeRowsOk
<1>8. read.heap.sound /\ new \subseteq read.heap.live => back.sound
  BY <1>1, <1>5, <1>6, FreeRowsOk
<1> HIDE DEF back
<1> QED BY <1>1, <1>2, <1>7, <1>8 DEF read

\* A function that is added, and counted if it is imported.
Added(m, type, import, isImport) ==
  IF isImport THEN [AddFunction(m, type, import, TRUE) EXCEPT !.numFuncImports = @ + 1]
              ELSE AddFunction(m, type, import, FALSE)

LEMMA FunctionAdded ==
  ASSUME NEW m \in Module, FunctionsOk(m), NEW type \in Nat, type < m.numFuncTypes,
         NEW import \in Import, NEW isImport \in BOOLEAN,
         isImport => m.numFuncImports = Len(m.functions), ~isImport => import = NoImport
  PROVE  LET more == Added(m, type, import, isImport)
             n    == Len(m.functions)
         IN  /\ more \in Module /\ FunctionsOk(more)
             /\ Len(more.functions) = n + 1 /\ more.globals = m.globals
             /\ more.startFunction = m.startFunction
             /\ more.numFuncImports = IF isImport THEN n + 1 ELSE m.numFuncImports
             /\ \A i \in 1 .. n : more.functions[i] = m.functions[i]
             /\ more.functions[n + 1].import = import
             /\ Len(more.functions[n + 1].names) = IF isImport THEN 1 ELSE 0
<1> DEFINE n == Len(m.functions)
           f == [funcType |-> type, import |-> import, body |-> FALSE,
                 names |-> IF isImport THEN <<import.field>> ELSE <<>>]
           imports == IF isImport THEN n + 1 ELSE m.numFuncImports
           more == Added(m, type, import, isImport)
<1>1. /\ m.functions \in Seq(Function) /\ m.numFuncImports \in Nat /\ m.numFuncTypes \in Nat
      /\ m.globals \in Seq(Global) /\ m.startFunction \in Nat
      /\ m = [numFuncTypes |-> m.numFuncTypes, numFuncImports |-> m.numFuncImports,
              functions |-> m.functions, globals |-> m.globals,
              startFunction |-> m.startFunction]
  BY DEF Module
<1>2. n \in Nat /\ DOMAIN m.functions = 1 .. n BY <1>1
<1>3. f \in Function /\ f.import = import /\ f.funcType = type /\ f.body = FALSE
      /\ Len(f.names) = (IF isImport THEN 1 ELSE 0)
      /\ (isImport => f.names # <<>> /\ f.names[1] = import.field)
  <2>1. CASE isImport
    <3>1. import.field \in String \cup {NULL} BY DEF Import
    <3>2. <<import.field>> \in Seq(String \cup {NULL}) /\ Len(<<import.field>>) = 1
          /\ <<import.field>> # <<>> /\ <<import.field>>[1] = import.field
      BY <3>1
    <3> QED BY <2>1, <3>2 DEF Function
  <2>2. CASE ~isImport
    <3>1. <<>> \in Seq(String \cup {NULL}) /\ Len(<<>>) = 0 OBVIOUS
    <3> QED BY <2>2, <3>1 DEF Function
  <2> QED BY <2>1, <2>2
<1> HIDE DEF f
<1>4. more = [numFuncTypes |-> m.numFuncTypes, numFuncImports |-> imports,
              functions |-> Append(m.functions, f), globals |-> m.globals,
              startFunction |-> m.startFunction]
  <2>1. CASE isImport BY <1>1, <1>2, <2>1 DEF Added, AddFunction, f
  <2>2. CASE ~isImport BY <1>1, <1>2, <2>2 DEF Added, AddFunction, f
  <2> QED BY <2>1, <2>2
<1>5. /\ Append(m.functions, f) \in Seq(Function) /\ Len(Append(m.functions, f)) = n + 1
      /\ \A i \in 1 .. n : Append(m.functions, f)[i] = m.functions[i]
      /\ Append(m.functions, f)[n + 1] = f
  BY <1>1, <1>3
<1> DEFINE functions == Append(m.functions, f)
<1>6. imports \in Nat /\ imports <= n + 1 /\ m.numFuncImports <= n
  BY <1>1, <1>2 DEF FunctionsOk
<1> HIDE DEF more, functions
<1>7. /\ more.functions = functions /\ more.numFuncImports = imports
      /\ more.globals = m.globals /\ more.startFunction = m.startFunction
      /\ more.numFuncTypes = m.numFuncTypes
  BY <1>4 DEF functions
<1>8. more \in Module
  <2> HIDE DEF imports
  <2> QED BY <1>1, <1>4, <1>5, <1>6 DEF Module, functions
<1>9. FunctionsOk(more)
  <2>1. DOMAIN functions = 1 .. n + 1 BY <1>2, <1>5 DEF functions
  <2>2. ASSUME NEW i \in 1 .. n + 1
        PROVE  /\ functions[i].funcType < m.numFuncTypes
               /\ Len(functions[i].names) <= MaxNames
               /\ i <= imports => ~functions[i].body /\ functions[i].names # <<>>
                                  /\ functions[i].names[1] = functions[i].import.field
               /\ i > imports => functions[i].import = NoImport
    <3>1. CASE i \in 1 .. n
      <4>1. functions[i] = m.functions[i] BY <1>5, <3>1 DEF functions
      <4>2. (i <= imports => i <= m.numFuncImports) /\ (i > imports => i > m.numFuncImports)
        BY <1>1, <1>2, <1>6, <3>1
      <4> QED BY <1>2, <3>1, <4>1, <4>2 DEF FunctionsOk
    <3>2. CASE i = n + 1
      <4>1. functions[i] = f BY <1>5, <3>2 DEF functions
      <4>2. (i <= imports => isImport) /\ (i > imports => ~isImport) BY <1>2, <1>6, <3>2
      <4>3. MaxNames \in Nat /\ MaxNames >= 1 BY ParserAssumption
      <4> QED BY <1>3, <4>1, <4>2, <4>3
    <3> QED BY <1>2, <3>1, <3>2
  <2>3. Len(functions) = n + 1 BY <1>5 DEF functions
  <2> HIDE DEF imports
  <2> QED BY <1>6, <1>7, <2>1, <2>2, <2>3 DEF FunctionsOk
<1> QED BY <1>3, <1>5, <1>7, <1>8, <1>9 DEF functions, more

\* It owns the strings of its import.
LEMMA FunctionOwns ==
  ASSUME NEW m \in Module, NEW more \in Module, NEW live,
         Owned(live, OwnersInFunctions(m), OwnersInGlobals(m)),
         more.globals = m.globals, Len(more.functions) = Len(m.functions) + 1,
         \A i \in 1 .. Len(m.functions) :
           /\ more.functions[i] = m.functions[i]
           /\ i <= m.numFuncImports <=> i <= more.numFuncImports,
         LET f == more.functions[Len(more.functions)]
             new == {f.import.module, f.import.field} \ {NULL}
         IN  /\ new \cap live = {}
             /\ f.import.module = f.import.field => f.import.field = NULL
             /\ \/ Len(f.names) = 0
                \/ Len(f.names) = 1 /\ more.numFuncImports = Len(more.functions)
  PROVE  LET f == more.functions[Len(more.functions)]
             new == {f.import.module, f.import.field} \ {NULL}
         IN  Owned(live \cup new, OwnersInFunctions(more), OwnersInGlobals(more))
<1> DEFINE n == Len(m.functions)
           f == more.functions[n + 1]
           new == {f.import.module, f.import.field} \ {NULL}
           F == OwnersInFunctions(m)
           M == OwnersInFunctions(more)
<1>1. /\ n \in Nat /\ DOMAIN F = 1 .. n /\ DOMAIN m.functions = 1 .. n
      /\ DOMAIN M = 1 .. n + 1 /\ DOMAIN more.functions = 1 .. n + 1
      /\ Len(more.functions) = n + 1
  BY OwnersRows
<1>2. OwnersInGlobals(more) = OwnersInGlobals(m) BY DEF OwnersInGlobals
<1>3. ASSUME NEW i \in 1 .. n
      PROVE  F[i] = M[i]
  <2>1. i \in DOMAIN m.functions /\ i \in DOMAIN more.functions BY <1>1
  <2>2. /\ more.functions[i] = m.functions[i]
        /\ i <= m.numFuncImports <=> i <= more.numFuncImports
    OBVIOUS
  <2> HIDE DEF n
  <2>3. F[i] = LET g == m.functions[i]
                   pointers == FreeImportInfo(g.import) \o g.names
               IN  IF i <= m.numFuncImports THEN Restrict(pointers, DOMAIN pointers \ {3})
                                            ELSE pointers
    BY <2>1 DEF OwnersInFunctions
  <2>4. M[i] = LET g == more.functions[i]
                   pointers == FreeImportInfo(g.import) \o g.names
               IN  IF i <= more.numFuncImports THEN Restrict(pointers, DOMAIN pointers \ {3})
                                               ELSE pointers
    BY <2>1 DEF OwnersInFunctions
  <2> HIDE DEF F, M
  <2> QED BY <2>2, <2>3, <2>4
<1>4. DOMAIN M[n + 1] = {1, 2} /\ M[n + 1][1] = f.import.module
      /\ M[n + 1][2] = f.import.field
  <2>1. n + 1 \in DOMAIN more.functions BY <1>1
  <2>2. /\ \A p : p \in DOMAIN M[n + 1] <=>
             p \in 1 .. Len(f.names) + 2 /\ ~(p = 3 /\ n + 1 <= more.numFuncImports)
        /\ \A p \in DOMAIN M[n + 1] : M[n + 1][p] = CASE p = 1 -> f.import.module
                                                      [] p = 2 -> f.import.field
                                                      [] OTHER -> f.names[p - 2]
    BY <2>1, OwnersRow
  <2>3. /\ n + 1 \in Nat
        /\ Len(f.names) = 0 \/ (Len(f.names) = 1 /\ n + 1 <= more.numFuncImports)
    BY <1>1
  <2> HIDE DEF f, M, n
  <2>4. \A p : p \in DOMAIN M[n + 1] <=> p \in {1, 2}
    <3>1. CASE Len(f.names) = 0
      <4>1. 1 .. Len(f.names) + 2 = {1, 2} BY <3>1
      <4> QED BY <2>2, <4>1
    <3>2. CASE Len(f.names) = 1 /\ n + 1 <= more.numFuncImports
      <4>1. 1 .. Len(f.names) + 2 = {1, 2, 3} BY <3>2
      <4> QED BY <2>2, <3>2, <4>1
    <3> QED BY <2>3, <3>1, <3>2
  <2>5. DOMAIN M[n + 1] = {1, 2} BY <2>4
  <2> QED BY <2>2, <2>5
<1>5. new \cap live = {} /\ NULL \notin new
      /\ (f.import.module = f.import.field => f.import.field = NULL)
  BY <1>1
<1> HIDE DEF n, f, F, M
<1>6. \A i \in DOMAIN F : i \in DOMAIN M
         /\ \A k \in DOMAIN F[i] : k \in DOMAIN M[i] /\ M[i][k] = F[i][k]
  BY <1>1, <1>3
<1>7. \A i \in DOMAIN M : \A k \in DOMAIN M[i] :
        ~(i \in DOMAIN F /\ k \in DOMAIN F[i]) =>
          /\ i = n + 1 /\ k \in {1, 2} /\ M[i][k] \in new \cup {NULL}
  <2>1. \A i \in DOMAIN M : i \in 1 .. n \/ i = n + 1 BY <1>1
  <2> QED BY <1>1, <1>3, <1>4, <2>1
<1>8. \A i \in DOMAIN F : \A k \in DOMAIN F[i] : F[i][k] \notin new
  <2>1. \A s \in new : s # NULL /\ s \notin StringsIn(F) BY <1>5 DEF Owned, F
  <2> QED BY <2>1, InRows
<1>9. \A i, j \in DOMAIN M : \A k \in DOMAIN M[i], l \in DOMAIN M[j] :
        M[i][k] \in new /\ M[i][k] = M[j][l] => i = j /\ k = l
  <2>1. \A i \in DOMAIN M : \A k \in DOMAIN M[i] : M[i][k] \in new =>
          i = n + 1 /\ k \in {1, 2}
    BY <1>6, <1>7, <1>8
  <2> QED BY <1>4, <1>5, <2>1
<1>10. \A s \in new : \E i \in DOMAIN M : \E k \in DOMAIN M[i] : M[i][k] = s
  <2>1. n + 1 \in DOMAIN M BY <1>1
  <2> QED BY <1>4, <2>1
<1>11. Owned(live, F, OwnersInGlobals(m)) BY DEF F
<1> HIDE DEF new
<1>12. Owned(live \cup new, M, OwnersInGlobals(m))
  BY <1>5, <1>6, <1>7, <1>9, <1>10, <1>11, OwnMore
<1> QED BY <1>1, <1>2, <1>12 DEF new, f, M

\* Strings and names stay where they are when functions change otherwise.
LEMMA SameOwners ==
  ASSUME NEW m, NEW more, DOMAIN more.functions = DOMAIN m.functions,
         more.numFuncImports = m.numFuncImports, more.globals = m.globals,
         \A i \in DOMAIN m.functions :
           /\ more.functions[i].import = m.functions[i].import
           /\ more.functions[i].names = m.functions[i].names
  PROVE  /\ OwnersInFunctions(more) = OwnersInFunctions(m)
         /\ OwnersInGlobals(more) = OwnersInGlobals(m)
BY DEF OwnersInFunctions, OwnersInGlobals

LEMMA GlobalAdded ==
  ASSUME NEW m \in Module, NEW import \in Import, NEW live,
         Owned(live, OwnersInFunctions(m), OwnersInGlobals(m)),
         ({import.module, import.field} \ {NULL}) \cap live = {},
         import.module = import.field => import.field = NULL
  PROVE  LET more == AddGlobal(m, import)
             new  == {import.module, import.field} \ {NULL}
         IN  /\ more \in Module /\ more = [m EXCEPT !.globals = more.globals]
             /\ Owned(live \cup new, OwnersInFunctions(more), OwnersInGlobals(more))
<1> DEFINE n == Len(m.globals)
           g == [import |-> import, name |-> NULL]
           globals == Append(m.globals, g)
           more == AddGlobal(m, import)
           new == {import.module, import.field} \ {NULL}
           G == OwnersInGlobals(m)
           M == OwnersInGlobals(more)
<1>1. /\ m.functions \in Seq(Function) /\ m.numFuncImports \in Nat /\ m.numFuncTypes \in Nat
      /\ m.globals \in Seq(Global) /\ m.startFunction \in Nat
      /\ m = [numFuncTypes |-> m.numFuncTypes, numFuncImports |-> m.numFuncImports,
              functions |-> m.functions, globals |-> m.globals,
              startFunction |-> m.startFunction]
  BY DEF Module
<1>2. g \in Global BY DEF Global
<1>3. /\ globals \in Seq(Global) /\ Len(globals) = n + 1 /\ n \in Nat
      /\ \A i \in 1 .. n : globals[i] = m.globals[i]
      /\ globals[n + 1] = g
  BY <1>1, <1>2
<1>4. more = [m EXCEPT !.globals = globals] BY DEF AddGlobal
<1> HIDE DEF globals
<1>5. more.globals = globals /\ more.functions = m.functions /\ more \in Module
      /\ more.numFuncImports = m.numFuncImports
  BY <1>1, <1>3, <1>4 DEF Module
<1>6. OwnersInFunctions(more) = OwnersInFunctions(m) BY <1>5 DEF OwnersInFunctions
<1>7. /\ DOMAIN G = 1 .. n /\ DOMAIN m.globals = 1 .. n
      /\ DOMAIN M = 1 .. n + 1 /\ DOMAIN more.globals = 1 .. n + 1
  BY <1>3, <1>5, OwnersRows
<1> HIDE DEF more
<1>8. \A i \in 1 .. n : M[i] = G[i]
  BY <1>3, <1>5, <1>7 DEF OwnersInGlobals
<1>9. M[n + 1] = <<NULL, import.module, import.field>>
  <2>1. n + 1 \in DOMAIN more.globals /\ more.globals[n + 1] = g BY <1>3, <1>5, <1>7
  <2> QED BY <1>5, <2>1, GlobalRow
<1>10. /\ DOMAIN M[n + 1] = {1, 2, 3} /\ M[n + 1][1] = NULL
       /\ M[n + 1][2] = import.module /\ M[n + 1][3] = import.field
  BY <1>9
<1>11. new \cap live = {} /\ NULL \notin new OBVIOUS
<1> HIDE DEF n, g, G, M
<1>12. \A i \in DOMAIN G : i \in DOMAIN M
          /\ \A k \in DOMAIN G[i] : k \in DOMAIN M[i] /\ M[i][k] = G[i][k]
  BY <1>3, <1>7, <1>8
<1>13. \A i \in DOMAIN M : \A k \in DOMAIN M[i] :
         ~(i \in DOMAIN G /\ k \in DOMAIN G[i]) =>
           /\ i = n + 1 /\ k \in {1, 2, 3} /\ M[i][k] \in new \cup {NULL}
  <2>1. \A i \in DOMAIN M : i \in 1 .. n \/ i = n + 1 BY <1>3, <1>7
  <2> QED BY <1>7, <1>8, <1>10, <2>1
<1>14. \A i \in DOMAIN G : \A k \in DOMAIN G[i] : G[i][k] \notin new
  <2>1. \A s \in new : s # NULL /\ s \notin StringsIn(G) BY <1>11 DEF Owned, G
  <2> QED BY <2>1, InRows
<1>15. \A i, j \in DOMAIN M : \A k \in DOMAIN M[i], l \in DOMAIN M[j] :
         M[i][k] \in new /\ M[i][k] = M[j][l] => i = j /\ k = l
  <2>1. \A i \in DOMAIN M : \A k \in DOMAIN M[i] : M[i][k] \in new =>
          i = n + 1 /\ k \in {2, 3}
    BY <1>10, <1>11, <1>12, <1>13, <1>14
  <2> QED BY <1>10, <1>11, <2>1
<1>16. \A s \in new : \E i \in DOMAIN M : \E k \in DOMAIN M[i] : M[i][k] = s
  <2>1. n + 1 \in DOMAIN M BY <1>3, <1>7
  <2> QED BY <1>10, <2>1
<1>17. Owned(live, G, OwnersInFunctions(m)) BY OwnedSwaps DEF G
<1> HIDE DEF new
<1>18. Owned(live \cup new, M, OwnersInFunctions(m))
  BY <1>11, <1>12, <1>13, <1>15, <1>16, <1>17, OwnMore
<1>19. Owned(live \cup new, OwnersInFunctions(more), M) BY <1>6, <1>18, OwnedSwaps
<1> QED BY <1>4, <1>5, <1>19 DEF new, M, more

WithName(m, i, s) == [m EXCEPT !.functions[i].names = Append(@, s)]

\* more differs from m by a further name of the function at i, which is s.
Renamed(m, more, i, s) ==
  /\ more.startFunction = m.startFunction /\ more.numFuncImports = m.numFuncImports
  /\ DOMAIN more.functions = DOMAIN m.functions
  /\ \A k \in DOMAIN m.functions[i].names :
       /\ k \in DOMAIN more.functions[i].names
       /\ more.functions[i].names[k] = m.functions[i].names[k]
  /\ \E k \in DOMAIN more.functions[i].names : more.functions[i].names[k] = s
  /\ \A j \in DOMAIN m.functions : j # i => more.functions[j] = m.functions[j]

\* A further name, which no pointer has yet.
LEMMA NameAdded ==
  ASSUME NEW m \in Module, FunctionsOk(m), NEW i \in DOMAIN m.functions,
         Len(m.functions[i].names) < MaxNames,
         NEW s \in String \cup {NULL}, NEW live, s \notin live,
         Owned(live, OwnersInFunctions(m), OwnersInGlobals(m)),
         NEW more, more = WithName(m, i, s)
  PROVE  /\ more \in Module /\ FunctionsOk(more)
         /\ Renamed(m, more, i, s)
         /\ Owned(live \cup ({s} \ {NULL}), OwnersInFunctions(more), OwnersInGlobals(more))
<1> DEFINE f == m.functions[i]
           names == Append(f.names, s)
           f2 == [f EXCEPT !.names = names]
           functions == [m.functions EXCEPT ![i] = f2]
           n == Len(f.names)
           new == {s} \ {NULL}
           F == OwnersInFunctions(m)
           M == OwnersInFunctions(more)
<1>1. /\ m.functions \in Seq(Function) /\ f \in Function
      /\ m = [numFuncTypes |-> m.numFuncTypes, numFuncImports |-> m.numFuncImports,
              functions |-> m.functions, globals |-> m.globals,
              startFunction |-> m.startFunction]
      /\ m.numFuncImports \in Nat /\ m.numFuncTypes \in Nat
      /\ m.globals \in Seq(Global) /\ m.startFunction \in Nat
  BY DEF Module
<1>2. f.names \in Seq(String \cup {NULL}) /\ n \in Nat /\ DOMAIN f.names = 1 .. n
  BY <1>1, FunctionParts
<1>3. /\ names \in Seq(String \cup {NULL}) /\ Len(names) = n + 1 /\ names[n + 1] = s
      /\ \A k \in 1 .. n : names[k] = f.names[k]
      /\ names # <<>>
  BY <1>2
<1>4. more = [m EXCEPT !.functions = functions] BY DEF WithName
<1> HIDE DEF names
<1>5. f2 \in Function /\ f2.names = names /\ f2.import = f.import
      /\ f2.funcType = f.funcType /\ f2.body = f.body
  <2> HIDE DEF f
  <2> QED BY <1>1, <1>3 DEF Function
<1> HIDE DEF f, f2
<1>6. /\ functions \in Seq(Function) /\ DOMAIN functions = DOMAIN m.functions
      /\ Len(functions) = Len(m.functions) /\ functions[i] = f2
      /\ \A j \in DOMAIN m.functions : j # i => functions[j] = m.functions[j]
  <2>1. DOMAIN m.functions = 1 .. Len(m.functions) /\ i \in 1 .. Len(m.functions)
    BY OwnersRows
  <2>2. functions \in Seq(Function) /\ Len(functions) = Len(m.functions)
    BY <1>1, <1>5, <2>1, ExceptSeq
  <2> QED BY <2>2
<1> HIDE DEF functions
<1>7. /\ more \in Module /\ more.functions = functions /\ more.globals = m.globals
      /\ more.numFuncImports = m.numFuncImports /\ more.numFuncTypes = m.numFuncTypes
  BY <1>1, <1>4, <1>6 DEF Module
<1>8. FunctionsOk(more)
  <2>1. \A j \in DOMAIN functions :
          /\ functions[j].funcType = m.functions[j].funcType
          /\ functions[j].import = m.functions[j].import
          /\ functions[j].body = m.functions[j].body
    BY <1>5, <1>6 DEF f
  <2>2. \A j \in DOMAIN functions : Len(functions[j].names) <= MaxNames
    <3>1. n + 1 <= MaxNames BY <1>2, ParserAssumption DEF f
    <3>2. \A j \in DOMAIN m.functions : Len(m.functions[j].names) <= MaxNames
      BY DEF FunctionsOk
    <3> QED BY <1>3, <1>5, <1>6, <3>1, <3>2
  <2>3. \A j \in DOMAIN functions : j <= m.numFuncImports =>
          functions[j].names # <<>> /\ functions[j].names[1] = functions[j].import.field
    <3>1. \A j \in DOMAIN m.functions : j <= m.numFuncImports =>
            m.functions[j].names # <<>> /\ m.functions[j].names[1] = m.functions[j].import.field
      BY DEF FunctionsOk
    <3>2. i <= m.numFuncImports => f.names # <<>> /\ f.names[1] = f.import.field
      BY <3>1 DEF f
    <3>3. i <= m.numFuncImports => names[1] = f.import.field
      <4>1. f.names # <<>> => 1 \in 1 .. n BY <1>2
      <4> QED BY <1>3, <3>2, <4>1
    <3>4. \A j \in DOMAIN functions : j # i => functions[j] = m.functions[j] BY <1>6
    <3>5. functions[i].names = names /\ functions[i].import = f.import BY <1>5, <1>6
    <3> QED BY <1>3, <1>6, <3>1, <3>3, <3>4, <3>5
  <2>4. \A j \in DOMAIN functions :
          /\ functions[j].funcType < m.numFuncTypes
          /\ j <= m.numFuncImports => ~functions[j].body
          /\ j > m.numFuncImports => functions[j].import = NoImport
    <3>1. \A j \in DOMAIN m.functions :
            /\ m.functions[j].funcType < m.numFuncTypes
            /\ j <= m.numFuncImports => ~m.functions[j].body
            /\ j > m.numFuncImports => m.functions[j].import = NoImport
      BY DEF FunctionsOk
    <3> QED BY <1>6, <2>1, <3>1
  <2>5. m.numFuncImports <= Len(functions) BY <1>6 DEF FunctionsOk
  <2> HIDE DEF n
  <2> QED BY <1>7, <2>2, <2>3, <2>4, <2>5 DEF FunctionsOk
<1>9. OwnersInGlobals(more) = OwnersInGlobals(m) BY <1>7 DEF OwnersInGlobals
<1>10. DOMAIN F = DOMAIN m.functions /\ DOMAIN M = DOMAIN m.functions
  BY <1>6, <1>7, OwnersRows
<1>11. \A j \in DOMAIN m.functions : j # i => F[j] = M[j]
  BY <1>6, <1>7 DEF OwnersInFunctions
<1>12. /\ \A p \in DOMAIN F[i] : p \in DOMAIN M[i] /\ M[i][p] = F[i][p]
       /\ n + 3 \in DOMAIN M[i] /\ M[i][n + 3] = s
       /\ \A p \in DOMAIN M[i] : p \in DOMAIN F[i] \/ p = n + 3
  <2>1. i \in DOMAIN m.functions /\ i \in DOMAIN more.functions BY <1>6, <1>7
  <2>2. /\ \A p : p \in DOMAIN F[i] <=>
             p \in 1 .. n + 2 /\ ~(p = 3 /\ i <= m.numFuncImports)
        /\ \A p \in DOMAIN F[i] : F[i][p] = CASE p = 1 -> f.import.module
                                              [] p = 2 -> f.import.field
                                              [] OTHER -> f.names[p - 2]
    BY <2>1, OwnersRow DEF f
  <2>3. more.functions[i] = f2 BY <1>6, <1>7
  <2>4. LET g == more.functions[i]
        IN  /\ \A p : p \in DOMAIN M[i] <=>
                 p \in 1 .. Len(g.names) + 2 /\ ~(p = 3 /\ i <= more.numFuncImports)
            /\ \A p \in DOMAIN M[i] : M[i][p] = CASE p = 1 -> g.import.module
                                                  [] p = 2 -> g.import.field
                                                  [] OTHER -> g.names[p - 2]
    <3>1. more \in Module BY <1>7
    <3> QED BY <2>1, <3>1, OwnersRow
  <2>5. /\ \A p : p \in DOMAIN M[i] <=>
             p \in 1 .. n + 3 /\ ~(p = 3 /\ i <= m.numFuncImports)
        /\ \A p \in DOMAIN M[i] : M[i][p] = CASE p = 1 -> f.import.module
                                              [] p = 2 -> f.import.field
                                              [] OTHER -> names[p - 2]
    <3>1. Len(names) + 2 = n + 3 BY <1>2, <1>3
    <3> HIDE DEF M
    <3> QED BY <1>5, <1>7, <2>3, <2>4, <3>1
  <2>6. n = 0 => ~(i <= m.numFuncImports)
    <3>1. i <= m.numFuncImports => f.names # <<>> BY DEF FunctionsOk, f
    <3> QED BY <1>2, <3>1
  <2> HIDE DEF F, M, n
  <2>7. n + 3 \in DOMAIN M[i] /\ (n + 3) - 2 = n + 1 BY <1>2, <2>5, <2>6
  <2>8. M[i][n + 3] = s BY <1>2, <1>3, <2>5, <2>7
  <2>9. \A p \in DOMAIN M[i] : p \in DOMAIN F[i] \/ p = n + 3 BY <1>2, <2>2, <2>5
  <2>10. ASSUME NEW p \in DOMAIN F[i]
         PROVE  p \in DOMAIN M[i] /\ M[i][p] = F[i][p]
    <3>1. p \in 1 .. n + 2 /\ p \in DOMAIN M[i] BY <1>2, <2>2, <2>5
    <3>2. CASE p = 1 \/ p = 2 BY <2>2, <2>5, <3>1, <3>2
    <3>3. CASE p # 1 /\ p # 2
      <4>1. p - 2 \in 1 .. n BY <1>2, <3>1, <3>3
      <4> QED BY <1>3, <2>2, <2>5, <3>1, <3>3, <4>1
    <3> QED BY <3>1, <3>2, <3>3
  <2> QED BY <2>7, <2>8, <2>9, <2>10
<1> HIDE DEF F, M, n
<1>13. new \cap live = {} /\ NULL \notin new OBVIOUS
<1>14. \A j \in DOMAIN F : j \in DOMAIN M
         /\ \A k \in DOMAIN F[j] : k \in DOMAIN M[j] /\ M[j][k] = F[j][k]
  BY <1>10, <1>11, <1>12
<1>15. \A j \in DOMAIN M : \A k \in DOMAIN M[j] :
         ~(j \in DOMAIN F /\ k \in DOMAIN F[j]) => j = i /\ k = n + 3
  BY <1>10, <1>11, <1>12
<1>16. \A j \in DOMAIN M : \A k \in DOMAIN M[j] :
         M[j][k] \in new => j = i /\ k = n + 3
  <2>1. \A t \in new : t # NULL /\ t \notin StringsIn(F) BY <1>13 DEF Owned, F
  <2>2. \A j \in DOMAIN F : \A k \in DOMAIN F[j] : F[j][k] \notin new BY <2>1, InRows
  <2> QED BY <1>14, <1>15, <2>2
<1>17. Owned(live, F, OwnersInGlobals(m)) BY DEF F
<1>18. \A j \in DOMAIN M : \A k \in DOMAIN M[j] :
         ~(j \in DOMAIN F /\ k \in DOMAIN F[j]) => M[j][k] \in new \cup {NULL}
  BY <1>12, <1>15
<1>19. \A t \in new : \E j \in DOMAIN M : \E k \in DOMAIN M[j] : M[j][k] = t
  BY <1>10, <1>12
<1> HIDE DEF new
<1>20. \A j, k \in DOMAIN M : \A p \in DOMAIN M[j], q \in DOMAIN M[k] :
         M[j][p] \in new /\ M[j][p] = M[k][q] => j = k /\ p = q
  BY <1>16
<1>21. Owned(live \cup new, M, OwnersInGlobals(m))
  BY <1>13, <1>14, <1>17, <1>18, <1>19, <1>20, OwnMore
<1>22. /\ \A k \in DOMAIN f.names : k \in DOMAIN names /\ names[k] = f.names[k]
       /\ \E k \in DOMAIN names : names[k] = s
  <2>1. DOMAIN names = 1 .. n + 1 BY <1>3
  <2>2. 1 .. n \subseteq 1 .. n + 1 /\ n + 1 \in 1 .. n + 1 BY <1>2
  <2> QED BY <1>2, <1>3, <2>1, <2>2
<1>23. more.functions[i].names = names /\ more.startFunction = m.startFunction
  BY <1>1, <1>4, <1>5, <1>6, <1>7
<1>24. Renamed(m, more, i, s) BY <1>6, <1>7, <1>22, <1>23 DEF Renamed, f
<1> QED BY <1>7, <1>8, <1>9, <1>21, <1>24 DEF new, M

\* A global gets another name, and its old one is freed.
LEMMA GlobalNamed ==
  ASSUME NEW m \in Module, NEW i \in DOMAIN m.globals, NEW h, HeapOk(h), h.sound,
         NEW s \in String \cup {NULL}, NEW live, s \notin live,
         Owned(live, OwnersInFunctions(m), OwnersInGlobals(m)),
         h.live = live \cup ({s} \ {NULL}),
         NEW more, more = [m EXCEPT !.globals[i].name = s]
  PROVE  LET freed == Free(h, <<m.globals[i].name>>)
         IN  /\ more \in Module /\ more = [m EXCEPT !.globals = more.globals]
             /\ HeapOk(freed) /\ freed.sound
             /\ Owned(freed.live, OwnersInFunctions(more), OwnersInGlobals(more))
<1> DEFINE g == m.globals[i]
           old == g.name
           globals == [m.globals EXCEPT ![i] = [g EXCEPT !.name = s]]
           F == OwnersInFunctions(m)
           G == OwnersInGlobals(m)
           M == OwnersInGlobals(more)
           rows == <<<<old>>>>
           freed == FreeRows(h, rows)
<1>1. /\ m.functions \in Seq(Function) /\ m.numFuncImports \in Nat /\ m.numFuncTypes \in Nat
      /\ m.globals \in Seq(Global) /\ m.startFunction \in Nat
      /\ m = [numFuncTypes |-> m.numFuncTypes, numFuncImports |-> m.numFuncImports,
              functions |-> m.functions, globals |-> m.globals,
              startFunction |-> m.startFunction]
      /\ g \in Global
  BY DEF Module
<1>2. more = [m EXCEPT !.globals = globals] OBVIOUS
<1>3. [g EXCEPT !.name = s] \in Global /\ [g EXCEPT !.name = s].import = g.import
      /\ [g EXCEPT !.name = s].name = s
  <2> HIDE DEF g
  <2> QED BY <1>1 DEF Global
<1>4. /\ globals \in Seq(Global) /\ DOMAIN globals = DOMAIN m.globals
      /\ globals[i].import = g.import /\ globals[i].name = s
      /\ \A j \in DOMAIN m.globals : j # i => globals[j] = m.globals[j]
  <2>1. DOMAIN m.globals = 1 .. Len(m.globals) /\ i \in 1 .. Len(m.globals) BY OwnersRows
  <2>2. globals \in Seq(Global) BY <1>1, <1>3, <2>1, ExceptSeq
  <2> HIDE DEF g
  <2> QED BY <1>3, <2>2
<1> HIDE DEF globals
<1>5. more.globals = globals /\ more.functions = m.functions /\ more \in Module
      /\ more.numFuncImports = m.numFuncImports
  BY <1>1, <1>2, <1>4 DEF Module
<1>6. OwnersInFunctions(more) = F BY <1>5 DEF OwnersInFunctions
<1>7. DOMAIN G = DOMAIN m.globals /\ DOMAIN M = DOMAIN m.globals
  BY <1>4, <1>5, OwnersRows
<1>8. /\ \A j \in DOMAIN m.globals : j # i => M[j] = G[j]
      /\ G[i] = <<old, g.import.module, g.import.field>>
      /\ M[i] = <<s, g.import.module, g.import.field>>
  <2>1. \A j \in DOMAIN m.globals :
          G[j] = Global_Release(m.globals[j]) /\ M[j] = Global_Release(globals[j])
    BY <1>4, <1>5 DEF OwnersInGlobals
  <2> HIDE DEF G, M
  <2> QED BY <1>4, <2>1 DEF Global_Release
<1>9. /\ DOMAIN G[i] = {1, 2, 3} /\ DOMAIN M[i] = {1, 2, 3} /\ G[i][1] = old /\ M[i][1] = s
      /\ G[i][2] = M[i][2] /\ G[i][3] = M[i][3]
  BY <1>8
<1>10. NoAlias(F) /\ NoAlias(G) /\ StringsIn(F) \cap StringsIn(G) = {}
       /\ StringsIn(F) \cup StringsIn(G) = live
  BY DEF Owned
<1>11. Free(h, <<m.globals[i].name>>) = freed BY DEF Free
<1>12. DOMAIN rows = {1} /\ DOMAIN rows[1] = {1} /\ rows[1][1] = old OBVIOUS
<1> HIDE DEF old, rows, F, G, M, g
<1>13. /\ \A j \in DOMAIN G : \A k \in DOMAIN G[j] : <<j, k>> # <<i, 1>> =>
             /\ j \in DOMAIN M /\ k \in DOMAIN M[j] /\ M[j][k] = G[j][k]
             /\ G[j][k] = old => old = NULL
       /\ \A j \in DOMAIN M : \A k \in DOMAIN M[j] : <<j, k>> # <<i, 1>> =>
             /\ j \in DOMAIN G /\ k \in DOMAIN G[j] /\ G[j][k] = M[j][k]
  <2>1. i \in DOMAIN G /\ 1 \in DOMAIN G[i] BY <1>7, <1>9
  <2>2. ASSUME NEW j \in DOMAIN G, NEW k \in DOMAIN G[j], <<j, k>> # <<i, 1>>
        PROVE  /\ j \in DOMAIN M /\ k \in DOMAIN M[j] /\ M[j][k] = G[j][k]
               /\ G[j][k] = old => old = NULL
    <3>1. G[j][k] = old => old = NULL BY <1>9, <1>10, <2>1, <2>2 DEF NoAlias
    <3>2. CASE j = i BY <1>7, <1>9, <2>2, <3>1, <3>2
    <3>3. CASE j # i BY <1>7, <1>8, <3>1, <3>3
    <3> QED BY <3>2, <3>3
  <2>3. ASSUME NEW j \in DOMAIN M, NEW k \in DOMAIN M[j], <<j, k>> # <<i, 1>>
        PROVE  j \in DOMAIN G /\ k \in DOMAIN G[j] /\ G[j][k] = M[j][k]
    <3>1. CASE j = i BY <1>7, <1>9, <2>3, <3>1
    <3>2. CASE j # i BY <1>7, <1>8, <3>2
    <3> QED BY <3>1, <3>2
  <2> QED BY <2>2, <2>3
<1>14. StringsIn(M) = (StringsIn(G) \ {old}) \cup ({s} \ {NULL})
  <2>1. i \in DOMAIN G /\ i \in DOMAIN M /\ 1 \in DOMAIN G[i] /\ 1 \in DOMAIN M[i]
    BY <1>7, <1>9
  <2>2. ASSUME NEW t \in StringsIn(M), t # s
        PROVE  t \in StringsIn(G) /\ t # old
    <3>1. PICK j \in DOMAIN M : \E k \in DOMAIN M[j] : M[j][k] = t BY InRows
    <3>2. PICK k \in DOMAIN M[j] : M[j][k] = t BY <3>1
    <3>3. <<j, k>> # <<i, 1>> BY <1>9, <2>2, <3>2
    <3>4. j \in DOMAIN G /\ k \in DOMAIN G[j] /\ G[j][k] = t BY <1>13, <3>2, <3>3
    <3>5. t # NULL BY InRows
    <3> QED BY <1>13, <3>3, <3>4, <3>5, InRows
  <2>3. ASSUME NEW t \in StringsIn(G), t # old
        PROVE  t \in StringsIn(M)
    <3>1. PICK j \in DOMAIN G : \E k \in DOMAIN G[j] : G[j][k] = t BY InRows
    <3>2. PICK k \in DOMAIN G[j] : G[j][k] = t BY <3>1
    <3>3. <<j, k>> # <<i, 1>> BY <1>9, <2>3, <3>2
    <3>4. j \in DOMAIN M /\ k \in DOMAIN M[j] /\ M[j][k] = t BY <1>13, <3>2, <3>3
    <3>5. t # NULL BY InRows
    <3> QED BY <3>4, <3>5, InRows
  <2>4. s # NULL => s \in StringsIn(M) BY <1>9, <2>1, InRows
  <2>5. NULL \notin StringsIn(M) BY InRows
  <2> QED BY <2>2, <2>3, <2>4, <2>5
<1>15. NoAlias(M)
  <2> SUFFICES ASSUME NEW j \in DOMAIN M, NEW k \in DOMAIN M[j], M[j][k] # NULL,
                      NEW p \in DOMAIN M, NEW q \in DOMAIN M[p], M[j][k] = M[p][q]
               PROVE  j = p /\ k = q
    BY DEF NoAlias
  <2>1. \A a \in DOMAIN M : \A b \in DOMAIN M[a] :
          <<a, b>> # <<i, 1>> /\ M[a][b] # NULL => M[a][b] # s
    <3>1. \A a \in DOMAIN G : \A b \in DOMAIN G[a] : G[a][b] # NULL => G[a][b] # s
      BY <1>10, InRows
    <3> QED BY <1>13, <3>1
  <2>2. CASE <<j, k>> = <<i, 1>> /\ <<p, q>> = <<i, 1>> BY <2>2
  <2>3. CASE <<j, k>> = <<i, 1>> /\ <<p, q>> # <<i, 1>> BY <1>9, <2>1, <2>3
  <2>4. CASE <<j, k>> # <<i, 1>> /\ <<p, q>> = <<i, 1>> BY <1>9, <2>1, <2>4
  <2>5. CASE <<j, k>> # <<i, 1>> /\ <<p, q>> # <<i, 1>>
    <3>1. /\ j \in DOMAIN G /\ k \in DOMAIN G[j] /\ G[j][k] = M[j][k]
          /\ p \in DOMAIN G /\ q \in DOMAIN G[p] /\ G[p][q] = M[p][q]
      BY <1>13, <2>5
    <3> QED BY <1>10, <3>1 DEF NoAlias
  <2> QED BY <2>2, <2>3, <2>4, <2>5
<1>16. StringsIn(rows) = {old} \ {NULL}
  <2>1. \A t : t \in StringsIn(rows) <=> t # NULL /\ t = old BY <1>12, InRows
  <2> QED BY <2>1
<1>17. NoAlias(rows) BY <1>12 DEF NoAlias
<1>18. old # NULL => old \in StringsIn(G)
  <2>1. i \in DOMAIN G /\ 1 \in DOMAIN G[i] BY <1>7, <1>9
  <2> QED BY <1>9, <2>1, InRows
<1>19. HeapOk(freed) /\ freed.live = h.live \ StringsIn(rows) BY FreeRowsOk
<1>20. freed.sound
  <2>1. StringsIn(rows) \subseteq h.live BY <1>10, <1>16, <1>18
  <2> QED BY <1>17, <2>1, FreeRowsOk
<1>21. Owned(freed.live, F, M)
  <2> DEFINE now == freed.live
  <2>1. now = (live \cup ({s} \ {NULL})) \ ({old} \ {NULL}) BY <1>16, <1>19
  <2>2. NULL \notin live /\ (old # NULL => old # s /\ old \notin StringsIn(F))
    <3>1. NULL \notin StringsIn(F) /\ NULL \notin StringsIn(G) BY InRows
    <3> QED BY <1>10, <1>18, <3>1
  <2>3. StringsIn(F) \cap StringsIn(M) = {} BY <1>10, <1>14
  <2>4. StringsIn(F) \cup StringsIn(M) = now BY <1>10, <1>14, <2>1, <2>2
  <2> HIDE DEF now
  <2> QED BY <1>10, <1>15, <2>3, <2>4 DEF Owned, now
<1> HIDE DEF freed
<1> QED BY <1>2, <1>5, <1>6, <1>11, <1>19, <1>20, <1>21 DEF M

-----------------------------------------------------------------------------
(* The steps                                                               *)

Sections == {"idle", "between", "parsed", "custom"} \cup Range(SectionsOrder)

LEMMA Order ==
  /\ Len(SectionsOrder) = 12
  /\ Range(SectionsOrder) = {SectionsOrder[k] : k \in 1 .. 12}
  /\ \A k \in 1 .. 12 : SectionsOrder[k] \notin {"idle", "between", "parsed", "custom"}
  /\ \A j, k \in 1 .. 12 : SectionsOrder[j] = SectionsOrder[k] => j = k
  /\ SectionsOrder[1] = "type" /\ SectionsOrder[2] = "import" /\ SectionsOrder[3] = "function"
<1>1. Len(SectionsOrder) = 12 /\ DOMAIN SectionsOrder = 1 .. 12 BY DEF SectionsOrder
<1>2. Range(SectionsOrder) = {SectionsOrder[k] : k \in 1 .. 12} BY <1>1 DEF Range
<1>3. /\ \A k \in 1 .. 12 : SectionsOrder[k] \notin {"idle", "between", "parsed", "custom"}
      /\ \A j, k \in 1 .. 12 : SectionsOrder[j] = SectionsOrder[k] => j = k
      /\ SectionsOrder[1] = "type" /\ SectionsOrder[2] = "import" /\ SectionsOrder[3] = "function"
  BY DEF SectionsOrder
<1> QED BY <1>1, <1>2, <1>3

\* What is known of a module that is being filled, or is filled.
LEMMA Known ==
  ASSUME IInv, module # NULL
  PROVE  /\ module \in Module /\ FunctionsOk(module) /\ OwnedBy(heap, module) /\ ~Idle
         /\ ExportsOk(module) /\ module.startFunction <= NumFunctions
         /\ HeapOk(heap) /\ OrderOk /\ section \in Sections /\ expected \in 0 .. 12
         /\ exported \subseteq Nat \X Texts
         /\ NumFunctions \in Nat /\ DOMAIN module.functions = 1 .. NumFunctions
         /\ module = [numFuncTypes |-> module.numFuncTypes,
                      numFuncImports |-> module.numFuncImports,
                      functions |-> module.functions, globals |-> module.globals,
                      startFunction |-> module.startFunction]
         /\ module.numFuncTypes \in Nat /\ module.numFuncImports \in Nat
         /\ module.startFunction \in Nat
         /\ module.functions \in Seq(Function) /\ module.globals \in Seq(Global)
<1>1. module \in Module BY DEF IInv, TypeOK
<1> QED BY <1>1, Order, OwnersRows DEF IInv, TypeOK, Sections, Module, NumFunctions

\* The parser is at another section and nothing is read.
LEMMA SectionChanged ==
  ASSUME IInv, module # NULL, UNCHANGED <<module, heap, exported>>,
         section' \in Sections \ {"idle"}, expected' \in 0 .. 12, expected <= expected',
         \A k \in 1 .. 12 : section' = SectionsOrder[k] => expected' = k
  PROVE  IInv'
<1>1. TypeOK'
  <2>1. expected' \in 0 .. Len(SectionsOrder) BY Order
  <2> QED BY <2>1 DEF IInv, TypeOK, Sections, Idle
<1>2. OrderOk'
  <2>1. \A k \in 1 .. Len(SectionsOrder) : section' = SectionsOrder[k] => expected' = k
    BY Order
  <2>2. Len(SectionsOrder) = 12 /\ expected \in 0 .. 12 BY Known, Order
  <2>3. /\ expected <= 1 => module.functions = <<>>
        /\ expected <= 2 => module.numFuncImports = NumFunctions
    BY DEF IInv, OrderOk
  <2>4. /\ expected' <= 1 => module.functions = <<>>
        /\ expected' <= 2 => module.numFuncImports = NumFunctions
    BY <2>2, <2>3
  <2> QED BY <2>1, <2>4 DEF OrderOk, Idle, NumFunctions
<1>3. HeapOk(heap)' BY DEF IInv
<1>4. (module.startFunction <= NumFunctions /\ FunctionsOk(module) /\ ExportsOk(module)
       /\ OwnedBy(heap, module))'
  BY DEF IInv, NumFunctions, ExportsOk
<1> QED BY <1>1, <1>2, <1>3, <1>4 DEF IInv

\* The module is freed, whatever else was.
LEMMA Thrown ==
  ASSUME IInv, module # NULL, NEW h, HeapOk(h), h.live = heap.live, h.sound, Throw(h)
  PROVE  IInv'
<1>1. OwnedBy(h, module) BY Known DEF OwnedBy
<1>2. HeapOk(heap') /\ heap'.live = {} /\ heap'.sound
  BY <1>1, Known, FreeModuleOk DEF Throw
<1>3. module' = NULL /\ section' = "idle" /\ expected' = 0 /\ exported' = {} BY DEF Throw
<1>4. TypeOK' BY <1>2, <1>3, Order DEF TypeOK, HeapOk, Heap, Idle
<1>5. OrderOk' BY <1>3, Order DEF OrderOk, Idle
<1>6. HeapOk(heap)' BY <1>2
<1> QED BY <1>2, <1>3, <1>4, <1>5, <1>6 DEF IInv

\* The module or its strings change while the parser stays in the section or ends it.
LEMMA Filled ==
  ASSUME IInv, module # NULL, module' \in Module, HeapOk(heap'),
         section' \in {section, "between"}, expected' = expected,
         exported' \subseteq Nat \X Texts,
         FunctionsOk(module'), OwnedBy(heap', module'),
         module'.startFunction <= Len(module'.functions),
         \A e \in exported' :
           /\ e[1] \in DOMAIN module'.functions
           /\ \/ HasName(module'.functions[e[1]], e[2])
              \/ Len(module'.functions[e[1]].names) = MaxNames,
         expected <= 1 => module'.functions = <<>>,
         expected <= 2 => module'.numFuncImports = Len(module'.functions)
  PROVE  IInv'
<1>1. module' # NULL /\ section' \in Sections \ {"idle"}
  BY Known, NullAssumption DEF Idle, Sections
<1>2. TypeOK'
  BY <1>1, Known, Order DEF TypeOK, Idle, HeapOk, Heap, Sections
<1>3. OrderOk'
  <2>1. \A k \in 1 .. 12 : section' = SectionsOrder[k] => section = SectionsOrder[k]
    BY Order
  <2>2. \A k \in 1 .. 12 : section = SectionsOrder[k] => expected = k
    BY Known, Order DEF OrderOk
  <2> QED BY <1>1, <2>1, <2>2, Order DEF OrderOk, Idle, NumFunctions
<1>4. HeapOk(heap)' OBVIOUS
<1>5. (module.startFunction <= NumFunctions /\ FunctionsOk(module) /\ ExportsOk(module)
       /\ OwnedBy(heap, module))'
  BY DEF NumFunctions, ExportsOk
<1> QED BY <1>1, <1>2, <1>3, <1>4, <1>5 DEF IInv

LEMMA Initially == Init => IInv
<1> SUFFICES ASSUME Init PROVE IInv
  OBVIOUS
<1>1. heap = [live |-> {}, sound |-> TRUE, failures |-> 0] BY DEF Init
<1>2. heap.live = {} /\ heap.sound /\ HeapOk(heap)
  BY <1>1, FS_EmptySet DEF HeapOk, Heap
<1>3. module = NULL /\ section = "idle" /\ expected = 0 /\ exported = {} BY DEF Init
<1>4. TypeOK BY <1>2, <1>3, Order DEF TypeOK, Idle, HeapOk, Heap
<1>5. OrderOk BY <1>3, Order DEF OrderOk, Idle
<1> QED BY <1>2, <1>3, <1>4, <1>5 DEF IInv

LEMMA BeginStep ==
  ASSUME IInv, Begin
  PROVE  IInv'
<1>1. module = NULL /\ expected = 0 /\ exported = {} /\ heap.live = {} /\ heap.sound
      /\ HeapOk(heap)
  BY DEF IInv, Begin, TypeOK, OrderOk
<1>2. module' = NewModule /\ section' = "between" /\ expected' = 0 /\ exported' = {}
      /\ heap' = [heap EXCEPT !.failures = 0]
  BY <1>1 DEF Begin
<1>3. heap'.live = {} /\ heap'.sound /\ HeapOk(heap')
  <2>1. heap' \in Heap /\ heap'.live = heap.live /\ heap'.sound = heap.sound
    BY <1>1, <1>2 DEF HeapOk, Heap
  <2> QED BY <1>1, <2>1 DEF HeapOk
<1>4. /\ NewModule \in Module /\ NewModule.functions = <<>> /\ NewModule.globals = <<>>
      /\ NewModule.startFunction = 0 /\ NewModule.numFuncImports = 0
      /\ Len(NewModule.functions) = 0
  <2>1. <<>> \in Seq(Function) /\ <<>> \in Seq(Global) /\ Len(<<>>) = 0 OBVIOUS
  <2> QED BY <2>1 DEF NewModule, Module
<1>5. NewModule # NULL BY <1>4, NullAssumption
<1>6. OwnedBy(heap', NewModule)
  <2>1. DOMAIN OwnersInFunctions(NewModule) = {} /\ DOMAIN OwnersInGlobals(NewModule) = {}
    BY <1>4 DEF OwnersInFunctions, OwnersInGlobals
  <2>2. StringsIn(OwnersInFunctions(NewModule)) = {}
        /\ StringsIn(OwnersInGlobals(NewModule)) = {}
    BY <2>1, InRows
  <2> QED BY <1>3, <2>1, <2>2 DEF OwnedBy, Owned, NoAlias
<1>7. FunctionsOk(NewModule) BY <1>4 DEF FunctionsOk
<1>8. TypeOK'
  <2>1. heap' \in Heap BY <1>3 DEF HeapOk
  <2> QED BY <1>2, <1>4, <1>5, <2>1, Order DEF TypeOK, Idle, Heap
<1>9. OrderOk'
  BY <1>2, <1>4, Order DEF OrderOk, Idle, NumFunctions
<1>10. HeapOk(heap)' BY <1>3
<1>11. (module.startFunction <= NumFunctions /\ FunctionsOk(module) /\ ExportsOk(module)
        /\ OwnedBy(heap, module))'
  BY <1>2, <1>4, <1>6, <1>7 DEF NumFunctions, ExportsOk
<1> QED BY <1>2, <1>5, <1>8, <1>9, <1>10, <1>11 DEF IInv

LEMMA OpenSectionStep ==
  ASSUME IInv, NEW s \in Range(SectionsOrder), OpenSection(s)
  PROVE  IInv'
<1>1. module # NULL BY DEF IInv, TypeOK, OpenSection, Between, Idle
<1>2. PICK k \in expected + 1 .. 12 : SectionsOrder[k] = s
  BY Order DEF OpenSection, Accepts
<1>3. expected \in 0 .. 12 BY <1>1, Known
<1>4. Place(s) = k
  <2>1. k \in 1 .. 12 BY <1>2, <1>3
  <2>2. \A j \in 1 .. 12 : SectionsOrder[j] = s <=> j = k BY <1>2, <2>1, Order
  <2> QED BY <2>1, <2>2, Order DEF Place
<1>5. section' = s /\ expected' = k /\ UNCHANGED <<module, heap, exported>>
  BY <1>4 DEF OpenSection
<1>6. section' \in Sections \ {"idle"}
      /\ \A j \in 1 .. 12 : section' = SectionsOrder[j] => expected' = j
  BY <1>2, <1>3, <1>5, Order DEF Sections
<1>7. expected' \in 0 .. 12 /\ expected <= expected' BY <1>2, <1>3, <1>5
<1> QED BY <1>1, <1>5, <1>6, <1>7, SectionChanged

\* A custom section, the end of a section and the end of the module.
LEMMA ElsewhereStep ==
  ASSUME IInv, OpenCustomSection \/ CloseSection \/ Finish
  PROVE  IInv'
<1>1. module # NULL
  BY DEF IInv, TypeOK, OpenCustomSection, CloseSection, Finish, Between, Idle
<1>2. UNCHANGED <<module, heap, exported>> /\ expected' = expected
      /\ section' \in {"between", "parsed", "custom"}
  BY DEF OpenCustomSection, CloseSection, Finish
<1>3. section' \in Sections \ {"idle"}
      /\ \A k \in 1 .. 12 : section' # SectionsOrder[k]
  BY <1>2, Order DEF Sections
<1>4. expected' \in 0 .. 12 /\ expected <= expected' BY <1>1, <1>2, Known
<1> QED BY <1>1, <1>2, <1>3, <1>4, SectionChanged

LEMMA FailStep ==
  ASSUME IInv, Fail \/ FreeParsed
  PROVE  IInv'
<1>1. module # NULL /\ Throw(heap) BY DEF IInv, TypeOK, Fail, FreeParsed, Parsing, Idle
<1>2. HeapOk(heap) /\ heap.sound BY <1>1, Known DEF OwnedBy
<1> QED BY <1>1, <1>2, Thrown

LEMMA TypeStep ==
  ASSUME IInv, NEW count \in 0 .. MaxTypes, ParseSection_Type(count)
  PROVE  IInv'
<1>1. module # NULL /\ section = "type" BY DEF IInv, TypeOK, ParseSection_Type, Idle
<1>2. expected = 1 /\ module.functions = <<>> /\ module.numFuncImports = NumFunctions
  BY <1>1, Known, Order DEF OrderOk
<1>3. NumFunctions = 0 /\ DOMAIN module.functions = {} BY <1>2 DEF NumFunctions
<1>4. module' = [module EXCEPT !.numFuncTypes = count] /\ section' = "between"
      /\ UNCHANGED <<expected, heap, exported>>
  BY DEF ParseSection_Type
<1>5. count \in Nat BY ParserAssumption
<1>6. /\ module' \in Module /\ module'.functions = module.functions
      /\ module'.globals = module.globals /\ module'.startFunction = module.startFunction
      /\ module'.numFuncImports = module.numFuncImports
  BY <1>1, <1>4, <1>5, Known DEF Module
<1>7. OwnedBy(heap', module')
  <2>1. OwnersInFunctions(module') = OwnersInFunctions(module)
        /\ OwnersInGlobals(module') = OwnersInGlobals(module)
    BY <1>6, SameOwners
  <2> QED BY <1>1, <1>4, <2>1, Known DEF OwnedBy
<1>8. FunctionsOk(module') BY <1>2, <1>3, <1>6 DEF FunctionsOk, NumFunctions
<1>9. \A e \in exported' :
        /\ e[1] \in DOMAIN module'.functions
        /\ \/ HasName(module'.functions[e[1]], e[2])
           \/ Len(module'.functions[e[1]].names) = MaxNames
  BY <1>1, <1>4, <1>6, Known DEF ExportsOk
<1>10. HeapOk(heap') /\ exported' \subseteq Nat \X Texts
       /\ module'.startFunction <= Len(module'.functions)
  BY <1>1, <1>4, <1>6, Known DEF NumFunctions
<1> QED BY <1>1, <1>2, <1>4, <1>6, <1>7, <1>8, <1>9, <1>10, Filled DEF NumFunctions

\* A function of the function section, or one that is imported.
LEMMA AddedStep ==
  ASSUME IInv, module # NULL, NEW type \in Nat, type < module.numFuncTypes,
         NEW import \in Import,
         LET new == {import.module, import.field} \ {NULL}
         IN  /\ HeapOk(heap') /\ heap'.sound /\ heap'.live = heap.live \cup new
             /\ new \cap heap.live = {}
             /\ import.module = import.field => import.field = NULL,
         \/ expected = 2 /\ module' = Added(module, type, import, TRUE)
         \/ expected = 3 /\ module' = Added(module, type, import, FALSE) /\ import = NoImport,
         UNCHANGED <<section, expected, exported>>
  PROVE  IInv'
<1>0. PICK isImport \in BOOLEAN :
        /\ module' = Added(module, type, import, isImport)
        /\ isImport => expected = 2
        /\ ~isImport => expected = 3 /\ import = NoImport
  <2>1. CASE expected = 2 /\ module' = Added(module, type, import, TRUE) BY <2>1, Zenon
  <2>2. CASE expected = 3 /\ module' = Added(module, type, import, FALSE) /\ import = NoImport
    BY <2>2, Zenon
  <2> QED BY <2>1, <2>2
<1> DEFINE n == NumFunctions
           more == Added(module, type, import, isImport)
<1>1. module \in Module /\ FunctionsOk(module) /\ n = Len(module.functions) /\ n \in Nat
  BY Known DEF NumFunctions
<1>2. isImport => module.numFuncImports = n BY <1>0, Known DEF OrderOk
<1>3. /\ more \in Module /\ FunctionsOk(more)
      /\ Len(more.functions) = n + 1 /\ more.globals = module.globals
      /\ more.startFunction = module.startFunction
      /\ more.numFuncImports = IF isImport THEN n + 1 ELSE module.numFuncImports
      /\ \A i \in 1 .. n : more.functions[i] = module.functions[i]
      /\ more.functions[n + 1].import = import
      /\ Len(more.functions[n + 1].names) = IF isImport THEN 1 ELSE 0
  <2> HIDE DEF n
  <2>1. isImport => module.numFuncImports = Len(module.functions) BY <1>1, <1>2
  <2> QED BY <1>1, <1>0, <2>1, FunctionAdded
<1> DEFINE f == more.functions[Len(more.functions)]
           new == {import.module, import.field} \ {NULL}
<1>4. f = more.functions[n + 1] BY <1>3
<1>5. \A i \in 1 .. n : i <= module.numFuncImports <=> i <= more.numFuncImports
  BY <1>1, <1>2, <1>3
<1>6. Owned(heap.live \cup new, OwnersInFunctions(more), OwnersInGlobals(more))
  <2>1. Owned(heap.live, OwnersInFunctions(module), OwnersInGlobals(module))
    BY Known DEF OwnedBy
  <2>2. /\ new \cap heap.live = {}
        /\ f.import.module = f.import.field => f.import.field = NULL
        /\ \/ Len(f.names) = 0
           \/ Len(f.names) = 1 /\ more.numFuncImports = Len(more.functions)
        /\ f.import = import
    BY <1>3, <1>4
  <2> HIDE DEF more, n
  <2>3. /\ Len(more.functions) = Len(module.functions) + 1
        /\ \A i \in 1 .. Len(module.functions) :
             /\ more.functions[i] = module.functions[i]
             /\ i <= module.numFuncImports <=> i <= more.numFuncImports
    BY <1>1, <1>3, <1>5
  <2> QED BY <1>1, <1>3, <2>1, <2>2, <2>3, FunctionOwns
<1>7. module' = more BY <1>0
<1> HIDE DEF more
<1>8. DOMAIN more.functions = 1 .. n + 1 BY <1>3, OwnersRows
<1>9. \A e \in exported' :
        /\ e[1] \in DOMAIN module'.functions
        /\ \/ HasName(module'.functions[e[1]], e[2])
           \/ Len(module'.functions[e[1]].names) = MaxNames
  <2>1. \A e \in exported :
          /\ e[1] \in 1 .. n
          /\ \/ HasName(module.functions[e[1]], e[2])
             \/ Len(module.functions[e[1]].names) = MaxNames
    BY Known DEF ExportsOk
  <2>2. 1 .. n \subseteq 1 .. n + 1 BY <1>1
  <2> HIDE DEF n
  <2> QED BY <1>3, <1>7, <1>8, <2>1, <2>2
<1>10. module'.startFunction <= Len(module'.functions)
  BY <1>1, <1>3, <1>7, Known
<1>11. OwnedBy(heap', module') BY <1>6, <1>7 DEF OwnedBy
<1>12. expected <= 2 => module'.numFuncImports = Len(module'.functions)
  <2>1. expected \in 0 .. 12 BY Known
  <2> QED BY <1>3, <1>7, <1>0, <2>1
<1>13. ~(expected <= 1)
  <2>1. expected = 2 \/ expected = 3 BY <1>0
  <2> QED BY <2>1
<1>14. exported' \subseteq Nat \X Texts BY Known
<1> QED BY <1>3, <1>7, <1>9, <1>10, <1>11, <1>12, <1>13, <1>14, Filled

LEMMA CopiedTexts ==
  ASSUME NEW texts \in SUBSET Texts
  PROVE  Copied(texts) \subseteq Texts \cup {NULL}
BY DEF Copied

LEMMA ImportFunctionStep ==
  ASSUME IInv, NEW m \in Texts \cup {NULL}, NEW f \in Texts \cup {NULL},
         NEW type \in 0 .. MaxTypes, ImportFunction(m, f, type)
  PROVE  IInv'
<1> DEFINE read == ImportStrings(m, f)
<1>1. module # NULL /\ section = "import" BY DEF IInv, TypeOK, ImportFunction, Idle
<1>2. expected = 2 BY <1>1, Known, Order DEF OrderOk
<1>3. HeapOk(heap) /\ heap.sound BY <1>1, Known DEF OwnedBy
<1>4. LET new  == {read.import.module, read.import.field} \ {NULL}
          back == Free(read.heap, FreeImportInfo(read.import))
      IN  /\ HeapOk(read.heap) /\ read.heap.live = heap.live \cup new
          /\ read.heap.sound = heap.sound
          /\ read.import \in Import /\ new \cap heap.live = {}
          /\ read.import.module = read.import.field => read.import.field = NULL
          /\ HeapOk(back) /\ back.live = heap.live
          /\ heap.sound => back.sound
  BY <1>3, ReadImport
<1>5. type \in Nat BY ParserAssumption
<1>6. CASE type < module.numFuncTypes
  <2>1. /\ module' = Added(module, type, read.import, TRUE)
        /\ heap' = read.heap /\ UNCHANGED <<section, expected, exported>>
    BY <1>6 DEF ImportFunction, Added
  <2> HIDE DEF read
  <2> QED BY <1>1, <1>2, <1>3, <1>4, <1>5, <1>6, <2>1, AddedStep
<1>7. CASE ~(type < module.numFuncTypes)
  <2>1. Throw(Free(read.heap, FreeImportInfo(read.import)))
    BY <1>7 DEF ImportFunction
  <2> HIDE DEF read
  <2> QED BY <1>1, <1>3, <1>4, <2>1, Thrown
<1> QED BY <1>6, <1>7

LEMMA FunctionEntryStep ==
  ASSUME IInv, NEW type \in 0 .. MaxTypes, FunctionEntry(type)
  PROVE  IInv'
<1>1. module # NULL /\ section = "function" BY DEF IInv, TypeOK, FunctionEntry, Idle
<1>2. expected = 3 BY <1>1, Known, Order DEF OrderOk
<1>3. HeapOk(heap) /\ heap.sound BY <1>1, Known DEF OwnedBy
<1>4. type \in Nat BY ParserAssumption
<1>5. NoImport \in Import /\ NoImport.module = NULL /\ NoImport.field = NULL
  BY DEF NoImport, Import
<1>6. /\ module' = Added(module, type, NoImport, FALSE) /\ type < module.numFuncTypes
      /\ UNCHANGED <<section, expected, heap, exported>>
  BY DEF FunctionEntry, Added
<1>7. {NoImport.module, NoImport.field} \ {NULL} = {} BY <1>5
<1> QED BY <1>1, <1>2, <1>3, <1>4, <1>5, <1>6, <1>7, AddedStep

\* Only globals and strings change, and strings are still owned.
LEMMA GlobalsStep ==
  ASSUME IInv, module # NULL, module' \in Module,
         module' = [module EXCEPT !.globals = module'.globals],
         HeapOk(heap'), OwnedBy(heap', module'), UNCHANGED <<section, expected, exported>>
  PROVE  IInv'
<1>1. /\ module'.functions = module.functions /\ module'.numFuncTypes = module.numFuncTypes
      /\ module'.startFunction = module.startFunction
      /\ module'.numFuncImports = module.numFuncImports
  <2>1. module = [numFuncTypes |-> module.numFuncTypes,
                  numFuncImports |-> module.numFuncImports,
                  functions |-> module.functions, globals |-> module.globals,
                  startFunction |-> module.startFunction]
    BY Known
  <2> QED BY <2>1
<1>2. FunctionsOk(module') BY <1>1, Known DEF FunctionsOk
<1>3. \A e \in exported' :
        /\ e[1] \in DOMAIN module'.functions
        /\ \/ HasName(module'.functions[e[1]], e[2])
           \/ Len(module'.functions[e[1]].names) = MaxNames
  BY <1>1, Known DEF ExportsOk
<1>4. /\ module'.startFunction <= Len(module'.functions) /\ exported' \subseteq Nat \X Texts
      /\ expected <= 1 => module'.functions = <<>>
  BY <1>1, Known DEF NumFunctions, OrderOk
<1>5. expected <= 2 => module'.numFuncImports = Len(module'.functions)
  BY <1>1, Known DEF NumFunctions, OrderOk
<1> QED BY <1>2, <1>3, <1>4, <1>5, Filled

LEMMA ImportGlobalStep ==
  ASSUME IInv, NEW m \in Texts \cup {NULL}, NEW f \in Texts \cup {NULL}, ImportGlobal(m, f)
  PROVE  IInv'
<1> DEFINE read == ImportStrings(m, f)
           new == {read.import.module, read.import.field} \ {NULL}
           more == AddGlobal(module, read.import)
<1>1. module # NULL BY DEF IInv, TypeOK, ImportGlobal, Idle
<1>2. HeapOk(heap) /\ heap.sound /\ module \in Module BY <1>1, Known DEF OwnedBy
<1>3. /\ HeapOk(read.heap) /\ read.heap.live = heap.live \cup new
      /\ read.heap.sound = heap.sound
      /\ read.import \in Import /\ new \cap heap.live = {}
      /\ read.import.module = read.import.field => read.import.field = NULL
  BY <1>2, ReadImport
<1>4. Owned(heap.live, OwnersInFunctions(module), OwnersInGlobals(module))
  BY <1>1, Known DEF OwnedBy
<1>5. module' = more /\ heap' = read.heap /\ UNCHANGED <<section, expected, exported>>
  BY DEF ImportGlobal
<1>6. /\ more \in Module /\ more = [module EXCEPT !.globals = more.globals]
      /\ Owned(heap.live \cup new, OwnersInFunctions(more), OwnersInGlobals(more))
  <2> HIDE DEF read
  <2> QED BY <1>2, <1>3, <1>4, GlobalAdded
<1> HIDE DEF more, read
<1>7. HeapOk(heap') /\ OwnedBy(heap', more)
  BY <1>2, <1>3, <1>5, <1>6 DEF OwnedBy
<1> QED BY <1>1, <1>5, <1>6, <1>7, GlobalsStep

LEMMA GlobalEntryStep ==
  ASSUME IInv, GlobalEntry
  PROVE  IInv'
<1> DEFINE more == AddGlobal(module, NoImport)
<1>1. module # NULL BY DEF IInv, TypeOK, GlobalEntry, Idle
<1>2. HeapOk(heap) /\ heap.sound /\ module \in Module BY <1>1, Known DEF OwnedBy
<1>3. Owned(heap.live, OwnersInFunctions(module), OwnersInGlobals(module))
  BY <1>1, Known DEF OwnedBy
<1>4. NoImport \in Import /\ NoImport.module = NULL /\ NoImport.field = NULL
      /\ {NoImport.module, NoImport.field} \ {NULL} = {}
  BY DEF NoImport, Import
<1>5. module' = more /\ UNCHANGED <<heap, section, expected, exported>>
  BY DEF GlobalEntry
<1>6. /\ more \in Module /\ more = [module EXCEPT !.globals = more.globals]
      /\ Owned(heap.live \cup {}, OwnersInFunctions(more), OwnersInGlobals(more))
  BY <1>2, <1>3, <1>4, GlobalAdded
<1> HIDE DEF more
<1>7. heap.live \cup {} = heap.live OBVIOUS
<1>8. HeapOk(heap') /\ OwnedBy(heap', more)
  BY <1>2, <1>5, <1>6, <1>7 DEF OwnedBy
<1> QED BY <1>1, <1>5, <1>6, <1>8, GlobalsStep

\* What was read is freed, and the module stays as it is.
LEMMA SameModuleStep ==
  ASSUME IInv, module # NULL, HeapOk(heap'), heap'.live = heap.live, heap'.sound,
         UNCHANGED <<module, section, expected>>,
         exported' \subseteq Nat \X Texts,
         \A e \in exported' \ exported :
           /\ e[1] \in DOMAIN module.functions
           /\ \/ HasName(module.functions[e[1]], e[2])
              \/ Len(module.functions[e[1]].names) = MaxNames
  PROVE  IInv'
<1>1. OwnedBy(heap', module') BY Known DEF OwnedBy
<1>2. \A e \in exported' :
        /\ e[1] \in DOMAIN module'.functions
        /\ \/ HasName(module'.functions[e[1]], e[2])
           \/ Len(module'.functions[e[1]].names) = MaxNames
  BY Known DEF ExportsOk
<1>3. /\ module' \in Module /\ FunctionsOk(module')
      /\ module'.startFunction <= Len(module'.functions)
  BY Known DEF NumFunctions
<1>4. /\ expected <= 1 => module'.functions = <<>>
      /\ expected <= 2 => module'.numFuncImports = Len(module'.functions)
  BY Known DEF NumFunctions, OrderOk
<1> QED BY <1>1, <1>2, <1>3, <1>4, Filled

LEMMA ImportOtherStep ==
  ASSUME IInv, NEW m \in Texts \cup {NULL}, NEW f \in Texts \cup {NULL},
         ImportOther(m, f) \/ ImportFails(m, f)
  PROVE  IInv'
<1> DEFINE read == ImportStrings(m, f)
           back == Free(read.heap, FreeImportInfo(read.import))
<1>1. module # NULL BY DEF IInv, TypeOK, ImportOther, ImportFails, Idle
<1>2. HeapOk(heap) /\ heap.sound /\ exported \subseteq Nat \X Texts
  BY <1>1, Known DEF OwnedBy
<1>3. HeapOk(back) /\ back.live = heap.live /\ back.sound BY <1>2, ReadImport
<1>4. CASE ImportOther(m, f)
  <2>1. heap' = back /\ UNCHANGED <<module, section, expected, exported>>
    BY <1>4 DEF ImportOther
  <2> HIDE DEF back
  <2> QED BY <1>1, <1>2, <1>3, <2>1, SameModuleStep
<1>5. CASE ImportFails(m, f)
  <2>1. Throw(back) BY <1>5 DEF ImportFails
  <2> HIDE DEF back
  <2> QED BY <1>1, <1>3, <2>1, Thrown
<1> QED BY <1>4, <1>5

\* The function at i gets a name that was read, and may have been exported under it.
LEMMA NamedStep ==
  ASSUME IInv, module # NULL, NEW text \in Texts \cup {NULL},
         NEW i \in DOMAIN module.functions, Len(module.functions[i].names) < MaxNames,
         module' = [module EXCEPT !.functions[i].names =
                      Append(@, Read_utf8(heap, text).string)],
         heap' = Read_utf8(heap, text).heap,
         UNCHANGED <<section, expected>>,
         \/ exported' = exported
         \/ text # NULL /\ exported' = exported \cup {<<i, text>>}
  PROVE  IInv'
<1> DEFINE read == Read_utf8(heap, text)
           s == read.string
<1>1. /\ HeapOk(heap) /\ heap.sound /\ module \in Module /\ FunctionsOk(module)
      /\ Owned(heap.live, OwnersInFunctions(module), OwnersInGlobals(module))
  BY Known DEF OwnedBy
<1>2. /\ HeapOk(read.heap) /\ s \in String \cup {NULL}
      /\ s = NULL <=> text = NULL
      /\ s # NULL => s.text = text
      /\ s \notin heap.live
      /\ read.heap.live = heap.live \cup ({s} \ {NULL})
      /\ read.heap.sound = heap.sound
  BY <1>1, ReadString
<1>3. module' = [module EXCEPT !.functions[i].names = Append(@, s)] /\ heap' = read.heap
  OBVIOUS
<1> HIDE DEF read
<1>4. /\ module' \in Module /\ FunctionsOk(module')
      /\ Renamed(module, module', i, s)
      /\ Owned(heap.live \cup ({s} \ {NULL}), OwnersInFunctions(module'),
               OwnersInGlobals(module'))
  <2>1. module' = WithName(module, i, s) BY <1>3 DEF WithName
  <2>2. module \in Module /\ FunctionsOk(module) /\ s \in String \cup {NULL}
        /\ i \in DOMAIN module.functions /\ Len(module.functions[i].names) < MaxNames
    BY <1>1, <1>2
  <2>3. s \notin heap.live
        /\ Owned(heap.live, OwnersInFunctions(module), OwnersInGlobals(module))
    BY <1>1, <1>2
  <2> HIDE DEF s
  <2>4. module' \in Module /\ FunctionsOk(module')
    BY ONLY <2>1, <2>2, <2>3, NameAdded, Zenon
  <2>5. Renamed(module, module', i, s) BY ONLY <2>1, <2>2, <2>3, NameAdded, Zenon
  <2>6. Owned(heap.live \cup ({s} \ {NULL}), OwnersInFunctions(module'),
              OwnersInGlobals(module'))
    BY ONLY <2>1, <2>2, <2>3, NameAdded, Zenon
  <2> QED BY <2>4, <2>5, <2>6
<1>5. HeapOk(heap') /\ OwnedBy(heap', module') BY <1>1, <1>2, <1>3, <1>4 DEF OwnedBy
<1>7. Len(module'.functions) = NumFunctions
  <2>1. /\ DOMAIN module'.functions = 1 .. Len(module'.functions)
        /\ Len(module'.functions) \in Nat
    BY <1>4, OwnersRows
  <2>2. NumFunctions \in Nat /\ DOMAIN module.functions = 1 .. NumFunctions BY Known
  <2> QED BY <1>4, <2>1, <2>2 DEF Renamed
<1>8. \A e \in exported :
        /\ e[1] \in DOMAIN module'.functions
        /\ \/ HasName(module'.functions[e[1]], e[2])
           \/ Len(module'.functions[e[1]].names) = MaxNames
  <2>1. \A e \in exported :
          /\ e[1] \in DOMAIN module.functions
          /\ \/ HasName(module.functions[e[1]], e[2])
             \/ Len(module.functions[e[1]].names) = MaxNames
    BY Known DEF ExportsOk
  <2>2. \A t : HasName(module.functions[i], t) => HasName(module'.functions[i], t)
    BY <1>4 DEF HasName, Renamed
  <2>3. Len(module.functions[i].names) # MaxNames
    <3>1. module.functions[i] \in Function BY <1>1, OwnersRows
    <3>2. Len(module.functions[i].names) \in Nat /\ MaxNames \in Nat
      BY <3>1, FunctionParts, ParserAssumption
    <3> QED BY <3>2
  <2> QED BY <1>4, <2>1, <2>2, <2>3 DEF Renamed
<1>9. text # NULL => HasName(module'.functions[i], text) BY <1>2, <1>4 DEF HasName, Renamed
<1>10. \A e \in exported' :
         /\ e[1] \in DOMAIN module'.functions
         /\ \/ HasName(module'.functions[e[1]], e[2])
            \/ Len(module'.functions[e[1]].names) = MaxNames
  <2>1. i \in DOMAIN module'.functions BY <1>4 DEF Renamed
  <2>2. CASE exported' = exported BY <1>8, <2>2
  <2>3. CASE text # NULL /\ exported' = exported \cup {<<i, text>>}
    <3>1. <<i, text>>[1] = i /\ <<i, text>>[2] = text OBVIOUS
    <3> QED BY <1>8, <1>9, <2>1, <2>3, <3>1
  <2> QED BY <2>2, <2>3
<1>11. exported' \subseteq Nat \X Texts
  <2>1. i \in Nat /\ exported \subseteq Nat \X Texts
    <3>1. i \in 1 .. NumFunctions /\ NumFunctions \in Nat BY Known
    <3> QED BY <3>1, Known
  <2> QED BY <2>1
<1>12. /\ module'.startFunction <= Len(module'.functions)
       /\ expected <= 2 => module'.numFuncImports = Len(module'.functions)
  BY <1>4, <1>7, Known DEF OrderOk, Renamed
<1>13. expected <= 1 => module'.functions = <<>>
  <2>1. i \in 1 .. NumFunctions /\ NumFunctions \in Nat BY Known
  <2>2. expected <= 1 => NumFunctions = 0 BY Known DEF OrderOk, NumFunctions
  <2> QED BY <2>1, <2>2
<1> QED BY <1>4, <1>5, <1>10, <1>11, <1>12, <1>13, Filled

LEMMA ExportFunctionStep ==
  ASSUME IInv, NEW text \in Texts \cup {NULL}, NEW i \in Indices, ExportFunction(text, i)
  PROVE  IInv'
<1> DEFINE read == Read_utf8(heap, text)
           back == Free(read.heap, <<read.string>>)
<1>1. module # NULL BY DEF IInv, TypeOK, ExportFunction, Idle
<1>2. HeapOk(heap) /\ heap.sound /\ exported \subseteq Nat \X Texts
  BY <1>1, Known DEF OwnedBy
<1>3. HeapOk(back) /\ back.live = heap.live /\ back.sound BY <1>2, ReadName
<1>4. CASE i \notin DOMAIN module.functions
  <2>1. Throw(back) BY <1>4 DEF ExportFunction
  <2> HIDE DEF back
  <2> QED BY <1>1, <1>3, <2>1, Thrown
<1>5. CASE i \in DOMAIN module.functions /\ Len(module.functions[i].names) < MaxNames
  <2>1. /\ module' = [module EXCEPT !.functions[i].names = Append(@, read.string)]
        /\ heap' = read.heap
        /\ exported' = IF text = NULL THEN exported ELSE exported \cup {<<i, text>>}
        /\ UNCHANGED <<section, expected>>
    BY <1>5 DEF ExportFunction
  <2>2. exported' = exported \/ (text # NULL /\ exported' = exported \cup {<<i, text>>})
    BY <2>1
  <2> QED BY <1>1, <1>5, <2>1, <2>2, NamedStep
<1>6. CASE i \in DOMAIN module.functions /\ ~(Len(module.functions[i].names) < MaxNames)
  <2>1. /\ heap' = back /\ UNCHANGED <<module, section, expected>>
        /\ exported' = IF text = NULL THEN exported ELSE exported \cup {<<i, text>>}
    BY <1>6 DEF ExportFunction
  <2>2. Len(module.functions[i].names) = MaxNames
    <3>1. Len(module.functions[i].names) <= MaxNames BY <1>1, <1>6, Known DEF FunctionsOk
    <3>2. module.functions[i] \in Function BY <1>1, <1>6, Known, OwnersRows
    <3>3. Len(module.functions[i].names) \in Nat BY <3>2, FunctionParts
    <3> QED BY <1>6, <3>1, <3>3, ParserAssumption
  <2>3. i \in Nat
    <3>1. i \in 1 .. NumFunctions /\ NumFunctions \in Nat BY <1>1, <1>6, Known
    <3> QED BY <3>1
  <2>4. exported' \subseteq Nat \X Texts BY <1>2, <2>1, <2>3
  <2>5. \A e \in exported' \ exported :
          /\ e[1] \in DOMAIN module.functions
          /\ \/ HasName(module.functions[e[1]], e[2])
             \/ Len(module.functions[e[1]].names) = MaxNames
    BY <1>6, <2>1, <2>2
  <2> HIDE DEF back
  <2> QED BY <1>1, <1>3, <2>1, <2>4, <2>5, SameModuleStep
<1> QED BY <1>4, <1>5, <1>6

LEMMA ExportGlobalStep ==
  ASSUME IInv, NEW text \in Texts \cup {NULL}, NEW i \in Indices, ExportGlobal(text, i)
  PROVE  IInv'
<1> DEFINE read == Read_utf8(heap, text)
           back == Free(read.heap, <<read.string>>)
<1>1. module # NULL BY DEF IInv, TypeOK, ExportGlobal, Idle
<1>2. HeapOk(heap) /\ heap.sound /\ module \in Module
      /\ Owned(heap.live, OwnersInFunctions(module), OwnersInGlobals(module))
  BY <1>1, Known DEF OwnedBy
<1>3. CASE i \notin DOMAIN module.globals
  <2>1. HeapOk(back) /\ back.live = heap.live /\ back.sound BY <1>2, ReadName
  <2>2. Throw(back) BY <1>3 DEF ExportGlobal
  <2> HIDE DEF back
  <2> QED BY <1>1, <2>1, <2>2, Thrown
<1>4. CASE i \in DOMAIN module.globals
  <2> DEFINE freed == Free(read.heap, <<module.globals[i].name>>)
             more == [module EXCEPT !.globals[i].name = read.string]
  <2>1. /\ HeapOk(read.heap) /\ read.string \in String \cup {NULL}
        /\ read.string \notin heap.live /\ read.heap.sound
        /\ read.heap.live = heap.live \cup ({read.string} \ {NULL})
    BY <1>2, ReadString
  <2>2. module' = more /\ heap' = freed /\ UNCHANGED <<section, expected, exported>>
    BY <1>4 DEF ExportGlobal
  <2> HIDE DEF read
  <2>3. /\ more \in Module /\ more = [module EXCEPT !.globals = more.globals]
        /\ HeapOk(freed) /\ freed.sound
        /\ Owned(freed.live, OwnersInFunctions(more), OwnersInGlobals(more))
    BY <1>2, <1>4, <2>1, GlobalNamed
  <2> HIDE DEF freed, more
  <2>4. OwnedBy(heap', module') BY <2>2, <2>3 DEF OwnedBy
  <2> QED BY <1>1, <2>2, <2>3, <2>4, GlobalsStep
<1> QED BY <1>3, <1>4

LEMMA NameEntryStep ==
  ASSUME IInv, NEW text \in Texts \cup {NULL}, NEW i \in Indices, NameEntry(text, i)
  PROVE  IInv'
<1> DEFINE read == Read_utf8(heap, text)
           back == Free(read.heap, <<read.string>>)
<1>1. module # NULL BY DEF IInv, TypeOK, NameEntry, Idle
<1>2. HeapOk(heap) /\ heap.sound /\ exported \subseteq Nat \X Texts
  BY <1>1, Known DEF OwnedBy
<1>3. CASE i \in DOMAIN module.functions /\ module.functions[i].names = <<>>
  <2>1. /\ module' = [module EXCEPT !.functions[i].names = <<read.string>>]
        /\ heap' = read.heap /\ UNCHANGED <<section, expected, exported>>
    BY <1>3 DEF NameEntry
  <2>2. read.string \in String \cup {NULL} BY <1>2, ReadString
  <2> HIDE DEF read
  <2>3. Append(<<>>, read.string) = <<read.string>> BY <2>2
  <2>4. module' = [module EXCEPT !.functions[i].names = Append(@, read.string)]
    BY <1>3, <2>1, <2>3
  <2>5. Len(module.functions[i].names) < MaxNames BY <1>3, ParserAssumption
  <2> QED BY <1>1, <1>3, <2>1, <2>4, <2>5, NamedStep DEF read
<1>4. CASE ~(i \in DOMAIN module.functions /\ module.functions[i].names = <<>>)
  <2>1. HeapOk(back) /\ back.live = heap.live /\ back.sound BY <1>2, ReadName
  <2>2. heap' = back /\ UNCHANGED <<module, section, expected, exported>>
    BY <1>4 DEF NameEntry
  <2> HIDE DEF back
  <2> QED BY <1>1, <1>2, <2>1, <2>2, SameModuleStep
<1> QED BY <1>3, <1>4

\* Functions change, but not what they are called nor what they import.
LEMMA FunctionsStep ==
  ASSUME IInv, module # NULL, module' \in Module,
         Len(module'.functions) = NumFunctions, module'.globals = module.globals,
         module'.numFuncTypes = module.numFuncTypes,
         module'.numFuncImports = module.numFuncImports,
         module'.startFunction <= NumFunctions,
         \A i \in 1 .. NumFunctions :
           LET f == module.functions[i]
               g == module'.functions[i]
           IN  /\ g.funcType = f.funcType /\ g.import = f.import /\ g.names = f.names
               /\ g.body => f.body \/ i > module.numFuncImports,
         section' = "between", UNCHANGED <<expected, heap, exported>>
  PROVE  IInv'
<1>1. /\ DOMAIN module.functions = 1 .. NumFunctions /\ NumFunctions \in Nat
      /\ DOMAIN module'.functions = 1 .. NumFunctions
      /\ module.numFuncImports \in Nat
  BY Known, OwnersRows
<1>2. OwnedBy(heap', module')
  <2>1. OwnersInFunctions(module') = OwnersInFunctions(module)
        /\ OwnersInGlobals(module') = OwnersInGlobals(module)
    BY <1>1, SameOwners
  <2> QED BY <2>1, Known DEF OwnedBy
<1>3. FunctionsOk(module')
  <2>1. FunctionsOk(module) BY Known
  <2>2. \A i \in 1 .. NumFunctions :
          /\ module'.functions[i].funcType < module'.numFuncTypes
          /\ Len(module'.functions[i].names) <= MaxNames
          /\ i > module.numFuncImports => module'.functions[i].import = NoImport
    BY <1>1, <2>1 DEF FunctionsOk
  <2>3. \A i \in 1 .. NumFunctions : i <= module.numFuncImports =>
          /\ ~module.functions[i].body /\ ~(i > module.numFuncImports)
          /\ module.functions[i].names # <<>>
          /\ module.functions[i].names[1] = module.functions[i].import.field
    BY <1>1, <2>1 DEF FunctionsOk
  <2>4. \A i \in 1 .. NumFunctions : i <= module.numFuncImports =>
          /\ ~module'.functions[i].body /\ module'.functions[i].names # <<>>
          /\ module'.functions[i].names[1] = module'.functions[i].import.field
    BY <2>3
  <2>5. module.numFuncImports <= NumFunctions BY <2>1 DEF FunctionsOk, NumFunctions
  <2> QED BY <1>1, <2>2, <2>4, <2>5 DEF FunctionsOk
<1>4. \A e \in exported' :
        /\ e[1] \in DOMAIN module'.functions
        /\ \/ HasName(module'.functions[e[1]], e[2])
           \/ Len(module'.functions[e[1]].names) = MaxNames
  BY <1>1, Known DEF ExportsOk, HasName
<1>5. HeapOk(heap') /\ exported' \subseteq Nat \X Texts BY Known
<1>6. /\ expected <= 1 => module'.functions = <<>>
      /\ expected <= 2 => module'.numFuncImports = Len(module'.functions)
  <2>1. expected <= 1 => NumFunctions = 0 BY Known DEF OrderOk, NumFunctions
  <2>2. Len(module'.functions) = 0 => module'.functions = <<>>
    <3>1. module'.functions \in Seq(Function) BY DEF Module
    <3> QED BY <3>1
  <2> QED BY <2>1, <2>2, Known DEF OrderOk
<1> QED BY <1>2, <1>3, <1>4, <1>5, <1>6, Filled

LEMMA StartStep ==
  ASSUME IInv, NEW i \in 1 .. MaxFunctions, ParseSection_Start(i)
  PROVE  IInv'
<1>1. module # NULL BY DEF IInv, TypeOK, ParseSection_Start, Idle
<1>2. /\ module' = [module EXCEPT !.startFunction = i] /\ i \in DOMAIN module.functions
      /\ section' = "between" /\ UNCHANGED <<expected, heap, exported>>
  BY DEF ParseSection_Start
<1>3. i \in 1 .. NumFunctions /\ NumFunctions \in Nat BY <1>1, <1>2, Known
<1>4. /\ module' \in Module /\ module'.functions = module.functions
      /\ module'.globals = module.globals /\ module'.numFuncTypes = module.numFuncTypes
      /\ module'.numFuncImports = module.numFuncImports /\ module'.startFunction = i
  BY <1>1, <1>2, <1>3, Known DEF Module
<1> QED BY <1>1, <1>2, <1>3, <1>4, FunctionsStep DEF NumFunctions

LEMMA CodeStep ==
  ASSUME IInv, NEW bodies \in SUBSET (1 .. MaxFunctions), ParseSection_Code(bodies)
  PROVE  IInv'
<1> DEFINE old == module.functions
           new == [i \in DOMAIN old |-> IF i \in bodies THEN [old[i] EXCEPT !.body = TRUE]
                                                        ELSE old[i]]
<1>1. module # NULL BY DEF IInv, TypeOK, ParseSection_Code, Idle
<1>2. /\ module' = [module EXCEPT !.functions = new]
      /\ bodies \subseteq {i \in DOMAIN old : i > module.numFuncImports}
      /\ section' = "between" /\ UNCHANGED <<expected, heap, exported>>
  BY DEF ParseSection_Code
<1>3. NumFunctions \in Nat /\ DOMAIN old = 1 .. NumFunctions
      /\ \A i \in 1 .. NumFunctions : old[i] \in Function
  BY <1>1, Known, OwnersRows
<1>4. \A i \in 1 .. NumFunctions :
        /\ new[i] \in Function
        /\ new[i].funcType = old[i].funcType /\ new[i].import = old[i].import
        /\ new[i].names = old[i].names
        /\ new[i].body => old[i].body \/ i > module.numFuncImports
  <2>1. ASSUME NEW f \in Function, NEW g, g = [f EXCEPT !.body = TRUE]
        PROVE  /\ g \in Function /\ g.funcType = f.funcType /\ g.import = f.import
               /\ g.names = f.names
    BY <2>1 DEF Function
  <2> SUFFICES ASSUME NEW i \in 1 .. NumFunctions
               PROVE  /\ new[i] \in Function
                      /\ new[i].funcType = old[i].funcType /\ new[i].import = old[i].import
                      /\ new[i].names = old[i].names
                      /\ new[i].body => old[i].body \/ i > module.numFuncImports
    OBVIOUS
  <2>2. CASE i \in bodies
    <3>1. new[i] = [old[i] EXCEPT !.body = TRUE] /\ i > module.numFuncImports
      BY <1>2, <1>3, <2>2
    <3> HIDE DEF new, old
    <3> QED BY <1>3, <2>1, <3>1
  <2>3. CASE i \notin bodies
    <3>1. new[i] = old[i] BY <1>3, <2>3
    <3> HIDE DEF new, old
    <3> QED BY <1>3, <3>1
  <2> QED BY <2>2, <2>3
<1>5. new \in Seq(Function) /\ Len(new) = NumFunctions
  <2>1. new \in [1 .. NumFunctions -> Function]
    <3>1. DOMAIN new = 1 .. NumFunctions /\ new = [i \in DOMAIN new |-> new[i]] BY <1>3
    <3> HIDE DEF new
    <3> QED BY <1>4, <3>1
  <2> HIDE DEF new
  <2> QED BY <1>3, <2>1
<1> HIDE DEF new
<1>6. /\ module' \in Module /\ module'.functions = new
      /\ module'.globals = module.globals /\ module'.numFuncTypes = module.numFuncTypes
      /\ module'.numFuncImports = module.numFuncImports
      /\ module'.startFunction = module.startFunction
  BY <1>1, <1>2, <1>5, Known DEF Module
<1>7. module'.startFunction <= NumFunctions BY <1>1, <1>6, Known
<1> QED BY <1>1, <1>2, <1>4, <1>5, <1>6, <1>7, FunctionsStep

-----------------------------------------------------------------------------
(* Theorems                                                                *)

\* IInv is an inductive invariant, for any texts and any bounds.
THEOREM Invariance == Spec => []IInv
<1>1. IInv /\ [Next]_vars => IInv'
  <2> SUFFICES ASSUME IInv, [Next]_vars PROVE IInv'
    OBVIOUS
  <2>1. CASE Begin \/ OpenCustomSection \/ CloseSection \/ Finish \/ Fail \/ FreeParsed
    BY <2>1, BeginStep, ElsewhereStep, FailStep
  <2>2. CASE \E s \in Range(SectionsOrder) : OpenSection(s) BY <2>2, OpenSectionStep
  <2>3. CASE \E count \in 0 .. MaxTypes : ParseSection_Type(count) BY <2>3, TypeStep
  <2>4. CASE \E m \in Copied(Foreign), f \in Copied(Foreign) :
               \/ \E type \in 0 .. MaxTypes : ImportFunction(m, f, type)
               \/ ImportGlobal(m, f)
               \/ ImportOther(m, f)
               \/ ImportFails(m, f)
    <3>1. Copied(Foreign) \subseteq Texts \cup {NULL} BY CopiedTexts, ParserAssumption
    <3>2. PICK m \in Texts \cup {NULL}, f \in Texts \cup {NULL} :
            \/ \E type \in 0 .. MaxTypes : ImportFunction(m, f, type)
            \/ ImportGlobal(m, f)
            \/ ImportOther(m, f)
            \/ ImportFails(m, f)
      BY <2>4, <3>1
    <3> QED BY <3>2, ImportFunctionStep, ImportGlobalStep, ImportOtherStep
  <2>5. CASE \E type \in 0 .. MaxTypes : FunctionEntry(type) BY <2>5, FunctionEntryStep
  <2>6. CASE GlobalEntry BY <2>6, GlobalEntryStep
  <2>7. CASE \E i \in Indices :
               \/ \E text \in Copied(Texts) : ExportFunction(text, i) \/ NameEntry(text, i)
               \/ \E text \in Copied(Foreign) : ExportGlobal(text, i)
    <3>1. Copied(Texts) \subseteq Texts \cup {NULL}
          /\ Copied(Foreign) \subseteq Texts \cup {NULL}
      BY CopiedTexts, ParserAssumption
    <3>2. PICK i \in Indices : \E text \in Texts \cup {NULL} :
            ExportFunction(text, i) \/ NameEntry(text, i) \/ ExportGlobal(text, i)
      BY <2>7, <3>1
    <3> QED BY <3>2, ExportFunctionStep, NameEntryStep, ExportGlobalStep
  <2>8. CASE \E i \in 1 .. MaxFunctions : ParseSection_Start(i) BY <2>8, StartStep
  <2>9. CASE \E bodies \in SUBSET (1 .. MaxFunctions) : ParseSection_Code(bodies)
    BY <2>9, CodeStep
  <2>10. CASE UNCHANGED vars
    <3>1. /\ module' = module /\ section' = section /\ expected' = expected
          /\ heap' = heap /\ exported' = exported
      BY <2>10 DEF vars
    <3> QED BY <3>1 DEF IInv, TypeOK, OrderOk, Idle, NumFunctions, ExportsOk
  <2> QED
    BY <2>1, <2>2, <2>3, <2>4, <2>5, <2>6, <2>7, <2>8, <2>9, <2>10 DEF Next
<1> QED BY <1>1, Initially, PTL DEF Spec

\* Types, of whatever is parsed.
THEOREM TypeCorrect == Spec => []TypeOK
<1>1. IInv => TypeOK BY DEF IInv
<1> QED BY <1>1, Invariance, PTL

\* However parsing ends, wherever memory runs out and however many names, functions and
\* globals there are, every string that is allocated has one owner, and m3_FreeModule
\* frees it once.
THEOREM StringsHaveOneOwner == Spec => []StringsOwnedOnce
<1>1. IInv => StringsOwnedOnce
  <2> SUFFICES ASSUME IInv PROVE StringsOwnedOnce
    OBVIOUS
  <2>1. CASE module = NULL BY <2>1 DEF IInv, StringsOwnedOnce
  <2>2. CASE module # NULL BY <2>2, Known DEF OwnedBy, Owned, StringsOwnedOnce
  <2> QED BY <2>1, <2>2
<1> QED BY <1>1, Invariance, PTL

\* The order of sections is enough for every index that was checked when it was read to
\* be right for the whole module.
THEOREM TablesAlwaysAgree == Spec => []TablesAgree
<1>1. IInv => TablesAgree
  <2> SUFFICES ASSUME IInv, module # NULL PROVE TablesAgree
    BY DEF TablesAgree
  <2>1. FunctionsOk(module) /\ module.startFunction <= NumFunctions BY Known
  <2>2. ASSUME NEW i \in DOMAIN module.functions, i <= module.numFuncImports
        PROVE  Head(module.functions[i].names) = module.functions[i].import.field
    <3>1. module.functions[i] \in Function BY Known
    <3>2. module.functions[i].names \in Seq(String \cup {NULL}) BY <3>1 DEF Function
    <3>3. /\ module.functions[i].names # <<>>
          /\ module.functions[i].names[1] = module.functions[i].import.field
      BY <2>1, <2>2 DEF FunctionsOk
    <3> QED BY <3>2, <3>3
  <2> QED BY <2>1, <2>2 DEF FunctionsOk, TablesAgree, NumFunctions
<1> QED BY <1>1, Invariance, PTL

\* A finite set of numbers that is not empty has a least element.
LEMMA MinProperty ==
  ASSUME NEW S \in SUBSET Nat, IsFiniteSet(S), S # {}
  PROVE  Min(S) \in S
<1> DEFINE R == StrictSubsetOrdering(S)
           To(a) == {x \in S : x <= a}
           T == {To(a) : a \in S}
<1>1. IsWellFoundedOn(R, FiniteSubsetsOf(S)) BY FS_StrictSubsetOrderingWellFounded
<1>2. T \subseteq FiniteSubsetsOf(S) /\ T # {}
  <2>1. T \subseteq SUBSET S /\ T # {} OBVIOUS
  <2> HIDE DEF T
  <2> QED BY <2>1, FS_FiniteSubsetsOfFinite
<1>3. \E U \in T : \A V \in T : <<V, U>> \notin R
  <2> HIDE DEF R, T
  <2> QED BY <1>1, <1>2, WFMin
<1>4. PICK a \in S : \A b \in S : <<To(b), To(a)>> \notin R BY <1>3
<1>5. ASSUME NEW b \in S, ~(a <= b)
      PROVE  FALSE
  <2>1. a \in Nat /\ b \in Nat OBVIOUS
  <2>2. \A x \in S : x <= b => x <= a
    <3> TAKE x \in S
    <3>1. x \in Nat OBVIOUS
    <3> QED BY <1>5, <2>1, <3>1
  <2>3. a \in To(a) /\ a \notin To(b) BY <1>5, <2>1
  <2>4. To(b) \subseteq To(a) /\ To(b) # To(a) /\ To(a) \in SUBSET S /\ To(b) \in SUBSET S
    BY <2>2, <2>3
  <2>5. <<To(b), To(a)>> \in R
    <3> HIDE DEF To
    <3> QED BY <2>4 DEF StrictSubsetOrdering
  <2> QED BY <1>4, <2>5
<1>6. \E x \in S : \A y \in S : x <= y BY <1>5
<1> QED BY <1>6 DEF Min

\* A name that a function was exported with leads to that function, or to one that says
\* so, with the exceptions LookupFindsExport lists and no other.
THEOREM ExportsAreFound == Spec => []LookupFindsExport
<1>1. IInv => LookupFindsExport
  <2> SUFFICES ASSUME IInv, section = "parsed", NEW e \in exported,
                      ~IsImported(module.functions[e[1]]),
                      ~ (\E other \in exported : other[2] = e[2] /\ other[1] # e[1])
               PROVE  \/ e[1] \notin Named(e[2])
                         /\ Len(module.functions[e[1]].names) = MaxNames
                      \/ v_FindFunction(e[2]) = e[1]
                      \/ v_FindFunction(e[2]) # NULL
                         /\ <<v_FindFunction(e[2]), e[2]>> \notin exported
    BY DEF LookupFindsExport
  <2>1. module # NULL BY DEF IInv, TypeOK, Idle
  <2>2. /\ e[1] \in DOMAIN module.functions
        /\ \/ HasName(module.functions[e[1]], e[2])
           \/ Len(module.functions[e[1]].names) = MaxNames
    BY <2>1, Known DEF ExportsOk
  <2>3. CASE e[1] \notin Named(e[2])
    BY <2>2, <2>3 DEF Named, HasName, Range
  <2>4. CASE e[1] \in Named(e[2])
    <3> DEFINE found == Min(Named(e[2]))
    <3>1. /\ Named(e[2]) \subseteq 1 .. NumFunctions /\ Named(e[2]) # {}
          /\ NumFunctions \in Nat
      BY <2>1, <2>4, Known DEF Named
    <3>2. Named(e[2]) \in SUBSET Nat BY <3>1
    <3>3. IsFiniteSet(Named(e[2]))
      <4>1. IsFiniteSet(1 .. NumFunctions) BY <3>1, FS_Interval
      <4> QED BY <3>1, <4>1, FS_Subset
    <3>4. found \in Named(e[2]) BY <3>1, <3>2, <3>3, MinProperty
    <3>5. v_FindFunction(e[2]) = found /\ found # NULL
      BY <3>1, <3>2, <3>4, NullAssumption DEF v_FindFunction
    <3> HIDE DEF found
    <3>6. CASE <<found, e[2]>> \in exported
      <4>1. <<found, e[2]>>[1] = found /\ <<found, e[2]>>[2] = e[2] OBVIOUS
      <4> QED BY <3>5, <3>6, <4>1
    <3> QED BY <3>5, <3>6
  <2> QED BY <2>3, <2>4
<1> QED BY <1>1, Invariance, PTL
===============================================================================
