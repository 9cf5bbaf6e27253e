-------------------------------- MODULE Parser --------------------------------
(***************************************************************************)
(* Parsing of a module, section by section (m3_parse.c), what it fills the *)
(* M3Module with (m3_module.c), and the freeing of the module (m3_module.c,*)
(* m3_function.c): when parsing fails, at whatever point, or later by the  *)
(* caller.                                                                 *)
(*                                                                         *)
(* What can go wrong here is ownership and indices.  The strings of        *)
(* imports, exports and names are copied by Read_utf8 and handed over to   *)
(* functions and globals, which may own a string twice, as a name and as   *)
(* the field of an import.  Indices are checked against tables that grow   *)
(* from one section to the next, so the checks rely on their order.        *)
(*                                                                         *)
(* Sections 4, 5, 9, 11 and 12 fill nothing that others index: they are    *)
(* only put in order.                                                      *)
(***************************************************************************)
EXTENDS Integers, SequencesExt, FiniteSetsExt

CONSTANTS
  NULL,
  Texts,        \* the contents of names
  Foreign,      \* those of them that imports and globals use
  MaxNames,     \* d_m3MaxDuplicateFunctionImpl
  MaxTypes,     \* bound: types of a module
  MaxFunctions, \* bound: functions of a module
  MaxGlobals,   \* bound: globals of a module
  MaxStrings,   \* bound: strings allocated at a time
  MaxFailures   \* bound: failures of malloc while a module is parsed

ASSUME ParserAssumption ==
  /\ NULL \notin Texts
  /\ Foreign \subseteq Texts
  /\ MaxNames \in Nat \ {0}
  /\ MaxTypes \in Nat /\ MaxFunctions \in Nat /\ MaxGlobals \in Nat
  /\ MaxStrings \in Nat /\ MaxFailures \in Nat

VARIABLES
  module,   \* the M3Module, NULL when there is none
  section,  \* the section being parsed
  expected, \* expectedSection: how many places of the order are behind
  heap,     \* the strings that are allocated, and how often there was no memory
  exported  \* history: <<function, text>> for each export that was read

vars == <<module, section, expected, heap, exported>>

\* sectionsOrder: 1, 2, 3, 4, 5, 6, 7, 8, 9, 12, 10, 11
SectionsOrder ==
  <<"type", "import", "function", "table", "memory", "global", "export", "start",
    "element", "data_count", "code", "data">>

String == [id : Nat \ {0}, text : Texts]
Import == [module : String \cup {NULL}, field : String \cup {NULL}]

NoImport == [module |-> NULL, field |-> NULL]

\* body is whether wasm is set.
Function ==
  [funcType : Nat, import : Import, names : Seq(String \cup {NULL}), body : BOOLEAN]

Global == [import : Import, name : String \cup {NULL}]

\* functions and globals are indexed from 1, as startFunction is: 0 is its -1.
Module ==
  [numFuncTypes : Nat, numFuncImports : Nat, functions : Seq(Function),
   globals : Seq(Global), startFunction : Nat]

ASSUME NullAssumption == NULL \notin Nat \cup String \cup Module

NewModule ==
  [numFuncTypes |-> 0, numFuncImports |-> 0, functions |-> <<>>, globals |-> <<>>,
   startFunction |-> 0]

-----------------------------------------------------------------------------
(* Strings.  sound says that nothing was freed twice.                        *)

FreshString(h, text) ==
  [id |-> CHOOSE n \in 1 .. Cardinality(h.live) + 1 : \A s \in h.live : s.id # n,
   text |-> text]

\* The copy of a text.  When malloc fails (text is NULL), the string is NULL
\* and the caller is not told.
Read_utf8(h, text) ==
  IF text = NULL THEN [string |-> NULL, heap |-> [h EXCEPT !.failures = @ + 1]]
  ELSE LET s == FreshString(h, text)
       IN  [string |-> s, heap |-> [h EXCEPT !.live = @ \cup {s}]]

\* The strings in rows of pointers, some of which are NULL.
StringsIn(rows) == (UNION {Range(rows[i]) : i \in DOMAIN rows}) \ {NULL}

\* No two pointers of the rows are to the same string.
NoAlias(rows) ==
  \A i \in DOMAIN rows : \A k \in DOMAIN rows[i] :
    rows[i][k] # NULL =>
      \A j \in DOMAIN rows : \A l \in DOMAIN rows[j] :
        rows[i][k] = rows[j][l] => i = j /\ k = l

\* m3_Free of each pointer of the rows.
FreeRows(h, rows) ==
  [h EXCEPT !.live = @ \ StringsIn(rows),
            !.sound = @ /\ NoAlias(rows) /\ StringsIn(rows) \subseteq h.live]

Free(h, row) == FreeRows(h, <<row>>)

FreeImportInfo(import) == <<import.module, import.field>>

\* Mutant of Function_Release: the alias is forgotten.
ReleaseEveryName(f) == f.names \o FreeImportInfo(f.import)

\* A name may be an alias of the field, which is freed only once.
Function_Release(f) ==
  LET pointers == f.names \o FreeImportInfo(f.import)
      aliases  == {k \in DOMAIN f.names : f.names[k] = f.import.field}
  IN  Restrict(pointers, DOMAIN pointers \ aliases)

Global_Release(g) == <<g.name, g.import.module, g.import.field>>

m3_FreeModule(h, m) ==
  LET ofFunctions == [i \in DOMAIN m.functions |-> Function_Release(m.functions[i])]
      ofGlobals   == [i \in DOMAIN m.globals |-> Global_Release(m.globals[i])]
  IN  FreeRows(FreeRows(h, ofFunctions), ofGlobals)

-----------------------------------------------------------------------------
(* The module being filled.                                                  *)

NumFunctions == Len(module.functions)

\* In the C code an imported function has its field as its first name, also when
\* there was no memory for that string.
AddFunction(m, type, import, isImport) ==
  [m EXCEPT !.functions =
     Append(@, [funcType |-> type, import |-> import, body |-> FALSE,
                names |-> IF isImport THEN <<import.field>> ELSE <<>>])]

AddGlobal(m, import) ==
  [m EXCEPT !.globals = Append(@, [import |-> import, name |-> NULL])]

\* Mutant of Throw: the caller of m3_ParseModule is left with the module that was freed.
ThrowKeepingModule(h) ==
  /\ heap' = m3_FreeModule(h, module)
  /\ section' = "idle"
  /\ expected' = 0
  /\ exported' = {}
  /\ UNCHANGED module

\* An error of any kind: what was read so far is released.
Throw(h) ==
  /\ heap' = m3_FreeModule(h, module)
  /\ module' = NULL
  /\ section' = "idle"
  /\ expected' = 0
  /\ exported' = {}

-----------------------------------------------------------------------------
(* m3_ParseModule and m3_FreeModule.                                         *)

\* Mutant of Accepts: sections are not kept in order.
AcceptsAnyOrder(s) == s \in Range(SectionsOrder)

\* Whether the loop over sectionsOrder finds section s before it throws.
Accepts(s) == \E k \in expected + 1 .. Len(SectionsOrder) : SectionsOrder[k] = s

Place(s) == CHOOSE k \in 1 .. Len(SectionsOrder) : SectionsOrder[k] = s

Idle    == section = "idle"
Between == section = "between"
Parsing == section \notin {"idle", "parsed"}

Begin ==
  /\ Idle
  /\ module' = NewModule
  /\ section' = "between"
  /\ heap' = [heap EXCEPT !.failures = 0]
  /\ UNCHANGED <<expected, exported>>

OpenSection(s) ==
  /\ Between
  /\ Accepts(s)
  /\ expected' = Place(s)
  /\ section' = s
  /\ UNCHANGED <<module, heap, exported>>

\* Custom sections may be anywhere.  The section's own name is read, compared
\* and freed; without memory for it strcmp reads a null pointer, and there is
\* no next state.
OpenCustomSection ==
  /\ Between
  /\ section' = "custom"
  /\ UNCHANGED <<module, expected, heap, exported>>

\* Of the sections that are read entry by entry, or not at all.
CloseSection ==
  /\ section \notin {"idle", "between", "parsed", "type", "start", "code"}
  /\ section' = "between"
  /\ UNCHANGED <<module, expected, heap, exported>>

Finish ==
  /\ Between
  /\ section' = "parsed"
  /\ UNCHANGED <<module, expected, heap, exported>>

\* A malformed number, a section out of order, an index or a count that is wrong.
Fail == Parsing /\ Throw(heap)

FreeParsed == section = "parsed" /\ Throw(heap)

-----------------------------------------------------------------------------
(* The entries of sections.                                                  *)

ParseSection_Type(count) ==
  /\ section = "type"
  /\ module' = [module EXCEPT !.numFuncTypes = count]
  /\ section' = "between"
  /\ UNCHANGED <<expected, heap, exported>>

\* The two strings of an import, and what may follow.
ImportStrings(moduleText, fieldText) ==
  LET m == Read_utf8(heap, moduleText)
      f == Read_utf8(m.heap, fieldText)
  IN  [import |-> [module |-> m.string, field |-> f.string], heap |-> f.heap]

\* Module_AddFunction throws if there is no such type.
ImportFunction(moduleText, fieldText, type) ==
  LET read == ImportStrings(moduleText, fieldText) IN
  /\ section = "import"
  /\ NumFunctions < MaxFunctions
  /\ IF type < module.numFuncTypes
     THEN /\ module' = [AddFunction(module, type, read.import, TRUE)
                          EXCEPT !.numFuncImports = @ + 1]
          /\ heap' = read.heap
          /\ UNCHANGED <<section, expected, exported>>
     ELSE Throw(Free(read.heap, FreeImportInfo(read.import)))

ImportGlobal(moduleText, fieldText) ==
  LET read == ImportStrings(moduleText, fieldText) IN
  /\ section = "import"
  /\ Len(module.globals) < MaxGlobals
  /\ module' = AddGlobal(module, read.import)
  /\ heap' = read.heap
  /\ UNCHANGED <<section, expected, exported>>

\* A table or a memory: its names are freed.
ImportOther(moduleText, fieldText) ==
  LET read == ImportStrings(moduleText, fieldText) IN
  /\ section = "import"
  /\ heap' = Free(read.heap, FreeImportInfo(read.import))
  /\ UNCHANGED <<module, section, expected, exported>>

\* The bytes end after the first string, after the second, or the kind is unknown.
ImportFails(moduleText, fieldText) ==
  LET read == ImportStrings(moduleText, fieldText) IN
  /\ section = "import"
  /\ Throw(Free(read.heap, FreeImportInfo(read.import)))

FunctionEntry(type) ==
  /\ section = "function"
  /\ NumFunctions < MaxFunctions
  /\ type < module.numFuncTypes
  /\ module' = AddFunction(module, type, NoImport, FALSE)
  /\ UNCHANGED <<section, expected, heap, exported>>

GlobalEntry ==
  /\ section = "global"
  /\ Len(module.globals) < MaxGlobals
  /\ module' = AddGlobal(module, NoImport)
  /\ UNCHANGED <<section, expected, heap, exported>>

\* Mutant of ExportFunction: the last name a function can hold is dropped.
ExportOneNameLess(text, i) ==
  LET read == Read_utf8(heap, text) IN
  /\ section = "export"
  /\ IF i \notin DOMAIN module.functions
     THEN Throw(Free(read.heap, <<read.string>>))
     ELSE /\ IF Len(module.functions[i].names) + 1 < MaxNames
             THEN /\ module' = [module EXCEPT !.functions[i].names = Append(@, read.string)]
                  /\ heap' = read.heap
             ELSE /\ heap' = Free(read.heap, <<read.string>>)
                  /\ UNCHANGED module
          /\ exported' = IF text = NULL THEN exported ELSE exported \cup {<<i, text>>}
          /\ UNCHANGED <<section, expected>>

\* Once a function has all the names it can hold, further ones are freed.
ExportFunction(text, i) ==
  LET read == Read_utf8(heap, text) IN
  /\ section = "export"
  /\ IF i \notin DOMAIN module.functions
     THEN Throw(Free(read.heap, <<read.string>>))
     ELSE /\ IF Len(module.functions[i].names) < MaxNames
             THEN /\ module' = [module EXCEPT !.functions[i].names = Append(@, read.string)]
                  /\ heap' = read.heap
             ELSE /\ heap' = Free(read.heap, <<read.string>>)
                  /\ UNCHANGED module
          /\ exported' = IF text = NULL THEN exported ELSE exported \cup {<<i, text>>}
          /\ UNCHANGED <<section, expected>>

ExportGlobal(text, i) ==
  LET read == Read_utf8(heap, text) IN
  /\ section = "export"
  /\ IF i \notin DOMAIN module.globals
     THEN Throw(Free(read.heap, <<read.string>>))
     ELSE /\ module' = [module EXCEPT !.globals[i].name = read.string]
          /\ heap' = Free(read.heap, <<module.globals[i].name>>)
          /\ UNCHANGED <<section, expected, exported>>

ParseSection_Start(i) ==
  /\ section = "start"
  /\ i \in DOMAIN module.functions
  /\ module' = [module EXCEPT !.startFunction = i]
  /\ section' = "between"
  /\ UNCHANGED <<expected, heap, exported>>

\* The section has an entry for each function that is not imported; bodies are those
\* that are not empty.
ParseSection_Code(bodies) ==
  /\ section = "code"
  /\ bodies \subseteq {i \in DOMAIN module.functions : i > module.numFuncImports}
  /\ module' = [module EXCEPT !.functions =
                  [i \in DOMAIN @ |-> IF i \in bodies THEN [@[i] EXCEPT !.body = TRUE]
                                                      ELSE @[i]]]
  /\ section' = "between"
  /\ UNCHANGED <<expected, heap, exported>>

\* Only a function without any name is given one.
NameEntry(text, i) ==
  LET read == Read_utf8(heap, text) IN
  /\ section = "custom"
  /\ IF i \in DOMAIN module.functions /\ module.functions[i].names = <<>>
     THEN /\ module' = [module EXCEPT !.functions[i].names = <<read.string>>]
          /\ heap' = read.heap
     ELSE /\ heap' = Free(read.heap, <<read.string>>)
          /\ UNCHANGED module
  /\ UNCHANGED <<section, expected, exported>>

-----------------------------------------------------------------------------
Init ==
  /\ module = NULL
  /\ section = "idle"
  /\ expected = 0
  /\ heap = [live |-> {}, sound |-> TRUE, failures |-> 0]
  /\ exported = {}

Indices == 1 .. Max({MaxFunctions, MaxGlobals}) + 1

\* What Read_utf8 may be asked for, and whether it gets it.
Copied(texts) == texts \cup (IF heap.failures < MaxFailures THEN {NULL} ELSE {})

Room(count) == Cardinality(heap.live) + count <= MaxStrings

Next ==
  \/ Begin \/ OpenCustomSection \/ CloseSection \/ Finish \/ Fail \/ FreeParsed
  \/ \E s \in Range(SectionsOrder) : OpenSection(s)
  \/ \E count \in 0 .. MaxTypes : ParseSection_Type(count)
  \/ Room(2) /\ \E m \in Copied(Foreign), f \in Copied(Foreign) :
       \/ \E type \in 0 .. MaxTypes : ImportFunction(m, f, type)
       \/ ImportGlobal(m, f)
       \/ ImportOther(m, f)
       \/ ImportFails(m, f)
  \/ \E type \in 0 .. MaxTypes : FunctionEntry(type)
  \/ GlobalEntry
  \/ Room(1) /\ \E i \in Indices :
       \/ \E text \in Copied(Texts) : ExportFunction(text, i) \/ NameEntry(text, i)
       \/ \E text \in Copied(Foreign) : ExportGlobal(text, i)
  \/ \E i \in 1 .. MaxFunctions : ParseSection_Start(i)
  \/ \E bodies \in SUBSET (1 .. MaxFunctions) : ParseSection_Code(bodies)

Spec == Init /\ [][Next]_vars

-----------------------------------------------------------------------------
(* Properties.                                                               *)

\* Types.  Modules are compared by their parts, since Seq is not finite.
TypeOK ==
  /\ section \in {"idle", "between", "parsed", "custom"} \cup Range(SectionsOrder)
  /\ expected \in 0 .. Len(SectionsOrder)
  /\ heap \in [live : SUBSET String, sound : BOOLEAN, failures : Nat]
  /\ exported \subseteq (Nat \X Texts)
  /\ (module = NULL) <=> Idle
  /\ module # NULL => module \in Module

\* The pointers of a module that own a string: the import and the names of a function,
\* but the first name of an imported one, which is the field of its import.
OwnersInFunctions(m) ==
  [i \in DOMAIN m.functions |->
     LET f == m.functions[i]
         pointers == FreeImportInfo(f.import) \o f.names
     IN  IF i <= m.numFuncImports THEN Restrict(pointers, DOMAIN pointers \ {3})
                                  ELSE pointers]

OwnersInGlobals(m) == [i \in DOMAIN m.globals |-> Global_Release(m.globals[i])]

\* Whatever was read, kept, dropped or failed half way: every string that is allocated
\* has one owner in the module, none was freed twice, and none is left when the module
\* is gone (Read_utf8's callers, Function_Release, m3_FreeModule).
StringsOwnedOnce ==
  /\ heap.sound
  /\ module = NULL => heap.live = {}
  /\ module # NULL =>
       LET ofFunctions == OwnersInFunctions(module)
           ofGlobals   == OwnersInGlobals(module)
       IN  /\ NoAlias(ofFunctions) /\ NoAlias(ofGlobals)
           /\ StringsIn(ofFunctions) \cap StringsIn(ofGlobals) = {}
           /\ StringsIn(ofFunctions) \cup StringsIn(ofGlobals) = heap.live

\* The tables agree, in any order of sections that is let through: imports come first
\* and never have a body, types and the start function exist, and names do not run over
\* the array of a function.
TablesAgree ==
  module # NULL =>
    /\ module.numFuncImports <= NumFunctions
    /\ module.startFunction <= NumFunctions
    /\ \A i \in DOMAIN module.functions :
         LET f == module.functions[i] IN
         /\ f.funcType < module.numFuncTypes
         /\ Len(f.names) <= MaxNames
         /\ i <= module.numFuncImports => ~f.body /\ Head(f.names) = f.import.field
         /\ i > module.numFuncImports => f.import = NoImport

-----------------------------------------------------------------------------
(* v_FindFunction: the first function, not imported, that has the name.      *)

IsImported(f) == f.import.module # NULL \/ f.import.field # NULL

Named(text) ==
  {i \in DOMAIN module.functions :
     /\ ~IsImported(module.functions[i])
     /\ \E n \in Range(module.functions[i].names) : n # NULL /\ n.text = text}

v_FindFunction(text) == IF Named(text) = {} THEN NULL ELSE Min(Named(text))

\* A name exported for one function of the module leads to it, unless the function
\* had all the names it can hold, or an earlier function was given that name by the
\* name section, which lookups do not tell from an export.
LookupFindsExport ==
  section = "parsed" =>
    \A e \in exported :
      LET i == e[1]  text == e[2] IN
      \/ IsImported(module.functions[i])
      \/ \E other \in exported : other[2] = text /\ other[1] # i
      \/ i \notin Named(text) /\ Len(module.functions[i].names) = MaxNames
      \/ v_FindFunction(text) = i
      \/ v_FindFunction(text) # NULL /\ <<v_FindFunction(text), text>> \notin exported
=============================================================================
