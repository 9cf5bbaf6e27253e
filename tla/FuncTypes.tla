------------------------------ MODULE FuncTypes ------------------------------
(***************************************************************************)
(* The function types of an environment (m3_env.c, m3_function.c).  Equal  *)
(* types are one M3FuncType on the list env->funcTypes, so that an         *)
(* indirect call compares two pointers instead of two signatures.          *)
(*                                                                         *)
(* Addresses are the point of this module: an M3FuncType is allocated      *)
(* before it is looked up, freed when the list has an equal one, and its   *)
(* address may be the next one that malloc gives.                          *)
(***************************************************************************)
EXTENDS Integers, Sequences, FiniteSets, SequencesExt

CONSTANTS
  Address,       \* where malloc may put an M3FuncType
  NULL,
  Module,        \* the M3Module objects of the environment
  ValueType,     \* c_m3Type_i32 .. c_m3Type_f64, in the order of the loop
  Signature,     \* the signatures that occur: [rets, args]
  MaxTypes,      \* bound: types of a module
  MaxFunctions   \* bound: functions of a module

\* M3ValueType
ValueTypeId == {"none"} \cup {ValueType[i] : i \in DOMAIN ValueType}

\* An M3FuncType: the results come first in `types', then the arguments.
FuncType == [numRets : Nat, numArgs : Nat, types : Seq(ValueTypeId)]

ASSUME FuncTypesAssumption ==
  /\ NULL \notin Address \cup FuncType
  /\ ValueType \in Seq(ValueTypeId)
  /\ Signature \subseteq [rets : Seq(ValueTypeId), args : Seq(ValueTypeId)]
  /\ \A i \in DOMAIN ValueType : [rets |-> <<ValueType[i]>>, args |-> <<>>] \in Signature
  /\ [rets |-> <<>>, args |-> <<>>] \in Signature
  /\ MaxTypes \in Nat /\ MaxFunctions \in Nat

VARIABLES
  heap,          \* the M3FuncType at each address
  list,          \* env->funcTypes
  retFuncTypes,  \* env->retFuncTypes, as far as m3_NewEnvironment has come
  state,         \* of each module
  funcTypes,     \* module->funcTypes
  functions,     \* function->funcType of each function of a module
  answer         \* the last request of a module, and what it was told

vars == <<heap, list, retFuncTypes, state, funcTypes, functions, answer>>

MakeFuncType(sig) ==
  [numRets |-> Len(sig.rets), numArgs |-> Len(sig.args), types |-> sig.rets \o sig.args]

\* The types of m3_NewEnvironment's loop, none first.  The type that returns
\* nothing has an element in `types' that belongs to no result.
RetType(t) ==
  IF t = 0 THEN [numRets |-> 0, numArgs |-> 0, types |-> <<"none">>]
           ELSE [numRets |-> 1, numArgs |-> 0, types |-> <<ValueType[t]>>]

NumRetTypes == Len(ValueType) + 1

\* Mutant of AreFuncTypesEqual: only the numbers of all types are compared.
AreFuncTypesEqualInTotal(a, b) ==
  /\ a.numRets + a.numArgs = b.numRets + b.numArgs
  /\ \A i \in 1 .. a.numRets + a.numArgs : a.types[i] = b.types[i]

AreFuncTypesEqual(a, b) ==
  /\ a.numRets = b.numRets /\ a.numArgs = b.numArgs
  /\ \A i \in 1 .. a.numRets + a.numArgs : a.types[i] = b.types[i]

Allocated == {a \in Address : heap[a] # NULL}
Free == Address \ Allocated

-----------------------------------------------------------------------------
(* Environment_AddFuncType, for a type just put at address a, with the     *)
(* heap h and the list l.  It gives the heap and the list it leaves, and   *)
(* the pointer the caller has in the end.                                  *)

Prepended(h, l, a) == [heap |-> h, list |-> <<a>> \o l, pointer |-> a]

Equal(h, l, a) == {i \in 1 .. Len(l) : AreFuncTypesEqual(h[l[i]], h[a])}

\* Mutants of Environment_AddFuncType: equal types are not looked for; the one
\* found is not returned in place of the one freed; one added is not returned.
AddFuncTypeAlways(h, l, a) == Prepended(h, l, a)

AddFuncTypeNotReplaced(h, l, a) ==
  IF Equal(h, l, a) = {} THEN Prepended(h, l, a)
  ELSE [heap |-> [h EXCEPT ![a] = NULL], list |-> l, pointer |-> a]

AddFuncTypeNotReturned(h, l, a) == [Prepended(h, l, a) EXCEPT !.pointer = NULL]

Environment_AddFuncType(h, l, a) ==
  IF Equal(h, l, a) = {} THEN Prepended(h, l, a)
  ELSE LET i == CHOOSE i \in Equal(h, l, a) : \A j \in Equal(h, l, a) : i <= j
       IN  [heap |-> [h EXCEPT ![a] = NULL], list |-> l, pointer |-> l[i]]

\* AllocFuncType, filling it in, and Environment_AddFuncType, at a free address.
Add(type, a) == Environment_AddFuncType([heap EXCEPT ![a] = type], list, a)

\* What a module asked for, for its function f (0 if for none), and was told.
Answer(m, sig, f, told) == [module |-> m, sig |-> sig, function |-> f, told |-> told]

Nothing == [told |-> "nothing"]

\* The signature of a type.
SignatureOf(t) ==
  [ rets |-> SubSeq(t.types, 1, t.numRets),
    args |-> SubSeq(t.types, t.numRets + 1, t.numRets + t.numArgs) ]

-----------------------------------------------------------------------------
(* The environment                                                         *)

Ready == Len(retFuncTypes) = NumRetTypes

Release ==
  /\ heap' = [a \in Address |-> IF \E i \in 1 .. Len(list) : list[i] = a THEN NULL
                                ELSE heap[a]]
  /\ list' = <<>> /\ retFuncTypes' = <<>>

\* A pass of m3_NewEnvironment's loop, or the failure of its malloc.
m3_NewEnvironment ==
  /\ ~Ready
  /\ \/ \E a \in Free : LET x == Add(RetType(Len(retFuncTypes)), a) IN
          /\ heap' = x.heap /\ list' = x.list
          /\ retFuncTypes' = Append(retFuncTypes, x.pointer)
     \/ Release
  /\ UNCHANGED <<state, funcTypes, functions, answer>>

\* The modules are freed before their environment.
m3_FreeEnvironment ==
  /\ Ready /\ \A m \in Module : state[m] = "absent"
  /\ Release
  /\ UNCHANGED <<state, funcTypes, functions, answer>>

-----------------------------------------------------------------------------
(* Modules                                                                 *)

\* A module that is still empty: m3_ParseModule will fill it, or, when it is
\* m3_NewModule's, the functions injected into it.
NewModule(m) ==
  /\ Ready /\ state[m] = "absent"
  /\ state' = [state EXCEPT ![m] = "types"]
  /\ UNCHANGED <<heap, list, retFuncTypes, funcTypes, functions, answer>>

\* ParseSection_Type, one type.
ParseSection_Type(m, sig) ==
  /\ state[m] = "types" /\ Len(funcTypes[m]) < MaxTypes
  /\ \E a \in Free : LET x == Add(MakeFuncType(sig), a) IN
       /\ heap' = x.heap /\ list' = x.list
       /\ funcTypes' = [funcTypes EXCEPT ![m] = Append(@, x.pointer)]
  /\ answer' = Answer(m, sig, 0, "added")
  /\ UNCHANGED <<retFuncTypes, state, functions>>

\* Module_AddFunction: a function of type index i, from the function section
\* or the import section.
Module_AddFunction(m, i) ==
  /\ state[m] # "absent" /\ Len(functions[m]) < MaxFunctions
  /\ state' = [state EXCEPT ![m] = "functions"]
  /\ functions' = [functions EXCEPT ![m] = Append(@, funcTypes[m][i])]
  /\ answer' = Answer(m, SignatureOf(heap[funcTypes[m][i]]), Len(functions'[m]), "added")
  /\ UNCHANGED <<heap, list, retFuncTypes, funcTypes>>

\* The module is freed, by its owner or because a later byte of it does not
\* parse (or malloc fails).  The types stay with the environment.
m3_FreeModule(m) ==
  /\ state[m] # "absent"
  /\ state' = [state EXCEPT ![m] = "absent"]
  /\ funcTypes' = [funcTypes EXCEPT ![m] = <<>>]
  /\ functions' = [functions EXCEPT ![m] = <<>>]
  /\ answer' = Nothing
  /\ UNCHANGED <<heap, list, retFuncTypes>>

\* m3_InjectFunction, a new function.
m3_InjectFunction(m, sig) ==
  /\ state[m] # "absent" /\ state' = [state EXCEPT ![m] = "functions"]
  /\ Len(funcTypes[m]) < MaxTypes /\ Len(functions[m]) < MaxFunctions
  /\ \E a \in Free : LET x == Add(MakeFuncType(sig), a) IN
       /\ heap' = x.heap /\ list' = x.list
       /\ funcTypes' = [funcTypes EXCEPT ![m] = Append(@, x.pointer)]
       /\ functions' = [functions EXCEPT ![m] = Append(@, x.pointer)]
  /\ answer' = Answer(m, sig, Len(functions'[m]), "added")
  /\ UNCHANGED retFuncTypes

-----------------------------------------------------------------------------
(* Comparisons                                                             *)

Compared(m, sig, f, same) ==
  /\ answer' = Answer(m, sig, f, IF same THEN "match" ELSE "mismatch")
  /\ UNCHANGED <<heap, list, retFuncTypes, state, funcTypes, functions>>

\* ValidateSignature of a link, and m3_InjectFunction over function f: the
\* signature is parsed into a type that is freed before they return.
ValidateSignature(m, f, sig) ==
  /\ state[m] = "functions" /\ Free # {}
  /\ Compared(m, sig, f, AreFuncTypesEqual(MakeFuncType(sig), heap[functions[m][f]]))

\* call_indirect of type i finds function f in the table.
CallIndirect(m, i, f) ==
  /\ state[m] = "functions"
  /\ Compared(m, SignatureOf(heap[funcTypes[m][i]]), f, funcTypes[m][i] = functions[m][f])

-----------------------------------------------------------------------------
Init ==
  /\ heap = [a \in Address |-> NULL]
  /\ list = <<>> /\ retFuncTypes = <<>>
  /\ state = [m \in Module |-> "absent"]
  /\ funcTypes = [m \in Module |-> <<>>]
  /\ functions = [m \in Module |-> <<>>]
  /\ answer = Nothing

Next ==
  \/ m3_NewEnvironment
  \/ m3_FreeEnvironment
  \/ \E m \in Module :
       \/ NewModule(m)
       \/ m3_FreeModule(m)
       \/ \E sig \in Signature : ParseSection_Type(m, sig)
       \/ \E i \in DOMAIN funcTypes[m] : Module_AddFunction(m, i)
       \/ \E sig \in Signature : m3_InjectFunction(m, sig)
       \/ \E f \in DOMAIN functions[m], sig \in Signature : ValidateSignature(m, f, sig)
       \/ \E i \in DOMAIN funcTypes[m], f \in DOMAIN functions[m] : CallIndirect(m, i, f)

Spec == Init /\ [][Next]_vars

-----------------------------------------------------------------------------
(* Correctness                                                             *)

\* Every variable has its type.
TypeOK ==
  /\ heap \in [Address -> FuncType \cup {NULL}]
  /\ list \in Seq(Address) /\ retFuncTypes \in Seq(Address)
  /\ Len(retFuncTypes) <= NumRetTypes
  /\ state \in [Module -> {"absent", "types", "functions"}]
  /\ funcTypes \in [Module -> Seq(Address)]
  /\ functions \in [Module -> Seq(Address)]
  /\ answer.told \in {"nothing", "added", "match", "mismatch"}

\* The pointers to types that the program may still follow or compare.
InUse ==
  {list[i] : i \in 1 .. Len(list)}
    \cup {retFuncTypes[i] : i \in 1 .. Len(retFuncTypes)}
    \cup (UNION {{funcTypes[m][i] : i \in 1 .. Len(funcTypes[m])} : m \in Module})
    \cup (UNION {{functions[m][i] : i \in 1 .. Len(functions[m])} : m \in Module})

\* "linked list of unique M3FuncType structs that can be compared using
\* pointer-equivalence" (m3_env.h:136): of all the pointers in use, whichever
\* modules and functions hold them, two are the same exactly if the types are.
PointerEquivalence ==
  \A a, b \in InUse : a = b <=> AreFuncTypesEqual(heap[a], heap[b])

\* Ownership.  The environment has every type that is allocated on its list: no
\* duplicate is forgotten, and no module or function keeps a type that was freed.
TypesOnList ==
  /\ Allocated = {list[i] : i \in 1 .. Len(list)}
  /\ InUse \subseteq Allocated

SignaturesAt(pointers) ==
  [m \in Module |-> [i \in 1 .. Len(pointers[m]) |-> SignatureOf(heap[pointers[m][i]])]]

\* What a module's types and functions are never changes behind its back, and
\* calls and links go through exactly if the signatures agree: the types that
\* modules share, and that are freed and allocated at addresses used before,
\* implement lists of signatures that share nothing.
S == INSTANCE Signatures WITH types <- SignaturesAt(funcTypes),
                              functions <- SignaturesAt(functions)

ImplementsSignatures == S!Spec
=============================================================================
