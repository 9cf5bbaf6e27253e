--------------------------- MODULE FuncTypesProofs ---------------------------
(***************************************************************************)
(* Pointers to function types are as good as the types themselves.         *)
(***************************************************************************)
EXTENDS FuncTypes, SequenceTheorems, TLAPS

\* The types on a list l are allocated in h, and no two of them are equal; what
\* is allocated is on the list.
Interned(h, l) ==
  /\ h \in [Address -> FuncType \cup {NULL}] /\ l \in Seq(Address)
  /\ \A i \in 1 .. Len(l) : h[l[i]] # NULL
  /\ \A i, j \in 1 .. Len(l) : AreFuncTypesEqual(h[l[i]], h[l[j]]) => i = j
  /\ \A a \in Address : h[a] # NULL => \E i \in 1 .. Len(l) : l[i] = a

On(l, a) == \E i \in 1 .. Len(l) : l[i] = a

\* The pointers of sequence s are on the list l.
Held(l, s) == s \in Seq(Address) /\ \A i \in 1 .. Len(s) : On(l, s[i])

\* The inductive invariant: every pointer that anybody holds is on the list, and
\* nobody but the environment holds one while the environment is not whole.
IInv ==
  /\ Interned(heap, list)
  /\ Held(list, retFuncTypes) /\ Len(retFuncTypes) <= NumRetTypes
  /\ state \in [Module -> {"absent", "types", "functions"}]
  /\ funcTypes \in [Module -> Seq(Address)]
  /\ functions \in [Module -> Seq(Address)]
  /\ \A m \in Module : Held(list, funcTypes[m]) /\ Held(list, functions[m])
  /\ \A m \in Module : state[m] = "absent" => funcTypes[m] = <<>> /\ functions[m] = <<>>
  /\ \A m \in Module : state[m] # "absent" => Ready
  /\ answer.told \in {"nothing", "added", "match", "mismatch"}

-----------------------------------------------------------------------------
(* Types                                                                   *)

LEMMA EqualTypes ==
  /\ \A t \in FuncType : AreFuncTypesEqual(t, t)
  /\ \A t, u \in FuncType : AreFuncTypesEqual(t, u) => AreFuncTypesEqual(u, t)
  /\ \A t, u, v \in FuncType :
       AreFuncTypesEqual(t, u) /\ AreFuncTypesEqual(u, v) => AreFuncTypesEqual(t, v)
BY DEF AreFuncTypesEqual, FuncType

LEMMA MakeFuncTypeType ==
  ASSUME NEW sig \in Signature
  PROVE  MakeFuncType(sig) \in FuncType
<1>1. sig.rets \in Seq(ValueTypeId) /\ sig.args \in Seq(ValueTypeId)
  BY FuncTypesAssumption
<1>2. sig.rets \o sig.args \in Seq(ValueTypeId)
  BY <1>1, ConcatProperties
<1>3. Len(sig.rets) \in Nat /\ Len(sig.args) \in Nat
  BY <1>1
<1> QED
  BY <1>2, <1>3 DEF MakeFuncType, FuncType

LEMMA RetTypeType ==
  ASSUME NEW t \in 0 .. Len(ValueType)
  PROVE  RetType(t) \in FuncType
<1>1. CASE t = 0
  <2>1. "none" \in ValueTypeId
    BY DEF ValueTypeId
  <2> QED
    BY <1>1, <2>1 DEF RetType, FuncType
<1>2. CASE t # 0
  <2>1. ValueType[t] \in ValueTypeId
    BY <1>2, FuncTypesAssumption
  <2> QED
    BY <1>2, <2>1 DEF RetType, FuncType
<1> QED
  BY <1>1, <1>2

\* Adding a type to the list leaves every type on it where it is, and gives a
\* pointer to a type on the list that equals the one added.
LEMMA AddOk ==
  ASSUME Interned(heap, list), NEW t \in FuncType, NEW a \in Free
  PROVE  /\ Interned(Add(t, a).heap, Add(t, a).list)
         /\ Add(t, a).pointer \in Address /\ On(Add(t, a).list, Add(t, a).pointer)
         /\ \A b \in Address : On(list, b) => /\ On(Add(t, a).list, b)
                                              /\ Add(t, a).heap[b] = heap[b]
         /\ AreFuncTypesEqual(Add(t, a).heap[Add(t, a).pointer], t)
<1> DEFINE h == [heap EXCEPT ![a] = t]
           l == list
<1>1. /\ a \in Address /\ heap[a] = NULL /\ t # NULL
      /\ heap \in [Address -> FuncType \cup {NULL}] /\ l \in Seq(Address)
      /\ Len(l) \in Nat /\ \A i \in 1 .. Len(l) : l[i] \in Address
  BY FuncTypesAssumption DEF Free, Allocated, Interned
<1>2. /\ h \in [Address -> FuncType \cup {NULL}] /\ h[a] = t
      /\ \A b \in Address : b = a \/ h[b] = heap[b]
  BY <1>1
<1>3. \A i \in 1 .. Len(l) : /\ l[i] # a /\ h[l[i]] = heap[l[i]]
                             /\ heap[l[i]] \in FuncType
  BY <1>1, <1>2 DEF Interned
<1> HIDE DEF h
<1>4. CASE Equal(h, l, a) = {}
  <2> DEFINE k == <<a>> \o l
  <2>1. Add(t, a) = [heap |-> h, list |-> k, pointer |-> a]
    BY <1>4 DEF Add, Environment_AddFuncType, Prepended, h
  <2>2. /\ k \in Seq(Address) /\ Len(k) = Len(l) + 1 /\ k[1] = a
        /\ \A i \in 1 .. Len(l) : k[i + 1] = l[i]
    BY <1>1
  <2> HIDE DEF k
  <2>3. ASSUME NEW i \in 1 .. Len(k)
        PROVE  \/ i = 1 /\ k[i] = a
               \/ i > 1 /\ i - 1 \in 1 .. Len(l) /\ k[i] = l[i - 1]
    <3>1. CASE i = 1
      BY <2>2, <3>1
    <3>2. CASE i # 1
      <4>1. i > 1 /\ i - 1 \in 1 .. Len(l) /\ i = (i - 1) + 1
        BY <1>1, <2>2, <3>2
      <4> QED
        BY <2>2, <4>1
    <3> QED
      BY <3>1, <3>2
  <2>4. \A i \in 1 .. Len(l) : ~AreFuncTypesEqual(h[l[i]], t) /\ ~AreFuncTypesEqual(t, h[l[i]])
    BY <1>1, <1>2, <1>3, <1>4, EqualTypes DEF Equal
  <2>5. ASSUME NEW i \in 1 .. Len(k), NEW j \in 1 .. Len(k),
               AreFuncTypesEqual(h[k[i]], h[k[j]])
        PROVE  i = j
    <3>1. CASE i = 1
      <4>1. j = 1 \/ (j - 1 \in 1 .. Len(l) /\ k[j] = l[j - 1])
        BY <2>3
      <4>2. AreFuncTypesEqual(t, h[k[j]])
        BY <1>2, <2>2, <2>5, <3>1
      <4> QED
        BY <2>4, <3>1, <4>1, <4>2
    <3>3. CASE j = 1
      <4>1. i = 1 \/ (i - 1 \in 1 .. Len(l) /\ k[i] = l[i - 1])
        BY <2>3
      <4>2. AreFuncTypesEqual(h[k[i]], t)
        BY <1>2, <2>2, <2>5, <3>3
      <4> QED
        BY <2>4, <3>3, <4>1, <4>2
    <3>2. CASE i # 1 /\ j # 1
      <4>1. /\ i - 1 \in 1 .. Len(l) /\ k[i] = l[i - 1]
            /\ j - 1 \in 1 .. Len(l) /\ k[j] = l[j - 1]
        BY <2>3, <3>2
      <4>2. i - 1 = j - 1
        BY <1>3, <2>5, <4>1 DEF Interned
      <4> QED
        BY <2>2, <4>2
    <3> QED
      BY <3>1, <3>2, <3>3
  <2>6. ASSUME NEW i \in 1 .. Len(k)
        PROVE  h[k[i]] # NULL
    <3>1. h[a] # NULL /\ \A j \in 1 .. Len(l) : h[l[j]] # NULL
      BY <1>1, <1>2, <1>3 DEF Interned
    <3> QED
      BY <2>3, <3>1
  <2>7. \A b \in Address : On(l, b) => On(k, b) /\ h[b] = heap[b]
    <3>1. \A i \in 1 .. Len(l) : i + 1 \in 1 .. Len(k)
      BY <1>1, <2>2
    <3> QED
      BY <1>3, <2>2, <3>1 DEF On
  <2>8. On(k, a)
    <3>1. 1 \in 1 .. Len(k)
      BY <1>1, <2>2
    <3> QED
      BY <2>2, <3>1 DEF On
  <2>9. \A b \in Address : h[b] # NULL => On(k, b)
    BY <1>2, <2>7, <2>8 DEF Interned, On
  <2>10. Interned(h, k)
    BY <1>2, <2>2, <2>5, <2>6, <2>9 DEF Interned, On
  <2> QED
    BY <1>1, <1>2, <2>1, <2>7, <2>8, <2>10, EqualTypes
<1>5. CASE Equal(h, l, a) # {}
  <2> DEFINE i == CHOOSE i \in Equal(h, l, a) : \A j \in Equal(h, l, a) : i <= j
             g == [h EXCEPT ![a] = NULL]
  <2>1. Add(t, a) = [heap |-> g, list |-> l, pointer |-> l[i]]
    BY <1>5 DEF Add, Environment_AddFuncType, h
  <2>2. i \in Equal(h, l, a)
    <3>1. PICK m \in Equal(h, l, a) : TRUE
      BY <1>5
    <3>2. \A j \in Equal(h, l, a) : j = m
      <4>1. ASSUME NEW j \in Equal(h, l, a)
            PROVE  AreFuncTypesEqual(heap[l[j]], heap[l[m]])
        BY <1>2, <1>3, EqualTypes DEF Equal
      <4> QED
        BY <4>1 DEF Interned, Equal
    <3>3. m <= m
      BY DEF Equal
    <3> QED
      BY <3>1, <3>2, <3>3
  <2> HIDE DEF i
  <2>3. i \in 1 .. Len(l) /\ AreFuncTypesEqual(h[l[i]], t)
    BY <1>2, <2>2 DEF Equal
  <2>4. g = heap
    BY <1>1 DEF h
  <2>5. heap[l[i]] = h[l[i]] /\ l[i] \in Address /\ On(l, l[i])
    BY <1>1, <1>3, <2>3 DEF On
  <2>6. /\ Add(t, a).heap = heap /\ Add(t, a).list = l /\ Add(t, a).pointer = l[i]
    BY <2>1, <2>4
  <2> QED
    BY <2>3, <2>5, <2>6
<1> QED
  BY <1>4, <1>5

-----------------------------------------------------------------------------
(* Pointers                                                                *)

LEMMA HeldAppend ==
  ASSUME NEW l, NEW s, NEW p \in Address, Held(l, s), On(l, p)
  PROVE  Held(l, Append(s, p))
<1>1. s \in Seq(Address) /\ Append(s, p) \in Seq(Address)
  BY DEF Held
<1>2. ASSUME NEW i \in 1 .. Len(Append(s, p))
      PROVE  On(l, Append(s, p)[i])
  <2>1. CASE i = Len(s) + 1
    BY <1>1, <2>1
  <2>2. CASE i # Len(s) + 1
    <3>1. i \in 1 .. Len(s) /\ Append(s, p)[i] = s[i]
      BY <1>1, <2>2
    <3> QED
      BY <3>1 DEF Held
  <2> QED
    BY <2>1, <2>2
<1> QED
  BY <1>1, <1>2 DEF Held

LEMMA HeldEmpty ==
  ASSUME NEW l
  PROVE  Held(l, <<>>)
BY DEF Held

\* What an action that adds a type may rely on.
LEMMA Added ==
  ASSUME IInv, NEW t \in FuncType, NEW a \in Free,
         heap' = Add(t, a).heap, list' = Add(t, a).list
  PROVE  /\ Interned(heap', list')
         /\ Add(t, a).pointer \in Address /\ On(list', Add(t, a).pointer)
         /\ Held(list', retFuncTypes)
         /\ \A m \in Module : Held(list', funcTypes[m]) /\ Held(list', functions[m])
<1>1. Interned(heap, list)
  BY DEF IInv
<1>2. /\ Interned(heap', list') /\ Add(t, a).pointer \in Address
      /\ On(list', Add(t, a).pointer)
      /\ \A b \in Address : On(list, b) => On(list', b)
  BY <1>1, AddOk
<1>3. ASSUME NEW s, Held(list, s)
      PROVE  Held(list', s)
  BY <1>2, <1>3 DEF Held
<1> QED
  BY <1>2, <1>3 DEF IInv

\* Freeing the list leaves nothing allocated.
LEMMA Released ==
  ASSUME IInv, Release
  PROVE  Interned(heap', list') /\ Held(list', retFuncTypes') /\ retFuncTypes' = <<>>
<1>1. list' = <<>> /\ retFuncTypes' = <<>>
  BY DEF Release
<1>2. /\ heap \in [Address -> FuncType \cup {NULL}]
      /\ \A a \in Address : heap[a] # NULL => On(list, a)
  BY DEF IInv, Interned, On
<1>3. /\ heap' \in [Address -> FuncType \cup {NULL}]
      /\ \A a \in Address : heap'[a] = NULL
  BY <1>2 DEF Release, On
<1> QED
  BY <1>1, <1>3, HeldEmpty DEF Interned

-----------------------------------------------------------------------------
(* Each action preserves the invariant                                     *)

LEMMA NewEnvironmentInv ==
  ASSUME IInv, m3_NewEnvironment
  PROVE  IInv'
<1>1. /\ ~Ready /\ Len(retFuncTypes) \in Nat /\ Len(retFuncTypes) <= NumRetTypes
      /\ Len(ValueType) \in Nat /\ UNCHANGED <<state, funcTypes, functions, answer>>
  BY FuncTypesAssumption DEF IInv, Held, m3_NewEnvironment
<1>2. \A m \in Module : state[m] = "absent" /\ funcTypes[m] = <<>> /\ functions[m] = <<>>
  BY <1>1 DEF IInv
<1>3. CASE Release
  <2>1. NumRetTypes \in Nat
    BY <1>1 DEF NumRetTypes
  <2> QED
    BY <1>1, <1>2, <1>3, <2>1, Released, HeldEmpty DEF IInv
<1>4. ASSUME NEW a \in Free,
             heap' = Add(RetType(Len(retFuncTypes)), a).heap,
             list' = Add(RetType(Len(retFuncTypes)), a).list,
             retFuncTypes' = Append(retFuncTypes, Add(RetType(Len(retFuncTypes)), a).pointer)
      PROVE  IInv'
  <2> DEFINE t == RetType(Len(retFuncTypes))
  <2>1. t \in FuncType
    BY <1>1, RetTypeType DEF Ready, NumRetTypes
  <2> HIDE DEF t
  <2>2. /\ Interned(heap', list') /\ Add(t, a).pointer \in Address
        /\ On(list', Add(t, a).pointer) /\ Held(list', retFuncTypes)
    BY <1>4, <2>1, Added DEF t
  <2>3. Held(list', retFuncTypes') /\ Len(retFuncTypes') = Len(retFuncTypes) + 1
    BY <1>4, <2>2, HeldAppend DEF t, Held
  <2>4. Len(retFuncTypes') <= NumRetTypes
    BY <1>1, <2>3 DEF Ready, NumRetTypes
  <2> QED
    BY <1>1, <1>2, <2>2, <2>3, <2>4, HeldEmpty DEF IInv
<1> QED
  BY <1>3, <1>4 DEF m3_NewEnvironment

LEMMA FreeEnvironmentInv ==
  ASSUME IInv, m3_FreeEnvironment
  PROVE  IInv'
<1>1. Len(ValueType) \in Nat /\ UNCHANGED <<state, funcTypes, functions, answer>> /\ Release
  BY FuncTypesAssumption DEF m3_FreeEnvironment
<1>2. \A m \in Module : state[m] = "absent" /\ funcTypes[m] = <<>> /\ functions[m] = <<>>
  BY DEF IInv, m3_FreeEnvironment
<1>3. NumRetTypes \in Nat
  BY <1>1 DEF NumRetTypes
<1> QED
  BY <1>1, <1>2, <1>3, Released, HeldEmpty DEF IInv

LEMMA NewModuleInv ==
  ASSUME IInv, NEW m \in Module, NewModule(m)
  PROVE  IInv'
BY DEF IInv, NewModule, Ready

LEMMA ParseSection_TypeInv ==
  ASSUME IInv, NEW m \in Module, NEW sig \in Signature, ParseSection_Type(m, sig)
  PROVE  IInv'
<1> DEFINE t == MakeFuncType(sig)
<1>1. PICK a \in Free : /\ heap' = Add(t, a).heap /\ list' = Add(t, a).list
                        /\ funcTypes' = [funcTypes EXCEPT ![m] = Append(@, Add(t, a).pointer)]
  BY DEF ParseSection_Type
<1>2. /\ state[m] = "types" /\ UNCHANGED <<retFuncTypes, state, functions>>
      /\ answer'.told = "added"
  BY DEF ParseSection_Type, Answer
<1>3. t \in FuncType
  BY MakeFuncTypeType
<1> HIDE DEF t
<1>4. /\ Interned(heap', list') /\ Add(t, a).pointer \in Address
      /\ On(list', Add(t, a).pointer) /\ Held(list', retFuncTypes)
      /\ \A n \in Module : Held(list', funcTypes[n]) /\ Held(list', functions[n])
  BY <1>1, <1>3, Added
<1>5. Held(list', Append(funcTypes[m], Add(t, a).pointer))
  BY <1>4, HeldAppend
<1>6. \A n \in Module : Held(list', funcTypes'[n])
  BY <1>1, <1>4, <1>5 DEF IInv
<1>7. funcTypes' \in [Module -> Seq(Address)]
  BY <1>1, <1>5 DEF IInv, Held
<1>8. \A n \in Module : n # m => funcTypes'[n] = funcTypes[n]
  BY <1>1 DEF IInv
<1> QED
  BY <1>2, <1>4, <1>6, <1>7, <1>8 DEF IInv, Ready

LEMMA Module_AddFunctionInv ==
  ASSUME IInv, NEW m \in Module, NEW i \in DOMAIN funcTypes[m], Module_AddFunction(m, i)
  PROVE  IInv'
<1>1. /\ funcTypes[m] \in Seq(Address) /\ i \in 1 .. Len(funcTypes[m])
      /\ funcTypes[m][i] \in Address /\ On(list, funcTypes[m][i])
  BY DEF IInv, Held
<1>2. Held(list, Append(functions[m], funcTypes[m][i]))
  BY <1>1, HeldAppend DEF IInv
<1>3. /\ state[m] # "absent" /\ UNCHANGED <<heap, list, retFuncTypes, funcTypes>>
      /\ state' = [state EXCEPT ![m] = "functions"]
      /\ functions' = [functions EXCEPT ![m] = Append(@, funcTypes[m][i])]
      /\ answer'.told = "added"
  BY DEF Module_AddFunction, Answer
<1>4. functions' \in [Module -> Seq(Address)] /\ \A n \in Module : Held(list, functions'[n])
  BY <1>2, <1>3 DEF IInv, Held
<1>5. \A n \in Module : n # m => functions'[n] = functions[n] /\ state'[n] = state[n]
  BY <1>3 DEF IInv
<1>6. Ready /\ state'[m] = "functions"
  BY <1>3 DEF IInv
<1> QED
  BY <1>3, <1>4, <1>5, <1>6 DEF IInv, Ready

LEMMA FreeModuleInv ==
  ASSUME IInv, NEW m \in Module, m3_FreeModule(m)
  PROVE  IInv'
<1>1. /\ UNCHANGED <<heap, list, retFuncTypes>>
      /\ state' = [state EXCEPT ![m] = "absent"]
      /\ funcTypes' = [funcTypes EXCEPT ![m] = <<>>]
      /\ functions' = [functions EXCEPT ![m] = <<>>]
      /\ answer'.told = "nothing"
  BY DEF m3_FreeModule, Nothing
<1>2. /\ funcTypes' \in [Module -> Seq(Address)] /\ functions' \in [Module -> Seq(Address)]
      /\ \A n \in Module : Held(list, funcTypes'[n]) /\ Held(list, functions'[n])
  BY <1>1, HeldEmpty DEF IInv
<1> QED
  BY <1>1, <1>2 DEF IInv, Ready

LEMMA InjectFunctionInv ==
  ASSUME IInv, NEW m \in Module, NEW sig \in Signature, m3_InjectFunction(m, sig)
  PROVE  IInv'
<1> DEFINE t == MakeFuncType(sig)
<1>1. PICK a \in Free : /\ heap' = Add(t, a).heap /\ list' = Add(t, a).list
                        /\ funcTypes' = [funcTypes EXCEPT ![m] = Append(@, Add(t, a).pointer)]
                        /\ functions' = [functions EXCEPT ![m] = Append(@, Add(t, a).pointer)]
  BY DEF m3_InjectFunction
<1>2. /\ state[m] # "absent" /\ UNCHANGED retFuncTypes
      /\ state' = [state EXCEPT ![m] = "functions"] /\ answer'.told = "added"
  BY DEF m3_InjectFunction, Answer
<1>3. t \in FuncType
  BY MakeFuncTypeType
<1> HIDE DEF t
<1>4. /\ Interned(heap', list') /\ Add(t, a).pointer \in Address
      /\ On(list', Add(t, a).pointer) /\ Held(list', retFuncTypes)
      /\ \A n \in Module : Held(list', funcTypes[n]) /\ Held(list', functions[n])
  BY <1>1, <1>3, Added
<1>5. /\ Held(list', Append(funcTypes[m], Add(t, a).pointer))
      /\ Held(list', Append(functions[m], Add(t, a).pointer))
  BY <1>4, HeldAppend
<1>6. \A n \in Module : Held(list', funcTypes'[n]) /\ Held(list', functions'[n])
  BY <1>1, <1>4, <1>5 DEF IInv
<1>7. funcTypes' \in [Module -> Seq(Address)] /\ functions' \in [Module -> Seq(Address)]
  BY <1>1, <1>5 DEF IInv, Held
<1>8. \A n \in Module : n # m => /\ funcTypes'[n] = funcTypes[n]
                                 /\ functions'[n] = functions[n] /\ state'[n] = state[n]
  BY <1>1, <1>2 DEF IInv
<1>9. Ready /\ state'[m] = "functions"
  BY <1>2 DEF IInv
<1> QED
  BY <1>2, <1>4, <1>6, <1>7, <1>8, <1>9 DEF IInv, Ready

LEMMA ComparedInv ==
  ASSUME IInv, NEW m, NEW sig, NEW f, NEW same, Compared(m, sig, f, same)
  PROVE  IInv'
<1>1. answer'.told \in {"match", "mismatch"}
  BY DEF Compared, Answer
<1> QED
  BY <1>1 DEF IInv, Compared, Ready

-----------------------------------------------------------------------------
(* The theorems                                                            *)

LEMMA InitInv == Init => IInv
<1> SUFFICES ASSUME Init PROVE IInv
  OBVIOUS
<1>1. Interned(heap, list)
  BY FuncTypesAssumption DEF Init, Interned
<1>2. Len(ValueType) \in Nat
  BY FuncTypesAssumption
<1> QED
  BY <1>1, <1>2, HeldEmpty DEF Init, IInv, Nothing, NumRetTypes

LEMMA NextInv == IInv /\ [Next]_vars => IInv'
<1> SUFFICES ASSUME IInv, [Next]_vars PROVE IInv'
  OBVIOUS
<1>1. CASE m3_NewEnvironment
  BY <1>1, NewEnvironmentInv
<1>2. CASE m3_FreeEnvironment
  BY <1>2, FreeEnvironmentInv
<1>3. ASSUME NEW m \in Module, NewModule(m) PROVE IInv'
  BY <1>3, NewModuleInv
<1>4. ASSUME NEW m \in Module, m3_FreeModule(m) PROVE IInv'
  BY <1>4, FreeModuleInv
<1>5. ASSUME NEW m \in Module, NEW sig \in Signature, ParseSection_Type(m, sig) PROVE IInv'
  BY <1>5, ParseSection_TypeInv
<1>6. ASSUME NEW m \in Module, NEW i \in DOMAIN funcTypes[m], Module_AddFunction(m, i)
      PROVE  IInv'
  BY <1>6, Module_AddFunctionInv
<1>7. ASSUME NEW m \in Module, NEW sig \in Signature, m3_InjectFunction(m, sig) PROVE IInv'
  BY <1>7, InjectFunctionInv
<1>8. ASSUME NEW m \in Module, NEW f \in DOMAIN functions[m], NEW sig \in Signature,
             ValidateSignature(m, f, sig)
      PROVE  IInv'
  BY <1>8, ComparedInv DEF ValidateSignature
<1>9. ASSUME NEW m \in Module, NEW i \in DOMAIN funcTypes[m], NEW f \in DOMAIN functions[m],
             CallIndirect(m, i, f)
      PROVE  IInv'
  BY <1>9, ComparedInv DEF CallIndirect
<1>10. CASE UNCHANGED vars
  BY <1>10 DEF vars, IInv, Ready
<1> QED
  BY <1>1, <1>2, <1>3, <1>4, <1>5, <1>6, <1>7, <1>8, <1>9, <1>10 DEF Next

THEOREM Invariance == Spec => []IInv
BY InitInv, NextInv, PTL DEF Spec

\* Every variable has its type in every reachable state.
THEOREM TypeCorrect == Spec => []TypeOK
<1>1. IInv => TypeOK
  BY DEF IInv, TypeOK, Interned, Held
<1> QED
  BY <1>1, Invariance, PTL

LEMMA InUseHeld ==
  ASSUME IInv, NEW a \in InUse
  PROVE  a \in Address /\ On(list, a)
<1>1. CASE \E i \in 1 .. Len(list) : a = list[i]
  BY <1>1 DEF IInv, Interned, On
<1>2. CASE \E i \in 1 .. Len(retFuncTypes) : a = retFuncTypes[i]
  BY <1>2 DEF IInv, Held
<1>3. CASE \E m \in Module : \E i \in 1 .. Len(funcTypes[m]) : a = funcTypes[m][i]
  BY <1>3 DEF IInv, Held
<1>4. CASE \E m \in Module : \E i \in 1 .. Len(functions[m]) : a = functions[m][i]
  BY <1>4 DEF IInv, Held
<1> QED
  BY <1>1, <1>2, <1>3, <1>4 DEF InUse

\* Whatever is parsed, injected, freed and allocated again, the list owns every
\* function type, and nobody holds a pointer to one that was freed.
THEOREM NothingDangles == Spec => []TypesOnList
<1>1. IInv => TypesOnList
  <2> SUFFICES ASSUME IInv PROVE TypesOnList
    OBVIOUS
  <2>1. \A a \in Address : On(list, a) <=> heap[a] # NULL
    BY DEF IInv, Interned, On
  <2>2. {list[i] : i \in 1 .. Len(list)} \subseteq Address
    BY DEF IInv, Interned
  <2> QED
    BY <2>1, <2>2, InUseHeld DEF TypesOnList, Allocated, On
<1> QED
  BY <1>1, Invariance, PTL

\* For any number of modules, signatures and addresses: two pointers to
\* function types that are in use are equal exactly if the types are
\* (m3_env.h:136), which is what op_CallIndirect takes for granted.
THEOREM PointersCompareTypes == Spec => []PointerEquivalence
<1>1. IInv => PointerEquivalence
  <2> SUFFICES ASSUME IInv, NEW a \in InUse, NEW b \in InUse
               PROVE  a = b <=> AreFuncTypesEqual(heap[a], heap[b])
    BY DEF PointerEquivalence
  <2>1. PICK i \in 1 .. Len(list) : list[i] = a
    BY InUseHeld DEF On
  <2>2. PICK j \in 1 .. Len(list) : list[j] = b
    BY InUseHeld DEF On
  <2>3. heap[a] \in FuncType
    BY <2>1 DEF IInv, Interned
  <2>4. AreFuncTypesEqual(heap[a], heap[b]) => i = j
    BY <2>1, <2>2 DEF IInv, Interned
  <2> QED
    BY <2>1, <2>2, <2>3, <2>4, EqualTypes
<1> QED
  BY <1>1, Invariance, PTL

-----------------------------------------------------------------------------
(* The refinement of Signatures                                            *)

\* A type that says which of its elements are results and which arguments, of a
\* signature that occurs.
WellFormed(t) ==
  /\ t \in FuncType /\ t.numRets + t.numArgs <= Len(t.types)
  /\ SignatureOf(t) \in Signature

WellFormedTypes == \A a \in Address : heap[a] # NULL => WellFormed(heap[a])

\* The signatures behind a sequence of pointers.
SignaturesOf(h, p) == [i \in 1 .. Len(p) |-> SignatureOf(h[p[i]])]

LEMMA SignatureFields ==
  ASSUME NEW sig, NEW r, NEW g, sig = [rets |-> r, args |-> g]
  PROVE  sig.rets = r /\ sig.args = g
OBVIOUS

LEMMA SignatureElements ==
  ASSUME NEW t, t \in FuncType, t.numRets + t.numArgs <= Len(t.types)
  PROVE  /\ SignatureOf(t).rets = SubSeq(t.types, 1, t.numRets)
         /\ Len(SignatureOf(t).rets) = t.numRets
         /\ Len(SignatureOf(t).args) = t.numArgs
         /\ \A i \in 1 .. t.numRets : SignatureOf(t).rets[i] = t.types[i]
         /\ \A i \in 1 .. t.numArgs : SignatureOf(t).args[i] = t.types[t.numRets + i]
         /\ SignatureOf(t).rets \in Seq(ValueTypeId)
         /\ SignatureOf(t).args \in Seq(ValueTypeId)
<1> DEFINE s == t.types
           n == t.numRets
           k == t.numArgs
<1>1. s \in Seq(ValueTypeId) /\ n \in Nat /\ k \in Nat /\ n + k <= Len(s) /\ Len(s) \in Nat
  BY DEF FuncType
<1>2. SignatureOf(t) = [rets |-> SubSeq(s, 1, n), args |-> SubSeq(s, n + 1, n + k)]
  BY DEF SignatureOf
<1> HIDE DEF s, n, k
<1>3. /\ SubSeq(s, 1, n) \in Seq(ValueTypeId) /\ Len(SubSeq(s, 1, n)) = n
      /\ \A i \in 1 .. n : SubSeq(s, 1, n)[i] = s[i]
  <2>1. 1 \in Int /\ n \in Int /\ (\A i \in 1 .. n : s[i] \in ValueTypeId)
    BY <1>1
  <2>2. /\ SubSeq(s, 1, n) \in Seq(ValueTypeId)
        /\ Len(SubSeq(s, 1, n)) = IF 1 <= n THEN n - 1 + 1 ELSE 0
        /\ \A i \in 1 .. n - 1 + 1 : SubSeq(s, 1, n)[i] = s[1 + i - 1]
    BY ONLY <2>1, SubSeqProperties
  <2> QED
    BY <1>1, <2>2
<1>4. /\ SubSeq(s, n + 1, n + k) \in Seq(ValueTypeId) /\ Len(SubSeq(s, n + 1, n + k)) = k
      /\ \A i \in 1 .. k : SubSeq(s, n + 1, n + k)[i] = s[n + i]
  <2> DEFINE a == n + 1
             b == n + k
  <2>1. a \in Int /\ b \in Int /\ (\A i \in a .. b : s[i] \in ValueTypeId)
    BY <1>1
  <2>2. /\ b - a + 1 = k /\ (IF a <= b THEN b - a + 1 ELSE 0) = k
        /\ \A i \in 1 .. k : a + i - 1 = n + i
    BY <1>1
  <2> HIDE DEF a, b
  <2>3. /\ SubSeq(s, a, b) \in Seq(ValueTypeId)
        /\ Len(SubSeq(s, a, b)) = IF a <= b THEN b - a + 1 ELSE 0
        /\ \A i \in 1 .. b - a + 1 : SubSeq(s, a, b)[i] = s[a + i - 1]
    BY ONLY <2>1, SubSeqProperties
  <2> QED
    BY <2>2, <2>3 DEF a, b
<1>5. SignatureOf(t).rets = SubSeq(s, 1, n) /\ SignatureOf(t).args = SubSeq(s, n + 1, n + k)
  BY <1>2, SignatureFields
<1> QED
  BY <1>3, <1>4, <1>5 DEF s, n, k

\* Comparing the types compares the signatures.
LEMMA EqualSignatures ==
  ASSUME NEW t, NEW u, WellFormed(t), WellFormed(u)
  PROVE  AreFuncTypesEqual(t, u) <=> SignatureOf(t) = SignatureOf(u)
<1> DEFINE n == t.numRets
           k == t.numArgs
           x == SignatureOf(t).rets
           y == SignatureOf(u).rets
           v == SignatureOf(t).args
           w == SignatureOf(u).args
           c == t.types
           d == u.types
<1>1. /\ n \in Nat /\ k \in Nat /\ u.numRets \in Nat /\ u.numArgs \in Nat
      /\ t \in FuncType /\ t.numRets + t.numArgs <= Len(t.types)
      /\ u \in FuncType /\ u.numRets + u.numArgs <= Len(u.types)
  BY DEF WellFormed, FuncType
<1>2. /\ x \in Seq(ValueTypeId) /\ v \in Seq(ValueTypeId) /\ Len(x) = n /\ Len(v) = k
      /\ \A i \in 1 .. n : x[i] = c[i]
      /\ \A i \in 1 .. k : v[i] = c[n + i]
  BY <1>1, SignatureElements
<1>3. /\ y \in Seq(ValueTypeId) /\ w \in Seq(ValueTypeId)
      /\ Len(y) = u.numRets /\ Len(w) = u.numArgs
      /\ \A i \in 1 .. u.numRets : y[i] = d[i]
      /\ \A i \in 1 .. u.numArgs : w[i] = d[u.numRets + i]
  BY <1>1, SignatureElements
<1>4. SignatureOf(t) = SignatureOf(u) <=> x = y /\ v = w
  BY DEF SignatureOf
<1>5. AreFuncTypesEqual(t, u) <=> /\ n = u.numRets /\ k = u.numArgs
                                  /\ \A i \in 1 .. n + k : c[i] = d[i]
  BY DEF AreFuncTypesEqual
<1> HIDE DEF n, k, x, y, v, w, c, d
<1>6. ASSUME n = u.numRets, k = u.numArgs, \A i \in 1 .. n + k : c[i] = d[i]
      PROVE  x = y /\ v = w
  <2>1. \A i \in 1 .. n : c[i] = d[i]
    BY <1>1, <1>6
  <2>2. \A i \in 1 .. k : n + i \in 1 .. n + k
    BY <1>1
  <2>3. \A i \in 1 .. k : c[n + i] = d[n + i]
    BY <1>6, <2>2
  <2>4. Len(x) = Len(y) /\ \A i \in 1 .. Len(x) : x[i] = y[i]
    BY <1>2, <1>3, <1>6, <2>1
  <2>5. Len(v) = Len(w) /\ \A i \in 1 .. Len(v) : v[i] = w[i]
    BY <1>2, <1>3, <1>6, <2>3
  <2> QED
    BY <1>2, <1>3, <2>4, <2>5, SeqEqual
<1>7. ASSUME x = y, v = w
      PROVE  n = u.numRets /\ k = u.numArgs /\ \A i \in 1 .. n + k : c[i] = d[i]
  <2>1. n = u.numRets /\ k = u.numArgs
    BY <1>2, <1>3, <1>7
  <2>2. ASSUME NEW i \in 1 .. n + k
        PROVE  c[i] = d[i]
    <3>1. CASE i <= n
      <4>1. i \in 1 .. n
        BY <1>1, <3>1
      <4> QED
        BY <1>2, <1>3, <1>7, <2>1, <4>1
    <3>2. CASE i > n
      <4> DEFINE e == i - n
      <4>1. e \in 1 .. k /\ i = n + e
        BY <1>1, <3>2
      <4> HIDE DEF e
      <4>2. v[e] = c[n + e] /\ w[e] = d[n + e]
        BY <1>2, <1>3, <2>1, <4>1
      <4> QED
        BY <1>7, <4>1, <4>2
    <3> QED
      BY <1>1, <3>1, <3>2
  <2> QED
    BY <2>1, <2>2
<1> QED
  BY <1>4, <1>5, <1>6, <1>7

\* The type made from a signature has that signature.
LEMMA MakeFuncTypeSignature ==
  ASSUME NEW sig \in Signature
  PROVE  WellFormed(MakeFuncType(sig)) /\ SignatureOf(MakeFuncType(sig)) = sig
<1> DEFINE t == MakeFuncType(sig)
           r == sig.rets
           g == sig.args
<1>1. /\ r \in Seq(ValueTypeId) /\ g \in Seq(ValueTypeId)
      /\ sig = [rets |-> r, args |-> g]
  BY FuncTypesAssumption
<1>2. /\ t \in FuncType /\ t.numRets = Len(r) /\ t.numArgs = Len(g) /\ t.types = r \o g
  BY MakeFuncTypeType DEF MakeFuncType
<1> HIDE DEF t, r, g
<1>3. /\ Len(r \o g) = Len(r) + Len(g) /\ Len(r) \in Nat /\ Len(g) \in Nat
      /\ \A i \in 1 .. Len(r) : (r \o g)[i] = r[i]
      /\ \A i \in 1 .. Len(g) : (r \o g)[Len(r) + i] = g[i]
  BY <1>1
<1>4. t.numRets + t.numArgs <= Len(t.types) /\ t.numRets \in Nat /\ t.numArgs \in Nat
  BY <1>2, <1>3
<1> DEFINE x == SignatureOf(t).rets
           v == SignatureOf(t).args
           c == t.types
<1>5. /\ x \in Seq(ValueTypeId) /\ v \in Seq(ValueTypeId) /\ Len(x) = Len(r) /\ Len(v) = Len(g)
      /\ \A i \in 1 .. Len(r) : x[i] = c[i]
      /\ \A i \in 1 .. Len(g) : v[i] = c[Len(r) + i]
  <2>1. /\ x \in Seq(ValueTypeId) /\ v \in Seq(ValueTypeId)
        /\ Len(x) = t.numRets /\ Len(v) = t.numArgs
        /\ \A i \in 1 .. t.numRets : x[i] = c[i]
        /\ \A i \in 1 .. t.numArgs : v[i] = c[t.numRets + i]
    BY <1>2, <1>4, SignatureElements
  <2> HIDE DEF x, v, c
  <2> QED
    BY <1>2, <2>1
<1>6. SignatureOf(t) = [rets |-> x, args |-> v]
  BY DEF SignatureOf
<1>7. c = r \o g
  BY <1>2
<1> HIDE DEF x, v, c
<1>8. x = r
  BY <1>1, <1>3, <1>5, <1>7, SeqEqual
<1>9. v = g
  BY <1>1, <1>3, <1>5, <1>7, SeqEqual
<1>10. SignatureOf(t) = sig
  BY <1>1, <1>6, <1>8, <1>9
<1> QED
  BY <1>2, <1>4, <1>10 DEF WellFormed, t

LEMMA RetTypeSignature ==
  ASSUME NEW t \in 0 .. Len(ValueType)
  PROVE  WellFormed(RetType(t))
<1>1. RetType(t) \in FuncType
  BY RetTypeType
<1>2. CASE t = 0
  <2>1. RetType(t) = [numRets |-> 0, numArgs |-> 0, types |-> <<"none">>]
    BY <1>2 DEF RetType
  <2>2. SignatureOf(RetType(t)) = [rets |-> <<>>, args |-> <<>>]
    BY <2>1 DEF SignatureOf
  <2> QED
    BY <1>1, <2>1, <2>2, FuncTypesAssumption DEF WellFormed
<1>3. CASE t # 0
  <2> DEFINE v == ValueType[t]
  <2>1. t \in DOMAIN ValueType
    BY <1>3, FuncTypesAssumption
  <2>2. RetType(t) = [numRets |-> 1, numArgs |-> 0, types |-> <<v>>]
    BY <1>3 DEF RetType
  <2>3. [rets |-> <<v>>, args |-> <<>>] \in Signature
    BY <2>1, FuncTypesAssumption
  <2> HIDE DEF v
  <2>4. SignatureOf(RetType(t)) = [rets |-> <<v>>, args |-> <<>>]
    BY <2>2 DEF SignatureOf
  <2> QED
    BY <1>1, <2>2, <2>3, <2>4 DEF WellFormed
<1> QED
  BY <1>2, <1>3

\* What adding a type does to the signatures behind the pointers.
LEMMA AddWellFormed ==
  ASSUME Interned(heap, list), WellFormedTypes, NEW t, WellFormed(t), NEW a \in Free
  PROVE  /\ \A b \in Address : Add(t, a).heap[b] # NULL => WellFormed(Add(t, a).heap[b])
         /\ SignatureOf(Add(t, a).heap[Add(t, a).pointer]) = SignatureOf(t)
         /\ \A b \in Address : On(list, b) => Add(t, a).heap[b] = heap[b]
         /\ Add(t, a).pointer \in Address /\ Add(t, a).heap[Add(t, a).pointer] # NULL
<1> DEFINE h == Add(t, a).heap
           p == Add(t, a).pointer
<1>1. t \in FuncType /\ a \in Address /\ heap[a] = NULL
  BY DEF WellFormed, Free, Allocated
<1>2. /\ Interned(h, Add(t, a).list) /\ p \in Address /\ On(Add(t, a).list, p)
      /\ \A b \in Address : On(list, b) => h[b] = heap[b]
      /\ AreFuncTypesEqual(h[p], t)
  BY <1>1, AddOk
<1>3. ASSUME NEW b \in Address, h[b] # NULL
      PROVE  WellFormed(h[b])
  <2>1. h = [heap EXCEPT ![a] = t] \/ h = [[heap EXCEPT ![a] = t] EXCEPT ![a] = NULL]
    BY DEF Add, Environment_AddFuncType, Prepended
  <2>2. h[b] = heap[b] \/ h[b] = t \/ h[b] = NULL
    BY <1>1, <2>1 DEF Interned
  <2> QED
    BY <1>3, <2>2 DEF WellFormedTypes
<1>4. h[p] # NULL
  BY <1>2 DEF Interned, On
<1>5. SignatureOf(h[p]) = SignatureOf(t)
  BY <1>2, <1>3, <1>4, EqualSignatures
<1> QED
  BY <1>2, <1>3, <1>4, <1>5

\* The types that pointers on the list lead to.
LEMMA OnListWellFormed ==
  ASSUME IInv, WellFormedTypes, NEW a \in Address, On(list, a)
  PROVE  heap[a] # NULL /\ WellFormed(heap[a])
BY DEF IInv, Interned, On, WellFormedTypes

LEMMA SignaturesOfType ==
  ASSUME NEW h, NEW p \in Seq(Address), \A i \in 1 .. Len(p) : WellFormed(h[p[i]])
  PROVE  SignaturesOf(h, p) \in Seq(Signature) /\ Len(SignaturesOf(h, p)) = Len(p)
<1>1. \A i \in 1 .. Len(p) : SignatureOf(h[p[i]]) \in Signature
  BY DEF WellFormed
<1> QED
  BY <1>1 DEF SignaturesOf

LEMMA SignaturesOfAppend ==
  ASSUME NEW h, NEW p \in Seq(Address), NEW a \in Address,
         \A i \in 1 .. Len(p) : WellFormed(h[p[i]]), WellFormed(h[a])
  PROVE  SignaturesOf(h, Append(p, a)) = Append(SignaturesOf(h, p), SignatureOf(h[a]))
<1> DEFINE q == Append(p, a)
           s == SignaturesOf(h, p)
           r == Append(s, SignatureOf(h[a]))
<1>1. /\ q \in Seq(Address) /\ Len(q) = Len(p) + 1 /\ Len(p) \in Nat
      /\ q[Len(p) + 1] = a /\ \A i \in 1 .. Len(p) : q[i] = p[i]
  OBVIOUS
<1>2. s \in Seq(Signature) /\ Len(s) = Len(p) /\ SignatureOf(h[a]) \in Signature
  BY SignaturesOfType DEF WellFormed
<1>3. \A i \in 1 .. Len(p) : s[i] = SignatureOf(h[p[i]])
  BY DEF SignaturesOf
<1> HIDE DEF s, q
<1>4. /\ r \in Seq(Signature) /\ Len(r) = Len(p) + 1
      /\ r[Len(p) + 1] = SignatureOf(h[a]) /\ \A i \in 1 .. Len(p) : r[i] = s[i]
  BY <1>1, <1>2
<1>5. \A i \in 1 .. Len(q) : WellFormed(h[q[i]])
  BY <1>1
<1>6. /\ SignaturesOf(h, q) \in Seq(Signature) /\ Len(SignaturesOf(h, q)) = Len(p) + 1
      /\ \A i \in 1 .. Len(p) + 1 : SignaturesOf(h, q)[i] = SignatureOf(h[q[i]])
  BY <1>1, <1>5, SignaturesOfType DEF SignaturesOf
<1> HIDE DEF r
<1>7. \A i \in 1 .. Len(p) + 1 : SignaturesOf(h, q)[i] = r[i]
  BY <1>1, <1>3, <1>4, <1>6
<1>8. SignaturesOf(h, q) = r
  BY <1>4, <1>6, <1>7, SeqEqual
<1> QED
  BY <1>8 DEF q, r, s

\* Pointers on the list keep their signatures while the heap keeps what is there.
LEMMA SignaturesKept ==
  ASSUME NEW h, NEW g, NEW l, NEW p, Held(l, p), \A b \in Address : On(l, b) => g[b] = h[b]
  PROVE  SignaturesOf(g, p) = SignaturesOf(h, p)
<1>1. \A i \in 1 .. Len(p) : g[p[i]] = h[p[i]]
  BY DEF Held
<1> QED
  BY <1>1 DEF SignaturesOf

\* What the refinement rests on.
RInv == IInv /\ WellFormedTypes

LEMMA RInvInit == Init => WellFormedTypes
BY DEF Init, WellFormedTypes

\* The abstract values, in terms of the lemmas above.
LEMMA SignaturesAtModules ==
  /\ SignaturesAt(funcTypes) = [m \in Module |-> SignaturesOf(heap, funcTypes[m])]
  /\ SignaturesAt(functions) = [m \in Module |-> SignaturesOf(heap, functions[m])]
  /\ SignaturesAt(funcTypes)' = [m \in Module |-> SignaturesOf(heap', funcTypes'[m])]
  /\ SignaturesAt(functions)' = [m \in Module |-> SignaturesOf(heap', functions'[m])]
BY DEF SignaturesAt, SignaturesOf

LEMMA OneModuleChanged ==
  ASSUME NEW F, NEW G, NEW m \in Module, NEW e,
         F = [n \in Module |-> F[n]], G = [n \in Module |-> G[n]],
         \A n \in Module : G[n] = IF n = m THEN e ELSE F[n]
  PROVE  G = [F EXCEPT ![m] = e]
OBVIOUS

\* The functions that SignaturesAt gives, and what a change at one module is.
LEMMA SignaturesAtChanged ==
  ASSUME NEW m \in Module, NEW e
  PROVE  /\ (\A n \in Module : SignaturesOf(heap', functions'[n])
                               = IF n = m THEN e ELSE SignaturesOf(heap, functions[n]))
           => SignaturesAt(functions)' = [SignaturesAt(functions) EXCEPT ![m] = e]
         /\ (\A n \in Module : SignaturesOf(heap', funcTypes'[n])
                               = IF n = m THEN e ELSE SignaturesOf(heap, funcTypes[n]))
           => SignaturesAt(funcTypes)' = [SignaturesAt(funcTypes) EXCEPT ![m] = e]
<1> DEFINE A == SignaturesAt(functions)
           B == SignaturesAt(funcTypes)
           C == SignaturesAt(functions)'
           D == SignaturesAt(funcTypes)'
<1>1. /\ A = [n \in Module |-> A[n]] /\ B = [n \in Module |-> B[n]]
      /\ C = [n \in Module |-> C[n]] /\ D = [n \in Module |-> D[n]]
  BY DEF SignaturesAt
<1>2. \A n \in Module : /\ A[n] = SignaturesOf(heap, functions[n])
                        /\ B[n] = SignaturesOf(heap, funcTypes[n])
                        /\ C[n] = SignaturesOf(heap', functions'[n])
                        /\ D[n] = SignaturesOf(heap', funcTypes'[n])
  BY SignaturesAtModules
<1> HIDE DEF A, B, C, D
<1>3. (\A n \in Module : C[n] = IF n = m THEN e ELSE A[n]) => C = [A EXCEPT ![m] = e]
  BY <1>1, OneModuleChanged
<1>4. (\A n \in Module : D[n] = IF n = m THEN e ELSE B[n]) => D = [B EXCEPT ![m] = e]
  BY <1>1, OneModuleChanged
<1> QED
  BY <1>2, <1>3, <1>4 DEF A, B, C, D

LEMMA SignaturesAtModule ==
  ASSUME NEW m \in Module
  PROVE  /\ SignaturesAt(functions)[m] = SignaturesOf(heap, functions[m])
         /\ SignaturesAt(funcTypes)[m] = SignaturesOf(heap, funcTypes[m])
BY SignaturesAtModules

\* What an action that adds a type of signature sig may rely on.
LEMMA AddedSignature ==
  ASSUME RInv, NEW t, WellFormed(t), NEW a \in Free, heap' = Add(t, a).heap
  PROVE  /\ WellFormedTypes'
         /\ \A m \in Module :
              /\ SignaturesOf(heap', funcTypes[m]) = SignaturesOf(heap, funcTypes[m])
              /\ SignaturesOf(heap', functions[m]) = SignaturesOf(heap, functions[m])
              /\ SignaturesOf(heap', Append(funcTypes[m], Add(t, a).pointer))
                   = Append(SignaturesOf(heap, funcTypes[m]), SignatureOf(t))
              /\ SignaturesOf(heap', Append(functions[m], Add(t, a).pointer))
                   = Append(SignaturesOf(heap, functions[m]), SignatureOf(t))
<1> DEFINE p == Add(t, a).pointer
<1>1. /\ WellFormedTypes' /\ p \in Address /\ heap'[p] # NULL
      /\ SignatureOf(heap'[p]) = SignatureOf(t)
      /\ \A b \in Address : On(list, b) => heap'[b] = heap[b]
  BY AddWellFormed DEF RInv, IInv, WellFormedTypes
<1>2. WellFormed(heap'[p])
  BY <1>1 DEF WellFormedTypes
<1> HIDE DEF p
<1>3. ASSUME NEW s, Held(list, s)
      PROVE  /\ SignaturesOf(heap', s) = SignaturesOf(heap, s)
             /\ SignaturesOf(heap', Append(s, p))
                  = Append(SignaturesOf(heap, s), SignatureOf(t))
  <2>1. /\ s \in Seq(Address)
        /\ \A i \in 1 .. Len(s) : s[i] \in Address /\ On(list, s[i])
    BY <1>3 DEF Held
  <2>2. \A i \in 1 .. Len(s) : heap'[s[i]] = heap[s[i]] /\ WellFormed(heap[s[i]])
    BY <1>1, <2>1, OnListWellFormed DEF RInv
  <2>3. SignaturesOf(heap', s) = SignaturesOf(heap, s)
    BY <2>2 DEF SignaturesOf
  <2> QED
    BY <1>1, <1>2, <2>1, <2>2, <2>3, SignaturesOfAppend
<1> QED
  BY <1>1, <1>3 DEF p, RInv, IInv

\* The signature of a type and of a function that a module has.
LEMMA ModulePointers ==
  ASSUME RInv, NEW m \in Module
  PROVE  /\ funcTypes[m] \in Seq(Address) /\ functions[m] \in Seq(Address)
         /\ \A i \in 1 .. Len(funcTypes[m]) :
              /\ On(list, funcTypes[m][i]) /\ WellFormed(heap[funcTypes[m][i]])
              /\ SignaturesAt(funcTypes)[m][i] = SignatureOf(heap[funcTypes[m][i]])
         /\ \A f \in 1 .. Len(functions[m]) :
              /\ On(list, functions[m][f]) /\ WellFormed(heap[functions[m][f]])
              /\ SignaturesAt(functions)[m][f] = SignatureOf(heap[functions[m][f]])
         /\ DOMAIN SignaturesAt(funcTypes)[m] = 1 .. Len(funcTypes[m])
         /\ DOMAIN SignaturesAt(functions)[m] = 1 .. Len(functions[m])
<1>1. Held(list, funcTypes[m]) /\ Held(list, functions[m])
  BY DEF RInv, IInv
<1>2. ASSUME NEW s, Held(list, s), NEW i \in 1 .. Len(s)
      PROVE  On(list, s[i]) /\ WellFormed(heap[s[i]])
  BY <1>2, OnListWellFormed DEF Held, RInv
<1> QED
  BY <1>1, <1>2 DEF Held, SignaturesAt

\* Comparing two pointers of a module compares the signatures.
LEMMA PointersCompareSignatures ==
  ASSUME RInv, NEW a \in Address, NEW b \in Address, On(list, a), On(list, b)
  PROVE  a = b <=> SignatureOf(heap[a]) = SignatureOf(heap[b])
<1>1. WellFormed(heap[a]) /\ WellFormed(heap[b])
  BY OnListWellFormed DEF RInv
<1>2. AreFuncTypesEqual(heap[a], heap[b]) => a = b
  BY DEF RInv, IInv, Interned, On
<1> QED
  BY <1>1, <1>2, EqualSignatures

-----------------------------------------------------------------------------
(* Each action is a step of Signatures, or no step of it                   *)

LEMMA EnvironmentSteps ==
  ASSUME RInv, m3_NewEnvironment \/ m3_FreeEnvironment
  PROVE  /\ WellFormedTypes'
         /\ UNCHANGED <<SignaturesAt(funcTypes), SignaturesAt(functions), answer>>
<1>1. /\ \A m \in Module : funcTypes[m] = <<>> /\ functions[m] = <<>>
      /\ UNCHANGED <<funcTypes, functions, answer>>
  BY DEF RInv, IInv, m3_NewEnvironment, m3_FreeEnvironment
<1>2. WellFormedTypes'
  <2>1. CASE Release
    <3>1. \A a \in Address : heap'[a] = NULL \/ heap'[a] = heap[a]
      BY <2>1 DEF Release
    <3> QED
      BY <3>1 DEF RInv, WellFormedTypes
  <2>2. ASSUME NEW a \in Free, ~Ready, heap' = Add(RetType(Len(retFuncTypes)), a).heap
        PROVE  WellFormedTypes'
    <3>1. Len(retFuncTypes) \in 0 .. Len(ValueType)
      BY <2>2, FuncTypesAssumption DEF RInv, IInv, Held, Ready, NumRetTypes
    <3> QED
      BY <2>2, <3>1, RetTypeSignature, AddedSignature
  <2> QED
    BY <2>1, <2>2 DEF m3_NewEnvironment, m3_FreeEnvironment
<1>3. ASSUME NEW m \in Module
      PROVE  /\ SignaturesOf(heap', funcTypes'[m]) = SignaturesOf(heap, funcTypes[m])
             /\ SignaturesOf(heap', functions'[m]) = SignaturesOf(heap, functions[m])
  BY <1>1 DEF SignaturesOf
<1> QED
  BY <1>1, <1>2, <1>3, SignaturesAtModules

LEMMA ParseSection_TypeStep ==
  ASSUME RInv, NEW m \in Module, NEW sig \in Signature, ParseSection_Type(m, sig)
  PROVE  WellFormedTypes' /\ S!AddType(m, sig)
<1> DEFINE t == MakeFuncType(sig)
<1>1. PICK a \in Free : /\ heap' = Add(t, a).heap
                        /\ funcTypes' = [funcTypes EXCEPT ![m] = Append(@, Add(t, a).pointer)]
  BY DEF ParseSection_Type
<1>2. answer' = Answer(m, sig, 0, "added") /\ UNCHANGED functions
  BY DEF ParseSection_Type
<1>3. WellFormed(t) /\ SignatureOf(t) = sig
  BY MakeFuncTypeSignature
<1>4. funcTypes \in [Module -> Seq(Address)]
  BY DEF RInv, IInv
<1> HIDE DEF t
<1>5. /\ WellFormedTypes'
      /\ \A n \in Module :
           /\ SignaturesOf(heap', functions'[n]) = SignaturesOf(heap, functions[n])
           /\ SignaturesOf(heap', funcTypes'[n])
                = IF n = m THEN Append(SignaturesOf(heap, funcTypes[n]), sig)
                           ELSE SignaturesOf(heap, funcTypes[n])
  BY <1>1, <1>2, <1>3, <1>4, AddedSignature
<1>6. /\ SignaturesAt(functions)' = SignaturesAt(functions)
      /\ SignaturesAt(funcTypes)' = [SignaturesAt(funcTypes) EXCEPT ![m] = Append(@, sig)]
  <2>1. SignaturesAt(functions)' = SignaturesAt(functions)
    BY <1>5, SignaturesAtModules
  <2> QED
    BY <1>5, <2>1, SignaturesAtChanged, SignaturesAtModule
<1> QED
  BY <1>2, <1>5, <1>6 DEF S!AddType, S!Answer, Answer

LEMMA InjectFunctionStep ==
  ASSUME RInv, NEW m \in Module, NEW sig \in Signature, m3_InjectFunction(m, sig)
  PROVE  WellFormedTypes' /\ S!AddBoth(m, sig)
<1> DEFINE t == MakeFuncType(sig)
<1>1. PICK a \in Free : /\ heap' = Add(t, a).heap
                        /\ funcTypes' = [funcTypes EXCEPT ![m] = Append(@, Add(t, a).pointer)]
                        /\ functions' = [functions EXCEPT ![m] = Append(@, Add(t, a).pointer)]
  BY DEF m3_InjectFunction
<1>2. answer' = Answer(m, sig, Len(functions'[m]), "added")
  BY DEF m3_InjectFunction
<1>3. WellFormed(t) /\ SignatureOf(t) = sig
  BY MakeFuncTypeSignature
<1>4. funcTypes \in [Module -> Seq(Address)] /\ functions \in [Module -> Seq(Address)]
  BY DEF RInv, IInv
<1> HIDE DEF t
<1>5. /\ WellFormedTypes'
      /\ \A n \in Module :
           /\ SignaturesOf(heap', functions'[n])
                = IF n = m THEN Append(SignaturesOf(heap, functions[n]), sig)
                           ELSE SignaturesOf(heap, functions[n])
           /\ SignaturesOf(heap', funcTypes'[n])
                = IF n = m THEN Append(SignaturesOf(heap, funcTypes[n]), sig)
                           ELSE SignaturesOf(heap, funcTypes[n])
  BY <1>1, <1>3, <1>4, AddedSignature
<1>6. /\ SignaturesAt(functions)' = [SignaturesAt(functions) EXCEPT ![m] = Append(@, sig)]
      /\ SignaturesAt(funcTypes)' = [SignaturesAt(funcTypes) EXCEPT ![m] = Append(@, sig)]
  BY <1>5, SignaturesAtChanged, SignaturesAtModule
<1>7. Len(functions'[m]) = Len(SignaturesAt(functions)'[m])
  <2>1. RInv' /\ functions'[m] \in Seq(Address)
    BY <1>5, InjectFunctionInv DEF RInv, IInv
  <2>2. SignaturesAt(functions)'[m] = SignaturesOf(heap', functions'[m])
    BY SignaturesAtModules
  <2>3. \A f \in 1 .. Len(functions'[m]) : WellFormed(heap'[functions'[m][f]])
    <3>1. Held(list', functions'[m])
      BY <2>1 DEF RInv, IInv
    <3>2. \A f \in 1 .. Len(functions'[m]) :
            functions'[m][f] \in Address /\ heap'[functions'[m][f]] # NULL
      <4>1. \A i \in 1 .. Len(list') : heap'[list'[i]] # NULL
        BY <2>1 DEF RInv, IInv, Interned
      <4>2. \A f \in 1 .. Len(functions'[m]) :
              \E i \in 1 .. Len(list') : list'[i] = functions'[m][f]
        BY <3>1 DEF Held, On
      <4> QED
        BY <2>1, <4>1, <4>2
    <3> QED
      BY <1>5, <3>2 DEF WellFormedTypes
  <2> QED
    BY <2>1, <2>2, <2>3, SignaturesOfType
<1> QED
  BY <1>2, <1>5, <1>6, <1>7 DEF S!AddBoth, S!Answer, Answer

LEMMA Module_AddFunctionStep ==
  ASSUME RInv, NEW m \in Module, NEW i \in DOMAIN funcTypes[m], Module_AddFunction(m, i)
  PROVE  WellFormedTypes' /\ S!AddFunction(m, i) /\ i \in DOMAIN SignaturesAt(funcTypes)[m]
<1> DEFINE a == funcTypes[m][i]
           sig == SignatureOf(heap[a])
<1>1. /\ UNCHANGED <<heap, funcTypes>>
      /\ functions' = [functions EXCEPT ![m] = Append(@, a)]
      /\ answer' = Answer(m, sig, Len(functions'[m]), "added")
  BY DEF Module_AddFunction
<1>2. /\ i \in 1 .. Len(funcTypes[m]) /\ a \in Address /\ WellFormed(heap[a])
      /\ SignaturesAt(funcTypes)[m][i] = sig
      /\ functions[m] \in Seq(Address)
      /\ \A f \in 1 .. Len(functions[m]) : WellFormed(heap[functions[m][f]])
      /\ i \in DOMAIN SignaturesAt(funcTypes)[m]
  BY ModulePointers
<1>3. WellFormedTypes' /\ functions \in [Module -> Seq(Address)]
  BY <1>1 DEF RInv, IInv, WellFormedTypes
<1> HIDE DEF a, sig
<1>4. SignaturesOf(heap, Append(functions[m], a)) = Append(SignaturesOf(heap, functions[m]), sig)
  BY <1>2, SignaturesOfAppend DEF sig
<1>5. \A n \in Module :
        /\ SignaturesOf(heap', functions'[n])
             = IF n = m THEN Append(SignaturesOf(heap, functions[n]), sig)
                        ELSE SignaturesOf(heap, functions[n])
        /\ SignaturesOf(heap', funcTypes'[n]) = SignaturesOf(heap, funcTypes[n])
  BY <1>1, <1>3, <1>4
<1>6. /\ SignaturesAt(functions)' = [SignaturesAt(functions) EXCEPT ![m] = Append(@, sig)]
      /\ SignaturesAt(funcTypes)' = SignaturesAt(funcTypes)
  <2>1. SignaturesAt(funcTypes)' = SignaturesAt(funcTypes)
    BY <1>5, SignaturesAtModules
  <2> QED
    BY <1>5, <2>1, SignaturesAtChanged, SignaturesAtModule
<1>7. Len(functions'[m]) = Len(SignaturesAt(functions)'[m])
  <2>1. SignaturesAt(functions)'[m] = Append(SignaturesOf(heap, functions[m]), sig)
    BY <1>5, SignaturesAtModules
  <2>2. /\ SignaturesOf(heap, functions[m]) \in Seq(Signature) /\ sig \in Signature
        /\ Len(SignaturesOf(heap, functions[m])) = Len(functions[m])
    BY <1>2, SignaturesOfType DEF WellFormed, sig
  <2>3. functions'[m] = Append(functions[m], a)
    BY <1>1, <1>3
  <2> QED
    BY <1>2, <2>1, <2>2, <2>3
<1> QED
  BY <1>1, <1>2, <1>3, <1>6, <1>7 DEF S!AddFunction, S!Answer, Answer

LEMMA FreeModuleStep ==
  ASSUME RInv, NEW m \in Module, m3_FreeModule(m)
  PROVE  WellFormedTypes' /\ S!Forget(m)
<1>1. /\ UNCHANGED heap /\ answer' = Nothing
      /\ funcTypes' = [funcTypes EXCEPT ![m] = <<>>]
      /\ functions' = [functions EXCEPT ![m] = <<>>]
      /\ funcTypes \in [Module -> Seq(Address)] /\ functions \in [Module -> Seq(Address)]
  BY DEF m3_FreeModule, RInv, IInv
<1>2. SignaturesOf(heap, <<>>) = <<>>
  BY DEF SignaturesOf
<1>3. \A n \in Module :
        /\ SignaturesOf(heap', functions'[n])
             = IF n = m THEN <<>> ELSE SignaturesOf(heap, functions[n])
        /\ SignaturesOf(heap', funcTypes'[n])
             = IF n = m THEN <<>> ELSE SignaturesOf(heap, funcTypes[n])
  BY <1>1, <1>2
<1>4. /\ SignaturesAt(functions)' = [SignaturesAt(functions) EXCEPT ![m] = <<>>]
      /\ SignaturesAt(funcTypes)' = [SignaturesAt(funcTypes) EXCEPT ![m] = <<>>]
  BY <1>3, SignaturesAtChanged
<1>5. WellFormedTypes'
  BY <1>1 DEF RInv, WellFormedTypes
<1> QED
  BY <1>1, <1>4, <1>5 DEF S!Forget, S!Nothing, Nothing

LEMMA NewModuleStep ==
  ASSUME RInv, NEW m \in Module, NewModule(m)
  PROVE  /\ WellFormedTypes'
         /\ UNCHANGED <<SignaturesAt(funcTypes), SignaturesAt(functions), answer>>
BY DEF NewModule, RInv, WellFormedTypes, SignaturesAt

LEMMA ComparedStep ==
  ASSUME RInv, NEW m \in Module, NEW sig, NEW f \in DOMAIN functions[m], NEW same \in BOOLEAN,
         Compared(m, sig, f, same), same <=> sig = SignatureOf(heap[functions[m][f]])
  PROVE  /\ WellFormedTypes' /\ S!Compare(m, sig, f)
         /\ f \in DOMAIN SignaturesAt(functions)[m]
<1>1. /\ answer' = Answer(m, sig, f, IF same THEN "match" ELSE "mismatch")
      /\ UNCHANGED <<heap, list, retFuncTypes, state, funcTypes, functions>>
  BY DEF Compared
<1>2. /\ f \in DOMAIN SignaturesAt(functions)[m]
      /\ SignaturesAt(functions)[m][f] = SignatureOf(heap[functions[m][f]])
  BY ModulePointers
<1>3. /\ UNCHANGED <<SignaturesAt(funcTypes), SignaturesAt(functions)>>
      /\ WellFormedTypes'
  BY <1>1 DEF SignaturesAt, RInv, WellFormedTypes
<1> QED
  BY <1>1, <1>2, <1>3 DEF S!Compare, S!Answer, Answer

LEMMA ValidateSignatureStep ==
  ASSUME RInv, NEW m \in Module, NEW f \in DOMAIN functions[m], NEW sig \in Signature,
         ValidateSignature(m, f, sig)
  PROVE  /\ WellFormedTypes' /\ S!Compare(m, sig, f)
         /\ f \in DOMAIN SignaturesAt(functions)[m]
<1> DEFINE same == AreFuncTypesEqual(MakeFuncType(sig), heap[functions[m][f]])
<1>1. WellFormed(heap[functions[m][f]])
  BY ModulePointers
<1>2. same <=> sig = SignatureOf(heap[functions[m][f]])
  BY <1>1, MakeFuncTypeSignature, EqualSignatures
<1>3. Compared(m, sig, f, same) /\ same \in BOOLEAN
  BY DEF ValidateSignature, AreFuncTypesEqual
<1> QED
  BY <1>2, <1>3, ComparedStep

LEMMA CallIndirectStep ==
  ASSUME RInv, NEW m \in Module, NEW i \in DOMAIN funcTypes[m], NEW f \in DOMAIN functions[m],
         CallIndirect(m, i, f)
  PROVE  /\ WellFormedTypes' /\ S!Compare(m, SignatureOf(heap[funcTypes[m][i]]), f)
         /\ f \in DOMAIN SignaturesAt(functions)[m]
         /\ SignatureOf(heap[funcTypes[m][i]]) \in Signature
<1>1. /\ funcTypes[m][i] \in Address /\ On(list, funcTypes[m][i])
      /\ functions[m][f] \in Address /\ On(list, functions[m][f])
      /\ SignatureOf(heap[funcTypes[m][i]]) \in Signature
  <2>1. /\ funcTypes[m] \in Seq(Address) /\ functions[m] \in Seq(Address)
        /\ \A n \in 1 .. Len(funcTypes[m]) :
             On(list, funcTypes[m][n]) /\ WellFormed(heap[funcTypes[m][n]])
        /\ \A g \in 1 .. Len(functions[m]) : On(list, functions[m][g])
    BY ModulePointers
  <2>2. i \in 1 .. Len(funcTypes[m]) /\ f \in 1 .. Len(functions[m])
    BY <2>1
  <2>3. WellFormed(heap[funcTypes[m][i]])
    BY <2>1, <2>2
  <2> QED
    BY <2>1, <2>2, <2>3 DEF WellFormed
<1>2. (funcTypes[m][i] = functions[m][f])
        <=> SignatureOf(heap[funcTypes[m][i]]) = SignatureOf(heap[functions[m][f]])
  BY <1>1, PointersCompareSignatures
<1>3. Compared(m, SignatureOf(heap[funcTypes[m][i]]), f, funcTypes[m][i] = functions[m][f])
  BY DEF CallIndirect
<1> QED
  BY <1>1, <1>2, <1>3, ComparedStep

LEMMA NextStep ==
  RInv /\ [Next]_vars => WellFormedTypes' /\ [S!Next]_(S!vars)
<1> SUFFICES ASSUME RInv, [Next]_vars PROVE WellFormedTypes' /\ [S!Next]_(S!vars)
  OBVIOUS
<1>1. CASE m3_NewEnvironment \/ m3_FreeEnvironment
  BY <1>1, EnvironmentSteps DEF S!vars
<1>2. ASSUME NEW m \in Module, NewModule(m)
      PROVE  WellFormedTypes' /\ [S!Next]_(S!vars)
  BY <1>2, NewModuleStep DEF S!vars
<1>3. ASSUME NEW m \in Module, m3_FreeModule(m)
      PROVE  WellFormedTypes' /\ S!Next
  BY <1>3, FreeModuleStep DEF S!Next
<1>4. ASSUME NEW m \in Module, NEW sig \in Signature, ParseSection_Type(m, sig)
      PROVE  WellFormedTypes' /\ S!Next
  BY <1>4, ParseSection_TypeStep DEF S!Next
<1>5. ASSUME NEW m \in Module, NEW i \in DOMAIN funcTypes[m], Module_AddFunction(m, i)
      PROVE  WellFormedTypes' /\ S!Next
  BY <1>5, Module_AddFunctionStep DEF S!Next
<1>6. ASSUME NEW m \in Module, NEW sig \in Signature, m3_InjectFunction(m, sig)
      PROVE  WellFormedTypes' /\ S!Next
  BY <1>6, InjectFunctionStep DEF S!Next
<1>7. ASSUME NEW m \in Module, NEW f \in DOMAIN functions[m], NEW sig \in Signature,
             ValidateSignature(m, f, sig)
      PROVE  WellFormedTypes' /\ S!Next
  BY <1>7, ValidateSignatureStep DEF S!Next
<1>8. ASSUME NEW m \in Module, NEW i \in DOMAIN funcTypes[m], NEW f \in DOMAIN functions[m],
             CallIndirect(m, i, f)
      PROVE  WellFormedTypes' /\ S!Next
  BY <1>8, CallIndirectStep DEF S!Next
<1>9. CASE UNCHANGED vars
  BY <1>9 DEF vars, S!vars, RInv, WellFormedTypes, SignaturesAt
<1> QED
  BY <1>1, <1>2, <1>3, <1>4, <1>5, <1>6, <1>7, <1>8, <1>9 DEF Next

\* For any modules, signatures and addresses: the environment's shared types
\* implement lists of signatures that share nothing.  Whatever the modules and
\* the list do to the heap, a module's types and functions keep the signatures
\* they were given, and a link or an indirect call goes through exactly if the
\* two signatures are the same.
THEOREM RefinesSignatures == Spec => ImplementsSignatures
<1>1. Init => S!Init
  BY DEF Init, S!Init, SignaturesAt, Nothing, S!Nothing
<1>2. IInv /\ WellFormedTypes /\ [Next]_vars => WellFormedTypes' /\ [S!Next]_(S!vars)
  BY NextStep DEF RInv
<1>3. Spec => []WellFormedTypes
  BY <1>2, RInvInit, Invariance, PTL DEF Spec
<1> QED
  BY <1>1, <1>2, <1>3, Invariance, PTL DEF Spec, ImplementsSignatures, S!Spec
=============================================================================
