--------------------------- MODULE ExecutionProofs ---------------------------
(***************************************************************************)
(* The stack and the pointer to the memory are right at every depth of     *)
(* nested calls.                                                           *)
(***************************************************************************)
EXTENDS Execution, FiniteSetTheorems, SequenceTheorems, WellFoundedInduction, TLAPS

\* The innermost host function among the first n frames of fs, 0 if none.
HostIn(fs, n) == Max({0} \cup {i \in 1 .. n : fs[i].kind = "host"})

\* Where runtime->stack is below the frame at i of fs.
Bottom(fs, i) == IF HostIn(fs, i - 1) = 0 THEN 0 ELSE fs[HostIn(fs, i - 1)].sp

\* StackFollowsHosts, of any frames and stack.
Following(fs, st) ==
  /\ st = Bottom(fs, Len(fs) + 1)
  /\ \A i \in 1 .. Len(fs) : fs[i].kind = "host" => fs[i].backup = Bottom(fs, i)

\* A loop is in the function below it; every call goes further up the stack.
Nested(fs) ==
  /\ \A i \in 1 .. Len(fs) : fs[i].kind = "loop" => i > 1 /\ fs[i - 1].kind # "host"
  /\ \A i, j \in 1 .. Len(fs) :
       i < j => /\ fs[i].sp <= fs[j].sp
                /\ fs[i].kind # "host" /\ fs[j].kind # "loop" => fs[i].sp < fs[j].sp

Fitting(fs) ==
  \A i \in 1 .. Len(fs) : fs[i].kind = "function" => fs[i].sp + fs[i].size < StackSlots

\* What the frames of a runtime whose stack is st are like.
Shape(fs, st) == fs \in Seq(Frame) /\ Following(fs, st) /\ Nested(fs)

\* The memory and its header; the limit, while no nested call has resized it.
MemoryOk ==
  /\ mallocated \in Block \cup {NULL}
  /\ header \in [Block -> {NULL} \cup [length : Nat, maxStack : Nat]]
  /\ numPages \in 0 .. MaxLinearPages /\ resizedDeep \in BOOLEAN
  /\ HeaderAgrees
  /\ ~resizedDeep => (mallocated # NULL => header[mallocated].maxStack = StackSlots)

\* The inductive invariant.
IInv ==
  /\ MemoryOk /\ maxPages \in 0 .. Wrap - 1
  /\ stack \in Nat /\ Shape(frames, stack)
  /\ frames # <<>> => mallocated # NULL
  /\ MemCurrent
  /\ ~resizedDeep => Fitting(frames)

-----------------------------------------------------------------------------
(* The innermost host function                                             *)

\* A finite set of numbers that is not empty has a greatest element.
LEMMA MaxProperty ==
  ASSUME NEW S \in SUBSET Nat, IsFiniteSet(S), S # {}
  PROVE  Max(S) \in S /\ \A y \in S : Max(S) >= y
<1> DEFINE R == StrictSubsetOrdering(S)
           From(a) == {x \in S : x >= a}
           T == {From(a) : a \in S}
<1>1. IsWellFoundedOn(R, FiniteSubsetsOf(S))
  BY FS_StrictSubsetOrderingWellFounded
<1>2. T \subseteq FiniteSubsetsOf(S) /\ T # {}
  <2>1. \A a \in S : From(a) \in SUBSET S
    OBVIOUS
  <2>2. T \subseteq SUBSET S /\ T # {}
    BY <2>1
  <2> HIDE DEF T
  <2> QED
    BY <2>2, FS_FiniteSubsetsOfFinite
<1>3. \E U \in T : \A V \in T : <<V, U>> \notin R
  <2> HIDE DEF R, T
  <2> QED
    BY <1>1, <1>2, WFMin
<1>4. PICK a \in S : \A b \in S : <<From(b), From(a)>> \notin R
  BY <1>3
<1>5. ASSUME NEW b \in S, b > a
      PROVE  FALSE
  <2>0. a \in Nat /\ b \in Nat
    OBVIOUS
  <2>1. From(b) \subseteq From(a) /\ a \in From(a)
    <3>1. ASSUME NEW x \in S, x >= b
          PROVE  x >= a
      <4>1. x \in Nat
        OBVIOUS
      <4> QED
        BY <2>0, <3>1, <4>1, <1>5
    <3>2. a >= a
      BY <2>0
    <3> QED
      BY <3>1, <3>2
  <2>2. a \notin From(b)
    BY <2>0, <1>5
  <2>3. From(a) \in SUBSET S /\ From(b) \in SUBSET S /\ From(a) # From(b)
    BY <2>1, <2>2
  <2>4. <<From(b), From(a)>> \in R
    <3> HIDE DEF From
    <3> QED
      BY <2>1, <2>3 DEF StrictSubsetOrdering
  <2> QED
    BY <1>4, <2>4
<1>6. \A b \in S : a >= b
  BY <1>5
<1>7. \E x \in S : \A y \in S : x >= y
  BY <1>6
<1> QED
  BY <1>7 DEF Max

LEMMA MaxIs ==
  ASSUME NEW S \in SUBSET Nat, NEW m \in S, \A y \in S : m >= y
  PROVE  Max(S) = m
<1>1. \E x \in S : \A y \in S : x >= y
  OBVIOUS
<1>2. Max(S) \in S /\ \A y \in S : Max(S) >= y
  BY <1>1 DEF Max
<1> DEFINE k == Max(S)
<1>3. k \in Nat /\ m \in Nat /\ k >= m /\ m >= k
  BY <1>2
<1> HIDE DEF k
<1>4. k = m
  BY <1>3
<1> QED
  BY <1>4 DEF k

\* What the innermost frame of a kind is.
LEMMA InnermostProperty ==
  ASSUME NEW fs, NEW kind, NEW n \in Nat
  PROVE  LET m == Max({0} \cup {i \in 1 .. n : fs[i].kind = kind})
         IN  /\ m \in 0 .. n
             /\ m # 0 => fs[m].kind = kind
             /\ \A i \in m + 1 .. n : fs[i].kind # kind
<1> DEFINE S == {0} \cup {i \in 1 .. n : fs[i].kind = kind}
<1>1. S \in SUBSET Nat /\ S # {} /\ S \subseteq 0 .. n
  OBVIOUS
<1>2. IsFiniteSet(S)
  <2>1. IsFiniteSet(0 .. n) /\ S \in SUBSET (0 .. n)
    BY <1>1, FS_Interval
  <2> HIDE DEF S
  <2> QED
    BY <2>1, FS_Subset
<1>3. Max(S) \in S /\ \A y \in S : Max(S) >= y
  <2> HIDE DEF S
  <2> QED
    BY <1>1, <1>2, MaxProperty
<1>4. \A i \in Max(S) + 1 .. n : i \notin S
  BY <1>1, <1>3
<1>5. ASSUME NEW i \in Max(S) + 1 .. n
      PROVE  fs[i].kind # kind
  BY <1>1, <1>3, <1>4, <1>5
<1> QED
  BY <1>1, <1>3, <1>5

LEMMA HostInRange ==
  ASSUME NEW fs, NEW n \in Nat
  PROVE  /\ HostIn(fs, n) \in 0 .. n
         /\ HostIn(fs, n) # 0 => fs[HostIn(fs, n)].kind = "host"
         /\ \A i \in HostIn(fs, n) + 1 .. n : fs[i].kind # "host"
BY InnermostProperty DEF HostIn

LEMMA InnermostRange ==
  ASSUME NEW kind, NEW n \in Nat
  PROVE  /\ InnermostOf(kind, n) \in 0 .. n
         /\ InnermostOf(kind, n) # 0 => frames[InnermostOf(kind, n)].kind = kind
         /\ \A i \in InnermostOf(kind, n) + 1 .. n : frames[i].kind # kind
BY InnermostProperty DEF InnermostOf

\* Where the frames below i are host functions, and where they begin, is all
\* that the bottom at i depends on.
LEMMA SameBottom ==
  ASSUME NEW fs, NEW gs, NEW i \in Nat \ {0},
         \A j \in 1 .. i - 1 : gs[j].kind = fs[j].kind /\ gs[j].sp = fs[j].sp
  PROVE  Bottom(gs, i) = Bottom(fs, i)
<1>1. HostIn(gs, i - 1) = HostIn(fs, i - 1)
  <2>1. {j \in 1 .. i - 1 : gs[j].kind = "host"} = {j \in 1 .. i - 1 : fs[j].kind = "host"}
    OBVIOUS
  <2> QED
    BY <2>1 DEF HostIn
<1>2. HostIn(fs, i - 1) \in 0 .. i - 1
  BY HostInRange
<1>3. HostIn(fs, i - 1) # 0 => HostIn(fs, i - 1) \in 1 .. i - 1
  BY <1>2
<1> QED
  BY <1>1, <1>3 DEF Bottom

\* Frames of wasm code do not change it.
LEMMA BottomSkips ==
  ASSUME NEW fs, NEW m \in Nat, NEW n \in Nat, m <= n,
         \A j \in m + 1 .. n : fs[j].kind # "host"
  PROVE  Bottom(fs, n + 1) = Bottom(fs, m + 1)
<1>1. {j \in 1 .. n : fs[j].kind = "host"} = {j \in 1 .. m : fs[j].kind = "host"}
  OBVIOUS
<1>2. HostIn(fs, n) = HostIn(fs, m)
  BY <1>1 DEF HostIn
<1>3. (n + 1) - 1 = n /\ (m + 1) - 1 = m
  OBVIOUS
<1> QED
  BY <1>2, <1>3 DEF Bottom

LEMMA BottomOfHost ==
  ASSUME NEW fs, NEW n \in Nat \ {0}, fs[n].kind = "host"
  PROVE  Bottom(fs, n + 1) = fs[n].sp
<1>1. n \in 0 .. n /\ HostIn(fs, n) = n
  BY HostInRange
<1>2. (n + 1) - 1 = n /\ n # 0
  OBVIOUS
<1> QED
  BY <1>1, <1>2 DEF Bottom

-----------------------------------------------------------------------------
(* Frames                                                                  *)

LEMMA FrameAt ==
  ASSUME NEW fs \in Seq(Frame), NEW i \in 1 .. Len(fs)
  PROVE  /\ fs[i] \in Frame /\ fs[i].kind \in {"function", "loop", "host"}
         /\ fs[i].sp \in Nat /\ fs[i].size \in Nat /\ fs[i].mem \in Block
         /\ fs[i].backup \in Nat
<1>1. fs[i] \in Frame
  OBVIOUS
<1> QED
  BY <1>1 DEF Frame

\* Where frames differ in _mem only, nothing changes.
LEMMA SameShape ==
  ASSUME NEW fs, NEW gs \in Seq(Frame), NEW st, Shape(fs, st), Len(gs) = Len(fs),
         \A i \in 1 .. Len(fs) : /\ gs[i].kind = fs[i].kind /\ gs[i].sp = fs[i].sp
                                 /\ gs[i].size = fs[i].size
                                 /\ gs[i].backup = fs[i].backup
  PROVE  Shape(gs, st) /\ (Fitting(fs) => Fitting(gs))
<1>1. Len(fs) \in Nat /\ fs \in Seq(Frame)
  BY DEF Shape
<1>2. ASSUME NEW i \in 1 .. Len(fs) + 1
      PROVE  Bottom(gs, i) = Bottom(fs, i)
  BY <1>1, SameBottom
<1>3. Following(gs, st)
  BY <1>1, <1>2 DEF Following, Shape
<1>4. Nested(gs)
  <2>1. \A i \in 1 .. Len(fs) : i > 1 => i - 1 \in 1 .. Len(fs)
    BY <1>1
  <2> QED
    BY <1>1, <2>1 DEF Nested, Shape
<1>5. Fitting(fs) => Fitting(gs)
  BY DEF Fitting
<1> QED
  BY <1>3, <1>4, <1>5 DEF Shape

\* The frames that a return, a trap or a branch leaves.
LEMMA PrefixShape ==
  ASSUME NEW fs, NEW st, NEW nst, Shape(fs, st), NEW n \in 0 .. Len(fs),
         nst = Bottom(fs, n + 1)
  PROVE  /\ Shape(SubSeq(fs, 1, n), nst) /\ Len(SubSeq(fs, 1, n)) = n
         /\ \A i \in 1 .. n : SubSeq(fs, 1, n)[i] = fs[i]
         /\ Fitting(fs) => Fitting(SubSeq(fs, 1, n))
<1> DEFINE gs == SubSeq(fs, 1, n)
<1>1. fs \in Seq(Frame) /\ Len(fs) \in Nat
  BY DEF Shape
<1>2. gs \in Seq(Frame) /\ Len(gs) = n /\ \A i \in 1 .. n : gs[i] = fs[i]
  BY <1>1
<1>3. \A i \in 1 .. n : i \in 1 .. Len(fs) /\ (i > 1 => i - 1 \in 1 .. n)
  BY <1>1
<1> HIDE DEF gs
<1>4. ASSUME NEW i \in 1 .. n + 1
      PROVE  Bottom(gs, i) = Bottom(fs, i)
  <2>1. i \in Nat \ {0} /\ \A j \in 1 .. i - 1 : j \in 1 .. n
    BY <1>1
  <2> QED
    BY <1>2, <2>1, SameBottom
<1>5. Following(gs, nst)
  BY <1>1, <1>2, <1>3, <1>4 DEF Following, Shape
<1>6. Nested(gs)
  BY <1>2, <1>3 DEF Nested, Shape
<1>7. Fitting(fs) => Fitting(gs)
  BY <1>2, <1>3 DEF Fitting
<1> QED
  BY <1>2, <1>5, <1>6, <1>7 DEF Shape, gs

\* One more frame, no lower than the last, and higher than all wasm code.
LEMMA AppendShape ==
  ASSUME NEW fs, NEW st, Shape(fs, st), NEW g \in Frame, NEW nst,
         IF g.kind = "host" THEN g.backup = st /\ nst = g.sp ELSE nst = st,
         g.kind = "loop" => fs # <<>> /\ fs[Len(fs)].kind # "host",
         fs # <<>> =>
           /\ fs[Len(fs)].sp <= g.sp
           /\ fs[Len(fs)].kind # "host" /\ g.kind # "loop" => fs[Len(fs)].sp < g.sp
  PROVE  /\ Shape(Append(fs, g), nst)
         /\ Fitting(fs) /\ (g.kind = "function" => g.sp + g.size < StackSlots) =>
              Fitting(Append(fs, g))
<1> DEFINE gs == Append(fs, g)
           n == Len(fs)
<1>1. fs \in Seq(Frame) /\ n \in Nat
  BY DEF Shape
<1>2. /\ gs \in Seq(Frame) /\ Len(gs) = n + 1 /\ gs[n + 1] = g
      /\ \A i \in 1 .. n : gs[i] = fs[i]
  BY <1>1, AppendProperties
<1>3. \A i \in 1 .. n : i \in 1 .. Len(gs)
  BY <1>1, <1>2
<1>4. \A i \in 1 .. Len(gs) : i \in 1 .. n \/ i = n + 1
  BY <1>1, <1>2
<1>5. n # 0 => fs # <<>> /\ n \in 1 .. n
  BY <1>1
<1>6. g.sp \in Nat /\ g.size \in Nat
  BY DEF Frame
<1> HIDE DEF gs, n
<1>7. ASSUME NEW i \in 1 .. n + 1
      PROVE  Bottom(gs, i) = Bottom(fs, i)
  <2>1. i \in Nat \ {0} /\ \A j \in 1 .. i - 1 : j \in 1 .. n
    BY <1>1
  <2> QED
    BY <1>2, <2>1, SameBottom
<1>8. Bottom(gs, n + 1) = st
  BY <1>1, <1>7 DEF Following, Shape, n
<1>9. nst = Bottom(gs, n + 2)
  <2>1. CASE g.kind = "host"
    <3>1. Bottom(gs, (n + 1) + 1) = gs[n + 1].sp
      BY <1>1, <1>2, <2>1, BottomOfHost
    <3> QED
      BY <1>1, <1>2, <2>1, <3>1
  <2>2. CASE g.kind # "host"
    <3>1. \A j \in n + 1 .. n + 1 : gs[j].kind # "host"
      BY <1>1, <1>2, <2>2
    <3>2. Bottom(gs, (n + 1) + 1) = Bottom(gs, n + 1)
      BY <1>1, <3>1, BottomSkips
    <3> QED
      BY <1>1, <1>8, <2>2, <3>2
  <2> QED
    BY <2>1, <2>2
<1>10. Following(gs, nst)
  <2>1. ASSUME NEW i \in 1 .. Len(gs), gs[i].kind = "host"
        PROVE  gs[i].backup = Bottom(gs, i)
    <3>1. CASE i \in 1 .. n
      BY <1>1, <1>2, <1>7, <2>1, <3>1 DEF Following, Shape, n
    <3>2. CASE i = n + 1
      BY <1>2, <1>8, <2>1, <3>2
    <3> QED
      BY <1>4, <3>1, <3>2
  <2>2. Len(gs) + 1 = n + 2
    BY <1>1, <1>2
  <2> QED
    BY <1>9, <2>1, <2>2 DEF Following
<1>11. \A i \in 1 .. Len(gs) : gs[i].kind = "loop" => i > 1 /\ gs[i - 1].kind # "host"
  <2>1. ASSUME NEW i \in 1 .. Len(gs), gs[i].kind = "loop"
        PROVE  i > 1 /\ gs[i - 1].kind # "host"
    <3>1. CASE i \in 1 .. n
      <4>1. i > 1 /\ fs[i - 1].kind # "host"
        BY <1>2, <2>1, <3>1 DEF Nested, Shape, n
      <4>2. i - 1 \in 1 .. n
        BY <1>1, <3>1, <4>1
      <4> QED
        BY <1>2, <4>1, <4>2
    <3>2. CASE i = n + 1
      <4>1. n # 0
        BY <1>1, <1>2, <2>1, <3>2 DEF n
      <4>2. n \in 1 .. n /\ fs[n].kind # "host" /\ i - 1 = n /\ i > 1
        BY <1>1, <1>2, <1>5, <2>1, <3>2, <4>1 DEF n
      <4> QED
        BY <1>2, <4>2
    <3> QED
      BY <1>4, <3>1, <3>2
  <2> QED
    BY <2>1
<1>12. ASSUME NEW i \in 1 .. Len(gs), NEW j \in 1 .. Len(gs), i < j
       PROVE  /\ gs[i].sp <= gs[j].sp
              /\ gs[i].kind # "host" /\ gs[j].kind # "loop" => gs[i].sp < gs[j].sp
  <2>1. CASE j \in 1 .. n
    <3>1. i \in 1 .. n
      BY <1>1, <1>12, <2>1
    <3> QED
      BY <1>2, <1>12, <2>1, <3>1 DEF Nested, Shape, n
  <2>2. CASE j = n + 1
    <3>1. i \in 1 .. n /\ n \in 1 .. n /\ fs # <<>>
      BY <1>1, <1>5, <1>12, <2>2
    <3>2. /\ fs[i].sp \in Nat /\ fs[n].sp \in Nat
          /\ fs[n].kind \in {"function", "loop", "host"}
      BY <1>1, <3>1, FrameAt DEF n
    <3>3. /\ fs[n].sp <= g.sp
          /\ fs[n].kind # "host" /\ g.kind # "loop" => fs[n].sp < g.sp
      BY <3>1 DEF n
    <3>4. CASE i = n
      BY <1>2, <2>2, <3>1, <3>3, <3>4
    <3>5. CASE i < n
      <4>1. /\ fs[i].sp <= fs[n].sp
            /\ fs[i].kind # "host" /\ fs[n].kind = "host" => fs[i].sp < fs[n].sp
        BY <3>1, <3>5 DEF Nested, Shape, n
      <4> QED
        BY <1>2, <1>6, <2>2, <3>1, <3>2, <3>3, <4>1
    <3> QED
      BY <1>1, <3>1, <3>4, <3>5
  <2> QED
    BY <1>4, <2>1, <2>2
<1>13. Nested(gs)
  BY <1>11, <1>12 DEF Nested
<1>14. Fitting(fs) /\ (g.kind = "function" => g.sp + g.size < StackSlots) => Fitting(gs)
  BY <1>2, <1>4 DEF Fitting, n
<1> QED
  BY <1>2, <1>10, <1>13, <1>14 DEF Shape, gs

-----------------------------------------------------------------------------
(* Memory                                                                  *)

\* A number of pages that is accepted has less than 2^32 bytes.
LEMMA AllocatedWithinLimits ==
  ASSUME NEW n \in 0 .. MaxLinearPages
  PROVE  AllocatedBytes(n) =
           IF MemoryLimit > 0 /\ MemoryLimit < n * PageBytes THEN MemoryLimit
           ELSE n * PageBytes
<1>1. /\ n \in Nat /\ PageBytes \in Nat /\ Wrap \in Nat /\ PageLimit \in Nat
      /\ PageBytes > 0 /\ n <= PageLimit - 1 /\ PageLimit * PageBytes = Wrap
  BY ExecutionAssumption
<1>2. (PageLimit - 1) * PageBytes = Wrap - PageBytes
  BY <1>1
<1>3. n * PageBytes <= (PageLimit - 1) * PageBytes
  BY <1>1
<1>4. n * PageBytes \in 0 .. Wrap - 1
  BY <1>1, <1>2, <1>3
<1> DEFINE k == n * PageBytes
<1>5. k % Wrap = k
  <2>1. k \in 0 .. Wrap - 1 /\ Wrap \in Nat
    BY <1>1, <1>4
  <2> HIDE DEF k
  <2> QED
    BY <2>1
<1> QED
  BY <1>5 DEF AllocatedBytes

\* A resize, refused, failed or done, keeps the memory as it should be.
LEMMA ResizeKeepsMemoryOk ==
  ASSUME MemoryOk, stack \in Nat, NEW n \in Nat, NEW max \in Nat, ResizeMemory(n, max)
  PROVE  MemoryOk' /\ (mallocated # NULL => mallocated' # NULL)
         /\ (resizedDeep => resizedDeep')
<1>1. PICK b \in IF WithinLimits(n, max) THEN Realloc(n) ELSE {NULL} :
        IF b = NULL THEN UNCHANGED <<mallocated, header, numPages, resizedDeep>>
        ELSE /\ mallocated' = b
             /\ header' = [c \in Block |->
                             IF c = b THEN [length   |-> AllocatedBytes(n),
                                            maxStack |-> stack + StackSlots]
                                      ELSE NULL]
             /\ numPages' = n
             /\ resizedDeep' = (resizedDeep \/ stack # 0)
  BY DEF ResizeMemory
<1>2. CASE b = NULL
  BY <1>1, <1>2 DEF MemoryOk, HeaderAgrees
<1>3. CASE b # NULL
  <2>1. b \in Block
    BY <1>1, <1>3 DEF Realloc, MemoryOk
  <2>2. n \in 0 .. MaxLinearPages
    BY <1>1, <1>3, ExecutionAssumption DEF WithinLimits
  <2>3. AllocatedBytes(n) \in Nat
    BY <2>2, AllocatedWithinLimits, ExecutionAssumption
  <2> DEFINE h == [length |-> AllocatedBytes(n), maxStack |-> stack + StackSlots]
  <2>4. h \in [length : Nat, maxStack : Nat]
    BY <2>3, ExecutionAssumption DEF MemoryOk
  <2>5. h # NULL
    BY <2>4, ExecutionAssumption
  <2>6. /\ h.length = AllocatedBytes(n)
        /\ h.maxStack = stack + StackSlots
    OBVIOUS
  <2>7. /\ mallocated' = b /\ header' = [c \in Block |-> IF c = b THEN h ELSE NULL]
        /\ numPages' = n /\ resizedDeep' = (resizedDeep \/ stack # 0)
    BY <1>1, <1>3
  <2> HIDE DEF h
  <2>8. header' \in [Block -> {NULL} \cup [length : Nat, maxStack : Nat]]
    BY <2>4, <2>7
  <2>9. HeaderAgrees'
    <3>1. \A c \in Block : header'[c] # NULL <=> c = mallocated'
      BY <2>5, <2>7
    <3>2. header'[mallocated'].length = AllocatedBytes(numPages')
      BY <2>1, <2>6, <2>7
    <3>3. header'[mallocated'].length =
            IF MemoryLimit > 0 /\ MemoryLimit < numPages' * PageBytes THEN MemoryLimit
            ELSE numPages' * PageBytes
      BY <2>2, <2>7, <3>2, AllocatedWithinLimits
    <3> QED
      BY <3>1, <3>3 DEF HeaderAgrees
  <2>10. ~resizedDeep' => header'[mallocated'].maxStack = StackSlots
    <3>1. ~resizedDeep' => stack = 0
      BY <2>7, Zenon
    <3>2. header'[mallocated'].maxStack = stack + StackSlots
      BY <2>1, <2>6, <2>7
    <3> QED
      BY <3>1, <3>2, ExecutionAssumption
  <2> QED
    BY <1>3, <2>1, <2>2, <2>7, <2>8, <2>9, <2>10 DEF MemoryOk
<1> QED
  BY <1>2, <1>3

LEMMA UnchangedMemory ==
  ASSUME MemoryOk, UNCHANGED memory
  PROVE  /\ MemoryOk'
         /\ mallocated' = mallocated /\ resizedDeep' = resizedDeep /\ maxPages' = maxPages
BY DEF MemoryOk, memory, HeaderAgrees

-----------------------------------------------------------------------------
(* Steps                                                                   *)

\* Frames that were left are not wasm code, or have their _mem refreshed.
LEMMA RefreshedShape ==
  ASSUME NEW fs, NEW st, Shape(fs, st), NEW mem, fs # <<>> => mem \in Block
  PROVE  LET gs == Refreshed(fs, mem)
         IN  /\ Shape(gs, st) /\ Len(gs) = Len(fs) /\ (Fitting(fs) => Fitting(gs))
             /\ gs # <<>> <=> fs # <<>>
             /\ gs # <<>> /\ gs[Len(gs)].kind # "host" => gs[Len(gs)].mem = mem
<1>1. fs \in Seq(Frame) /\ Len(fs) \in Nat
  BY DEF Shape
<1>2. CASE fs = <<>> \/ fs[Len(fs)].kind = "host"
  BY <1>2 DEF Refreshed
<1>3. CASE fs # <<>> /\ fs[Len(fs)].kind # "host"
  <2> DEFINE n == Len(fs)
             g == [fs[n] EXCEPT !.mem = mem]
             gs == [fs EXCEPT ![n] = g]
  <2>1. n \in 1 .. n /\ fs[n] \in Frame /\ mem \in Block
    BY <1>1, <1>3
  <2>2. /\ g \in Frame /\ g.kind = fs[n].kind /\ g.sp = fs[n].sp /\ g.size = fs[n].size
        /\ g.backup = fs[n].backup /\ g.mem = mem
    BY <2>1 DEF Frame
  <2> HIDE DEF g
  <2>3. gs \in Seq(Frame) /\ Len(gs) = n /\ \A i \in 1 .. n : gs[i] = IF i = n THEN g ELSE fs[i]
    BY <1>1, <2>1, <2>2, ExceptSeq
  <2>4. Refreshed(fs, mem) = gs
    BY <1>3 DEF Refreshed, g
  <2> HIDE DEF gs
  <2>5. Shape(gs, st) /\ (Fitting(fs) => Fitting(gs))
    BY <2>2, <2>3, SameShape
  <2> QED
    BY <1>1, <1>3, <2>1, <2>2, <2>3, <2>4, <2>5
<1> QED
  BY <1>2, <1>3

\* What running code knows of the frames, and what the embedder knows.
LEMMA TopFrame ==
  ASSUME IInv
  PROVE  /\ frames # <<>> => /\ Len(frames) \in 1 .. Len(frames) /\ Top \in Frame
                             /\ Top.sp \in Nat /\ Top.size \in Nat /\ mallocated \in Block
         /\ Running => Top.mem = mallocated
         /\ Embedder /\ frames # <<>> => stack = Top.sp /\ Top.kind = "host"
         /\ frames \in Seq(Frame) /\ Len(frames) \in Nat
<1>1. frames \in Seq(Frame) /\ Len(frames) \in Nat /\ (frames # <<>> => Len(frames) \in 1 .. Len(frames))
  BY DEF IInv, Shape
<1>2. frames # <<>> => Top \in Frame /\ Top.sp \in Nat /\ Top.size \in Nat
  BY <1>1, FrameAt DEF Top
<1>3. ASSUME Embedder, frames # <<>>
      PROVE  stack = Top.sp /\ Top.kind = "host"
  <2>1. Top.kind = "host" /\ Len(frames) \in Nat \ {0}
    BY <1>1, <1>3 DEF Embedder, Running
  <2> QED
    BY <2>1, BottomOfHost DEF IInv, Shape, Following, Top
<1> QED
  BY <1>1, <1>2, <1>3 DEF IInv, MemCurrent, MemoryOk

\* Wasm code runs in a function: no host function is further in.
LEMMA RunningFunction ==
  ASSUME IInv, Running
  PROVE  /\ Innermost("function") \in 1 .. Len(frames)
         /\ \A j \in Innermost("function") .. Len(frames) : frames[j].kind # "host"
<1> DEFINE n == Len(frames)
           h == HostIn(frames, n)
<1>1. frames \in Seq(Frame) /\ n \in Nat /\ n # 0 /\ frames[n].kind # "host"
  BY TopFrame DEF Running, Top
<1>2. /\ h \in 0 .. n /\ h # n
      /\ h # 0 => frames[h].kind = "host"
      /\ \A i \in h + 1 .. n : frames[i].kind # "host"
  BY <1>1, HostInRange
<1> HIDE DEF h
<1>3. frames[h + 1].kind = "function"
  <2>1. h + 1 \in 1 .. n /\ frames[h + 1].kind \in {"function", "loop", "host"}
    BY <1>1, <1>2, FrameAt
  <2>2. frames[h + 1].kind # "loop"
    <3>1. ASSUME frames[h + 1].kind = "loop"
          PROVE  FALSE
      <4>1. h + 1 > 1 /\ frames[(h + 1) - 1].kind # "host"
        BY <2>1, <3>1 DEF IInv, Shape, Nested
      <4>2. h # 0 /\ (h + 1) - 1 = h
        BY <1>2, <4>1
      <4> QED
        BY <1>2, <4>1, <4>2
    <3> QED
      BY <3>1
  <2> QED
    BY <1>2, <2>1, <2>2
<1>4. /\ Innermost("function") \in 0 .. n
      /\ \A i \in Innermost("function") + 1 .. n : frames[i].kind # "function"
      /\ Innermost("function") # 0 => frames[Innermost("function")].kind = "function"
  BY <1>1, InnermostRange DEF Innermost
<1>5. Innermost("function") >= h + 1
  BY <1>1, <1>2, <1>3, <1>4
<1> QED
  BY <1>1, <1>2, <1>4, <1>5

\* Frames that are as they should be, over memory that did not change.
LEMMA NewFrames ==
  ASSUME IInv, UNCHANGED memory, stack' \in Nat, Shape(frames', stack'),
         Fitting(frames) => Fitting(frames'),
         frames' # <<>> => mallocated # NULL,
         frames' # <<>> /\ frames'[Len(frames')].kind # "host" =>
           frames'[Len(frames')].mem = mallocated
  PROVE  IInv'
<1>1. /\ MemoryOk' /\ mallocated' = mallocated /\ resizedDeep' = resizedDeep
      /\ maxPages' = maxPages
  BY UnchangedMemory DEF IInv
<1>2. MemCurrent'
  BY <1>1 DEF MemCurrent, Running, Top
<1>3. ~resizedDeep' => Fitting(frames')
  BY <1>1, Zenon DEF IInv
<1> QED
  BY <1>1, <1>2, <1>3 DEF IInv

\* An error goes to the innermost host function among the first n frames.
LEMMA UnwindStep ==
  ASSUME IInv, UNCHANGED memory, NEW n \in 0 .. Len(frames),
         frames' = SubSeq(frames, 1, InnermostOf("host", n)),
         stack' = Bottom(frames, n + 1), stack' \in Nat
  PROVE  IInv'
<1> DEFINE h == InnermostOf("host", n)
<1>1. frames \in Seq(Frame) /\ Len(frames) \in Nat /\ n \in Nat
  BY TopFrame
<1>2. /\ h \in 0 .. n /\ (h # 0 => frames[h].kind = "host")
      /\ \A i \in h + 1 .. n : frames[i].kind # "host"
  BY <1>1, InnermostRange
<1> HIDE DEF h
<1>3. stack' = Bottom(frames, h + 1)
  BY <1>1, <1>2, BottomSkips
<1>4. h \in 0 .. Len(frames) /\ frames' = SubSeq(frames, 1, h)
  BY <1>1, <1>2 DEF h
<1>5. /\ Shape(frames', stack') /\ Len(frames') = h
      /\ \A i \in 1 .. h : frames'[i] = frames[i]
      /\ Fitting(frames) => Fitting(frames')
  <2>1. Shape(frames, stack)
    BY DEF IInv
  <2> DEFINE gs == SubSeq(frames, 1, h)
  <2>2. /\ Shape(gs, stack') /\ Len(gs) = h /\ \A i \in 1 .. h : gs[i] = frames[i]
        /\ Fitting(frames) => Fitting(gs)
    BY <1>3, <1>4, <2>1, PrefixShape
  <2>3. frames' = gs
    BY <1>4
  <2> HIDE DEF gs
  <2> QED
    BY <2>2, <2>3
<1>6. frames' # <<>> => h \in 1 .. h /\ h # 0 /\ frames # <<>>
  <2>1. frames' \in Seq(Frame)
    BY <1>5 DEF Shape
  <2>2. frames' # <<>> => h # 0
    BY <1>5, <2>1
  <2>3. h # 0 => h \in 1 .. h /\ Len(frames) # 0
    BY <1>1, <1>2
  <2>4. Len(frames) # 0 => frames # <<>>
    OBVIOUS
  <2> QED
    BY <2>2, <2>3, <2>4
<1>7. frames' # <<>> => frames'[Len(frames')].kind = "host"
  BY <1>2, <1>5, <1>6
<1> QED
  BY <1>5, <1>6, <1>7, NewFrames DEF IInv

\* The first n frames are left, and the code in the last of them goes on.
LEMMA ReturnStep ==
  ASSUME IInv, UNCHANGED memory, NEW n \in 0 .. Len(frames),
         frames' = Refreshed(SubSeq(frames, 1, n), mallocated),
         stack' = Bottom(frames, n + 1), stack' \in Nat
  PROVE  IInv'
<1> DEFINE fs == SubSeq(frames, 1, n)
<1>1. frames \in Seq(Frame) /\ Len(frames) \in Nat
  BY TopFrame
<1>2. Shape(fs, stack') /\ Len(fs) = n /\ (Fitting(frames) => Fitting(fs))
  BY PrefixShape DEF IInv
<1>3. fs # <<>> => frames # <<>> /\ mallocated \in Block
  <2>1. fs # <<>> => n # 0
    BY <1>1
  <2> QED
    BY <1>1, <2>1, TopFrame
<1> HIDE DEF fs
<1>4. /\ Shape(frames', stack') /\ (Fitting(fs) => Fitting(frames'))
      /\ frames' # <<>> <=> fs # <<>>
      /\ frames' # <<>> /\ frames'[Len(frames')].kind # "host" =>
           frames'[Len(frames')].mem = mallocated
  <2>1. frames' = Refreshed(fs, mallocated)
    BY DEF fs
  <2> DEFINE gs == Refreshed(fs, mallocated)
  <2>2. /\ Shape(gs, stack') /\ (Fitting(fs) => Fitting(gs))
        /\ gs # <<>> <=> fs # <<>>
        /\ gs # <<>> /\ gs[Len(gs)].kind # "host" => gs[Len(gs)].mem = mallocated
    BY <1>2, <1>3, RefreshedShape
  <2> HIDE DEF gs
  <2> QED
    BY <2>1, <2>2 DEF gs
<1> QED
  BY <1>2, <1>3, <1>4, NewFrames DEF IInv

\* A call with the current _mem, at sp beyond the code that runs.
LEMMA EntryStep ==
  ASSUME IInv, mallocated # NULL, NEW sp \in Nat, NEW size \in Sizes,
         frames # <<>> => Top.sp <= sp /\ (Top.kind # "host" => Top.sp < sp),
         Entry(sp, size, mallocated)
  PROVE  IInv'
<1>1. /\ frames \in Seq(Frame) /\ Len(frames) \in Nat /\ UNCHANGED memory
      /\ stack' = stack /\ stack \in Nat /\ size \in Nat /\ mallocated \in Block
  BY TopFrame, ExecutionAssumption DEF Entry, IInv, MemoryOk
<1>2. CASE Fits(sp, size, mallocated)
  <2> DEFINE g == FunctionFrame(sp, size, mallocated)
  <2>1. /\ g \in Frame /\ g.kind = "function" /\ g.sp = sp /\ g.size = size
        /\ g.mem = mallocated
    BY <1>1 DEF FunctionFrame, Frame
  <2>2. frames' = Append(frames, g)
    BY <1>2 DEF Entry
  <2> HIDE DEF g
  <2>3. /\ Shape(frames', stack)
        /\ Fitting(frames) /\ sp + size < StackSlots => Fitting(frames')
    BY <2>1, <2>2, AppendShape DEF IInv, Top
  <2>4. frames' # <<>> /\ frames'[Len(frames')] = g
    BY <1>1, <2>1, <2>2
  <2>5. MemoryOk' /\ UNCHANGED <<mallocated, resizedDeep, maxPages>>
    BY <1>1, UnchangedMemory DEF IInv
  <2>6. ~resizedDeep => sp + size < StackSlots /\ Fitting(frames)
    BY <1>2 DEF Fits, IInv, MemoryOk
  <2>7. ~resizedDeep' => Fitting(frames')
    BY <2>3, <2>5, <2>6, Zenon
  <2>8. MemCurrent'
    BY <2>1, <2>4, <2>5 DEF MemCurrent, Running, Top
  <2> QED
    BY <1>1, <2>3, <2>5, <2>7, <2>8 DEF IInv
<1>3. CASE ~Fits(sp, size, mallocated)
  <2>1. frames' = SubSeq(frames, 1, InnermostOf("host", Len(frames)))
    BY <1>3 DEF Entry, Unwound, Innermost
  <2>2. stack' = Bottom(frames, Len(frames) + 1)
    BY <1>1 DEF IInv, Shape, Following
  <2>3. Len(frames) \in 0 .. Len(frames) /\ stack' \in Nat
    BY <1>1
  <2> QED
    BY <1>1, <2>1, <2>2, <2>3, UnwindStep
<1> QED
  BY <1>2, <1>3

LEMMA CallRawFunctionStep ==
  ASSUME IInv, mallocated # NULL, NEW sp \in Nat,
         frames # <<>> => Top.sp <= sp /\ (Top.kind # "host" => Top.sp < sp),
         CallRawFunction(sp, mallocated)
  PROVE  IInv'
<1>1. /\ frames \in Seq(Frame) /\ Len(frames) \in Nat /\ UNCHANGED memory
      /\ stack' = sp /\ stack \in Nat /\ mallocated \in Block
  BY TopFrame DEF CallRawFunction, IInv, MemoryOk
<1> DEFINE g == HostFrame(sp, mallocated)
<1>2. /\ g \in Frame /\ g.kind = "host" /\ g.sp = sp /\ g.backup = stack
  BY <1>1 DEF HostFrame, Frame
<1>3. frames' = Append(frames, g)
  BY DEF CallRawFunction
<1> HIDE DEF g
<1>4. Shape(frames', stack') /\ (Fitting(frames) => Fitting(frames'))
  BY <1>1, <1>2, <1>3, AppendShape DEF IInv, Top
<1>5. frames' # <<>> /\ frames'[Len(frames')] = g
  BY <1>1, <1>2, <1>3
<1> QED
  BY <1>1, <1>2, <1>4, <1>5, NewFrames

LEMMA LoadModuleStep ==
  ASSUME IInv, NEW m \in ModuleMemory, m3_LoadModule(m)
  PROVE  IInv'
<1>1. /\ Embedder /\ frames' = frames /\ stack' = stack /\ MemoryOk /\ stack \in Nat
      /\ m.initPages \in Nat /\ m.maxPages \in 0 .. Wrap - 1 /\ PageLimit \in 0 .. Wrap - 1
  <2>1. PageLimit \in Nat /\ PageBytes \in Nat \ {0, 1} /\ PageLimit * PageBytes = Wrap
        /\ PageLimit - 1 >= 1 /\ m \in [imported : BOOLEAN, initPages : Nat, maxPages : Nat]
        /\ m.maxPages < Wrap /\ Wrap \in Nat
    BY ExecutionAssumption
  <2>2. PageLimit * PageBytes >= PageLimit * 2
    BY <2>1
  <2>3. PageLimit \in 0 .. Wrap - 1
    BY <2>1, <2>2
  <2> QED
    BY <2>1, <2>3 DEF m3_LoadModule, IInv
<1>2. MemCurrent' /\ Shape(frames', stack')
  BY <1>1 DEF MemCurrent, Embedder, Running, Top, IInv
<1>3. CASE m.imported
  <2>1. UNCHANGED memory
    BY <1>3 DEF m3_LoadModule
  <2>2. MemoryOk' /\ UNCHANGED <<mallocated, resizedDeep, maxPages>>
    BY <1>1, <2>1, UnchangedMemory
  <2> QED
    BY <1>1, <1>2, <2>2 DEF IInv
<1>4. CASE ~m.imported
  <2> DEFINE max == IF m.maxPages = 0 THEN PageLimit ELSE m.maxPages
  <2>1. maxPages' = max /\ ResizeMemory(m.initPages, max)
    BY <1>4 DEF m3_LoadModule
  <2>2. max \in 0 .. Wrap - 1 /\ max \in Nat
    BY <1>1
  <2> HIDE DEF max
  <2>3. MemoryOk' /\ (mallocated # NULL => mallocated' # NULL) /\ (resizedDeep => resizedDeep')
    BY <1>1, <2>1, <2>2, ResizeKeepsMemoryOk
  <2> QED
    BY <1>1, <1>2, <2>1, <2>2, <2>3 DEF IInv
<1> QED
  BY <1>3, <1>4

LEMMA MemGrowStep ==
  ASSUME IInv, NEW n \in 1 .. Wrap - 1, MemGrow(n)
  PROVE  IInv'
<1>1. /\ Running /\ MemoryOk /\ stack \in Nat /\ stack' = stack
      /\ maxPages' = maxPages /\ maxPages \in 0 .. Wrap - 1 /\ Wrap \in Nat /\ Wrap > 0
      /\ frames # <<>> /\ mallocated # NULL /\ numPages \in Nat /\ Shape(frames, stack)
  <2>1. Wrap \in Nat /\ MaxLinearPages \in Nat
    BY ExecutionAssumption
  <2> QED
    BY <2>1 DEF MemGrow, Running, IInv, MemoryOk
<1>2. (numPages + n) % Wrap \in Nat /\ maxPages \in Nat
  BY <1>1
<1>3. ResizeMemory((numPages + n) % Wrap, maxPages)
  BY DEF MemGrow
<1>4. MemoryOk' /\ mallocated' # NULL /\ (resizedDeep => resizedDeep')
  BY <1>1, <1>2, <1>3, ResizeKeepsMemoryOk
<1>5. mallocated' \in Block
  BY <1>4 DEF MemoryOk
<1> DEFINE gs == Refreshed(frames, mallocated')
<1>6. frames' = gs
  BY <1>1 DEF MemGrow, Refreshed, Running, Top
<1>7. /\ Shape(gs, stack) /\ (Fitting(frames) => Fitting(gs)) /\ gs # <<>>
      /\ gs[Len(gs)].kind # "host" => gs[Len(gs)].mem = mallocated'
  BY <1>1, <1>5, RefreshedShape
<1> HIDE DEF gs
<1>8. MemCurrent'
  BY <1>6, <1>7 DEF MemCurrent, Running, Top
<1>9. ~resizedDeep' => Fitting(frames')
  BY <1>4, <1>6, <1>7, Zenon DEF IInv
<1> QED
  BY <1>1, <1>4, <1>6, <1>7, <1>8, <1>9 DEF IInv

LEMMA CallStep ==
  ASSUME IInv, Call
  PROVE  IInv'
<1>1. /\ Running /\ frames # <<>> /\ Top.mem = mallocated /\ Top.sp \in Nat /\ Top.size \in Nat
      /\ mallocated # NULL
  BY TopFrame DEF Call, Running, IInv
<1>2. PICK offset \in StackOffsets(Top.size) :
        \/ \E size \in Sizes : Entry(Top.sp + offset, size, Top.mem)
        \/ CallRawFunction(Top.sp + offset, Top.mem)
  BY DEF Call
<1>3. Top.sp + offset \in Nat /\ Top.sp < Top.sp + offset /\ Top.sp <= Top.sp + offset
  BY <1>1 DEF StackOffsets
<1> QED
  BY <1>1, <1>2, <1>3, EntryStep, CallRawFunctionStep

LEMMA m3_CallStep ==
  ASSUME IInv, m3_Call
  PROVE  IInv'
<1>1. /\ Embedder /\ mallocated # NULL /\ stack \in Nat
      /\ frames # <<>> => stack = Top.sp /\ Top.kind = "host"
  BY TopFrame DEF m3_Call, IInv
<1>2. frames # <<>> => Top.sp <= stack /\ (Top.kind # "host" => Top.sp < stack)
  BY <1>1
<1> QED
  BY <1>1, <1>2, EntryStep, CallRawFunctionStep DEF m3_Call

LEMMA HostReturnsStep ==
  ASSUME IInv, NEW error \in BOOLEAN, HostReturns(error)
  PROVE  IInv'
<1> DEFINE n == Len(frames) - 1
<1>1. /\ frames # <<>> /\ Top.kind = "host" /\ stack' = Top.backup /\ UNCHANGED memory
      /\ Len(frames) \in 1 .. Len(frames) /\ Top \in Frame
  BY TopFrame DEF HostReturns
<1>2. n \in 0 .. Len(frames) /\ n + 1 = Len(frames)
  BY <1>1
<1>3. stack' \in Nat /\ stack' = Bottom(frames, n + 1)
  BY <1>1, <1>2 DEF IInv, Shape, Following, Top, Frame
<1>4. CASE error
  BY <1>1, <1>2, <1>3, <1>4, UnwindStep DEF HostReturns
<1>5. CASE ~error
  BY <1>1, <1>2, <1>3, <1>5, ReturnStep DEF HostReturns, Below
<1> QED
  BY <1>4, <1>5

\* The frame at i and those further in are left by wasm code in one function.
LEMMA LeaveStep ==
  ASSUME IInv, Running, NEW n \in 0 .. Len(frames), n + 1 >= Innermost("function"),
         frames' = Refreshed(SubSeq(frames, 1, n), mallocated),
         UNCHANGED memory, stack' = stack
  PROVE  IInv'
<1>1. /\ Len(frames) \in Nat /\ n \in Nat /\ stack \in Nat
      /\ Innermost("function") \in 1 .. Len(frames)
      /\ \A j \in Innermost("function") .. Len(frames) : frames[j].kind # "host"
  BY TopFrame, RunningFunction DEF IInv
<1>2. \A j \in n + 1 .. Len(frames) : frames[j].kind # "host"
  BY <1>1
<1>3. Bottom(frames, Len(frames) + 1) = Bottom(frames, n + 1)
  BY <1>1, <1>2, BottomSkips
<1>4. stack' = Bottom(frames, n + 1) /\ stack' \in Nat
  BY <1>1, <1>3 DEF IInv, Shape, Following
<1> QED
  BY <1>4, ReturnStep

LEMMA TrapStep ==
  ASSUME IInv, Trap
  PROVE  IInv'
<1>1. Len(frames) \in 0 .. Len(frames) /\ UNCHANGED memory /\ stack' = stack
  BY TopFrame DEF Trap
<1>2. frames' = SubSeq(frames, 1, InnermostOf("host", Len(frames)))
  BY DEF Trap, Unwound, Innermost
<1>3. stack' = Bottom(frames, Len(frames) + 1) /\ stack' \in Nat
  BY <1>1 DEF IInv, Shape, Following
<1> QED
  BY <1>1, <1>2, <1>3, UnwindStep

LEMMA LoopStep ==
  ASSUME IInv, Loop
  PROVE  IInv'
<1> DEFINE g == [Top EXCEPT !.kind = "loop"]
<1>1. /\ frames # <<>> /\ Top.kind # "host" /\ Top \in Frame /\ Top.mem = mallocated
      /\ frames' = Append(frames, g) /\ UNCHANGED memory /\ stack' = stack
      /\ frames \in Seq(Frame) /\ Len(frames) \in Nat /\ Top.sp \in Nat
      /\ mallocated # NULL /\ stack \in Nat
  BY TopFrame DEF Loop, Running, IInv
<1>2. g \in Frame /\ g.kind = "loop" /\ g.sp = Top.sp /\ g.mem = mallocated
  BY <1>1 DEF Frame
<1> HIDE DEF g
<1>3. Shape(frames', stack) /\ (Fitting(frames) => Fitting(frames'))
  BY <1>1, <1>2, AppendShape DEF IInv, Top
<1>4. frames' # <<>> /\ frames'[Len(frames')] = g
  BY <1>1, <1>2
<1> QED
  BY <1>1, <1>2, <1>3, <1>4, NewFrames

-----------------------------------------------------------------------------
(* Theorems                                                                *)

LEMMA InitIInv ==
  ASSUME Init
  PROVE  IInv
<1>1. MemoryOk
  <2>1. 0 \in 0 .. MaxLinearPages
    BY ExecutionAssumption
  <2>2. header \in [Block -> {NULL} \cup [length : Nat, maxStack : Nat]]
    BY DEF Init
  <2>3. mallocated = NULL /\ numPages = 0 /\ resizedDeep = FALSE
    BY DEF Init
  <2> QED
    BY <2>1, <2>2, <2>3 DEF MemoryOk, HeaderAgrees
<1>2. Bottom(<<>>, 1) = 0
  <2>1. HostIn(<<>>, 0) = 0
    BY HostInRange
  <2>2. 1 - 1 = 0
    OBVIOUS
  <2> QED
    BY <2>1, <2>2 DEF Bottom
<1>3. Shape(frames, stack) /\ Fitting(frames)
  BY <1>2 DEF Init, Shape, Following, Nested, Fitting
<1>4. MemCurrent
  BY DEF Init, MemCurrent, Running
<1>5. Wrap - 1 \in Nat /\ 0 \in 0 .. Wrap - 1
  <2>1. PageLimit \in Nat /\ PageBytes \in Nat \ {0} /\ PageLimit * PageBytes = Wrap
        /\ PageLimit > 0
    BY ExecutionAssumption
  <2>2. PageLimit * PageBytes > 0
    BY <2>1
  <2> QED
    BY <2>1, <2>2
<1> QED
  BY <1>1, <1>3, <1>4, <1>5 DEF Init, IInv

LEMMA NextIInv ==
  ASSUME IInv, [Next]_vars
  PROVE  IInv'
<1>1. CASE UNCHANGED vars
  <2>1. UNCHANGED memory /\ frames' = frames /\ stack' = stack
    BY <1>1 DEF vars, memory
  <2>2. /\ stack' \in Nat /\ Shape(frames', stack') /\ (Fitting(frames) => Fitting(frames'))
        /\ frames' # <<>> => mallocated # NULL
        /\ frames' # <<>> /\ frames'[Len(frames')].kind # "host" =>
             frames'[Len(frames')].mem = mallocated
    BY <2>1 DEF IInv, MemCurrent, Running, Top
  <2> QED
    BY <2>1, <2>2, NewFrames
<1>2. ASSUME NEW m \in ModuleMemory, m3_LoadModule(m)
      PROVE  IInv'
  BY <1>2, LoadModuleStep
<1>3. ASSUME NEW n \in 1 .. Wrap - 1, MemGrow(n)
      PROVE  IInv'
  BY <1>3, MemGrowStep
<1>4. ASSUME m3_Call
      PROVE  IInv'
  BY <1>4, m3_CallStep
<1>5. ASSUME Call
      PROVE  IInv'
  BY <1>5, CallStep
<1>6. ASSUME Return
      PROVE  IInv'
  <2> DEFINE n == Innermost("function") - 1
  <2>1. /\ Running /\ frames' = Refreshed(SubSeq(frames, 1, n), mallocated)
        /\ UNCHANGED memory /\ stack' = stack
    BY <1>6 DEF Return, Below
  <2>2. n \in 0 .. Len(frames) /\ n + 1 >= Innermost("function")
    <3>1. Innermost("function") \in 1 .. Len(frames) /\ Len(frames) \in Nat
      BY <2>1, RunningFunction, TopFrame
    <3> QED
      BY <3>1
  <2> QED
    BY <2>1, <2>2, LeaveStep
<1>7. ASSUME Trap
      PROVE  IInv'
  BY <1>7, TrapStep
<1>8. ASSUME NEW error \in BOOLEAN, HostReturns(error)
      PROVE  IInv'
  BY <1>8, HostReturnsStep
<1>9. ASSUME Loop
      PROVE  IInv'
  BY <1>9, LoopStep
<1>10. ASSUME NEW i \in 1 .. Len(frames), ContinueLoop(i)
       PROVE  IInv'
  <2>1. /\ Running /\ frames' = Refreshed(SubSeq(frames, 1, i), mallocated)
        /\ UNCHANGED memory /\ stack' = stack /\ Innermost("function") < i
    BY <1>10 DEF ContinueLoop
  <2>2. i \in 0 .. Len(frames) /\ i + 1 >= Innermost("function")
    <3>1. Innermost("function") \in 1 .. Len(frames) /\ Len(frames) \in Nat
      BY <2>1, RunningFunction, TopFrame
    <3> QED
      BY <2>1, <3>1
  <2> QED
    BY <2>1, <2>2, LeaveStep
<1> QED
  BY <1>1, <1>2, <1>3, <1>4, <1>5, <1>6, <1>7, <1>8, <1>9, <1>10 DEF Next

\* The inductive invariant holds in every reachable state.
THEOREM Invariance == Spec => []IInv
BY InitIInv, NextIInv, PTL DEF Spec

\* Every variable has its type, for every stack, page size and limit.
THEOREM TypeCorrect == Spec => []TypeOK
<1>1. IInv => TypeOK
  BY DEF IInv, MemoryOk, Shape, TypeOK
<1> QED
  BY <1>1, Invariance, PTL

\* Running code holds the pointer to where the memory is (op_Call, op_Loop,
\* op_MemGrow), however deep the call was that moved it.
THEOREM PointerIsCurrent == Spec => []MemCurrent
<1>1. IInv => MemCurrent
  BY DEF IInv
<1> QED
  BY <1>1, Invariance, PTL

\* The header has the length of the pages, and the other blocks are free.
THEOREM HeaderFitsMemory == Spec => []HeaderAgrees
<1>1. IInv => HeaderAgrees
  BY DEF IInv, MemoryOk
<1> QED
  BY <1>1, Invariance, PTL

\* runtime->stack is put back by every host function, at any depth and on errors.
THEOREM StackIsPutBack == Spec => []StackFollowsHosts
<1>1. ASSUME IInv
      PROVE  StackFollowsHosts
  <2>1. \A i \in 1 .. Len(frames) + 1 : StackBefore(i) = Bottom(frames, i)
    BY DEF StackBefore, Bottom, InnermostOf, HostIn
  <2>2. Len(frames) \in Nat
    BY <1>1, TopFrame
  <2> QED
    BY <1>1, <2>1, <2>2 DEF IInv, Shape, Following, StackFollowsHosts
<1> QED
  BY <1>1, Invariance, PTL

\* op_Entry lets no function in that has slots behind the stack, as long as no
\* nested call has resized the memory.
THEOREM OverflowIsDetected == Spec => []OverflowDetectedUnlessDeep
<1>1. ASSUME IInv
      PROVE  OverflowDetectedUnlessDeep
  <2>1. ASSUME ~resizedDeep, NEW i \in 1 .. Len(frames), frames[i].kind = "function"
        PROVE  frames[i].sp + frames[i].size <= StackSlots
    <3>1. frames[i].sp + frames[i].size < StackSlots
      BY <1>1, <2>1 DEF IInv, Fitting
    <3>2. frames[i].sp \in Nat /\ frames[i].size \in Nat
      BY <1>1, TopFrame, FrameAt
    <3> QED
      BY <3>1, <3>2, ExecutionAssumption
  <2> QED
    BY <2>1 DEF OverflowDetectedUnlessDeep, StackOverflowDetected
<1> QED
  BY <1>1, Invariance, PTL

\* Calls, through host functions too, are at most as deep as there are slots.
THEOREM RunawaysTrap == Spec => []RunawayTraps
<1>1. ASSUME IInv
      PROVE  RunawayTraps
  <2> DEFINE S == {i \in 1 .. Len(frames) : frames[i].kind = "function"}
  <2>1. ASSUME ~resizedDeep
        PROVE  Cardinality(S) <= StackSlots
    <3> DEFINE T == 0 .. StackSlots - 1
               f == [i \in S |-> frames[i].sp]
    <3>1. StackSlots \in Nat /\ IsFiniteSet(T) /\ Cardinality(T) = StackSlots
      BY ExecutionAssumption, FS_Interval
    <3>2. ASSUME NEW i \in S
          PROVE  f[i] \in T /\ f[i] = frames[i].sp
      <4>1. frames[i].sp + frames[i].size < StackSlots
        BY <1>1, <2>1 DEF IInv, Fitting
      <4>2. frames[i].sp \in Nat /\ frames[i].size \in Nat
        BY <1>1, TopFrame, FrameAt
      <4> QED
        BY <3>1, <4>1, <4>2
    <3>3. ASSUME NEW i \in S, NEW j \in S, i < j
          PROVE  f[i] # f[j]
      <4>1. frames[i].sp < frames[j].sp
        BY <1>1, <3>3 DEF IInv, Shape, Nested
      <4>2. frames[i].sp \in Nat /\ frames[j].sp \in Nat
        BY <1>1, TopFrame, FrameAt
      <4> QED
        BY <3>2, <4>1, <4>2
    <3>4. \A i, j \in S : f[i] = f[j] => i = j
      <4>1. \A i, j \in S : i < j \/ j < i \/ i = j
        OBVIOUS
      <4> QED
        BY <3>3, <4>1
    <3>5. f \in Injection(S, T)
      BY <3>2, <3>4 DEF Injection, IsInjective
    <3> HIDE DEF f, S, T
    <3> QED
      BY <3>1, <3>5, FS_Injection
  <2> QED
    BY <2>1 DEF RunawayTraps
<1> QED
  BY <1>1, Invariance, PTL

=============================================================================
