-------------------------- MODULE SlotCountsProofs --------------------------
(***************************************************************************)
(* The use counts of slots, for any function: a slot is counted once for   *)
(* each value that is in it, so that it is given out again when, and only  *)
(* when, the last of them is gone; and the slots that op_Entry makes sure  *)
(* of cover every value, and what operations write but for a margin.       *)
(***************************************************************************)
EXTENDS TranslationProofs

-----------------------------------------------------------------------------
(* What is counted                                                         *)

\* The items in slots that are given out; locals, constants and registers are not.
InDynamic(x, first) == x.slot >= first /\ x.slot < MaxFunctionSlots

\* The items of L that are counted,
CountedIn(stack, L, first) == {i \in L : InDynamic(stack[i], first)}

\* those in a slot,
Uses(stack, L, s) == {i \in L : s \in SlotsOf(stack[i])}

\* and items that share no slot.
Disjoint(x, y) == Ends(x) <= y.slot \/ Ends(y) <= x.slot

\* Each slot is counted once for each item of L in it; none is in use from top on.
Tally(stack, L, count, top, first) ==
  \A s \in first .. MaxFunctionSlots - 1 :
    count[s] = Cardinality(Uses(stack, L, s)) /\ (s >= top => count[s] = 0)

\* No item reaches from other slots into those that are given out.
Whole(stack, first) ==
  \A i \in 1 .. Len(stack) : stack[i].slot < first => Ends(stack[i]) <= first

\* Items of L share all their slots or none.
Together(stack, L, first) ==
  \A i, j \in CountedIn(stack, L, first) : stack[i] = stack[j] \/ Disjoint(stack[i], stack[j])

\* The accounts of a stack.
Acc(stack, L, count, top, first) ==
  /\ L \in SUBSET (1 .. Len(stack))
  /\ Tally(stack, L, count, top, first) /\ Whole(stack, first) /\ Together(stack, L, first)

\* The slots of an item.
LEMMA SlotsOfItem ==
  ASSUME NEW x \in Item
  PROVE  /\ x.slot \in Nat /\ Ends(x) \in Nat /\ x.slot < Ends(x) /\ Ends(x) <= x.slot + 2
         /\ \A s \in Int : s \in SlotsOf(x) <=> x.slot <= s /\ s < Ends(x)
<1>1. x.slot \in Nat /\ GetTypeNumSlots(x.type) \in 1 .. 2
  BY Types DEF Item
<1> QED
  BY <1>1 DEF Ends, SlotsOf

\* An item of a stack is in slots that are given out, or in none of them.
LEMMA CountedItem ==
  ASSUME NEW stack, StackOk(stack), NEW first \in Nat, Whole(stack, first), NEW i \in 1 .. Len(stack)
  PROVE  /\ stack[i] \in Item
         /\ InDynamic(stack[i], first) => Ends(stack[i]) <= MaxFunctionSlots
         /\ \A s \in first .. MaxFunctionSlots - 1 : s \in SlotsOf(stack[i]) => InDynamic(stack[i], first)
<1> DEFINE x == stack[i]
<1>1. x \in Item
  BY DEF StackOk
<1>2. x.slot = RegisterOf(x.type) \/ InSlots(x)
  BY DEF StackOk
<1>3. RegisterOf(x.type) >= MaxFunctionSlots
  BY ItemFacts
<1>4. x.slot < first => Ends(x) <= first
  BY DEF Whole
<1>5. /\ x.slot \in Nat /\ Ends(x) \in Nat /\ x.slot < Ends(x)
      /\ \A s \in Int : s \in SlotsOf(x) <=> x.slot <= s /\ s < Ends(x)
  BY <1>1, SlotsOfItem
<1>6. RegisterOf(x.type) \in Nat /\ MaxFunctionSlots \in Nat
  BY Numbers, ItemFacts DEF Registers
<1>7. InSlots(x) => Ends(x) <= MaxFunctionSlots
  BY DEF InSlots, Ends
<1> HIDE DEF x
<1>8. InDynamic(x, first) => Ends(x) <= MaxFunctionSlots
  BY <1>2, <1>3, <1>5, <1>6, <1>7 DEF InDynamic
<1>9. ASSUME NEW s \in first .. MaxFunctionSlots - 1, s \in SlotsOf(x)
      PROVE  InDynamic(x, first)
  <2>1. s \in Int /\ x.slot <= s /\ s < Ends(x) /\ first <= s /\ s < MaxFunctionSlots
    BY <1>5, <1>6, <1>9
  <2> QED
    BY <1>4, <1>5, <1>6, <2>1 DEF InDynamic
<1> QED
  BY <1>1, <1>8, <1>9 DEF x

\* So only those that are counted matter for the use of a slot.
LEMMA UsesCounted ==
  ASSUME NEW stack, StackOk(stack), NEW first \in Nat, Whole(stack, first),
         NEW L \in SUBSET (1 .. Len(stack)), NEW s \in first .. MaxFunctionSlots - 1
  PROVE  /\ Uses(stack, L, s) = {i \in CountedIn(stack, L, first) : s \in SlotsOf(stack[i])}
         /\ IsFiniteSet(Uses(stack, L, s))
         /\ \A i \in Uses(stack, L, s) : stack[i].slot <= s /\ s < Ends(stack[i])
<1>1. \A i \in L : s \in SlotsOf(stack[i]) => InDynamic(stack[i], first)
  BY CountedItem
<1>2. IsFiniteSet(Uses(stack, L, s))
  <2>1. IsFiniteSet(1 .. Len(stack))
    <3>1. Len(stack) \in Nat
      BY DEF StackOk
    <3> QED
      BY <3>1, FS_Interval
  <2> QED
    BY <2>1, FS_Subset DEF Uses
<1>3. ASSUME NEW i \in Uses(stack, L, s)
      PROVE  stack[i].slot <= s /\ s < Ends(stack[i])
  <2>1. stack[i] \in Item /\ s \in SlotsOf(stack[i]) /\ s \in Int
    BY <1>3, CountedItem, Numbers DEF Uses
  <2> QED
    BY <2>1, SlotsOfItem
<1> QED
  BY <1>1, <1>2, <1>3 DEF Uses, CountedIn

\* The counted items are the same ones.
LEMMA AccKept ==
  ASSUME NEW stack, StackOk(stack), NEW L, NEW count, NEW top \in Nat, NEW first \in Nat,
         Acc(stack, L, count, top, first),
         NEW new, StackOk(new), Whole(new, first), NEW M \in SUBSET (1 .. Len(new)),
         CountedIn(new, M, first) = CountedIn(stack, L, first),
         \A i \in CountedIn(stack, L, first) : new[i] = stack[i],
         NEW after, NEW top2 \in Nat,
         \A s \in first .. MaxFunctionSlots - 1 :
           after[s] = count[s] /\ (s >= top2 => s >= top \/ count[s] = 0)
  PROVE  Acc(new, M, after, top2, first)
<1> DEFINE C == CountedIn(stack, L, first)
<1>1. ASSUME NEW s \in first .. MaxFunctionSlots - 1
      PROVE  Uses(new, M, s) = Uses(stack, L, s)
  <2>1. Uses(stack, L, s) = {i \in C : s \in SlotsOf(stack[i])}
    BY UsesCounted DEF Acc
  <2>2. Uses(new, M, s) = {i \in C : s \in SlotsOf(new[i])}
    BY UsesCounted
  <2> QED
    BY <2>1, <2>2
<1>2. Tally(new, M, after, top2, first)
  BY <1>1 DEF Tally, Acc
<1>3. Together(new, M, first)
  BY DEF Together, Acc
<1> QED
  BY <1>2, <1>3 DEF Acc

\* The items J come to slots that are free, all to the same.
Added(stack, L, count, top, first, new, M, J, x, after, top2) ==
  /\ StackOk(stack) /\ top \in Nat /\ first \in Nat /\ Acc(stack, L, count, top, first)
  /\ StackOk(new) /\ Whole(new, first) /\ M \in SUBSET (1 .. Len(new))
  /\ J \in SUBSET (1 .. Len(new)) /\ J \cap CountedIn(stack, L, first) = {}
  /\ CountedIn(new, M, first) = CountedIn(stack, L, first) \cup J
  /\ \A i \in CountedIn(stack, L, first) : new[i] = stack[i]
  /\ x \in Item /\ InDynamic(x, first) /\ \A j \in J : new[j] = x
  /\ \A s \in x.slot .. Ends(x) - 1 : count[s] = 0
  /\ top2 \in Nat /\ top2 >= top /\ top2 >= Ends(x)
  /\ \A s \in first .. MaxFunctionSlots - 1 :
       after[s] = IF x.slot <= s /\ s < Ends(x) THEN Cardinality(J) ELSE count[s]

\* The accounts hold after a value came to free slots.
LEMMA AccAdded ==
  ASSUME NEW stack, NEW L, NEW count, NEW top, NEW first, NEW new, NEW M, NEW J, NEW x, NEW after, NEW top2,
         Added(stack, L, count, top, first, new, M, J, x, after, top2)
  PROVE  Acc(new, M, after, top2, first)
<1>0. /\ StackOk(stack) /\ top \in Nat /\ first \in Nat /\ Acc(stack, L, count, top, first)
      /\ StackOk(new) /\ Whole(new, first) /\ M \in SUBSET (1 .. Len(new))
      /\ J \in SUBSET (1 .. Len(new)) /\ J \cap CountedIn(stack, L, first) = {}
      /\ CountedIn(new, M, first) = CountedIn(stack, L, first) \cup J
      /\ \A i \in CountedIn(stack, L, first) : new[i] = stack[i]
      /\ x \in Item /\ InDynamic(x, first) /\ \A j \in J : new[j] = x
      /\ \A s \in x.slot .. Ends(x) - 1 : count[s] = 0
      /\ top2 \in Nat /\ top2 >= top /\ top2 >= Ends(x)
      /\ \A s \in first .. MaxFunctionSlots - 1 :
           after[s] = IF x.slot <= s /\ s < Ends(x) THEN Cardinality(J) ELSE count[s]
  BY DEF Added
<1> USE <1>0
<1> DEFINE C == CountedIn(stack, L, first)
<1>1. /\ x.slot \in Nat /\ Ends(x) \in Nat /\ x.slot < Ends(x)
      /\ \A s \in Int : s \in SlotsOf(x) <=> x.slot <= s /\ s < Ends(x)
  BY SlotsOfItem
<1>2. /\ L \in SUBSET (1 .. Len(stack)) /\ Tally(stack, L, count, top, first)
      /\ Whole(stack, first) /\ Together(stack, L, first) /\ MaxFunctionSlots \in Nat
  BY Numbers DEF Acc
<1>3. IsFiniteSet(J)
  <2>1. Len(new) \in Nat
    BY DEF StackOk
  <2>2. IsFiniteSet(1 .. Len(new))
    BY <2>1, FS_Interval
  <2> QED
    BY <2>2, FS_Subset
<1>4. ASSUME NEW s \in first .. MaxFunctionSlots - 1
      PROVE  /\ Uses(stack, L, s) = {i \in C : s \in SlotsOf(stack[i])}
             /\ IsFiniteSet(Uses(stack, L, s))
             /\ Uses(new, M, s) = {i \in C \cup J : s \in SlotsOf(new[i])}
  BY <1>2, UsesCounted
<1>5. ASSUME NEW s \in first .. MaxFunctionSlots - 1
      PROVE  after[s] = Cardinality(Uses(new, M, s)) /\ (s >= top2 => after[s] = 0)
  <2>1. count[s] = Cardinality(Uses(stack, L, s)) /\ (s >= top => count[s] = 0)
    BY <1>2 DEF Tally
  <2>2. CASE x.slot <= s /\ s < Ends(x)
    <3>1. count[s] = 0
      BY <1>1, <2>2
    <3>2. Uses(stack, L, s) = {}
      BY <3>1, <2>1, <1>4, FS_EmptySet
    <3>3. s \in SlotsOf(x)
      BY <1>1, <2>2
    <3>4. Uses(new, M, s) = J
      <4>1. \A k \in C : s \notin SlotsOf(new[k])
        BY <3>2, <1>4
      <4>2. \A k \in J : s \in SlotsOf(new[k])
        BY <3>3
      <4>3. Uses(new, M, s) = {k \in C \cup J : s \in SlotsOf(new[k])}
        BY <1>4
      <4> HIDE DEF C
      <4> QED
        BY <4>1, <4>2, <4>3
    <3> QED
      BY <3>4, <2>2, <1>1
  <2>3. CASE ~(x.slot <= s /\ s < Ends(x))
    <3>1. s \notin SlotsOf(x)
      BY <1>1, <2>3
    <3>2. Uses(new, M, s) = Uses(stack, L, s)
      BY ZenonT(40), <3>1, <1>4
    <3> QED
      BY <3>2, <2>1, <2>3
  <2> QED
    BY <2>2, <2>3
<1>6. ASSUME NEW i \in C, NEW j \in J
      PROVE  Disjoint(stack[i], x)
  <2>1. i \in 1 .. Len(stack) /\ InDynamic(stack[i], first)
    BY <1>2 DEF CountedIn
  <2>2. stack[i] \in Item /\ Ends(stack[i]) <= MaxFunctionSlots
    BY <2>1, <1>2, CountedItem
  <2>3. /\ stack[i].slot \in Nat /\ Ends(stack[i]) \in Nat /\ stack[i].slot < Ends(stack[i])
        /\ \A s \in Int : s \in SlotsOf(stack[i]) <=> stack[i].slot <= s /\ s < Ends(stack[i])
    BY <2>2, SlotsOfItem
  <2> SUFFICES ASSUME ~Disjoint(stack[i], x) PROVE FALSE
    OBVIOUS
  <2>4. PICK s \in Int : stack[i].slot <= s /\ s < Ends(stack[i]) /\ x.slot <= s /\ s < Ends(x)
    <3> DEFINE s == IF x.slot >= stack[i].slot THEN x.slot ELSE stack[i].slot
    <3>1. s \in Int /\ stack[i].slot <= s /\ s < Ends(stack[i]) /\ x.slot <= s /\ s < Ends(x)
      BY <2>3, <1>1 DEF Disjoint
    <3> HIDE DEF s
    <3> QED
      BY <3>1
  <2>5. s \in first .. MaxFunctionSlots - 1 /\ s \in SlotsOf(stack[i])
    BY <2>1, <2>2, <2>3, <2>4, <1>2 DEF InDynamic
  <2>6. i \in Uses(stack, L, s)
    BY <2>5, <1>4
  <2>7. count[s] = 0
    BY <2>4, <1>1
  <2>8. Cardinality(Uses(stack, L, s)) = 0
    BY <2>7, <2>5, <1>2 DEF Tally
  <2>9. Uses(stack, L, s) = {}
    BY <2>8, <2>5, <1>4, FS_EmptySet
  <2> QED
    BY <2>6, <2>9
<1>7. Together(new, M, first)
  <2>1. \A i, j \in C : stack[i] = stack[j] \/ Disjoint(stack[i], stack[j])
    BY <1>2 DEF Together
  <2>2. ASSUME NEW i \in C \cup J, NEW j \in C \cup J
        PROVE  new[i] = new[j] \/ Disjoint(new[i], new[j])
    <3>1. CASE i \in C /\ j \in C
      BY <2>1, <3>1
    <3>2. CASE i \in J /\ j \in J
      BY <3>2
    <3>3. CASE i \in C /\ j \in J
      BY <1>6, <3>3
    <3>4. CASE i \in J /\ j \in C
      <4>1. Disjoint(stack[j], x)
        BY <1>6, <3>4
      <4> QED
        BY <4>1, <3>4 DEF Disjoint
    <3> QED
      BY <3>1, <3>2, <3>3, <3>4
  <2> QED
    BY <2>2 DEF Together
<1>8. Tally(new, M, after, top2, first)
  BY <1>5 DEF Tally
<1> QED
  BY <1>7, <1>8 DEF Acc

\* What DeallocateSlot makes of a count.
Less(n) == (n + MaxUsageCount) % (MaxUsageCount + 1)

\* A count that is not zero is counted down, also in a byte.
LEMMA Wrap ==
  ASSUME NEW n \in Nat, n >= 1, n <= MaxUsageCount
  PROVE  Less(n) = n - 1
BY Numbers DEF Less

\* The item i goes, or to a place where it is not counted.
LEMMA AccGone ==
  ASSUME NEW stack, StackOk(stack), NEW L, NEW count, NEW top \in Nat, NEW first \in Nat,
         Acc(stack, L, count, top, first),
         NEW new, StackOk(new), Whole(new, first), NEW M \in SUBSET (1 .. Len(new)),
         NEW i \in CountedIn(stack, L, first),
         \A k : k \in CountedIn(new, M, first) <=> k \in CountedIn(stack, L, first) /\ k # i,
         \A k \in CountedIn(new, M, first) : new[k] = stack[k],
         \A s \in first .. MaxFunctionSlots - 1 : count[s] \in 0 .. MaxUsageCount,
         NEW after,
         \A s \in first .. MaxFunctionSlots - 1 :
           after[s] = IF s \in SlotsOf(stack[i]) THEN Less(count[s]) ELSE count[s]
  PROVE  Acc(new, M, after, top, first)
<1> DEFINE C == CountedIn(stack, L, first)
<1>2. /\ L \in SUBSET (1 .. Len(stack)) /\ Tally(stack, L, count, top, first)
      /\ Whole(stack, first) /\ Together(stack, L, first)
  BY DEF Acc
<1>3. CountedIn(new, M, first) = C \ {i}
  OBVIOUS
<1>4. ASSUME NEW s \in first .. MaxFunctionSlots - 1
      PROVE  /\ Uses(stack, L, s) = {k \in C : s \in SlotsOf(stack[k])}
             /\ IsFiniteSet(Uses(stack, L, s))
             /\ Uses(new, M, s) = {k \in C \ {i} : s \in SlotsOf(new[k])}
  BY <1>2, <1>3, UsesCounted
<1>5. ASSUME NEW s \in first .. MaxFunctionSlots - 1
      PROVE  after[s] = Cardinality(Uses(new, M, s)) /\ (s >= top => after[s] = 0)
  <2>1. count[s] = Cardinality(Uses(stack, L, s)) /\ (s >= top => count[s] = 0)
    BY <1>2 DEF Tally
  <2>2. CASE s \in SlotsOf(stack[i])
    <3>1. Uses(new, M, s) = Uses(stack, L, s) \ {i} /\ i \in Uses(stack, L, s)
      BY <2>2, <1>4
    <3>2. Cardinality(Uses(new, M, s)) = count[s] - 1
      BY <3>1, <2>1, <1>4, FS_RemoveElement
    <3>3. count[s] # 0
      BY <3>1, <2>1, <1>4, FS_EmptySet
    <3>4. count[s] \in 0 .. MaxUsageCount
      OBVIOUS
    <3>5. after[s] = count[s] - 1
      BY <3>3, <3>4, <2>2, Wrap, Numbers
    <3> QED
      BY <3>2, <3>3, <3>5, <2>1
  <2>3. CASE s \notin SlotsOf(stack[i])
    <3>1. Uses(new, M, s) = Uses(stack, L, s)
      <4>1. \A k \in C \ {i} : new[k] = stack[k]
        BY <1>3
      <4>2. Uses(new, M, s) = {k \in C \ {i} : s \in SlotsOf(new[k])}
        BY <1>4
      <4>3. Uses(stack, L, s) = {k \in C : s \in SlotsOf(stack[k])}
        BY <1>4
      <4> HIDE DEF C
      <4> QED
        BY <4>1, <4>2, <4>3, <2>3
    <3> QED
      BY <3>1, <2>1, <2>3
  <2> QED
    BY <2>2, <2>3
<1>6. Together(new, M, first)
  BY <1>2 DEF Together
<1>7. Tally(new, M, after, top, first)
  BY <1>5 DEF Tally
<1> QED
  BY <1>6, <1>7 DEF Acc

-----------------------------------------------------------------------------
(* Which items are live                                                    *)

\* The first n items without the records of the blocks.
LiveIn(blocks, n) ==
  {i \in 1 .. n : \A k \in 1 .. Len(blocks) : i <= blocks[k].exit \/ i > blocks[k].base}

\* All items behind the innermost base are live.
LEMMA LiveAbove ==
  ASSUME NEW blocks, BlocksOk(blocks), NEW n \in Nat, Base(blocks) <= n, NEW m \in Nat, n <= m
  PROVE  /\ LiveIn(blocks, m) = LiveIn(blocks, n) \cup n + 1 .. m
         /\ LiveIn(blocks, m) \cap 1 .. n = LiveIn(blocks, n)
<1>1. \A k \in 1 .. Len(blocks) : blocks[k].exit \in Nat /\ blocks[k].base \in Nat /\ blocks[k].base <= Base(blocks)
  BY ScopeFacts
<1>2. Base(blocks) \in Nat
  BY ScopeFacts
<1>3. \A i \in n + 1 .. m : \A k \in 1 .. Len(blocks) : i > blocks[k].base
  BY <1>1, <1>2
<1>4. 1 .. n \subseteq 1 .. m /\ 1 .. m = 1 .. n \cup n + 1 .. m /\ n + 1 .. m \subseteq 1 .. m
  OBVIOUS
<1>5. LiveIn(blocks, m) = LiveIn(blocks, n) \cup n + 1 .. m
  BY <1>3, <1>4 DEF LiveIn
<1>6. LiveIn(blocks, m) \cap 1 .. n = LiveIn(blocks, n)
  BY <1>4 DEF LiveIn
<1> QED
  BY <1>5, <1>6

\* Live is LiveIn for the whole stack.
LEMMA LiveAll ==
  ASSUME NEW p, OK(p)
  PROVE  /\ Live(p) = LiveIn(p.blocks, Len(p.stack))
         /\ LiveIn(p.blocks, Len(p.stack)) \in SUBSET (1 .. Len(p.stack))
<1>1. p.blocks \in Seq(Scope) /\ DOMAIN p.blocks = 1 .. Len(p.blocks)
  BY DEF OK, BlocksOk
<1>2. p.stack \in Seq(Item) /\ DOMAIN p.stack = 1 .. Len(p.stack)
  BY DEF OK, Typed, StackOk
<1>3. Range(p.blocks) = {p.blocks[k] : k \in 1 .. Len(p.blocks)}
  BY <1>1 DEF Range
<1> QED
  BY <1>2, <1>3 DEF Live, LiveIn

\* The records of the new block are not live, and its parameters not yet.
LEMMA LiveEntered ==
  ASSUME NEW blocks, BlocksOk(blocks), NEW b, b.exit \in Nat, b.base \in Nat,
         Base(blocks) <= b.exit, b.exit <= b.base
  PROVE  /\ LiveIn(Append(blocks, b), b.base) = LiveIn(blocks, b.exit)
         /\ LiveIn(Append(blocks, b), b.exit) = LiveIn(blocks, b.exit)
<1> DEFINE new == Append(blocks, b)
<1>1. /\ Len(blocks) \in Nat /\ Len(new) = Len(blocks) + 1 /\ new[Len(blocks) + 1] = b
      /\ \A k \in 1 .. Len(blocks) : new[k] = blocks[k]
  BY DEF BlocksOk
<1> HIDE DEF new
<1>2. \A i \in 1 .. b.exit : (\A k \in 1 .. Len(new) : i <= new[k].exit \/ i > new[k].base)
                         <=> (\A k \in 1 .. Len(blocks) : i <= blocks[k].exit \/ i > blocks[k].base)
  BY <1>1
<1>3. LiveIn(new, b.exit) = LiveIn(blocks, b.exit)
  BY <1>2 DEF LiveIn
<1>4. \A i \in 1 .. b.base : i > b.exit => ~(i <= b.exit \/ i > b.base)
  OBVIOUS
<1>5. 1 .. b.exit \subseteq 1 .. b.base /\ \A i \in 1 .. b.base : i <= b.exit => i \in 1 .. b.exit
  OBVIOUS
<1>6. LiveIn(new, b.base) = LiveIn(new, b.exit)
  BY <1>1, <1>4, <1>5 DEF LiveIn
<1> QED
  BY <1>3, <1>6 DEF new

\* Without the innermost block.
LEMMA LiveLeft ==
  ASSUME NEW blocks, BlocksOk(blocks), Len(blocks) >= 2
  PROVE  LET exit == Last(blocks).exit IN
         /\ LiveIn(Front(blocks), exit) = LiveIn(blocks, exit)
         /\ LiveIn(blocks, Base(blocks)) = LiveIn(blocks, exit)
<1> DEFINE exit == Last(blocks).exit  new == Front(blocks)
<1>1. /\ Len(new) = Len(blocks) - 1 /\ \A k \in 1 .. Len(blocks) - 1 : new[k] = blocks[k]
  BY FrontBlocks
<1>2. Len(blocks) \in Nat /\ Last(blocks) = blocks[Len(blocks)]
  BY DEF BlocksOk, Last
<1>3. exit \in Nat /\ Base(blocks) = blocks[Len(blocks)].base /\ Base(blocks) \in Nat /\ exit <= Base(blocks)
  BY <1>2, ScopeFacts DEF Base
<1>4. exit = blocks[Len(blocks)].exit
  BY <1>2
<1> HIDE DEF new, exit
<1>5. \A i \in 1 .. exit : (\A k \in 1 .. Len(new) : i <= new[k].exit \/ i > new[k].base)
                         <=> (\A k \in 1 .. Len(blocks) : i <= blocks[k].exit \/ i > blocks[k].base)
  BY <1>1, <1>2, <1>3, <1>4
<1>6. \A i \in 1 .. Base(blocks) : i > exit => ~(i <= exit \/ i > Base(blocks))
  BY <1>3
<1>7. 1 .. exit \subseteq 1 .. Base(blocks) /\ \A i \in 1 .. Base(blocks) : i <= exit => i \in 1 .. exit
  BY <1>3
<1>8. LiveIn(blocks, Base(blocks)) = LiveIn(blocks, exit)
  BY <1>2, <1>3, <1>4, <1>6, <1>7 DEF LiveIn
<1>9. LiveIn(new, exit) = LiveIn(blocks, exit)
  BY <1>5 DEF LiveIn
<1> QED
  BY <1>8, <1>9 DEF new, exit

-----------------------------------------------------------------------------
(* Where items are                                                         *)

\* A reference to a local with two slots is the only one.
Single(stack, firstConst) ==
  \A i, j \in NumLocals + 1 .. Len(stack) :
    /\ stack[i].slot = stack[j].slot /\ stack[i].slot < firstConst /\ Is64BitType(stack[i].type)
    => i = j

\* No item below the innermost base refers to a local.
Below(stack, blocks, firstConst) ==
  \A i \in NumLocals + 1 .. Base(blocks) : stack[i].slot >= firstConst

\* Nobody else uses the slots of the saved parameters of a block.
SavedIn(stack, blocks, b, first) ==
  \A i \in b.exit + 1 .. b.exit + Len(b.type.params) :
    \A j \in LiveIn(blocks, b.exit) \cup b.exit + 1 .. b.exit + Len(b.type.params) :
      InDynamic(stack[i], first) /\ InDynamic(stack[j], first) => i = j \/ Disjoint(stack[i], stack[j])

\* This is so in every block.
Saved(stack, blocks, first) == \A k \in 2 .. Len(blocks) : SavedIn(stack, blocks, blocks[k], first)

\* Where items are, beside the accounts.
Spots(stack, blocks, firstConst, first) ==
  Single(stack, firstConst) /\ Below(stack, blocks, firstConst) /\ Saved(stack, blocks, first)

\* What is below the innermost base stays, and no reference to a local comes.
LEMMA SpotsKept ==
  ASSUME NEW stack, NEW blocks, BlocksOk(blocks), NEW firstConst \in Nat, NEW first,
         Spots(stack, blocks, firstConst, first), Len(stack) \in Nat, Base(blocks) <= Len(stack),
         NEW new, Len(new) \in Nat, Base(blocks) <= Len(new),
         \A i \in 1 .. Base(blocks) : new[i] = stack[i],
         \A i \in Base(blocks) + 1 .. Len(new) :
           new[i].slot \in Nat /\ (new[i].slot >= firstConst \/ (i <= Len(stack) /\ new[i] = stack[i]))
  PROVE  Spots(new, blocks, firstConst, first)
<1>1. /\ \A k \in 1 .. Len(blocks) :
           LET b == blocks[k] IN
           b.exit \in Nat /\ b.base \in Nat /\ b.exit <= b.base /\ b.base <= Base(blocks)
      /\ Base(blocks) \in Nat /\ NumLocals \in Nat
  BY ScopeFacts, Numbers
<1>2. Below(new, blocks, firstConst)
  BY <1>1 DEF Below, Spots
<1>3. Single(new, firstConst)
  <2>1. ASSUME NEW i \in NumLocals + 1 .. Len(new), new[i].slot < firstConst
        PROVE  i \in NumLocals + 1 .. Len(stack) /\ new[i] = stack[i]
    BY <2>1, <1>1
  <2> QED
    BY <2>1 DEF Single, Spots
<1>4. Saved(new, blocks, first)
  <2>1. ASSUME NEW k \in 2 .. Len(blocks)
        PROVE  SavedIn(new, blocks, blocks[k], first)
    <3> DEFINE b == blocks[k]
    <3>1. b.exit \in Nat /\ b.base \in Nat /\ b.base <= Base(blocks) /\ Len(b.type.params) \in Nat
          /\ b.base = b.exit + Len(b.type.params) + Len(b.type.results) /\ Len(b.type.results) \in Nat
      <4>1. k \in 1 .. Len(blocks)
        OBVIOUS
      <4>2. b.type.params \in Seq(ValueType) /\ b.type.results \in Seq(ValueType)
        BY <4>1, ScopeFacts
      <4>3. Len(b.type.params) \in Nat /\ Len(b.type.results) \in Nat
        BY <4>2
      <4>4. b.base = b.exit + Len(b.type.params) + Len(b.type.results)
        BY DEF BlocksOk
      <4> QED
        BY <1>1, <4>1, <4>3, <4>4
    <3>2. \A i \in b.exit + 1 .. b.exit + Len(b.type.params) : i \in 1 .. Base(blocks)
      <4> DEFINE n == Len(b.type.params)  m == Len(b.type.results)
      <4>1. Base(blocks) \in Nat /\ n \in Nat /\ m \in Nat /\ b.exit \in Nat /\ b.exit + n + m <= Base(blocks)
        BY <3>1, <1>1
      <4>2. n = Len(b.type.params)
        OBVIOUS
      <4> DEFINE e == b.exit  z == Base(blocks)
      <4>3. z \in Nat /\ n \in Nat /\ m \in Nat /\ e \in Nat /\ e + n + m <= z
        BY <4>1
      <4> HIDE DEF b, n, m, e, z
      <4>4. \A i \in e + 1 .. e + n : i \in 1 .. z
        BY <4>3
      <4> QED
        BY <4>2, <4>4 DEF e, z
    <3>3. \A i \in LiveIn(blocks, b.exit) : i \in 1 .. Base(blocks)
      BY <3>1, <1>1 DEF LiveIn
    <3>4. SavedIn(stack, blocks, b, first)
      BY DEF Spots, Saved
    <3> HIDE DEF b
    <3>5. SavedIn(new, blocks, b, first)
      BY <3>2, <3>3, <3>4 DEF SavedIn
    <3> QED
      BY <3>5 DEF b
  <2> QED
    BY <2>1 DEF Saved
<1> QED
  BY <1>2, <1>3, <1>4 DEF Spots

\* Indices of a stack that grows or shrinks.
LEMMA Indices ==
  ASSUME NEW n \in Nat, NEW L \in SUBSET (1 .. n)
  PROVE  /\ L \cup {n + 1} \in SUBSET (1 .. n + 1) /\ {n + 1} \in SUBSET (1 .. n + 1)
         /\ n + 1 \notin L /\ \A i \in L : i \in 1 .. n /\ i # n + 1
         /\ L \ {n} \in SUBSET (1 .. n - 1)
OBVIOUS

\* A value comes to a register, or to the slots of a local or a constant.
LEMMA AccPush ==
  ASSUME NEW stack, StackOk(stack), NEW L, NEW count, NEW top \in Nat, NEW first \in Nat,
         Acc(stack, L, count, top, first),
         NEW x \in Item, StackOk(Append(stack, x)), ~InDynamic(x, first), x.slot < first => Ends(x) <= first
  PROVE  Acc(Append(stack, x), L \cup {Len(stack) + 1}, count, top, first)
<1> DEFINE new == Append(stack, x)  M == L \cup {Len(stack) + 1}
<1>1. /\ Len(stack) \in Nat /\ Len(new) = Len(stack) + 1 /\ new[Len(stack) + 1] = x
      /\ \A i \in 1 .. Len(stack) : new[i] = stack[i]
  BY DEF StackOk
<1>2. L \in SUBSET (1 .. Len(stack)) /\ Whole(stack, first)
  BY DEF Acc
<1> HIDE DEF new
<1>3. M \in SUBSET (1 .. Len(new)) /\ \A i \in L : i \in 1 .. Len(stack) /\ i # Len(stack) + 1
  BY <1>1, <1>2, Indices
<1>4. Whole(new, first)
  BY <1>1, <1>2 DEF Whole
<1>5. CountedIn(new, M, first) = CountedIn(stack, L, first)
  BY <1>1, <1>3 DEF CountedIn
<1>6. \A i \in CountedIn(stack, L, first) : new[i] = stack[i]
  BY <1>1, <1>2 DEF CountedIn
<1>7. StackOk(new)
  BY DEF new
<1> HIDE DEF M
<1>8. Acc(new, M, count, top, first)
  BY <1>3, <1>4, <1>5, <1>6, <1>7, AccKept
<1> QED
  BY <1>8 DEF new, M

\* A value comes to slots that are free.
LEMMA AccPushFresh ==
  ASSUME NEW stack, StackOk(stack), NEW L, NEW count, NEW top \in Nat, NEW first \in Nat,
         Acc(stack, L, count, top, first),
         NEW x \in Item, StackOk(Append(stack, x)), InDynamic(x, first),
         \A s \in x.slot .. Ends(x) - 1 : count[s] = 0,
         NEW after, NEW top2 \in Nat, top2 >= top, top2 >= Ends(x),
         \A s \in first .. MaxFunctionSlots - 1 :
           after[s] = IF x.slot <= s /\ s < Ends(x) THEN 1 ELSE count[s]
  PROVE  Acc(Append(stack, x), L \cup {Len(stack) + 1}, after, top2, first)
<1> DEFINE new == Append(stack, x)  M == L \cup {Len(stack) + 1}  J == {Len(stack) + 1}
<1>1. /\ Len(stack) \in Nat /\ Len(new) = Len(stack) + 1 /\ new[Len(stack) + 1] = x
      /\ \A i \in 1 .. Len(stack) : new[i] = stack[i]
  BY DEF StackOk
<1>2. L \in SUBSET (1 .. Len(stack)) /\ Whole(stack, first)
  BY DEF Acc
<1> HIDE DEF new
<1>3. /\ M \in SUBSET (1 .. Len(new)) /\ J \in SUBSET (1 .. Len(new))
      /\ \A i \in L : i \in 1 .. Len(stack) /\ i # Len(stack) + 1
  BY <1>1, <1>2, Indices
<1>4. Whole(new, first)
  <2>1. ~(x.slot < first)
    BY DEF InDynamic, Item
  <2> QED
    BY <1>1, <1>2, <2>1 DEF Whole
<1>5. CountedIn(new, M, first) = CountedIn(stack, L, first) \cup J
  BY <1>1, <1>3 DEF CountedIn
<1>6. J \cap CountedIn(stack, L, first) = {}
  BY <1>1, <1>3 DEF CountedIn
<1>7. \A i \in CountedIn(stack, L, first) : new[i] = stack[i]
  BY <1>1, <1>2 DEF CountedIn
<1>8. \A j \in J : new[j] = x
  BY <1>1
<1>9. Cardinality(J) = 1
  BY FS_Singleton
<1>10. StackOk(new)
  BY DEF new
<1> HIDE DEF M, J
<1>11. Acc(new, M, after, top2, first)
  <2>1. /\ \A s \in first .. MaxFunctionSlots - 1 :
             after[s] = IF x.slot <= s /\ s < Ends(x) THEN Cardinality(J) ELSE count[s]
        /\ \A s \in x.slot .. Ends(x) - 1 : count[s] = 0
    BY <1>9
  <2>2. Added(stack, L, count, top, first, new, M, J, x, after, top2)
    BY <1>3, <1>4, <1>5, <1>6, <1>7, <1>8, <1>10, <2>1 DEF Added
  <2> QED
    BY <2>2, AccAdded
<1> QED
  BY <1>11 DEF new, M

\* The last value goes.
LEMMA AccFront ==
  ASSUME NEW stack, StackOk(stack), Len(stack) >= 1, NEW L, NEW count, NEW top \in Nat, NEW first \in Nat,
         Acc(stack, L, count, top, first), Len(stack) \in L,
         \A s \in first .. MaxFunctionSlots - 1 : count[s] \in 0 .. MaxUsageCount,
         NEW after,
         \A s \in first .. MaxFunctionSlots - 1 :
           after[s] = IF InDynamic(Last(stack), first) /\ s \in SlotsOf(Last(stack))
                      THEN Less(count[s]) ELSE count[s]
  PROVE  Acc(Front(stack), L \ {Len(stack)}, after, top, first)
<1> DEFINE new == Front(stack)  M == L \ {Len(stack)}  n == Len(stack)
<1>1. /\ StackOk(new) /\ Len(new) = n - 1 /\ n \in Nat
      /\ \A i \in 1 .. n - 1 : new[i] = stack[i]
  <2>1. n \in Nat
    BY DEF StackOk
  <2>2. /\ StackOk(new) /\ Len(new) = n - 1
        /\ \A i \in 1 .. n - 1 : new[i] = stack[i]
    BY FrontTyped
  <2> QED
    BY <2>1, <2>2
<1>2. L \in SUBSET (1 .. n) /\ Whole(stack, first) /\ Last(stack) = stack[n]
  BY DEF Acc, Last
<1> HIDE DEF new
<1>3. M \in SUBSET (1 .. Len(new))
  BY <1>1, <1>2, Indices
<1>4. Whole(new, first)
  BY <1>1, <1>2 DEF Whole
<1>5. \A i \in M : new[i] = stack[i]
  <2> HIDE DEF M
  <2> QED
    BY <1>1, <1>3
<1>6. \A k : k \in CountedIn(new, M, first) <=> k \in CountedIn(stack, L, first) /\ k # n
  BY <1>5 DEF CountedIn
<1>9. \A k \in CountedIn(new, M, first) : new[k] = stack[k]
  BY <1>5 DEF CountedIn
<1>7. CASE InDynamic(stack[n], first)
  <2>1. n \in CountedIn(stack, L, first)
    BY <1>7 DEF CountedIn
  <2>2. \A s \in first .. MaxFunctionSlots - 1 :
           after[s] = IF s \in SlotsOf(stack[n]) THEN Less(count[s])
                      ELSE count[s]
    BY <1>2, <1>7
  <2> HIDE DEF M, n
  <2>3. Acc(new, M, after, top, first)
    BY <1>1, <1>3, <1>4, <1>6, <1>9, <2>1, <2>2, AccGone
  <2> QED
    BY <2>3 DEF new, M, n
<1>8. CASE ~InDynamic(stack[n], first)
  <2>1. CountedIn(new, M, first) = CountedIn(stack, L, first)
    BY <1>6, <1>8 DEF CountedIn
  <2>2. \A s \in first .. MaxFunctionSlots - 1 : after[s] = count[s] /\ (s >= top => s >= top \/ count[s] = 0)
    BY <1>2, <1>8
  <2> HIDE DEF M, n
  <2>3. Acc(new, M, after, top, first)
    BY <1>1, <1>3, <1>4, <1>9, <2>1, <2>2, AccKept
  <2> QED
    BY <2>3 DEF new, M, n
<1> QED
  BY <1>7, <1>8

-----------------------------------------------------------------------------
(* The counts of a compilation                                             *)

\* How far an operation may write: to the margin behind maxStackSlots, or to the
\* end of the frame of a call with so many values.
Limit(maxSlots, values) ==
  LET end == FrameBehind(maxSlots) + 2 * values
  IN  IF end > maxSlots + StackMargin THEN end ELSE maxSlots + StackMargin

\* None did write further.
Within(reach, maxSlots, values) ==
  values \in Nat /\ reach \in 0 .. Limit(maxSlots, values)

\* The frame is behind the slots in use, and further behind when more are.
LEMMA FrameGrows ==
  ASSUME NEW top \in Nat
  PROVE  /\ FrameBehind(top) \in Nat /\ top <= FrameBehind(top)
         /\ \A m \in Nat : top <= m => FrameBehind(top) <= FrameBehind(m)
<1> DEFINE G(m) == IF 1 >= m THEN 1 ELSE m
<1>1. ASSUME NEW m \in Nat
      PROVE  /\ G(m) \in Nat /\ m <= G(m) /\ FrameBehind(m) = G(m) + (G(m) % 2) /\ G(m) % 2 \in {0, 1}
  <2>1. Max({1, m}) = G(m)
    BY MaxOfTwo
  <2>2. G(m) \in Nat /\ m <= G(m)
    OBVIOUS
  <2> HIDE DEF G
  <2> QED
    BY <2>1, <2>2, Even DEF FrameBehind, AlignSlotToType, GetTypeNumSlots, Is64BitType
<1>2. ASSUME NEW m \in Nat, top <= m
      PROVE  FrameBehind(top) <= FrameBehind(m)
  <2>1. G(top) <= G(m)
    BY <1>2
  <2> DEFINE a == G(top)
             b == G(m)
             x == a % 2
             y == b % 2
  <2>2. /\ a \in Nat /\ b \in Nat /\ a <= b /\ x \in {0, 1} /\ y \in {0, 1} /\ (a = b => x = y)
        /\ FrameBehind(top) = a + x /\ FrameBehind(m) = b + y
    BY <1>1, <2>1
  <2> HIDE DEF a, b, x, y
  <2> QED
    BY <2>2
<1> HIDE DEF G
<1>3. FrameBehind(top) \in Nat /\ top <= FrameBehind(top)
  BY <1>1
<1> QED
  BY <1>2, <1>3

\* So one may write further when the function needs more slots, or calls have more values.
LEMMA LimitGrows ==
  ASSUME NEW m \in Nat, NEW n \in Nat, m <= n, NEW u \in Nat, NEW v \in Nat, u <= v
  PROVE  /\ Limit(m, u) \in Nat /\ Limit(m, u) <= Limit(n, v)
         /\ m + StackMargin <= Limit(m, u) /\ FrameBehind(m) + 2 * u <= Limit(m, u)
<1> DEFINE g == FrameBehind(m)
           h == FrameBehind(n)
<1>1. g \in Nat /\ h \in Nat /\ g <= h
  BY FrameGrows
<1>2. StackMargin \in Nat
  BY DEF StackMargin
<1>3. /\ Limit(m, u) = IF g + 2 * u > m + StackMargin THEN g + 2 * u ELSE m + StackMargin
      /\ Limit(n, v) = IF h + 2 * v > n + StackMargin THEN h + 2 * v ELSE n + StackMargin
  BY DEF Limit
<1> HIDE DEF g, h
<1> QED
  BY <1>1, <1>2, <1>3 DEF g

\* And what was in reach stays so.
LEMMA WithinGrows ==
  ASSUME NEW m \in Nat, NEW n \in Nat, m <= n, NEW u, NEW v \in Nat, u <= v,
         NEW reach, Within(reach, m, u)
  PROVE  Within(reach, n, v)
<1>1. u \in Nat /\ reach \in 0 .. Limit(m, u)
  BY DEF Within
<1>2. Limit(m, u) \in Nat /\ Limit(m, u) <= Limit(n, v)
  BY <1>1, LimitGrows
<1>a. Limit(n, v) \in Nat
  <2>1. n <= n /\ v <= v
    OBVIOUS
  <2> QED
    BY <2>1, LimitGrows
<1>3. reach \in 0 .. Limit(n, v)
  BY <1>1, <1>2, <1>a
<1> QED
  BY <1>3 DEF Within

\* maxStackSlots covers what is on the stack, and the results.
Covers(p) ==
  /\ p.top <= p.maxSlots /\ 2 * Len(RetTypes) <= p.maxSlots
  /\ \A i \in 1 .. Len(p.stack) : p.stack[i].slot \notin Registers => Ends(p.stack[i]) <= p.maxSlots
  /\ Within(p.reach, p.maxSlots, p.values)

\* What was written so far is the same, or known to be within the limit.
Reached(p, q) ==
  \/ q.reach = p.reach /\ q.values = p.values
  \/ Within(q.reach, q.maxSlots, q.values)

\* That is kept when the stack of the function grows.
LEMMA ReachedWithin ==
  ASSUME NEW p, NEW q, p.maxSlots \in Nat, q.maxSlots \in Nat, p.maxSlots <= q.maxSlots,
         Within(p.reach, p.maxSlots, p.values), Reached(p, q)
  PROVE  Within(q.reach, q.maxSlots, q.values)
<1>1. CASE q.reach = p.reach /\ q.values = p.values
  <2>1. p.values \in Nat /\ p.values <= p.values
    BY DEF Within
  <2> QED
    BY <1>1, <2>1, WithinGrows
<1> QED
  BY <1>1 DEF Reached

\* What is live is counted.
Accounted(p) ==
  /\ Acc(p.stack, LiveIn(p.blocks, Len(p.stack)), p.count, p.top, p.firstDynamic)
  /\ Spots(p.stack, p.blocks, p.firstConst, p.firstDynamic)

\* No value with two slots is referred to twice, and parameters of blocks are
\* in slots of their own.
NoSharing == "double_refs" \notin Allowed /\ "shared_params" \notin Allowed

\* What is counted in every state inside a handler, unless it failed.
Counts(p) == Covers(p) /\ (NoSharing /\ ~p.failed => Accounted(p))

\* The counts and the stack stay as they are.
Quiet(p, q) ==
  /\ q.count = p.count /\ q.top = p.top /\ q.maxSlots >= p.maxSlots
  /\ Reached(p, q)

\* A compilation is counted still if its counts and stack stay.
LEMMA QuietCounts ==
  ASSUME NEW p, OK(p), Counts(p), NEW q, Close(p, q), Quiet(p, q)
  PROVE  Counts(q)
<1>1. /\ q.stack = p.stack /\ q.blocks = p.blocks /\ q.firstConst = p.firstConst
      /\ q.firstDynamic = p.firstDynamic /\ q.failed = p.failed /\ q.count = p.count /\ q.top = p.top
      /\ q.maxSlots >= p.maxSlots
      /\ Reached(p, q)
  BY DEF Close, Frame, Quiet
<1>2. /\ p.maxSlots \in Nat /\ q.maxSlots \in Nat /\ p.top \in Nat
      /\ \A i \in 1 .. Len(p.stack) : p.stack[i] \in Item
  BY DEF OK, Close, Typed, StackOk
<1>3. \A i \in 1 .. Len(p.stack) : Ends(p.stack[i]) \in Nat
  BY <1>2, SlotsOfItem
<1>4. Covers(q)
  <2>1. Covers(p)
    BY DEF Counts
  <2>2. q.top <= q.maxSlots
    BY <1>1, <1>2, <2>1 DEF Covers
  <2>3. 2 * Len(RetTypes) <= q.maxSlots
    BY <1>1, <1>2, <2>1, Numbers DEF Covers
  <2>4. \A i \in 1 .. Len(q.stack) : q.stack[i].slot \notin Registers => Ends(q.stack[i]) <= q.maxSlots
    BY <1>1, <1>2, <1>3, <2>1 DEF Covers
  <2>5. Within(q.reach, q.maxSlots, q.values)
    BY <1>1, <1>2, <2>1, ReachedWithin DEF Covers
  <2> QED
    BY <2>2, <2>3, <2>4, <2>5 DEF Covers
<1>5. NoSharing /\ ~q.failed => Accounted(q)
  BY <1>1 DEF Accounted, Counts
<1> QED
  BY <1>4, <1>5 DEF Counts

\* Nothing is counted after an error.
LEMMA FailCounts ==
  ASSUME NEW p, OK(p), Counts(p)
  PROVE  Counts(Fail(p))
<1>1. LET q == Fail(p) IN
      /\ q.failed = TRUE /\ q.top = p.top /\ q.maxSlots = p.maxSlots /\ q.stack = p.stack /\ q.reach = p.reach /\ q.values = p.values
  BY DEF Fail, OK, Typed, Fields
<1> QED
  BY <1>1 DEF Counts, Covers

\* The stack of the function grows only.
LEMMA CoversMore ==
  ASSUME NEW p, OK(p), Covers(p), NEW q, OK(q), q.top <= q.maxSlots, q.maxSlots >= p.maxSlots,
         Reached(p, q),
         \A i \in 1 .. Len(q.stack) :
           \/ i <= Len(p.stack) /\ q.stack[i] = p.stack[i]
           \/ q.stack[i].slot \in Registers
           \/ Ends(q.stack[i]) <= q.maxSlots
  PROVE  Covers(q)
<1>1. /\ p.maxSlots \in Nat /\ q.maxSlots \in Nat /\ Len(p.stack) \in Nat /\ Len(q.stack) \in Nat
      /\ \A i \in 1 .. Len(p.stack) : p.stack[i] \in Item
  BY DEF OK, Typed, StackOk
<1>2. \A i \in 1 .. Len(p.stack) : Ends(p.stack[i]) \in Nat
  BY <1>1, SlotsOfItem
<1>3. 2 * Len(RetTypes) <= q.maxSlots
  <2>1. 2 * Len(RetTypes) <= p.maxSlots
    BY DEF Covers
  <2> QED
    BY <1>1, <2>1, Numbers
<1>4. Within(q.reach, q.maxSlots, q.values)
  BY <1>1, ReachedWithin DEF Covers
<1>5. ASSUME NEW i \in 1 .. Len(q.stack), q.stack[i].slot \notin Registers
      PROVE  Ends(q.stack[i]) <= q.maxSlots
  <2>1. CASE i <= Len(p.stack) /\ q.stack[i] = p.stack[i]
    <3>1. i \in 1 .. Len(p.stack)
      BY <1>1, <2>1
    <3>2. Ends(p.stack[i]) <= p.maxSlots
      BY <1>5, <2>1, <3>1 DEF Covers
    <3> QED
      BY <1>1, <1>2, <2>1, <3>1, <3>2
  <2> QED
    BY <1>5, <2>1
<1> QED
  BY <1>3, <1>4, <1>5 DEF Covers

\* What marking changes, in numbers.
LEMMA MarkFacts ==
  ASSUME NEW p, Typed(p), NEW t, NEW slot \in Nat, slot + GetTypeNumSlots(t) <= MaxFunctionSlots
  PROVE  LET m == MarkSlotsAllocated(p, slot, t)
             end == slot + GetTypeNumSlots(t) IN
         /\ Close(p, m) /\ m.reach = p.reach /\ m.values = p.values
         /\ m.top = IF p.top >= end THEN p.top ELSE end
         /\ m.maxSlots = IF p.maxSlots >= end THEN p.maxSlots ELSE end
         /\ \A s \in 0 .. MaxFunctionSlots - 1 :
              m.count[s] = IF slot <= s /\ s < end THEN 1 ELSE p.count[s]
<1> DEFINE end == slot + GetTypeNumSlots(t)
           m == MarkSlotsAllocated(p, slot, t)
<1>1. DOMAIN p = Fields /\ p.top \in Nat /\ p.maxSlots \in Nat /\ DOMAIN p.count = 0 .. MaxFunctionSlots - 1
  BY DEF Typed
<1>2. GetTypeNumSlots(t) \in 1 .. 2
  BY Types
<1>3. Close(p, m)
  BY MarkClose
<1>4. /\ m.reach = p.reach /\ m.values = p.values /\ m.top = Max({p.top, end}) /\ m.maxSlots = Max({p.maxSlots, end})
      /\ m.count = [s \in DOMAIN p.count |-> IF s \in slot .. end - 1 THEN 1 ELSE p.count[s]]
  BY <1>1 DEF MarkSlotsAllocated, Fields
<1>5. end \in Int
  BY <1>2
<1>6. m.top = (IF p.top >= end THEN p.top ELSE end) /\ m.maxSlots = (IF p.maxSlots >= end THEN p.maxSlots ELSE end)
  <2> HIDE DEF m, end
  <2> QED
    BY <1>1, <1>4, <1>5, MaxOfTwo
<1>7. ASSUME NEW s \in 0 .. MaxFunctionSlots - 1
      PROVE  m.count[s] = IF slot <= s /\ s < end THEN 1 ELSE p.count[s]
  <2>1. s \in Int /\ (s \in slot .. end - 1 <=> slot <= s /\ s < end)
    <3> HIDE DEF m, end
    <3> QED
      BY <1>5, Numbers
  <2> HIDE DEF m, end
  <2> QED
    BY <1>1, <1>4, <2>1
<1> QED
  BY <1>3, <1>4, <1>6, <1>7

\* A reference to a local with two slots is not a second one.
FirstReference(stack, x, firstConst) ==
  \/ x.slot >= firstConst
  \/ \A j \in NumLocals + 1 .. Len(stack) :
       stack[j].slot = x.slot => ~Is64BitType(stack[j].type) /\ ~Is64BitType(x.type)

\* A value comes to the stack.
LEMMA SpotsAppend ==
  ASSUME NEW stack, stack \in Seq(Item), NEW blocks, BlocksOk(blocks), NEW firstConst \in Nat, NEW first,
         Spots(stack, blocks, firstConst, first), Base(blocks) <= Len(stack),
         NEW x \in Item, FirstReference(stack, x, firstConst)
  PROVE  Spots(Append(stack, x), blocks, firstConst, first)
<1> DEFINE new == Append(stack, x)  n == Len(stack)
<1>1. /\ n \in Nat /\ Len(new) = n + 1 /\ new[n + 1] = x /\ \A i \in 1 .. n : new[i] = stack[i]
  OBVIOUS
<1>2. Base(blocks) \in Nat /\ \A i \in 1 .. n : stack[i] \in Item
  BY ScopeFacts
<1>3. x.slot \in Nat /\ \A i \in 1 .. n : stack[i].slot \in Nat
  BY <1>2 DEF Item
<1>4. CASE x.slot >= firstConst
  <2> HIDE DEF new
  <2>1. \A i \in 1 .. Base(blocks) : new[i] = stack[i]
    BY <1>1, <1>2
  <2>2. Len(new) \in Nat /\ Base(blocks) <= Len(new)
    BY <1>1, <1>2
  <2>3. \A i \in Base(blocks) + 1 .. Len(new) :
          new[i].slot \in Nat /\ (new[i].slot >= firstConst \/ (i <= n /\ new[i] = stack[i]))
    BY <1>1, <1>2, <1>3, <1>4
  <2>4. Spots(new, blocks, firstConst, first)
    BY <1>1, <2>1, <2>2, <2>3, SpotsKept
  <2> QED
    BY <2>4 DEF new
<1>5. CASE \A j \in NumLocals + 1 .. n : stack[j].slot = x.slot => ~Is64BitType(stack[j].type) /\ ~Is64BitType(x.type)
  <2> DEFINE y == [x EXCEPT !.slot = firstConst]
             old == Append(stack, y)
  <2>1. y \in Item /\ y.slot = firstConst
    BY DEF Item
  <2>2. Len(old) = n + 1 /\ old[n + 1] = y /\ \A i \in 1 .. n : old[i] = stack[i]
    OBVIOUS
  <2> HIDE DEF new, old, y
  <2>3. Spots(old, blocks, firstConst, first)
    <3>1. \A i \in 1 .. Base(blocks) : old[i] = stack[i]
      BY <2>2, <1>1, <1>2
    <3>2. Len(old) \in Nat /\ Base(blocks) <= Len(old)
      BY <2>2, <1>1, <1>2
    <3>3. \A i \in Base(blocks) + 1 .. Len(old) :
            old[i].slot \in Nat /\ (old[i].slot >= firstConst \/ (i <= n /\ old[i] = stack[i]))
      BY <2>1, <2>2, <1>1, <1>2, <1>3
    <3> QED
      BY <1>1, <3>1, <3>2, <3>3, SpotsKept
  <2>4. Single(new, firstConst)
    <3>1. Single(stack, firstConst) /\ NumLocals \in Nat
      BY Numbers DEF Spots
    <3>2. ASSUME NEW i \in NumLocals + 1 .. n + 1, NEW j \in NumLocals + 1 .. n + 1,
                 new[i].slot = new[j].slot, new[i].slot < firstConst, Is64BitType(new[i].type)
          PROVE  i = j
      <4>1. CASE i <= n /\ j <= n
        BY <4>1, <3>1, <3>2, <1>1 DEF Single
      <4>2. CASE i = n + 1 /\ j <= n
        BY <4>2, <3>1, <3>2, <1>1, <1>5
      <4>3. CASE i <= n /\ j = n + 1
        BY <4>3, <3>1, <3>2, <1>1, <1>5
      <4> QED
        BY <4>1, <4>2, <4>3, <3>1, <1>1
    <3> QED
      BY <3>2, <1>1 DEF Single
  <2>5. \A i \in 1 .. Base(blocks) : new[i] = old[i]
    BY <1>1, <1>2, <2>2
  <2>6. Below(new, blocks, firstConst)
    BY <2>3, <2>5, Numbers DEF Spots, Below
  <2>7. Saved(new, blocks, first)
    <3>1. \A k \in 2 .. Len(blocks) :
            LET b == blocks[k] IN
            /\ b.exit + 1 .. b.exit + Len(b.type.params) \subseteq 1 .. Base(blocks)
            /\ LiveIn(blocks, b.exit) \subseteq 1 .. Base(blocks)
      <4> TAKE k \in 2 .. Len(blocks)
      <4> DEFINE b == blocks[k]  a == Len(b.type.params)  c == Len(b.type.results)
      <4>1. k \in 1 .. Len(blocks)
        OBVIOUS
      <4>2. /\ b.exit \in Nat /\ b.base \in Nat /\ b.base <= Base(blocks)
            /\ b.type.params \in Seq(ValueType) /\ b.type.results \in Seq(ValueType)
        BY <4>1, ScopeFacts
      <4>3. a \in Nat /\ c \in Nat
        BY <4>2
      <4>4. b.base = b.exit + a + c
        BY DEF BlocksOk
      <4> HIDE DEF b, a, c
      <4>5. b.exit + 1 .. b.exit + a \subseteq 1 .. Base(blocks)
        BY SMTT(40), <4>2, <4>3, <4>4, <1>2
      <4>6. LiveIn(blocks, b.exit) \subseteq 1 .. Base(blocks)
        BY <4>2, <4>3, <4>4, <1>2 DEF LiveIn
      <4> QED
        BY <4>5, <4>6 DEF a, b
    <3>2. ASSUME NEW k \in 2 .. Len(blocks)
          PROVE  SavedIn(new, blocks, blocks[k], first)
      <4>1. SavedIn(old, blocks, blocks[k], first)
        BY <2>3 DEF Spots, Saved
      <4> QED
        BY <4>1, <3>1, <2>5 DEF SavedIn
    <3> QED
      BY <3>2 DEF Saved
  <2>8. Spots(new, blocks, firstConst, first)
    BY <2>4, <2>6, <2>7 DEF Spots
  <2> QED
    BY <2>8 DEF new
<1> QED
  BY <1>4, <1>5 DEF FirstReference

-----------------------------------------------------------------------------
(* Push                                                                    *)

\* A value comes to the stack, and is counted where it is.
Comes(p, q) ==
  /\ Covers(p) => Covers(q)
  /\ \A L : ~q.failed /\ Acc(p.stack, L, p.count, p.top, p.firstDynamic) =>
              Acc(q.stack, L \cup {Len(p.stack) + 1}, q.count, q.top, q.firstDynamic)

\* The numbers of a compilation.
LEMMA CountFacts ==
  ASSUME NEW p, OK(p)
  PROVE  /\ p.top \in Nat /\ p.maxSlots \in Nat /\ p.firstDynamic \in Nat /\ p.firstConst \in Nat
         /\ p.firstConst <= p.firstDynamic /\ p.firstDynamic <= p.top /\ p.firstDynamic <= MaxFunctionSlots
         /\ StackOk(p.stack) /\ Len(p.stack) \in Nat /\ p.stack \in Seq(Item)
         /\ \A s \in p.firstDynamic .. MaxFunctionSlots - 1 : p.count[s] \in 0 .. MaxUsageCount
<1>1. /\ p.top \in Nat /\ p.maxSlots \in Nat /\ p.firstDynamic \in Nat /\ p.firstConst \in Nat
      /\ p.constEnd \in Nat /\ StackOk(p.stack)
      /\ p.count \in [0 .. MaxFunctionSlots - 1 -> 0 .. MaxUsageCount]
  BY DEF OK, Typed
<1>2. p.firstConst <= p.firstDynamic /\ p.firstDynamic <= p.top /\ p.firstDynamic <= MaxFunctionSlots
  BY <1>1 DEF OK, Bounds
<1>3. \A s \in p.firstDynamic .. MaxFunctionSlots - 1 : p.count[s] \in 0 .. MaxUsageCount
  <2>1. \A s \in p.firstDynamic .. MaxFunctionSlots - 1 : s \in 0 .. MaxFunctionSlots - 1
    BY <1>1, Numbers
  <2> QED
    BY <1>1, <2>1
<1>4. Len(p.stack) \in Nat /\ p.stack \in Seq(Item)
  BY <1>1 DEF StackOk
<1> QED
  BY <1>1, <1>2, <1>3, <1>4

\* What Fail leaves,
LEMMA FailFacts ==
  ASSUME NEW p, OK(p), NEW q, q = Fail(p)
  PROVE  /\ q.failed = TRUE /\ q.top = p.top /\ q.maxSlots = p.maxSlots /\ q.stack = p.stack
         /\ q.reach = p.reach /\ q.values = p.values /\ OK(q) /\ q.count = p.count /\ q.firstDynamic = p.firstDynamic
<1>1. DOMAIN p = Fields
  BY DEF OK, Typed
<1>2. OK(q)
  BY FailOK
<1> QED
  BY <1>1, <1>2 DEF Fail, Fields

\* and what Push does.
LEMMA PushIs ==
  ASSUME NEW p, OK(p), NEW t, NEW slot, Len(p.stack) < MaxStackHeight, NEW q, q = Push(p, t, slot)
  PROVE  /\ q.failed = p.failed /\ q.count = p.count /\ q.top = p.top /\ q.maxSlots = p.maxSlots
         /\ q.stack = Append(p.stack, [type |-> t, slot |-> slot])
         /\ q.firstDynamic = p.firstDynamic /\ q.reach = p.reach /\ q.values = p.values
<1>1. DOMAIN p = Fields /\ Len(p.stack) \in Nat
  BY CountFacts DEF OK, Typed
<1>2. ~(Len(p.stack) >= MaxStackHeight)
  BY <1>1, Numbers
<1>3. q.reach = p.reach /\ q.values = p.values /\ q.firstDynamic = p.firstDynamic
  BY <1>1, <1>2 DEF Push, Fields
<1>4. LET a == Push(p, t, slot) IN
      /\ DOMAIN a = Fields /\ a.failed = p.failed /\ a.count = p.count /\ a.top = p.top
      /\ a.maxSlots = p.maxSlots /\ a.wild = p.wild /\ a.constEnd = p.constEnd
      /\ a.stack = Append(p.stack, [type |-> t, slot |-> slot])
      /\ a.reg = IF IsRegister(slot) THEN [p.reg EXCEPT ![slot] = Len(p.stack) + 1] ELSE p.reg
      /\ Frame(p, a)
  BY PushFacts
<1> QED
  BY <1>3, <1>4

\* To a register, or to the slots of a local or a constant.
LEMMA PlainPush ==
  ASSUME NEW p, OK(p), NEW t \in ValueType, NEW slot \in Nat,
         slot = RegisterOf(t) \/ slot + GetTypeNumSlots(t) <= p.firstDynamic,
         OK(Push(p, t, slot))
  PROVE  Comes(p, Push(p, t, slot))
<1> DEFINE q == Push(p, t, slot)  x == [type |-> t, slot |-> slot]
<1>1. CASE ~(Len(p.stack) < MaxStackHeight)
  <2>1. q = Fail(p) /\ q.failed
    <3>1. Len(p.stack) \in Nat /\ MaxStackHeight \in Nat
      BY CountFacts, Numbers
    <3>2. Len(p.stack) >= MaxStackHeight
      BY <3>1, <1>1
    <3> QED
      BY <3>2, FailOK DEF Push
  <2>2. Covers(p) => Covers(q)
    BY <2>1 DEF Covers, Fail, OK, Typed, Fields
  <2> QED
    BY <2>1, <2>2 DEF Comes
<1>2. CASE Len(p.stack) < MaxStackHeight
  <2>1. /\ q.failed = p.failed /\ q.count = p.count /\ q.top = p.top /\ q.maxSlots = p.maxSlots
        /\ q.stack = Append(p.stack, x) /\ q.firstDynamic = p.firstDynamic /\ q.reach = p.reach /\ q.values = p.values
    BY <1>2, PushIs
  <2>2. x \in Item /\ x.slot = slot /\ x.type = t /\ Ends(x) = slot + GetTypeNumSlots(t)
    BY DEF Item, Ends
  <2>3. /\ p.firstDynamic \in Nat /\ p.top \in Nat /\ StackOk(p.stack) /\ p.firstDynamic <= p.top
        /\ p.maxSlots \in Nat
    BY CountFacts
  <2>4. OK(q)
    OBVIOUS
  <2>5. StackOk(q.stack)
    BY <2>4 DEF OK, Typed
  <2>6. RegisterOf(t) \in Registers /\ RegisterOf(t) \in Nat /\ RegisterOf(t) >= MaxFunctionSlots /\ MaxFunctionSlots \in Nat
    BY ItemFacts, Numbers
  <2>7. /\ Ends(x) \in Nat /\ x.slot < Ends(x) /\ x.slot \in Nat
    BY <2>2, SlotsOfItem
  <2> HIDE DEF q, x
  <2>8. ~InDynamic(x, p.firstDynamic) /\ (x.slot < p.firstDynamic => Ends(x) <= p.firstDynamic)
    <3>1. CASE slot = RegisterOf(t)
      BY <3>1, <2>2, <2>3, <2>6, CountFacts DEF InDynamic
    <3>2. CASE slot + GetTypeNumSlots(t) <= p.firstDynamic
      BY <3>2, <2>2, <2>3, <2>7 DEF InDynamic
    <3> QED
      BY <3>1, <3>2
  <2>9. ASSUME Covers(p) PROVE Covers(q)
    <3>1. p.top <= p.maxSlots
      BY <2>9 DEF Covers
    <3>2. x.slot \in Registers \/ Ends(x) <= q.maxSlots
      BY <3>1, <2>1, <2>2, <2>3, <2>6, <2>7
    <3>3. \A i \in 1 .. Len(q.stack) :
            \/ i <= Len(p.stack) /\ q.stack[i] = p.stack[i]
            \/ q.stack[i].slot \in Registers
            \/ Ends(q.stack[i]) <= q.maxSlots
      <4>1. /\ p.stack \in Seq(Item) /\ Len(p.stack) \in Nat
        BY CountFacts
      <4>2. /\ Len(q.stack) = Len(p.stack) + 1 /\ q.stack[Len(p.stack) + 1] = x
            /\ \A i \in 1 .. Len(p.stack) : q.stack[i] = p.stack[i]
        BY <4>1, <2>1, <2>2
      <4> QED
        BY <4>1, <4>2, <3>2
    <3>4. q.top <= q.maxSlots /\ q.maxSlots >= p.maxSlots
      BY <2>1, <2>3, <3>1
    <3> QED
      BY <2>1, <2>4, <2>9, <3>3, <3>4, CoversMore DEF Reached
  <2>10. ASSUME NEW L, Acc(p.stack, L, p.count, p.top, p.firstDynamic)
         PROVE  Acc(q.stack, L \cup {Len(p.stack) + 1}, q.count, q.top, q.firstDynamic)
    BY <2>1, <2>2, <2>3, <2>5, <2>8, <2>10, AccPush
  <2> QED
    BY <2>9, <2>10 DEF Comes, q
<1> QED
  BY <1>1, <1>2

\* To slots that are free.
LEMMA FreshPush ==
  ASSUME NEW p, OK(p), NEW t \in ValueType, NEW slot \in Nat, slot >= p.firstDynamic,
         slot + GetTypeNumSlots(t) <= MaxFunctionSlots,
         p.count[slot] = 0, p.count[slot + GetTypeNumSlots(t) - 1] = 0,
         NEW m, m = MarkSlotsAllocated(p, slot, t)
  PROVE  OK(m) /\ Frame(p, m) /\ Comes(p, Push(m, t, slot))
<1> DEFINE q == Push(m, t, slot)  x == [type |-> t, slot |-> slot]
           end == slot + GetTypeNumSlots(t)
<1>1. /\ Close(p, m) /\ m.reach = p.reach /\ m.values = p.values
      /\ m.top = (IF p.top >= end THEN p.top ELSE end)
      /\ m.maxSlots = (IF p.maxSlots >= end THEN p.maxSlots ELSE end)
      /\ \A s \in 0 .. MaxFunctionSlots - 1 :
           m.count[s] = IF slot <= s /\ s < end THEN 1 ELSE p.count[s]
  BY MarkFacts DEF OK
<1>2. OK(m) /\ Frame(p, m)
  BY <1>1, CloseOK DEF Close
<1>3. /\ m.stack = p.stack /\ m.failed = p.failed /\ m.firstDynamic = p.firstDynamic
  BY <1>1 DEF Close, Frame
<1>4. /\ x \in Item /\ x.slot = slot /\ x.type = t /\ Ends(x) = end
      /\ x.slot \in Nat /\ Ends(x) \in Nat /\ x.slot < Ends(x) /\ Ends(x) <= x.slot + 2
  <2>1. x \in Item /\ x.slot = slot /\ x.type = t /\ Ends(x) = end
    BY DEF Item, Ends
  <2> QED
    BY <2>1, SlotsOfItem
<1>5. /\ p.firstDynamic \in Nat /\ p.top \in Nat /\ StackOk(p.stack) /\ p.maxSlots \in Nat
      /\ Len(p.stack) \in Nat /\ p.stack \in Seq(Item) /\ MaxFunctionSlots \in Nat
  BY CountFacts, Numbers
<1>6. CASE ~(Len(p.stack) < MaxStackHeight)
  <2>1. q = Fail(m) /\ q.failed
    <3>1. ~(Len(m.stack) < MaxStackHeight) /\ Len(m.stack) >= MaxStackHeight
      BY <1>3, <1>5, <1>6, Numbers
    <3> QED
      BY <3>1, <1>2, FailOK DEF Push
  <2>2. /\ q.top = m.top /\ q.maxSlots = m.maxSlots /\ q.stack = m.stack /\ q.reach = m.reach /\ q.values = m.values /\ OK(q)
    BY <2>1, <1>2, <1>3, FailFacts
  <2> HIDE DEF q
  <2>3. ASSUME Covers(p) PROVE Covers(q)
    <3>1. p.top <= p.maxSlots
      BY <2>3 DEF Covers
    <3>2. q.top <= q.maxSlots /\ q.maxSlots >= p.maxSlots
      BY <3>1, <2>2, <1>1, <1>4, <1>5
    <3>3. \A i \in 1 .. Len(q.stack) : i <= Len(p.stack) /\ q.stack[i] = p.stack[i]
      BY <2>2, <1>3, <1>5
    <3> QED
      BY <2>2, <2>3, <3>2, <3>3, <1>1, CoversMore DEF Reached
  <2> QED
    BY <1>2, <2>1, <2>3 DEF Comes, q
<1>7. CASE Len(p.stack) < MaxStackHeight
  <2>1. /\ q.failed = p.failed /\ q.count = m.count /\ q.top = m.top /\ q.maxSlots = m.maxSlots
        /\ q.stack = Append(p.stack, x) /\ q.firstDynamic = p.firstDynamic /\ q.reach = p.reach /\ q.values = p.values
    <3>1. Len(m.stack) < MaxStackHeight
      BY <1>3, <1>7
    <3>2. /\ q.failed = m.failed /\ q.count = m.count /\ q.top = m.top /\ q.maxSlots = m.maxSlots
          /\ q.stack = Append(m.stack, x) /\ q.firstDynamic = m.firstDynamic /\ q.reach = m.reach /\ q.values = m.values
      BY <1>2, <3>1, PushIs
    <3> QED
      BY <3>2, <1>1, <1>3
  <2>2. OK(q)
    <3>1. ~(slot < m.firstConst)
      BY <1>5, <1>1, CountFacts DEF Close, Frame
    <3> QED
      BY <1>2, <3>1, PushSlot
  <2>3. StackOk(q.stack)
    BY <2>2 DEF OK, Typed
  <2> HIDE DEF q, x
  <2>7. p.count[slot] = 0 /\ p.count[end - 1] = 0 /\ end <= MaxFunctionSlots
    BY Types
  <2> HIDE DEF end
  <2>4. InDynamic(x, p.firstDynamic) /\ \A s \in x.slot .. Ends(x) - 1 : p.count[s] = 0
    <3>1. end = slot + 1 \/ end = slot + 2
      BY Types DEF end
    <3>2. p.count[slot] = 0 /\ p.count[end - 1] = 0 /\ end <= MaxFunctionSlots
      BY <2>7
    <3>3. \A s \in x.slot .. Ends(x) - 1 : s = slot \/ s = end - 1
      BY <3>1, <1>4
    <3> QED
      BY <3>1, <3>2, <3>3, <1>4, <1>5 DEF InDynamic
  <2>5. ASSUME Covers(p) PROVE Covers(q)
    <3>1. p.top <= p.maxSlots
      BY <2>5 DEF Covers
    <3>2. q.top <= q.maxSlots /\ q.maxSlots >= p.maxSlots /\ Ends(x) <= q.maxSlots
      BY <3>1, <2>1, <1>1, <1>4, <1>5
    <3>3. \A i \in 1 .. Len(q.stack) :
            \/ i <= Len(p.stack) /\ q.stack[i] = p.stack[i]
            \/ Ends(q.stack[i]) <= q.maxSlots
      <4>1. /\ Len(q.stack) = Len(p.stack) + 1 /\ q.stack[Len(p.stack) + 1] = x
            /\ \A i \in 1 .. Len(p.stack) : q.stack[i] = p.stack[i]
        BY <1>4, <1>5, <2>1
      <4> QED
        BY SMTT(40), <4>1, <1>5, <3>2
    <3> QED
      BY <2>1, <2>2, <2>5, <3>2, <3>3, CoversMore DEF Reached
  <2>6. ASSUME NEW L, Acc(p.stack, L, p.count, p.top, p.firstDynamic)
        PROVE  Acc(q.stack, L \cup {Len(p.stack) + 1}, q.count, q.top, q.firstDynamic)
    <3>1. q.top \in Nat /\ q.top >= p.top /\ q.top >= Ends(x)
      BY <2>1, <1>1, <1>4, <1>5
    <3>2. \A s \in p.firstDynamic .. MaxFunctionSlots - 1 :
            q.count[s] = IF x.slot <= s /\ s < Ends(x) THEN 1 ELSE p.count[s]
      <4>1. \A s \in p.firstDynamic .. MaxFunctionSlots - 1 : s \in 0 .. MaxFunctionSlots - 1
        BY <1>5
      <4> QED
        BY <4>1, <2>1, <1>1, <1>4
    <3>3. StackOk(p.stack) /\ p.top \in Nat /\ p.firstDynamic \in Nat /\ x \in Item
          /\ StackOk(Append(p.stack, x)) /\ InDynamic(x, p.firstDynamic)
      BY <1>4, <1>5, <2>1, <2>3, <2>4
    <3>4. \A s \in x.slot .. Ends(x) - 1 : p.count[s] = 0
      BY <2>4
    <3>5. Acc(Append(p.stack, x), L \cup {Len(p.stack) + 1}, q.count, q.top, p.firstDynamic)
      BY <2>6, <3>1, <3>2, <3>3, <3>4, AccPushFresh
    <3> QED
      BY <3>5, <2>1
  <2> QED
    BY <1>2, <2>5, <2>6 DEF Comes, q
<1> QED
  BY <1>6, <1>7

\* What came is live.
LEMMA ComesCounts ==
  ASSUME NEW p, OK(p), Counts(p), NEW q, OK(q), Frame(p, q), Comes(p, q),
         NEW x, Pushed(p, q, x), NoSharing => FirstReference(p.stack, x, p.firstConst)
  PROVE  Counts(q)
<1>1. Covers(q)
  BY DEF Comes, Counts
<1>2. ASSUME NoSharing, ~q.failed
      PROVE  Accounted(q)
  <2>1. /\ ~p.failed /\ q.stack = Append(p.stack, x) /\ x \in Item
        /\ q.blocks = p.blocks /\ q.firstConst = p.firstConst /\ q.firstDynamic = p.firstDynamic
    BY <1>2 DEF Pushed, Frame
  <2>2. /\ Acc(p.stack, LiveIn(p.blocks, Len(p.stack)), p.count, p.top, p.firstDynamic)
        /\ Spots(p.stack, p.blocks, p.firstConst, p.firstDynamic)
    BY <1>2, <2>1 DEF Counts, Accounted
  <2>3. p.stack \in Seq(Item) /\ Len(p.stack) \in Nat /\ p.firstConst \in Nat /\ BlocksOk(p.blocks)
        /\ Base(p.blocks) <= Len(p.stack)
    BY CountFacts DEF OK
  <2>4. LiveIn(p.blocks, Len(p.stack) + 1) = LiveIn(p.blocks, Len(p.stack)) \cup {Len(p.stack) + 1}
    <3>1. Len(p.stack) + 1 .. Len(p.stack) + 1 = {Len(p.stack) + 1} /\ Len(p.stack) + 1 \in Nat
          /\ Len(p.stack) <= Len(p.stack) + 1
      BY <2>3
    <3> QED
      BY <2>3, <3>1, LiveAbove
  <2>5. Len(q.stack) = Len(p.stack) + 1
    BY <2>1, <2>3
  <2>6. Acc(q.stack, LiveIn(q.blocks, Len(q.stack)), q.count, q.top, q.firstDynamic)
    <3>1. Acc(q.stack, LiveIn(p.blocks, Len(p.stack)) \cup {Len(p.stack) + 1}, q.count, q.top, q.firstDynamic)
      BY <1>2, <2>2 DEF Comes
    <3> QED
      BY <3>1, <2>1, <2>4, <2>5
  <2>7. Spots(Append(p.stack, x), p.blocks, p.firstConst, p.firstDynamic)
    BY <1>2, <2>1, <2>2, <2>3, SpotsAppend
  <2> QED
    BY <2>1, <2>6, <2>7 DEF Accounted
<1> QED
  BY <1>1, <1>2 DEF Counts

\* Nothing comes after an error.
LEMMA FailComes ==
  ASSUME NEW p, OK(p), NEW q, q = Fail(p)
  PROVE  Comes(p, q)
<1>1. /\ q.failed = TRUE /\ q.top = p.top /\ q.maxSlots = p.maxSlots /\ q.stack = p.stack
      /\ q.reach = p.reach /\ q.values = p.values
  BY FailFacts
<1>2. Covers(p) => Covers(q)
  BY <1>1 DEF Covers
<1> QED
  BY <1>1, <1>2 DEF Comes

\* A value in a slot that is looked for,
LEMMA AllocatedComes ==
  ASSUME NEW p, OK(p), NEW t \in ValueType
  PROVE  Comes(p, PushAllocatedSlot(p, t))
<1> DEFINE s == FreeSlot(p, t, p.firstDynamic, MaxFunctionSlots)
           m == MarkSlotsAllocated(p, s, t)
           q == PushAllocatedSlot(p, t)
<1>1. q = IF s = SlotUnused THEN Fail(p) ELSE Push(m, t, s)
  BY DEF PushAllocatedSlot, AllocateSlots
<1>2. \/ s = SlotUnused
      \/ /\ s \in Nat /\ p.firstDynamic <= s /\ s + GetTypeNumSlots(t) <= MaxFunctionSlots
         /\ p.count[s] = 0 /\ p.count[s + GetTypeNumSlots(t) - 1] = 0
  <2>1. Typed(p) /\ p.firstDynamic \in Nat /\ MaxFunctionSlots \in Int
    BY CountFacts, Numbers DEF OK
  <2>2. LET f == FreeSlot(p, t, p.firstDynamic, MaxFunctionSlots) IN
         \/ f = SlotUnused
         \/ /\ f \in Nat /\ p.firstDynamic <= f /\ f + GetTypeNumSlots(t) <= MaxFunctionSlots
            /\ p.count[f] = 0 /\ p.count[f + GetTypeNumSlots(t) - 1] = 0
            /\ f % GetTypeNumSlots(t) = 0
    BY <2>1, FreeSlotFacts
  <2> QED
    BY <2>2
<1> HIDE DEF s, q
<1>3. CASE s = SlotUnused
  BY <1>1, <1>3, FailComes DEF q
<1>4. CASE s # SlotUnused
  <2>1. s \in Nat /\ s >= p.firstDynamic /\ s + GetTypeNumSlots(t) <= MaxFunctionSlots
        /\ p.count[s] = 0 /\ p.count[s + GetTypeNumSlots(t) - 1] = 0
    BY <1>2, <1>4, CountFacts
  <2>2. m = MarkSlotsAllocated(p, s, t)
    OBVIOUS
  <2> HIDE DEF m
  <2>3. Comes(p, Push(m, t, s))
    BY <2>1, <2>2, FreshPush
  <2> QED
    BY <1>1, <1>4, <2>3 DEF q
<1> QED
  BY <1>3, <1>4

\* or in its register.
LEMMA RegisterComes ==
  ASSUME NEW p, OK(p), NEW t \in ValueType, ~p.failed => p.reg[RegisterOf(t)] = 0
  PROVE  Comes(p, PushRegister(p, t))
<1>1. OK(PushRegister(p, t))
  BY PushInRegister
<1>2. RegisterOf(t) \in Nat
  BY ItemFacts, Numbers DEF Registers
<1> QED
  BY <1>1, <1>2, PlainPush DEF PushRegister

\* A slot that is given out, and a register, is not that of a local.
LEMMA NoReference ==
  ASSUME NEW p, OK(p), NEW x, (x.slot >= p.firstDynamic /\ x.slot \in Nat) \/ x.slot \in Registers
  PROVE  FirstReference(p.stack, x, p.firstConst)
<1>1. /\ p.firstConst \in Nat /\ p.firstDynamic \in Nat /\ p.firstConst <= p.firstDynamic
      /\ p.firstDynamic <= MaxFunctionSlots
  BY CountFacts
<1>2. \A r \in Registers : r \in Nat /\ r >= MaxFunctionSlots
  BY Numbers DEF Registers
<1> QED
  BY <1>1, <1>2, Numbers DEF FirstReference

\* A value that comes to free slots is counted.
LEMMA AllocatedCounts ==
  ASSUME NEW p, OK(p), Counts(p), NEW t \in ValueType
  PROVE  Counts(PushAllocatedSlot(p, t))
<1> DEFINE q == PushAllocatedSlot(p, t)
<1>1. OK(q) /\ Frame(p, q)
  BY PushAllocated
<1>2. PICK slot : Pushed(p, q, [type |-> t, slot |-> slot]) /\ (~q.failed => InSlots([type |-> t, slot |-> slot]) /\ slot >= p.firstDynamic)
  BY PushAllocated
<1>3. Comes(p, q)
  BY AllocatedComes
<1> HIDE DEF q
<1>4. CASE q.failed
  BY <1>1, <1>3, <1>4 DEF Counts, Comes, q
<1>5. CASE ~q.failed
  <2> DEFINE x == [type |-> t, slot |-> slot]
  <2>1. x \in Item /\ Pushed(p, q, x) /\ x.slot >= p.firstDynamic
    BY <1>2, <1>5 DEF Pushed
  <2> HIDE DEF x
  <2>2. x.slot \in Nat
    BY <2>1, ItemFacts
  <2>3. FirstReference(p.stack, x, p.firstConst)
    BY <2>1, <2>2, NoReference
  <2> QED
    BY <1>1, <1>3, <2>1, <2>3, ComesCounts DEF q
<1> QED
  BY <1>4, <1>5 DEF q

\* A value that comes to its register is not.
LEMMA RegisterCounts ==
  ASSUME NEW p, OK(p), Counts(p), NEW t \in ValueType, ~p.failed => p.reg[RegisterOf(t)] = 0
  PROVE  Counts(PushRegister(p, t))
<1> DEFINE q == PushRegister(p, t)  x == [type |-> t, slot |-> RegisterOf(t)]
<1>1. OK(q) /\ Frame(p, q) /\ Pushed(p, q, x)
  BY PushInRegister
<1>2. Comes(p, q)
  BY RegisterComes
<1>3. x.slot \in Registers
  BY ItemFacts
<1> HIDE DEF q, x
<1>4. FirstReference(p.stack, x, p.firstConst)
  BY <1>3, NoReference
<1> QED
  BY <1>1, <1>2, <1>4, ComesCounts DEF q

-----------------------------------------------------------------------------
(* Pop                                                                     *)

\* The last value goes, and is not counted any more.
Goes(p, q) ==
  /\ Covers(p) => Covers(q)
  /\ \A L : Acc(p.stack, L, p.count, p.top, p.firstDynamic) /\ Len(p.stack) \in L =>
              Acc(q.stack, L \ {Len(p.stack)}, q.count, q.top, q.firstDynamic)

\* What Pop does.
LEMMA PopIs ==
  ASSUME NEW p, OK(p), Len(p.stack) > Base(p.blocks), NEW q, q = Pop(p)
  PROVE  /\ q.stack = Front(p.stack) /\ q.top = p.top /\ q.maxSlots = p.maxSlots
         /\ q.reach = p.reach /\ q.values = p.values /\ q.firstDynamic = p.firstDynamic /\ q.failed = p.failed
         /\ q.count = IF ~IsRegister(Last(p.stack).slot) /\ Last(p.stack).slot >= p.firstDynamic
                      THEN [s \in DOMAIN p.count |-> IF s \in SlotsOf(Last(p.stack)) THEN Less(p.count[s]) ELSE p.count[s]]
                      ELSE p.count
<1>1. DOMAIN p = Fields
  BY DEF OK, Typed
<1>2. BlockHeight(p) # 0
  BY Height
<1> DEFINE x == Last(p.stack)  a == [p EXCEPT !.stack = Front(@)]
<1>3. q = IF IsRegister(x.slot) THEN [a EXCEPT !.reg[x.slot] = 0]
          ELSE IF x.slot >= p.firstDynamic THEN DeallocateSlot(a, x) ELSE a
  BY <1>2 DEF Pop
<1>4. /\ DOMAIN a = Fields /\ a.stack = Front(p.stack) /\ a.top = p.top /\ a.maxSlots = p.maxSlots
      /\ a.reach = p.reach /\ a.values = p.values /\ a.firstDynamic = p.firstDynamic /\ a.failed = p.failed /\ a.count = p.count
  BY <1>1 DEF Fields
<1> HIDE DEF x, a
<1>5. CASE IsRegister(x.slot)
  <2>1. q = [a EXCEPT !.reg[x.slot] = 0]
    BY <1>3, <1>5
  <2>2. /\ q.stack = a.stack /\ q.top = a.top /\ q.maxSlots = a.maxSlots
        /\ q.reach = a.reach /\ q.values = a.values /\ q.firstDynamic = a.firstDynamic /\ q.failed = a.failed /\ q.count = a.count
    BY <2>1, <1>4 DEF Fields
  <2> QED
    BY <2>2, <1>4, <1>5 DEF x
<1>6. CASE ~IsRegister(x.slot) /\ x.slot >= p.firstDynamic
  <2>1. q = DeallocateSlot(a, x)
    BY <1>3, <1>6
  <2>2. /\ q.stack = a.stack /\ q.top = a.top /\ q.maxSlots = a.maxSlots
        /\ q.reach = a.reach /\ q.values = a.values /\ q.firstDynamic = a.firstDynamic /\ q.failed = a.failed
        /\ q.count = [s \in DOMAIN a.count |-> IF s \in SlotsOf(x) THEN Less(a.count[s]) ELSE a.count[s]]
    BY <2>1, <1>4 DEF Fields, DeallocateSlot, Less
  <2> QED
    BY <2>2, <1>4, <1>6 DEF x
<1>7. CASE ~IsRegister(x.slot) /\ ~(x.slot >= p.firstDynamic)
  <2>1. q = a
    BY <1>3, <1>7
  <2> QED
    BY <2>1, <1>4, <1>7 DEF x
<1> QED
  BY <1>5, <1>6, <1>7

\* Pop takes the top away, and its count.
LEMMA PopGoes ==
  ASSUME NEW p, OK(p), Len(p.stack) > Base(p.blocks)
  PROVE  Goes(p, Pop(p))
<1> DEFINE q == Pop(p)  x == Last(p.stack)
<1>1. /\ q.stack = Front(p.stack) /\ q.top = p.top /\ q.maxSlots = p.maxSlots
      /\ q.reach = p.reach /\ q.values = p.values /\ q.firstDynamic = p.firstDynamic
      /\ q.count = IF ~IsRegister(x.slot) /\ x.slot >= p.firstDynamic
                   THEN [s \in DOMAIN p.count |-> IF s \in SlotsOf(x) THEN Less(p.count[s]) ELSE p.count[s]]
                   ELSE p.count
  BY PopIs
<1>2. /\ p.top \in Nat /\ p.maxSlots \in Nat /\ p.firstDynamic \in Nat /\ p.firstDynamic <= MaxFunctionSlots
      /\ StackOk(p.stack) /\ Len(p.stack) \in Nat /\ p.stack \in Seq(Item) /\ Base(p.blocks) \in Nat
      /\ \A s \in p.firstDynamic .. MaxFunctionSlots - 1 : p.count[s] \in 0 .. MaxUsageCount
  BY CountFacts, Height
<1>3. Len(p.stack) >= 1 /\ DOMAIN p.count = 0 .. MaxFunctionSlots - 1 /\ x = p.stack[Len(p.stack)]
  BY <1>2 DEF OK, Typed, Last
<1>4. OK(q)
  BY PopOK
<1> HIDE DEF q, x
<1>5. /\ x \in Item /\ x.slot \in Nat
      /\ x.slot \in Registers => ~(x.slot < MaxFunctionSlots)
      /\ x.slot \notin Registers => InSlots(x) /\ x.slot < MaxFunctionSlots
  <2>1. Len(p.stack) \in 1 .. Len(p.stack)
    BY <1>2, <1>3
  <2>2. x \in Item /\ x.slot \in Nat /\ (x.slot \notin Registers => InSlots(x))
    BY <2>1, <1>3, InSlotsOrRegister
  <2> QED
    BY <2>2, ItemFacts, Numbers DEF Registers
<1>6. ASSUME NEW s \in p.firstDynamic .. MaxFunctionSlots - 1
      PROVE  q.count[s] = IF InDynamic(x, p.firstDynamic) /\ s \in SlotsOf(x) THEN Less(p.count[s]) ELSE p.count[s]
  <2>1. s \in DOMAIN p.count
    BY <1>2, <1>3, Numbers
  <2>2. InDynamic(x, p.firstDynamic) <=> ~IsRegister(x.slot) /\ x.slot >= p.firstDynamic
    BY <1>5 DEF InDynamic, IsRegister
  <2>3. CASE InDynamic(x, p.firstDynamic)
    <3>1. q.count = [y \in DOMAIN p.count |-> IF y \in SlotsOf(x) THEN Less(p.count[y]) ELSE p.count[y]]
      BY <1>1, <2>2, <2>3
    <3> QED
      BY <3>1, <2>1, <2>3
  <2>4. CASE ~InDynamic(x, p.firstDynamic)
    <3>1. q.count = p.count
      BY <1>1, <2>2, <2>4
    <3> QED
      BY <3>1, <2>4
  <2> QED
    BY <2>3, <2>4
<1>7. ASSUME Covers(p) PROVE Covers(q)
  <2>1. Len(q.stack) = Len(p.stack) - 1 /\ \A i \in 1 .. Len(p.stack) - 1 : q.stack[i] = p.stack[i]
    BY <1>1, <1>2, <1>3, FrontTyped
  <2>2. \A i \in 1 .. Len(q.stack) : i <= Len(p.stack) /\ q.stack[i] = p.stack[i]
    BY <2>1, <1>2
  <2>3. q.top <= q.maxSlots /\ q.maxSlots >= p.maxSlots
    BY <1>1, <1>2, <1>7 DEF Covers
  <2> QED
    BY <1>1, <1>4, <1>7, <2>2, <2>3, CoversMore DEF Reached
<1>8. ASSUME NEW L, Acc(p.stack, L, p.count, p.top, p.firstDynamic), Len(p.stack) \in L
      PROVE  Acc(q.stack, L \ {Len(p.stack)}, q.count, q.top, q.firstDynamic)
  <2>1. \A s \in p.firstDynamic .. MaxFunctionSlots - 1 : p.count[s] \in 0 .. MaxUsageCount
    BY <1>2
  <2>2. \A s \in p.firstDynamic .. MaxFunctionSlots - 1 :
          q.count[s] = IF InDynamic(Last(p.stack), p.firstDynamic) /\ s \in SlotsOf(Last(p.stack))
                       THEN Less(p.count[s]) ELSE p.count[s]
    BY <1>6 DEF x
  <2>3. StackOk(p.stack) /\ Len(p.stack) >= 1 /\ p.top \in Nat /\ p.firstDynamic \in Nat
    BY <1>2, <1>3
  <2>4. Acc(Front(p.stack), L \ {Len(p.stack)}, q.count, p.top, p.firstDynamic)
    BY <1>8, <2>1, <2>2, <2>3, AccFront
  <2> QED
    BY <2>4, <1>1
<1> QED
  BY <1>7, <1>8 DEF Goes, q

\* What is left stays where it is.
LEMMA FrontSpots ==
  ASSUME NEW stack, StackOk(stack), NEW blocks, BlocksOk(blocks), NEW firstConst \in Nat, NEW first,
         Spots(stack, blocks, firstConst, first), Base(blocks) < Len(stack)
  PROVE  Spots(Front(stack), blocks, firstConst, first)
<1>1. /\ Len(stack) \in Nat /\ Base(blocks) \in Nat /\ stack \in Seq(Item)
  BY ScopeFacts DEF StackOk
<1> DEFINE new == Front(stack)
<1>2. Len(new) = Len(stack) - 1 /\ \A i \in 1 .. Len(stack) - 1 : new[i] = stack[i]
  BY <1>1, FrontTyped
<1> HIDE DEF new
<1>3. \A i \in 1 .. Base(blocks) : new[i] = stack[i]
  BY <1>1, <1>2
<1>4. \A i \in Base(blocks) + 1 .. Len(new) :
        new[i].slot \in Nat /\ (new[i].slot >= firstConst \/ (i <= Len(stack) /\ new[i] = stack[i]))
  BY <1>1, <1>2, ItemFacts
<1>5. Len(new) \in Nat /\ Base(blocks) <= Len(new)
  BY <1>1, <1>2
<1> QED
  BY <1>1, <1>3, <1>4, <1>5, SpotsKept DEF new

\* What Pop leaves is counted,
LEMMA PopCounts ==
  ASSUME NEW p, OK(p), Counts(p)
  PROVE  Counts(Pop(p))
<1> DEFINE q == Pop(p)
<1>1. /\ Len(p.stack) \in Nat /\ Base(p.blocks) \in Nat /\ Base(p.blocks) <= Len(p.stack)
      /\ BlockHeight(p) = Len(p.stack) - Base(p.blocks)
  BY Height
<1>2. CASE Len(p.stack) = Base(p.blocks)
  <2>1. q = p \/ q = Fail(p)
    BY <1>1, <1>2 DEF Pop
  <2> QED
    BY <2>1, FailCounts
<1>3. CASE Len(p.stack) > Base(p.blocks)
  <2>1. Goes(p, q)
    BY <1>3, PopGoes
  <2>2. OK(q) /\ Frame(p, q) /\ q.failed = p.failed /\ q.stack = Front(p.stack)
    BY <1>3, PopOne
  <2> HIDE DEF q
  <2>3. Covers(q)
    BY <2>1 DEF Counts, Goes
  <2>4. ASSUME NoSharing, ~q.failed
        PROVE  Accounted(q)
    <3> DEFINE n == Len(p.stack)
    <3>1. Accounted(p)
      BY <2>2, <2>4 DEF Counts
    <3>2. q.blocks = p.blocks /\ q.firstConst = p.firstConst /\ q.firstDynamic = p.firstDynamic
      BY <2>2 DEF Frame
    <3>3. StackOk(p.stack) /\ BlocksOk(p.blocks) /\ p.firstConst \in Nat
      BY DEF OK, Typed
    <3>4. Len(q.stack) = n - 1
      BY <1>1, <1>3, <2>2, <3>3, FrontTyped
    <3>5. LiveIn(p.blocks, n) = LiveIn(p.blocks, n - 1) \cup {n} /\ n \notin LiveIn(p.blocks, n - 1)
      <4>1. /\ n - 1 \in Nat /\ n \in Nat /\ Base(p.blocks) <= n - 1 /\ n - 1 <= n
            /\ (n - 1) + 1 .. n = {n}
        BY <1>1, <1>3
      <4>2. LiveIn(p.blocks, n) = LiveIn(p.blocks, n - 1) \cup (n - 1) + 1 .. n
        BY <3>3, <4>1, LiveAbove
      <4>3. n \notin 1 .. n - 1
        BY <1>1
      <4> QED
        BY <4>1, <4>2, <4>3 DEF LiveIn
    <3> HIDE DEF n
    <3>6. LiveIn(p.blocks, n) \ {n} = LiveIn(p.blocks, n - 1) /\ n \in LiveIn(p.blocks, n)
      BY <3>5
    <3>7. Acc(q.stack, LiveIn(p.blocks, n) \ {n}, q.count, q.top, q.firstDynamic)
      BY <2>1, <3>1, <3>6 DEF Goes, Accounted, n
    <3>8. Spots(q.stack, p.blocks, p.firstConst, p.firstDynamic)
      BY <1>1, <1>3, <2>2, <3>1, <3>3, FrontSpots DEF Accounted
    <3> QED
      BY <3>2, <3>4, <3>6, <3>7, <3>8 DEF Accounted
  <2> QED
    BY <2>3, <2>4 DEF Counts, q
<1> QED
  BY <1>1, <1>2, <1>3

\* so is what many leave.
LEMMA PopNCounts ==
  ASSUME NEW p, OK(p), Counts(p), NEW len \in Nat
  PROVE  Counts(PopN(p, len))
<1>1. PICK f : /\ f[0] = p /\ \A k \in 1 .. len : f[k] = Pop(f[k - 1])
               /\ PopN(p, len) = f[len]
  BY PopNSteps
<1> DEFINE S == {k \in 0 .. len : OK(f[k]) /\ Counts(f[k])}
<1>2. 0 \in S
  BY <1>1
<1>3. ASSUME NEW k \in 1 .. len, k - 1 \in S
      PROVE  k \in S
  <2>1. OK(Pop(f[k - 1])) /\ Counts(Pop(f[k - 1]))
    BY <1>3, PopOK, PopCounts
  <2> QED
    BY <2>1, <1>1
<1> HIDE DEF S
<1>4. \A k \in 0 .. len : k \in S
  BY <1>2, <1>3, UpTo
<1> QED
  BY <1>1, <1>4 DEF S

\* The innermost scope has len values and more behind the n-th.
Behind(p, len, n) == len <= BlockHeight(p) /\ Len(p.stack) = n + len

\* The last values go: only those with an index in L up to n are counted then.
LEMMA PopNGoes ==
  ASSUME NEW p, OK(p), NEW len \in Nat, NEW n \in Nat, Behind(p, len, n),
         NEW L \in SUBSET (1 .. n),
         Acc(p.stack, L \cup n + 1 .. n + len, p.count, p.top, p.firstDynamic)
  PROVE  LET q == PopN(p, len) IN Acc(q.stack, L, q.count, q.top, q.firstDynamic)
<1>1. PICK f : /\ f[0] = p /\ \A k \in 1 .. len : f[k] = Pop(f[k - 1])
               /\ PopN(p, len) = f[len]
  BY PopNSteps
<1> DEFINE In(k) == L \cup n + 1 .. n + len - k
           S == {k \in 0 .. len : /\ OK(f[k]) /\ f[k].blocks = p.blocks /\ Len(f[k].stack) = n + len - k
                                  /\ Acc(f[k].stack, In(k), f[k].count, f[k].top, f[k].firstDynamic)}
<1>6. len <= BlockHeight(p) /\ Len(p.stack) = n + len
  BY DEF Behind
<1>2. 0 \in S
  BY <1>1, <1>6
<1>3. ASSUME NEW k \in 1 .. len, k - 1 \in S
      PROVE  k \in S
  <2> DEFINE y == f[k - 1]  z == f[k]
  <2>1. z = Pop(y)
    BY <1>1
  <2>2. /\ OK(y) /\ y.blocks = p.blocks /\ Len(y.stack) = n + len - (k - 1)
        /\ Acc(y.stack, In(k - 1), y.count, y.top, y.firstDynamic)
    BY <1>3
  <2> HIDE DEF y, z
  <2>3. Base(p.blocks) <= n /\ Base(p.blocks) \in Nat
    BY <1>6, Height
  <2>4. Len(y.stack) > Base(y.blocks)
    BY <2>2, <2>3
  <2>5. OK(z) /\ Frame(y, z) /\ z.stack = Front(y.stack)
    BY <2>1, <2>2, <2>4, PopOne
  <2>6. Len(z.stack) = n + len - k
    <3>1. StackOk(y.stack) /\ Len(y.stack) >= 1
      BY <2>2 DEF OK, Typed
    <3>2. Len(z.stack) = Len(y.stack) - 1
      BY <3>1, <2>5, FrontTyped
    <3> HIDE DEF S
    <3> QED
      BY <3>2, <2>2
  <2>7. Len(y.stack) \in In(k - 1) /\ In(k - 1) \ {Len(y.stack)} = In(k)
    BY <2>2
  <2>8. Goes(y, z)
    BY <2>1, <2>2, <2>4, PopGoes
  <2> HIDE DEF In
  <2>9. Acc(z.stack, In(k), z.count, z.top, z.firstDynamic)
    BY <2>2, <2>7, <2>8 DEF Goes
  <2> QED
    BY <2>2, <2>5, <2>6, <2>9 DEF z, Frame
<1> HIDE DEF S
<1>4. \A k \in 0 .. len : k \in S
  BY <1>2, <1>3, UpTo
<1>5. In(len) = L
  OBVIOUS
<1> QED
  BY <1>1, <1>4, <1>5 DEF S

-----------------------------------------------------------------------------
(* Operations that leave the stack alone                                   *)

\* The stack and the counts stay, and the function may need a larger stack.
Same(p, q) ==
  /\ Frame(p, q) /\ q.failed = p.failed /\ q.stack = p.stack
  /\ q.top <= q.maxSlots /\ q.maxSlots >= p.maxSlots
  /\ Reached(p, q)
  /\ \A s \in p.firstDynamic .. MaxFunctionSlots - 1 :
       q.count[s] = p.count[s] /\ (s >= q.top => s >= p.top \/ p.count[s] = 0)

\* A compilation is counted still if the stack stays, and the counts of the slots
\* that are given out.
LEMMA SameCounts ==
  ASSUME NEW p, OK(p), Counts(p), NEW q, OK(q), Same(p, q)
  PROVE  Counts(q)
<1>1. /\ q.stack = p.stack /\ q.blocks = p.blocks /\ q.firstConst = p.firstConst
      /\ q.firstDynamic = p.firstDynamic /\ q.failed = p.failed
      /\ q.top <= q.maxSlots /\ q.maxSlots >= p.maxSlots
      /\ Reached(p, q)
  BY DEF Frame, Same
<1>2. /\ StackOk(p.stack) /\ Len(p.stack) \in Nat /\ p.top \in Nat /\ q.top \in Nat /\ p.firstDynamic \in Nat
  BY CountFacts
<1>3. Covers(q)
  <2>1. \A i \in 1 .. Len(q.stack) : i <= Len(p.stack) /\ q.stack[i] = p.stack[i]
    BY <1>1, <1>2
  <2>2. Covers(p)
    BY DEF Counts
  <2> QED
    BY <1>1, <2>1, <2>2, CoversMore
<1>4. ASSUME NoSharing, ~q.failed
      PROVE  Accounted(q)
  <2>1. Accounted(p)
    BY <1>1, <1>4 DEF Counts
  <2> DEFINE L == LiveIn(p.blocks, Len(p.stack))
  <2>2. Acc(p.stack, L, p.count, p.top, p.firstDynamic)
    BY <2>1 DEF Accounted
  <2> HIDE DEF L
  <2>3. Whole(p.stack, p.firstDynamic) /\ L \in SUBSET (1 .. Len(p.stack))
    BY <2>2 DEF Acc
  <2>4. \A s \in p.firstDynamic .. MaxFunctionSlots - 1 :
          q.count[s] = p.count[s] /\ (s >= q.top => s >= p.top \/ p.count[s] = 0)
    BY DEF Same
  <2>5. Acc(p.stack, L, q.count, q.top, p.firstDynamic)
    BY <1>2, <2>2, <2>3, <2>4, AccKept
  <2> QED
    BY <1>1, <2>1, <2>5 DEF Accounted, L
<1> QED
  BY <1>3, <1>4 DEF Counts

\* Who leaves the counts alone, too.
LEMMA QuietSame ==
  ASSUME NEW p, OK(p), Counts(p), NEW q, Close(p, q), Quiet(p, q)
  PROVE  OK(q) /\ Counts(q)
BY CloseOK, QuietCounts

\* Writing words,
LEMMA WriteCounts ==
  ASSUME NEW p, OK(p), Counts(p), NEW address, NEW words
  PROVE  Counts(Write(p, address, words)) /\ OK(Write(p, address, words))
<1>1. Typed(p) /\ DOMAIN p = Fields
  BY DEF OK, Typed
<1>2. p.maxSlots \in Nat
  BY CountFacts
<1>3. \A mem : Quiet(p, [p EXCEPT !.mem = mem])
  BY <1>1, <1>2 DEF Quiet, Reached, Fields
<1>4. Quiet(p, p)
  BY <1>2 DEF Quiet, Reached
<1>5. Quiet(p, [p EXCEPT !.mem = Overwrite(@, address, words)])
  BY <1>3
<1>6. Quiet(p, Write(p, address, words))
  BY <1>4, <1>5 DEF Write
<1>7. Close(p, Write(p, address, words))
  BY <1>1, WriteClose
<1> QED
  BY <1>6, <1>7, QuietSame

\* reading operands,
LEMMA ObserveCounts ==
  ASSUME NEW p, OK(p), Counts(p), NEW got, NEW expected
  PROVE  Counts(Observe(p, got, expected)) /\ OK(Observe(p, got, expected))
<1>1. Typed(p) /\ DOMAIN p = Fields
  BY DEF OK, Typed
<1>2. p.maxSlots \in Nat
  BY CountFacts
<1>3. \A x : Quiet(p, [p EXCEPT !.misread = x])
  BY <1>1, <1>2 DEF Quiet, Reached, Fields
<1>4. Quiet(p, Observe(p, got, expected))
  BY <1>3 DEF Observe
<1>5. Close(p, Observe(p, got, expected))
  BY <1>1, ObserveClose
<1> QED
  BY <1>4, <1>5, QuietSame

\* and giving a new value its words.
LEMMA ResultCounts ==
  ASSUME NEW p, OK(p), Counts(p), NEW words
  PROVE  Counts(Result(p, words)) /\ OK(Result(p, words))
BY WriteCounts DEF Result

\* An operation may write as far as the end of the margin behind maxStackSlots,
\* and to the frames of calls.
InReach(p, end) == end <= p.maxSlots + StackMargin \/ end <= Limit(p.maxSlots, p.values)

\* That is not beyond the limit.
LEMMA InReachWithin ==
  ASSUME NEW p, p.maxSlots \in Nat, p.values \in Nat, NEW end \in Nat, InReach(p, end)
  PROVE  Within(end, p.maxSlots, p.values)
<1> DEFINE l == Limit(p.maxSlots, p.values)
<1>1. /\ l \in Nat /\ p.maxSlots + StackMargin <= l /\ StackMargin \in Nat
  <2>1. p.maxSlots <= p.maxSlots /\ p.values <= p.values
    OBVIOUS
  <2> QED
    BY <2>1, LimitGrows DEF StackMargin
<1>2. end <= p.maxSlots + StackMargin \/ end <= l
  BY DEF InReach
<1> HIDE DEF l
<1>3. end \in 0 .. l
  BY <1>1, <1>2
<1> QED
  BY <1>3 DEF Within, l

\* There it may.
LEMMA WriteSlotCounts ==
  ASSUME NEW p, OK(p), Counts(p), NEW dest \in Nat, NEW words, Len(words) \in Nat,
         dest + Len(words) <= Reg0, InReach(p, dest + Len(words))
  PROVE  Counts(WriteSlot(p, dest, words)) /\ OK(WriteSlot(p, dest, words))
<1> DEFINE end == dest + Len(words)
           noted == IF end <= Max({p.reach, p.maxSlots + StackMargin}) THEN p
                    ELSE [p EXCEPT !.reach = end]
<1>1. Typed(p) /\ DOMAIN p = Fields
  BY DEF OK, Typed
<1>2. p.maxSlots \in Nat /\ p.values \in Nat
  BY CountFacts DEF Counts, Covers, Within
<1>3. WriteSlot(p, dest, words) = Write(noted, dest, words)
  <2>1. ~(dest + Len(words) > Reg0)
    BY Numbers
  <2> QED
    BY <2>1 DEF WriteSlot
<1>4. Close(p, noted)
  <2>1. Close(p, p) /\ \A x : Close(p, [p EXCEPT !.reach = x])
    BY <1>1 DEF Close, Frame, Typed, Fields
  <2> QED
    BY <2>1
<1>5. Quiet(p, noted)
  <2>1. /\ noted.count = p.count /\ noted.top = p.top /\ noted.maxSlots = p.maxSlots
        /\ noted.values = p.values /\ noted.reach \in {p.reach, end}
    BY <1>1 DEF Fields
  <2> HIDE DEF noted
  <2>2. Within(end, p.maxSlots, p.values)
    BY <1>2, InReachWithin
  <2>3. Reached(p, noted)
    BY <2>1, <2>2 DEF Reached
  <2> QED
    BY <1>2, <2>1, <2>3 DEF Quiet
<1> HIDE DEF noted
<1>6. OK(noted) /\ Counts(noted)
  BY <1>4, <1>5, QuietSame
<1> QED
  BY <1>3, <1>6, WriteCounts

\* CopyStackIndexToSlot writes to a slot that is covered.
LEMMA CopyCounts ==
  ASSUME NEW p, OK(p), Counts(p), NEW dest \in Nat, NEW i, NEW end,
         end = dest + GetTypeNumSlots(p.stack[i].type),
         end <= Reg0, InReach(p, end)
  PROVE  Counts(CopyToSlot(p, dest, i)) /\ OK(CopyToSlot(p, dest, i))
<1> DEFINE words == Read(p, p.stack[i])
<1>1. Len(words) \in Nat /\ dest + Len(words) = end
  BY ReadLength, Types
<1> HIDE DEF words
<1>2. dest + Len(words) <= Reg0 /\ InReach(p, dest + Len(words))
  BY <1>1
<1> QED
  BY <1>1, <1>2, WriteSlotCounts DEF CopyToSlot, words

-----------------------------------------------------------------------------
(* Constants, locals, and the results of calls                             *)

\* A value that is already in the slot of a constant, or in that of a local.
LEMMA ReferenceCounts ==
  ASSUME NEW p, OK(p), Counts(p), NEW t \in ValueType, NEW slot \in Nat,
         slot + GetTypeNumSlots(t) <= p.firstDynamic,
         ~p.failed /\ slot < p.firstConst =>
           \E j \in 1 .. NumLocals : [type |-> t, slot |-> slot] = p.stack[j],
         NoSharing => FirstReference(p.stack, [type |-> t, slot |-> slot], p.firstConst)
  PROVE  Counts(Push(p, t, slot)) /\ OK(Push(p, t, slot))
<1> DEFINE q == Push(p, t, slot)  x == [type |-> t, slot |-> slot]
<1>1. slot + GetTypeNumSlots(t) <= MaxFunctionSlots
  BY CountFacts, Numbers, Types
<1>2. OK(q) /\ Frame(p, q) /\ Pushed(p, q, x)
  BY <1>1, PushSlot
<1>3. Comes(p, q)
  BY <1>2, PlainPush
<1>4. NoSharing => FirstReference(p.stack, x, p.firstConst)
  OBVIOUS
<1> HIDE DEF q, x
<1> QED
  BY <1>2, <1>3, <1>4, ComesCounts DEF q

\* What PushConst makes of the compilation before the push.
WithConstant(p, slot, t, mem) ==
  [MarkSlotsAllocated(p, slot, t) EXCEPT
      !.constEnd = Max({@, slot + GetTypeNumSlots(t)}), !.mem = mem]

\* Marking the slot of a constant changes no count of a slot that is given out.
LEMMA MarkConstantCounts ==
  ASSUME NEW p, OK(p), Counts(p), NEW t \in ValueType, NEW slot \in Nat, slot >= p.firstConst,
         slot + GetTypeNumSlots(t) <= p.firstDynamic, NEW mem,
         NEW q, q = WithConstant(p, slot, t, mem)
  PROVE  OK(q) /\ Frame(p, q) /\ q.stack = p.stack /\ q.failed = p.failed /\ Counts(q)
<1>1. OK(q) /\ Frame(p, q) /\ q.stack = p.stack
  BY ZenonT(40), MarkConstant DEF WithConstant
<1> DEFINE m == MarkSlotsAllocated(p, slot, t)  end == slot + GetTypeNumSlots(t)
<1>2. /\ p.firstDynamic \in Nat /\ p.firstDynamic <= p.top /\ p.firstDynamic <= MaxFunctionSlots
      /\ p.top \in Nat /\ p.maxSlots \in Nat
  BY CountFacts
<1>3. end \in Nat /\ end <= p.firstDynamic /\ end <= MaxFunctionSlots
  <2>1. end \in Nat /\ end <= p.firstDynamic
    BY Types
  <2> HIDE DEF end
  <2> QED
    BY <2>1, <1>2, Numbers
<1>4. /\ Close(p, m) /\ m.reach = p.reach /\ m.values = p.values
      /\ m.top = (IF p.top >= end THEN p.top ELSE end)
      /\ m.maxSlots = (IF p.maxSlots >= end THEN p.maxSlots ELSE end)
      /\ \A s \in 0 .. MaxFunctionSlots - 1 : m.count[s] = IF slot <= s /\ s < end THEN 1 ELSE p.count[s]
  BY <1>3, MarkFacts DEF OK
<1>5. DOMAIN m = Fields
  BY <1>4 DEF Close, Typed
<1> HIDE DEF m
<1>6. /\ q.top = m.top /\ q.maxSlots = m.maxSlots /\ q.reach = m.reach /\ q.values = m.values /\ q.count = m.count
      /\ q.failed = m.failed
  <2>1. q = [m EXCEPT !.constEnd = Max({@, slot + GetTypeNumSlots(t)}), !.mem = mem]
    BY DEF m, WithConstant
  <2> QED
    BY <2>1, <1>5 DEF Fields
<1> HIDE DEF end
<1>7. q.failed = p.failed
  BY <1>4, <1>6 DEF Close
<1>8. p.top <= p.maxSlots
  BY DEF Counts, Covers
<1>9. \A s \in p.firstDynamic .. MaxFunctionSlots - 1 : q.count[s] = p.count[s] /\ q.top = p.top
  BY <1>2, <1>3, <1>4, <1>6
<1>10. q.top <= q.maxSlots /\ q.maxSlots >= p.maxSlots
  BY <1>2, <1>3, <1>4, <1>6, <1>8
<1>11. Same(p, q)
  BY <1>1, <1>4, <1>6, <1>7, <1>9, <1>10 DEF Same, Reached
<1> QED
  BY <1>1, <1>7, <1>11, SameCounts

\* A constant comes to a slot of its own, or to one for constants, and is counted
\* in the first case.
LEMMA ConstantCounts ==
  ASSUME NEW p, OK(p), Counts(p), NEW t \in ValueType, NEW words
  PROVE  Counts(Constant(p, t, words))
<1> DEFINE n == GetTypeNumSlots(t)
           first == AlignSlotToType(p.firstConst, t)
           match == {s \in first .. p.constEnd - n :
                    /\ n = 2 => s % 2 = 0
                    /\ n = 1 => Head(words) \notin NegativeWords
                    /\ \A k \in 1 .. n : p.count[s + k - 1] # 0 /\ p.mem[s + k - 1] = words[k]}
           end == Min({p.firstDynamic, p.firstConst + MaxConstantTable})
           slot == FreeSlot(p, t, p.firstConst, end)
           allocated == Result(PushAllocatedSlot(p, t), words)
           marked == [MarkSlotsAllocated(p, slot, t) EXCEPT
                        !.constEnd = Max({@, slot + n}), !.mem = Overwrite(@, slot, words)]
           q == Constant(p, t, words)
<1>1. q = IF match # {} THEN Push(p, t, Min(match))
          ELSE IF slot = SlotUnused THEN allocated ELSE Push(marked, t, slot)
  BY DEF Constant
<1>2. /\ Typed(p) /\ Bounds(p) /\ p.firstDynamic \in Nat /\ p.constEnd \in Nat /\ p.firstConst \in Nat
      /\ n \in 1 .. 2 /\ p.firstConst <= p.constEnd /\ p.constEnd <= p.firstDynamic
      /\ p.firstDynamic <= MaxFunctionSlots
  BY Types DEF OK, Typed, Bounds
<1> HIDE DEF q
<1>3. CASE match # {}
  <2> DEFINE s == Min(match)
  <2>1. first \in Nat /\ p.firstConst <= first
    BY <1>2, Even
  <2>2. s \in match
    <3>1. match \subseteq first .. p.constEnd - n /\ p.constEnd - n \in Int
      BY <1>2
    <3> HIDE DEF match, first, n
    <3> QED
      BY <3>1, <2>1, <1>3, LeastInRange
  <2>3. s \in first .. p.constEnd - n
    <3> HIDE DEF s
    <3> QED
      BY <2>2
  <2> HIDE DEF s, first, n, match
  <2>4. s \in Nat /\ s >= p.firstConst /\ ~(s < p.firstConst) /\ s + n <= p.firstDynamic
    BY <2>1, <2>3, <1>2, Numbers
  <2>5. q = Push(p, t, s)
    BY <1>1, <1>3 DEF s
  <2>6. FirstReference(p.stack, [type |-> t, slot |-> s], p.firstConst)
    BY <2>4 DEF FirstReference
  <2> QED
    BY <2>4, <2>5, <2>6, ReferenceCounts DEF q, n
<1>4. CASE match = {} /\ slot = SlotUnused
  <2>1. q = allocated
    BY <1>1, <1>4
  <2>2. OK(PushAllocatedSlot(p, t)) /\ Counts(PushAllocatedSlot(p, t))
    BY PushAllocated, AllocatedCounts
  <2> QED
    BY <2>1, <2>2, ResultCounts DEF q
<1>5. CASE match = {} /\ slot # SlotUnused
  <2> HIDE DEF match
  <2>1. end \in Nat /\ end <= p.firstDynamic
    <3>1. p.firstConst + MaxConstantTable \in Nat
      BY <1>2, Numbers
    <3>2. end = IF p.firstDynamic <= p.firstConst + MaxConstantTable THEN p.firstDynamic
                ELSE p.firstConst + MaxConstantTable
      BY <3>1, <1>2, MinOfTwo
    <3> HIDE DEF end
    <3> QED
      BY <3>1, <3>2, <1>2
  <2> HIDE DEF end
  <2>2. end \in Int /\ end <= MaxFunctionSlots
    BY <2>1, <1>2, Numbers
  <2>3. slot \in Nat /\ p.firstConst <= slot /\ slot + n <= end
    BY <2>2, <1>2, <1>5, FreeSlotFacts
  <2> HIDE DEF slot
  <2>4. slot + n <= p.firstDynamic
    BY <2>1, <2>3, <1>2
  <2> DEFINE c == MarkSlotsAllocated(p, slot, t)
             mem == Overwrite(c.mem, slot, words)
             a == WithConstant(p, slot, t, mem)
  <2>5. OK(a) /\ Frame(p, a) /\ Counts(a)
    <3> HIDE DEF mem
    <3> QED
      BY <2>3, <2>4, <1>2, MarkConstantCounts
  <2>6. a = marked
    BY DEF WithConstant
  <2> HIDE DEF a, marked, n
  <2>7. slot + n <= a.firstDynamic /\ slot >= a.firstConst /\ ~(slot < a.firstConst)
    <3>1. a.firstConst = p.firstConst /\ a.firstDynamic = p.firstDynamic
      BY <2>5 DEF Frame
    <3> QED
      BY <3>1, <2>3, <2>4, <1>2, Numbers
  <2>8. FirstReference(a.stack, [type |-> t, slot |-> slot], a.firstConst)
    BY <2>7 DEF FirstReference
  <2>9. Counts(Push(a, t, slot))
    BY <2>3, <2>5, <2>7, <2>8, ReferenceCounts DEF n
  <2>10. q = Push(a, t, slot)
    BY <1>1, <1>5, <2>6
  <2> QED
    BY <2>9, <2>10 DEF q
<1> QED
  BY <1>3, <1>4, <1>5

-----------------------------------------------------------------------------
(* Items that move                                                         *)

\* If nothing failed, items went to slots that are given out, or stayed.
Lifted(p, q) ==
  ~q.failed => /\ Len(q.stack) = Len(p.stack)
               /\ \A i \in 1 .. Len(p.stack) :
                    q.stack[i] = p.stack[i] \/ InDynamic(q.stack[i], p.firstDynamic)

\* What is lifted twice is lifted.
LEMMA LiftedTwice ==
  ASSUME NEW p, NEW q, NEW s, Lifted(p, q), Lifted(q, s), Frame(p, q), Frame(q, s)
  PROVE  Lifted(p, s)
<1>1. q.firstDynamic = p.firstDynamic /\ (~s.failed => ~q.failed)
  BY DEF Frame
<1> QED
  BY <1>1 DEF Lifted

\* In the slots from slot up to end there is no value, and all values of J have the type for them.
MayLift(p, J, t, slot, end) ==
  /\ slot \in Nat /\ slot >= p.firstDynamic /\ end = slot + GetTypeNumSlots(t) /\ end <= MaxFunctionSlots
  /\ p.count[slot] = 0 /\ p.count[end - 1] = 0
  /\ \A j \in J : j \in 1 .. Len(p.stack) => p.stack[j].type = t

\* The values of J are in these slots, and those are counted once for each of them.
Lift(p, J, slot, end, q) ==
  /\ Frame(p, q) /\ q.stack = Redirected(p.stack, J, slot)
  /\ q.top >= p.top /\ q.top >= end /\ q.top <= q.maxSlots /\ q.maxSlots >= p.maxSlots
  /\ Reached(p, q)
  /\ NoSharing /\ ~q.failed =>
       /\ ~p.failed
       /\ \A j \in J : j \in Base(p.blocks) + 1 .. Len(p.stack) /\ ~InDynamic(p.stack[j], p.firstDynamic)
       /\ \A s \in p.firstDynamic .. MaxFunctionSlots - 1 :
            q.count[s] = IF slot <= s /\ s < end THEN Cardinality(J) ELSE p.count[s]

\* The stack after the items J moved to x.
Redirection(p, J, new, x, end) ==
  /\ StackOk(new) /\ Len(new) = Len(p.stack)
  /\ x \in Item /\ Ends(x) = end /\ end \in Nat /\ x.slot < end /\ InDynamic(x, p.firstDynamic)
  /\ \A j \in 1 .. Len(p.stack) : (j \in J => new[j] = x) /\ (j \notin J => new[j] = p.stack[j])

\* What a lift makes of the stack.
LEMMA LiftedStack ==
  ASSUME NEW p, OK(p), NEW J, NEW t \in ValueType, NEW slot, NEW end, MayLift(p, J, t, slot, end),
         NEW new, new = Redirected(p.stack, J, slot), NEW x, x = [type |-> t, slot |-> slot]
  PROVE  Redirection(p, J, new, x, end)
<1>1. StackOk(p.stack) /\ slot \in Nat /\ \A i \in 1 .. Len(p.stack) : p.stack[i] \in Item
  BY CountFacts, Height DEF MayLift
<1>2. \A j \in J \cap 1 .. Len(p.stack) : slot + GetTypeNumSlots(p.stack[j].type) <= MaxFunctionSlots
  BY DEF MayLift
<1>3. /\ StackOk(new) /\ Len(new) = Len(p.stack)
      /\ \A j \in 1 .. Len(p.stack) :
              /\ new[j].type = p.stack[j].type
              /\ new[j].slot = IF j \in J THEN slot ELSE p.stack[j].slot
              /\ j \notin J => new[j] = p.stack[j]
              /\ j \in J => InSlots(new[j])
  BY <1>1, <1>2, MovedStack
<1>4. \A j \in 1 .. Len(p.stack) : new[j] \in Item
  BY <1>3 DEF StackOk
<1>5. ASSUME NEW j \in 1 .. Len(p.stack), j \in J
      PROVE  new[j] = x
  <2>1. new[j].slot = slot /\ new[j].type = t
    BY <1>3, <1>5 DEF MayLift
  <2> QED
    BY <1>4, <2>1 DEF Item
<1>6. x \in Item /\ x.slot = slot /\ x.type = t
  BY <1>1 DEF Item
<1>7. Ends(x) = end /\ end \in Nat /\ slot < end
  <2>1. Ends(x) = end
    BY <1>6 DEF MayLift, Ends
  <2>2. Ends(x) \in Nat /\ x.slot < Ends(x)
    BY <1>6, SlotsOfItem
  <2> QED
    BY <1>6, <2>1, <2>2
<1>8. InDynamic(x, p.firstDynamic)
  <2>1. slot >= p.firstDynamic /\ end <= MaxFunctionSlots
    BY DEF MayLift
  <2> QED
    BY <1>1, <1>6, <1>7, <2>1, Numbers DEF InDynamic
<1> QED
  BY <1>3, <1>5, <1>6, <1>7, <1>8 DEF Redirection

\* Items that move to slots of their own are counted there.
LEMMA LiftCounts ==
  ASSUME NEW p, OK(p), Counts(p), NEW J, NEW t \in ValueType, NEW slot, NEW end,
         MayLift(p, J, t, slot, end), NEW q, OK(q), Lift(p, J, slot, end, q)
  PROVE  Counts(q) /\ Lifted(p, q)
<1> DEFINE x == [type |-> t, slot |-> slot]  first == p.firstDynamic
<1>1. x = [type |-> t, slot |-> slot]
  OBVIOUS
<1> HIDE DEF x, first
<1>2. q.stack = Redirected(p.stack, J, slot)
  BY DEF Lift
<1>3a. Redirection(p, J, q.stack, x, end)
  BY <1>1, <1>2, LiftedStack
<1> USE DEF first
<1>3. /\ StackOk(q.stack) /\ Len(q.stack) = Len(p.stack)
      /\ x \in Item /\ Ends(x) = end /\ end \in Nat /\ slot < end /\ InDynamic(x, first)
      /\ \A j \in 1 .. Len(p.stack) : (j \in J => q.stack[j] = x) /\ (j \notin J => q.stack[j] = p.stack[j])
  BY <1>1, <1>3a DEF Redirection
<1>4. x.slot = slot
  BY <1>1
<1>5. /\ p.top \in Nat /\ first \in Nat /\ StackOk(p.stack) /\ Len(p.stack) \in Nat /\ q.top \in Nat
      /\ p.firstConst \in Nat /\ p.firstConst <= first /\ slot \in Nat /\ slot >= first
  BY CountFacts DEF MayLift
<1>6. /\ Frame(p, q) /\ q.blocks = p.blocks /\ q.firstConst = p.firstConst /\ q.firstDynamic = first
      /\ q.top >= p.top /\ q.top >= end /\ q.top <= q.maxSlots /\ q.maxSlots >= p.maxSlots
      /\ Reached(p, q)
  BY DEF Lift, Frame
<1>7. Lifted(p, q)
  BY <1>3 DEF Lifted
<1>8. Covers(q)
  <2>1. q.maxSlots \in Nat
    BY CountFacts
  <2>2. Ends(x) <= q.maxSlots
    BY <1>3, <1>5, <1>6, <2>1
  <2>3. \A i \in 1 .. Len(q.stack) :
          (i <= Len(p.stack) /\ q.stack[i] = p.stack[i]) \/ Ends(q.stack[i]) <= q.maxSlots
    BY <1>3, <1>5, <2>2
  <2>4. Covers(p)
    BY DEF Counts
  <2> QED
    BY <1>6, <2>3, <2>4, CoversMore
<1>9. ASSUME NoSharing, ~q.failed
      PROVE  Accounted(q)
  <2>1. /\ ~p.failed
        /\ \A j \in J : j \in Base(p.blocks) + 1 .. Len(p.stack) /\ ~InDynamic(p.stack[j], first)
        /\ \A s \in first .. MaxFunctionSlots - 1 :
             q.count[s] = IF slot <= s /\ s < end THEN Cardinality(J) ELSE p.count[s]
    BY <1>9 DEF Lift
  <2>2. Accounted(p)
    BY <1>9, <2>1 DEF Counts
  <2> DEFINE L == LiveIn(p.blocks, Len(p.stack))  C == CountedIn(p.stack, L, first)
  <2>3. Acc(p.stack, L, p.count, p.top, first) /\ L \in SUBSET (1 .. Len(p.stack)) /\ Whole(p.stack, first)
    BY <2>2 DEF Accounted, Acc
  <2>4. /\ BlocksOk(p.blocks) /\ Base(p.blocks) \in Nat /\ Base(p.blocks) <= Len(p.stack)
    BY ScopeFacts DEF OK
  <2>5. Base(p.blocks) + 1 .. Len(p.stack) \subseteq L
    BY <1>5, <2>4, LiveAbove
  <2>6. J \in SUBSET (1 .. Len(p.stack)) /\ J \subseteq L
    <3>1. \A j \in Base(p.blocks) + 1 .. Len(p.stack) : j \in 1 .. Len(p.stack)
      BY <1>5, <2>4
    <3> HIDE DEF L
    <3> QED
      BY <2>1, <2>5, <3>1
  <2> HIDE DEF L
  <2>7. J \cap C = {}
    BY <2>1 DEF CountedIn
  <2>8. CountedIn(q.stack, L, first) = C \cup J
    <3>1. \A i \in L : InDynamic(q.stack[i], first) <=> i \in J \/ InDynamic(p.stack[i], first)
      BY <1>3, <2>3
    <3> QED
      BY <3>1, <2>6 DEF CountedIn
  <2>9. \A i \in C : q.stack[i] = p.stack[i]
    BY <1>3, <2>3, <2>7 DEF CountedIn
  <2> HIDE DEF C
  <2>10. \A j \in J : q.stack[j] = x
    BY <1>3, <2>6
  <2>11. Whole(q.stack, first)
    <3>1. ~(x.slot < first)
      BY <1>4, <1>5
    <3> QED
      BY <1>3, <2>3, <3>1 DEF Whole
  <2>12. \A s \in x.slot .. Ends(x) - 1 : p.count[s] = 0
    <3>1. /\ p.count[slot] = 0 /\ p.count[end - 1] = 0 /\ GetTypeNumSlots(t) \in 1 .. 2
          /\ end = slot + GetTypeNumSlots(t)
      BY Types DEF MayLift
    <3>2. end = slot + 1 \/ end = slot + 2
      BY <3>1
    <3>3. \A s \in slot .. end - 1 : s = slot \/ s = end - 1
      BY <1>5, <3>2
    <3> QED
      BY <1>3, <1>4, <3>1, <3>3
  <2>13. \A s \in first .. MaxFunctionSlots - 1 :
           q.count[s] = IF x.slot <= s /\ s < Ends(x) THEN Cardinality(J) ELSE p.count[s]
    BY <1>3, <1>4, <2>1
  <2>14. /\ L \in SUBSET (1 .. Len(q.stack)) /\ J \in SUBSET (1 .. Len(q.stack))
    BY <1>3, <2>3, <2>6
  <2>15. q.top >= Ends(x) /\ q.top >= p.top
    BY <1>3, <1>6
  <2>16. CountedIn(q.stack, L, first) = CountedIn(p.stack, L, first) \cup J
         /\ J \cap CountedIn(p.stack, L, first) = {}
         /\ \A i \in CountedIn(p.stack, L, first) : q.stack[i] = p.stack[i]
    BY <2>7, <2>8, <2>9 DEF C
  <2> HIDE DEF first
  <2>17. Acc(q.stack, L, q.count, q.top, first)
    <3>1. /\ StackOk(p.stack) /\ p.top \in Nat /\ first \in Nat /\ q.top \in Nat
          /\ StackOk(q.stack) /\ x \in Item /\ InDynamic(x, first)
          /\ Acc(p.stack, L, p.count, p.top, first)
      BY <1>3, <1>5, <2>3
    <3>2. /\ Whole(q.stack, first) /\ L \in SUBSET (1 .. Len(q.stack)) /\ J \in SUBSET (1 .. Len(q.stack))
          /\ q.top >= p.top /\ q.top >= Ends(x)
      BY <2>11, <2>14, <2>15
    <3>3. \A j \in J : q.stack[j] = x
      BY <2>10
    <3>4. \A s \in x.slot .. Ends(x) - 1 : p.count[s] = 0
      BY <2>12
    <3>5. \A s \in first .. MaxFunctionSlots - 1 :
           q.count[s] = IF x.slot <= s /\ s < Ends(x) THEN Cardinality(J) ELSE p.count[s]
      BY <2>13
    <3>6. Added(p.stack, L, p.count, p.top, first, q.stack, L, J, x, q.count, q.top)
      BY <3>1, <3>2, <3>3, <3>4, <3>5, <2>16 DEF Added
    <3> QED
      BY <3>6, AccAdded
  <2>18. Spots(q.stack, p.blocks, p.firstConst, first)
    <3>1. Spots(p.stack, p.blocks, p.firstConst, first)
      BY <2>2 DEF Accounted, first
    <3>2. \A i \in 1 .. Base(p.blocks) : q.stack[i] = p.stack[i]
      <4>1. \A i \in 1 .. Base(p.blocks) : i \in 1 .. Len(p.stack) /\ i \notin Base(p.blocks) + 1 .. Len(p.stack)
        BY <1>5, <2>4
      <4> QED
        BY <4>1, <1>3, <2>1
    <3>3. \A i \in Base(p.blocks) + 1 .. Len(q.stack) :
            q.stack[i].slot \in Nat /\ (q.stack[i].slot >= p.firstConst \/ (i <= Len(p.stack) /\ q.stack[i] = p.stack[i]))
      <4>1. \A i \in Base(p.blocks) + 1 .. Len(q.stack) : i \in 1 .. Len(p.stack) /\ i <= Len(p.stack)
        BY <1>3, <1>5, <2>4
      <4>2. \A i \in 1 .. Len(p.stack) : q.stack[i] \in Item
        BY <1>3 DEF StackOk
      <4>3. x.slot >= p.firstConst
        BY <1>4, <1>5
      <4>4. \A i \in 1 .. Len(p.stack) : q.stack[i].slot \in Nat
        BY <4>2 DEF Item
      <4> QED
        BY <4>1, <4>3, <4>4, <1>3
    <3> QED
      BY <1>3, <1>5, <2>4, <3>1, <3>2, <3>3, SpotsKept
  <2> QED
    BY <1>3, <1>6, <2>17, <2>18 DEF Accounted, L, first
<1> QED
  BY <1>7, <1>8, <1>9 DEF Counts

\* Writing words changes the words only.
Alike(p, q) ==
  /\ DOMAIN q = Fields /\ q.stack = p.stack /\ q.reg = p.reg /\ q.top = p.top /\ q.maxSlots = p.maxSlots
  /\ q.count = p.count /\ q.firstConst = p.firstConst /\ q.constEnd = p.constEnd
  /\ q.firstDynamic = p.firstDynamic /\ q.blocks = p.blocks /\ q.skip = p.skip /\ q.to = p.to
  /\ q.failed = p.failed /\ q.ignored = p.ignored /\ q.reach = p.reach /\ q.values = p.values

\* A write does not count.
LEMMA WriteAlike ==
  ASSUME NEW p, DOMAIN p = Fields, NEW address, NEW words, NEW q, q = Write(p, address, words)
  PROVE  Alike(p, q)
<1>1. \A mem : Alike(p, [p EXCEPT !.mem = mem])
  BY DEF Alike, Fields
<1>2. Alike(p, [p EXCEPT !.mem = Overwrite(@, address, words)])
  BY <1>1
<1>3. Alike(p, p)
  BY DEF Alike
<1> QED
  BY <1>2, <1>3 DEF Write

\* A slot that is found is free.
LEMMA FoundSlot ==
  ASSUME NEW p, OK(p), NEW t, NEW s, s # SlotUnused,
         s = FreeSlot(p, t, p.firstDynamic, MaxFunctionSlots)
  PROVE  /\ s \in Nat /\ p.firstDynamic <= s /\ s + GetTypeNumSlots(t) <= MaxFunctionSlots
         /\ p.count[s] = 0 /\ p.count[s + GetTypeNumSlots(t) - 1] = 0
<1>1. Typed(p) /\ p.firstDynamic \in Nat /\ MaxFunctionSlots \in Int /\ MaxFunctionSlots <= MaxFunctionSlots
  BY CountFacts, Numbers DEF OK
<1>2. LET a == FreeSlot(p, t, p.firstDynamic, MaxFunctionSlots) IN
      \/ a = SlotUnused
      \/ /\ a \in Nat /\ p.firstDynamic <= a /\ a + GetTypeNumSlots(t) <= MaxFunctionSlots
         /\ p.count[a] = 0 /\ p.count[a + GetTypeNumSlots(t) - 1] = 0
         /\ a % GetTypeNumSlots(t) = 0
  BY <1>1, FreeSlotFacts
<1> QED
  BY <1>2

\* The slots for an item that moves: also when it is not on the stack, after an error.
LEMMA RoomForOne ==
  ASSUME NEW p, OK(p), NEW i, NEW t, NEW s, s # SlotUnused,
         s = FreeSlot(p, t, p.firstDynamic, MaxFunctionSlots),
         i \in 1 .. Len(p.stack) => t = p.stack[i].type
  PROVE  \E u \in ValueType : /\ MayLift(p, {i}, u, s, s + GetTypeNumSlots(u))
                              /\ GetTypeNumSlots(u) <= GetTypeNumSlots(t)
                              /\ i \in 1 .. Len(p.stack) => u = t
<1>1. /\ s \in Nat /\ p.firstDynamic <= s /\ s + GetTypeNumSlots(t) <= MaxFunctionSlots
      /\ p.count[s] = 0 /\ p.count[s + GetTypeNumSlots(t) - 1] = 0
  BY FoundSlot
<1>2. p.firstDynamic \in Nat /\ MaxFunctionSlots \in Nat
  BY CountFacts, Numbers
<1>3. CASE i \in 1 .. Len(p.stack)
  <2>1. t \in ValueType
    BY <1>3, InSlotsOrRegister
  <2>2. MayLift(p, {i}, t, s, s + GetTypeNumSlots(t))
    BY <1>1, <1>2, <1>3, Types DEF MayLift
  <2>3. GetTypeNumSlots(t) <= GetTypeNumSlots(t)
    BY Types
  <2> QED
    BY <2>1, <2>2, <2>3
<1>4. CASE i \notin 1 .. Len(p.stack)
  <2>1. "i32" \in ValueType /\ GetTypeNumSlots("i32") = 1
    BY DEF ValueType, GetTypeNumSlots, Is64BitType
  <2>2. GetTypeNumSlots(t) \in 1 .. 2
    BY Types
  <2>3. s + 1 <= MaxFunctionSlots /\ s + 1 - 1 = s
    BY <1>1, <1>2, <2>2
  <2>4. MayLift(p, {i}, "i32", s, s + GetTypeNumSlots("i32"))
    BY <1>1, <1>2, <1>4, <2>1, <2>3 DEF MayLift
  <2> QED
    BY <1>4, <2>1, <2>2, <2>4
<1> QED
  BY <1>3, <1>4

\* The item in a register goes to a slot,
LEMMA PreserveRegisterCounts ==
  ASSUME NEW p, OK(p), Counts(p), NEW r \in Registers
  PROVE  LET q == PreserveRegisterIfOccupied(p, r) IN Counts(q) /\ Lifted(p, q)
<1> DEFINE i == p.reg[r]
           t == p.stack[i].type
           s == FreeSlot(p, t, p.firstDynamic, MaxFunctionSlots)
           m == MarkSlotsAllocated(p, s, t)
           moved == [m EXCEPT !.reg[r] = 0, !.stack[i].slot = s]
           q == PreserveRegisterIfOccupied(p, r)
<1>1. q = IF i = 0 THEN p
          ELSE IF s = SlotUnused THEN Fail(p) ELSE Write(moved, s, Read(p, p.stack[i]))
  BY DEF PreserveRegisterIfOccupied, AllocateSlots
<1>a. OK(q) /\ Frame(p, q)
  BY PreserveRegister
<1> HIDE DEF q
<1>2. CASE i = 0
  BY <1>1, <1>2 DEF Lifted, q
<1>3. CASE i # 0 /\ s = SlotUnused
  <2>1. q = Fail(p)
    BY <1>1, <1>3
  <2>2. q.failed
    BY <2>1, FailFacts
  <2> QED
    BY <2>1, <2>2, FailCounts DEF Lifted, q
<1>4. CASE i # 0 /\ s # SlotUnused
  <2>1. PICK u \in ValueType : /\ MayLift(p, {i}, u, s, s + GetTypeNumSlots(u))
                               /\ GetTypeNumSlots(u) <= GetTypeNumSlots(t)
                               /\ i \in 1 .. Len(p.stack) => u = t
    BY <1>4, RoomForOne
  <2>2. s \in Nat /\ s + GetTypeNumSlots(t) <= MaxFunctionSlots
    BY <1>4, Allocation DEF OK
  <2> DEFINE end == s + GetTypeNumSlots(t)
  <2>3. /\ Close(p, m) /\ m.reach = p.reach /\ m.values = p.values
        /\ m.top = (IF p.top >= end THEN p.top ELSE end)
        /\ m.maxSlots = (IF p.maxSlots >= end THEN p.maxSlots ELSE end)
        /\ \A x \in 0 .. MaxFunctionSlots - 1 :
             m.count[x] = IF s <= x /\ x < end THEN 1 ELSE p.count[x]
    BY ZenonT(40), <2>2, MarkFacts DEF OK
  <2> DEFINE new == Redirected(p.stack, {i}, s)  reg == [p.reg EXCEPT ![r] = 0]
  <2>4. DOMAIN m = Fields /\ m.stack = p.stack /\ m.reg = p.reg
    BY <2>3 DEF Close, Typed
  <2>5. /\ DOMAIN moved = Fields /\ moved.stack = new /\ moved.top = m.top /\ moved.maxSlots = m.maxSlots
        /\ moved.count = m.count /\ moved.reach = m.reach /\ moved.values = m.values
        /\ moved.failed = m.failed
    <3>1. new = [p.stack EXCEPT ![i].slot = s]
      BY DEF Redirected
    <3>2. moved = [m EXCEPT !.reg = [m.reg EXCEPT ![r] = 0], !.stack = [m.stack EXCEPT ![i].slot = s]]
      OBVIOUS
    <3> HIDE DEF m, s, new, i, t
    <3> QED
      BY <2>4, <3>1, <3>2 DEF Fields
  <2>6. q = Write(moved, s, Read(p, p.stack[i]))
    BY <1>1, <1>4
  <2> HIDE DEF moved, m, s, t, end, new
  <2>7. Alike(moved, q)
    BY <2>5, <2>6, WriteAlike
  <2>8. /\ q.stack = new /\ q.top = m.top /\ q.maxSlots = m.maxSlots /\ q.count = m.count
        /\ q.reach = p.reach /\ q.values = p.values /\ q.failed = p.failed
    BY <2>3, <2>5, <2>7 DEF Alike, Close
  <2> DEFINE to == s + GetTypeNumSlots(u)
  <2>9. /\ p.top \in Nat /\ p.maxSlots \in Nat /\ p.firstDynamic \in Nat /\ end \in Nat /\ to \in Nat /\ to <= end
        /\ MaxFunctionSlots \in Nat
    <3>1. GetTypeNumSlots(u) \in 1 .. 2 /\ GetTypeNumSlots(t) \in 1 .. 2
      BY Types
    <3> QED
      BY SMTT(40), <2>1, <2>2, <3>1, CountFacts, Numbers DEF end
  <2>10. p.top <= p.maxSlots
    BY DEF Counts, Covers
  <2>11. /\ q.top >= p.top /\ q.top >= to /\ q.top <= q.maxSlots /\ q.maxSlots >= p.maxSlots
    <3> HIDE DEF to
    <3> QED
      BY <2>3, <2>8, <2>9, <2>10
  <2>12. ASSUME NoSharing, ~q.failed
         PROVE  /\ ~p.failed
                /\ \A j \in {i} : j \in Base(p.blocks) + 1 .. Len(p.stack) /\ ~InDynamic(p.stack[j], p.firstDynamic)
                /\ \A x \in p.firstDynamic .. MaxFunctionSlots - 1 :
                     q.count[x] = IF s <= x /\ x < to THEN Cardinality({i}) ELSE p.count[x]
    <3>1. ~p.failed
      BY <2>8, <2>12
    <3>2. RegistersOk(p.stack, p.reg, Base(p.blocks))
      BY <3>1 DEF OK, Sound
    <3>3. i \in Base(p.blocks) + 1 .. Len(p.stack) /\ p.stack[i].slot = r
      BY <3>2, <1>4 DEF RegistersOk
    <3>4. ~InDynamic(p.stack[i], p.firstDynamic)
      <4>1. r \in Nat /\ r >= MaxFunctionSlots
        BY Numbers DEF Registers
      <4> HIDE DEF i
      <4> QED
        BY <3>3, <4>1, Numbers DEF InDynamic
    <3>5. Base(p.blocks) + 1 .. Len(p.stack) \subseteq 1 .. Len(p.stack)
      BY Height
    <3>6. u = t
      BY <2>1, <3>3, <3>5
    <3>7. Cardinality({i}) = 1
      BY FS_Singleton
    <3>8. to = end
      BY <3>6 DEF end
    <3>9. \A x \in p.firstDynamic .. MaxFunctionSlots - 1 : x \in 0 .. MaxFunctionSlots - 1
      BY <2>9
    <3> HIDE DEF i, to
    <3> QED
      BY <3>1, <3>3, <3>4, <3>7, <3>8, <3>9, <2>3, <2>8
  <2>13. Lift(p, {i}, s, to, q)
    BY <1>a, <2>8, <2>11, <2>12 DEF Lift, Reached, new
  <2>14. MayLift(p, {i}, u, s, to)
    BY <2>1
  <2> HIDE DEF i, to
  <2>15. Counts(q) /\ Lifted(p, q)
    BY <1>a, <2>13, <2>14, LiftCounts
  <2> QED
    BY <2>15 DEF q
<1> QED
  BY <1>2, <1>3, <1>4

\* under a condition,
LEMMA PreserveIfCounts ==
  ASSUME NEW p, OK(p), Counts(p), NEW r \in Registers, NEW condition \in BOOLEAN
  PROVE  LET q == PreserveIf(condition, p, r) IN Counts(q) /\ Lifted(p, q)
<1>1. CASE condition
  BY <1>1, PreserveRegisterCounts DEF PreserveIf
<1>2. CASE ~condition
  BY <1>2 DEF PreserveIf, Lifted
<1> QED
  BY <1>1, <1>2

\* or another.
LEMMA PreserveMaybeCounts ==
  ASSUME NEW p, OK(p), Counts(p), NEW r \in Registers, NEW q,
         q = p \/ q = PreserveRegisterIfOccupied(p, r)
  PROVE  Counts(q) /\ Lifted(p, q)
<1>1. CASE q = PreserveRegisterIfOccupied(p, r)
  BY <1>1, PreserveRegisterCounts
<1>2. CASE q = p
  BY <1>2 DEF Lifted
<1> QED
  BY <1>1, <1>2

\* Both registers,
LEMMA PreserveBothCounts ==
  ASSUME NEW p, OK(p), Counts(p)
  PROVE  LET q == PreserveRegisters(p) IN Counts(q) /\ Lifted(p, q)
<1> DEFINE a == PreserveRegisterIfOccupied(p, Fp0)  q == PreserveRegisterIfOccupied(a, Reg0)
<1>1. Fp0 \in Registers /\ Reg0 \in Registers
  BY Numbers
<1>2. OK(a) /\ Frame(p, a) /\ Counts(a) /\ Lifted(p, a)
  BY <1>1, PreserveRegister, PreserveRegisterCounts
<1> HIDE DEF a
<1>3. OK(q) /\ Frame(a, q) /\ Counts(q) /\ Lifted(a, q)
  BY <1>1, <1>2, PreserveRegister, PreserveRegisterCounts
<1> HIDE DEF q
<1>4. Lifted(p, q)
  BY <1>2, <1>3, LiftedTwice
<1> QED
  BY <1>3, <1>4 DEF PreserveRegisters, a, q

\* or both but for the one of the top.
LEMMA PreserveOthersCounts ==
  ASSUME NEW p, OK(p), Counts(p)
  PROVE  LET q == PreserveNonTopRegisters(p) IN Counts(q) /\ Lifted(p, q)
<1> DEFINE c == p.reg[Reg0] # Len(p.stack)  a == PreserveIf(c, p, Reg0)
           d == a.reg[Fp0] # Len(a.stack)  q == PreserveIf(d, a, Fp0)
<1>1. Fp0 \in Registers /\ Reg0 \in Registers /\ c \in BOOLEAN /\ d \in BOOLEAN
  BY Numbers
<1> HIDE DEF c, d
<1>2. OK(a) /\ Frame(p, a) /\ Counts(a) /\ Lifted(p, a)
  BY <1>1, PreserveIfOK, PreserveIfCounts
<1> HIDE DEF a
<1>3. OK(q) /\ Frame(a, q) /\ Counts(q) /\ Lifted(a, q)
  BY <1>1, <1>2, PreserveIfOK, PreserveIfCounts
<1> HIDE DEF q
<1>4. Lifted(p, q)
  BY <1>2, <1>3, LiftedTwice
<1>5. PreserveNonTopRegisters(p) = q
  BY DEF PreserveNonTopRegisters, a, c, d, q
<1> QED
  BY <1>3, <1>4, <1>5

\* The top goes to its register.
LEMMA CopyTopCounts ==
  ASSUME NEW p, OK(p), Counts(p), Len(p.stack) > Base(p.blocks)
  PROVE  Counts(CopyTopToRegister(p))
<1> DEFINE q == CopyTopToRegister(p)
           r == RegisterOf(Top(p, 0).type)
           a == PreserveRegisterIfOccupied(p, r)
<1>1. r \in Registers
  BY Types
<1>2. CASE TopInRegister(p, 0)
  BY <1>2 DEF CopyTopToRegister
<1>3. CASE ~TopInRegister(p, 0)
  <2>1. q = IF a.failed THEN a ELSE Write(a, r, Read(a, Top(a, 0)))
    BY <1>3 DEF CopyTopToRegister, Then
  <2>2. OK(a) /\ Counts(a)
    BY <1>1, PreserveRegister, PreserveRegisterCounts
  <2> HIDE DEF a, q, r
  <2> QED
    BY <2>1, <2>2, WriteCounts DEF q
<1> QED
  BY <1>2, <1>3

-----------------------------------------------------------------------------
(* Copy on write                                                           *)

\* What counting up changes.
LEMMA IncrementIs ==
  ASSUME NEW p, OK(p), NEW slot, slot \in 0 .. MaxFunctionSlots - 1, NEW times,
         NEW q, q = IncrementSlotUsageCount(p, slot, times)
  PROVE  /\ q.stack = p.stack /\ q.top = p.top /\ q.maxSlots = p.maxSlots /\ q.reach = p.reach /\ q.values = p.values
         /\ ~q.failed => /\ ~p.failed
                         /\ \A s \in 0 .. MaxFunctionSlots - 1 :
                              q.count[s] = IF s = slot THEN p.count[s] + times ELSE p.count[s]
<1>1. DOMAIN p = Fields /\ DOMAIN p.count = 0 .. MaxFunctionSlots - 1
  BY DEF OK, Typed
<1>2. CASE p.count[slot] + times > MaxUsageCount
  <2>1. q = Fail(p)
    BY <1>2 DEF IncrementSlotUsageCount
  <2> QED
    BY <2>1, FailFacts
<1>3. CASE ~(p.count[slot] + times > MaxUsageCount)
  <2>1. q = [p EXCEPT !.count[slot] = @ + times]
    BY <1>3 DEF IncrementSlotUsageCount
  <2> DEFINE count == [p.count EXCEPT ![slot] = @ + times]
  <2>2. \A s \in 0 .. MaxFunctionSlots - 1 : count[s] = IF s = slot THEN p.count[s] + times ELSE p.count[s]
    BY <1>1
  <2>3. q = [p EXCEPT !.count = count]
    BY <2>1
  <2> HIDE DEF count
  <2>4. /\ q.stack = p.stack /\ q.top = p.top /\ q.maxSlots = p.maxSlots /\ q.reach = p.reach /\ q.values = p.values
        /\ q.count = count /\ q.failed = p.failed
    BY <1>1, <2>3 DEF Fields
  <2>5. \A s \in 0 .. MaxFunctionSlots - 1 : q.count[s] = IF s = slot THEN p.count[s] + times ELSE p.count[s]
    BY <2>2, <2>4
  <2>6. ~q.failed => ~p.failed
    BY <2>4
  <2> QED
    BY <2>4, <2>5, <2>6
<1> QED
  BY <1>2, <1>3

\* What makes room for items that move.
LEMMA RoomForAll ==
  ASSUME NEW p, NEW J, NEW t, NEW slot \in Nat, slot >= p.firstDynamic,
         slot + GetTypeNumSlots(t) <= MaxFunctionSlots,
         p.count[slot] = 0, p.count[slot + GetTypeNumSlots(t) - 1] = 0,
         \A j \in J : j \in 1 .. Len(p.stack) => p.stack[j].type = t
  PROVE  MayLift(p, J, t, slot, slot + GetTypeNumSlots(t))
BY Types DEF MayLift

\* The items that refer to a local are counted in the slots they go to.
LEMMA RedirectingCounts ==
  ASSUME NEW p, OK(p), ~p.failed, Counts(p), NEW x, NEW t, t \in ValueType, NEW refs, NEW s, NEW m,
         NEW after, NEW counted,
         refs # {}, x.slot < p.firstConst, x.slot \in Nat, refs = References(p, x.slot),
         s # SlotUnused, s = FreeSlot(p, t, p.firstDynamic, MaxFunctionSlots),
         m = MarkSlotsAllocated(p, s, t), after = WithMoved(p, m, refs, s, p.reg),
         counted = IncrementSlotUsageCount(after, s, Cardinality(refs) - 1),
         Redirecting(p, x, refs, t, s, m, after, counted)
  PROVE  Counts(counted) /\ Lifted(p, counted) /\ s + GetTypeNumSlots(t) <= counted.maxSlots
<1>0. p.count[s] = 0 /\ p.count[s + GetTypeNumSlots(t) - 1] = 0
  BY ONLY OK(p), s # SlotUnused, s = FreeSlot(p, t, p.firstDynamic, MaxFunctionSlots), FoundSlot
<1> DEFINE end == s + GetTypeNumSlots(t)
<1>1. /\ s \in Nat /\ p.firstDynamic <= s /\ end <= MaxFunctionSlots
      /\ Close(p, m) /\ t = x.type
      /\ refs \subseteq NumLocals + 1 .. Len(p.stack) /\ IsFiniteSet(refs)
      /\ \A j \in refs : j \in 1 .. Len(p.stack) /\ p.stack[j] = x
      /\ Cardinality(refs) - 1 \in Nat /\ s < MaxFunctionSlots
      /\ OK(after) /\ Frame(p, after)
      /\ OK(counted) /\ Frame(after, counted)
  BY DEF Redirecting
<1>2. /\ p.firstDynamic \in Nat /\ p.firstConst \in Nat /\ p.firstConst <= p.firstDynamic
      /\ p.top \in Nat /\ p.maxSlots \in Nat /\ MaxFunctionSlots \in Nat /\ GetTypeNumSlots(t) \in 1 .. 2
      /\ end \in Nat
  BY <1>1, CountFacts, Numbers, Types
<1>4. MayLift(p, refs, t, s, end)
  <2>1. s >= p.firstDynamic
    BY <1>1, <1>2
  <2>2. \A j \in refs : j \in 1 .. Len(p.stack) => p.stack[j].type = t
    BY <1>1
  <2>3. s \in Nat /\ s + GetTypeNumSlots(t) <= MaxFunctionSlots
    BY <1>1
  <2> QED
    BY <1>0, <2>1, <2>2, <2>3, RoomForAll
<1>5. /\ m.reach = p.reach /\ m.values = p.values
      /\ m.top = (IF p.top >= end THEN p.top ELSE end)
      /\ m.maxSlots = (IF p.maxSlots >= end THEN p.maxSlots ELSE end)
      /\ \A a \in 0 .. MaxFunctionSlots - 1 :
           m.count[a] = IF s <= a /\ a < end THEN 1 ELSE p.count[a]
  BY <1>1, MarkFacts DEF OK
<1>6. /\ after.stack = Redirected(p.stack, refs, s) /\ after.top = m.top /\ after.maxSlots = m.maxSlots
      /\ after.reach = m.reach /\ after.values = m.values /\ after.count = m.count
  <2>1. DOMAIN m = Fields
    BY <1>1 DEF Close, Typed
  <2> QED
    BY <2>1 DEF WithMoved, Fields
<1>7. s \in 0 .. MaxFunctionSlots - 1
  BY <1>1, <1>2
<1>8. /\ counted.stack = after.stack /\ counted.top = after.top /\ counted.maxSlots = after.maxSlots
      /\ counted.reach = after.reach /\ counted.values = after.values
      /\ ~counted.failed =>
           \A a \in 0 .. MaxFunctionSlots - 1 :
             counted.count[a] = IF a = s THEN after.count[a] + (Cardinality(refs) - 1) ELSE after.count[a]
  BY <1>1, <1>7, IncrementIs
<1> HIDE DEF end
<1>9. p.top <= p.maxSlots
  BY DEF Counts, Covers
<1>10. /\ counted.top >= p.top /\ counted.top >= end /\ counted.top <= counted.maxSlots
       /\ counted.maxSlots >= p.maxSlots /\ end <= counted.maxSlots /\ counted.reach = p.reach /\ counted.values = p.values
  BY <1>2, <1>5, <1>6, <1>8, <1>9
<1>11. Frame(p, counted)
  BY <1>1 DEF Frame
<1>12. ASSUME NoSharing, ~counted.failed
       PROVE  /\ \A j \in refs : j \in Base(p.blocks) + 1 .. Len(p.stack) /\ ~InDynamic(p.stack[j], p.firstDynamic)
              /\ \A a \in p.firstDynamic .. MaxFunctionSlots - 1 :
                   counted.count[a] = IF s <= a /\ a < end THEN Cardinality(refs) ELSE p.count[a]
  <2>1. Single(p.stack, p.firstConst) /\ Below(p.stack, p.blocks, p.firstConst)
    BY <1>12 DEF Counts, Accounted, Spots
  <2>2. /\ Len(p.stack) \in Nat /\ Base(p.blocks) \in Nat /\ Base(p.blocks) <= Len(p.stack) /\ NumLocals \in Nat
    BY Height
  <2>3. ASSUME NEW j \in refs
        PROVE  j \in Base(p.blocks) + 1 .. Len(p.stack) /\ ~InDynamic(p.stack[j], p.firstDynamic)
    <3>1. j \in NumLocals + 1 .. Len(p.stack) /\ p.stack[j] = x
      BY <1>1
    <3>2. ~(x.slot >= p.firstConst) /\ ~(x.slot >= p.firstDynamic)
      BY <1>2
    <3>3. ~(j \in NumLocals + 1 .. Base(p.blocks))
      BY <2>1, <3>1, <3>2 DEF Below
    <3> QED
      BY <2>2, <3>1, <3>2, <3>3 DEF InDynamic
  <2>4. Is64BitType(t) => Cardinality(refs) = 1
    <3>1. ASSUME Is64BitType(t), NEW i \in refs, NEW j \in refs
          PROVE  i = j
      <4>1. /\ i \in NumLocals + 1 .. Len(p.stack) /\ j \in NumLocals + 1 .. Len(p.stack)
            /\ p.stack[i].slot = p.stack[j].slot /\ p.stack[i].slot < p.firstConst
            /\ Is64BitType(p.stack[i].type)
        BY <1>1, <3>1
      <4> QED
        BY <2>1, <4>1 DEF Single
    <3>2. ASSUME Is64BitType(t)
          PROVE  \E i : refs = {i}
      <4>1. PICK i \in refs : TRUE
        OBVIOUS
      <4>2. refs = {i}
        BY <3>1, <3>2
      <4> QED
        BY <4>2
    <3> QED
      BY <3>2, FS_Singleton
  <2>5. GetTypeNumSlots(t) = 2 <=> Is64BitType(t)
    BY Types
  <2>6. end = s + 1 \/ (end = s + 2 /\ Cardinality(refs) = 1)
    BY <1>1, <1>2, <2>4, <2>5 DEF end
  <2>7. Cardinality(refs) \in Nat
    BY <1>1, FS_CardinalityType
  <2>8. ASSUME NEW a \in p.firstDynamic .. MaxFunctionSlots - 1
        PROVE  counted.count[a] = IF s <= a /\ a < end THEN Cardinality(refs) ELSE p.count[a]
    <3>1. a \in 0 .. MaxFunctionSlots - 1
      BY <1>2
    <3>2. counted.count[a] = IF a = s THEN m.count[a] + (Cardinality(refs) - 1) ELSE m.count[a]
      BY <1>6, <1>8, <1>12, <3>1
    <3>3. m.count[a] = IF s <= a /\ a < end THEN 1 ELSE p.count[a]
      BY <1>5, <3>1
    <3> DEFINE n == Cardinality(refs)
    <3> HIDE DEF n
    <3>4. n \in Nat /\ (end = s + 1 \/ (end = s + 2 /\ n = 1))
      BY <2>6, <2>7 DEF n
    <3>5. counted.count[a] = IF a = s THEN m.count[a] + (n - 1) ELSE m.count[a]
      BY <3>2 DEF n
    <3>6. counted.count[a] = IF s <= a /\ a < end THEN n ELSE p.count[a]
      BY SMTT(40), <1>1, <3>1, <3>3, <3>4, <3>5
    <3> QED
      BY <3>6 DEF n
  <2> QED
    BY <2>3, <2>8
<1>13. Lift(p, refs, s, end, counted)
  BY <1>6, <1>8, <1>10, <1>11, <1>12 DEF Lift, Reached
<1> QED
  BY <1>1, <1>4, <1>10, <1>13, LiftCounts DEF end

\* No item refers to the i-th local,
NoneRefers(p, i) == \A j \in NumLocals + 1 .. Len(p.stack) : p.stack[j].slot # p.stack[i].slot

\* when no item of this scope does.
LEMMA NoReferences ==
  ASSUME NEW p, OK(p), ~p.failed, NEW i \in 1 .. NumLocals, References(p, p.stack[i].slot) = {},
         Below(p.stack, p.blocks, p.firstConst)
  PROVE  NoneRefers(p, i)
<1>1. /\ p.stack[i].slot < p.firstConst /\ p.stack[i].slot \in Nat
  BY ReferenceFacts
<1>2. /\ ScopeBase(p) \in Nat /\ NumLocals <= ScopeBase(p) /\ ScopeBase(p) <= Base(p.blocks)
      /\ Len(p.stack) \in Nat /\ Base(p.blocks) \in Nat /\ NumLocals \in Nat /\ p.firstConst \in Nat
  BY ScopeBaseFacts, Height, CountFacts
<1>3. SUFFICES ASSUME NEW j \in NumLocals + 1 .. Len(p.stack), p.stack[j].slot = p.stack[i].slot
               PROVE  FALSE
  BY DEF NoneRefers
<1>4. CASE j \in ScopeBase(p) + 1 .. Len(p.stack)
  BY <1>3, <1>4 DEF References
<1>5. CASE j \in NumLocals + 1 .. Base(p.blocks)
  BY <1>1, <1>2, <1>3, <1>5 DEF Below
<1> QED
  BY <1>2, <1>4, <1>5

\* Those that did are in slots that were found for them.
LEMMA ReferencesGone ==
  ASSUME NEW p, OK(p), ~p.failed, NEW i \in 1 .. NumLocals, NEW s \in Nat, s >= p.firstDynamic,
         Below(p.stack, p.blocks, p.firstConst), NEW q,
         q.stack = Redirected(p.stack, References(p, p.stack[i].slot), s)
  PROVE  NoneRefers(q, i)
<1> DEFINE refs == References(p, p.stack[i].slot)
<1>1. /\ p.stack[i].slot < p.firstConst /\ p.stack[i].slot \in Nat /\ i \in 1 .. Len(p.stack)
  BY ReferenceFacts
<1>2. /\ ScopeBase(p) \in Nat /\ NumLocals <= ScopeBase(p) /\ ScopeBase(p) <= Base(p.blocks)
      /\ Len(p.stack) \in Nat /\ Base(p.blocks) \in Nat /\ NumLocals \in Nat /\ p.firstConst \in Nat
      /\ p.firstDynamic \in Nat /\ p.firstConst <= p.firstDynamic /\ DOMAIN p.stack = 1 .. Len(p.stack)
  BY ScopeBaseFacts, Height, CountFacts
<1>3. i \notin refs
  BY <1>2 DEF References
<1>4. \A j \in NumLocals + 1 .. Len(p.stack) : j \notin refs => p.stack[j].slot # p.stack[i].slot
  <2>1. SUFFICES ASSUME NEW j \in NumLocals + 1 .. Len(p.stack), j \notin refs, p.stack[j].slot = p.stack[i].slot
                 PROVE  FALSE
    OBVIOUS
  <2>2. ~(j \in ScopeBase(p) + 1 .. Len(p.stack))
    BY <2>1 DEF References
  <2>3. ~(j \in NumLocals + 1 .. Base(p.blocks))
    BY <1>1, <1>2, <2>1 DEF Below
  <2> QED
    BY <1>2, <2>2, <2>3
<1>5. /\ Len(q.stack) = Len(p.stack)
      /\ \A j \in 1 .. Len(p.stack) : q.stack[j] = IF j \in refs THEN [p.stack[j] EXCEPT !.slot = s] ELSE p.stack[j]
  BY <1>2 DEF Redirected
<1>6. \A j \in refs : j \in 1 .. Len(p.stack) /\ q.stack[j].slot = s
  <2>1. ASSUME NEW j \in refs
        PROVE  j \in 1 .. Len(p.stack) /\ q.stack[j].slot = s
    <3>1. j \in 1 .. Len(p.stack)
      BY <1>2 DEF References
    <3>2. q.stack[j] = [p.stack[j] EXCEPT !.slot = s]
      BY <1>5, <3>1
    <3>3. p.stack[j] \in Item
      BY <3>1, Height
    <3> QED
      BY <3>1, <3>2, <3>3 DEF Item
  <2> QED
    BY <2>1
<1>7. s # p.stack[i].slot
  BY <1>1, <1>2
<1> HIDE DEF refs
<1>8. q.stack[i] = p.stack[i]
  BY <1>1, <1>3, <1>5
<1>9. SUFFICES ASSUME NEW j \in NumLocals + 1 .. Len(p.stack)
               PROVE  q.stack[j].slot # p.stack[i].slot
  BY <1>5, <1>8 DEF NoneRefers
<1>10. j \in 1 .. Len(p.stack)
  BY <1>2
<1>11. CASE j \in refs
  BY <1>6, <1>7, <1>11
<1>12. CASE j \notin refs
  BY <1>4, <1>5, <1>10, <1>12
<1> QED
  BY <1>11, <1>12

\* Before a local is written, who refers to it moves to a copy.
LEMMA PreserveLocalCounts ==
  ASSUME NEW p, OK(p), ~p.failed, Counts(p), NEW i \in 1 .. NumLocals
  PROVE  LET q == PreserveLocal(p, i) IN
         Counts(q) /\ Lifted(p, q) /\ (NoSharing /\ ~q.failed => NoneRefers(q, i))
<1> DEFINE x == p.stack[i]
           refs == References(p, x.slot)
           t == p.stack[Min(refs)].type
           s == FreeSlot(p, t, p.firstDynamic, MaxFunctionSlots)
           m == MarkSlotsAllocated(p, s, t)
           Written(a) == IF a.failed THEN a ELSE WriteSlot(a, s, Read(a, x))
           moved == [m EXCEPT !.stack = [j \in DOMAIN @ |-> IF j \in refs THEN [@[j] EXCEPT !.slot = s]
                                                            ELSE @[j]]]
           after == WithMoved(p, m, refs, s, p.reg)
           counted == IncrementSlotUsageCount(after, s, Cardinality(refs) - 1)
           q == PreserveLocal(p, i)
<1>1. q = IF refs = {} THEN p
          ELSE IF s = SlotUnused THEN Fail(p)
          ELSE Written(IncrementSlotUsageCount(moved, s, Cardinality(refs) - 1))
  BY DEF PreserveLocal, AllocateSlots, Then
<1> HIDE DEF q
<1>2. NoSharing => Below(p.stack, p.blocks, p.firstConst)
  BY DEF Counts, Accounted, Spots
<1>3. CASE refs = {}
  <2>1. q = p
    BY <1>1, <1>3
  <2>2. Lifted(p, p)
    BY DEF Lifted
  <2>3. NoSharing => NoneRefers(p, i)
    BY <1>2, <1>3, NoReferences
  <2> QED
    BY <2>1, <2>2, <2>3 DEF q
<1>4. CASE refs # {} /\ s = SlotUnused
  <2>1. q = Fail(p)
    BY <1>1, <1>4
  <2>2. Counts(Fail(p)) /\ Fail(p).failed
    BY FailCounts, FailOK
  <2> QED
    BY <2>1, <2>2 DEF Lifted, q
<1>5. CASE refs # {} /\ s # SlotUnused
  <2>1. Redirecting(p, x, refs, t, s, m, after, counted)
    BY <1>5, ReferencesMoved
  <2>2. moved = after
    <3>1. DOMAIN m = Fields /\ m.stack = p.stack /\ m.reg = p.reg
      BY <2>1 DEF Redirecting, Close, Typed
    <3> HIDE DEF m, s, refs
    <3>2. [j \in DOMAIN m.stack |-> IF j \in refs THEN [m.stack[j] EXCEPT !.slot = s] ELSE m.stack[j]]
          = Redirected(p.stack, refs, s)
      BY SMTT(40), <3>1 DEF Redirected
    <3> QED
      BY <3>1, <3>2 DEF Fields, WithMoved
  <2>3. q = Written(counted)
    BY <1>1, <1>5, <2>2
  <2>4. x.slot < p.firstConst /\ x.slot \in Nat /\ x.type \in ValueType
    BY SMTT(40), ReferenceFacts
  <2>5. t \in ValueType
    BY SMTT(40), <2>1, <2>4 DEF Redirecting
  <2>6. Counts(counted) /\ Lifted(p, counted) /\ s + GetTypeNumSlots(t) <= counted.maxSlots
    <3> HIDE DEF x, refs, t, s, m, after, counted
    <3> QED
      BY ZenonT(40), <1>5, <2>1, <2>4, <2>5, RedirectingCounts DEF x, refs, t, s, m, after, counted
  <2>7. OK(counted) /\ s \in Nat /\ s >= p.firstDynamic /\ t = x.type /\ p.firstDynamic \in Nat
    BY SMTT(40), <2>1, CountFacts DEF Redirecting
  <2>8. ~counted.failed => counted.stack = Redirected(p.stack, refs, s)
    <3>1. ~counted.failed => counted.stack = after.stack
      BY <2>1 DEF Redirecting, Close
    <3>2. after.stack = Redirected(p.stack, refs, s)
      <4>1. DOMAIN m = Fields
        BY <2>1 DEF Redirecting, Close, Typed
      <4> HIDE DEF m, s, refs
      <4> QED
        BY SMTT(40), <4>1 DEF WithMoved, Fields
    <3> QED
      BY SMTT(40), <3>1, <3>2
  <2> HIDE DEF after, moved, m, counted, t, s
  <2>9. CASE counted.failed
    <3>1. q = counted
      BY <2>3, <2>9
    <3> QED
      BY <2>6, <2>9, <3>1 DEF q
  <2>10. CASE ~counted.failed
    <3>1. q = WriteSlot(counted, s, Read(counted, x))
      BY <2>3, <2>10
    <3> DEFINE words == Read(counted, x)
    <3>2. /\ Len(words) \in Nat /\ s + Len(words) <= Reg0
          /\ s + Len(words) <= counted.maxSlots + StackMargin
      <4>1. Len(words) = GetTypeNumSlots(x.type) /\ GetTypeNumSlots(x.type) \in Nat
        BY ReadLength, Types
      <4>2. s + GetTypeNumSlots(t) <= MaxFunctionSlots
        BY <2>1 DEF Redirecting
      <4>3. counted.maxSlots \in Nat
        BY <2>7, CountFacts
      <4> HIDE DEF words, x
      <4> QED
        BY <2>6, <2>7, <4>1, <4>2, <4>3, Numbers DEF StackMargin
    <3>3. Counts(q)
      <4> HIDE DEF words
      <4> QED
        BY <2>6, <2>7, <3>1, <3>2, WriteSlotCounts DEF words, InReach
    <3>4. q.stack = counted.stack /\ q.failed = counted.failed
      <4>1. Close(counted, WriteSlot(counted, s, words))
        <5> HIDE DEF words
        <5> QED
          BY <2>7, <3>2, WriteSlotClose DEF OK
      <4> QED
        BY <3>1, <4>1 DEF Close
    <3>5. Lifted(p, q)
      BY <2>6, <3>4 DEF Lifted
    <3>6. NoSharing => NoneRefers(q, i)
      <4>1. q.stack = Redirected(p.stack, References(p, p.stack[i].slot), s)
        BY <2>8, <2>10, <3>4
      <4> HIDE DEF x, refs
      <4> QED
        BY <1>2, <2>7, <4>1, ReferencesGone
    <3> QED
      BY <3>3, <3>5, <3>6 DEF q
  <2> QED
    BY SMTT(40), <2>9, <2>10
<1> QED
  BY <1>3, <1>4, <1>5

-----------------------------------------------------------------------------
(* The beginning of a block                                                *)

\* Behind the locals no item refers to one.
Away(p) == \A j \in NumLocals + 1 .. Len(p.stack) : p.stack[j].slot >= p.firstConst

\* That stays so when items move.
LEMMA NoneRefersStays ==
  ASSUME NEW p, OK(p), ~p.failed, NEW q, OK(q), Frame(p, q), Lifted(p, q), ~q.failed,
         NEW i \in 1 .. NumLocals, NoneRefers(p, i), NEW k \in 1 .. NumLocals
  PROVE  NoneRefers(q, i) /\ q.stack[k] = p.stack[k]
<1>1. /\ Len(p.stack) \in Nat /\ NumLocals \in Nat /\ NumLocals <= Len(p.stack)
      /\ p.firstConst \in Nat /\ p.firstDynamic \in Nat /\ p.firstConst <= p.firstDynamic
  BY Height, CountFacts
<1>2. \A j \in 1 .. NumLocals : p.stack[j].slot \in Nat /\ p.stack[j].slot < p.firstConst /\ j \in 1 .. Len(p.stack)
  BY ReferenceFacts
<1>3. \A j \in 1 .. NumLocals : j \in 1 .. Len(p.stack)
  BY <1>2
<1>4. /\ Len(q.stack) = Len(p.stack)
      /\ \A j \in 1 .. Len(p.stack) : q.stack[j] = p.stack[j] \/ q.stack[j].slot >= p.firstDynamic
  BY DEF Lifted, InDynamic
<1>5. NumLocals + 1 .. Len(p.stack) \subseteq 1 .. Len(p.stack)
  BY <1>1
<1>6. \A j \in 1 .. NumLocals : q.stack[j] = p.stack[j]
  <2>1. SUFFICES ASSUME NEW j \in 1 .. NumLocals
                 PROVE  q.stack[j] = p.stack[j]
    OBVIOUS
  <2>2. q.stack[j].slot < q.firstConst /\ q.stack[j].slot \in Nat /\ q.firstConst = p.firstConst
    BY ReferenceFacts DEF Frame
  <2>3. q.stack[j] = p.stack[j] \/ q.stack[j].slot >= p.firstDynamic
    BY <1>3, <1>4
  <2> QED
    BY <1>1, <2>2, <2>3
<1>7. NoneRefers(q, i)
  <2>1. SUFFICES ASSUME NEW j \in NumLocals + 1 .. Len(p.stack)
                 PROVE  q.stack[j].slot # p.stack[i].slot
    BY <1>4, <1>6 DEF NoneRefers
  <2>2. q.stack[j] = p.stack[j] \/ q.stack[j].slot >= p.firstDynamic
    BY <1>4, <1>5
  <2>3. p.stack[i].slot \in Nat /\ p.stack[i].slot < p.firstConst
    BY <1>2
  <2>4. p.stack[j].slot # p.stack[i].slot
    BY DEF NoneRefers
  <2> QED
    BY <1>1, <2>2, <2>3, <2>4
<1> QED
  BY <1>6, <1>7

\* What goes to a slot that is given out does not refer to a local.
LEMMA AwayLifted ==
  ASSUME NEW p, OK(p), Away(p), NEW q, OK(q), Frame(p, q), Lifted(p, q), ~q.failed
  PROVE  Away(q)
<1>1. /\ Len(p.stack) \in Nat /\ NumLocals \in Nat /\ p.firstConst \in Nat /\ p.firstDynamic \in Nat
      /\ p.firstConst <= p.firstDynamic /\ q.firstConst = p.firstConst
  BY Height, CountFacts DEF Frame
<1>2. Len(q.stack) = Len(p.stack)
  BY DEF Lifted
<1>3. SUFFICES ASSUME NEW j \in NumLocals + 1 .. Len(p.stack)
               PROVE  q.stack[j].slot >= p.firstConst
  BY <1>1, <1>2 DEF Away
<1>4. q.stack[j] = p.stack[j] \/ (q.stack[j].slot >= p.firstDynamic /\ q.stack[j].slot < MaxFunctionSlots)
  BY <1>1 DEF Lifted, InDynamic
<1>5. p.stack[j].slot >= p.firstConst
  BY DEF Away
<1>6. CASE q.stack[j] = p.stack[j]
  BY <1>5, <1>6
<1>7. CASE q.stack[j].slot >= p.firstDynamic
  <2>1. j \in 1 .. Len(q.stack)
    BY <1>1, <1>2
  <2>2. q.stack[j].slot \in Nat
    BY <2>1, InSlotsOrRegister
  <2> QED
    BY <1>1, <1>7, <2>2
<1> QED
  BY <1>4, <1>6, <1>7

\* PreserveArgsAndLocals
LEMMA PreserveLocalsCounts ==
  ASSUME NEW p, OK(p), Counts(p)
  PROVE  LET q == PreserveArgsAndLocals(p) IN
         Counts(q) /\ Lifted(p, q) /\ (NoSharing /\ ~q.failed => Away(q))
<1>1. PICK f : /\ f[0] = p
               /\ \A k \in 1 .. NumLocals : f[k] = Then(f[k - 1], LAMBDA r : PreserveLocal(r, k))
               /\ PreserveArgsAndLocals(p) = f[NumLocals]
  BY PreserveLocalsSteps
<1> DEFINE Free(q, k) == NoSharing /\ ~q.failed => \A i \in 1 .. k : NoneRefers(q, i)
           S == {k \in 0 .. NumLocals : /\ OK(f[k]) /\ Frame(p, f[k]) /\ Counts(f[k]) /\ Lifted(p, f[k])
                                         /\ Free(f[k], k)}
<1>2. NumLocals \in Nat
  BY Numbers
<1>3. 0 \in S
  BY <1>1, <1>2, SelfMoved DEF Lifted
<1>4. ASSUME NEW k \in 1 .. NumLocals, k - 1 \in S PROVE k \in S
  <2> DEFINE a == f[k - 1]
             b == PreserveLocal(a, k)
  <2>1. OK(a) /\ Frame(p, a) /\ Counts(a) /\ Lifted(p, a) /\ Free(a, k - 1) /\ k \in 0 .. NumLocals
    BY <1>2, <1>4
  <2>2. f[k] = IF a.failed THEN a ELSE b
    BY <1>1 DEF Then
  <2> HIDE DEF a
  <2>3. ASSUME ~a.failed PROVE OK(b) /\ Frame(p, b) /\ Counts(b) /\ Lifted(p, b) /\ Free(b, k)
    <3>1. OK(b) /\ Frame(a, b)
      BY <2>1, <2>3, PreserveLocalOK
    <3>2. Counts(b) /\ Lifted(a, b) /\ (NoSharing /\ ~b.failed => NoneRefers(b, k))
      BY <2>1, <2>3, PreserveLocalCounts
    <3> HIDE DEF b
    <3>3. Lifted(p, b)
      BY <2>1, <3>1, <3>2, LiftedTwice
    <3>4. ASSUME NoSharing, ~b.failed, NEW i \in 1 .. k
          PROVE  NoneRefers(b, i)
      <4>1. CASE i = k
        BY <3>2, <3>4, <4>1
      <4>2. CASE i # k
        <5>1. i \in 1 .. k - 1 /\ i \in 1 .. NumLocals
          BY <1>2, <3>4, <4>2
        <5>2. NoneRefers(a, i)
          BY <2>1, <2>3, <3>4, <5>1
        <5> QED
          BY <2>1, <2>3, <3>1, <3>2, <3>4, <5>1, <5>2, NoneRefersStays
      <4> QED
        BY <4>1, <4>2
    <3> QED
      BY <2>1, <3>1, <3>2, <3>3, <3>4 DEF Frame
  <2> HIDE DEF b
  <2>4. a.failed => Free(a, k)
    OBVIOUS
  <2> HIDE DEF Free
  <2> QED
    BY <2>1, <2>2, <2>3, <2>4
<1>5. NumLocals \in S
  <2> HIDE DEF S
  <2>1. \A k \in 0 .. NumLocals : k \in S
    BY <1>2, <1>3, <1>4, UpTo
  <2> QED
    BY <2>1, <1>2
<1> DEFINE q == f[NumLocals]
<1>6. OK(q) /\ Counts(q) /\ Lifted(p, q) /\ Free(q, NumLocals)
  BY <1>5
<1>7. ASSUME NoSharing, ~q.failed
      PROVE  Away(q)
  <2>1. LocalsOk(q.stack, q.firstConst)
    BY <1>6, <1>7 DEF OK, Sound
  <2>2. \A i \in 1 .. NumLocals : NoneRefers(q, i)
    BY <1>6, <1>7
  <2> HIDE DEF q
  <2>3. q.firstConst \in Nat /\ Len(q.stack) \in Nat /\ NumLocals \in Nat /\ q.stack \in Seq(Item)
    BY <1>6, CountFacts, Height
  <2>4. SUFFICES ASSUME NEW j \in NumLocals + 1 .. Len(q.stack), ~(q.stack[j].slot >= q.firstConst)
                 PROVE  FALSE
    BY DEF Away
  <2>5. j \in 1 .. Len(q.stack) /\ q.stack[j] \in Item
    BY <2>3, <2>4
  <2>6. q.stack[j].slot < q.firstConst
    BY <2>3, <2>4, <2>5 DEF Item
  <2>7. PICK i \in 1 .. NumLocals : q.stack[j] = q.stack[i]
    BY <2>1, <2>5, <2>6 DEF LocalsOk
  <2> QED
    BY <2>2, <2>4, <2>7 DEF NoneRefers
<1> HIDE DEF S
<1> QED
  BY <1>1, <1>6, <1>7

\* What a write to a slot leaves as it is.
LEMMA WriteSlotIs ==
  ASSUME NEW p, DOMAIN p = Fields, NEW dest \in Nat, NEW words, Len(words) \in Nat,
         dest + Len(words) <= Reg0, NEW q, q = WriteSlot(p, dest, words)
  PROVE  /\ DOMAIN q = Fields /\ q.stack = p.stack /\ q.reg = p.reg /\ q.count = p.count
         /\ q.top = p.top /\ q.maxSlots = p.maxSlots /\ q.failed = p.failed
         /\ q.values = p.values /\ q.reach \in {p.reach, dest + Len(words)}
<1> DEFINE end == dest + Len(words)
           noted == IF end <= Max({p.reach, p.maxSlots + StackMargin}) THEN p
                    ELSE [p EXCEPT !.reach = end]
<1>1. q = Write(noted, dest, words)
  <2>1. ~(dest + Len(words) > Reg0)
    BY Numbers
  <2> QED
    BY <2>1 DEF WriteSlot
<1>2. /\ DOMAIN noted = Fields /\ noted.stack = p.stack /\ noted.reg = p.reg /\ noted.count = p.count
      /\ noted.top = p.top /\ noted.maxSlots = p.maxSlots /\ noted.failed = p.failed
      /\ noted.values = p.values /\ noted.reach \in {p.reach, end}
  BY DEF Fields
<1> HIDE DEF noted
<1>3. Alike(noted, q)
  BY <1>1, <1>2, WriteAlike
<1> QED
  BY <1>2, <1>3 DEF Alike

\* A parameter that is a constant moves to a slot of its own.
LEMMA InstantiateCounts ==
  ASSUME NEW p, OK(p), ~p.failed, Counts(p), NEW i \in Base(p.blocks) + 1 .. Len(p.stack)
  PROVE  LET q == Instantiate(p, i) IN Counts(q) /\ Lifted(p, q)
<1> DEFINE x == p.stack[i]
           t == x.type
           s == FreeSlot(p, t, p.firstDynamic, MaxFunctionSlots)
           m == MarkSlotsAllocated(p, s, t)
           c == CopyToSlot(m, s, i)
           moved == [c EXCEPT !.stack[i].slot = s]
           q == Instantiate(p, i)
<1>1. q = IF x.slot \notin p.firstConst .. p.constEnd - 1 THEN p
          ELSE IF s = SlotUnused THEN Fail(p) ELSE moved
  BY DEF Instantiate, AllocateSlots, CopyItem
<1>2. OK(q) /\ Frame(p, q)
  BY InstantiateOK
<1> HIDE DEF q
<1>3. CASE x.slot \notin p.firstConst .. p.constEnd - 1
  BY <1>1, <1>3 DEF q, Lifted
<1>4. CASE x.slot \in p.firstConst .. p.constEnd - 1 /\ s = SlotUnused
  <2>1. q = Fail(p)
    BY <1>1, <1>4
  <2>2. Counts(Fail(p)) /\ Fail(p).failed
    BY FailCounts, FailOK
  <2> QED
    BY <2>1, <2>2 DEF Lifted, q
<1>5. CASE x.slot \in p.firstConst .. p.constEnd - 1 /\ s # SlotUnused
  <2>1. q = moved
    BY <1>1, <1>5
  <2>2. /\ s \in Nat /\ p.firstDynamic <= s /\ s + GetTypeNumSlots(t) <= MaxFunctionSlots
        /\ p.count[s] = 0 /\ p.count[s + GetTypeNumSlots(t) - 1] = 0
    BY <1>5, FoundSlot
  <2> DEFINE end == s + GetTypeNumSlots(t)
  <2>3. /\ Close(p, m) /\ m.reach = p.reach /\ m.values = p.values
        /\ m.top = (IF p.top >= end THEN p.top ELSE end)
        /\ m.maxSlots = (IF p.maxSlots >= end THEN p.maxSlots ELSE end)
        /\ \A a \in 0 .. MaxFunctionSlots - 1 :
             m.count[a] = IF s <= a /\ a < end THEN 1 ELSE p.count[a]
    BY <2>2, MarkFacts DEF OK
  <2>4. /\ p.top \in Nat /\ p.maxSlots \in Nat /\ p.firstDynamic \in Nat /\ end \in Nat
        /\ MaxFunctionSlots \in Nat /\ end <= MaxFunctionSlots /\ GetTypeNumSlots(t) \in Nat
        /\ MaxFunctionSlots <= Reg0 /\ Reg0 \in Nat
    <3>1. /\ p.top \in Nat /\ p.maxSlots \in Nat /\ p.firstDynamic \in Nat
          /\ MaxFunctionSlots \in Nat /\ MaxFunctionSlots <= Reg0 /\ Reg0 \in Nat
      BY CountFacts, Numbers
    <3>2. GetTypeNumSlots(t) \in 1 .. 2
      BY SMTT(40), Types
    <3> HIDE DEF s, t
    <3> QED
      BY SMTT(40), <2>2, <3>1, <3>2
  <2>5. DOMAIN m = Fields /\ m.stack = p.stack /\ m.failed = p.failed
    BY <2>3 DEF Close, Typed
  <2> HIDE DEF m, s, end
  <2> DEFINE words == Read(m, m.stack[i])
  <2>6. Len(words) \in Nat /\ s + Len(words) = end
    BY <2>5, ReadLength, Types DEF end
  <2> HIDE DEF words
  <2>7. /\ DOMAIN c = Fields /\ c.stack = m.stack /\ c.count = m.count
        /\ c.top = m.top /\ c.maxSlots = m.maxSlots /\ c.failed = m.failed
        /\ c.values = m.values /\ c.reach \in {m.reach, end}
    <3>1. s + Len(words) <= Reg0
      BY <2>4, <2>6
    <3>2. c = WriteSlot(m, s, words)
      BY DEF CopyToSlot, words
    <3> HIDE DEF c
    <3>3. s \in Nat
      BY <2>2
    <3>4. /\ DOMAIN c = Fields /\ c.stack = m.stack /\ c.reg = m.reg /\ c.count = m.count
          /\ c.top = m.top /\ c.maxSlots = m.maxSlots /\ c.failed = m.failed
          /\ c.values = m.values /\ c.reach \in {m.reach, s + Len(words)}
      <4>1. DOMAIN m = Fields /\ Len(words) \in Nat
        BY <2>5, <2>6
      <4> QED
        BY <3>1, <3>2, <3>3, <4>1, WriteSlotIs
    <3> QED
      BY <2>6, <3>4
  <2> HIDE DEF c
  <2>8. /\ moved.stack = Redirected(p.stack, {i}, s) /\ moved.count = m.count /\ moved.top = m.top
        /\ moved.maxSlots = m.maxSlots /\ moved.failed = p.failed /\ moved.reach = c.reach /\ moved.values = c.values
    <3>1. Redirected(p.stack, {i}, s) = [p.stack EXCEPT ![i].slot = s]
      BY DEF Redirected
    <3>2. moved = [c EXCEPT !.stack = [c.stack EXCEPT ![i].slot = s]]
      OBVIOUS
    <3> QED
      BY <2>5, <2>7, <3>1, <3>2 DEF Fields
  <2> HIDE DEF moved
  <2>9. p.top <= p.maxSlots
    BY DEF Counts, Covers
  <2>10. /\ q.top >= p.top /\ q.top >= end /\ q.top <= q.maxSlots /\ q.maxSlots >= p.maxSlots
         /\ Reached(p, q)
    <3>1. /\ q.top = m.top /\ q.maxSlots = m.maxSlots
          /\ q.values = p.values /\ q.reach \in {p.reach, end}
      BY <2>1, <2>3, <2>7, <2>8
    <3>2. /\ m.top >= p.top /\ m.top >= end /\ m.top <= m.maxSlots /\ m.maxSlots >= p.maxSlots
          /\ m.maxSlots \in Nat /\ end <= m.maxSlots + StackMargin
      BY <2>3, <2>4, <2>9 DEF StackMargin
    <3>3. q.values \in Nat
      BY <3>1 DEF Counts, Covers, Within
    <3>4. Within(end, q.maxSlots, q.values)
      BY <2>4, <3>1, <3>2, <3>3, InReachWithin DEF InReach
    <3>5. Reached(p, q)
      BY <3>1, <3>4 DEF Reached
    <3> QED
      BY <3>1, <3>2, <3>5
  <2>11. i \in 1 .. Len(p.stack) /\ {i} \subseteq Base(p.blocks) + 1 .. Len(p.stack)
    BY Height
  <2>12. ~InDynamic(p.stack[i], p.firstDynamic)
    <3>1. x.slot < p.constEnd /\ p.constEnd <= p.firstDynamic /\ x.slot \in Nat /\ p.constEnd \in Nat
      BY <1>5, <2>11, InSlotsOrRegister DEF OK, Bounds, Typed
    <3> QED
      BY <2>4, <3>1 DEF InDynamic
  <2>13. Cardinality({i}) = 1
    BY FS_Singleton
  <2>14. \A a \in p.firstDynamic .. MaxFunctionSlots - 1 :
           q.count[a] = IF s <= a /\ a < end THEN Cardinality({i}) ELSE p.count[a]
    <3>1. \A a \in p.firstDynamic .. MaxFunctionSlots - 1 : a \in 0 .. MaxFunctionSlots - 1
      BY <2>4
    <3> QED
      BY <2>1, <2>3, <2>8, <2>13, <3>1
  <2>15. Lift(p, {i}, s, end, q)
    BY <1>2, <2>1, <2>8, <2>10, <2>11, <2>12, <2>14 DEF Lift
  <2>16. MayLift(p, {i}, t, s, end)
    BY <2>2, RoomForAll DEF end
  <2>17. t \in ValueType
    BY <2>11, InSlotsOrRegister
  <2> HIDE DEF t
  <2>18. Counts(q) /\ Lifted(p, q)
    BY <1>2, <2>15, <2>16, <2>17, LiftCounts
  <2> QED
    BY SMTT(40), <2>18 DEF q
<1> QED
  BY <1>3, <1>4, <1>5

\* All of them do.
LEMMA InstantiateConstantsCounts ==
  ASSUME NEW p, OK(p), Counts(p), NEW n \in Nat, n <= BlockHeight(p)
  PROVE  LET q == InstantiateConstants(p, n) IN Counts(q) /\ Lifted(p, q)
<1> DEFINE h == Len(p.stack)
<1>1. PICK f : /\ f[0] = p
               /\ \A k \in 1 .. n : f[k] = Then(f[k - 1], LAMBDA r : Instantiate(r, h - n + k))
               /\ InstantiateConstants(p, n) = f[n]
  BY InstantiateSteps
<1> DEFINE S == {k \in 0 .. n : OK(f[k]) /\ Frame(p, f[k]) /\ Counts(f[k]) /\ Lifted(p, f[k])}
<1>2. h \in Nat /\ Base(p.blocks) \in Nat /\ BlockHeight(p) = h - Base(p.blocks)
  BY Height
<1> HIDE DEF h
<1>3. 0 \in S
  BY <1>1, SelfMoved DEF Lifted
<1>4. ASSUME NEW k \in 1 .. n, k - 1 \in S PROVE k \in S
  <2> DEFINE a == f[k - 1]
             i == h - n + k
             b == Instantiate(a, i)
  <2>1. OK(a) /\ Frame(p, a) /\ Counts(a) /\ Lifted(p, a) /\ k \in 0 .. n
    BY <1>4
  <2>2. f[k] = IF a.failed THEN a ELSE b
    BY <1>1 DEF Then
  <2>3. i \in Base(p.blocks) + 1 .. h
    BY <1>2
  <2> HIDE DEF a, i
  <2>4. ASSUME ~a.failed PROVE OK(b) /\ Frame(p, b) /\ Counts(b) /\ Lifted(p, b)
    <3>1. Len(a.stack) = h /\ Base(a.blocks) = Base(p.blocks)
      BY <2>1, <2>4 DEF Frame, Lifted, h
    <3>2. i \in Base(a.blocks) + 1 .. Len(a.stack)
      BY <2>3, <3>1
    <3>3. OK(b) /\ Frame(a, b) /\ Counts(b) /\ Lifted(a, b)
      BY <2>1, <2>4, <3>2, InstantiateOK, InstantiateCounts
    <3> HIDE DEF b
    <3>4. Lifted(p, b)
      BY <2>1, <3>3, LiftedTwice
    <3> QED
      BY <2>1, <3>3, <3>4 DEF Frame
  <2> HIDE DEF b
  <2> QED
    BY <2>1, <2>2, <2>4
<1>5. n \in S
  <2> HIDE DEF S
  <2>1. \A k \in 0 .. n : k \in S
    BY <1>3, <1>4, UpTo
  <2> QED
    BY <2>1
<1> QED
  BY <1>1, <1>5

-----------------------------------------------------------------------------
(* Calls                                                                   *)

\* Marking as an update of the record.
MarkedTo(p, count, end) ==
  [p EXCEPT !.count = count, !.top = Max({p.top, end}), !.maxSlots = Max({p.maxSlots, end}), !.wild = p.wild]

\* MarkSlotsAllocated, in the words of the counts.
LEMMA MarkIs ==
  ASSUME NEW p, p.wild = FALSE, NEW t, NEW slot \in Nat, slot + GetTypeNumSlots(t) <= MaxFunctionSlots,
         NEW end, end = slot + GetTypeNumSlots(t)
  PROVE  MarkSlotsAllocated(p, slot, t) = MarkedTo(p, Marked(p.count, slot, end), end)
<1>1. end \in Nat /\ end <= MaxFunctionSlots
  BY Types
<1>2. ~(end > MaxFunctionSlots)
  BY <1>1, Numbers
<1>3. (p.wild \/ end > MaxFunctionSlots) = p.wild
  BY <1>2
<1> QED
  BY <1>3 DEF MarkSlotsAllocated, MarkedTo, Marked

\* It does not matter whether slots are marked before or after the push.
LEMMA MarkThenPush ==
  ASSUME NEW p, DOMAIN p = Fields, p.wild = FALSE, NEW t, NEW slot \in Nat,
         slot + GetTypeNumSlots(t) <= MaxFunctionSlots
  PROVE  MarkSlotsAllocated(Push(p, t, slot), slot, t) = Push(MarkSlotsAllocated(p, slot, t), t, slot)
<1> DEFINE end == slot + GetTypeNumSlots(t)
           C == Marked(p.count, slot, end)
           m == MarkSlotsAllocated(p, slot, t)
           a == Push(p, t, slot)
           stack == Append(p.stack, [type |-> t, slot |-> slot])
           reg == IF IsRegister(slot) THEN [p.reg EXCEPT ![slot] = Len(p.stack) + 1] ELSE p.reg
<1>1. m = MarkedTo(p, C, end)
  BY MarkIs
<1>2. /\ DOMAIN m = Fields /\ m.stack = p.stack /\ m.reg = p.reg
  <2> HIDE DEF C, end, m
  <2> QED
    BY <1>1 DEF Fields, MarkedTo
<1>3. /\ a.count = p.count /\ a.top = p.top /\ a.maxSlots = p.maxSlots /\ a.wild = p.wild /\ DOMAIN a = Fields
  BY DEF Push, Fail, Fields
<1>4. MarkSlotsAllocated(a, slot, t) = MarkedTo(a, C, end)
  <2> HIDE DEF a
  <2> QED
    BY <1>3, MarkIs
<1>5. CASE Len(p.stack) >= MaxStackHeight
  <2>1. a = [p EXCEPT !.failed = TRUE]
    BY <1>5 DEF Push, Fail
  <2>2. Push(m, t, slot) = [m EXCEPT !.failed = TRUE]
    BY <1>2, <1>5 DEF Push, Fail
  <2>3. MarkedTo(a, C, end) = [m EXCEPT !.failed = TRUE]
    <3> HIDE DEF C, end, m, a
    <3> QED
      BY <1>1, <2>1 DEF Fields, MarkedTo
  <2> QED
    BY <1>4, <2>2, <2>3
<1>6. CASE ~(Len(p.stack) >= MaxStackHeight)
  <2>1. a = [p EXCEPT !.stack = stack, !.reg = reg]
    BY <1>6 DEF Push
  <2>2. Push(m, t, slot) = [m EXCEPT !.stack = stack, !.reg = reg]
    BY <1>2, <1>6 DEF Push
  <2>3. MarkedTo(a, C, end) = [m EXCEPT !.stack = stack, !.reg = reg]
    <3> HIDE DEF C, end, m, a, stack, reg
    <3> QED
      BY <1>1, <2>1 DEF Fields, MarkedTo
  <2> QED
    BY <1>4, <2>2, <2>3
<1> QED
  BY <1>5, <1>6

\* What is marked is within maxStackSlots, also when it was in use before.
LEMMA MarkedPushCovers ==
  ASSUME NEW p, OK(p), Covers(p), NEW t \in ValueType, NEW slot \in Nat, slot >= p.firstDynamic,
         slot + GetTypeNumSlots(t) <= MaxFunctionSlots,
         NEW m, m = MarkSlotsAllocated(p, slot, t), NEW q, q = Push(m, t, slot)
  PROVE  OK(m) /\ Frame(p, m) /\ OK(q) /\ Frame(p, q) /\ Covers(q)
<1> DEFINE x == [type |-> t, slot |-> slot]
           end == slot + GetTypeNumSlots(t)
<1>1. /\ Close(p, m) /\ m.reach = p.reach /\ m.values = p.values
      /\ m.top = (IF p.top >= end THEN p.top ELSE end)
      /\ m.maxSlots = (IF p.maxSlots >= end THEN p.maxSlots ELSE end)
  BY MarkFacts DEF OK
<1>2. OK(m) /\ Frame(p, m)
  BY <1>1, CloseOK DEF Close
<1>3. /\ m.stack = p.stack /\ m.failed = p.failed /\ m.firstDynamic = p.firstDynamic
      /\ m.firstConst = p.firstConst
  BY <1>1 DEF Close, Frame
<1>4. x \in Item /\ x.slot = slot /\ Ends(x) = end
  BY DEF Item, Ends
<1>5. /\ p.firstDynamic \in Nat /\ p.top \in Nat /\ p.maxSlots \in Nat /\ p.firstConst <= p.firstDynamic
      /\ Len(p.stack) \in Nat /\ p.stack \in Seq(Item) /\ p.firstConst \in Nat
  BY CountFacts, Numbers
<1>6. end \in Nat
  BY Types
<1> HIDE DEF end, x
<1>7. OK(q) /\ Frame(m, q)
  <2>1. ~(slot < m.firstConst)
    BY <1>3, <1>5
  <2> QED
    BY <1>2, <2>1, PushSlot
<1>8. Frame(p, q)
  BY <1>2, <1>7 DEF Frame
<1>9. /\ q.top = m.top /\ q.maxSlots = m.maxSlots /\ q.reach = m.reach /\ q.values = m.values
      /\ q.stack = p.stack \/ q.stack = Append(p.stack, x)
  <2>1. CASE Len(p.stack) < MaxStackHeight
    BY <1>2, <1>3, <2>1, PushIs DEF x
  <2>2. CASE ~(Len(p.stack) < MaxStackHeight)
    <3>1. Len(m.stack) >= MaxStackHeight
      BY <1>3, <1>5, <2>2, Numbers
    <3>2. q = Fail(m)
      BY <3>1 DEF Push
    <3> QED
      BY ZenonT(40), <1>2, <1>3, <3>2, FailFacts
  <2> QED
    BY <2>1, <2>2
<1>10. /\ q.top <= q.maxSlots /\ q.maxSlots >= p.maxSlots /\ end <= q.maxSlots
  <2>1. p.top <= p.maxSlots
    BY DEF Covers
  <2> QED
    BY <1>1, <1>5, <1>6, <1>9, <2>1
<1>11. \A i \in 1 .. Len(q.stack) :
         \/ i <= Len(p.stack) /\ q.stack[i] = p.stack[i]
         \/ Ends(q.stack[i]) <= q.maxSlots
  <2>1. CASE q.stack = p.stack
    BY <1>5, <2>1
  <2>2. CASE q.stack = Append(p.stack, x)
    <3>1. SUFFICES ASSUME NEW i \in 1 .. Len(q.stack)
                   PROVE  \/ i <= Len(p.stack) /\ q.stack[i] = p.stack[i]
                          \/ Ends(q.stack[i]) <= q.maxSlots
      OBVIOUS
    <3>2. i <= Len(p.stack) => q.stack[i] = p.stack[i]
      BY <1>5, <2>2, <3>1
    <3>3. i > Len(p.stack) => q.stack[i] = x
      BY <1>5, <2>2, <3>1
    <3>4. i \in Nat
      BY <3>1
    <3> QED
      BY <1>4, <1>5, <1>10, <3>2, <3>3, <3>4
  <2> QED
    BY <1>9, <2>1, <2>2
<1>12. Covers(q)
  <2>1. Reached(p, q)
    BY <1>1, <1>9 DEF Reached
  <2> QED
    BY <1>7, <1>10, <1>11, <2>1, CoversMore
<1> QED
  BY <1>2, <1>7, <1>8, <1>12

\* Nothing is in use from there on.
LEMMA HighestIs ==
  ASSUME NEW p, OK(p), NEW top, top = GetMaxUsedSlotPlusOne(p)
  PROVE  /\ top \in Nat /\ p.firstDynamic <= top /\ top <= p.top
         /\ \A s \in p.firstDynamic .. MaxFunctionSlots - 1 : s >= top => s >= p.top \/ p.count[s] = 0
<1> DEFINE f == p.firstDynamic
           g == p.top
           used == {s \in f .. g - 1 : s \in DOMAIN p.count => p.count[s] # 0}
<1>1. f \in Nat /\ g \in Nat /\ f <= g
  BY DEF OK, Typed, Bounds
<1>2. top = IF used = {} THEN Min({g, f}) ELSE Max(used) + 1
  BY DEF GetMaxUsedSlotPlusOne
<1>3. used \subseteq f .. g - 1
  OBVIOUS
<1>4. \A s \in f .. MaxFunctionSlots - 1 : s < g => s \in used \/ p.count[s] = 0
  <2>1. SUFFICES ASSUME NEW s \in f .. MaxFunctionSlots - 1, s < g, p.count[s] # 0 PROVE s \in used
    OBVIOUS
  <2> QED
    BY SMTT(40), <1>1, <2>1, Numbers
<1> HIDE DEF used, f, g
<1>5. top \in Nat /\ f <= top
  BY HighestUsed DEF f
<1>6. CASE used = {}
  <2>1. Min({g, f}) = IF g <= f THEN g ELSE f
    BY <1>1, MinOfTwo
  <2>2. top <= g
    BY <2>1, <1>1, <1>2, <1>6
  <2>3. \A s \in f .. MaxFunctionSlots - 1 : s >= g \/ p.count[s] = 0
    BY <1>1, <1>4, <1>6, Numbers
  <2> QED
    BY <1>5, <2>2, <2>3 DEF f, g
<1>7. CASE used # {}
  <2>1. g - 1 \in Int
    BY <1>1
  <2>2. Max(used) \in used /\ \A y \in used : y <= Max(used)
    BY <2>1, <1>1, <1>3, <1>7, GreatestInRange
  <2>3. Max(used) \in f .. g - 1
    BY <2>2, <1>3
  <2>4. top <= g
    BY <2>3, <1>1, <1>2, <1>7
  <2>5. \A s \in f .. MaxFunctionSlots - 1 : s >= top => s >= g \/ p.count[s] = 0
    <3>1. SUFFICES ASSUME NEW s \in f .. MaxFunctionSlots - 1, s >= top, s < g, p.count[s] # 0 PROVE FALSE
      BY <1>1, Numbers
    <3>2. s \in used
      BY <1>4, <3>1
    <3>3. s <= Max(used)
      BY <2>2, <3>2
    <3> QED
      BY <1>1, <1>2, <1>7, <2>3, <3>1, <3>3, Numbers
  <2> QED
    BY <1>5, <2>4, <2>5 DEF f, g
<1> QED
  BY <1>6, <1>7

\* A call sets slotMaxAllocatedIndexPlusOne, and the number of its values is noted.
Lowered(p, top, values) == [p EXCEPT !.top = top, !.values = values]

\* That may be done.
LEMMA LowerTop ==
  ASSUME NEW p, OK(p), Counts(p), NEW top, top = GetMaxUsedSlotPlusOne(p),
         NEW values \in Nat, p.values <= values, NEW q, q = Lowered(p, top, values)
  PROVE  OK(q) /\ Frame(p, q) /\ Counts(q) /\ q.top = top /\ q.values = values
<1>1. /\ top \in Nat /\ p.firstDynamic <= top /\ top <= p.top
      /\ \A s \in p.firstDynamic .. MaxFunctionSlots - 1 : s >= top => s >= p.top \/ p.count[s] = 0
  BY HighestIs
<1>2. OK(q) /\ Frame(p, q)
  BY <1>1, WithTop DEF Lowered
<1>3. /\ q.stack = p.stack /\ q.count = p.count /\ q.top = top /\ q.maxSlots = p.maxSlots
      /\ q.reach = p.reach /\ q.values = values /\ q.failed = p.failed
  <2>1. DOMAIN p = Fields
    BY DEF OK, Typed
  <2> QED
    BY <2>1 DEF Lowered, Fields
<1>4. top <= p.maxSlots
  <2>1. p.top <= p.maxSlots
    BY DEF Counts, Covers
  <2> QED
    BY <1>1, <2>1, CountFacts
<1>5. Same(p, q)
  <2>1. p.maxSlots \in Nat /\ p.maxSlots <= p.maxSlots /\ q.maxSlots >= p.maxSlots
    BY <1>3, CountFacts
  <2>2. Within(p.reach, p.maxSlots, values)
    BY <2>1, WithinGrows DEF Counts, Covers
  <2>3. Reached(p, q)
    BY <1>3, <2>2 DEF Reached
  <2> QED
    BY <1>1, <1>2, <1>3, <1>4, <2>1, <2>3 DEF Same
<1> QED
  BY <1>2, <1>3, <1>5, SameCounts

\* Nothing is in use behind all slots in use.
LEMMA BehindFree ==
  ASSUME NEW p, OK(p), ~p.failed, Counts(p), NoSharing, NEW s \in Nat, s >= p.top, s < MaxFunctionSlots
  PROVE  p.count[s] = 0
<1>1. Tally(p.stack, LiveIn(p.blocks, Len(p.stack)), p.count, p.top, p.firstDynamic)
  BY DEF Counts, Accounted, Acc
<1>2. s \in p.firstDynamic .. MaxFunctionSlots - 1
  BY CountFacts, Numbers
<1> QED
  BY <1>1, <1>2 DEF Tally

\* A result in a slot behind all others.
LEMMA PushRetCounts ==
  ASSUME NEW p, OK(p), Counts(p), NEW t \in ValueType, NEW slot \in Nat, slot >= p.top,
         slot + 2 <= MaxFunctionSlots
  PROVE  Counts(PushRet(p, t, slot))
<1> DEFINE m == MarkSlotsAllocated(p, slot, t)
           q == Push(m, t, slot)
           x == [type |-> t, slot |-> slot]
<1>1. slot + GetTypeNumSlots(t) <= MaxFunctionSlots /\ slot + GetTypeNumSlots(t) - 1 \in Nat
      /\ slot + GetTypeNumSlots(t) - 1 >= slot /\ slot < MaxFunctionSlots
      /\ slot + GetTypeNumSlots(t) - 1 < MaxFunctionSlots
  BY Types, Numbers
<1>2. p.firstDynamic \in Nat /\ p.top \in Nat /\ p.firstDynamic <= p.top /\ slot >= p.firstDynamic
  BY CountFacts, Numbers
<1>3. PushRet(p, t, slot) = q
  <2>1. DOMAIN p = Fields /\ p.wild = FALSE
    BY DEF OK, Typed
  <2> QED
    BY <1>1, <2>1, MarkThenPush DEF PushRet
<1>4. OK(m) /\ Frame(p, m) /\ OK(q) /\ Frame(p, q) /\ Covers(q)
  BY <1>1, <1>2, MarkedPushCovers DEF Counts
<1>5. ASSUME NoSharing, ~q.failed PROVE Counts(q)
  <2>1. ~p.failed
    BY <1>4, <1>5 DEF Frame
  <2>2. p.count[slot] = 0 /\ p.count[slot + GetTypeNumSlots(t) - 1] = 0
    <3>1. slot + GetTypeNumSlots(t) - 1 >= p.top
      BY <1>1, <1>2, Types
    <3>2. ASSUME NEW s \in Nat, s >= p.top, s < MaxFunctionSlots PROVE p.count[s] = 0
      BY <1>5, <2>1, <3>2, BehindFree
    <3> QED
      BY <1>1, <3>1, <3>2
  <2>3. Comes(p, q)
    BY <1>1, <1>2, <2>2, FreshPush
  <2>4. Pushed(p, q, x)
    <3>1. m.firstConst = p.firstConst /\ m.stack = p.stack /\ m.failed = p.failed
      BY <1>1, MarkFacts DEF Close, Frame, OK
    <3>2. ~(slot < m.firstConst)
      BY <1>2, <3>1, CountFacts
    <3> HIDE DEF m
    <3>3. Pushed(m, q, x)
      BY <1>1, <1>4, <3>2, PushSlot
    <3> QED
      BY <3>1, <3>3 DEF Pushed
  <2>5. FirstReference(p.stack, x, p.firstConst)
    <3>1. x.slot \in Nat /\ x.slot >= p.firstDynamic
      BY <1>2
    <3> QED
      BY <3>1, NoReference
  <2> HIDE DEF m, q, x
  <2> QED
    BY <1>4, <2>3, <2>4, <2>5, ComesCounts
<1> QED
  BY <1>3, <1>4, <1>5 DEF Counts

\* No call has more than one.
LEMMA PushRetsCounts ==
  ASSUME NEW p, OK(p), Counts(p), NEW frame \in Nat, frame >= p.top, NEW rets \in Seq(ValueType),
         Len(rets) <= 1, frame + 2 * Len(rets) <= MaxFunctionSlots
  PROVE  Counts(PushRets(p, frame, rets))
<1>1. Len(rets) \in Nat
  OBVIOUS
<1>2. PICK f : /\ f[0] = p
               /\ \A k \in 1 .. Len(rets) : f[k] = PushRet(f[k - 1], rets[k], frame + 2 * (k - 1))
               /\ PushRets(p, frame, rets) = f[Len(rets)]
  BY <1>1, PushRetsSteps
<1>3. CASE Len(rets) = 0
  BY <1>2, <1>3
<1>4. CASE Len(rets) = 1
  <2>1. rets[1] \in ValueType
    BY SMTT(40), <1>4, ElementOfSeq
  <2>3. frame + 2 <= MaxFunctionSlots
    <3>1. frame + 2 * 1 <= MaxFunctionSlots
      BY <1>4
    <3> QED
      BY <3>1
  <2>2. f[1] = PushRet(p, rets[1], frame)
    BY <1>2, <1>4
  <2> QED
    BY <1>2, <1>4, <2>1, <2>2, <2>3, PushRetCounts
<1> DEFINE l == Len(rets)
<1>5. l = 0 \/ l = 1
  <2>1. l \in Nat /\ l <= 1
    BY <1>1
  <2> HIDE DEF l
  <2> QED
    BY <2>1
<1> QED
  BY <1>5, <1>3, <1>4

\* Which slots are in use does not matter to those that do this.
SameTop(p, q) == q.top = p.top /\ q.maxSlots = p.maxSlots /\ q.values = p.values

\* Pop gives no room back.
LEMMA PopTops ==
  ASSUME NEW p, OK(p)
  PROVE  SameTop(p, Pop(p))
<1>1. /\ Len(p.stack) \in Nat /\ Base(p.blocks) \in Nat /\ Base(p.blocks) <= Len(p.stack)
      /\ BlockHeight(p) = Len(p.stack) - Base(p.blocks)
  BY Height
<1>2. CASE Len(p.stack) > Base(p.blocks)
  BY <1>2, PopIs DEF SameTop
<1>3. CASE Len(p.stack) = Base(p.blocks)
  <2>1. BlockHeight(p) = 0
    BY <1>1, <1>3
  <2>2. Pop(p) = p \/ Pop(p) = Fail(p)
    BY <2>1 DEF Pop
  <2> QED
    BY <2>2, FailFacts DEF SameTop
<1> QED
  BY <1>1, <1>2, <1>3

\* None of a number of pops does.
LEMMA PopNTops ==
  ASSUME NEW p, OK(p), NEW len \in Nat
  PROVE  SameTop(p, PopN(p, len))
<1>1. PICK f : /\ f[0] = p /\ \A k \in 1 .. len : f[k] = Pop(f[k - 1])
               /\ PopN(p, len) = f[len]
  BY PopNSteps
<1> DEFINE S == {k \in 0 .. len : OK(f[k]) /\ SameTop(p, f[k])}
<1>2. 0 \in S
  BY <1>1 DEF SameTop
<1>3. ASSUME NEW k \in 1 .. len, k - 1 \in S
      PROVE  k \in S
  <2>1. OK(Pop(f[k - 1])) /\ SameTop(f[k - 1], Pop(f[k - 1]))
    BY <1>3, PopOK, PopTops
  <2> QED
    BY <1>1, <1>3, <2>1 DEF SameTop
<1> HIDE DEF S
<1>4. \A k \in 0 .. len : k \in S
  BY <1>2, <1>3, UpTo
<1> QED
  BY <1>1, <1>4 DEF S

\* An argument is copied behind all slots in use.
LEMMA CopyArgCounts ==
  ASSUME NEW p, OK(p), Counts(p), NEW slot \in Nat, slot + 2 <= Reg0,
         slot + 2 <= Limit(p.maxSlots, p.values)
  PROVE  LET q == CopyArg(p, slot) IN Counts(q) /\ SameTop(p, q)
<1> DEFINE i == Len(p.stack)
           t == p.stack[i].type
           end == slot + GetTypeNumSlots(t)
           words == Read(p, p.stack[i])
           a == CopyToSlot(p, slot, i)
<1>1. end \in Nat /\ end <= slot + 2 /\ Len(words) \in Nat /\ slot + Len(words) = end
  <2>1. Len(words) = GetTypeNumSlots(t)
    BY ReadLength
  <2>2. GetTypeNumSlots(t) \in 1 .. 2
    BY Types
  <2> HIDE DEF words, t
  <2> QED
    BY <2>1, <2>2
<1>2. end <= Reg0 /\ InReach(p, end)
  <2> DEFINE l == Limit(p.maxSlots, p.values)
  <2>1. p.maxSlots \in Nat /\ p.values \in Nat
    BY CountFacts DEF Counts, Covers, Within
  <2>2. l \in Nat
    BY <2>1, LimitGrows
  <2>3. slot + 2 <= l
    OBVIOUS
  <2> HIDE DEF end, l
  <2>4. end <= Reg0 /\ end <= l
    BY <1>1, <2>2, <2>3, Numbers
  <2> QED
    BY <2>4 DEF InReach, l
<1>3. Counts(a) /\ OK(a)
  <2> HIDE DEF i
  <2> QED
    BY <1>2, CopyCounts
<1>4. SameTop(p, a)
  <2>1. DOMAIN p = Fields
    BY DEF OK, Typed
  <2>2. slot + Len(words) <= Reg0
    BY <1>1, <1>2
  <2>3. a = WriteSlot(p, slot, words)
    BY DEF CopyToSlot
  <2> HIDE DEF a, words
  <2> QED
    BY <1>1, <2>1, <2>2, <2>3, WriteSlotIs DEF SameTop
<1>5. CopyArg(p, slot) = Pop(a)
  BY DEF CopyArg
<1> HIDE DEF a
<1>6. Counts(Pop(a)) /\ SameTop(a, Pop(a))
  BY <1>3, PopCounts, PopTops
<1> QED
  BY <1>4, <1>5, <1>6 DEF SameTop

\* Where the frame of the callee is: behind all slots in use, and within the limit.
MayCount(p, frame, args, rets) ==
  /\ MayCall(p, frame, args, rets) /\ Counts(p)
  /\ frame + 2 * (args + Len(rets)) <= Limit(p.maxSlots, p.values)

\* All arguments.
LEMMA CopyArgsCounts ==
  ASSUME NEW p, NEW frame, NEW args, NEW rets, MayCount(p, frame, args, rets)
  PROVE  LET q == CopyArgs(p, frame, args, Len(rets)) IN Counts(q) /\ SameTop(p, q)
<1> DEFINE l == Len(rets)
<1>1. OK(p) /\ frame \in Nat /\ args \in Nat /\ 2 * args <= CalleeSlots /\ l \in Nat
      /\ frame + 2 * l <= MaxFunctionSlots /\ Counts(p)
      /\ frame + 2 * (args + l) <= Limit(p.maxSlots, p.values)
  BY DEF MayCall, MayCount
<1> HIDE DEF l
<1> DEFINE top == Limit(p.maxSlots, p.values)
<1>2. top \in Nat
  <2>1. p.maxSlots \in Nat /\ p.values \in Nat
    BY <1>1, CountFacts DEF Counts, Covers, Within
  <2>2. p.maxSlots <= p.maxSlots /\ p.values <= p.values
    BY <2>1
  <2> QED
    BY <2>1, <2>2, LimitGrows
<1> HIDE DEF top
<1>3. PICK f : /\ f[0] = p
               /\ \A k \in 1 .. args : f[k] = CopyArg(f[k - 1], ArgSlot(frame, args, l, k))
               /\ CopyArgs(p, frame, args, l) = f[args]
  <2>1. args \in Nat
    BY <1>1
  <2> QED
    BY <2>1, CopyArgsSteps
<1> DEFINE S == {k \in 0 .. args : OK(f[k]) /\ Counts(f[k]) /\ SameTop(p, f[k])}
<1>4. 0 \in S
  BY <1>1, <1>3 DEF SameTop
<1>5. ASSUME NEW k \in 1 .. args, k - 1 \in S PROVE k \in S
  <2> DEFINE a == f[k - 1]
             slot == ArgSlot(frame, args, l, k)
  <2>1. OK(a) /\ Counts(a) /\ SameTop(p, a) /\ k \in 0 .. args
    BY <1>1, <1>5
  <2>2. slot \in Nat /\ slot + 2 <= Reg0 /\ slot + 2 <= frame + 2 * (args + l)
    BY <1>1, Numbers DEF ArgSlot
  <2>3. f[k] = CopyArg(a, slot)
    BY <1>3
  <2> HIDE DEF a, slot
  <2>4. slot + 2 <= Limit(a.maxSlots, a.values)
    <3>1. a.maxSlots = p.maxSlots /\ a.values = p.values
      BY <2>1 DEF SameTop
    <3>2. frame + 2 * (args + l) <= top
      BY <1>1 DEF top
    <3>3. slot + 2 <= top
      BY <1>1, <1>2, <2>2, <3>2
    <3> QED
      BY <3>1, <3>3 DEF top
  <2>5. OK(f[k])
    BY <2>1, <2>2, <2>3, CopyArgOK
  <2>6. Counts(f[k]) /\ SameTop(a, f[k])
    BY <2>1, <2>2, <2>3, <2>4, CopyArgCounts
  <2>7. SameTop(p, f[k])
    BY <2>1, <2>6 DEF SameTop
  <2> QED
    BY <2>1, <2>5, <2>6, <2>7
<1>6. args \in S
  <2> HIDE DEF S
  <2>1. \A k \in 0 .. args : k \in S
    BY <1>1, <1>4, <1>5, UpTo
  <2> QED
    BY <2>1, <1>1
<1> QED
  BY <1>3, <1>6 DEF l

\* CompileCallArgsAndReturn, and the call.
LEMMA CallFrameCounts ==
  ASSUME NEW p, OK(p), Counts(p), NEW call \in CallTypes, NEW indirect, NEW max,
         max = GetMaxUsedSlotPlusOne(p),
         FrameBehind(max) + 2 * Len(call.rets) <= MaxFunctionSlots
  PROVE  Counts(CallFrame(p, call, indirect, max))
<1> DEFINE args == Len(call.args)
           rets == Len(call.rets)
           frame == FrameBehind(max)
           index == IF indirect THEN <<Top(p, 0)>> ELSE <<>>
           Seen(c) ==
             [k \in 1 .. args |-> Read(c, [type |-> call.args[k], slot |-> frame + 2 * (rets + k - 1)])]
             \o [k \in DOMAIN index |-> Read(c, index[k])]
           m == [p EXCEPT !.top = max, !.values = Max({@, args + rets})]
           popped == PopN(m, Len(index))
           c == CopyArgs(popped, frame, args, rets)
           seen == Seen(c)
           d == Observe(c, seen, LastN(args + Len(index)))
           junk == [k \in 1 .. Reg0 - frame |-> Junk]
           e == Write(d, frame, junk)
           q == PushRets(e, frame, call.rets)
<1>1. CallFrame(p, call, indirect, max) = q
  BY DEF CallFrame, CopyArgs, ArgSlot, PushRets
<1>2. call.args \in Seq(ValueType) /\ call.rets \in Seq(ValueType) /\ 2 * args <= CalleeSlots /\ rets <= 1
  BY SignatureAssumption
<1>3. args \in Nat /\ rets \in Nat
  BY <1>2
<1>4. Len(index) \in Nat
  OBVIOUS
<1> HIDE DEF index, args, rets, Seen
<1>5. p.values \in Nat
  BY DEF Counts, Covers, Within
<1>6. OK(m) /\ Frame(p, m) /\ Counts(m) /\ m.top = max /\ args + rets <= m.values /\ m.values \in Nat
  <2> DEFINE values == Max({p.values, args + rets})
  <2>1. values = IF p.values >= args + rets THEN p.values ELSE args + rets
    BY <1>3, <1>5, MaxOfTwo
  <2>2. m = Lowered(p, max, values)
    BY DEF Lowered
  <2> HIDE DEF values, m
  <2>3. values \in Nat /\ p.values <= values /\ args + rets <= values
    BY <1>3, <1>5, <2>1
  <2>4. OK(m) /\ Frame(p, m) /\ Counts(m) /\ m.top = max /\ m.values = values
    BY <2>2, <2>3, LowerTop
  <2> QED
    BY <2>3, <2>4
<1>7. max \in Nat /\ p.firstDynamic <= max
  BY HighestUsed
<1>8. frame \in Nat /\ max <= frame /\ \A u \in Nat : max <= u => frame <= FrameBehind(u)
  BY <1>7, FrameGrows
<1>9. frame + 2 * rets <= MaxFunctionSlots
  BY DEF rets
<1> HIDE DEF frame, m
<1>10. OK(popped) /\ Frame(m, popped) /\ Counts(popped) /\ SameTop(m, popped)
  BY <1>4, <1>6, PopNOK, PopNCounts, PopNTops
<1> HIDE DEF popped
<1>11. Frame(p, popped)
  BY <1>6, <1>10 DEF Frame
<1>12. frame + 2 * (args + rets) <= Limit(popped.maxSlots, popped.values)
  <2> DEFINE n == popped.maxSlots
             v == popped.values
             g == FrameBehind(n)
             l == Limit(n, v)
  <2>1. n \in Nat /\ popped.top <= n
    BY <1>10, CountFacts DEF Counts, Covers
  <2>2. popped.top = max /\ args + rets <= v /\ v \in Nat
    BY <1>6, <1>10 DEF SameTop
  <2>3. g \in Nat /\ g + 2 * v <= l /\ l \in Nat
    BY <2>1, <2>2, FrameGrows, LimitGrows
  <2>4. frame <= g
    BY <1>8, <2>1, <2>2
  <2> HIDE DEF g, l, n, v
  <2>5. frame + 2 * (args + rets) <= l
    BY <1>3, <1>8, <2>2, <2>3, <2>4
  <2> QED
    BY <2>5 DEF l, n, v
<1>13. MayCount(popped, frame, args, call.rets)
  <2>1. popped.firstDynamic = p.firstDynamic
    BY <1>11 DEF Frame
  <2>2. p.firstDynamic \in Nat /\ p.firstDynamic <= frame
    BY <1>7, <1>8, CountFacts
  <2> QED
    BY <1>2, <1>3, <1>8, <1>9, <1>10, <1>12, <2>1, <2>2 DEF MayCount, MayCall, rets
<1>14. OK(c) /\ Counts(c) /\ SameTop(popped, c)
  BY <1>13, CopyArgsOK, CopyArgsCounts DEF rets, MayCount
<1> HIDE DEF c, seen, junk
<1>15. OK(d) /\ Counts(d)
  BY <1>14, ObserveCounts
<1>16. SameTop(c, d)
  <2>1. DOMAIN c = Fields
    BY <1>14 DEF OK, Typed
  <2> QED
    BY <2>1 DEF Observe, SameTop, Fields
<1> HIDE DEF d
<1>17. OK(e) /\ Counts(e)
  BY <1>15, WriteCounts
<1>18. SameTop(d, e)
  <2>1. DOMAIN d = Fields
    BY <1>15 DEF OK, Typed
  <2> QED
    BY <2>1, WriteAlike DEF SameTop, Alike
<1> HIDE DEF e
<1>19. e.top = max
  BY <1>6, <1>10, <1>14, <1>16, <1>18 DEF SameTop
<1>20. Counts(q)
  <2>1. frame >= e.top
    BY <1>8, <1>19, <1>7
  <2>2. frame + 2 * Len(call.rets) <= MaxFunctionSlots /\ Len(call.rets) <= 1
    BY <1>2, <1>9 DEF rets
  <2> HIDE DEF q
  <2>3. q = PushRets(e, frame, call.rets)
    BY DEF q
  <2> QED
    BY <1>2, <1>8, <1>17, <2>1, <2>2, <2>3, PushRetsCounts
<1> QED
  BY <1>1, <1>20

-----------------------------------------------------------------------------
(* Values that are copied to the slots of results                          *)

\* The counts stay as they are, and maxStackSlots may have been raised.
Spilled(p, q) ==
  /\ q.count = p.count /\ q.top = p.top /\ q.maxSlots \in Nat /\ q.maxSlots >= p.maxSlots
  /\ Reached(p, q) /\ q.values \in Nat

\* One value is copied, to a slot within the margin.
LEMMA ItemSpilled ==
  ASSUME NEW p, p.maxSlots \in Nat, NEW from, NEW q, Copying(p, from, q), Spilled(p, q),
         NEW i \in 1 .. Len(p.stack), NEW dest \in Nat, NEW end,
         end = dest + GetTypeNumSlots(p.stack[i].type),
         end <= MaxFunctionSlots, end <= q.maxSlots + StackMargin
  PROVE  Spilled(p, CopyItem(q, i, dest)) /\ CopyItem(q, i, dest).maxSlots = q.maxSlots
<1> DEFINE words == Read(q, q.stack[i])
           c == CopyToSlot(q, dest, i)
           a == CopyItem(q, i, dest)
<1>1. q.stack[i].type = p.stack[i].type /\ DOMAIN q = Fields /\ q.maxSlots \in Nat
  BY DEF Copying, Typed
<1>2. Len(words) \in Nat /\ dest + Len(words) = end /\ end \in Nat
  <2>1. Len(words) = GetTypeNumSlots(q.stack[i].type)
    BY ReadLength
  <2> HIDE DEF words
  <2> QED
    BY <1>1, <2>1, Types
<1>3. dest + Len(words) <= Reg0
  <2> HIDE DEF words
  <2> QED
    BY <1>2, Numbers
<1>4. c = WriteSlot(q, dest, words)
  BY DEF CopyToSlot
<1> HIDE DEF words, c
<1>5. /\ DOMAIN c = Fields /\ c.count = q.count /\ c.top = q.top /\ c.maxSlots = q.maxSlots
      /\ c.values = q.values /\ c.reach \in {q.reach, dest + Len(words)}
  <2>1. Len(words) \in Nat /\ dest \in Nat
    BY <1>2
  <2> QED
    BY ONLY <1>1, <2>1, <1>3, <1>4, WriteSlotIs
<1>6. Reached(p, c)
  <2>1. q.values \in Nat /\ Reached(p, q)
    BY DEF Spilled
  <2>2. Within(end, q.maxSlots, q.values)
    BY <1>1, <1>2, <2>1, InReachWithin DEF InReach
  <2> QED
    BY <1>2, <1>5, <2>1, <2>2 DEF Reached
<1>7. a.count = c.count /\ a.top = c.top /\ a.maxSlots = c.maxSlots /\ a.reach = c.reach /\ a.values = c.values
  <2>1. a = [c EXCEPT !.stack[i].slot = dest]
    BY DEF CopyItem, c
  <2> HIDE DEF a
  <2> QED
    BY <1>5, <2>1 DEF Fields
<1> HIDE DEF a
<1>8. Spilled(p, a) /\ a.maxSlots = q.maxSlots
  BY <1>5, <1>6, <1>7 DEF Spilled, Reached
<1> QED
  BY <1>8 DEF a

\* The temporary slots are those right behind maxStackSlots.
SpillState(p, from, s) == CopyState(p, from, s) /\ Spilled(p, s.o) /\ s.temp <= s.o.maxSlots + 1

\* The k-th value is copied to a slot of the function.
Covered(p, target, from, len, k) ==
  /\ OK(p) /\ Copied(p, target, from, len, k)
  /\ p.stack[target + k - 1].slot <= p.maxSlots

\* A step of the loop.
LEMMA NextSpilled ==
  ASSUME NEW p, NEW target, NEW from, NEW len, NEW k, Covered(p, target, from, len, k),
         NEW s, SpillState(p, from, s)
  PROVE  SpillState(p, from, CopyNext(s, target, from, len, k))
<1> DEFINE i == from + k - 1
           d == target + k - 1
           dest == s.o.stack[d].slot
           end == dest + GetTypeNumSlots(s.o.stack[i].type) - 1
           moved(c) == [CopyItem(s.o, c, s.temp) EXCEPT !.maxSlots = Max({@, s.temp + 2})]
           colliding == {c \in i + 1 .. from + len - 1 :
                           \/ dest \in SlotsOf(s.o.stack[c])
                           \/ end = s.o.stack[c].slot}
           after == IF colliding = {} THEN [s EXCEPT !.o = CopyItem(@, i, dest)]
                    ELSE IF s.temp >= MaxFunctionSlots THEN [s EXCEPT !.o = Fail(@)]
                    ELSE [o |-> CopyItem(moved(Min(colliding)), i, dest), temp |-> s.temp + 2]
           x == CopyNext(s, target, from, len, k)
<1>0. /\ Copied(p, target, from, len, k) /\ p.stack[d].slot <= p.maxSlots /\ CopyState(p, from, s)
      /\ Spilled(p, s.o) /\ s.temp <= s.o.maxSlots + 1
  BY DEF Covered, SpillState
<1>00. CopyState(p, from, x)
  BY <1>0, CopyNextOK
<1>1. x = IF s.o.failed \/ dest = s.o.stack[i].slot THEN s ELSE after
  BY DEF CopyNext
<1>2. /\ len \in Nat /\ target \in Nat /\ from \in Nat /\ target >= 1
      /\ from + len <= Len(p.stack) + 1 /\ target + len <= from /\ k \in 1 .. len
      /\ Fits(p.stack[d], p.stack[i].type)
  BY <1>0 DEF Copied
<1>3. Copying(p, from, s.o) /\ s.temp \in Nat /\ s.temp % 2 = 0 /\ s = [o |-> s.o, temp |-> s.temp]
  BY <1>0 DEF CopyState
<1>15. Copying(p, from, s.o) /\ s.temp \in Nat
  BY <1>3
<1>4. Len(p.stack) \in Nat /\ Len(s.o.stack) = Len(p.stack)
  BY <1>3 DEF Copying, Typed, StackOk
<1>5. i \in 1 .. Len(p.stack) /\ i >= from /\ d \in 1 .. Len(p.stack) /\ d < from
  BY SMTT(40), <1>2, <1>4
<1>6. s.o.stack[d] = p.stack[d] /\ s.o.stack[i].type = p.stack[i].type
  BY <1>3, <1>5 DEF Copying
<1> DEFINE g == GetTypeNumSlots(p.stack[i].type)
<1>7. dest \in Nat /\ dest + g <= MaxFunctionSlots /\ dest <= p.maxSlots
  BY <1>0, <1>2, <1>6 DEF Fits
<1>8. g \in 1 .. 2 /\ p.maxSlots \in Nat /\ s.o.maxSlots \in Nat /\ s.o.maxSlots >= p.maxSlots
      /\ StackMargin = 5
  BY <1>0, Types, CountFacts DEF Covered, Spilled, StackMargin
<1>9. colliding \subseteq i + 1 .. from + len - 1
  OBVIOUS
<1> HIDE DEF dest, end, d, x, moved, colliding, g
<1>10. dest + g <= s.o.maxSlots + StackMargin
  BY <1>7, <1>8
<1>11. CASE s.o.failed \/ dest = s.o.stack[i].slot
  BY <1>1, <1>11 DEF x
<1>12. CASE ~(s.o.failed \/ dest = s.o.stack[i].slot) /\ colliding = {}
  <2> DEFINE a == CopyItem(s.o, i, dest)
             e == dest + g
  <2>1. e = dest + GetTypeNumSlots(p.stack[i].type)
    BY DEF g
  <2> HIDE DEF i, e
  <2>2. e <= MaxFunctionSlots /\ e <= s.o.maxSlots + StackMargin
    BY <1>7, <1>10 DEF e
  <2>3. Spilled(p, a) /\ a.maxSlots = s.o.maxSlots
    BY <1>0, <1>15, <1>5, <1>7, <1>8, <2>1, <2>2, ItemSpilled
  <2> HIDE DEF a
  <2>4. x = [o |-> a, temp |-> s.temp]
    <3>1. x = [s EXCEPT !.o = a]
      BY <1>1, <1>12 DEF a
    <3> QED
      BY <3>1, <1>3
  <2>5. x.o = a /\ x.temp = s.temp
    BY <2>4
  <2> QED
    BY <1>0, <1>00, <2>3, <2>5 DEF SpillState, x
<1>13. CASE ~(s.o.failed \/ dest = s.o.stack[i].slot) /\ colliding # {} /\ s.temp >= MaxFunctionSlots
  <2> DEFINE a == Fail(s.o)
  <2>1. Spilled(p, a) /\ a.maxSlots = s.o.maxSlots
    <3>1. DOMAIN s.o = Fields
      BY <1>3 DEF Copying, Typed
    <3> QED
      BY <1>0, <3>1 DEF Spilled, Reached, Fail, Fields
  <2> HIDE DEF a, i
  <2>2. x = [o |-> a, temp |-> s.temp]
    <3>1. x = [s EXCEPT !.o = a]
      BY <1>1, <1>13 DEF a
    <3> QED
      BY <3>1, <1>3
  <2>3. x.o = a /\ x.temp = s.temp
    BY <2>2
  <2> QED
    BY <1>0, <1>00, <2>1, <2>3 DEF SpillState, x
<1>14. CASE ~(s.o.failed \/ dest = s.o.stack[i].slot) /\ colliding # {} /\ ~(s.temp >= MaxFunctionSlots)
  <2> DEFINE c == Min(colliding)
             a == CopyItem(s.o, c, s.temp)
             m == Max({a.maxSlots, s.temp + 2})
             b == [a EXCEPT !.maxSlots = m]
             e == CopyItem(b, i, dest)
             low == i + 1
             high == from + len - 1
             h == GetTypeNumSlots(p.stack[c].type)
  <2>1. c \in 1 .. Len(p.stack) /\ c >= from
    <3>1. low \in Nat /\ high \in Int /\ colliding \subseteq low .. high
      BY <1>2, <1>5, <1>9
    <3>2. colliding # {}
      BY <1>14
    <3>3. c \in colliding
      <4> HIDE DEF low, high
      <4> QED
        BY <3>1, <3>2, LeastInRange
    <3>4. c \in i + 1 .. from + len - 1
      BY <3>3, <1>9
    <3> DEFINE n == Len(p.stack)
    <3>5. n \in Nat /\ i \in 1 .. n /\ i >= from /\ from + len <= n + 1
      BY <1>2, <1>4, <1>5
    <3>6. c \in i + 1 .. from + len - 1 /\ from \in Nat /\ len \in Nat
      BY <3>4, <1>2
    <3> HIDE DEF c, n, i
    <3>7. c \in 1 .. n /\ c >= from
      BY <3>5, <3>6
    <3> QED
      BY <3>7 DEF n
  <2>2. s.temp + 2 <= MaxFunctionSlots
    BY <1>3, <1>14, EvenRoom, LimitsAssumption
  <2>3. h \in 1 .. 2
    BY Types
  <2> DEFINE u == s.temp + h
  <2>4. u = s.temp + GetTypeNumSlots(p.stack[c].type)
    OBVIOUS
  <2> HIDE DEF c, i, h, u
  <2>5. u <= MaxFunctionSlots /\ u <= s.o.maxSlots + StackMargin
    <3>1. s.temp <= s.o.maxSlots + 1 /\ s.temp \in Nat /\ s.o.maxSlots \in Nat
      BY <1>0, <1>3, <1>8
    <3>2. StackMargin = 5 /\ MaxFunctionSlots \in Nat
      BY Numbers DEF StackMargin
    <3> QED
      BY ONLY <3>1, <3>2, <2>2, <2>3 DEF u
  <2>6. Copying(p, from, a)
    BY <1>2, <1>3, <2>1, <2>4, <2>5, CopyItemOK
  <2>7. Spilled(p, a) /\ a.maxSlots = s.o.maxSlots
    BY SMTT(60), <1>0, <1>15, <1>8, <2>1, <2>4, <2>5, ItemSpilled
  <2> HIDE DEF a
  <2>8. m \in Nat /\ m >= a.maxSlots /\ m >= s.temp + 2
    <3>1. s.temp + 2 \in Int /\ a.maxSlots \in Int
      BY <1>3, <1>8, <2>7
    <3>2. m = IF a.maxSlots >= s.temp + 2 THEN a.maxSlots ELSE s.temp + 2
      BY <3>1, MaxOfTwo
    <3> QED
      BY <1>3, <1>8, <2>7, <3>2
  <2> HIDE DEF m
  <2>9. Copying(p, from, b)
    BY <2>6, <2>8, CopyingRaised
  <2>10. b.count = a.count /\ b.top = a.top /\ b.maxSlots = m /\ b.reach = a.reach /\ b.values = a.values
    <3>1. DOMAIN a = Fields
      BY <2>6 DEF Copying, Typed
    <3> QED
      BY <3>1 DEF Fields
  <2> HIDE DEF b
  <2>11. Spilled(p, b) /\ b.maxSlots >= s.o.maxSlots
    <3>1. a.maxSlots \in Nat /\ a.values \in Nat /\ a.values <= a.values /\ Reached(p, a)
      BY <2>7 DEF Spilled
    <3>2. Within(a.reach, a.maxSlots, a.values) => Within(b.reach, b.maxSlots, b.values)
      BY <2>8, <2>10, <3>1, WithinGrows
    <3>3. Reached(p, b)
      BY <2>10, <3>1, <3>2 DEF Reached
    <3> QED
      BY <1>8, <2>7, <2>8, <2>10, <3>3 DEF Spilled
  <2> DEFINE v == dest + g
  <2>12. v = dest + GetTypeNumSlots(p.stack[i].type)
    BY DEF g
  <2> HIDE DEF v
  <2>13. v <= MaxFunctionSlots /\ v <= b.maxSlots + StackMargin
    BY <1>7, <1>8, <1>10, <2>8, <2>10, <2>11 DEF v
  <2>14. Spilled(p, e) /\ e.maxSlots = b.maxSlots
    BY <1>5, <1>7, <1>8, <2>9, <2>11, <2>12, <2>13, ItemSpilled
  <2> HIDE DEF e
  <2>15. x = [o |-> e, temp |-> s.temp + 2]
    <3>1. x = [o |-> CopyItem(moved(Min(colliding)), i, dest), temp |-> s.temp + 2]
      BY <1>1, <1>14
    <3>2. moved(Min(colliding)) = b
      BY DEF moved, b, m, a, c
    <3> QED
      BY <3>1, <3>2 DEF e
  <2>16. x.o = e /\ x.temp = s.temp + 2
    BY <2>15
  <2>17. s.temp + 2 <= e.maxSlots + 1
    BY <1>3, <2>8, <2>10, <2>14
  <2> QED
    BY <1>00, <2>14, <2>16, <2>17 DEF SpillState, x
<1> QED
  BY <1>11, <1>12, <1>13, <1>14 DEF x

\* Then the counts are as before.
LEMMA SpilledCounts ==
  ASSUME NEW p, OK(p), Counts(p), NEW q, OK(q), Frame(p, q), q.stack = p.stack, Spilled(p, q)
  PROVE  Counts(q)
<1>1. /\ q.count = p.count /\ q.top = p.top /\ q.maxSlots >= p.maxSlots
      /\ Reached(p, q)
  BY DEF Spilled
<1>2. p.top \in Nat /\ p.maxSlots \in Nat /\ q.maxSlots \in Nat /\ Len(p.stack) \in Nat
  BY CountFacts
<1>3. q.top <= q.maxSlots
  <2>1. p.top <= p.maxSlots
    BY DEF Counts, Covers
  <2> QED
    BY <1>1, <1>2, <2>1
<1>4. Covers(q)
  <2>1. \A i \in 1 .. Len(q.stack) : i <= Len(p.stack) /\ q.stack[i] = p.stack[i]
    BY <1>2
  <2>2. Covers(p)
    BY DEF Counts
  <2> QED
    BY <1>1, <1>3, <2>1, <2>2, CoversMore
<1>5. CASE q.failed
  BY <1>4, <1>5 DEF Counts
<1>6. CASE ~q.failed
  <2>1. p.failed \in BOOLEAN /\ q.failed \in BOOLEAN
    BY DEF OK, Typed
  <2>2. q.failed = p.failed
    BY <1>6, <2>1 DEF Frame
  <2>3. \A s \in p.firstDynamic .. MaxFunctionSlots - 1 :
          q.count[s] = p.count[s] /\ (s >= q.top => s >= p.top \/ p.count[s] = 0)
    BY <1>1
  <2>4. Same(p, q)
    BY <1>1, <1>3, <2>2, <2>3 DEF Same
  <2> QED
    BY <2>4, SameCounts
<1> QED
  BY <1>5, <1>6

\* The slots that values are copied to are those of items.
LEMMA TargetCovered ==
  ASSUME NEW p, OK(p), Counts(p), NEW target, NEW from, NEW len, NEW k, Copied(p, target, from, len, k)
  PROVE  Covered(p, target, from, len, k)
<1> DEFINE d == target + k - 1
           t == p.stack[from + k - 1].type
           g == GetTypeNumSlots(t)
<1>1. /\ len \in Nat /\ target \in Nat /\ from \in Nat /\ target >= 1
      /\ from + len <= Len(p.stack) + 1 /\ target + len <= from /\ k \in 1 .. len
      /\ p.stack[d].slot \in Nat /\ p.stack[d].slot + g <= MaxFunctionSlots
  BY DEF Copied, Fits
<1>2. Len(p.stack) \in Nat /\ p.maxSlots \in Nat
  BY CountFacts
<1>3. d \in 1 .. Len(p.stack)
  BY SMTT(40), <1>1, <1>2
<1>4. g \in 1 .. 2
  BY Types
<1> DEFINE slot == p.stack[d].slot
<1> HIDE DEF d, g, t
<1>5. slot \notin Registers
  <2>1. slot \in Nat /\ slot + g <= MaxFunctionSlots
    BY <1>1
  <2> HIDE DEF slot
  <2> QED
    BY ONLY <2>1, <1>4, Numbers, SMTT(40)
<1>6. Ends(p.stack[d]) <= p.maxSlots
  BY <1>3, <1>5 DEF Counts, Covers
<1>7. p.stack[d].slot < Ends(p.stack[d]) /\ Ends(p.stack[d]) \in Nat
  <2>1. p.stack[d] \in Item
    BY <1>3, InSlotsOrRegister
  <2> QED
    BY <2>1, SlotsOfItem
<1>8. p.stack[d].slot <= p.maxSlots
  BY <1>1, <1>2, <1>6, <1>7
<1> QED
  BY <1>8 DEF Covered, d

\* CopyStackSlotsR
LEMMA CopyStackSlotsCounts ==
  ASSUME NEW p, OK(p), Counts(p), NEW target, NEW from, NEW len, MayCopy(p, target, from, len)
  PROVE  Counts(CopyStackSlots(p, target, from, len))
<1>1. len \in Nat
  BY DEF MayCopy
<1>2. PICK f : /\ f[0] = [o |-> p, temp |-> AlignSlotToType(p.maxSlots, "i64")]
               /\ \A k \in 1 .. len : f[k] = CopyNext(f[k - 1], target, from, len, k)
               /\ CopyStackSlots(p, target, from, len) = [f[len].o EXCEPT !.stack = p.stack]
  BY <1>1, CopyStackSlotsSteps
<1>3. Spilled(p, p)
  <2>1. p.maxSlots \in Nat /\ p.values \in Nat
    BY CountFacts DEF Counts, Covers, Within
  <2> QED
    BY <2>1 DEF Spilled, Reached
<1>4. SpillState(p, from, f[0])
  <2> DEFINE temp == AlignSlotToType(p.maxSlots, "i64")
             m == p.maxSlots
  <2>1. m \in Nat
    BY CountFacts
  <2>2. temp \in m .. m + 1 /\ temp % 2 = 0
    BY <2>1, Even
  <2> HIDE DEF temp, m
  <2>3. temp \in Nat /\ temp % 2 = 0 /\ temp <= m + 1
    BY <2>1, <2>2
  <2>4. Copying(p, from, p)
    BY CopyingSelf
  <2>5. f[0] = [o |-> p, temp |-> temp]
    BY <1>2 DEF temp
  <2>6. SpillState(p, from, [o |-> p, temp |-> temp])
    BY <1>3, <2>3, <2>4 DEF SpillState, CopyState, m
  <2> QED
    BY <2>5, <2>6
<1>5. Copying(p, from, f[len].o) /\ Spilled(p, f[len].o)
  <2>1. CASE len = 1 /\ from >= 1 /\ p.stack[target].slot = p.stack[from].slot
    <3>1. f[1] = CopyNext(f[0], target, from, len, 1)
      <4>1. 1 \in 1 .. len /\ 1 - 1 = 0
        BY <2>1
      <4>2. f[1] = CopyNext(f[1 - 1], target, from, len, 1)
        BY <1>2, <4>1
      <4> QED
        BY <4>1, <4>2
    <3>2. f[0].o = p
      BY <1>2
    <3>3. from + 1 - 1 = from /\ target + 1 - 1 = target
      BY SMTT(40) DEF MayCopy
    <3>4. f[1] = f[0]
      BY <3>1, <3>2, <3>3, <2>1 DEF CopyNext
    <3> QED
      BY <1>3, <3>2, <3>4, <2>1, CopyingSelf
  <2>2. CASE /\ target + len <= from
             /\ \A k \in 1 .. len : Fits(p.stack[target + k - 1], p.stack[from + k - 1].type)
    <3> DEFINE S == {k \in 0 .. len : SpillState(p, from, f[k])}
    <3>1. 0 \in S
      BY <1>1, <1>4
    <3>2. ASSUME NEW k \in 1 .. len, k - 1 \in S PROVE k \in S
      <4>1. SpillState(p, from, f[k - 1]) /\ k \in 0 .. len
        BY <3>2
      <4>2. Copied(p, target, from, len, k)
        BY <2>2 DEF MayCopy, Copied
      <4>3. Covered(p, target, from, len, k)
        BY <4>2, TargetCovered
      <4>4. SpillState(p, from, CopyNext(f[k - 1], target, from, len, k))
        BY <4>1, <4>3, NextSpilled
      <4> QED
        BY <4>1, <4>4, <1>2
    <3>3. len \in S
      <4> HIDE DEF S
      <4>1. \A k \in 0 .. len : k \in S
        BY <1>1, <3>1, <3>2, UpTo
      <4> QED
        BY <4>1, <1>1
    <3> QED
      BY <3>3 DEF SpillState, CopyState
  <2> QED
    BY <2>1, <2>2 DEF MayCopy
<1> DEFINE a == f[len].o
           q == [a EXCEPT !.stack = p.stack]
<1>6. OK(q) /\ Frame(p, q)
  BY <1>5, RestoredOK
<1>7. DOMAIN a = Fields
  BY <1>5 DEF Copying, Typed
<1>8. Spilled(p, a)
  BY <1>5
<1> HIDE DEF a
<1>9. /\ q.stack = p.stack /\ q.count = a.count /\ q.top = a.top /\ q.maxSlots = a.maxSlots
      /\ q.reach = a.reach /\ q.values = a.values
  BY <1>7 DEF Fields
<1> HIDE DEF q
<1>10. Spilled(p, q)
  BY <1>8, <1>9 DEF Spilled, Reached
<1>11. Counts(q)
  BY <1>6, <1>9, <1>10, SpilledCounts
<1> QED
  BY <1>2, <1>11 DEF q, a

\* The results of the function are within maxStackSlots.
LEMMA ReturnValuesCounts ==
  ASSUME NEW p, OK(p), Counts(p)
  PROVE  Counts(ReturnValues(p, Len(RetTypes)))
<1> DEFINE len == Len(RetTypes)
           q == ReturnValues(p, len)
<1>0. len \in Nat /\ 2 * len <= MaxFunctionSlots /\ 2 * len <= p.maxSlots
  BY Numbers, SignatureAssumption DEF Counts, Covers
<1> SUFFICES Counts(q)
  OBVIOUS
<1> HIDE DEF len, q
<1>1. CASE BlockHeight(p) < len
  BY <1>1, FailCounts DEF ReturnValues, q
<1>2. CASE ~(BlockHeight(p) < len)
  <2>1. PICK f : /\ f[0] = p
                 /\ \A k \in 1 .. len : f[k] = ReturnValue(f[k - 1], len, k)
                 /\ ReturnValues(p, len) = f[len]
    BY <1>0, <1>2, ReturnValuesSteps
  <2> DEFINE S == {k \in 0 .. len : OK(f[k]) /\ Counts(f[k])}
  <2>2. 0 \in S
    BY <1>0, <2>1
  <2>3. ASSUME NEW k \in 1 .. len, k - 1 \in S PROVE k \in S
    <3> DEFINE a == f[k - 1]
               i == Len(a.stack) - k + 1
               dest == 2 * (len - k)
               end == dest + GetTypeNumSlots(a.stack[i].type)
    <3>1. OK(a) /\ Counts(a) /\ k \in 0 .. len
      BY <2>3
    <3>2. a.maxSlots \in Nat /\ 2 * len <= a.maxSlots
      BY <3>1, CountFacts DEF Counts, Covers, len
    <3>3. dest \in Nat /\ dest + 2 <= 2 * len
      BY <1>0, <2>3
    <3>4. f[k] = CopyToSlot(a, dest, i)
      BY <2>1 DEF ReturnValue
    <3>5. end = dest + GetTypeNumSlots(a.stack[i].type)
      OBVIOUS
    <3> DEFINE g == GetTypeNumSlots(a.stack[i].type)
    <3>6. g \in 1 .. 2
      BY Types
    <3>7. end = dest + g
      OBVIOUS
    <3> HIDE DEF a, i, g, dest, end
    <3>8. end <= Reg0 /\ end <= a.maxSlots + StackMargin
      <4>1. StackMargin = 5
        BY DEF StackMargin
      <4> QED
        BY <1>0, <3>2, <3>3, <3>6, <3>7, <4>1, Numbers
    <3>9. Counts(f[k]) /\ OK(f[k])
      BY <3>1, <3>3, <3>4, <3>5, <3>8, CopyCounts DEF InReach
    <3> QED
      BY <3>1, <3>9
  <2>4. len \in S
    <3> HIDE DEF S
    <3>1. \A k \in 0 .. len : k \in S
      BY <1>0, <2>2, <2>3, UpTo
    <3> QED
      BY <3>1, <1>0
  <2> QED
    BY <2>1, <2>4 DEF q
<1> QED
  BY <1>1, <1>2

-----------------------------------------------------------------------------
(* The ends of blocks, and branches                                        *)

\* The values of a block are brought to where they are expected.
LEMMA ResolvedCounts ==
  ASSUME NEW p, OK(p), Counts(p), NEW q, Resolved(p, q)
  PROVE  Counts(q)
<1>1. CASE q = Fail(p) \/ q = p
  BY <1>1, FailCounts
<1>2. CASE \E target, from, len : MayCopy(p, target, from, len) /\ q = CopyStackSlots(p, target, from, len)
  BY <1>2, CopyStackSlotsCounts
<1>3. CASE LET c == CopyTopToRegister(p) IN
           /\ Len(p.stack) > Base(p.blocks) /\ OK(c)
           /\ \/ q = c
              \/ \E target, from, len : MayCopy(c, target, from, len) /\ q = CopyStackSlots(c, target, from, len)
  <2> DEFINE c == CopyTopToRegister(p)
  <2>1. OK(c) /\ Counts(c)
    BY <1>3, CopyTopCounts
  <2>2. q = c \/ \E target, from, len : MayCopy(c, target, from, len) /\ q = CopyStackSlots(c, target, from, len)
    BY <1>3
  <2> HIDE DEF c
  <2> QED
    BY <2>1, <2>2, CopyStackSlotsCounts
<1> QED
  BY <1>1, <1>2, <1>3 DEF Resolved

\* So are those of a branch.
LEMMA MoveValuesCounts ==
  ASSUME NEW p, NEW k, MayGo(p, k), Counts(p)
  PROVE  Counts(MoveValues(p, p.blocks[k]))
<1> DEFINE b == p.blocks[k]
           q == MoveValues(p, b)
           r == ReturnValues(p, Len(RetTypes))
           s == ResolveBlockResults(p, b, TRUE)
<1>1. OK(p) /\ ~p.failed /\ k \in 1 .. Len(p.blocks) /\ BlocksOk(p.blocks)
  BY DEF MayGo, OK
<1>2. CASE b.opcode = "func"
  <2>1. q = r
    BY <1>2 DEF MoveValues
  <2>2. Counts(r)
    BY <1>1, ReturnValuesCounts
  <2> QED
    BY <2>1, <2>2
<1>3. CASE b.opcode # "func"
  <2>1. k # 1
    BY <1>1, <1>3, LabelFacts
  <2>2. Len(p.blocks) \in Nat
    BY <1>1, ScopeFacts
  <2>3. k \in 2 .. Len(p.blocks)
    BY <1>1, <2>1, <2>2
  <2>4. LabelTypes(b) = Expected(b, TRUE)
    BY DEF LabelTypes, Expected
  <2>5. MayResolve(p, k, TRUE)
    BY <1>1, <1>3, <2>3, <2>4 DEF MayResolve, MayGo
  <2>6. Resolved(p, s)
    BY <2>5, ResolveOK
  <2>7. q = s
    BY <1>3 DEF MoveValues
  <2> HIDE DEF q, s
  <2> QED
    BY <1>1, <2>6, <2>7, ResolvedCounts DEF q
<1> QED
  BY <1>2, <1>3

\* The block that ends leaves nothing behind.
LEMMA LeaveBlockCounts ==
  ASSUME NEW p, OK(p), ~p.failed, Counts(p), Len(p.blocks) >= 2,
         ~Block(p).poly => /\ BlockHeight(p) = Len(Block(p).type.results)
                           /\ OnTop(p, Block(p).type.results)
  PROVE  Counts(LeaveBlock(p))
<1> DEFINE b == Block(p)
           n == Len(p.blocks)
           a == IF b.poly THEN p ELSE ResolveBlockResults(p, b, FALSE)
           c == BlockHeight(a)
           q == LeaveBlock(p)
<1>1. n \in Nat /\ n \in 2 .. n /\ b = p.blocks[n] /\ b = Last(p.blocks) /\ n \in 1 .. n
  <2>1. n \in Nat
    BY ScopeFacts DEF OK
  <2> QED
    BY <2>1 DEF Block, Last
<1>2. q = IF a.failed THEN a ELSE PopN(a, c)
  BY DEF LeaveBlock, Then
<1>3. OK(a) /\ Counts(a)
  <2>1. CASE b.poly
    BY <2>1
  <2>2. CASE ~b.poly
    <3>0. Expected(b, FALSE) = b.type.results
      BY DEF Expected
    <3>1. OnTop(p, Expected(b, FALSE)) /\ BlockHeight(p) = Len(b.type.results)
      BY <2>2, <3>0
    <3>2. FpLast(b.type.results) => Len(b.type.results) = 1
      BY <1>1 DEF OK, BlocksOk
    <3>3. FpLast(b.type.results) => BlockHeight(p) = 1 /\ FpLast(Last(p.blocks).type.results)
      BY <3>1, <3>2, <1>1
    <3> HIDE DEF b
    <3>4. MayResolve(p, n, FALSE)
      BY <1>1, <3>1, <3>3 DEF MayResolve
    <3> DEFINE x == ResolveBlockResults(p, b, FALSE)
    <3>5. OK(x) /\ Resolved(p, x)
      BY <3>4, <1>1, ResolveOK
    <3> HIDE DEF x
    <3>6. Counts(x)
      BY <3>5, ResolvedCounts
    <3> QED
      BY <3>5, <3>6, <2>2 DEF x
  <2> QED
    BY <2>1, <2>2
<1> HIDE DEF a, q, b
<1>4. c \in Nat
  BY <1>3, Height
<1>5. CASE a.failed
  BY <1>2, <1>3, <1>5 DEF q
<1>6. CASE ~a.failed
  <2> HIDE DEF c
  <2>1. Counts(PopN(a, c))
    BY <1>3, <1>4, PopNCounts
  <2> QED
    BY <1>2, <1>6, <2>1 DEF q
<1> QED
  BY <1>5, <1>6

\* The same stack, the same slots, and the same blocks.
Alias(p, q) ==
  /\ q.stack = p.stack /\ q.count = p.count /\ q.top = p.top /\ q.maxSlots = p.maxSlots
  /\ q.reach = p.reach /\ q.values = p.values /\ q.failed = p.failed
  /\ q.firstConst = p.firstConst /\ q.firstDynamic = p.firstDynamic
  /\ Len(q.blocks) = Len(p.blocks) /\ Base(q.blocks) = Base(p.blocks)
  /\ \A k \in 1 .. Len(p.blocks) :
       /\ q.blocks[k].exit = p.blocks[k].exit /\ q.blocks[k].base = p.blocks[k].base
       /\ q.blocks[k].type = p.blocks[k].type

\* Nothing else is counted.
LEMMA AliasCounts ==
  ASSUME NEW p, OK(p), Counts(p), NEW q, Alias(p, q)
  PROVE  Counts(q)
<1>1. \A m : LiveIn(q.blocks, m) = LiveIn(p.blocks, m)
  BY DEF Alias, LiveIn
<1>2. Covers(q)
  BY DEF Counts, Covers, Alias
<1>3. ASSUME Accounted(p) PROVE Accounted(q)
  <2>1. Acc(q.stack, LiveIn(q.blocks, Len(q.stack)), q.count, q.top, q.firstDynamic)
    BY <1>1, <1>3 DEF Accounted, Alias
  <2>2. Single(q.stack, q.firstConst) /\ Below(q.stack, q.blocks, q.firstConst)
    BY <1>3 DEF Accounted, Spots, Single, Below, Alias
  <2>3. Saved(q.stack, q.blocks, q.firstDynamic)
    <3> SUFFICES ASSUME NEW k \in 2 .. Len(q.blocks)
                 PROVE  SavedIn(q.stack, q.blocks, q.blocks[k], q.firstDynamic)
      BY DEF Saved
    <3>0. Len(p.blocks) \in Nat
      BY ScopeFacts DEF OK
    <3>1. k \in 2 .. Len(p.blocks) /\ k \in 1 .. Len(p.blocks)
      BY <3>0 DEF Alias
    <3>2. SavedIn(p.stack, p.blocks, p.blocks[k], p.firstDynamic)
      BY <1>3, <3>1 DEF Accounted, Spots, Saved
    <3>3. /\ q.blocks[k].exit = p.blocks[k].exit /\ q.blocks[k].type = p.blocks[k].type
          /\ q.stack = p.stack /\ q.firstDynamic = p.firstDynamic
      BY <3>1 DEF Alias
    <3> QED
      BY <1>1, <3>2, <3>3 DEF SavedIn
  <2> QED
    BY <2>1, <2>2, <2>3 DEF Accounted, Spots
<1> QED
  BY <1>2, <1>3 DEF Counts, Alias

\* Where execution is does not count.
LEMMA GoOnCounts ==
  ASSUME NEW p, OK(p), Counts(p), NEW skip, NEW to
  PROVE  Counts(GoOn(p, skip, to))
<1>1. DOMAIN p = Fields
  BY DEF OK, Typed
<1> DEFINE q == GoOn(p, skip, to)
<1>2. Alias(p, q)
  BY <1>1 DEF Alias, GoOn, Fields
<1> HIDE DEF q
<1>3. Counts(q)
  BY <1>2, AliasCounts
<1> QED
  BY <1>3 DEF q

\* Nor whether the code is dead.
LEMMA PolyCounts ==
  ASSUME NEW p, OK(p), Counts(p)
  PROVE  Counts([p EXCEPT !.blocks[Len(p.blocks)].poly = TRUE])
<1> DEFINE n == Len(p.blocks)
           q == [p EXCEPT !.blocks[n].poly = TRUE]
           new == [p.blocks EXCEPT ![n].poly = TRUE]
<1>1. DOMAIN p = Fields /\ p.blocks \in Seq(Scope) /\ n \in Nat /\ n >= 1
  BY ScopeFacts DEF OK, Typed, BlocksOk
<1>2. Base(q.blocks) = Base(p.blocks) /\ Len(q.blocks) = n
  BY PolyOK
<1>3. \A k \in 1 .. n : /\ new[k].exit = p.blocks[k].exit /\ new[k].base = p.blocks[k].base
                        /\ new[k].type = p.blocks[k].type
  <2> TAKE k \in 1 .. n
  <2>1. p.blocks[k] \in Scope /\ k \in DOMAIN p.blocks
    BY <1>1
  <2> HIDE DEF n
  <2>2. CASE k = n
    <3>1. new[k] = [p.blocks[k] EXCEPT !.poly = TRUE]
      BY <2>1, <2>2
    <3> QED
      BY <2>1, <3>1 DEF Scope
  <2>3. CASE k # n
    <3>1. new[k] = p.blocks[k]
      BY <2>1, <2>3
    <3> QED
      BY <3>1
  <2> QED
    BY <2>2, <2>3
<1>4. q = [p EXCEPT !.blocks = new]
  OBVIOUS
<1> HIDE DEF q, new, n
<1>5. /\ q.stack = p.stack /\ q.count = p.count /\ q.top = p.top /\ q.maxSlots = p.maxSlots
      /\ q.reach = p.reach /\ q.values = p.values /\ q.failed = p.failed
      /\ q.firstConst = p.firstConst /\ q.firstDynamic = p.firstDynamic /\ q.blocks = new
  BY <1>1, <1>4 DEF Fields
<1>6. Alias(p, q)
  BY <1>2, <1>3, <1>5 DEF Alias, n
<1>7. Counts(q)
  BY <1>6, AliasCounts
<1> QED
  BY <1>7 DEF q, n

\* What is behind a branch starts with an empty stack.
LEMMA DeadCodeCounts ==
  ASSUME NEW p, OK(p), Counts(p)
  PROVE  Counts(DeadCode(p))
<1> DEFINE a == [p EXCEPT !.blocks[Len(p.blocks)].poly = TRUE]
           n == BlockHeight(p)
<1>1. OK(a) /\ Counts(a)
  BY PolyOK, PolyCounts
<1>2. n \in Nat
  BY Height
<1> HIDE DEF a, n
<1>3. Counts(PopN(a, n))
  BY <1>1, <1>2, PopNCounts
<1> QED
  BY <1>3 DEF DeadCode, a, n

\* A jump does not change what is counted.
LEMMA JumpCounts ==
  ASSUME NEW p, OK(p), Counts(p), NEW k
  PROVE  Counts(Jump(p, k))
<1> DEFINE skip == CASE p.blocks[k].opcode = "loop" -> "loop"
                     [] p.blocks[k].opcode = "func" -> "return"
                     [] OTHER -> "end"
<1>1. CASE p.skip # "no"
  BY <1>1 DEF Jump
<1>2. CASE p.skip = "no"
  <2>1. Jump(p, k) = GoOn(p, skip, k)
    BY <1>2 DEF Jump, GoOn
  <2> HIDE DEF skip
  <2> QED
    BY <2>1, GoOnCounts
<1> QED
  BY <1>1, <1>2

-----------------------------------------------------------------------------
(* The results of a block                                                  *)

\* The values that came behind the first ones are counted, too.
MoreCounted(p, L, k, q) ==
  /\ Covers(p) => Covers(q)
  /\ ~q.failed /\ Acc(p.stack, L, p.count, p.top, p.firstDynamic) =>
       Acc(q.stack, L \cup Len(p.stack) + 1 .. Len(p.stack) + k, q.count, q.top, q.firstDynamic)

\* One index more.
LEMMA OneMore ==
  ASSUME NEW n \in Nat, NEW k \in Nat, k >= 1, NEW L
  PROVE  /\ L \cup n + 1 .. n + (k - 1) \cup {n + k} = L \cup n + 1 .. n + k
         /\ n + (k - 1) + 1 = n + k
<1>1. \A i \in Int : i \in n + 1 .. n + k <=> i \in n + 1 .. n + (k - 1) \/ i = n + k
  OBVIOUS
<1>2. n + 1 .. n + k \subseteq Int /\ n + 1 .. n + (k - 1) \subseteq Int /\ n + k \in Int
  OBVIOUS
<1> DEFINE S == n + 1 .. n + k  T == n + 1 .. n + (k - 1)  m == n + k
<1>3. \A i \in Int : i \in S <=> i \in T \/ i = m
  BY <1>1
<1>4. S \subseteq Int /\ T \subseteq Int /\ m \in Int
  BY <1>2
<1>5. n + (k - 1) + 1 = n + k
  OBVIOUS
<1> HIDE DEF S, T, m
<1>6. L \cup T \cup {m} = L \cup S
  BY <1>3, <1>4
<1> QED
  BY <1>5, <1>6 DEF S, T, m

\* One value more.
LEMMA OneMoreCounted ==
  ASSUME NEW p, NEW L, Len(p.stack) \in Nat, NEW k \in Nat, k >= 1,
         NEW a, MoreCounted(p, L, k - 1, a), Len(a.stack) = Len(p.stack) + (k - 1), ~a.failed,
         NEW q, Comes(a, q)
  PROVE  MoreCounted(p, L, k, q)
<1> DEFINE n == Len(p.stack)
           M == L \cup n + 1 .. n + (k - 1)
<1>1. Covers(p) => Covers(q)
  BY DEF MoreCounted, Comes
<1>2. ASSUME ~q.failed, Acc(p.stack, L, p.count, p.top, p.firstDynamic)
      PROVE  Acc(q.stack, L \cup n + 1 .. n + k, q.count, q.top, q.firstDynamic)
  <2>1. Acc(a.stack, M, a.count, a.top, a.firstDynamic)
    BY <1>2 DEF MoreCounted
  <2>2. Acc(q.stack, M \cup {Len(a.stack) + 1}, q.count, q.top, q.firstDynamic)
    BY <1>2, <2>1 DEF Comes
  <2>3. M \cup {n + k} = L \cup n + 1 .. n + k /\ n + (k - 1) + 1 = n + k
    BY OneMore
  <2>4. Len(a.stack) + 1 = n + k
    BY <2>3
  <2> HIDE DEF n, M
  <2> QED
    BY <2>2, <2>3, <2>4
<1> QED
  BY <1>1, <1>2 DEF MoreCounted

\* A result is counted while it is on the stack.
LEMMA ResultComes ==
  ASSUME NEW p, NEW results, MayPushResults(p, results), NEW k \in 1 .. Len(results),
         NEW q, PushedResults(p, results, k - 1, q), ~q.failed
  PROVE  Comes(q, PushBlockResult(q, results, k))
<1> DEFINE t == results[k]
           inFp == k = Len(results) /\ IsFpType(results[k])
<1>1. OK(q) /\ t \in ValueType /\ Len(results) \in Nat /\ (k - 1 < Len(results) => q.reg = p.reg)
  BY DEF PushedResults, MayPushResults
<1>2. CASE inFp
  <2>1. PushBlockResult(q, results, k) = PushRegister(q, t) /\ RegisterOf(t) = Fp0
    BY <1>2 DEF PushBlockResult, RegisterOf
  <2>2. FpLast(results)
    <3>1. results # <<>>
      BY <1>1
    <3> QED
      BY <3>1, <1>2 DEF FpLast, Last
  <2>3. q.reg[Fp0] = 0
    BY <2>2, <1>1 DEF PushedResults, MayPushResults
  <2> HIDE DEF t
  <2> QED
    BY <2>1, <2>3, <1>1, RegisterComes
<1>3. CASE ~inFp
  <2>1. PushBlockResult(q, results, k) = PushAllocatedSlot(q, t)
    BY <1>3 DEF PushBlockResult
  <2> HIDE DEF t
  <2> QED
    BY <2>1, <1>1, AllocatedComes
<1> QED
  BY <1>2, <1>3

\* All of them are.
LEMMA ResultsCounted ==
  ASSUME NEW p, NEW results, MayPushResults(p, results), NEW L
  PROVE  MoreCounted(p, L, Len(results), PushBlockResults(p, results))
<1> DEFINE n == Len(results)
<1>0. n \in Nat /\ Len(p.stack) \in Nat
  BY Height DEF MayPushResults
<1>1. PICK f : /\ f[0] = p
               /\ \A k \in 1 .. Len(results) : f[k] = Then(f[k - 1], LAMBDA r : PushBlockResult(r, results, k))
               /\ PushBlockResults(p, results) = f[Len(results)]
  BY ZenonT(40), <1>0, PushBlockResultsSteps
<1> DEFINE S == {k \in 0 .. n : PushedResults(p, results, k, f[k]) /\ MoreCounted(p, L, k, f[k])}
<1>2. 0 \in S
  <2>1. OK(p) /\ Frame(p, p)
    BY DEF MayPushResults, Frame
  <2>2. PushedResults(p, results, 0, p)
    BY <1>0, <2>1 DEF PushedResults
  <2>3. MoreCounted(p, L, 0, p)
    <3>1. L \cup Len(p.stack) + 1 .. Len(p.stack) + 0 = L
      BY <1>0
    <3> QED
      BY <3>1 DEF MoreCounted
  <2> QED
    BY <1>0, <1>1, <2>2, <2>3
<1>3. ASSUME NEW k \in 1 .. n, k - 1 \in S PROVE k \in S
  <2> DEFINE a == f[k - 1]
             b == PushBlockResult(a, results, k)
  <2>1. PushedResults(p, results, k - 1, a) /\ MoreCounted(p, L, k - 1, a) /\ k \in 0 .. n
        /\ k \in Nat /\ k >= 1
    BY <1>3
  <2>2. f[k] = IF a.failed THEN a ELSE b
    BY <1>1 DEF Then
  <2> HIDE DEF a, b
  <2>3. CASE a.failed
    <3>1. PushedResults(p, results, k, a)
      BY <2>1, <2>3 DEF PushedResults
    <3>2. MoreCounted(p, L, k, a)
      BY <2>1, <2>3 DEF MoreCounted
    <3> QED
      BY <3>1, <3>2, <2>1, <2>2, <2>3
  <2>4. CASE ~a.failed
    <3>1. PushedResults(p, results, k, b)
      BY <2>1, <2>4, PushOneResult DEF b
    <3>2. Comes(a, b)
      BY <2>1, <2>4, ResultComes DEF b
    <3>3. Len(a.stack) = Len(p.stack) + (k - 1)
      BY <2>1, <2>4 DEF PushedResults
    <3>4. MoreCounted(p, L, k, b)
      BY <1>0, <2>1, <2>4, <3>2, <3>3, OneMoreCounted
    <3> QED
      BY <3>1, <3>4, <2>1, <2>2, <2>4
  <2> QED
    BY <2>3, <2>4
<1>4. n \in S
  <2> HIDE DEF S, n
  <2>1. \A k \in 0 .. n : k \in S
    BY <1>0, <1>2, <1>3, UpTo DEF n
  <2> QED
    BY <2>1, <1>0
<1> QED
  BY <1>1, <1>4

-----------------------------------------------------------------------------
(* The parameters of a block                                               *)

\* An item that is within maxStackSlots is pushed.
LEMMA PushCovers ==
  ASSUME NEW p, OK(p), Covers(p), NEW x, x.slot \in Nat, Ends(x) <= p.maxSlots,
         NEW q, q = Push(p, x.type, x.slot), OK(q)
  PROVE  Covers(q) /\ q.maxSlots = p.maxSlots
<1>1. p.maxSlots \in Nat /\ p.top \in Nat /\ StackOk(p.stack) /\ Len(p.stack) \in Nat /\ p.stack \in Seq(Item)
  BY CountFacts
<1>2. p.top <= p.maxSlots
  BY DEF Covers
<1>3. CASE Len(p.stack) >= MaxStackHeight
  <2>1. q = Fail(p)
    BY <1>3 DEF Push
  <2>2. q.top = p.top /\ q.maxSlots = p.maxSlots /\ q.stack = p.stack /\ q.reach = p.reach /\ q.values = p.values
    BY <2>1, FailFacts
  <2>3. \A i \in 1 .. Len(q.stack) : i <= Len(p.stack) /\ q.stack[i] = p.stack[i]
    BY <1>1, <2>2
  <2> QED
    BY <1>1, <1>2, <2>2, <2>3, CoversMore DEF Reached
<1>4. CASE Len(p.stack) < MaxStackHeight
  <2> DEFINE y == [type |-> x.type, slot |-> x.slot]
  <2>1. q.top = p.top /\ q.maxSlots = p.maxSlots /\ q.stack = Append(p.stack, y) /\ q.reach = p.reach /\ q.values = p.values
    BY <1>4, PushIs
  <2>2. Ends(y) <= q.maxSlots
    <3>1. Ends(y) = Ends(x)
      BY DEF Ends
    <3> QED
      BY <2>1, <3>1
  <2>3. ASSUME NEW i \in 1 .. Len(q.stack)
        PROVE  (i <= Len(p.stack) /\ q.stack[i] = p.stack[i]) \/ Ends(q.stack[i]) <= q.maxSlots
    <3> HIDE DEF y
    <3>1. CASE i <= Len(p.stack)
      BY <1>1, <2>1, <3>1
    <3>2. CASE ~(i <= Len(p.stack))
      <4>1. q.stack[i] = y
        BY <1>1, <2>1, <3>2
      <4> QED
        BY <2>2, <4>1
    <3> QED
      BY <3>1, <3>2
  <2> HIDE DEF y
  <2>4. Reached(p, q)
    BY <2>1 DEF Reached
  <2> QED
    BY SMTT(40), <1>1, <1>2, <2>1, <2>3, <2>4, CoversMore
<1> QED
  BY <1>1, <1>3, <1>4, Numbers

\* Parameters and results are apart from each other and from the items L.
ApartFrom(stack, exit, n, L, first) ==
  \A i \in 1 .. n : \A j \in L \cup exit + 1 .. exit + n :
    InDynamic(stack[exit + i], first) /\ InDynamic(stack[j], first)
      => exit + i = j \/ Disjoint(stack[exit + i], stack[j])

\* The parameters are on a stack where only the items L are counted.
MayCountAgain(e, stack, exit, params, L) ==
  /\ MayPushAgain(e, stack, exit, params)
  /\ exit \in Nat /\ Len(stack) = exit + Len(params) /\ Len(stack) <= Len(e.stack)
  /\ \A i \in 1 .. Len(stack) : e.stack[i] = stack[i]
  /\ Covers(e) /\ L \in SUBSET (1 .. exit)
  /\ NoSharing => /\ Acc(e.stack, L, e.count, e.top, e.firstDynamic)
                  /\ ApartFrom(stack, exit, Len(params), L, e.firstDynamic)

\* Some parameters were pushed again.
Again(e, stack, exit, L, k, q) ==
  /\ Grown(e, q) /\ Covers(q) /\ q.maxSlots >= e.maxSlots
  /\ NoSharing /\ ~q.failed =>
       /\ Len(q.stack) = Len(e.stack) + k
       /\ \A j \in 1 .. k : q.stack[Len(e.stack) + j] = stack[exit + j]
       /\ Acc(q.stack, L \cup Len(e.stack) + 1 .. Len(e.stack) + k, q.count, q.top, q.firstDynamic)

\* Nobody uses the slots of the next one.
LEMMA NextIsFree ==
  ASSUME NEW e, NEW stack, NEW exit, NEW params, NEW L, MayCountAgain(e, stack, exit, params, L), NoSharing,
         NEW k \in 1 .. Len(params), NEW q, Again(e, stack, exit, L, k - 1, q), ~q.failed,
         NEW s \in e.firstDynamic .. MaxFunctionSlots - 1, s \in SlotsOf(stack[exit + k])
  PROVE  q.count[s] = 0
<1> DEFINE n == Len(e.stack)
           M == L \cup n + 1 .. n + (k - 1)
           x == stack[exit + k]
           first == e.firstDynamic
<1>1. OK(q) /\ OK(e) /\ q.firstDynamic = first
  BY DEF Again, Grown, Frame, MayCountAgain, MayPushAgain
<1>2. /\ StackOk(q.stack) /\ first \in Nat /\ n \in Nat /\ StackOk(e.stack)
  BY <1>1, CountFacts
<1>3. /\ exit \in Nat /\ Len(params) \in Nat /\ Len(stack) = exit + Len(params) /\ Len(stack) <= n
      /\ \A i \in 1 .. Len(stack) : e.stack[i] = stack[i]
      /\ L \in SUBSET (1 .. exit) /\ ApartFrom(stack, exit, Len(params), L, first)
      /\ Whole(e.stack, first)
  BY DEF MayCountAgain, MayPushAgain, Acc
<1>4. /\ Len(q.stack) = n + (k - 1) /\ \A j \in 1 .. k - 1 : q.stack[n + j] = stack[exit + j]
      /\ Acc(q.stack, M, q.count, q.top, first)
      /\ \A i \in 1 .. n : q.stack[i] = e.stack[i]
  BY <1>1 DEF Again, Grown
<1>5. M \in SUBSET (1 .. Len(q.stack)) /\ Whole(q.stack, first) /\ Tally(q.stack, M, q.count, q.top, first)
  BY <1>4 DEF Acc
<1>6. exit + k \in 1 .. Len(stack) /\ exit + k \in 1 .. n
  <2> DEFINE l == Len(stack)  m == Len(params)
  <2>1. exit \in Nat /\ m \in Nat /\ l = exit + m /\ l <= n /\ n \in Nat /\ k \in 1 .. m
    BY <1>2, <1>3
  <2> HIDE DEF l, m, n
  <2> QED
    BY <2>1 DEF l
<1>7. x \in Item /\ InDynamic(x, first) /\ x.slot <= s /\ s < Ends(x)
  <2>1. e.stack[exit + k] = x
    BY <1>3, <1>6
  <2>2. x \in Item /\ InDynamic(x, first)
    <3> HIDE DEF x, n
    <3> QED
      BY <1>2, <1>3, <1>6, <2>1, CountedItem DEF x, n
  <2> HIDE DEF x
  <2> QED
    BY <2>2, SlotsOfItem DEF x
<1>8. ASSUME NEW i \in M, s \in SlotsOf(q.stack[i]) PROVE FALSE
  <2> DEFINE y == q.stack[i]
  <2>1. i \in 1 .. Len(q.stack)
    BY <1>5
  <2>2. y \in Item /\ InDynamic(y, first)
    <3> HIDE DEF M, n, first
    <3> QED
      BY <1>1, <1>2, <1>5, <1>8, <2>1, CountedItem DEF first
  <2>3. y.slot <= s /\ s < Ends(y)
    <3> HIDE DEF y
    <3> QED
      BY <2>2, <1>8, SlotsOfItem DEF y
  <2>4. \E j \in L \cup exit + 1 .. exit + Len(params) : y = stack[j] /\ j # exit + k
    <3>1. CASE i \in L
      <4>1. i \in 1 .. Len(stack) /\ i \in 1 .. n /\ i # exit + k
        <5> DEFINE l == Len(stack)  m == Len(params)
        <5>1. exit \in Nat /\ m \in Nat /\ l = exit + m /\ l <= n /\ n \in Nat /\ k \in 1 .. m /\ i \in 1 .. exit
          BY <1>2, <1>3, <3>1
        <5> HIDE DEF l, m, n
        <5> QED
          BY <5>1 DEF l
      <4>2. y = stack[i]
        BY <4>1, <1>3, <1>4
      <4> HIDE DEF y
      <4> QED
        BY <3>1, <4>1, <4>2
    <3>2. CASE i \notin L
      <4> DEFINE j == i - n
      <4>1. j \in 1 .. k - 1 /\ i = n + j /\ exit + j \in exit + 1 .. exit + Len(params) /\ exit + j # exit + k
        <5> DEFINE m == Len(params)
        <5>1. i \in n + 1 .. n + (k - 1) /\ n \in Nat /\ k \in 1 .. m /\ m \in Nat /\ exit \in Nat
          BY <1>2, <1>3, <3>2
        <5> HIDE DEF m, n
        <5> QED
          BY <5>1 DEF m
      <4>2. y = stack[exit + j]
        <5> HIDE DEF j
        <5> QED
          BY <4>1, <1>4
      <4> HIDE DEF y, j
      <4> QED
        BY <4>1, <4>2
    <3> QED
      BY <3>1, <3>2
  <2> HIDE DEF y, x, first, n, M
  <2>5. Disjoint(x, y)
    BY <1>3, <1>7, <2>2, <2>4 DEF ApartFrom, x
  <2>6. Ends(x) \in Nat /\ Ends(y) \in Nat /\ x.slot \in Nat /\ y.slot \in Nat /\ s \in Nat
    <3>1. s \in Nat
      BY <1>2, Numbers DEF first
    <3> QED
      BY <3>1, <1>7, <2>2, SlotsOfItem
  <2> QED
    BY <1>7, <2>3, <2>5, <2>6 DEF Disjoint
<1>9. Uses(q.stack, M, s) = {}
  BY <1>8 DEF Uses
<1>10. q.count[s] = Cardinality(Uses(q.stack, M, s))
  BY <1>5 DEF Tally
<1> QED
  BY <1>9, <1>10, FS_EmptySet

\* A parameter is pushed again, and counted where it was.
LEMMA ParamCounts ==
  ASSUME NEW e, NEW stack, NEW exit, NEW params, NEW L, MayCountAgain(e, stack, exit, params, L),
         NEW k \in 1 .. Len(params), NEW q, Again(e, stack, exit, L, k - 1, q)
  PROVE  Again(e, stack, exit, L, k, PushParam(q, params[k], stack[exit + k].slot))
<1> DEFINE n == Len(e.stack)
           M == L \cup n + 1 .. n + (k - 1)
           x == stack[exit + k]
           t == params[k]
           slot == x.slot
           first == e.firstDynamic
           c == IF slot >= q.firstDynamic THEN MarkSlotsAllocated(q, slot, t) ELSE q
           b == Push(c, t, slot)
<1>1. OK(q) /\ OK(e) /\ Frame(e, q) /\ Covers(q) /\ Covers(e) /\ q.maxSlots >= e.maxSlots /\ Grown(e, q)
      /\ MayPushAgain(e, stack, exit, params)
  BY DEF Again, Grown, MayCountAgain, MayPushAgain
<1>2. q.firstDynamic = first /\ first \in Nat /\ n \in Nat /\ StackOk(e.stack)
      /\ e.maxSlots \in Nat /\ q.maxSlots \in Nat /\ q.stack \in Seq(Item)
  BY <1>1, CountFacts DEF Frame
<1>3. /\ exit \in Nat /\ Len(params) \in Nat /\ Len(stack) = exit + Len(params) /\ Len(stack) <= n
      /\ \A i \in 1 .. Len(stack) : e.stack[i] = stack[i]
  BY DEF MayCountAgain, MayPushAgain
<1>4. exit + k \in 1 .. Len(stack) /\ exit + k \in 1 .. n
  <2> DEFINE l == Len(stack)  m == Len(params)
  <2>1. exit \in Nat /\ m \in Nat /\ l = exit + m /\ l <= n /\ n \in Nat /\ k \in 1 .. m
    BY <1>2, <1>3
  <2> HIDE DEF l, m, n
  <2> QED
    BY <2>1 DEF l
<1>5. x = [type |-> t, slot |-> slot] /\ slot \in Nat /\ InSlots(x) /\ t \in ValueType
  <2>1. x = [type |-> t, slot |-> slot] /\ slot \in Nat /\ InSlots(x) /\ params \in Seq(ValueType)
    BY <1>1 DEF MayPushAgain
  <2> HIDE DEF x
  <2> QED
    BY <2>1
<1>6. x.type = t /\ x.slot = slot
  <2>1. x.type = [type |-> t, slot |-> slot].type
    BY <1>5
  <2> QED
    BY <2>1
<1>7. e.stack[exit + k] = x
  BY <1>3, <1>4
<1>8. slot + GetTypeNumSlots(t) <= MaxFunctionSlots /\ Ends(x) = slot + GetTypeNumSlots(t)
      /\ slot \notin Registers
  <2>1. Ends(x) = slot + GetTypeNumSlots(t)
    BY <1>6 DEF Ends
  <2>2. Ends(x) <= MaxFunctionSlots
    BY <1>5 DEF InSlots, Ends
  <2>3. GetTypeNumSlots(t) \in 1 .. 2
    BY Types
  <2> DEFINE g == GetTypeNumSlots(t)
  <2>4. slot \in Nat /\ g \in 1 .. 2 /\ slot + g <= MaxFunctionSlots
    BY <1>5, <2>1, <2>2, <2>3
  <2> HIDE DEF slot, g
  <2>5. slot \notin Registers
    BY ONLY <2>4, Numbers, SMTT(40)
  <2> QED
    BY <2>1, <2>4, <2>5 DEF g
<1>9. Ends(x) <= e.maxSlots
  <2>1. e.stack[exit + k].slot \notin Registers
    BY <1>7, <1>8
  <2>2. Ends(e.stack[exit + k]) <= e.maxSlots
    BY <1>1, <1>4, <2>1 DEF Covers
  <2> QED
    BY <1>7, <2>2
<1> DEFINE end == Ends(x)
<1>10. end \in Nat
  <2>1. GetTypeNumSlots(t) \in 1 .. 2
    BY Types
  <2> QED
    BY <1>5, <1>8, <2>1
<1>11. PushParam(q, t, slot) = b
  BY DEF PushParam
<1>12. Grown(e, b)
  <2>1. Grown(e, PushParam(q, params[k], stack[exit + k].slot))
    BY <1>1, PushParamOK
  <2> QED
    BY <1>11, <2>1
<1> HIDE DEF x, t, slot, b, end, n, M, first
<1>13. OK(b)
  BY <1>12 DEF Grown
<1>14. Covers(b) /\ b.maxSlots >= e.maxSlots /\ (~b.failed => ~q.failed)
       /\ (~b.failed => b.stack = Append(q.stack, x))
  <2>1. OK(c) /\ Covers(b) /\ c.failed = q.failed /\ c.stack = q.stack /\ c.maxSlots >= q.maxSlots
        /\ c.maxSlots \in Nat
    <3>1. CASE slot >= q.firstDynamic
      <4>1. c = MarkSlotsAllocated(q, slot, t)
        BY <3>1
      <4>2. OK(c) /\ Covers(b)
        BY <4>1, <3>1, <1>1, <1>5, <1>8, MarkedPushCovers DEF b
      <4>3. /\ Close(q, c)
            /\ c.maxSlots = IF q.maxSlots >= slot + GetTypeNumSlots(t) THEN q.maxSlots
                            ELSE slot + GetTypeNumSlots(t)
        BY <4>1, <1>1, <1>5, <1>8, MarkFacts DEF OK
      <4>4. end = slot + GetTypeNumSlots(t)
        BY <1>8 DEF end
      <4> HIDE DEF c
      <4>5. c.maxSlots >= q.maxSlots /\ c.maxSlots \in Nat
        BY <1>2, <1>10, <4>3, <4>4
      <4> QED
        BY <4>2, <4>3, <4>5 DEF Close
    <3>2. CASE ~(slot >= q.firstDynamic)
      <4>1. c = q
        BY <3>2
      <4>2. end <= q.maxSlots
        BY <1>1, <1>2, <1>9, <1>10 DEF end
      <4>3. b = Push(q, x.type, x.slot)
        BY <4>1, <1>6 DEF b
      <4>4. Covers(b)
        BY <1>1, <1>5, <1>6, <1>13, <4>2, <4>3, PushCovers DEF end
      <4> QED
        BY <1>1, <1>2, <4>1, <4>4
    <3> QED
      BY <3>1, <3>2
  <2> HIDE DEF c
  <2>2. CASE Len(c.stack) >= MaxStackHeight
    <3>1. b = Fail(c)
      BY <2>2 DEF Push, b
    <3>2. b.failed = TRUE /\ b.maxSlots = c.maxSlots
      BY <3>1, <2>1, FailFacts
    <3> QED
      BY <1>1, <1>2, <2>1, <3>2
  <2>3. CASE Len(c.stack) < MaxStackHeight
    <3>1. b.failed = c.failed /\ b.maxSlots = c.maxSlots /\ b.stack = Append(c.stack, [type |-> t, slot |-> slot])
      BY <2>1, <2>3, PushIs DEF b
    <3> QED
      BY <1>1, <1>2, <1>5, <2>1, <3>1
  <2> QED
    BY <2>2, <2>3, <2>1, CountFacts, Numbers
<1>15. ASSUME NoSharing, ~b.failed
       PROVE  /\ Len(b.stack) = n + k
              /\ \A j \in 1 .. k : b.stack[n + j] = stack[exit + j]
              /\ Acc(b.stack, L \cup n + 1 .. n + k, b.count, b.top, b.firstDynamic)
  <2>1. ~q.failed /\ b.stack = Append(q.stack, x)
    BY <1>14, <1>15
  <2>2. /\ Len(q.stack) = n + (k - 1) /\ \A j \in 1 .. k - 1 : q.stack[n + j] = stack[exit + j]
        /\ Acc(q.stack, M, q.count, q.top, q.firstDynamic)
    BY <1>15, <2>1 DEF Again, n, M
  <2>3. k \in Nat /\ k >= 1
    BY <1>3
  <2>4. M \cup {n + k} = L \cup n + 1 .. n + k /\ n + (k - 1) + 1 = n + k
    BY <1>2, <2>3, OneMore DEF M
  <2>5. Len(q.stack) + 1 = n + k
    BY <2>2, <2>4
  <2>6. Len(b.stack) = n + k /\ b.stack[n + k] = x
        /\ \A i \in 1 .. Len(q.stack) : b.stack[i] = q.stack[i]
    <3>1. Len(b.stack) = Len(q.stack) + 1 /\ b.stack[Len(q.stack) + 1] = x
          /\ \A i \in 1 .. Len(q.stack) : b.stack[i] = q.stack[i]
      BY <1>2, <2>1
    <3> QED
      BY <3>1, <2>5
  <2>7. ASSUME NEW j \in 1 .. k PROVE b.stack[n + j] = stack[exit + j]
    <3>1. CASE j = k
      BY <3>1, <2>6 DEF x
    <3>2. CASE j # k
      <4>1. j \in 1 .. k - 1 /\ n + j \in 1 .. n + (k - 1)
        BY <1>2, <2>3, <3>2
      <4> QED
        BY <4>1, <2>2, <2>6
    <3> QED
      BY <3>1, <3>2
  <2>8. Whole(e.stack, first)
    BY <1>15 DEF MayCountAgain, Acc, first
  <2>9. Comes(q, b)
    <3>1. CASE slot >= q.firstDynamic
      <4> DEFINE g == GetTypeNumSlots(t)
      <4>1. g \in 1 .. 2 /\ slot \in Nat /\ slot + g <= MaxFunctionSlots /\ first \in Nat /\ first <= slot
            /\ MaxFunctionSlots \in Nat
        BY <1>2, <1>5, <1>8, <3>1, Types, Numbers
      <4>2. x \in Item
        <5>1. e.stack[exit + k] \in Item
          BY <1>1, <1>4, InSlotsOrRegister DEF n
        <5> QED
          BY <5>1, <1>7
      <4>3. \A s \in Int : s \in SlotsOf(x) <=> slot <= s /\ s < slot + g
        <5>1. \A s \in Int : s \in SlotsOf(x) <=> x.slot <= s /\ s < Ends(x)
          BY <4>2, SlotsOfItem
        <5> QED
          BY <5>1, <1>6, <1>8
      <4> HIDE DEF g
      <4>4. ASSUME NEW s \in {slot, slot + g - 1} PROVE q.count[s] = 0
        <5>1. s \in first .. MaxFunctionSlots - 1 /\ slot <= s /\ s < slot + g /\ s \in Int
          BY <4>1
        <5>2. s \in SlotsOf(x)
          BY <5>1, <4>3
        <5> QED
          BY <1>15, <2>1, <5>1, <5>2, NextIsFree DEF x, first
      <4>5. c = MarkSlotsAllocated(q, slot, t)
        BY <3>1
      <4>6. q.count[slot] = 0 /\ q.count[slot + GetTypeNumSlots(t) - 1] = 0
        BY <4>4 DEF g
      <4> HIDE DEF c
      <4> QED
        BY <1>1, <1>5, <1>8, <3>1, <4>5, <4>6, FreshPush DEF b
    <3>2. CASE ~(slot >= q.firstDynamic)
      <4>1. b = Push(q, t, slot)
        BY <3>2 DEF b
      <4>2. e.stack[exit + k].slot < first
        BY <1>2, <1>5, <1>6, <1>7, <3>2
      <4>3. Ends(x) <= first
        BY <1>4, <1>7, <2>8, <4>2 DEF Whole, n
      <4>4. slot + GetTypeNumSlots(t) <= q.firstDynamic
        BY <1>2, <1>8, <4>3
      <4> HIDE DEF c
      <4> QED
        BY <1>1, <1>5, <1>13, <4>1, <4>4, PlainPush
    <3> QED
      BY <3>1, <3>2
  <2>10. Acc(b.stack, M \cup {Len(q.stack) + 1}, b.count, b.top, b.firstDynamic)
    BY <1>15, <2>2, <2>9 DEF Comes
  <2> QED
    BY <2>4, <2>5, <2>6, <2>7, <2>10
<1>16. Again(e, stack, exit, L, k, b)
  BY <1>12, <1>14, <1>15 DEF Again, n
<1> QED
  BY <1>11, <1>16 DEF t, slot, x

\* All of them are.
LEMMA ParamsCount ==
  ASSUME NEW e, NEW stack, NEW exit, NEW params, NEW L, MayCountAgain(e, stack, exit, params, L)
  PROVE  Again(e, stack, exit, L, Len(params), PushAgain(e, stack, exit, params))
<1> DEFINE n == Len(params)
<1>0. n \in Nat /\ Len(e.stack) \in Nat /\ OK(e) /\ e.maxSlots \in Nat
  <2>1. OK(e) /\ params \in Seq(ValueType)
    BY DEF MayCountAgain, MayPushAgain
  <2> QED
    BY <2>1, CountFacts
<1>1. PICK last : last = PushAgain(e, stack, exit, params)
  OBVIOUS
<1>2. PICK f : /\ f[0] = e
               /\ \A k \in 1 .. Len(params) : f[k] = PushParam(f[k - 1], params[k], stack[exit + k].slot)
               /\ last = f[Len(params)]
  BY <1>0, <1>1, PushAgainSteps
<1> DEFINE S == {k \in 0 .. n : Again(e, stack, exit, L, k, f[k])}
<1>3. 0 \in S
  <2>1. Frame(e, e)
    BY DEF Frame
  <2>2. Grown(e, e)
    BY <1>0, <2>1 DEF Grown, MayCountAgain, MayPushAgain
  <2>3. L \cup Len(e.stack) + 1 .. Len(e.stack) + 0 = L /\ Len(e.stack) + 0 = Len(e.stack)
    BY <1>0
  <2>4. Covers(e) /\ (NoSharing => Acc(e.stack, L, e.count, e.top, e.firstDynamic))
    BY DEF MayCountAgain
  <2>5. NoSharing => Acc(e.stack, L \cup Len(e.stack) + 1 .. Len(e.stack) + 0, e.count, e.top, e.firstDynamic)
    BY <2>3, <2>4
  <2>6. e.maxSlots >= e.maxSlots
    BY <1>0
  <2>7. Again(e, stack, exit, L, 0, e)
    BY <2>2, <2>3, <2>4, <2>5, <2>6 DEF Again
  <2> QED
    BY <1>0, <1>2, <2>7
<1>4. ASSUME NEW k \in 1 .. n, k - 1 \in S PROVE k \in S
  <2> DEFINE a == f[k - 1]
  <2>1. Again(e, stack, exit, L, k - 1, a) /\ k \in 0 .. n /\ k \in 1 .. Len(params)
    BY <1>4
  <2>2. f[k] = PushParam(a, params[k], stack[exit + k].slot)
    BY <1>2
  <2> HIDE DEF a
  <2>3. Again(e, stack, exit, L, k, PushParam(a, params[k], stack[exit + k].slot))
    BY <2>1, ParamCounts
  <2> QED
    BY <2>1, <2>2, <2>3
<1>5. n \in S
  <2> HIDE DEF S, n
  <2>1. \A k \in 0 .. n : k \in S
    BY <1>0, <1>3, <1>4, UpTo DEF n
  <2> QED
    BY <2>1, <1>0
<1> QED
  BY <1>1, <1>2, <1>5

-----------------------------------------------------------------------------
(* Into a block                                                            *)

\* Pop is not an operation that is executed.
LEMMA PopNReach ==
  ASSUME NEW p, OK(p), NEW len \in Nat
  PROVE  PopN(p, len).reach = p.reach /\ PopN(p, len).values = p.values
<1>1. PICK f : /\ f[0] = p /\ \A k \in 1 .. len : f[k] = Pop(f[k - 1])
               /\ PopN(p, len) = f[len]
  BY PopNSteps
<1> DEFINE S == {k \in 0 .. len : OK(f[k]) /\ f[k].reach = p.reach /\ f[k].values = p.values}
<1>2. 0 \in S
  BY <1>1
<1>3. ASSUME NEW k \in 1 .. len, k - 1 \in S
      PROVE  k \in S
  <2> DEFINE a == f[k - 1]
  <2>1. OK(a) /\ a.reach = p.reach /\ a.values = p.values /\ k \in 0 .. len /\ f[k] = Pop(a)
    BY <1>1, <1>3
  <2> HIDE DEF a
  <2>2. OK(Pop(a))
    BY <2>1, PopOK
  <2>3. Pop(a).reach = a.reach /\ Pop(a).values = a.values
    <3>1. /\ Len(a.stack) \in Nat /\ Base(a.blocks) \in Nat /\ Base(a.blocks) <= Len(a.stack)
          /\ BlockHeight(a) = Len(a.stack) - Base(a.blocks)
      BY <2>1, Height
    <3>2. CASE Len(a.stack) > Base(a.blocks)
      BY <2>1, <3>2, PopIs
    <3>3. CASE Len(a.stack) = Base(a.blocks)
      <4>1. BlockHeight(a) = 0
        BY <3>1, <3>3
      <4>2. Pop(a) = a \/ Pop(a) = Fail(a)
        BY <4>1 DEF Pop
      <4> QED
        BY <2>1, <4>2, FailFacts
    <3> QED
      BY <3>1, <3>2, <3>3
  <2> QED
    BY <2>1, <2>2, <2>3
<1> HIDE DEF S
<1>4. \A k \in 0 .. len : k \in S
  BY <1>2, <1>3, UpTo
<1> QED
  BY <1>1, <1>4 DEF S

\* Where the block begins its results and parameters are not counted.
LEMMA InsideCounts ==
  ASSUME NEW p, NEW opcode, NEW type, MayEnterBlock(p, opcode, type),
         NEW a, OK(a), Frame(p, a), a.stack = p.stack, a.reg = p.reg, MayPushResults(a, type.results),
         Covers(a), NEW L \in SUBSET (1 .. Len(p.stack)),
         NoSharing => Acc(a.stack, L, a.count, a.top, a.firstDynamic),
         NEW r, r = PushBlockResults(a, type.results), ~r.failed,
         NEW e, e = Inside(r, type.results, EnteredBlocks(p, opcode, type))
  PROVE  Covers(e) /\ (NoSharing => Acc(e.stack, L, e.count, e.top, e.firstDynamic))
<1> DEFINE n == Len(p.stack)
           m == Len(type.results)
           y == PopN(r, m)
           new == EnteredBlocks(p, opcode, type)
<1>1. PushedResults(a, type.results, m, r) /\ MoreCounted(a, L, m, r)
  BY PushBlockResultsOK, ResultsCounted
<1>2. m \in Nat /\ n \in Nat /\ OK(p) /\ Base(p.blocks) \in Nat /\ Base(p.blocks) <= n
  BY Height DEF MayPushResults, MayEnterBlock
<1>3. OK(r) /\ Frame(p, r) /\ Len(r.stack) = n + m /\ \A i \in 1 .. n : r.stack[i] = p.stack[i]
  BY <1>1 DEF PushedResults, Frame
<1>4. Behind(r, m, n)
  <2>1. BlockHeight(r) = Len(r.stack) - Base(r.blocks) /\ r.blocks = p.blocks
    BY <1>3, Height DEF Frame
  <2> HIDE DEF n, m
  <2> QED
    BY <2>1, <1>2, <1>3 DEF Behind
<1>5. OK(y) /\ Frame(r, y) /\ Popped(r, y, m) /\ y.failed = r.failed /\ Len(y.stack) = Len(r.stack) - m
  BY <1>2, <1>3, <1>4, PopNOK DEF Behind
<1>6. SameTop(r, y) /\ y.reach = r.reach /\ y.values = r.values
  BY <1>2, <1>3, PopNTops, PopNReach
<1>7. Covers(r)
  BY <1>1 DEF MoreCounted
<1>8. e = [y EXCEPT !.stack = r.stack, !.blocks = new]
  BY DEF Inside
<1>9. DOMAIN y = Fields
  BY <1>5 DEF OK, Typed
<1> HIDE DEF y, new, n, m
<1>10. /\ e.stack = r.stack /\ e.count = y.count /\ e.top = y.top /\ e.maxSlots = y.maxSlots
       /\ e.reach = y.reach /\ e.values = y.values /\ e.firstDynamic = y.firstDynamic
  BY <1>8, <1>9 DEF Fields
<1>11. Covers(e)
  BY <1>6, <1>7, <1>10 DEF Covers, SameTop
<1>12. ASSUME NoSharing PROVE Acc(e.stack, L, e.count, e.top, e.firstDynamic)
  <2>1. Acc(r.stack, L \cup n + 1 .. n + m, r.count, r.top, r.firstDynamic)
    BY <1>1, <1>12 DEF MoreCounted, n
  <2>2. L \in SUBSET (1 .. n)
    BY DEF n
  <2>3. Acc(y.stack, L, y.count, y.top, y.firstDynamic)
    BY <1>2, <1>3, <1>4, <2>1, <2>2, PopNGoes DEF y
  <2>4. StackOk(y.stack) /\ StackOk(r.stack) /\ y.top \in Nat /\ y.firstDynamic \in Nat
        /\ y.firstDynamic = r.firstDynamic
    BY <1>3, <1>5, CountFacts DEF Frame
  <2>5. Whole(r.stack, y.firstDynamic)
    BY <2>1, <2>4 DEF Acc
  <2>6. \A i \in L : y.stack[i] = r.stack[i]
    <3>1. \A i \in 1 .. n : y.stack[i] = r.stack[i]
      <4>1. Len(r.stack) - m = n
        BY <1>2, <1>3
      <4>2. ~y.failed
        BY <1>5
      <4> QED
        BY <1>5, <4>1, <4>2 DEF Popped
    <3> QED
      BY <2>2, <3>1
  <2>7. CountedIn(r.stack, L, y.firstDynamic) = CountedIn(y.stack, L, y.firstDynamic)
        /\ \A i \in CountedIn(y.stack, L, y.firstDynamic) : r.stack[i] = y.stack[i]
    BY <2>6 DEF CountedIn
  <2>8. L \in SUBSET (1 .. Len(r.stack))
    BY <1>2, <1>3, <2>2
  <2>9. \A s \in y.firstDynamic .. MaxFunctionSlots - 1 :
          y.count[s] = y.count[s] /\ (s >= y.top => s >= y.top \/ y.count[s] = 0)
    OBVIOUS
  <2>10. Acc(r.stack, L, y.count, y.top, y.firstDynamic)
    BY <2>3, <2>4, <2>5, <2>7, <2>8, <2>9, AccKept
  <2> QED
    BY <1>10, <2>10
<1> QED
  BY <1>11, <1>12

\* The saved parameters of a block are where they were, also in a block inside.
LEMMA SavedAppended ==
  ASSUME NEW stack, NEW blocks, BlocksOk(blocks), NEW first, Saved(stack, blocks, first),
         NEW b, b.exit \in Nat, b.base \in Nat, Base(blocks) <= b.exit, b.exit <= b.base,
         NEW new, \A i \in 1 .. Base(blocks) : new[i] = stack[i], SavedIn(new, blocks, b, first)
  PROVE  Saved(new, Append(blocks, b), first)
<1> DEFINE inner == Append(blocks, b)
           l == Len(blocks)
<1>1. /\ l \in Nat /\ Len(inner) = l + 1 /\ inner[l + 1] = b /\ \A k \in 1 .. l : inner[k] = blocks[k]
      /\ Base(blocks) \in Nat
  BY ScopeFacts DEF BlocksOk
<1>2. LiveIn(inner, b.exit) = LiveIn(blocks, b.exit)
  BY LiveEntered
<1> HIDE DEF inner, l
<1>3. ASSUME NEW k \in 2 .. Len(inner) PROVE SavedIn(new, inner, inner[k], first)
  <2>1. CASE k = l + 1
    <3>1. SavedIn(new, inner, b, first)
      BY <1>2 DEF SavedIn
    <3> QED
      BY <2>1, <1>1, <3>1
  <2>2. CASE k # l + 1
    <3> DEFINE c == blocks[k]
    <3>1. k \in 1 .. l /\ k \in 2 .. l
      BY <1>1, <2>2
    <3>2. /\ c.exit \in Nat /\ c.base \in Nat /\ c.base <= Base(blocks) /\ Len(c.type.params) \in Nat
          /\ Len(c.type.results) \in Nat /\ c.base = c.exit + Len(c.type.params) + Len(c.type.results)
      <4>1. /\ c.exit \in Nat /\ c.base \in Nat /\ c.base <= Base(blocks)
            /\ c.type.params \in Seq(ValueType) /\ c.type.results \in Seq(ValueType)
        BY <3>1, ScopeFacts DEF l
      <4>2. c.base = c.exit + Len(c.type.params) + Len(c.type.results)
        BY <3>1 DEF BlocksOk, l
      <4> HIDE DEF c
      <4> QED
        BY <4>1, <4>2
    <3>3. inner[k] = c
      BY <1>1, <3>1
    <3> DEFINE n == Len(c.type.params)  m == Len(c.type.results)  x == c.exit  g == Base(blocks)
    <3>4. n \in Nat /\ m \in Nat /\ x \in Nat /\ g \in Nat /\ x + n + m <= g /\ x <= g
      <4>1. n \in Nat /\ m \in Nat /\ x \in Nat /\ g \in Nat /\ c.base = x + n + m /\ c.base <= g
        BY <1>1, <3>2
      <4> HIDE DEF n, m, x, g, c
      <4> QED
        BY <4>1
    <3> HIDE DEF c, n, m, x, g
    <3>5. \A i \in x + 1 .. x + n : i \in 1 .. g
      BY <3>4
    <3>6. \A i \in 1 .. x : i \in 1 .. g /\ i <= b.exit
      BY <3>4 DEF g
    <3>7. LiveIn(inner, x) = LiveIn(blocks, x)
      <4>1. \A i \in 1 .. x : (\A j \in 1 .. Len(inner) : i <= inner[j].exit \/ i > inner[j].base)
                          <=> (\A j \in 1 .. l : i <= blocks[j].exit \/ i > blocks[j].base)
        BY <1>1, <3>6
      <4> QED
        BY <4>1 DEF LiveIn, l
    <3>8. SavedIn(stack, blocks, c, first)
      BY <3>1 DEF Saved, c, l
    <3>9. LiveIn(blocks, x) \subseteq 1 .. x
      BY DEF LiveIn
    <3>10. SavedIn(new, inner, c, first)
      <4>1. \A i \in x + 1 .. x + n : new[i] = stack[i]
        BY <3>5 DEF g
      <4>2. \A i \in LiveIn(blocks, x) : new[i] = stack[i]
        BY <3>6, <3>9 DEF g
      <4> QED
        BY <4>1, <4>2, <3>7, <3>8 DEF SavedIn, x, n
    <3> QED
      BY <3>3, <3>10
  <2> QED
    BY <2>1, <2>2
<1> QED
  BY <1>3 DEF Saved, inner

\* Behind the first items no result is in the slot of a local.
NewSlots(p, k, q) ==
  ~q.failed => \A j \in 1 .. k : q.stack[Len(p.stack) + j].slot >= p.firstDynamic

\* Results are in slots that are given out, or in a register.
LEMMA ResultsInDynamic ==
  ASSUME NEW p, NEW results, MayPushResults(p, results)
  PROVE  NewSlots(p, Len(results), PushBlockResults(p, results))
<1> DEFINE n == Len(results)
<1>0. n \in Nat /\ Len(p.stack) \in Nat /\ p.firstDynamic \in Nat
  BY CountFacts DEF MayPushResults
<1>1. PICK f : /\ f[0] = p
               /\ \A k \in 1 .. Len(results) : f[k] = Then(f[k - 1], LAMBDA r : PushBlockResult(r, results, k))
               /\ PushBlockResults(p, results) = f[Len(results)]
  BY ZenonT(40), <1>0, PushBlockResultsSteps
<1> DEFINE S == {k \in 0 .. n : PushedResults(p, results, k, f[k]) /\ NewSlots(p, k, f[k])}
<1>2. 0 \in S
  <2>1. OK(p) /\ Frame(p, p)
    BY DEF MayPushResults, Frame
  <2>2. PushedResults(p, results, 0, p)
    BY <1>0, <2>1 DEF PushedResults
  <2>3. NewSlots(p, 0, p)
    BY DEF NewSlots
  <2> QED
    BY <1>0, <1>1, <2>2, <2>3
<1>3. ASSUME NEW k \in 1 .. n, k - 1 \in S PROVE k \in S
  <2> DEFINE a == f[k - 1]
             b == PushBlockResult(a, results, k)
             t == results[k]
  <2>1. PushedResults(p, results, k - 1, a) /\ NewSlots(p, k - 1, a) /\ k \in 0 .. n
    BY <1>3
  <2>2. f[k] = IF a.failed THEN a ELSE b
    BY <1>1 DEF Then
  <2>3. t \in ValueType
    BY DEF MayPushResults
  <2> HIDE DEF a, b
  <2>4. CASE a.failed
    <3>1. PushedResults(p, results, k, a)
      BY <2>1, <2>4 DEF PushedResults
    <3>2. NewSlots(p, k, a)
      BY <2>4 DEF NewSlots
    <3> QED
      BY <3>1, <3>2, <2>1, <2>2, <2>4
  <2>5. CASE ~a.failed
    <3>1. PushedResults(p, results, k, b)
      BY <2>1, <2>5, PushOneResult DEF b
    <3>2. OK(a) /\ a.firstDynamic = p.firstDynamic /\ Len(a.stack) = Len(p.stack) + (k - 1)
          /\ (k - 1 < n => a.reg = p.reg) /\ ~p.failed
      BY <2>1, <2>5 DEF PushedResults, Frame
    <3>3. \E slot : Pushed(a, b, [type |-> t, slot |-> slot]) /\ (~b.failed => slot >= p.firstDynamic)
      <4>1. CASE k = n /\ IsFpType(t)
        <5>1. b = PushRegister(a, t) /\ RegisterOf(t) = Fp0
          BY <4>1 DEF PushBlockResult, RegisterOf, b
        <5>2. FpLast(results)
          <6>1. results # <<>>
            BY <1>0
          <6> QED
            BY <6>1, <4>1 DEF FpLast, Last
        <5>3. a.reg[Fp0] = 0
          <6>1. k - 1 < n
            BY <1>0, <4>1
          <6>2. p.reg[Fp0] = 0
            BY <3>2, <5>2 DEF MayPushResults
          <6> QED
            BY <3>2, <6>1, <6>2
        <5> HIDE DEF t
        <5>4. Pushed(a, PushRegister(a, t), [type |-> t, slot |-> RegisterOf(t)])
          BY <2>3, <3>2, <5>1, <5>3, PushInRegister
        <5>5. Fp0 >= p.firstDynamic
          <6>1. p.firstDynamic <= MaxFunctionSlots
            BY CountFacts DEF MayPushResults
          <6> QED
            BY <6>1, <1>0, Numbers
        <5> QED
          BY <5>1, <5>4, <5>5
      <4>2. CASE ~(k = n /\ IsFpType(t))
        <5>1. b = PushAllocatedSlot(a, t)
          BY <4>2 DEF PushBlockResult, b
        <5> HIDE DEF t
        <5> QED
          BY <2>3, <3>2, <5>1, PushAllocated
      <4> QED
        BY <4>1, <4>2
    <3>4. ASSUME ~b.failed, NEW j \in 1 .. k PROVE b.stack[Len(p.stack) + j].slot >= p.firstDynamic
      <4>1. PICK slot : Pushed(a, b, [type |-> t, slot |-> slot]) /\ slot >= p.firstDynamic
        BY <3>3, <3>4
      <4> DEFINE x == [type |-> t, slot |-> slot]
      <4>2. b.stack = Append(a.stack, x) /\ a.stack \in Seq(Item) /\ x.slot >= p.firstDynamic
        BY <3>2, <3>4, <4>1, CountFacts DEF Pushed
      <4> HIDE DEF x, t
      <4>3. Len(p.stack) \in Nat /\ k \in Nat
        BY <1>0
      <4>4. CASE j = k
        <5>1. b.stack[Len(a.stack) + 1] = x
          BY <4>2
        <5>2. Len(a.stack) + 1 = Len(p.stack) + j
          BY <3>2, <4>3, <4>4
        <5> QED
          BY <5>1, <5>2, <4>2
      <4>5. CASE j # k
        <5>1. j \in 1 .. k - 1 /\ Len(p.stack) + j \in 1 .. Len(a.stack)
          BY <3>2, <4>3, <4>5
        <5>2. b.stack[Len(p.stack) + j] = a.stack[Len(p.stack) + j]
          BY <4>2, <5>1
        <5> QED
          BY <2>1, <2>5, <5>1, <5>2 DEF NewSlots
      <4> QED
        BY <4>4, <4>5
    <3>5. NewSlots(p, k, b)
      BY <3>4 DEF NewSlots
    <3> QED
      BY <3>1, <3>5, <2>1, <2>2, <2>5
  <2> QED
    BY <2>4, <2>5
<1>4. n \in S
  <2> HIDE DEF S, n
  <2>1. \A k \in 0 .. n : k \in S
    BY <1>0, <1>2, <1>3, UpTo DEF n
  <2> QED
    BY <2>1, <1>0
<1> QED
  BY <1>1, <1>4

\* Here the parameters were popped, a is on the stack all the same, and who
\* refers to a local has moved.
ReadyToEnter(p, a, type) ==
  LET exit == Exit(p, type)
      L == LiveIn(p.blocks, exit) IN
  /\ Covers(a)
  /\ NoSharing => /\ Acc(p.stack, L, a.count, a.top, p.firstDynamic)
                  /\ Away(p) /\ Saved(p.stack, p.blocks, p.firstDynamic)
                  /\ ApartFrom(p.stack, exit, Len(type.params), L, p.firstDynamic)

\* With the parameters on it the stack of the block is counted.
LEMMA EnteredCounts ==
  ASSUME NEW p, NEW opcode, NEW type, MayEnterBlock(p, opcode, type), NEW a, ReadyToEnter(p, a, type),
         NEW e, OK(e), e.firstDynamic = p.firstDynamic, e.firstConst = p.firstConst,
         e.blocks = EnteredBlocks(p, opcode, type),
         Len(e.stack) = Len(p.stack) + Len(type.results),
         \A i \in 1 .. Len(p.stack) : e.stack[i] = p.stack[i],
         \A j \in 1 .. Len(type.results) : e.stack[Len(p.stack) + j].slot >= p.firstDynamic,
         NEW q, Again(e, p.stack, Exit(p, type), LiveIn(p.blocks, Exit(p, type)), Len(type.params), q)
  PROVE  Counts(q)
<1> DEFINE exit == Exit(p, type)
           L == LiveIn(p.blocks, exit)
           n == Len(type.params)
           m == Len(type.results)
           base == Len(e.stack)
           new == EnteredBlocks(p, opcode, type)
           scope == NewScope(opcode, type, exit, Len(p.stack) + m)
           first == p.firstDynamic
<1>1. OK(p) /\ ~p.failed /\ BlocksOk(p.blocks)
  BY DEF MayEnterBlock, OK
<1>2. OK(q) /\ Frame(e, q) /\ Covers(q)
  BY DEF Again, Grown
<1>3. /\ exit \in Nat /\ Base(p.blocks) <= exit /\ exit + n = Len(p.stack) /\ base \in Nat
      /\ BlocksOk(new) /\ Base(new) = base /\ n \in Nat /\ m \in Nat /\ base = Len(p.stack) + m
      /\ Len(p.stack) \in Nat
  <2>1. LET z == EnteredBlocks(p, opcode, type)
            c == Exit(p, type)
            f == Len(p.stack) + Len(type.results) IN
         /\ c \in Nat /\ Base(p.blocks) <= c /\ c + Len(type.params) = Len(p.stack)
         /\ f \in Nat /\ BlocksOk(z) /\ Len(z) = Len(p.blocks) + 1
         /\ z[Len(z)] = NewScope(opcode, type, c, f)
         /\ Base(z) = f /\ \A k \in 1 .. Len(p.blocks) : z[k] = p.blocks[k]
         /\ type.params \in Seq(ValueType) /\ type.results \in Seq(ValueType)
    BY EnteredBlocksOk
  <2>2. type.params \in Seq(ValueType) /\ type.results \in Seq(ValueType)
    BY <2>1
  <2>3. n \in Nat /\ m \in Nat /\ Len(p.stack) \in Nat
    BY <1>1, <2>2, Height
  <2> QED
    BY <2>1, <2>3
<1>4. new = Append(p.blocks, scope) /\ scope.exit = exit /\ scope.base = base /\ scope.type = type
  BY <1>3 DEF EnteredBlocks, NewScope
<1> HIDE DEF exit, n, m, base, new, scope
<1>5. LiveIn(new, base) = L /\ LiveIn(new, exit) = L
  <2>1. exit <= base
    BY <1>3
  <2> QED
    BY <1>1, <1>3, <1>4, <2>1, LiveEntered
<1>6. ASSUME NoSharing, ~q.failed PROVE Accounted(q)
  <2>1. /\ Len(q.stack) = base + n
        /\ \A j \in 1 .. n : q.stack[base + j] = p.stack[exit + j]
        /\ Acc(q.stack, L \cup base + 1 .. base + n, q.count, q.top, q.firstDynamic)
    BY <1>6 DEF Again, base, n, exit
  <2>2. \A i \in 1 .. base : q.stack[i] = e.stack[i]
    BY <1>6 DEF Again, Grown, base
  <2>3. q.blocks = new /\ q.firstDynamic = first /\ q.firstConst = p.firstConst
    BY <1>2 DEF Frame, new
  <2>4. Acc(q.stack, LiveIn(q.blocks, Len(q.stack)), q.count, q.top, q.firstDynamic)
    <3>1. base + n \in Nat /\ base <= base + n
      BY <1>3
    <3>2. LiveIn(new, base + n) = L \cup base + 1 .. base + n
      BY <1>3, <1>5, <3>1, LiveAbove
    <3> QED
      BY <2>1, <2>3, <3>2
  <2>5. Away(p) /\ Saved(p.stack, p.blocks, first) /\ ApartFrom(p.stack, exit, n, L, first)
    BY <1>6 DEF ReadyToEnter, exit, n
  <2>6. p.firstConst \in Nat /\ first \in Nat /\ p.firstConst <= first /\ NumLocals \in Nat
        /\ (\A i \in 1 .. base : e.stack[i] \in Item) /\ NumLocals <= Len(p.stack) /\ NumLocals <= Base(p.blocks)
        /\ Base(p.blocks) \in Nat /\ Base(p.blocks) <= Len(p.stack)
    <3>1. NumLocals <= Base(p.blocks) /\ Base(p.blocks) <= Len(p.stack) /\ Base(p.blocks) \in Nat
          /\ NumLocals \in Nat /\ p.firstConst \in Nat /\ first \in Nat /\ p.firstConst <= first
      BY <1>1, Height, CountFacts
    <3>2. \A i \in 1 .. base : e.stack[i] \in Item
      BY Height DEF base
    <3> QED
      BY <1>3, <3>1, <3>2
  <2>7. ASSUME NEW i \in NumLocals + 1 .. Len(q.stack) PROVE q.stack[i].slot >= p.firstConst
    <3> DEFINE l == Len(p.stack)
    <3>1. CASE i <= l
      <4>1. i \in NumLocals + 1 .. l /\ i \in 1 .. l /\ i \in 1 .. base
        BY <1>3, <2>6, <3>1
      <4>2. q.stack[i] = p.stack[i]
        BY <2>2, <4>1
      <4> QED
        BY <2>5, <4>1, <4>2 DEF Away
    <3>2. CASE l < i /\ i <= base
      <4> DEFINE j == i - l
      <4>1. j \in 1 .. m /\ l + j = i /\ i \in 1 .. base
        BY <1>3, <2>6, <3>2
      <4> HIDE DEF j
      <4>2. e.stack[l + j].slot >= first
        BY <4>1 DEF m
      <4>3. q.stack[i].slot >= first
        BY <2>2, <4>1, <4>2
      <4>4. q.stack[i].slot \in Nat
        <5>1. e.stack[i] \in Item
          BY <2>6, <4>1
        <5> QED
          BY <2>2, <4>1, <5>1, ItemFacts
      <4> QED
        BY <2>6, <4>3, <4>4
    <3>3. CASE base < i
      <4> DEFINE j == i - base
      <4>1. j \in 1 .. n /\ base + j = i
        <5>1. i \in NumLocals + 1 .. base + n
          BY <2>1
        <5>2. base \in Nat /\ n \in Nat /\ NumLocals \in Nat
          BY <1>3, <2>6
        <5> QED
          BY <5>1, <5>2, <3>3
      <4> HIDE DEF j
      <4>2. q.stack[i] = p.stack[exit + j]
        BY <2>1, <4>1
      <4>3. exit + j \in NumLocals + 1 .. l
        BY <1>3, <2>6, <4>1
      <4> QED
        BY <2>5, <4>2, <4>3 DEF Away
    <3> QED
      BY <1>3, <2>6, <3>1, <3>2, <3>3
  <2>8. Single(q.stack, q.firstConst)
    <3>1. \A i \in NumLocals + 1 .. Len(q.stack) : q.stack[i].slot \in Nat
      <4>1. \A i \in 1 .. Len(q.stack) : q.stack[i] \in Item
        BY <1>2, Height
      <4> QED
        BY <2>6, <4>1, ItemFacts
    <3>2. \A i \in NumLocals + 1 .. Len(q.stack) : ~(q.stack[i].slot < q.firstConst)
      BY <2>3, <2>6, <2>7, <3>1
    <3> QED
      BY <3>2 DEF Single
  <2>9. Below(q.stack, q.blocks, q.firstConst)
    <3>1. Base(q.blocks) = base /\ base <= Len(q.stack)
      BY <1>3, <2>1, <2>3
    <3>2. \A i \in NumLocals + 1 .. Base(q.blocks) : i \in NumLocals + 1 .. Len(q.stack)
      BY <1>3, <2>1, <2>6, <3>1
    <3> QED
      BY <2>3, <2>7, <3>2 DEF Below
  <2>10. \A i \in 1 .. Len(p.stack) : q.stack[i] = p.stack[i]
    <3>1. \A i \in 1 .. Len(p.stack) : i \in 1 .. base
      BY <1>3
    <3> QED
      BY <2>2, <3>1
  <2>11. SavedIn(q.stack, p.blocks, scope, first)
    <3> DEFINE l == Len(p.stack)
    <3>1. L \subseteq 1 .. exit
      BY DEF LiveIn
    <3>2. \A i \in exit + 1 .. exit + n : i \in 1 .. l /\ i - exit \in 1 .. n /\ exit + (i - exit) = i
      BY <1>3
    <3>3. \A j \in L : j \in 1 .. l
      BY <1>3, <3>1
    <3> SUFFICES ASSUME NEW i \in exit + 1 .. exit + n, NEW j \in L \cup exit + 1 .. exit + n,
                        InDynamic(q.stack[i], first), InDynamic(q.stack[j], first)
                 PROVE  i = j \/ Disjoint(q.stack[i], q.stack[j])
      BY <1>4 DEF SavedIn, n
    <3>4. q.stack[i] = p.stack[i] /\ q.stack[j] = p.stack[j]
      BY <2>10, <3>2, <3>3
    <3> DEFINE k == i - exit
    <3>5. k \in 1 .. n /\ exit + k = i
      BY <3>2
    <3> HIDE DEF k, L
    <3> QED
      BY <2>5, <3>4, <3>5 DEF ApartFrom
  <2>12. Saved(q.stack, q.blocks, first)
    <3>1. \A i \in 1 .. Base(p.blocks) : q.stack[i] = p.stack[i]
      BY <2>6, <2>10
    <3>2. exit <= base
      BY <1>3
    <3> QED
      BY ZenonT(40), <1>1, <1>3, <1>4, <2>3, <2>5, <2>11, <3>1, <3>2, SavedAppended
  <2> QED
    BY <2>3, <2>4, <2>8, <2>9, <2>12 DEF Accounted, Spots
<1> QED
  BY <1>2, <1>6 DEF Counts

\* What is known where the block has begun, but for its parameters.
Opened(p, a, type, e) ==
  /\ Covers(e)
  /\ NoSharing => /\ Acc(e.stack, LiveIn(p.blocks, Exit(p, type)), e.count, e.top, e.firstDynamic)
                  /\ ApartFrom(p.stack, Exit(p, type), Len(type.params), LiveIn(p.blocks, Exit(p, type)), e.firstDynamic)
  /\ \A j \in 1 .. Len(type.results) : e.stack[Len(p.stack) + j].slot >= p.firstDynamic

\* The results were pushed and popped again.
LEMMA OpenedIs ==
  ASSUME NEW p, NEW opcode, NEW type, MayEnterBlock(p, opcode, type), NEW a, ReadyToEnter(p, a, type),
         NEW r, r = PushBlockResults(a, type.results), ~r.failed,
         NEW e, e = Inside(r, type.results, EnteredBlocks(p, opcode, type)),
         NEW q, Begun(p, opcode, type, a, r, e, q)
  PROVE  Opened(p, a, type, e)
<1> DEFINE L == LiveIn(p.blocks, Exit(p, type))
<1>1. /\ OK(a) /\ Frame(p, a) /\ a.stack = p.stack /\ a.reg = p.reg /\ MayPushResults(a, type.results)
      /\ e.firstDynamic = p.firstDynamic /\ e.stack = r.stack
  BY DEF Begun
<1>2. a.firstDynamic = p.firstDynamic
  BY <1>1 DEF Frame
<1>3. L \in SUBSET (1 .. Len(p.stack))
  <2>1. LET c == Exit(p, type) IN c \in Nat /\ c + Len(type.params) = Len(p.stack) /\ type.params \in Seq(ValueType)
    BY EnteredBlocksOk
  <2>2. Len(type.params) \in Nat /\ Len(p.stack) \in Nat
    <3>1. OK(p) /\ type.params \in Seq(ValueType)
      BY <2>1 DEF MayEnterBlock
    <3> QED
      BY <3>1, Height
  <2> DEFINE c == Exit(p, type)
  <2>3. c \in Nat /\ c <= Len(p.stack)
    BY <2>1, <2>2
  <2> HIDE DEF c
  <2>4. LiveIn(p.blocks, c) \subseteq 1 .. c
    BY DEF LiveIn
  <2>5. 1 .. c \subseteq 1 .. Len(p.stack)
    BY <2>2, <2>3
  <2> QED
    BY <2>4, <2>5 DEF c
<1>4. NoSharing => Acc(a.stack, L, a.count, a.top, a.firstDynamic)
  BY <1>1, <1>2 DEF ReadyToEnter
<1>5. Covers(a)
  BY DEF ReadyToEnter
<1> HIDE DEF L
<1>6. Covers(e) /\ (NoSharing => Acc(e.stack, L, e.count, e.top, e.firstDynamic))
  BY <1>1, <1>3, <1>4, <1>5, InsideCounts
<1>7. NewSlots(a, Len(type.results), r)
  BY <1>1, ResultsInDynamic
<1>8. \A j \in 1 .. Len(type.results) : e.stack[Len(p.stack) + j].slot >= p.firstDynamic
  BY <1>1, <1>2, <1>7 DEF NewSlots
<1> QED
  BY <1>1, <1>6, <1>8 DEF Opened, ReadyToEnter, L

\* So the parameters can be pushed again.
LEMMA OpenedMayCount ==
  ASSUME NEW p, NEW opcode, NEW type, MayEnterBlock(p, opcode, type), NEW a,
         NEW r, ~r.failed, NEW e, NEW q, Begun(p, opcode, type, a, r, e, q), Opened(p, a, type, e)
  PROVE  MayCountAgain(e, p.stack, Exit(p, type), type.params, LiveIn(p.blocks, Exit(p, type)))
<1> DEFINE exit == Exit(p, type)
           params == type.params
           L == LiveIn(p.blocks, exit)
           m == Len(type.results)
<1>1. /\ a.stack = p.stack /\ e.stack = r.stack /\ MayPushAgain(e, p.stack, exit, params)
      /\ PushedResults(a, type.results, m, r)
  BY DEF Begun
<1>2. exit \in Nat /\ exit + Len(params) = Len(p.stack) /\ m \in Nat /\ Len(p.stack) \in Nat
  <2>1. LET c == Exit(p, type) IN c \in Nat /\ c + Len(type.params) = Len(p.stack) /\ type.results \in Seq(ValueType)
    BY EnteredBlocksOk
  <2>2. OK(p)
    BY DEF MayEnterBlock
  <2> QED
    BY <2>1, <2>2, Height
<1>3. Len(r.stack) = Len(p.stack) + m /\ \A i \in 1 .. Len(p.stack) : r.stack[i] = p.stack[i]
  BY <1>1 DEF PushedResults
<1>4. L \in SUBSET (1 .. exit)
  BY DEF LiveIn
<1>5. Len(p.stack) <= Len(e.stack)
  <2>1. Len(e.stack) = Len(p.stack) + m
    BY <1>1, <1>3
  <2> HIDE DEF exit, m
  <2> QED
    BY <2>1, <1>2
<1>6. \A i \in 1 .. Len(p.stack) : e.stack[i] = p.stack[i]
  BY <1>1, <1>3
<1>7. Len(p.stack) = exit + Len(params)
  BY <1>2
<1> QED
  BY <1>1, <1>2, <1>4, <1>5, <1>6, <1>7 DEF MayCountAgain, Opened

\* The block has begun, and what is live is counted.
LEMMA EnterBlockCounts ==
  ASSUME NEW p, NEW opcode, NEW type, MayEnterBlock(p, opcode, type), NEW a,
         a = [(IF opcode = "else" THEN p ELSE PopN(p, Len(type.params))) EXCEPT !.stack = p.stack],
         ReadyToEnter(p, a, type), NEW q, q = EnterBlock(p, opcode, type)
  PROVE  ~q.ignored => Counts(q)
<1> DEFINE r == PushBlockResults(a, type.results)
           e == Inside(r, type.results, EnteredBlocks(p, opcode, type))
           L == LiveIn(p.blocks, Exit(p, type))
           x == PushAgain(e, p.stack, Exit(p, type), type.params)
<1>1. Begun(p, opcode, type, a, r, e, q)
  BY EnterBlockIs
<1>2. [p EXCEPT !.ignored = TRUE].ignored
  BY DEF MayEnterBlock, OK, Typed, Fields
<1> HIDE DEF r, e
<1>3. CASE r.failed
  BY <1>1, <1>2, <1>3 DEF Begun
<1>4. CASE ~r.failed
  <2>1. Opened(p, a, type, e)
    BY <1>1, <1>4, OpenedIs DEF r, e
  <2>2. MayCountAgain(e, p.stack, Exit(p, type), type.params, L)
    BY <1>1, <1>4, <2>1, OpenedMayCount
  <2>3. q = IF x.failed THEN [p EXCEPT !.ignored = TRUE] ELSE x
    BY <1>1, <1>4 DEF Begun
  <2>4. Again(e, p.stack, Exit(p, type), L, Len(type.params), x)
    BY <2>2, ParamsCount
  <2> HIDE DEF x
  <2>5. /\ OK(e) /\ e.firstDynamic = p.firstDynamic /\ e.firstConst = p.firstConst
        /\ e.blocks = EnteredBlocks(p, opcode, type) /\ e.stack = r.stack
        /\ a.stack = p.stack /\ PushedResults(a, type.results, Len(type.results), r)
    BY <1>1, <1>4 DEF Begun
  <2>6. /\ Len(e.stack) = Len(p.stack) + Len(type.results)
        /\ \A i \in 1 .. Len(p.stack) : e.stack[i] = p.stack[i]
    BY <1>4, <2>5 DEF PushedResults
  <2>7. \A j \in 1 .. Len(type.results) : e.stack[Len(p.stack) + j].slot >= p.firstDynamic
    BY <2>1 DEF Opened
  <2>8. Counts(x)
    BY <2>4, <2>5, <2>6, <2>7, EnteredCounts
  <2> QED
    BY <1>2, <2>3, <2>8
<1> QED
  BY <1>3, <1>4

\* The values below the exit, and behind it, are the live ones.
LEMMA LiveSplit ==
  ASSUME NEW p, NEW opcode, NEW type, MayEnterBlock(p, opcode, type), NEW exit, exit = Exit(p, type),
         NEW n, n = Len(type.params)
  PROVE  /\ n \in Nat /\ exit \in Nat /\ exit + n = Len(p.stack) /\ Base(p.blocks) <= exit
         /\ LiveIn(p.blocks, Len(p.stack)) = LiveIn(p.blocks, exit) \cup exit + 1 .. exit + n
         /\ LiveIn(p.blocks, exit) \in SUBSET (1 .. exit)
<1>1. LET c == Exit(p, type) IN
      c \in Nat /\ Base(p.blocks) <= c /\ c + Len(type.params) = Len(p.stack) /\ type.params \in Seq(ValueType)
  BY EnteredBlocksOk
<1>2. n \in Nat /\ exit \in Nat /\ exit + n = Len(p.stack) /\ Base(p.blocks) <= exit
  BY <1>1
<1>3. BlocksOk(p.blocks)
  BY DEF MayEnterBlock, OK
<1>4. exit <= exit + n /\ exit + n \in Nat
  BY <1>2
<1>5. LiveIn(p.blocks, exit + n) = LiveIn(p.blocks, exit) \cup exit + 1 .. exit + n
  BY <1>2, <1>3, <1>4, LiveAbove
<1>6. LiveIn(p.blocks, exit) \in SUBSET (1 .. exit)
  BY DEF LiveIn
<1> QED
  BY <1>2, <1>5, <1>6

\* The parameters of a block are apart if no slot is shared with them.
LEMMA ParamsApart ==
  ASSUME NEW p, NEW opcode, NEW type, MayEnterBlock(p, opcode, type), Accounted(p),
         ParamsUnshared(p, Len(type.params))
  PROVE  ApartFrom(p.stack, Exit(p, type), Len(type.params), LiveIn(p.blocks, Exit(p, type)), p.firstDynamic)
<1> DEFINE exit == Exit(p, type)
           n == Len(type.params)
           first == p.firstDynamic
           all == LiveIn(p.blocks, Len(p.stack))
<1>1. /\ n \in Nat /\ exit \in Nat /\ exit + n = Len(p.stack)
      /\ all = LiveIn(p.blocks, exit) \cup exit + 1 .. exit + n
  BY LiveSplit
<1>2. OK(p) /\ Live(p) = all /\ Together(p.stack, all, first)
  BY LiveAll DEF MayEnterBlock, Accounted, Acc
<1>3. \A i \in exit + 1 .. exit + n, j \in all :
        i # j /\ p.stack[i].slot >= first => p.stack[i].slot # p.stack[j].slot
  <2>1. \A i \in Len(p.stack) - n + 1 .. Len(p.stack), j \in all :
          i # j /\ p.stack[i].slot >= first => p.stack[i].slot # p.stack[j].slot
    BY <1>2 DEF ParamsUnshared
  <2>2. Len(p.stack) - n = exit
    <3> HIDE DEF exit, n
    <3> QED
      BY <1>1
  <2> QED
    BY <1>1, <2>1, <2>2
<1> HIDE DEF exit, n, first
<1> SUFFICES ASSUME NEW i \in 1 .. n, NEW j \in LiveIn(p.blocks, exit) \cup exit + 1 .. exit + n,
                    InDynamic(p.stack[exit + i], first), InDynamic(p.stack[j], first)
             PROVE  exit + i = j \/ Disjoint(p.stack[exit + i], p.stack[j])
  BY DEF ApartFrom, exit, n, first
<1> DEFINE k == exit + i
<1>4. k \in exit + 1 .. exit + n
  BY <1>1
<1>5. k \in all /\ j \in all
  BY <1>1, <1>4
<1> HIDE DEF all, k
<1>6. k \in CountedIn(p.stack, all, first) /\ j \in CountedIn(p.stack, all, first)
  BY <1>5 DEF CountedIn, k
<1>7. p.stack[k] = p.stack[j] \/ Disjoint(p.stack[k], p.stack[j])
  BY <1>2, <1>6 DEF Together
<1>8. p.stack[k].slot >= first
  BY DEF InDynamic, k
<1>9. k # j => p.stack[k] # p.stack[j]
  BY <1>3, <1>4, <1>5, <1>8
<1> QED
  BY <1>7, <1>9 DEF k

\* The parameters are popped, and stay in the records of the stack.
LEMMA ReadyBehindPops ==
  ASSUME NEW p, NEW opcode, NEW type, MayEnterBlock(p, opcode, type), Counts(p),
         NoSharing => Away(p) /\ ParamsUnshared(p, Len(type.params)),
         NEW a, a = [PopN(p, Len(type.params)) EXCEPT !.stack = p.stack]
  PROVE  ReadyToEnter(p, a, type)
<1> DEFINE exit == Exit(p, type)
           n == Len(type.params)
           L == LiveIn(p.blocks, exit)
           y == PopN(p, n)
<1>1. /\ n \in Nat /\ exit \in Nat /\ exit + n = Len(p.stack) /\ Base(p.blocks) <= exit
      /\ LiveIn(p.blocks, Len(p.stack)) = L \cup exit + 1 .. exit + n
      /\ L \in SUBSET (1 .. exit)
  BY LiveSplit
<1>2. OK(p) /\ ~p.failed
  BY DEF MayEnterBlock
<1>3. BlockHeight(p) = Len(p.stack) - Base(p.blocks) /\ Base(p.blocks) \in Nat /\ Len(p.stack) \in Nat
  BY <1>2, Height
<1>4. Behind(p, n, exit)
  <2> HIDE DEF exit, n
  <2> QED
    BY <1>1, <1>3 DEF Behind
<1>5. OK(y) /\ Frame(p, y) /\ Popped(p, y, n) /\ y.failed = p.failed
  BY <1>1, <1>2, <1>4, PopNOK DEF Behind
<1>6. SameTop(p, y) /\ y.reach = p.reach /\ y.values = p.values
  BY <1>1, <1>2, PopNTops, PopNReach
<1>7. DOMAIN y = Fields
  BY <1>5 DEF OK, Typed
<1>8. a = [y EXCEPT !.stack = p.stack]
  OBVIOUS
<1> HIDE DEF y, n, exit
<1>9. /\ a.stack = p.stack /\ a.count = y.count /\ a.top = y.top /\ a.maxSlots = y.maxSlots
      /\ a.reach = y.reach /\ a.values = y.values /\ a.firstDynamic = y.firstDynamic
  BY <1>7, <1>8 DEF Fields
<1>10. Covers(a)
  BY <1>6, <1>9 DEF Covers, SameTop, Counts
<1>11. ASSUME NoSharing
       PROVE  /\ Acc(p.stack, L, a.count, a.top, p.firstDynamic)
              /\ Away(p) /\ Saved(p.stack, p.blocks, p.firstDynamic)
              /\ ApartFrom(p.stack, exit, n, L, p.firstDynamic)
  <2>1. Accounted(p)
    BY <1>2, <1>11 DEF Counts
  <2>2. ApartFrom(p.stack, exit, n, L, p.firstDynamic)
    BY <1>11, <2>1, ParamsApart DEF exit, n
  <2>3. Acc(p.stack, L \cup exit + 1 .. exit + n, p.count, p.top, p.firstDynamic)
        /\ Saved(p.stack, p.blocks, p.firstDynamic)
    BY <1>1, <2>1 DEF Accounted, Spots
  <2>4. Acc(y.stack, L, y.count, y.top, y.firstDynamic)
    BY <1>1, <1>2, <1>4, <2>3, PopNGoes DEF y
  <2>5. StackOk(y.stack) /\ StackOk(p.stack) /\ y.top \in Nat /\ p.firstDynamic \in Nat
        /\ y.firstDynamic = p.firstDynamic
    BY <1>2, <1>5, CountFacts DEF Frame
  <2>6. Whole(p.stack, p.firstDynamic)
    BY <2>3 DEF Acc
  <2>7. \A i \in L : y.stack[i] = p.stack[i]
    <3>1. \A i \in 1 .. exit : y.stack[i] = p.stack[i]
      <4>1. Len(p.stack) - n = exit
        BY <1>1
      <4> QED
        BY <1>2, <1>5, <4>1 DEF Popped
    <3> QED
      BY <1>1, <3>1
  <2>8. CountedIn(p.stack, L, p.firstDynamic) = CountedIn(y.stack, L, p.firstDynamic)
        /\ \A i \in CountedIn(y.stack, L, p.firstDynamic) : p.stack[i] = y.stack[i]
    BY <2>7 DEF CountedIn
  <2>9. L \in SUBSET (1 .. Len(p.stack))
    BY <1>1
  <2>10. \A s \in p.firstDynamic .. MaxFunctionSlots - 1 :
          y.count[s] = y.count[s] /\ (s >= y.top => s >= y.top \/ y.count[s] = 0)
    OBVIOUS
  <2>11. Acc(p.stack, L, y.count, y.top, p.firstDynamic)
    BY <2>4, <2>5, <2>6, <2>8, <2>9, <2>10, AccKept
  <2> QED
    BY <1>9, <1>11, <2>2, <2>3, <2>11
<1> QED
  BY <1>10, <1>11 DEF ReadyToEnter, exit, n

\* A block, a loop or an if begins.
LEMMA BlockBegins ==
  ASSUME NEW p, NEW opcode, NEW type, MayEnterBlock(p, opcode, type), opcode # "else", Counts(p),
         NoSharing => Away(p) /\ ParamsUnshared(p, Len(type.params)),
         NEW q, q = EnterBlock(p, opcode, type)
  PROVE  ~q.ignored => Counts(q)
<1> DEFINE a == [PopN(p, Len(type.params)) EXCEPT !.stack = p.stack]
<1>1. ReadyToEnter(p, a, type)
  BY ReadyBehindPops
<1>2. a = [(IF opcode = "else" THEN p ELSE PopN(p, Len(type.params))) EXCEPT !.stack = p.stack]
  OBVIOUS
<1> HIDE DEF a
<1> QED
  BY <1>1, <1>2, EnterBlockCounts

-----------------------------------------------------------------------------
(* The end of a block                                                      *)

\* The saved parameters of the blocks around a block stay where they are.
LEMMA SavedFront ==
  ASSUME NEW stack, NEW blocks, BlocksOk(blocks), Len(blocks) >= 2, NEW first, Saved(stack, blocks, first),
         NEW new, \A i \in 1 .. Base(Front(blocks)) : new[i] = stack[i]
  PROVE  Saved(new, Front(blocks), first)
<1> DEFINE F == Front(blocks)
           n == Len(blocks)
<1>1. BlocksOk(F) /\ Len(F) = n - 1 /\ n \in Nat /\ \A k \in 1 .. n - 1 : F[k] = blocks[k]
  BY FrontBlocks, ScopeFacts
<1>2. Base(F) \in Nat
  BY <1>1, ScopeFacts
<1> SUFFICES ASSUME NEW k \in 2 .. Len(F) PROVE SavedIn(new, F, F[k], first)
  BY DEF Saved
<1> HIDE DEF F, n
<1>3. k \in 1 .. n - 1 /\ k \in 2 .. n /\ k \in 1 .. Len(F) /\ k \in 2 .. Len(F)
  BY <1>1
<1> DEFINE b == blocks[k]
           e == b.exit
           m == Len(b.type.params)
<1>4. F[k] = b /\ SavedIn(stack, blocks, b, first)
  BY <1>1, <1>3 DEF Saved, n
<1>5. /\ e \in Nat /\ m \in Nat /\ b.base <= Base(F) /\ b.base \in Nat /\ e + m <= b.base
  <2>1. /\ e \in Nat /\ b.base \in Nat /\ b.base <= Base(F)
        /\ b.type.params \in Seq(ValueType) /\ b.type.results \in Seq(ValueType)
    BY <1>1, <1>3, <1>4, ScopeFacts
  <2>2. b.base = e + m + Len(b.type.results)
    BY <1>1, <1>3, <1>4 DEF BlocksOk
  <2>3. m \in Nat /\ Len(b.type.results) \in Nat
    BY ONLY <2>1, LenProperties
  <2> HIDE DEF e, m
  <2> QED
    BY SMTT(40), <2>1, <2>2, <2>3
<1>6. \A j \in 1 .. n : blocks[j].base <= e \/ j >= k
  BY <1>3 DEF BlocksOk, n
<1>7. e <= blocks[n].exit
  <2>1. n \in 2 .. n
    BY <1>1, <1>3
  <2>2. b.base <= blocks[n].exit
    BY <2>1, <1>3 DEF BlocksOk, n
  <2>3. blocks[n].exit \in Nat
    BY <2>1, <1>1, ScopeFacts DEF n
  <2> HIDE DEF e, m
  <2> QED
    BY <2>2, <2>3, <1>5
<1> HIDE DEF b, e, m
<1>8. LiveIn(F, e) = LiveIn(blocks, e)
  <2>1. blocks[n].exit \in Nat
    <3>1. n \in 1 .. n
      BY <1>1, <1>3
    <3> QED
      BY <3>1, ScopeFacts DEF n
  <2>2. \A i \in 1 .. e : i <= blocks[n].exit
    BY <1>5, <1>7, <2>1
  <2>3. \A i \in 1 .. e : (\A j \in 1 .. Len(F) : i <= F[j].exit \/ i > F[j].base)
                          <=> (\A j \in 1 .. n : i <= blocks[j].exit \/ i > blocks[j].base)
    BY <1>1, <2>2
  <2> QED
    BY <2>3 DEF LiveIn, n
<1>9. \A i \in 1 .. e + m : new[i] = stack[i]
  BY <1>2, <1>5 DEF F
<1>10. \A j \in LiveIn(blocks, e) \cup e + 1 .. e + m : new[j] = stack[j]
  <2>1. \A j \in LiveIn(blocks, e) : j \in 1 .. e
    BY DEF LiveIn
  <2> QED
    BY <1>5, <1>9, <2>1
<1>11. \A i \in e + 1 .. e + m : \A j \in LiveIn(blocks, e) \cup e + 1 .. e + m :
        InDynamic(stack[i], first) /\ InDynamic(stack[j], first) => i = j \/ Disjoint(stack[i], stack[j])
  BY <1>4 DEF SavedIn, e, m
<1>12. \A i \in e + 1 .. e + m : \A j \in LiveIn(F, e) \cup e + 1 .. e + m :
        InDynamic(new[i], first) /\ InDynamic(new[j], first) => i = j \/ Disjoint(new[i], new[j])
  BY <1>8, <1>10, <1>11
<1> QED
  BY <1>4, <1>12 DEF SavedIn, e, m

\* What the cut leaves.
LEMMA CutKept ==
  ASSUME NEW p, NEW m, MayCut(p, m), NEW c, c = Cut(p, m)
  PROVE  /\ OK(c) /\ c.blocks = Front(p.blocks) /\ c.firstConst = p.firstConst /\ c.firstDynamic = p.firstDynamic
         /\ Len(c.stack) = Last(p.blocks).exit + m
         /\ \A i \in 1 .. Last(p.blocks).exit + m : c.stack[i] = p.stack[i]
<1>1. LET q == Cut(p, m) IN
      /\ OK(q) /\ q.blocks = Front(p.blocks) /\ q.stack = SubSeq(p.stack, 1, Last(p.blocks).exit + m)
      /\ q.firstConst = p.firstConst /\ q.firstDynamic = p.firstDynamic
  BY CutOK
<1>2. LET new == SubSeq(p.stack, 1, Last(p.blocks).exit + m) IN
      /\ Len(new) = Last(p.blocks).exit + m
      /\ \A i \in 1 .. Last(p.blocks).exit + m : new[i] = p.stack[i]
  BY CutSound
<1> QED
  BY <1>1, <1>2

\* What is left of a block is counted.
LEMMA CutAccounted ==
  ASSUME NEW p, NEW m, MayCut(p, m), Accounted(p), NEW c, c = Cut(p, m)
  PROVE  /\ Acc(c.stack, LiveIn(c.blocks, Last(p.blocks).exit), c.count, c.top, c.firstDynamic)
         /\ Away(c) /\ Saved(c.stack, c.blocks, c.firstDynamic)
<1> DEFINE exit == Last(p.blocks).exit
           F == Front(p.blocks)
           base == Base(p.blocks)
<1>1. OK(p) /\ ~p.failed /\ Len(p.blocks) >= 2 /\ Len(p.stack) = base /\ BlocksOk(p.blocks)
  BY DEF MayCut, OK
<1>2. /\ exit \in Nat /\ exit + m <= base /\ m \in Nat /\ base \in Nat
      /\ NumLocals \in Nat /\ Base(F) <= exit /\ Base(F) \in Nat
  BY <1>1, CutFacts
<1>3. /\ OK(c) /\ c.blocks = F /\ c.firstConst = p.firstConst /\ c.firstDynamic = p.firstDynamic
      /\ Len(c.stack) = exit + m /\ \A i \in 1 .. exit + m : c.stack[i] = p.stack[i]
  BY CutKept
<1>4. c.count = p.count /\ c.top = p.top
  BY <1>1 DEF Cut, OK, Typed, Fields
<1>5. /\ LiveIn(F, exit) = LiveIn(p.blocks, exit) /\ LiveIn(p.blocks, base) = LiveIn(p.blocks, exit)
  BY <1>1, LiveLeft
<1>6. Acc(p.stack, LiveIn(p.blocks, base), p.count, p.top, p.firstDynamic) /\ Saved(p.stack, p.blocks, p.firstDynamic)
      /\ Below(p.stack, p.blocks, p.firstConst)
  BY <1>1 DEF Accounted, Spots
<1> DEFINE L == LiveIn(F, exit)
<1>7. L \in SUBSET (1 .. exit)
  BY DEF LiveIn
<1>8. Acc(p.stack, L, p.count, p.top, p.firstDynamic)
  BY <1>5, <1>6
<1>9. StackOk(p.stack) /\ StackOk(c.stack) /\ p.top \in Nat /\ p.firstDynamic \in Nat
  BY <1>1, <1>3, CountFacts
<1>10. Saved(c.stack, F, p.firstDynamic)
  <2>1. \A i \in 1 .. Base(F) : c.stack[i] = p.stack[i]
    BY <1>2, <1>3
  <2> QED
    BY <2>1, <1>1, <1>6, SavedFront
<1> HIDE DEF exit, F, base, L
<1>11. Whole(c.stack, p.firstDynamic)
  <2>1. Whole(p.stack, p.firstDynamic)
    BY <1>8 DEF Acc
  <2>2. \A i \in 1 .. exit + m : i \in 1 .. base
    BY <1>2
  <2> QED
    BY <1>1, <1>3, <2>1, <2>2 DEF Whole
<1>12. L \in SUBSET (1 .. Len(c.stack)) /\ \A i \in L : c.stack[i] = p.stack[i]
  BY <1>2, <1>3, <1>7
<1>13. CountedIn(c.stack, L, p.firstDynamic) = CountedIn(p.stack, L, p.firstDynamic)
       /\ \A i \in CountedIn(p.stack, L, p.firstDynamic) : c.stack[i] = p.stack[i]
  BY <1>12 DEF CountedIn
<1>14. \A s \in p.firstDynamic .. MaxFunctionSlots - 1 :
          p.count[s] = p.count[s] /\ (s >= p.top => s >= p.top \/ p.count[s] = 0)
  OBVIOUS
<1>15. Acc(c.stack, L, p.count, p.top, p.firstDynamic)
  BY <1>8, <1>9, <1>11, <1>12, <1>13, <1>14, AccKept
<1>16. Away(c)
  <2>1. \A j \in NumLocals + 1 .. exit + m : j \in NumLocals + 1 .. base /\ j \in 1 .. exit + m
    BY <1>2
  <2> QED
    BY <1>3, <1>6, <2>1 DEF Away, Below, base
<1> QED
  BY <1>3, <1>4, <1>10, <1>15, <1>16 DEF L, exit

\* Its values are within maxStackSlots.
LEMMA CutCovers ==
  ASSUME NEW p, NEW m, MayCut(p, m), Covers(p), NEW c, c = Cut(p, m)
  PROVE  Covers(c)
<1> DEFINE k == Last(p.blocks).exit + m
<1>1. OK(p) /\ Len(p.stack) = Base(p.blocks)
  BY DEF MayCut
<1>2. Last(p.blocks).exit \in Nat /\ m \in Nat /\ k <= Base(p.blocks) /\ Base(p.blocks) \in Nat
  BY <1>1, CutFacts, Height
<1>3. OK(c) /\ Len(c.stack) = k /\ \A i \in 1 .. k : c.stack[i] = p.stack[i]
  BY CutKept
<1>4. c.top = p.top /\ c.maxSlots = p.maxSlots /\ c.reach = p.reach /\ c.values = p.values
  BY <1>1 DEF Cut, OK, Typed, Fields
<1>5. \A i \in 1 .. k : i <= Len(p.stack)
  <2>1. k \in Nat
    BY <1>2
  <2> HIDE DEF k
  <2> QED
    BY <1>1, <1>2, <2>1
<1> HIDE DEF k
<1>6. c.top <= c.maxSlots /\ c.maxSlots >= p.maxSlots
  <2>1. p.top <= p.maxSlots /\ p.maxSlots \in Nat
    BY <1>1, CountFacts DEF Covers
  <2> QED
    BY <1>4, <2>1
<1> QED
  BY <1>1, <1>3, <1>4, <1>5, <1>6, CoversMore DEF Reached

\* Nothing but locals is left of a block that had no parameters.
LEMMA CutCounts ==
  ASSUME NEW p, MayCut(p, 0), Counts(p), NEW c, c = Cut(p, 0)
  PROVE  Counts(c) /\ (NoSharing => Away(c))
<1> DEFINE exit == Last(p.blocks).exit
<1>1. Covers(c)
  BY CutCovers DEF Counts
<1>2. ASSUME NoSharing PROVE Accounted(c) /\ Away(c)
  <2>1. Accounted(p)
    BY <1>2 DEF Counts, MayCut
  <2>2. /\ Acc(c.stack, LiveIn(c.blocks, exit), c.count, c.top, c.firstDynamic)
        /\ Away(c) /\ Saved(c.stack, c.blocks, c.firstDynamic)
    BY <2>1, CutAccounted
  <2>3. OK(c) /\ Len(c.stack) = exit + 0 /\ exit \in Nat
    BY CutKept, CutFacts
  <2> HIDE DEF exit
  <2>4. Len(c.stack) = exit
    BY <2>3
  <2>5. Base(c.blocks) \in Nat /\ Base(c.blocks) <= Len(c.stack) /\ NumLocals \in Nat
        /\ c.firstConst \in Nat /\ Len(c.stack) \in Nat
        /\ (\A i \in 1 .. Len(c.stack) : c.stack[i] \in Item)
    BY <2>3, CountFacts, Height
  <2>6. \A i \in NumLocals + 1 .. Len(c.stack) : c.stack[i].slot \in Nat /\ c.stack[i].slot >= c.firstConst
    BY <2>2, <2>5, ItemFacts DEF Away
  <2>7. Single(c.stack, c.firstConst)
    <3>1. \A i \in NumLocals + 1 .. Len(c.stack) : ~(c.stack[i].slot < c.firstConst)
      BY <2>5, <2>6
    <3> QED
      BY <3>1 DEF Single
  <2>8. Below(c.stack, c.blocks, c.firstConst)
    <3>1. \A i \in NumLocals + 1 .. Base(c.blocks) : i \in NumLocals + 1 .. Len(c.stack)
      BY SMTT(40), <2>5
    <3> QED
      BY <2>6, <3>1 DEF Below
  <2> QED
    BY <2>2, <2>4, <2>7, <2>8 DEF Accounted, Spots
<1> QED
  BY <1>1, <1>2 DEF Counts

\* The else block finds the saved parameters of its if block.
LEMMA CutReady ==
  ASSUME NEW p, NEW type, type = Last(p.blocks).type, MayCut(p, Len(type.params)), Counts(p),
         NEW c, c = Cut(p, Len(type.params)), NEW a, a = [c EXCEPT !.stack = c.stack]
  PROVE  ReadyToEnter(c, a, type)
<1> DEFINE exit == Last(p.blocks).exit
           n == Len(type.params)
           F == Front(p.blocks)
           first == p.firstDynamic
<1>1. OK(p) /\ ~p.failed /\ Len(p.blocks) >= 2 /\ Len(p.stack) = Base(p.blocks) /\ BlocksOk(p.blocks)
  BY DEF MayCut, OK
<1>2. exit \in Nat /\ exit + n <= Base(p.blocks) /\ n \in Nat /\ Base(p.blocks) \in Nat
  BY <1>1, CutFacts
<1>3. /\ OK(c) /\ c.blocks = F /\ c.firstConst = p.firstConst /\ c.firstDynamic = first
      /\ Len(c.stack) = exit + n /\ \A i \in 1 .. exit + n : c.stack[i] = p.stack[i]
  BY CutKept
<1>4. Covers(c)
  BY CutCovers DEF Counts
<1>5. DOMAIN c = Fields
  BY <1>3 DEF OK, Typed
<1>6. /\ a.stack = c.stack /\ a.count = c.count /\ a.top = c.top /\ a.maxSlots = c.maxSlots
      /\ a.reach = c.reach /\ a.values = c.values
  BY SMTT(40), <1>5 DEF Fields
<1>7. Covers(a)
  BY <1>4, <1>6 DEF Covers
<1>8. Exit(c, type) = exit
  <2>1. Exit(c, type) = Len(c.stack) - n
    BY SMTT(40) DEF Exit
  <2> HIDE DEF exit, n
  <2> QED
    BY <2>1, <1>2, <1>3
<1>9. ASSUME NoSharing
      PROVE  /\ Acc(c.stack, LiveIn(F, exit), a.count, a.top, first)
             /\ Away(c) /\ Saved(c.stack, F, first)
             /\ ApartFrom(c.stack, exit, n, LiveIn(F, exit), first)
  <2>1. Accounted(p)
    BY <1>1, <1>9 DEF Counts
  <2>2. /\ Acc(c.stack, LiveIn(c.blocks, exit), c.count, c.top, c.firstDynamic)
        /\ Away(c) /\ Saved(c.stack, c.blocks, c.firstDynamic)
    BY <2>1, CutAccounted
  <2>3. LiveIn(F, exit) = LiveIn(p.blocks, exit)
    BY <1>1, LiveLeft
  <2>4. SavedIn(p.stack, p.blocks, Last(p.blocks), first)
    <3> DEFINE k == Len(p.blocks)
    <3>1. k \in 2 .. k /\ Last(p.blocks) = p.blocks[k]
      BY <1>1, ScopeFacts DEF Last
    <3>2. Saved(p.stack, p.blocks, first)
      BY <2>1 DEF Accounted, Spots
    <3> QED
      BY <3>1, <3>2 DEF Saved
  <2>5. \A i \in exit + 1 .. exit + n : \A j \in LiveIn(p.blocks, exit) \cup exit + 1 .. exit + n :
          InDynamic(p.stack[i], first) /\ InDynamic(p.stack[j], first) => i = j \/ Disjoint(p.stack[i], p.stack[j])
    BY <2>4 DEF SavedIn
  <2> DEFINE L == LiveIn(F, exit)
  <2>6. \A j \in L : j \in 1 .. exit
    BY DEF LiveIn
  <2>7. \A i \in 1 .. n : exit + i \in exit + 1 .. exit + n
    <3> HIDE DEF exit, n
    <3> QED
      BY <1>2
  <2>8. \A j \in L \cup exit + 1 .. exit + n : c.stack[j] = p.stack[j]
    <3> HIDE DEF exit, n, L
    <3>1. \A j \in L \cup exit + 1 .. exit + n : j \in 1 .. exit + n
      BY <1>2, <2>6
    <3> QED
      BY <1>3, <3>1
  <2>9. ApartFrom(c.stack, exit, n, L, first)
    <3> HIDE DEF L
    <3> SUFFICES ASSUME NEW i \in 1 .. n, NEW j \in L \cup exit + 1 .. exit + n,
                        InDynamic(c.stack[exit + i], first), InDynamic(c.stack[j], first)
                 PROVE  exit + i = j \/ Disjoint(c.stack[exit + i], c.stack[j])
      BY DEF ApartFrom
    <3> HIDE DEF exit, n, first
    <3> DEFINE k == exit + i
    <3>1. k \in exit + 1 .. exit + n
      BY <2>7
    <3>2. c.stack[k] = p.stack[k] /\ c.stack[j] = p.stack[j]
      BY <2>8, <3>1
    <3>3. j \in LiveIn(p.blocks, exit) \cup exit + 1 .. exit + n
      BY <2>3 DEF L
    <3> HIDE DEF k
    <3>4. InDynamic(p.stack[k], first) /\ InDynamic(p.stack[j], first) => k = j \/ Disjoint(p.stack[k], p.stack[j])
      BY <2>5, <3>1, <3>3
    <3> QED
      BY SMTT(40), <3>2, <3>4 DEF k
  <2> QED
    BY <1>3, <1>6, <2>2, <2>9
<1> QED
  BY <1>3, <1>7, <1>8, <1>9 DEF ReadyToEnter

\* The else block begins.
LEMMA ElseBegins ==
  ASSUME NEW p, NEW type, type = Last(p.blocks).type, MayCut(p, Len(type.params)), Counts(p),
         NEW c, c = Cut(p, Len(type.params)), MayEnterBlock(c, "else", type),
         NEW q, q = EnterBlock(c, "else", type)
  PROVE  ~q.ignored => Counts(q)
<1> DEFINE a == [c EXCEPT !.stack = c.stack]
<1>1. ReadyToEnter(c, a, type)
  BY CutReady
<1>2. a = [(IF "else" = "else" THEN c ELSE PopN(c, Len(type.params))) EXCEPT !.stack = c.stack]
  OBVIOUS
<1> HIDE DEF a
<1> QED
  BY <1>1, <1>2, EnterBlockCounts

\* The results of a block are live once it has ended.
LEMMA PushResultsCounts ==
  ASSUME NEW p, NEW results, MayPushResults(p, results), Counts(p), NEW q, q = PushBlockResults(p, results)
  PROVE  Counts(q)
<1> DEFINE l == Len(p.stack)
           n == Len(results)
           L == LiveIn(p.blocks, l)
<1>1. OK(p) /\ BlocksOk(p.blocks) /\ n \in Nat
  BY DEF MayPushResults, OK
<1>2. PushedResults(p, results, n, q)
  BY PushBlockResultsOK
<1>3. MoreCounted(p, L, n, q)
  BY ResultsCounted
<1>4. NewSlots(p, n, q)
  BY ResultsInDynamic
<1>5. OK(q) /\ Frame(p, q) /\ Covers(q)
  BY <1>2, <1>3 DEF PushedResults, MoreCounted, Counts
<1>6. ASSUME NoSharing, ~q.failed PROVE Accounted(q)
  <2>1. /\ ~p.failed /\ Len(q.stack) = l + n /\ \A i \in 1 .. l : q.stack[i] = p.stack[i]
    BY <1>2, <1>6 DEF PushedResults
  <2>2. Accounted(p)
    BY <1>6, <2>1 DEF Counts
  <2>3. Acc(p.stack, L, p.count, p.top, p.firstDynamic) /\ Spots(p.stack, p.blocks, p.firstConst, p.firstDynamic)
    BY <2>2 DEF Accounted
  <2>4. Acc(q.stack, L \cup l + 1 .. l + n, q.count, q.top, q.firstDynamic)
    BY <1>3, <1>6, <2>3 DEF MoreCounted
  <2>5. q.blocks = p.blocks /\ q.firstConst = p.firstConst /\ q.firstDynamic = p.firstDynamic
    BY <1>5 DEF Frame
  <2>6. l \in Nat /\ Base(p.blocks) \in Nat /\ Base(p.blocks) <= l
    BY <1>1, Height
  <2>7. \A j \in 1 .. n : q.stack[l + j].slot >= p.firstDynamic
    BY <1>4, <1>6 DEF NewSlots
  <2>8. \A i \in 1 .. Len(q.stack) : q.stack[i] \in Item
    BY <1>5, Height
  <2>9. p.firstConst \in Nat /\ p.firstDynamic \in Nat /\ p.firstConst <= p.firstDynamic
    BY <1>1, CountFacts
  <2> HIDE DEF l, n
  <2>10. LiveIn(p.blocks, l + n) = L \cup l + 1 .. l + n
    <3>1. l + n \in Nat /\ l <= l + n
      BY <1>1, <2>6
    <3> QED
      BY <1>1, <2>6, <3>1, LiveAbove
  <2>11. Spots(q.stack, p.blocks, p.firstConst, p.firstDynamic)
    <3>1. \A i \in 1 .. Base(p.blocks) : q.stack[i] = p.stack[i]
      BY <2>1, <2>6
    <3>2. ASSUME NEW i \in Base(p.blocks) + 1 .. Len(q.stack)
          PROVE  q.stack[i].slot \in Nat /\ (q.stack[i].slot >= p.firstConst \/ (i <= l /\ q.stack[i] = p.stack[i]))
      <4>1. i \in 1 .. l + n
        BY <1>1, <2>1, <2>6
      <4>2. q.stack[i].slot \in Nat
        BY <2>1, <2>8, <4>1, ItemFacts
      <4>3. CASE i <= l
        <5>1. i \in 1 .. l
          BY <4>1, <4>3, <2>6
        <5> QED
          BY <2>1, <4>2, <4>3, <5>1
      <4>4. CASE ~(i <= l)
        <5> DEFINE j == i - l
        <5>1. j \in 1 .. n /\ l + j = i
          BY <1>1, <2>6, <4>1, <4>4
        <5> HIDE DEF j
        <5>2. q.stack[i].slot >= p.firstDynamic
          BY <2>7, <5>1
        <5> QED
          BY <2>9, <4>2, <5>2
      <4> QED
        BY <4>3, <4>4
    <3>3. Len(q.stack) \in Nat /\ Base(p.blocks) <= Len(q.stack)
      BY <1>1, <2>1, <2>6
    <3>4. Len(p.stack) = l
      BY DEF l
    <3> QED
      BY <1>1, <2>3, <2>6, <2>9, <3>1, <3>2, <3>3, <3>4, SpotsKept
  <2> QED
    BY <2>1, <2>4, <2>5, <2>10, <2>11 DEF Accounted
<1> QED
  BY <1>5, <1>6 DEF Counts

\* The results of a block are counted when it ends.
LEMMA EndCounts ==
  ASSUME NEW p, MayCut(p, 0), Counts(p), NEW results, results \in Seq(ValueType),
         NEW z, z = WithBlocks(PushBlockResults(Shortened(p), results), Front(p.blocks))
  PROVE  Counts(z)
<1> DEFINE s == Shortened(p)
           F == Front(p.blocks)
           c == Cut(p, 0)
           a == PushBlockResults(c, results)
<1>1. OK(p) /\ DOMAIN p = Fields
  BY DEF MayCut, OK, Typed
<1>2. LET q == Cut(p, 0) IN OK(q) /\ ~q.failed /\ \A r \in Registers : q.reg[r] = 0
  BY CutOK
<1>3. DOMAIN s = Fields /\ Len(results) \in Nat
  BY <1>1, LenProperties DEF Shortened, Fields
<1>4. WithBlocks(s, F) = c
  <2>1. Last(p.blocks).exit + 0 = Last(p.blocks).exit
    BY CutFacts
  <2> QED
    BY <2>1, <1>1 DEF WithBlocks, Shortened, Cut, Fields
<1>5. Counts(c)
  BY CutCounts
<1> HIDE DEF s, F, c
<1>6. a = z
  BY <1>3, <1>4, PushResultsWith DEF s, F
<1>7. MayPushResults(c, results)
  BY <1>2, Numbers DEF MayPushResults, c
<1> HIDE DEF a
<1>8. Counts(a)
  BY <1>5, <1>7, PushResultsCounts DEF a
<1> QED
  BY <1>6, <1>8

\* An if block without parameters and results leaves nothing.
LEMMA EndIfCounts ==
  ASSUME NEW p, MayCut(p, 0), Counts(p), Last(p.blocks).type.params = <<>>, Last(p.blocks).type.results = <<>>
  PROVE  Counts(WithBlocks(p, Front(p.blocks)))
<1>1. 0 = Len(Last(p.blocks).type.params)
  OBVIOUS
<1>2. WithBlocks(p, Front(p.blocks)) = Cut(p, 0)
  BY <1>1, EndOfIf
<1> QED
  BY <1>2, CutCounts

-----------------------------------------------------------------------------
(* The invariant, and what preserves it                                    *)

\* The second inductive invariant; it stands on IInv.
CInv == Good => Counts(o)

\* What an operation leaves: an error, or a compilation that is counted.
StillCounted(p) == ~p.failed /\ ~p.ignored => OK(p) /\ Counts(p)

\* A compilation that is counted is one of those.
LEMMA KeptCounts ==
  ASSUME NEW p, OK(p), Counts(p)
  PROVE  StillCounted(p)
BY DEF StillCounted

\* Words in slots are not counted.
LEMMA MemCounts ==
  ASSUME NEW p, OK(p), Counts(p), NEW mem, NEW q, q = [p EXCEPT !.mem = mem]
  PROVE  Counts(q)
<1>1. DOMAIN p = Fields
  BY DEF OK, Typed
<1>2. Alias(p, q)
  BY <1>1 DEF Alias, Fields
<1> HIDE DEF Alias
<1> QED
  BY <1>2, AliasCounts

\* The compilation advances,
LEMMA AdvanceCounts ==
  ASSUME NEW p, StillCounted(p), NEW x, Advance(p, x)
  PROVE  CInv'
<1>1. CASE p.failed \/ p.ignored
  <2> DEFINE q == [Start EXCEPT !.failed = p.failed, !.ignored = p.ignored,
                                !.misread = p.misread, !.wild = p.wild]
  <2>1. o' = q
    BY <1>1 DEF Advance
  <2>2. q.failed = p.failed /\ q.ignored = p.ignored
    BY DEF Start
  <2> HIDE DEF q
  <2>3. ~Good'
    BY <1>1, <2>1, <2>2 DEF Good
  <2> QED
    BY <2>3 DEF CInv
<1>2. CASE ~p.failed /\ ~p.ignored
  <2>1. OK(p) /\ Counts(p) /\ Settle(p, x, Kept(p))
    BY <1>2 DEF Advance, StillCounted
  <2>2. \E mem : o' = [p EXCEPT !.mem = mem]
    BY <2>1 DEF Settle
  <2>3. Counts(o')
    BY <2>1, <2>2, MemCounts
  <2>4. Counts(o)'
    BY <2>3 DEF Counts, Covers, Accounted, NoSharing
  <2> QED
    BY <2>4 DEF CInv
<1> QED
  BY <1>1, <1>2

\* step by step.
LEMMA StepCounts ==
  ASSUME NEW p, StillCounted(p), NEW x, Step(p, x)
  PROVE  CInv'
BY AdvanceCounts DEF Step

\* What an instruction finds.
LEMMA NowCounts ==
  ASSUME IInv, CInv, Compiling
  PROVE  OK(o) /\ ~o.failed /\ ~o.ignored /\ Counts(o)
BY Now DEF CInv, Compiling, Good

-----------------------------------------------------------------------------
(* One instruction each: values                                            *)

\* Compile_Const_i32 and the like.
LEMMA ConstKeeps ==
  ASSUME IInv, CInv, NEW c \in Constants, Const(c)
  PROVE  CInv'
<1> DEFINE p == Constant(o, c.type, c.words)
<1>1. Compiling /\ Step(p, Replace(0, <<c.words>>))
  BY DEF Const, TypesOnTop
<1>2. OK(o) /\ Counts(o) /\ c.type \in ValueType
  BY <1>1, NowCounts, SignatureAssumption
<1>3. OK(p) /\ Counts(p)
  BY <1>2, ConstantOK, ConstantCounts
<1> HIDE DEF p
<1> QED
  BY <1>1, <1>3, KeptCounts, StepCounts

\* Compile_GetLocal
LEMMA LocalGetKeeps ==
  ASSUME IInv, CInv, NEW i \in 1 .. NumLocals, LocalGet(i)
  PROVE  CInv'
<1> DEFINE x == o.stack[i]
           p == Push(o, x.type, x.slot)
<1>1. Compiling /\ Step(p, Replace(0, <<w.locals[i]>>))
  BY DEF LocalGet, TypesOnTop
<1>2. OK(o) /\ ~o.failed /\ Counts(o)
  BY <1>1, NowCounts
<1>3. /\ i \in 1 .. Len(o.stack) /\ x.slot < o.firstConst /\ x.slot + GetTypeNumSlots(x.type) <= o.firstConst
      /\ x.type \in ValueType /\ x.slot \in Nat
      /\ \A j \in 1 .. Len(o.stack) : o.stack[j].slot = x.slot => o.stack[j] = x
  BY <1>2, ReferenceFacts
<1>4. x \in Item
  BY <1>2, <1>3, Height
<1>5. x = [type |-> x.type, slot |-> x.slot]
  BY <1>4 DEF Item
<1>6. NoSharing => FirstReference(o.stack, [type |-> x.type, slot |-> x.slot], o.firstConst)
  <2>1. \A j \in NumLocals + 1 .. Len(o.stack) : j \in 1 .. Len(o.stack)
    BY <1>2, Height
  <2>2. ASSUME NoSharing, NEW j \in NumLocals + 1 .. Len(o.stack), o.stack[j].slot = x.slot
        PROVE  ~Is64BitType(o.stack[j].type) /\ ~Is64BitType(x.type)
    <3>1. ~Is64BitType(x.type)
      BY <2>2 DEF LocalGet, NoSharing
    <3>2. o.stack[j] = x
      BY <1>3, <2>1, <2>2
    <3> QED
      BY <3>1, <3>2
  <2> HIDE DEF x
  <2>3. NoSharing => FirstReference(o.stack, x, o.firstConst)
    BY <2>2 DEF FirstReference
  <2> QED
    BY <1>5, <2>3
<1>7. \E j \in 1 .. NumLocals : [type |-> x.type, slot |-> x.slot] = o.stack[j]
  BY <1>5
<1> DEFINE n == x.slot + GetTypeNumSlots(x.type)
<1>8. n <= o.firstDynamic
  <2>1. o.firstConst \in Nat /\ o.firstDynamic \in Nat /\ o.firstConst <= o.firstDynamic /\ n \in Nat
    BY <1>2, <1>3, CountFacts, Types
  <2>2. n <= o.firstConst
    BY <1>3
  <2> HIDE DEF n
  <2> QED
    BY <2>1, <2>2
<1> HIDE DEF x
<1>9. OK(p) /\ Counts(p)
  BY <1>2, <1>3, <1>6, <1>7, <1>8, ReferenceCounts
<1> HIDE DEF p
<1> QED
  BY <1>1, <1>9, KeptCounts, StepCounts

\* Compile_SetLocal, for local.tee too
LEMMA LocalSetKeeps ==
  ASSUME IInv, CInv, NEW i \in 1 .. NumLocals, NEW tee \in BOOLEAN, LocalSet(i, tee)
  PROVE  CInv'
<1> DEFINE x == o.stack[i]
           h == Len(o.stack)
           p == PreserveLocal(o, i)
           c == CopyToSlot(p, x.slot, h)
           s == IF p.failed THEN p ELSE IF tee THEN c ELSE Pop(c)
           next == [w EXCEPT !.locals[i] = Last(w.vals)]
           y == IF tee THEN next ELSE [next EXCEPT !.vals = Under(1)]
<1>1. TypesOnTop(<<x.type>>) /\ Compiling /\ Step(s, y)
  BY DEF LocalSet, Then, TypesOnTop
<1>2. OK(o) /\ ~o.failed /\ Counts(o) /\ h \in Nat
  BY <1>1, NowCounts, Height
<1>3. x.type \in ValueType /\ x.slot \in Nat /\ x.slot + GetTypeNumSlots(x.type) <= o.firstConst
  BY <1>2, ReferenceFacts
<1>4. h >= 1 /\ o.stack[h].type = x.type
  <2>1. <<x.type>> \in Seq(ValueType) /\ Len(<<x.type>>) = 1 /\ <<x.type>>[1] = x.type
    BY <1>3
  <2>2. OnTop(o, <<x.type>>)
    BY <1>1, <2>1, NowOnTop
  <2>3. BlockHeight(o) >= 1 /\ o.stack[h - 1 + 1].type = x.type
    BY <2>1, <2>2 DEF OnTop
  <2>4. h - 1 + 1 = h
    BY <1>2
  <2>5. h >= 1
    <3>1. BlockHeight(o) = h - Base(o.blocks) /\ Base(o.blocks) \in Nat
      BY <1>2, Height
    <3> QED
      BY <3>1, <2>3, <1>2
  <2> QED
    BY <2>3, <2>4, <2>5
<1>5. OK(p) /\ Frame(o, p) /\ Moved(o, p) /\ Counts(p)
  BY <1>2, PreserveLocalOK, PreserveLocalCounts
<1> HIDE DEF p, x
<1>6. ASSUME ~p.failed PROVE OK(c) /\ Counts(c)
  <2>1. p.stack[h].type = x.type
    <3>1. h \in 1 .. h
      BY <1>2, <1>4
    <3> QED
      BY <3>1, <1>4, <1>5, <1>6 DEF Moved
  <2> DEFINE end == x.slot + GetTypeNumSlots(p.stack[h].type)
  <2>2. end \in Nat /\ end <= o.firstConst
    BY <1>3, <2>1, Types
  <2>3. /\ p.firstConst = o.firstConst /\ p.firstConst \in Nat /\ p.firstDynamic \in Nat /\ p.top \in Nat
        /\ p.firstConst <= p.firstDynamic /\ p.firstDynamic <= p.top /\ p.firstDynamic <= MaxFunctionSlots
        /\ p.maxSlots \in Nat /\ p.top <= p.maxSlots
    BY <1>5, CountFacts DEF Frame, Counts, Covers
  <2> HIDE DEF end
  <2>4. end <= Reg0 /\ end <= p.maxSlots + StackMargin
    BY SMTT(40), <2>2, <2>3, Numbers DEF StackMargin
  <2> QED
    BY <1>3, <1>5, <2>4, CopyCounts DEF end, InReach
<1> HIDE DEF c
<1>7. ASSUME ~p.failed PROVE OK(Pop(c)) /\ Counts(Pop(c))
  BY <1>6, <1>7, PopOK, PopCounts
<1>8. OK(s) /\ Counts(s)
  BY <1>5, <1>6, <1>7
<1> HIDE DEF s
<1> QED
  BY <1>1, <1>8, KeptCounts, StepCounts

\* Compile_Drop
LEMMA DropKeeps ==
  ASSUME IInv, CInv, Drop
  PROVE  CInv'
<1>1. Compiling /\ Step(Pop(o), Replace(1, <<>>))
  BY DEF Drop, TypesOnTop
<1>2. OK(Pop(o)) /\ Counts(Pop(o))
  BY <1>1, NowCounts, PopOK, PopCounts
<1> QED
  BY <1>1, <1>2, KeptCounts, StepCounts

\* Compile_GetGlobal
LEMMA GlobalGetKeeps ==
  ASSUME IInv, CInv, NEW t \in GlobalTypes, GlobalGet(t)
  PROVE  CInv'
<1> DEFINE words == NewWords(t)
           a == PushAllocatedSlot(o, t)
           p == Result(a, words)
<1>1. Compiling /\ Step(p, Replace(0, <<words>>))
  BY DEF GlobalGet, TypesOnTop
<1>2. OK(o) /\ Counts(o) /\ t \in ValueType
  BY <1>1, NowCounts, SignatureAssumption
<1> HIDE DEF words
<1>3. OK(a) /\ Counts(a)
  BY <1>2, PushAllocated, AllocatedCounts
<1> HIDE DEF a
<1>4. OK(p) /\ Counts(p)
  BY <1>3, ResultCounts
<1> HIDE DEF p
<1> QED
  BY <1>1, <1>4, KeptCounts, StepCounts

\* Compile_SetGlobal
LEMMA GlobalSetKeeps ==
  ASSUME IInv, CInv, NEW t \in GlobalTypes, GlobalSet(t)
  PROVE  CInv'
<1> DEFINE a == Observed(o, 1)
<1>1. Compiling /\ Step(Pop(a), Replace(1, <<>>))
  BY DEF GlobalSet, TypesOnTop
<1>2. OK(a) /\ Counts(a)
  BY <1>1, NowCounts, ObserveCounts DEF Observed
<1> HIDE DEF a
<1>3. OK(Pop(a)) /\ Counts(Pop(a))
  BY <1>2, PopOK, PopCounts
<1> QED
  BY <1>1, <1>3, KeptCounts, StepCounts

\* A value that comes to its register, with its words.
LEMMA NewRegisterCounts ==
  ASSUME NEW p, OK(p), Counts(p), NEW t \in ValueType, NEW words,
         ~p.failed => p.reg[RegisterOf(t)] = 0
  PROVE  StillCounted(Result(PushRegister(p, t), words))
<1>1. OK(PushRegister(p, t)) /\ Counts(PushRegister(p, t))
  BY PushInRegister, RegisterCounts
<1>2. OK(Result(PushRegister(p, t), words)) /\ Counts(Result(PushRegister(p, t), words))
  BY <1>1, ResultCounts
<1> QED
  BY <1>2, KeptCounts

\* A register may be occupied, and is preserved.
LEMMA MaybeCounts ==
  ASSUME NEW p, OK(p), Counts(p), NEW r \in Registers, NEW q, q = p \/ q = PreserveRegisterIfOccupied(p, r)
  PROVE  OK(q) /\ Counts(q)
BY PreserveMaybeCounts, PreserveRegister

\* The operands are read, and go.
LEMMA ConsumedCounts ==
  ASSUME NEW p, OK(p), Counts(p), NEW got, NEW expected, NEW n \in Nat
  PROVE  Counts(Consumed(p, got, expected, n))
<1> DEFINE a == Observe(p, got, expected)
<1>1. OK(a) /\ Counts(a)
  BY ObserveCounts
<1> HIDE DEF a
<1>2. Counts(PopN(a, n))
  BY <1>1, PopNCounts
<1> QED
  BY <1>2 DEF Consumed, a

\* Compile_Operator and Compile_Load_Store
LEMMA OperateKeeps ==
  ASSUME IInv, CInv, NEW op \in Operators, Operate(op)
  PROVE  CInv'
<1>1. PICK p, q, r, got, expected : Operates(op, p, q, r, got, expected)
  BY OperateIs
<1> DEFINE R == op.result
           n == Len(op.operands)
           s == Consumed(r, got, expected, n)
<1>2. /\ p = o \/ p = PreserveRegisterIfOccupied(o, Reg0)
      /\ q = p \/ q = PreserveRegisterIfOccupied(p, Fp0)
      /\ r = q \/ r = PreserveRegisterIfOccupied(q, RegisterOf(R))
      /\ n \in Nat /\ OK(s)
      /\ R = None => Step(s, Replace(n, <<>>))
      /\ R # None => /\ R \in ValueType /\ (~s.failed => s.reg[RegisterOf(R)] = 0)
                     /\ Step(Result(PushRegister(s, R), NewWords(R)), Replace(n, <<NewWords(R)>>))
  BY <1>1 DEF Operates
<1>3. Compiling
  BY DEF Operate, TypesOnTop
<1>4. OK(o) /\ Counts(o)
  BY <1>3, NowCounts
<1>5. Reg0 \in Registers /\ Fp0 \in Registers /\ RegisterOf(R) \in Registers
  BY Numbers DEF RegisterOf
<1> HIDE DEF R, n
<1>6. OK(p) /\ Counts(p)
  BY <1>2, <1>4, <1>5, MaybeCounts
<1>7. OK(q) /\ Counts(q)
  BY <1>2, <1>5, <1>6, MaybeCounts
<1>8. OK(r) /\ Counts(r)
  BY <1>2, <1>5, <1>7, MaybeCounts
<1>9. Counts(s)
  BY <1>2, <1>8, ConsumedCounts
<1> HIDE DEF s
<1>10. CASE R = None
  BY <1>10, <1>2, <1>9, KeptCounts, StepCounts
<1>11. CASE R # None
  <2> DEFINE u == Result(PushRegister(s, R), NewWords(R))
  <2>1. StillCounted(u)
    BY <1>2, <1>9, <1>11, NewRegisterCounts
  <2>2. Step(u, Replace(n, <<NewWords(R)>>))
    BY <1>2, <1>11
  <2> HIDE DEF u
  <2> QED
    BY <2>1, <2>2, StepCounts
<1> QED
  BY <1>10, <1>11

\* Compile_Convert
LEMMA ConvertKeeps ==
  ASSUME IInv, CInv, NEW op \in Conversions, Convert(op)
  PROVE  CInv'
<1> DEFINE R == op.result
           words == NewWords(R)
           a == Observed(o, 1)
           b == Pop(a)
           c == IF o.reg[RegisterOf(R)] # 0 THEN PushAllocatedSlot(b, R) ELSE PushRegister(b, R)
           u == Result(c, words)
<1>1. TypesOnTop(op.operands) /\ Step(u, Replace(1, <<words>>))
  BY DEF Convert
<1>2. OK(o) /\ ~o.failed /\ Counts(o)
  BY <1>1, NowCounts DEF TypesOnTop
<1>3. R \in ValueType /\ Len(op.operands) = 1 /\ RegisterOf(R) \in Registers
  BY SignatureAssumption, Types
<1>4. BlockHeight(o) >= 1
  BY <1>1, <1>3 DEF TypesOnTop
<1>5. OK(a) /\ Frame(o, a) /\ a.failed = o.failed /\ a.stack = o.stack /\ a.reg = o.reg /\ Counts(a)
  BY <1>2, ObservedOK, ObserveCounts DEF Observed
<1> HIDE DEF a, R, words
<1>6. BlockHeight(a) = BlockHeight(o)
  BY <1>5 DEF BlockHeight, Block, Frame
<1>7. OK(b) /\ Counts(b)
  BY <1>4, <1>5, <1>6, PopTop, PopCounts
<1> HIDE DEF b
<1>8. StillCounted(u)
  <2>1. CASE o.reg[RegisterOf(R)] # 0
    <3> DEFINE d == PushAllocatedSlot(b, R)
    <3>1. OK(d) /\ Counts(d)
      BY <1>3, <1>7, PushAllocated, AllocatedCounts
    <3> HIDE DEF d
    <3>2. OK(Result(d, words)) /\ Counts(Result(d, words))
      BY <3>1, ResultCounts
    <3>3. u = Result(d, words)
      BY <2>1 DEF d
    <3> HIDE DEF u
    <3> QED
      BY <3>2, <3>3, KeptCounts
  <2>2. CASE o.reg[RegisterOf(R)] = 0
    <3>1. b.reg[RegisterOf(R)] = 0
      BY <2>2, <1>2, <1>3, <1>4, <1>5, <1>6, FreeAfterPop DEF b
    <3>2. StillCounted(Result(PushRegister(b, R), words))
      BY <3>1, <1>3, <1>7, NewRegisterCounts
    <3>3. u = Result(PushRegister(b, R), words)
      BY <2>2
    <3> HIDE DEF u
    <3> QED
      BY <3>2, <3>3
  <2> QED
    BY <2>1, <2>2
<1> HIDE DEF u
<1> QED
  BY <1>1, <1>8, StepCounts

\* Compile_Select
LEMMA SelectKeeps ==
  ASSUME IInv, CInv, NEW t \in SelectTypes, Select(t)
  PROVE  CInv'
<1>1. PICK r, got, expected : Selects(t, r, got, expected)
  BY SelectIs
<1> DEFINE s == Consumed(r, got, expected, 3)
           u == Result(PushRegister(s, t), NewWords(t))
<1>2. /\ t \in ValueType
      /\ r = o \/ r = PreserveRegisterIfOccupied(o, RegisterOf(t))
      /\ OK(s) /\ (~s.failed => s.reg[RegisterOf(t)] = 0)
      /\ Step(u, Replace(3, <<NewWords(t)>>))
  BY <1>1 DEF Selects
<1>3. Compiling
  BY DEF Select, TypesOnTop
<1>4. OK(o) /\ Counts(o) /\ RegisterOf(t) \in Registers
  BY <1>3, NowCounts, Numbers DEF RegisterOf
<1>5. OK(r) /\ Counts(r)
  BY <1>2, <1>4, MaybeCounts
<1>6. Counts(s)
  BY <1>5, ConsumedCounts
<1> HIDE DEF s
<1>7. StillCounted(u)
  BY <1>2, <1>6, NewRegisterCounts
<1> HIDE DEF u
<1> QED
  BY <1>2, <1>7, StepCounts

\* Compile_Memory_Size
LEMMA MemorySizeKeeps ==
  ASSUME IInv, CInv, MemorySize
  PROVE  CInv'
<1> DEFINE words == NewWords("i32")
           p == PreserveRegisterIfOccupied(o, Reg0)
           u == Result(PushRegister(p, "i32"), words)
<1>1. Compiling /\ Step(u, Replace(0, <<words>>))
  BY DEF MemorySize, TypesOnTop
<1>2. OK(o) /\ Counts(o)
  BY <1>1, NowCounts
<1>3. Reg0 \in Registers /\ RegisterOf("i32") = Reg0 /\ "i32" \in ValueType
  BY Numbers DEF RegisterOf, IsFpType, ValueType
<1>4. OK(p) /\ Counts(p) /\ (~p.failed => p.reg[Reg0] = 0)
  BY <1>2, <1>3, PreserveRegister, MaybeCounts
<1> HIDE DEF p, words
<1>5. StillCounted(u)
  BY <1>3, <1>4, NewRegisterCounts
<1> HIDE DEF u
<1> QED
  BY <1>1, <1>5, StepCounts

\* Compile_Memory_Grow
LEMMA MemoryGrowKeeps ==
  ASSUME IInv, CInv, MemoryGrow
  PROVE  CInv'
<1> DEFINE words == NewWords("i32")
           p == CopyTopToRegister(o)
           a == Observe(p, InRegister(p, Reg0), Last(w.vals))
           b == Pop(a)
           u == Result(PushRegister(b, "i32"), words)
<1>1. TypesOnTop(<<"i32">>) /\ Step(u, Replace(1, <<words>>))
  BY DEF MemoryGrow
<1>2. OK(o) /\ Counts(o)
  BY <1>1, NowCounts DEF TypesOnTop
<1>3. OK(a) /\ OK(b) /\ Len(o.stack) > Base(o.blocks) /\ (~b.failed => b.reg[Reg0] = 0)
  BY <1>1, GrowFree
<1>4. OK(p) /\ Counts(p)
  BY <1>2, <1>3, CopyTopOK, CopyTopCounts
<1> HIDE DEF p
<1>5. Counts(a)
  BY <1>4, ObserveCounts
<1> HIDE DEF a, words
<1>6. Counts(b)
  BY <1>3, <1>5, PopCounts
<1> HIDE DEF b
<1>7. RegisterOf("i32") = Reg0 /\ "i32" \in ValueType
  BY DEF RegisterOf, IsFpType, ValueType
<1>8. StillCounted(u)
  BY <1>3, <1>6, <1>7, NewRegisterCounts
<1> HIDE DEF u
<1> QED
  BY <1>1, <1>8, StepCounts

\* Compile_Memory_CopyFill
LEMMA MemoryCopyFillKeeps ==
  ASSUME IInv, CInv, MemoryCopyFill
  PROVE  CInv'
<1> DEFINE T == <<"i32", "i32", "i32">>
           p == CopyTopToRegister(o)
           got == <<Read(p, Top(p, 2)), Read(p, Top(p, 1)), InRegister(p, Reg0)>>
           u == Consumed(p, got, LastN(3), 3)
<1>1. TypesOnTop(T) /\ Step(u, Replace(3, <<>>))
  BY DEF MemoryCopyFill, Consumed
<1>2. T \in Seq(ValueType) /\ Len(T) >= 1
  BY DEF ValueType
<1> HIDE DEF T
<1>3. OK(o) /\ ~o.failed /\ Len(o.stack) > Base(o.blocks)
  BY <1>1, <1>2, TopOfType
<1>4. Counts(o)
  BY <1>1, NowCounts DEF TypesOnTop
<1>5. OK(p) /\ Counts(p)
  BY <1>3, <1>4, CopyTopOK, CopyTopCounts
<1> HIDE DEF p, got
<1>6. OK(u) /\ Counts(u)
  BY <1>5, ConsumedOK, ConsumedCounts
<1> HIDE DEF u
<1> QED
  BY <1>1, <1>6, KeptCounts, StepCounts

\* Compile_Call and Compile_CallIndirect
LEMMA CallKeeps ==
  ASSUME IInv, CInv, "high_calls" \notin Allowed, NEW call \in CallTypes, NEW indirect \in BOOLEAN,
         Call(call, indirect)
  PROVE  CInv'
<1> DEFINE operands == call.args \o IF indirect THEN <<"i32">> ELSE <<>>
           results == [k \in DOMAIN call.rets |-> NewWords(call.rets[k])]
           p == IF indirect /\ TopInRegister(o, 0) THEN PreserveRegisterIfOccupied(o, Reg0) ELSE o
           max == GetMaxUsedSlotPlusOne(p)
           c == CallFrame(p, call, indirect, max)
           q == IF p.failed THEN p ELSE c
           u == IF results = <<>> THEN q ELSE Result(q, Head(results))
<1>1. /\ Compiling /\ FrameBehind(max) + 2 * Len(call.rets) <= MaxFunctionSlots
      /\ Step(u, Replace(Len(operands), results))
  BY DEF Call, Then, TypesOnTop, PreserveIf
<1>2. OK(o) /\ Counts(o)
  BY <1>1, NowCounts
<1>3. OK(p) /\ Counts(p)
  <2>1. p = o \/ p = PreserveRegisterIfOccupied(o, Reg0)
    OBVIOUS
  <2> HIDE DEF p
  <2> QED
    BY <2>1, <1>2, Numbers, MaybeCounts
<1> HIDE DEF p, results, operands
<1>4. max \in Nat /\ p.firstDynamic <= max
  BY <1>3, HighestUsed
<1>5. Counts(c)
  BY <1>1, <1>3, CallFrameCounts
<1> HIDE DEF max
<1>6. OK(c)
  BY <1>1, <1>3, <1>4, CallFrameOK
<1> HIDE DEF c
<1>7. OK(q) /\ Counts(q)
  BY <1>3, <1>5, <1>6
<1> HIDE DEF q
<1>8. OK(u) /\ Counts(u)
  BY <1>7, ResultCounts
<1> HIDE DEF u
<1> QED
  BY <1>1, <1>8, KeptCounts, StepCounts

-----------------------------------------------------------------------------
(* One instruction each: blocks                                            *)

\* Where execution is does not count, whether the compilation went on or not.
LEMMA GoOnKept ==
  ASSUME NEW p, StillCounted(p), NEW skip, NEW to
  PROVE  StillCounted(GoOn(p, skip, to))
<1> DEFINE q == GoOn(p, skip, to)
<1>1. q.failed = p.failed /\ q.ignored = p.ignored
  BY DEF GoOn
<1>2. ASSUME ~p.failed, ~p.ignored PROVE OK(q) /\ Counts(q)
  <2>1. OK(p) /\ Counts(p)
    BY <1>2 DEF StillCounted
  <2> QED
    BY <2>1, WithSkip, GoOnCounts
<1> HIDE DEF q
<1>3. StillCounted(q)
  BY <1>1, <1>2 DEF StillCounted
<1> QED
  BY <1>3 DEF q

\* What begins is counted.
LEMMA EnteredKept ==
  ASSUME NEW p, NEW opcode, NEW type, MayEnterBlock(p, opcode, type), NEW q, q = EnterBlock(p, opcode, type),
         ~q.ignored => Counts(q)
  PROVE  StillCounted(q)
<1>1. ~q.ignored => OK(q)
  BY EnteredHeld
<1> QED
  BY <1>1 DEF StillCounted

\* Where a block begins, the slots of its parameters are not those of others.
LEMMA EntersUnshared ==
  ASSUME NEW p, NEW type, ~p.failed, MayEnter(p, type)
  PROVE  NoSharing => ParamsUnshared(p, Len(type.params))
BY DEF MayEnter, NoSharing

\* The values below the one that goes stay.
LEMMA PopKept ==
  ASSUME NEW p, OK(p), NEW q, q = Pop(p)
  PROVE  /\ Len(q.stack) \in Nat /\ Len(q.stack) <= Len(p.stack)
         /\ \A j \in 1 .. Len(q.stack) : q.stack[j] = p.stack[j]
<1>1. Len(p.stack) \in Nat /\ Base(p.blocks) \in Nat /\ Base(p.blocks) <= Len(p.stack) /\ StackOk(p.stack)
  BY Height DEF OK, Typed
<1>2. CASE Len(p.stack) > Base(p.blocks)
  <2>1. q.stack = Front(p.stack)
    BY <1>2, PopOne
  <2>2. Len(Front(p.stack)) = Len(p.stack) - 1 /\ \A i \in 1 .. Len(p.stack) - 1 : Front(p.stack)[i] = p.stack[i]
    BY <1>1, <1>2, FrontTyped
  <2>3. Len(q.stack) = Len(p.stack) - 1 /\ Len(p.stack) - 1 \in Nat
    BY <2>1, <2>2, <1>1, <1>2
  <2> QED
    BY <2>1, <2>2, <2>3, <1>1
<1>3. CASE Len(p.stack) = Base(p.blocks)
  <2>1. q.stack = p.stack
    BY <1>3, PopNone
  <2> QED
    BY <2>1, <1>1
<1> QED
  BY <1>1, <1>2, <1>3

\* Compile_LoopOrBlock, where the block begins
LEMMA LoopOrBlockKeeps ==
  ASSUME IInv, CInv, "fp_results" \notin Allowed, NEW opcode \in {"block", "loop"}, NEW type \in BlockTypes,
         LoopOrBlock(opcode, type)
  PROVE  CInv'
<1> DEFINE n == Len(type.params)
           r == PreserveRegisters(o)
           p == PreserveArgsAndLocals(r)
           label == IF opcode = "loop" THEN n ELSE Len(type.results)
           q == IF opcode = "loop" THEN InstantiateConstants(p, n) ELSE p
           e == EnterBlock(q, opcode, type)
           u == IF q.failed THEN q ELSE e
           x == EnterLabel(w, n, label)
<1>1. /\ n \in Nat /\ OK(p) /\ (opcode = "loop" /\ ~p.failed => n <= BlockHeight(p))
      /\ OK(q) /\ MayEnter(q, type)
      /\ ~q.failed => MayEnterBlock(q, opcode, type)
      /\ Compiling /\ Step(u, x)
  BY LoopOrBlockIs
<1>2. OK(o) /\ Counts(o)
  BY <1>1, NowCounts
<1>3. OK(r) /\ Counts(r)
  BY <1>2, PreserveBoth, PreserveBothCounts
<1> HIDE DEF r, n, x
<1>4. Counts(p) /\ (NoSharing /\ ~p.failed => Away(p))
  BY <1>3, PreserveLocalsCounts
<1> HIDE DEF p
<1>5. Counts(q) /\ (NoSharing /\ ~q.failed => Away(q))
  <2>1. CASE opcode # "loop"
    BY <2>1, <1>4
  <2>2. CASE opcode = "loop" /\ p.failed
    <3>1. InstantiateConstants(p, n) = p
      BY <2>2, <1>1, InstantiateFailed
    <3> QED
      BY <3>1, <2>2, <1>4
  <2>3. CASE opcode = "loop" /\ ~p.failed
    <3> DEFINE i == InstantiateConstants(p, n)
    <3>1. OK(i) /\ Frame(p, i) /\ Counts(i) /\ Lifted(p, i)
      BY <2>3, <1>1, <1>4, InstantiateConstantsOK, InstantiateConstantsCounts
    <3> HIDE DEF i
    <3>2. NoSharing /\ ~i.failed => Away(i)
      BY <3>1, <2>3, <1>1, <1>4, AwayLifted
    <3>3. q = i
      BY <2>3 DEF i
    <3> HIDE DEF q
    <3> QED
      BY <3>1, <3>2, <3>3
  <2> QED
    BY <2>1, <2>2, <2>3
<1> HIDE DEF q
<1>6. CASE q.failed
  <2>1. StillCounted(q)
    BY <1>1, <1>5, KeptCounts
  <2>2. u = q
    BY <1>6
  <2> HIDE DEF u
  <2> QED
    BY <2>1, <2>2, <1>1, StepCounts
<1>7. CASE ~q.failed
  <2>1. MayEnterBlock(q, opcode, type) /\ opcode # "else"
    BY <1>1, <1>7
  <2>2. NoSharing => Away(q) /\ ParamsUnshared(q, Len(type.params))
    BY <1>1, <1>5, <1>7, EntersUnshared
  <2>3. ~e.ignored => Counts(e)
    BY <2>1, <2>2, <1>5, BlockBegins
  <2>4. StillCounted(e)
    BY <2>1, <2>3, EnteredKept
  <2>5. u = e
    BY <1>7
  <2> HIDE DEF u, e
  <2> QED
    BY <2>4, <2>5, <1>1, StepCounts
<1> QED
  BY <1>6, <1>7

\* Compile_If, where the block begins
LEMMA IfKeeps ==
  ASSUME IInv, CInv, "fp_results" \notin Allowed, NEW type \in BlockTypes, NEW taken \in BOOLEAN, If(type, taken)
  PROVE  CInv'
<1> DEFINE r == PreserveNonTopRegisters(o)
           p == PreserveArgsAndLocals(r)
           b == Observed(p, 1)
           c == Pop(b)
           q == IF p.failed THEN p ELSE c
           e == EnterBlock(q, "if", type)
           g == GoOn(e, "else", Len(e.blocks))
           u == IF q.failed THEN q ELSE IF taken \/ e.ignored THEN e ELSE g
           x == EnterLabel([w EXCEPT !.vals = Under(1)], Len(type.params), Len(type.results))
<1>1. /\ OK(p) /\ MayEnter(q, type) /\ Compiling /\ Step(u, x)
      /\ ~p.failed => /\ OK(b) /\ OK(c) /\ ~c.failed /\ MayEnterBlock(c, "if", type)
  BY IfIs
<1>2. OK(o) /\ Counts(o)
  BY <1>1, NowCounts
<1>3. OK(r) /\ Counts(r)
  BY <1>2, PreserveOthers, PreserveOthersCounts
<1> HIDE DEF r, x
<1>4. Counts(p) /\ (NoSharing /\ ~p.failed => Away(p))
  BY <1>3, PreserveLocalsCounts
<1>5. Counts(b) /\ b.stack = p.stack /\ b.failed = p.failed /\ b.firstConst = p.firstConst
  BY <1>1, <1>4, ObserveCounts, ObservedOK DEF Observed, Frame
<1> HIDE DEF b, p
<1>6. CASE p.failed
  <2>1. StillCounted(p)
    BY <1>1, <1>4, KeptCounts
  <2>2. u = p
    BY <1>6
  <2> HIDE DEF u
  <2> QED
    BY <2>1, <2>2, <1>1, StepCounts
<1>7. CASE ~p.failed
  <2>1. OK(b) /\ OK(c) /\ ~c.failed /\ MayEnterBlock(c, "if", type)
    BY <1>1, <1>7
  <2>2. Counts(c)
    BY <2>1, <1>5, PopCounts
  <2>3. Len(c.stack) \in Nat /\ Len(c.stack) <= Len(b.stack) /\ \A j \in 1 .. Len(c.stack) : c.stack[j] = b.stack[j]
    BY <2>1, PopKept
  <2>4. NoSharing => Away(c)
    <3>1. Len(b.stack) \in Nat /\ NumLocals \in Nat
      BY <2>1, Height
    <3>2. \A j \in NumLocals + 1 .. Len(c.stack) : j \in NumLocals + 1 .. Len(b.stack) /\ c.stack[j] = b.stack[j]
      BY <3>1, <2>3
    <3>3. ASSUME NoSharing PROVE \A j \in NumLocals + 1 .. Len(b.stack) : b.stack[j].slot >= b.firstConst
      BY <3>3, <1>4, <1>5, <1>7 DEF Away
    <3>4. c.firstConst = b.firstConst
      BY <2>1, PopOK DEF Frame
    <3> HIDE DEF c
    <3> QED
      BY <3>2, <3>3, <3>4 DEF Away
  <2>5. q = c
    BY <1>7
  <2> HIDE DEF q, c
  <2>6. NoSharing => ParamsUnshared(c, Len(type.params))
    BY <2>1, <2>5, <1>1, EntersUnshared
  <2>7. ~e.ignored => Counts(e)
    BY <2>1, <2>2, <2>4, <2>5, <2>6, BlockBegins
  <2>8. StillCounted(e)
    BY <2>1, <2>5, <2>7, EnteredKept
  <2>9. u = e \/ u = g
    BY <2>1, <2>5
  <2> HIDE DEF u, e
  <2>10. StillCounted(g)
    BY <2>8, GoOnKept
  <2> HIDE DEF g
  <2> QED
    BY <2>8, <2>9, <2>10, <1>1, StepCounts
<1> QED
  BY <1>6, <1>7

\* The block that ends is left, and counted.
LEMMA LeftCounts ==
  ASSUME IInv, CInv, AtBlockEnd, NEW p, p = LeaveBlock(o)
  PROVE  OK(p) /\ Counts(p)
<1>1. OK(o) /\ ~o.failed /\ Counts(o)
  BY NowCounts DEF AtBlockEnd
<1>2. Len(o.blocks) \in Nat /\ Len(o.blocks) >= 2 /\ BlocksOk(o.blocks) /\ Block(o) = o.blocks[Len(o.blocks)]
  BY EndFacts, <1>1 DEF OK
<1> DEFINE T == Block(o).type.results
<1>3. T \in Seq(ValueType)
  <2>1. Len(o.blocks) \in 1 .. Len(o.blocks)
    BY <1>2
  <2> QED
    BY <2>1, <1>2, ScopeFacts
<1>4. ~Block(o).poly => BlockHeight(o) = Len(T) /\ OnTop(o, T)
  BY <1>3, NowOnTop DEF AtBlockEnd
<1> HIDE DEF T
<1>5. Counts(p)
  BY <1>1, <1>2, <1>4, LeaveBlockCounts DEF T
<1>6. OK(p)
  BY EndFacts
<1> QED
  BY <1>5, <1>6

\* CompileElseBlock
LEMMA ElseKeeps ==
  ASSUME IInv, CInv, Else
  PROVE  CInv'
<1> DEFINE b == Block(o)
           k == Len(o.blocks)
           p == LeaveBlock(o)
           n == Len(b.type.params)
           c == Cut(p, n)
           e == EnterBlock(c, "else", b.type)
           f == CASE o.skip = "no" -> GoOn(e, "end", k)
                  [] o.skip = "else" /\ o.to = k -> GoOn(e, "no", 0)
                  [] OTHER -> e
           u == IF p.failed THEN p ELSE f
           x == ExitLabel(w)
<1>1. /\ AtBlockEnd /\ Step(u, x)
      /\ ~p.failed => /\ MayCut(p, n) /\ Last(p.blocks) = b /\ MayEnterBlock(c, "else", b.type)
  BY ElseIs
<1>2. OK(p) /\ Counts(p)
  BY <1>1, LeftCounts
<1> HIDE DEF p, x
<1>3. CASE p.failed
  <2>1. StillCounted(p)
    BY <1>2, KeptCounts
  <2>2. u = p
    BY <1>3
  <2> HIDE DEF u
  <2> QED
    BY <2>1, <2>2, <1>1, StepCounts
<1>4. CASE ~p.failed
  <2> DEFINE T == b.type
  <2>1. MayCut(p, n) /\ T = Last(p.blocks).type /\ MayEnterBlock(c, "else", T)
    BY <1>1, <1>4
  <2>2. n = Len(T.params)
    OBVIOUS
  <2>3. MayCut(p, Len(T.params)) /\ c = Cut(p, Len(T.params))
    BY <2>1, <2>2
  <2> HIDE DEF T
  <2>4. ~e.ignored => Counts(e)
    BY <2>1, <2>3, <1>2, ElseBegins DEF T
  <2>5. StillCounted(e)
    BY <2>1, <2>4, EnteredKept DEF T
  <2>6. f = e \/ f = GoOn(e, "end", k) \/ f = GoOn(e, "no", 0)
    OBVIOUS
  <2>7. u = f
    BY <1>4
  <2> HIDE DEF u, f, e
  <2>8. StillCounted(f)
    BY <2>5, <2>6, GoOnKept
  <2> QED
    BY <2>7, <2>8, <1>1, StepCounts
<1> QED
  BY <1>3, <1>4

\* The end of a block, in Compile_LoopOrBlock and Compile_If
LEMMA EndKeeps ==
  ASSUME IInv, CInv, End
  PROVE  CInv'
<1> DEFINE b == Block(o)
           k == Len(o.blocks)
           p == LeaveBlock(o)
           R == b.type.results
           resumes == o.skip # "no" /\ o.to = k
           y == IF b.opcode = "if" THEN p ELSE PushBlockResults(Shortened(p), R)
           z == WithBlocks(y, Front(p.blocks))
           g == GoOn(z, IF resumes THEN "no" ELSE o.skip, IF resumes THEN 0 ELSE o.to)
           u == IF p.failed THEN p ELSE g
           x == IF Running \/ (resumes /\ o.skip = "else") THEN ExitLabel(w) ELSE w
<1>1. /\ AtBlockEnd /\ Advance(u, x)
      /\ b.opcode = "if" => b.type.params = <<>> /\ b.type.results = <<>>
      /\ R \in Seq(ValueType)
      /\ ~p.failed => Last(p.blocks) = b /\ MayCut(p, 0) /\ OK(z)
  BY EndIs
<1>2. OK(p) /\ Counts(p)
  BY <1>1, LeftCounts
<1> HIDE DEF p, x, resumes
<1>3. CASE p.failed
  <2>1. StillCounted(p)
    BY <1>2, KeptCounts
  <2>2. u = p
    BY <1>3
  <2> HIDE DEF u
  <2> QED
    BY <2>1, <2>2, <1>1, AdvanceCounts
<1>4. CASE ~p.failed
  <2>1. Last(p.blocks) = b /\ MayCut(p, 0) /\ OK(z)
    BY <1>1, <1>4
  <2>2. Counts(z)
    <3>1. CASE b.opcode = "if"
      <4>1. Counts(WithBlocks(p, Front(p.blocks)))
        BY <3>1, <2>1, <1>1, <1>2, EndIfCounts
      <4> QED
        BY <4>1, <3>1
    <3>2. CASE b.opcode # "if"
      <4>1. z = WithBlocks(PushBlockResults(Shortened(p), R), Front(p.blocks))
        BY <3>2
      <4> HIDE DEF z, R
      <4> QED
        BY <4>1, <2>1, <1>1, <1>2, EndCounts
    <3> QED
      BY <3>1, <3>2
  <2> HIDE DEF z
  <2>3. StillCounted(z)
    BY <2>1, <2>2, KeptCounts
  <2>4. StillCounted(g)
    BY <2>3, GoOnKept
  <2>5. u = g
    BY <1>4
  <2> HIDE DEF u, g
  <2> QED
    BY <2>4, <2>5, <1>1, AdvanceCounts
<1> QED
  BY <1>3, <1>4

-----------------------------------------------------------------------------
(* One instruction each: branches                                          *)

\* A jump does not count.
LEMMA JumpKept ==
  ASSUME NEW p, StillCounted(p), NEW k
  PROVE  StillCounted(Jump(p, k))
<1> DEFINE skip == CASE p.blocks[k].opcode = "loop" -> "loop"
                     [] p.blocks[k].opcode = "func" -> "return"
                     [] OTHER -> "end"
<1>1. Jump(p, k) = p \/ Jump(p, k) = GoOn(p, skip, k)
  BY DEF Jump, GoOn
<1> HIDE DEF skip
<1> QED
  BY <1>1, GoOnKept

\* What follows a jump is dead.
LEMMA JumpedDeadKept ==
  ASSUME NEW p, OK(p), Counts(p), SkipOk(p), NEW k \in 1 .. Len(p.blocks)
  PROVE  StillCounted(DeadCode(Jump(p, k)))
<1> DEFINE j == Jump(p, k)
           d == DeadCode(j)
<1>1. OK(j) /\ Counts(j)
  BY JumpOK, JumpCounts
<1>2. Went(d)
  BY JumpedDead
<1> HIDE DEF j
<1>3. Counts(d)
  BY <1>1, DeadCodeCounts
<1> HIDE DEF d
<1>4. StillCounted(d)
  BY <1>2, <1>3 DEF StillCounted, Went, Counts, Covers
<1> QED
  BY <1>4 DEF d, j

\* Compile_Branch: br
LEMMA BrKeeps ==
  ASSUME IInv, CInv, "fp_results" \notin Allowed, NEW k \in DOMAIN o.blocks, Br(k)
  PROVE  CInv'
<1> DEFINE b == o.blocks[k]
           m == MoveValues(o, b)
           d == DeadCode(Jump(m, k))
           u == IF m.failed THEN m ELSE d
           x == BranchTo(w, k)
<1>1. MayBranch(0, b) /\ Step(u, x)
  BY DEF Br, Then
<1>2. OK(o) /\ ~o.failed /\ SkipOk(o) /\ Counts(o)
  BY <1>1, Now, NowCounts DEF MayBranch, TypesOnTop
<1>3. MayGo(o, k)
  BY <1>1, BranchNow
<1>4. OK(m) /\ Frame(o, m) /\ Counts(m)
  BY <1>2, <1>3, MoveValuesOK, MoveValuesCounts
<1> HIDE DEF m, x
<1>5. k \in 1 .. Len(m.blocks) /\ SkipOk(m)
  BY <1>2, <1>3, <1>4 DEF MayGo, Frame, SkipOk
<1>6. StillCounted(d)
  BY <1>4, <1>5, JumpedDeadKept
<1>7. StillCounted(m)
  BY <1>4, KeptCounts
<1> HIDE DEF d
<1>8. StillCounted(u)
  BY <1>6, <1>7
<1> HIDE DEF u
<1> QED
  BY <1>1, <1>8, StepCounts

\* The same to a loop.
LEMMA BrLoopKeeps ==
  ASSUME IInv, CInv, "fp_results" \notin Allowed, NEW k \in DOMAIN o.blocks, BrLoop(k)
  PROVE  CInv'
<1> DEFINE b == o.blocks[k]
           j == Jump(o, k)
           h == Len(o.blocks)
           u == [j EXCEPT !.blocks[h].poly = TRUE]
           x == BranchTo(w, k)
<1>1. MayBranch(0, b) /\ Step(u, x)
  BY DEF BrLoop
<1>2. OK(o) /\ ~o.failed /\ SkipOk(o) /\ Counts(o)
  BY <1>1, Now, NowCounts DEF MayBranch, TypesOnTop
<1>3. k \in 1 .. Len(o.blocks)
  BY <1>2 DEF OK, BlocksOk
<1>4. OK(j) /\ Counts(j) /\ h = Len(j.blocks)
  BY <1>2, <1>3, JumpOK, JumpCounts
<1> HIDE DEF x, j, h
<1>5. OK(u) /\ Counts(u)
  BY <1>4, PolyOK, PolyCounts
<1> HIDE DEF u
<1> QED
  BY <1>1, <1>5, KeptCounts, StepCounts

\* Compile_Branch: br_if
LEMMA BrIfKeeps ==
  ASSUME IInv, CInv, "fp_results" \notin Allowed, NEW k \in DOMAIN o.blocks, NEW taken \in BOOLEAN, BrIf(k, taken)
  PROVE  CInv'
<1> DEFINE b == o.blocks[k]
           moves == LabelTypes(b) # <<>> \/ b.opcode = "func"
           c == CopyTopToRegister(o)
           inReg == Pop(Observe(c, <<InRegister(c, Reg0)>>, LastN(1)))
           onTop == Pop(Observed(o, 1))
           test == IF b.opcode = "loop" /\ ~moves THEN inReg ELSE onTop
           h == IF taken \/ ~Running THEN test ELSE GoOn(test, "prologue", test.to)
           m == IF moves THEN MoveValues(h, h.blocks[k]) ELSE h
           u == IF m.failed THEN m ELSE IF taken THEN Jump(m, k) ELSE GoOn(m, o.skip, m.to)
           popped == [w EXCEPT !.vals = Under(1)]
           x == IF taken THEN BranchTo(popped, k) ELSE popped
<1>1. /\ Compiling /\ Step(u, x)
      /\ test = onTop \/ (test = inReg /\ TypesOnTop(<<"i32">>))
      /\ OK(test) /\ OK(h) /\ (moves => MayGo(h, k)) /\ OK(m)
  BY SMTT(40), BrIfIs
<1> HIDE DEF x
<1>2. OK(o) /\ Counts(o)
  BY <1>1, NowCounts
<1>3. Counts(onTop)
  BY <1>2, ObserveCounts, PopCounts DEF Observed
<1>4. TypesOnTop(<<"i32">>) => Counts(inReg)
  <2>1. SUFFICES ASSUME TypesOnTop(<<"i32">>) PROVE Counts(inReg)
    OBVIOUS
  <2>2. Len(o.stack) > Base(o.blocks)
    BY <2>1, GrowFree
  <2>3. OK(c) /\ Counts(c)
    BY SMTT(40), <2>2, <1>2, CopyTopOK, CopyTopCounts
  <2> HIDE DEF c
  <2> QED
    BY <2>3, ObserveCounts, PopCounts
<1> HIDE DEF onTop, inReg
<1>5. Counts(test)
  BY <1>1, <1>3, <1>4
<1> HIDE DEF test
<1>6. Counts(h)
  BY <1>1, <1>5, GoOnCounts
<1> HIDE DEF h
<1>7. Counts(m)
  BY <1>1, <1>6, MoveValuesCounts
<1> HIDE DEF m, moves
<1>8. StillCounted(m)
  BY <1>1, <1>7, KeptCounts
<1>9. StillCounted(u)
  BY <1>8, GoOnKept, JumpKept
<1> HIDE DEF u
<1> QED
  BY <1>1, <1>9, StepCounts

\* The code of a target of br_table moves values.
LEMMA TargetCounts ==
  ASSUME NEW p, NEW k, MayGo(p, k), Counts(p), NEW skip
  PROVE  Counts(TargetCode(p, k, skip))
<1> DEFINE g == GoOn(p, skip, p.to)
           m == MoveValues(g, g.blocks[k])
           r == GoOn(m, p.skip, m.to)
           q == TargetCode(p, k, skip)
<1>1. OK(p) /\ DOMAIN p = Fields
  BY DEF MayGo, OK, Typed
<1>2. OK(g) /\ g.blocks = p.blocks /\ Counts(g)
  BY <1>1, WithSkip, GoOnCounts
<1>3. MayGo(g, k)
  BY MayGoAnywhere
<1>4. g = [p EXCEPT !.skip = skip]
  BY <1>1 DEF GoOn, Fields
<1> HIDE DEF g
<1>5. OK(m) /\ Counts(m)
  BY <1>2, <1>3, MoveValuesOK, MoveValuesCounts
<1>6. q = [m EXCEPT !.skip = p.skip]
  BY <1>2, <1>4 DEF TargetCode
<1> HIDE DEF m, q
<1>7. q = r
  BY <1>5, <1>6 DEF GoOn, OK, Typed, Fields
<1>8. Counts(r)
  BY <1>5, GoOnCounts
<1> QED
  BY <1>7, <1>8 DEF q

\* Compile_BranchTable
LEMMA BrTableKeeps ==
  ASSUME IInv, CInv, "fp_results" \notin Allowed,
         NEW first \in DOMAIN o.blocks, NEW second \in DOMAIN o.blocks,
         NEW chosen \in 1 .. 2, BrTable(<<first, second>>, chosen)
  PROVE  CInv'
<1> DEFINE targets == <<first, second>>
           Skip(p, i) == IF i = chosen \/ ~Running THEN p.skip ELSE "prologue"
           a == PreserveRegisterIfOccupied(o, Reg0)
           b == Observed(a, 1)
           c == Pop(b)
           t1 == TargetCode(c, targets[1], Skip(c, 1))
           t2 == TargetCode(t1, targets[2], Skip(t1, 2))
           both == IF t1.failed THEN t1 ELSE t2
           m == IF a.failed THEN a ELSE both
           k == targets[chosen]
           d == DeadCode(Jump(m, k))
           u == IF m.failed THEN m ELSE d
           x == BranchTo([w EXCEPT !.vals = Under(1)], k)
<1>1. MayBranch(1, o.blocks[first]) /\ MayBranch(1, o.blocks[second]) /\ Step(u, x)
  <2>1. MayBranch(1, o.blocks[first]) /\ MayBranch(1, o.blocks[second])
    <3>1. DOMAIN targets = 1 .. 2 /\ targets[1] = first /\ targets[2] = second
      OBVIOUS
    <3>2. \A i \in DOMAIN targets : MayBranch(1, o.blocks[targets[i]])
      BY SMTT(40) DEF BrTable
    <3> HIDE DEF targets
    <3> QED
      BY <3>1, <3>2
  <2>2. Step(u, x)
    BY DEF BrTable, Then, TargetCode
  <2> QED
    BY <2>1, <2>2
<1>2. OK(o) /\ ~o.failed /\ SkipOk(o) /\ Counts(o)
  BY <1>1, Now, NowCounts DEF MayBranch, TypesOnTop
<1> HIDE DEF x
<1>4. k \in DOMAIN o.blocks
  OBVIOUS
<1> HIDE DEF k
<1>5. k \in 1 .. Len(o.blocks)
  BY <1>2, <1>4 DEF OK, BlocksOk
<1>6. OK(a) /\ Frame(o, a) /\ Moved(o, a) /\ Counts(a)
  <2>1. OK(a) /\ Frame(o, a) /\ Moved(o, a)
    BY <1>2, Numbers, PreserveRegister
  <2> QED
    BY <2>1, <1>2, Numbers, MaybeCounts
<1> HIDE DEF a
<1>7. ASSUME ~a.failed PROVE OK(both) /\ Frame(o, both) /\ Counts(both)
  <2>1. MayGo(c, targets[1]) /\ MayGo(c, targets[2]) /\ Frame(o, c)
    BY <1>1, <1>6, <1>7, TestOnTop
  <2>a. OK(b) /\ Counts(b)
    BY <1>6, ObserveCounts DEF Observed
  <2> HIDE DEF b
  <2>b. Counts(c)
    BY <2>a, PopCounts
  <2> HIDE DEF c
  <2> DEFINE s == Skip(c, 1)
  <2>2. OK(t1) /\ Frame(c, t1) /\ Moved(c, t1) /\ Counts(t1)
    <3> HIDE DEF s
    <3>1. LET q == TargetCode(c, targets[1], s) IN OK(q) /\ Frame(c, q) /\ Moved(c, q)
      BY <2>1, TargetOK
    <3>2. Counts(TargetCode(c, targets[1], s))
      BY <2>1, <2>b, TargetCounts
    <3> QED
      BY <3>1, <3>2 DEF s
  <2> HIDE DEF t1, s
  <2>3. ASSUME ~t1.failed PROVE OK(t2) /\ Frame(t1, t2) /\ Counts(t2)
    <3>1. MayGo(t1, targets[2])
      BY <2>1, <2>2, <2>3, MayGoKept
    <3> DEFINE z == Skip(t1, 2)
    <3> HIDE DEF z
    <3>2. LET q == TargetCode(t1, targets[2], z) IN OK(q) /\ Frame(t1, q) /\ Moved(t1, q)
      BY <3>1, TargetOK
    <3>3. Counts(TargetCode(t1, targets[2], z))
      BY <3>1, <2>2, TargetCounts
    <3> QED
      BY <3>2, <3>3 DEF z
  <2> HIDE DEF t2
  <2>4. OK(both) /\ Frame(c, both) /\ Counts(both)
    BY <2>2, <2>3 DEF Frame
  <2> HIDE DEF both
  <2> QED
    BY <2>1, <2>4 DEF Frame
<1> HIDE DEF both
<1>8. OK(m) /\ Frame(o, m) /\ Counts(m)
  BY <1>6, <1>7
<1> HIDE DEF m
<1>9. k \in 1 .. Len(m.blocks) /\ SkipOk(m)
  BY <1>2, <1>5, <1>8 DEF Frame, SkipOk
<1>10. StillCounted(d)
  BY <1>8, <1>9, JumpedDeadKept
<1>11. StillCounted(m)
  BY <1>8, KeptCounts
<1> HIDE DEF d
<1>12. StillCounted(u)
  BY <1>10, <1>11
<1> HIDE DEF u
<1> QED
  BY <1>1, <1>12, StepCounts

\* Compile_Return
LEMMA ReturnKeeps ==
  ASSUME IInv, CInv, Return
  PROVE  CInv'
<1> DEFINE m == ReturnValues(o, Len(RetTypes))
           u == DeadCode(Jump(m, 1))
           x == BranchTo(w, 1)
<1>1. TypesOnTop(RetTypes) /\ Step(u, x)
  BY DEF Return
<1>2. OK(o) /\ ~o.failed /\ SkipOk(o) /\ Counts(o)
  BY <1>1, Now, NowCounts DEF TypesOnTop
<1>4. Len(RetTypes) \in Nat /\ 2 * Len(RetTypes) <= MaxFunctionSlots
  BY Numbers, SignatureAssumption
<1>5. OK(m) /\ Frame(o, m) /\ Counts(m)
  BY <1>2, <1>4, ReturnValuesOK, ReturnValuesCounts
<1> HIDE DEF x, m
<1>6. 1 \in 1 .. Len(m.blocks)
  BY <1>5, ScopeFacts DEF OK
<1>7. SkipOk(m)
  BY <1>2, <1>5 DEF SkipOk, Frame
<1>8. StillCounted(u)
  BY <1>5, <1>6, <1>7, JumpedDeadKept
<1> HIDE DEF u
<1> QED
  BY <1>1, <1>8, StepCounts

-----------------------------------------------------------------------------
(* Every step                                                              *)

\* Every step preserves it.
LEMMA NextCounts ==
  ASSUME IInv, CInv, "fp_results" \notin Allowed, "high_calls" \notin Allowed, [Next]_vars
  PROVE  CInv'
<1>1. CASE Next
  <2>1. CASE \E c \in Constants : Const(c)
    BY <2>1, ConstKeeps
  <2>2. CASE \E i \in 1 .. NumLocals : LocalGet(i)
    BY <2>2, LocalGetKeeps
  <2>3. CASE \E i \in 1 .. NumLocals, tee \in BOOLEAN : LocalSet(i, tee)
    BY <2>3, LocalSetKeeps
  <2>4. CASE Drop
    BY <2>4, DropKeeps
  <2>5. CASE \E t \in GlobalTypes : GlobalGet(t) \/ GlobalSet(t)
    BY <2>5, GlobalGetKeeps, GlobalSetKeeps
  <2>6. CASE \E op \in Operators : Operate(op)
    BY <2>6, OperateKeeps
  <2>7. CASE \E op \in Conversions : Convert(op)
    BY <2>7, ConvertKeeps
  <2>8. CASE \E t \in SelectTypes : Select(t)
    BY <2>8, SelectKeeps
  <2>9. CASE MemorySize \/ MemoryGrow \/ MemoryCopyFill
    BY <2>9, MemorySizeKeeps, MemoryGrowKeeps, MemoryCopyFillKeeps
  <2>10. CASE \E call \in CallTypes, indirect \in BOOLEAN : Call(call, indirect)
    BY <2>10, CallKeeps
  <2>11. CASE \E opcode \in {"block", "loop"}, type \in BlockTypes : LoopOrBlock(opcode, type)
    BY <2>11, LoopOrBlockKeeps
  <2>12. CASE \E type \in BlockTypes, taken \in BOOLEAN : If(type, taken)
    BY <2>12, IfKeeps
  <2>13. CASE Else
    BY <2>13, ElseKeeps
  <2>14. CASE End
    BY <2>14, EndKeeps
  <2>15. CASE \E k \in DOMAIN o.blocks : Br(k) \/ BrLoop(k)
    BY <2>15, BrKeeps, BrLoopKeeps
  <2>16. CASE \E k \in DOMAIN o.blocks, taken \in BOOLEAN : BrIf(k, taken)
    BY <2>16, BrIfKeeps
  <2>17. CASE \E first, second \in DOMAIN o.blocks, chosen \in 1 .. 2 :
                BrTable(<<first, second>>, chosen)
    BY <2>17, BrTableKeeps
  <2>18. CASE Return
    BY <2>18, ReturnKeeps
  <2> QED
    BY <1>1, <2>1, <2>2, <2>3, <2>4, <2>5, <2>6, <2>7, <2>8, <2>9, <2>10, <2>11, <2>12, <2>13,
       <2>14, <2>15, <2>16, <2>17, <2>18 DEF Next
<1>2. CASE UNCHANGED vars
  BY <1>2 DEF vars, CInv, Good, Counts, Covers, Accounted, NoSharing
<1> QED
  BY <1>1, <1>2

-----------------------------------------------------------------------------
(* The first state                                                         *)

\* Before the first instruction nothing was written behind the margin or called,
\* the results have their slots, and none is in use from both ends on.
Quiescent(p) ==
  /\ p.reach = 0 /\ p.values = 0 /\ 2 * Len(RetTypes) <= p.firstDynamic
  /\ ~p.failed => \A s \in 0 .. MaxFunctionSlots - 1 :
                    s >= p.top /\ s >= p.firstDynamic => p.count[s] = 0

\* A push to a slot writes to the top of the stack only.
LEMMA PushWithin ==
  ASSUME NEW p, Typed(p), p.reach = 0 /\ p.values = 0, NEW t, NEW words
  PROVE  LET a == Result(PushAllocatedSlot(p, t), words) IN a.reach = 0 /\ a.values = 0
<1> DEFINE s == FreeSlot(p, t, p.firstDynamic, MaxFunctionSlots)
           m == MarkSlotsAllocated(p, s, t)
           a == PushAllocatedSlot(p, t)
<1>1. DOMAIN p = Fields
  BY DEF Typed, Fields
<1>2. a = IF s = SlotUnused THEN Fail(p) ELSE Push(m, t, s)
  BY DEF PushAllocatedSlot, AllocateSlots
<1> HIDE DEF a
<1>3. DOMAIN m = Fields /\ m.reach = 0 /\ m.values = 0
  BY <1>1 DEF MarkSlotsAllocated, Fields
<1> HIDE DEF m, s
<1>4. DOMAIN Fail(p) = Fields /\ Fail(p).reach = 0 /\ Fail(p).values = 0
  BY <1>1 DEF Fail, Fields
<1>5. DOMAIN Fail(m) = Fields /\ Fail(m).reach = 0 /\ Fail(m).values = 0
  BY <1>3 DEF Fail, Fields
<1>6. DOMAIN Push(m, t, s) = Fields /\ Push(m, t, s).reach = 0 /\ Push(m, t, s).values = 0
  BY <1>3, <1>5 DEF Push, Fields
<1>7. DOMAIN a = Fields /\ a.reach = 0 /\ a.values = 0
  BY <1>2, <1>4, <1>6
<1>8. \A slot : Write(a, slot, words).reach = 0 /\ Write(a, slot, words).values = 0
  BY <1>1, <1>7 DEF Write, Fields
<1>9. Result(a, words).reach = 0 /\ Result(a, words).values = 0
  BY <1>7, <1>8 DEF Result
<1> QED
  BY <1>9 DEF a

\* No argument of the function makes a difference,
LEMMA QuiescentArg ==
  ASSUME NEW k \in 1 .. Len(ArgTypes), NEW p, ArgsIn(k - 1, p), Quiescent(p)
  PROVE  Quiescent(PushArg(p, ArgTypes[k]))
<1> DEFINE t == ArgTypes[k]
           f == p.firstDynamic
           words == SubSeq(<<Name(f), Name(f + 1)>>, 1, GetTypeNumSlots(t))
           a == Result(PushAllocatedSlot(p, t), words)
           q == PushArg(p, t)
<1>1. t \in ValueType
  BY SignatureAssumption
<1>2. q = [a EXCEPT !.firstDynamic = f + 2]
  BY DEF PushArg
<1>3. ArgsIn(k, q)
  BY OneArg
<1> HIDE DEF words, t, q
<1>4. Opening(p) /\ f \in Nat /\ Typed(p)
  BY DEF ArgsIn, Opening, Typed
<1>5. a.reach = 0 /\ a.values = 0
  BY <1>4, PushWithin DEF Quiescent
<1>6. Opening(a)
  BY <1>1, <1>4, OpeningPush
<1> HIDE DEF a, f
<1>7. q.reach = 0 /\ q.values = 0 /\ q.firstDynamic = f + 2
  BY <1>2, <1>5, <1>6 DEF Opening, Typed, Fields
<1>8. 2 * Len(RetTypes) <= f + 2
  BY SMTT(40), <1>4, Numbers DEF Quiescent, f
<1>9. ASSUME ~q.failed, NEW s \in 0 .. MaxFunctionSlots - 1, s >= q.firstDynamic
      PROVE  q.count[s] = 0
  <2>1. s \in q.firstDynamic .. MaxFunctionSlots - 1
    BY <1>4, <1>7, <1>9, Numbers
  <2> QED
    BY <1>3, <1>9, <2>1 DEF ArgsIn
<1>10. Quiescent(q)
  BY <1>7, <1>8, <1>9 DEF Quiescent
<1> QED
  BY <1>10 DEF q, t

\* nor does another local.
LEMMA QuiescentLocal ==
  ASSUME NEW k \in 1 .. Len(LocalTypes), NEW p, LocalsIn(k - 1, p), Quiescent(p)
  PROVE  Quiescent(PushLocal(p, LocalTypes[k]))
<1> DEFINE t == LocalTypes[k]
           n == GetTypeNumSlots(t)
           words == [j \in 1 .. n |-> Zero]
           q == PushLocal(p, t)
           y == FreeSlot(p, t, p.firstDynamic, MaxFunctionSlots)
<1>1. t \in ValueType
  BY SignatureAssumption
<1>2. q = Result(PushAllocatedSlot(p, t), words)
  BY DEF PushLocal
<1> HIDE DEF words, q, t
<1>3. Opening(p) /\ Typed(p) /\ p.firstDynamic \in Nat /\ p.top \in Nat
  BY DEF LocalsIn, Opening, Typed
<1>4. n \in 1 .. 2
  BY Types
<1>5. q.reach = 0 /\ q.values = 0
  BY <1>2, <1>3, PushWithin DEF Quiescent
<1>6. Opening(q) /\ q.firstDynamic = p.firstDynamic /\ (~q.failed => PushedIn(p, t, y, q))
  BY <1>1, <1>2, <1>3, OpeningPush
<1> HIDE DEF y, n
<1>7. ASSUME ~q.failed, NEW s \in 0 .. MaxFunctionSlots - 1, s >= q.top, s >= q.firstDynamic
      PROVE  q.count[s] = 0
  <2> DEFINE e == y + n
             c == p.count
  <2>1. /\ y \in Nat /\ ~p.failed /\ q.count = Marked(c, y, e) /\ q.top = Max({p.top, e})
    BY <1>6, <1>7 DEF PushedIn, n
  <2>2. e \in Nat /\ e \in Int
    BY <2>1, <1>4
  <2>3. s \in DOMAIN c
    BY <1>3 DEF Typed
  <2>4. ~p.failed => (s >= p.top /\ s >= p.firstDynamic => c[s] = 0)
    BY DEF Quiescent
  <2> HIDE DEF e, c
  <2>5. Max({p.top, e}) = IF p.top >= e THEN p.top ELSE e
    BY <1>3, <2>2, MaxOfTwo
  <2>6. s >= p.top /\ s >= e /\ s \in Int
    BY <1>3, <1>7, <2>1, <2>2, <2>5
  <2>7. c[s] = 0
    BY <1>6, <1>7, <2>1, <2>4, <2>6
  <2>8. s \notin y .. e - 1
    BY <2>1, <2>2, <2>6
  <2>9. Marked(c, y, e)[s] = IF s \in y .. e - 1 THEN 1 ELSE c[s]
    BY <2>3, MarkedAt
  <2> QED
    BY <2>1, <2>7, <2>8, <2>9
<1>8. Quiescent(q)
  BY <1>5, <1>6, <1>7 DEF Quiescent
<1> QED
  BY <1>8 DEF q, t

\* All arguments are pushed, and the top is moved behind them.
LEMMA QuiescentArgs ==
  Quiescent(WithArgs)
<1>1. PICK f : /\ f[0] = Start
               /\ \A k \in 1 .. Len(ArgTypes) : f[k] = PushArg(f[k - 1], ArgTypes[k])
               /\ WithArgs = [f[Len(ArgTypes)] EXCEPT !.top = f[Len(ArgTypes)].firstDynamic]
  BY PushArgsSteps
<1> DEFINE a == Len(ArgTypes)
           S == {k \in 0 .. a : ArgsIn(k, f[k]) /\ Quiescent(f[k])}
           g == f[a]
<1>2. a \in Nat
  BY Numbers
<1>3. 0 \in S
  <2>1. Start.reach = 0 /\ Start.values = 0 /\ Start.failed = FALSE /\ Start.firstDynamic = 2 * Len(RetTypes)
    BY DEF Start
  <2>2. ArgsIn(0, Start)
    BY StartIn
  <2>3. \A s \in 0 .. MaxFunctionSlots - 1 : s >= Start.firstDynamic => Start.count[s] = 0
    <3>1. Start.firstDynamic \in Nat /\ \A s \in Start.firstDynamic .. MaxFunctionSlots - 1 : Start.count[s] = 0
      BY <2>1, <2>2 DEF ArgsIn, Opening, Typed
    <3> QED
      BY <3>1
  <2>4. 2 * Len(RetTypes) \in Nat
    BY Numbers
  <2>5. Quiescent(Start)
    BY <2>1, <2>3, <2>4 DEF Quiescent
  <2> QED
    BY <1>1, <1>2, <2>2, <2>5
<1>4. ASSUME NEW k \in 1 .. a, k - 1 \in S PROVE k \in S
  <2>1. ArgsIn(k - 1, f[k - 1]) /\ Quiescent(f[k - 1]) /\ k \in 0 .. a
    BY <1>2, <1>4
  <2>2. ArgsIn(k, PushArg(f[k - 1], ArgTypes[k])) /\ Quiescent(PushArg(f[k - 1], ArgTypes[k]))
    BY <2>1, OneArg, QuiescentArg
  <2> QED
    BY <2>1, <2>2, <1>1
<1>5. ArgsIn(a, g) /\ Quiescent(g)
  <2>1. a \in S
    <3> HIDE DEF S, a
    <3>1. \A k \in 0 .. a : k \in S
      BY <1>2, <1>3, <1>4, UpTo
    <3> QED
      BY <3>1, <1>2
  <2> QED
    BY <2>1
<1> HIDE DEF S, g
<1>6. WithArgs = [g EXCEPT !.top = g.firstDynamic]
  BY <1>1 DEF g
<1> DEFINE q == WithArgs
<1> HIDE DEF q
<1>7. /\ Opening(g) /\ q.failed = g.failed /\ q.reach = g.reach /\ q.values = g.values /\ q.count = g.count
      /\ q.firstDynamic = g.firstDynamic /\ g.firstDynamic \in Nat
  BY <1>5, <1>6 DEF ArgsIn, Opening, Typed, Fields, q
<1>8. ASSUME ~g.failed, NEW s \in 0 .. MaxFunctionSlots - 1, s >= g.firstDynamic
      PROVE  g.count[s] = 0
  <2>1. s \in g.firstDynamic .. MaxFunctionSlots - 1
    BY <1>7, <1>8, Numbers
  <2> QED
    BY <1>5, <1>8, <2>1 DEF ArgsIn
<1>9. Quiescent(q)
  BY <1>5, <1>7, <1>8 DEF Quiescent
<1> QED
  BY <1>9 DEF q

\* All locals are pushed.
LEMMA QuiescentLocals ==
  Quiescent(WithLocals)
<1>1. PICK f : /\ f[0] = WithArgs
               /\ \A k \in 1 .. Len(LocalTypes) : f[k] = PushLocal(f[k - 1], LocalTypes[k])
               /\ WithLocals = f[Len(LocalTypes)]
  BY PushLocalsSteps
<1> DEFINE a == Len(LocalTypes)
           S == {k \in 0 .. a : LocalsIn(k, f[k]) /\ Quiescent(f[k])}
<1>2. a \in Nat
  BY Numbers
<1>3. 0 \in S
  BY <1>1, <1>2, AllArgs, QuiescentArgs
<1>4. ASSUME NEW k \in 1 .. a, k - 1 \in S PROVE k \in S
  <2>1. LocalsIn(k - 1, f[k - 1]) /\ Quiescent(f[k - 1]) /\ k \in 0 .. a
    BY <1>2, <1>4
  <2>2. LocalsIn(k, PushLocal(f[k - 1], LocalTypes[k])) /\ Quiescent(PushLocal(f[k - 1], LocalTypes[k]))
    BY <2>1, OneLocal, QuiescentLocal
  <2> QED
    BY <2>1, <2>2, <1>1
<1>5. a \in S
  <2> HIDE DEF S, a
  <2>1. \A k \in 0 .. a : k \in S
    BY <1>2, <1>3, <1>4, UpTo
  <2> QED
    BY <2>1, <1>2
<1> QED
  BY <1>1, <1>5

\* Where the function is entered, all that is on the stack is locals, and none
\* of the slots behind them and the constants is in use.
LEMMA FirstCounts ==
  ~Entered.failed => Counts(Entered)
<1> DEFINE p == WithLocals
           m == GetMaxUsedSlotPlusOne(p)
           al == AlignSlotToType(ReservedConstants, "i64")
           d == m + al
           blocks == [Start.blocks EXCEPT ![1].exit = NumLocals, ![1].base = NumLocals]
           e == Entered
<1>1. LocalsIn(Len(LocalTypes), p) /\ Quiescent(p)
  BY AllLocals, QuiescentLocals
<1>2. Opening(p)
  BY <1>1 DEF LocalsIn
<1>3. /\ m \in Nat /\ (p.top >= p.firstDynamic => m >= p.firstDynamic)
      /\ \A s \in 0 .. MaxFunctionSlots - 1 :
           p.count[s] # 0 /\ p.firstDynamic <= s /\ s < p.top => s < m
  BY <1>2, BehindAll
<1>4. ReservedConstants \in Nat /\ al \in ReservedConstants .. ReservedConstants + 1
  BY FunctionAssumption, Even
<1>5. BlocksOk(blocks) /\ Base(blocks) = NumLocals /\ Len(blocks) = 1
  BY FunctionEntered
<1>6. /\ e = [p EXCEPT !.firstConst = m, !.constEnd = m,
                       !.firstDynamic = d, !.top = d, !.maxSlots = d,
                       !.blocks[1].exit = NumLocals, !.blocks[1].base = NumLocals,
                       !.failed = @ \/ d >= MaxFunctionSlots]
      /\ p.blocks = Start.blocks
  BY <1>2 DEF Entered, ReserveConstants, Opening
<1>7. d = m + al
  OBVIOUS
<1> HIDE DEF m, d, al, p, e
<1>8. d \in Nat /\ m <= d
  BY <1>3, <1>4, <1>7
<1>9. DOMAIN p = Fields /\ p.top \in Nat /\ p.firstDynamic \in Nat /\ p.stack \in Seq(Item)
      /\ DOMAIN p.count = 0 .. MaxFunctionSlots - 1
  BY <1>2 DEF Opening, Typed, StackOk
<1>10. /\ e.stack = p.stack /\ e.count = p.count /\ e.reach = p.reach /\ e.values = p.values
       /\ e.firstConst = m /\ e.firstDynamic = d /\ e.top = d /\ e.maxSlots = d
       /\ e.failed = (p.failed \/ d >= MaxFunctionSlots)
  BY <1>6, <1>9 DEF Fields
<1>11. e.blocks = blocks
  <2>1. e.blocks = [p.blocks EXCEPT ![1].exit = NumLocals, ![1].base = NumLocals]
    BY <1>6, <1>9 DEF Fields
  <2> QED
    BY <2>1, <1>6
<1> HIDE DEF blocks
<1>12. e.reach = 0 /\ e.values = 0
  BY <1>1, <1>10 DEF Quiescent
<1>13. ASSUME ~e.failed PROVE Counts(e)
  <2>1. ~p.failed
    BY <1>10, <1>13
  <2>2. /\ Apart(p.stack, NumLocals) /\ NumLocals \in Nat /\ p.top >= p.firstDynamic
        /\ \A i \in 1 .. NumLocals : Ends(p.stack[i]) <= m
    BY <1>1, <2>1, LocalsEnd DEF m, LocalsIn
  <2>3. Len(p.stack) = NumLocals /\ \A i \in 1 .. NumLocals : p.stack[i] \in Item /\ InSlots(p.stack[i])
    BY <2>2 DEF Apart
  <2>4. \A i \in 1 .. NumLocals : /\ p.stack[i].slot \in Nat /\ Ends(p.stack[i]) \in Nat
                                  /\ p.stack[i].slot < Ends(p.stack[i])
    BY <2>3, SlotsOfItem
  <2>5. p.firstDynamic <= m /\ 2 * Len(RetTypes) <= d
    <3>1. p.firstDynamic <= m /\ 2 * Len(RetTypes) <= p.firstDynamic
      BY <1>1, <1>3, <2>2 DEF Quiescent
    <3>2. Len(RetTypes) \in Nat
      BY SignatureAssumption
    <3> QED
      BY <3>1, <3>2, <1>3, <1>8, <1>9
  <2>6. Covers(e)
    <3>1. \A i \in 1 .. Len(e.stack) : Ends(e.stack[i]) <= e.maxSlots
      BY <1>3, <1>8, <1>10, <2>2, <2>3, <2>4
    <3>2. Within(e.reach, e.maxSlots, e.values)
      <4>1. Limit(d, 0) \in Nat
        BY <1>8, LimitGrows
      <4>2. Within(0, d, 0)
        BY <4>1 DEF Within
      <4> QED
        BY <4>2, <1>10, <1>12
    <3>3. e.top <= e.maxSlots
      BY <1>8, <1>10
    <3> QED
      BY <3>1, <3>2, <3>3, <2>5, <1>10, <1>12 DEF Covers
  <2>7. \A s \in d .. MaxFunctionSlots - 1 : p.count[s] = 0
    <3> TAKE s \in d .. MaxFunctionSlots - 1
    <3>1. s \in 0 .. MaxFunctionSlots - 1 /\ s >= p.firstDynamic /\ ~(s < m)
      BY <1>3, <1>8, <1>9, <2>5, Numbers
    <3>2. CASE s < p.top
      BY <1>3, <3>1, <3>2, <1>9
    <3>3. CASE s >= p.top
      BY <1>1, <2>1, <3>1, <3>3 DEF Quiescent
    <3> QED
      BY <3>1, <3>2, <3>3, <1>9
  <2> DEFINE L == LiveIn(blocks, NumLocals)
  <2>8. L \in SUBSET (1 .. NumLocals)
    BY DEF LiveIn
  <2> HIDE DEF L
  <2>9. \A s \in d .. MaxFunctionSlots - 1 : Uses(p.stack, L, s) = {}
    <3> SUFFICES ASSUME NEW s \in d .. MaxFunctionSlots - 1, NEW i \in L, s \in SlotsOf(p.stack[i])
                 PROVE  FALSE
      BY DEF Uses
    <3>1. i \in 1 .. NumLocals
      BY <2>8
    <3>2. s < Ends(p.stack[i])
      <4>1. p.stack[i] \in Item
        BY <3>1, <2>3
      <4>2. s \in Int
        BY <1>8
      <4> QED
        BY <4>1, <4>2, SlotsOfItem
    <3> QED
      BY <3>1, <3>2, <2>2, <2>4, <1>3, <1>8
  <2>10. \A i \in 1 .. NumLocals : ~InDynamic(p.stack[i], d)
    BY <1>3, <1>8, <2>2, <2>4 DEF InDynamic
  <2>11. Acc(p.stack, L, p.count, d, d)
    <3>1. Tally(p.stack, L, p.count, d, d)
      <4>1. Cardinality({}) = 0
        BY FS_EmptySet
      <4> QED
        BY <4>1, <2>7, <2>9 DEF Tally
    <3>2. Whole(p.stack, d)
      BY <1>3, <1>8, <2>2, <2>3, <2>4 DEF Whole
    <3>3. Together(p.stack, L, d)
      BY <2>8, <2>10 DEF Together, CountedIn
    <3> QED
      BY <3>1, <3>2, <3>3, <2>3, <2>8 DEF Acc
  <2>12. Spots(p.stack, blocks, m, d)
    <3>1. NumLocals + 1 .. NumLocals = {}
      BY <2>2
    <3>2. Single(p.stack, m)
      BY <3>1, <2>3 DEF Single
    <3>3. Below(p.stack, blocks, m)
      BY <3>1, <1>5 DEF Below
    <3>4. Saved(p.stack, blocks, d)
      BY <1>5 DEF Saved
    <3> QED
      BY <3>2, <3>3, <3>4 DEF Spots
  <2>13. Accounted(e)
    BY <1>10, <1>11, <2>3, <2>11, <2>12 DEF Accounted, L
  <2> QED
    BY <2>6, <2>13 DEF Counts
<1> QED
  BY <1>13 DEF e

\* The first state of the function.
LEMMA InitCounts ==
  ASSUME Init
  PROVE  CInv
<1>1. o = Entered
  BY DEF Init
<1> QED
  BY <1>1, FirstCounts DEF CInv, Good

-----------------------------------------------------------------------------
(* What is shown                                                           *)

\* A slot at or behind firstDynamic is counted once for each live item in it.
LEMMA AgreeOfCInv ==
  ASSUME IInv, CInv, NoSharing
  PROVE  CountsAgree
<1> SUFFICES ASSUME Good
             PROVE  \A s \in o.firstDynamic .. MaxFunctionSlots - 1 :
                      o.count[s] = Cardinality({i \in Live(o) : s \in SlotsOf(o.stack[i])})
  BY DEF CountsAgree
<1>1. OK(o) /\ ~o.failed /\ Counts(o)
  BY DEF IInv, CInv, Good
<1>2. Acc(o.stack, LiveIn(o.blocks, Len(o.stack)), o.count, o.top, o.firstDynamic)
  BY <1>1 DEF Counts, Accounted
<1>3. Live(o) = LiveIn(o.blocks, Len(o.stack))
  BY <1>1, LiveAll
<1> QED
  BY <1>2, <1>3 DEF Acc, Tally, Uses

\* Every value in slots is in front of maxStackSlots, and nothing was written
\* behind the limit.
LEMMA CoversOfCInv ==
  ASSUME IInv, CInv
  PROVE  EntryCoversUnlessLongCall
<1>1. Good => o.reach <= IF LongCall THEN FrameEnd ELSE o.maxSlots + StackMargin
  <2>1. SUFFICES ASSUME Good PROVE o.reach <= Limit(o.maxSlots, o.values)
    BY DEF LongCall, FrameEnd, Limit
  <2> DEFINE m == o.maxSlots
             v == o.values
             l == Limit(m, v)
  <2>2. m \in Nat /\ v \in Nat /\ m <= m /\ v <= v /\ o.reach \in 0 .. l
    <3>1. OK(o) /\ Counts(o)
      BY <2>1 DEF IInv, CInv
    <3> QED
      BY <3>1, CountFacts DEF Counts, Covers, Within
  <2> HIDE DEF m, v
  <2>3. l \in Nat
    BY <2>2, LimitGrows
  <2> HIDE DEF l
  <2>4. o.reach <= l
    BY <2>2, <2>3
  <2> QED
    BY <2>4 DEF l, m, v
<1>2. ASSUME Good, NEW i \in DOMAIN o.stack, ~IsRegister(o.stack[i].slot), NEW s \in SlotsOf(o.stack[i])
      PROVE  s < o.maxSlots
  <2>1. OK(o) /\ Counts(o)
    BY <1>2 DEF IInv, CInv
  <2>2. i \in 1 .. Len(o.stack) /\ o.stack[i] \in Item /\ o.maxSlots \in Nat
    BY <2>1, <1>2 DEF OK, Typed, StackOk
  <2>3. Ends(o.stack[i]) <= o.maxSlots
    BY <2>1, <2>2, <1>2 DEF Counts, Covers, IsRegister
  <2> DEFINE x == o.stack[i]
  <2>4. x \in Item /\ s \in SlotsOf(x)
    BY <2>2, <1>2
  <2> HIDE DEF x
  <2>5. x.slot \in Nat /\ Ends(x) \in Nat
    BY <2>4, SlotsOfItem
  <2>6. s \in Int
    <3>1. GetTypeNumSlots(x.type) \in Nat
      BY Types
    <3> QED
      BY <3>1, <2>4, <2>5 DEF SlotsOf
  <2>7. s < Ends(x)
    BY <2>4, <2>6, SlotsOfItem
  <2> QED
    BY <2>2, <2>3, <2>5, <2>6, <2>7 DEF x
<1> QED
  BY <1>1, <1>2 DEF EntryCoversUnlessLongCall

\* The inductive invariant of the counts: each live item is counted in all its
\* slots, items share all their slots or none, no slot from the top on is in
\* use, and maxStackSlots is behind whatever is on the stack.
THEOREM CountsInvariance ==
  ASSUME "fp_results" \notin Allowed, "high_calls" \notin Allowed
  PROVE  Spec => [](IInv /\ CInv)
<1>1. Init => IInv /\ CInv
  BY InitOK, InitCounts
<1>2. IInv /\ CInv /\ [Next]_vars => (IInv /\ CInv)'
  BY NextOK, NextCounts
<1> QED
  BY <1>1, <1>2, PTL DEF Spec

\* m3Slots counts, for each slot that is given out, the values on the stack
\* that are in it: DeallocateSlot frees a slot with its last value, and
\* AllocateSlots gives out none that has a value.  Two things that the code
\* does not guard against are excluded, a second reference to a local with two
\* slots and parameters of a block that share their slots with others.
THEOREM CountsAlwaysAgree ==
  ASSUME "double_refs" \notin Allowed, "shared_params" \notin Allowed,
         "fp_results" \notin Allowed, "high_calls" \notin Allowed
  PROVE  Spec => []CountsAgree
<1>1. IInv /\ CInv => CountsAgree
  BY AgreeOfCInv DEF NoSharing
<1> QED
  BY <1>1, CountsInvariance, PTL

\* The slots that op_Entry makes sure of hold every value on the stack, and no
\* operation writes further behind them than the margin that m3_NewRuntime
\* adds, as long as no call has so many values that its arguments do not fit
\* there.  Once there is such a call, whatever its types, nothing is written
\* behind the frame of the callee, with two slots for each value.
THEOREM SlotsAlwaysCovered ==
  ASSUME "fp_results" \notin Allowed, "high_calls" \notin Allowed
  PROVE  Spec => []EntryCoversUnlessLongCall
<1>1. IInv /\ CInv => EntryCoversUnlessLongCall
  BY CoversOfCInv
<1> QED
  BY <1>1, CountsInvariance, PTL
=============================================================================
