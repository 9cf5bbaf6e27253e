-------------------------- MODULE CompilationProofs --------------------------
(***************************************************************************)
(* What the operations on the pool of code pages preserve, and page        *)
(* ownership and page counting in every state of the compiler; then what   *)
(* the compiler does to the code that is already there: where the words of *)
(* a function are, who may change them, where control goes, and how much   *)
(* room is left.                                                           *)
(***************************************************************************)
EXTENDS Compilation, FiniteSetTheorems, SequenceTheorems, TLAPS

-----------------------------------------------------------------------------
(* The pool of code pages                                                  *)

\* A pool that is typed and has every page in one place.
Good(s) == s \in PoolType /\ OnePlace(s)

\* A page that malloc gave and that is, for the moment, nowhere.
Nowhere(s, p) ==
  /\ p \in Page /\ p <= s.sequence
  /\ \A l \in List : \A i \in 1 .. Len(s.list[l]) : s.list[l][i] # p
  /\ \A r \in Runtime : p \notin s.active[r]

\* What OnePlace looks at is the same in both pools.
SamePlaces(s, t) ==
  t.list = s.list /\ t.active = s.active /\ t.sequence = s.sequence

SameCounters(s, t) ==
  /\ t.numCodePages = s.numCodePages
  /\ t.numActiveCodePages = s.numActiveCodePages

\* The counters agree with the lists and with the set of active pages.
Accounted(s) ==
  /\ CountersAgreeOn(s)
  /\ \A r \in Runtime : Cardinality(s.active[r]) = s.numActiveCodePages[r]

\* The heads of the lists are different.
LEMMA ListHeads ==
  ASSUME NEW r \in Runtime
  PROVE  /\ Released \in List /\ Open(r) \in List /\ Full(r) \in List
         /\ Open(r) # Full(r) /\ Open(r) # Released /\ Full(r) # Released
         /\ \A q \in Runtime : Open(q) # Full(r)
         /\ \A q \in Runtime : Open(q) = Open(r) \/ Full(q) = Full(r) => q = r
BY DEF List, Released, Open, Full

\* What RemoveAt leaves: the elements before position i, and those behind it
\* one position earlier.
LEMMA RemoveAtProperties ==
  ASSUME NEW S, NEW s \in Seq(S), NEW i \in 1 .. Len(s)
  PROVE  /\ RemoveAt(s, i) \in Seq(S)
         /\ Len(RemoveAt(s, i)) = Len(s) - 1
         /\ \A j \in 1 .. Len(s) - 1 :
              RemoveAt(s, i)[j] = IF j < i THEN s[j] ELSE s[j + 1]
<1> DEFINE before == SubSeq(s, 1, i - 1)
           after  == SubSeq(s, i + 1, Len(s))
<1>1. /\ before \in Seq(S) /\ Len(before) = i - 1
      /\ \A k \in 1 .. i - 1 : before[k] = s[k]
  OBVIOUS
<1>2. /\ after \in Seq(S) /\ Len(after) = Len(s) - i
      /\ \A k \in 1 .. Len(s) - i : after[k] = s[k + i]
  OBVIOUS
<1>3. RemoveAt(s, i) = before \o after
  BY DEF RemoveAt
<1> HIDE DEF before, after
<1>4. /\ before \o after \in Seq(S)
      /\ Len(before \o after) = Len(before) + Len(after)
      /\ \A k \in 1 .. Len(before) + Len(after) :
           (before \o after)[k] =
             IF k <= Len(before) THEN before[k] ELSE after[k - Len(before)]
  BY <1>1, <1>2, ConcatProperties
<1>5. ASSUME NEW j \in 1 .. Len(s) - 1
      PROVE  RemoveAt(s, i)[j] = IF j < i THEN s[j] ELSE s[j + 1]
  <2>1. j \in 1 .. Len(before) + Len(after)
    BY <1>1, <1>2
  <2>2. CASE j < i
    BY <1>1, <1>3, <1>4, <2>1, <2>2
  <2>3. CASE ~(j < i)
    <3>1. /\ j - Len(before) \in 1 .. Len(s) - i
          /\ ~(j <= Len(before))
          /\ (j - Len(before)) + i = j + 1
      BY <1>1, <2>3
    <3>2. RemoveAt(s, i)[j] = after[j - Len(before)]
      BY <1>3, <1>4, <2>1, <3>1
    <3> QED
      BY <1>2, <2>3, <3>1, <3>2
  <2> QED
    BY <2>2, <2>3
<1> QED
  BY <1>1, <1>2, <1>3, <1>4, <1>5

\* A page is malloc'ed with room for what it is needed for.
LEMMA PageLinesEnough ==
  ASSUME NEW n \in Nat
  PROVE  PageLines(n) \in Nat /\ PageLines(n) >= n
<1> DEFINE x == HeaderLines + n + AlignLines - 1
<1>1. x \in Nat
  BY PageAssumption
<1>2. /\ x \div AlignLines \in Nat
      /\ x = (AlignLines * (x \div AlignLines)) + (x % AlignLines)
      /\ x % AlignLines \in 0 .. AlignLines - 1
  BY <1>1, PageAssumption
<1> QED
  BY <1>1, <1>2, PageAssumption DEF PageLines

-----------------------------------------------------------------------------
(* Writing words changes no place.                                         *)

LEMMA SamePlacesOnePlace ==
  ASSUME NEW s, NEW t, SamePlaces(s, t), OnePlace(s)
  PROVE  OnePlace(t)
BY DEF SamePlaces, OnePlace

LEMMA EmitWordsGood ==
  ASSUME NEW s, Good(s), NEW p \in Page, NEW words \in Seq(Word)
  PROVE  /\ Good(EmitWords(s, p, words))
         /\ SamePlaces(s, EmitWords(s, p, words))
         /\ SameCounters(s, EmitWords(s, p, words))
         /\ EmitWords(s, p, words).code[p] = s.code[p] \o words
         /\ Len(EmitWords(s, p, words).code[p]) = Len(s.code[p]) + Len(words)
<1> DEFINE t == EmitWords(s, p, words)
<1>1. /\ s.code[p] \o words \in Seq(Word)
      /\ Len(s.code[p] \o words) = Len(s.code[p]) + Len(words)
  BY ConcatProperties DEF Good, PoolType
<1>2. /\ t \in PoolType /\ SamePlaces(s, t) /\ SameCounters(s, t)
      /\ t.code[p] = s.code[p] \o words
  BY <1>1 DEF Good, PoolType, EmitWords, SamePlaces, SameCounters
<1> QED
  BY <1>1, <1>2, SamePlacesOnePlace DEF Good

LEMMA SetPointersGood ==
  ASSUME NEW s, Good(s), NEW pcs, NEW target \in PC
  PROVE  /\ Good(SetPointers(s, pcs, target))
         /\ SamePlaces(s, SetPointers(s, pcs, target))
         /\ SameCounters(s, SetPointers(s, pcs, target))
         /\ \A p \in Page : Len(SetPointers(s, pcs, target).code[p]) = Len(s.code[p])
<1> DEFINE t == SetPointers(s, pcs, target)
           set(p) == [i \in 1 .. Len(s.code[p]) |->
                        IF <<p, i>> \in pcs THEN [s.code[p][i] EXCEPT !.to = target]
                                            ELSE s.code[p][i]]
<1>1. ASSUME NEW p \in Page
      PROVE  set(p) \in Seq(Word) /\ Len(set(p)) = Len(s.code[p])
  <2>1. s.code[p] \in Seq(Word) /\ Len(s.code[p]) \in Nat
    BY DEF Good, PoolType
  <2>2. \A i \in 1 .. Len(s.code[p]) : s.code[p][i] \in Word
    BY <2>1
  <2>3. \A w \in Word : [w EXCEPT !.to = target] \in Word
    BY DEF Word
  <2>4. set(p) \in [1 .. Len(s.code[p]) -> Word]
    BY <2>2, <2>3
  <2> QED
    BY <2>1, <2>4
<1>2. t.code = [p \in Page |-> set(p)] /\ SamePlaces(s, t) /\ SameCounters(s, t)
  BY DEF Good, PoolType, SetPointers, SamePlaces, SameCounters
<1>3. t \in PoolType
  <2>1. [p \in Page |-> set(p)] \in [Page -> Seq(Word)]
    BY <1>1
  <2> HIDE DEF set
  <2>2. t = [s EXCEPT !.code = [p \in Page |-> set(p)]]
    BY DEF SetPointers, set
  <2> QED
    BY <2>1, <2>2 DEF Good, PoolType
<1> QED
  BY <1>1, <1>2, <1>3, SamePlacesOnePlace DEF Good

-----------------------------------------------------------------------------
(* Taking a page.                                                          *)

LEMMA RemoveCodePageGood ==
  ASSUME NEW s, Good(s), NEW l \in List, NEW n,
         NEW a \in RemoveCodePageOfCapacity(s, l, n)
  PROVE  /\ Good(a.pool) /\ Nowhere(a.pool, a.page)
         /\ a.pool.active = s.active /\ a.pool.code = s.code
         /\ a.pool.numLines = s.numLines /\ SameCounters(s, a.pool)
         /\ \A m \in List : Len(a.pool.list[m]) = IF m = l THEN Len(s.list[m]) - 1
                                                        ELSE Len(s.list[m])
         /\ NumFreeLines(a.pool, a.page) >= n
<1>1. PICK i \in FirstFit(s, l, n) :
        a = Outcome([s EXCEPT !.list[l] = RemoveAt(@, i)], s.list[l][i])
  BY DEF RemoveCodePageOfCapacity
<1> DEFINE t == a.pool
<1>2. /\ s.list[l] \in Seq(Page) /\ i \in 1 .. Len(s.list[l])
      /\ s.list[l][i] \in Page /\ NumFreeLines(s, s.list[l][i]) >= n
  BY DEF Good, PoolType, FirstFit
<1>3. /\ a.page = s.list[l][i]
      /\ t = [s EXCEPT !.list = [s.list EXCEPT ![l] = RemoveAt(s.list[l], i)]]
  BY <1>1 DEF Outcome
<1>4. /\ RemoveAt(s.list[l], i) \in Seq(Page)
      /\ Len(RemoveAt(s.list[l], i)) = Len(s.list[l]) - 1
      /\ \A j \in 1 .. Len(s.list[l]) - 1 :
           RemoveAt(s.list[l], i)[j] = IF j < i THEN s.list[l][j] ELSE s.list[l][j + 1]
  BY <1>2, RemoveAtProperties
<1>5. t \in PoolType
  <2>1. [s.list EXCEPT ![l] = RemoveAt(s.list[l], i)] \in [List -> Seq(Page)]
    BY <1>4 DEF Good, PoolType
  <2> QED
    BY <1>3, <2>1 DEF Good, PoolType
<1>6. /\ t.active = s.active /\ t.code = s.code /\ t.numLines = s.numLines
      /\ t.sequence = s.sequence
      /\ t.list = [s.list EXCEPT ![l] = RemoveAt(s.list[l], i)]
  BY <1>3 DEF Good, PoolType
\* Where an element of a list of t was in s.
<1> DEFINE old(m, j) == IF m = l /\ ~(j < i) THEN j + 1 ELSE j
<1>7. ASSUME NEW m \in List, NEW j \in 1 .. Len(t.list[m])
      PROVE  /\ old(m, j) \in 1 .. Len(s.list[m])
             /\ t.list[m][j] = s.list[m][old(m, j)]
             /\ m = l => old(m, j) # i
  <2>1. CASE m = l
    <3>1. t.list[m] = RemoveAt(s.list[l], i) /\ j \in 1 .. Len(s.list[l]) - 1
      BY <1>4, <1>6, <2>1 DEF Good, PoolType
    <3> QED
      BY <1>2, <1>4, <2>1, <3>1
  <2>2. CASE m # l
    BY <1>6, <2>2 DEF Good, PoolType
  <2> QED
    BY <2>1, <2>2
<1>8. ASSUME NEW m \in List, NEW j \in 1 .. Len(t.list[m]),
             NEW m2 \in List, NEW j2 \in 1 .. Len(t.list[m2]),
             old(m, j) = old(m2, j2), m = m2
      PROVE  j = j2
  <2>1. j \in Int /\ j2 \in Int /\ i \in Int
    BY <1>2, <1>5 DEF PoolType
  <2> QED
    BY <1>8, <2>1
<1>9. OnePlace(t)
  <2> HIDE DEF old, t
  <2>1. \A m, m2 \in List : \A j \in 1 .. Len(t.list[m]), j2 \in 1 .. Len(t.list[m2]) :
          t.list[m][j] = t.list[m2][j2] => m = m2 /\ j = j2
    <3> SUFFICES ASSUME NEW m \in List, NEW j \in 1 .. Len(t.list[m]),
                        NEW m2 \in List, NEW j2 \in 1 .. Len(t.list[m2]),
                        t.list[m][j] = t.list[m2][j2]
                 PROVE  m = m2 /\ j = j2
      OBVIOUS
    <3>1. /\ old(m, j) \in 1 .. Len(s.list[m]) /\ t.list[m][j] = s.list[m][old(m, j)]
          /\ old(m2, j2) \in 1 .. Len(s.list[m2]) /\ t.list[m2][j2] = s.list[m2][old(m2, j2)]
      BY <1>7
    <3>2. \A d \in 1 .. Len(s.list[m]), d2 \in 1 .. Len(s.list[m2]) :
            s.list[m][d] = s.list[m2][d2] => m = m2 /\ d = d2
      BY DEF Good, OnePlace
    <3>3. m = m2 /\ old(m, j) = old(m2, j2)
      BY <3>1, <3>2
    <3> QED
      BY <1>8, <3>3
  <2>2. /\ \A m \in List : \A j \in 1 .. Len(t.list[m]) : \A r \in Runtime :
             t.list[m][j] \notin t.active[r]
        /\ \A m \in List : \A j \in 1 .. Len(t.list[m]) : t.list[m][j] <= t.sequence
    BY <1>6, <1>7 DEF Good, OnePlace
  <2> QED
    BY <1>6, <2>1, <2>2 DEF Good, OnePlace
<1>10. Nowhere(t, a.page)
  <2> HIDE DEF old, t
  <2> QED
    BY <1>2, <1>3, <1>6, <1>7 DEF Good, OnePlace, Nowhere
<1>11. SameCounters(s, t)
  BY <1>3 DEF Good, PoolType, SameCounters
<1>12. \A m \in List : Len(t.list[m]) = IF m = l THEN Len(s.list[m]) - 1 ELSE Len(s.list[m])
  <2> HIDE DEF t
  <2> QED
    BY <1>4, <1>6 DEF Good, PoolType
<1> QED
  BY <1>2, <1>3, <1>5, <1>6, <1>9, <1>10, <1>11, <1>12 DEF Good, NumFreeLines

LEMMA NewCodePageGood ==
  ASSUME NEW s, Good(s), NEW n \in Nat, NEW a \in NewCodePage(s, n)
  PROVE  /\ Good(a.pool) /\ Nowhere(a.pool, a.page)
         /\ a.pool.active = s.active /\ a.pool.code = s.code
         /\ a.pool.list = s.list /\ SameCounters(s, a.pool)
<1>1. /\ s.sequence < MaxPages
      /\ a.page = s.sequence + 1
      /\ a.pool = [s EXCEPT !.sequence = s.sequence + 1,
                            !.numLines = [s.numLines EXCEPT ![s.sequence + 1] = PageLines(n)]]
  BY DEF NewCodePage, Outcome
<1>2. /\ s.sequence \in Nat /\ a.page \in Page /\ s.sequence + 1 \in 0 .. MaxPages
      /\ \A p \in Page : p \in Int
  BY <1>1, PageAssumption DEF Good, PoolType, Page
<1>3. /\ a.pool \in PoolType
      /\ a.pool.list = s.list /\ a.pool.active = s.active /\ a.pool.code = s.code
      /\ a.pool.sequence = s.sequence + 1
      /\ SameCounters(s, a.pool)
  <2>1. PageLines(n) \in Nat
    BY PageLinesEnough
  <2>2. [s.numLines EXCEPT ![s.sequence + 1] = PageLines(n)] \in [Page -> Nat]
    BY <2>1 DEF Good, PoolType
  <2> QED
    BY <1>1, <1>2, <2>2 DEF Good, PoolType, SameCounters
<1>4. /\ \A l \in List : \A i \in 1 .. Len(s.list[l]) :
           s.list[l][i] \in Int /\ s.list[l][i] <= s.sequence
      /\ \A r \in Runtime : \A p \in s.active[r] : p \in Int /\ p <= s.sequence
  BY <1>2, SMTT(40) DEF Good, OnePlace, PoolType
<1>5. OnePlace(a.pool)
  BY <1>2, <1>3, <1>4 DEF Good, OnePlace
<1> QED
  BY <1>1, <1>2, <1>3, <1>4, <1>5 DEF Good, Nowhere

LEMMA ActivateGood ==
  ASSUME NEW s, Good(s), NEW r \in Runtime, NEW p, Nowhere(s, p), NEW owned \in Nat
  PROVE  /\ Good(Activate(s, r, p, owned))
         /\ Activate(s, r, p, owned).active = [s.active EXCEPT ![r] = @ \cup {p}]
<1> DEFINE t == Activate(s, r, p, owned)
<1>1. /\ [s.active EXCEPT ![r] = @ \cup {p}] \in [Runtime -> SUBSET Page]
      /\ [s.numCodePages EXCEPT ![r] = @ + owned] \in [Runtime -> Nat]
      /\ [s.numActiveCodePages EXCEPT ![r] = @ + 1] \in [Runtime -> Int]
  BY DEF Good, PoolType, Nowhere
<1>2. /\ t \in PoolType
      /\ t.active = [s.active EXCEPT ![r] = @ \cup {p}]
      /\ t.list = s.list /\ t.sequence = s.sequence
  BY <1>1 DEF Good, PoolType, Activate
<1>3. \A q \in Runtime : \A x : x \in t.active[q] <=> x \in s.active[q] \/ (q = r /\ x = p)
  BY <1>2 DEF Good, PoolType
<1>4. OnePlace(t)
  <2> HIDE DEF t
  <2> QED
    BY <1>2, <1>3 DEF Good, OnePlace, Nowhere
<1> QED
  BY <1>2, <1>4 DEF Good

\* A page that is acquired was nowhere before, and is active then.
LEMMA AcquireGood ==
  ASSUME NEW s, Good(s), NEW r \in Runtime, NEW n \in Nat, NULL \notin Page,
         NEW a \in AcquireCodePageWithCapacity(s, r, n)
  PROVE  /\ Good(a.pool)
         /\ a.page = NULL => a.pool = s
         /\ a.page # NULL =>
              /\ a.page \in Page
              /\ \A q \in Runtime : a.page \notin s.active[q]
              /\ a.pool.active = [s.active EXCEPT ![r] = @ \cup {a.page}]
<1> DEFINE open     == RemoveCodePageOfCapacity(s, Open(r), n)
           released == RemoveCodePageOfCapacity(s, Released, n)
<1>1. \/ a = Outcome(s, NULL)
      \/ \E b \in open : a = Outcome(Activate(b.pool, r, b.page, 0), b.page)
      \/ \E b \in released \cup NewCodePage(s, n) :
           a = Outcome(Activate(b.pool, r, b.page, 1), b.page)
  BY DEF AcquireCodePageWithCapacity
<1>2. \A b \in open \cup released \cup NewCodePage(s, n) :
        Good(b.pool) /\ Nowhere(b.pool, b.page) /\ b.pool.active = s.active
  BY ListHeads, RemoveCodePageGood, NewCodePageGood
<1>3. ASSUME NEW b, Good(b.pool), Nowhere(b.pool, b.page), b.pool.active = s.active,
             NEW owned \in Nat, a = Outcome(Activate(b.pool, r, b.page, owned), b.page)
      PROVE  /\ Good(a.pool) /\ a.page \in Page /\ a.page # NULL
             /\ \A q \in Runtime : a.page \notin s.active[q]
             /\ a.pool.active = [s.active EXCEPT ![r] = @ \cup {a.page}]
  BY <1>3, ActivateGood DEF Outcome, Nowhere
<1>4. CASE a = Outcome(s, NULL)
  BY <1>4 DEF Outcome
<1> QED
  BY <1>1, <1>2, <1>3, <1>4

-----------------------------------------------------------------------------
(* Giving pages back.                                                      *)

\* A page put in front of a list is at position 1; the others move up by one.
LEMMA PrependProperties ==
  ASSUME NEW S, NEW s \in Seq(S), NEW p \in S
  PROVE  /\ <<p>> \o s \in Seq(S) /\ Len(<<p>> \o s) = Len(s) + 1
         /\ \A i \in 1 .. Len(s) + 1 :
              (<<p>> \o s)[i] = IF i = 1 THEN p ELSE s[i - 1]
<1>1. <<p>> \in Seq(S) /\ Len(<<p>>) = 1 /\ <<p>>[1] = p
  OBVIOUS
<1> QED
  BY <1>1, ConcatProperties

LEMMA ReleaseGood ==
  ASSUME NEW s, Good(s), NEW r \in Runtime, NEW p \in s.active[r]
  PROVE  /\ Good(ReleaseCodePage(s, r, p))
         /\ ReleaseCodePage(s, r, p).active = [s.active EXCEPT ![r] = @ \ {p}]
         /\ ReleaseCodePage(s, r, p).code = s.code
<1> DEFINE t == ReleaseCodePage(s, r, p)
<1>1. PICK l \in {Open(r), Full(r)} :
        t = [s EXCEPT !.list               = [s.list EXCEPT ![l] = <<p>> \o s.list[l]],
                      !.numActiveCodePages = [s.numActiveCodePages EXCEPT ![r] = @ - 1],
                      !.active             = [s.active EXCEPT ![r] = @ \ {p}]]
  BY DEF ReleaseCodePage
<1>2. l \in List /\ p \in Page /\ s.list[l] \in Seq(Page)
  BY ListHeads DEF Good, PoolType
<1>3. /\ <<p>> \o s.list[l] \in Seq(Page)
      /\ Len(<<p>> \o s.list[l]) = Len(s.list[l]) + 1
      /\ \A i \in 1 .. Len(s.list[l]) + 1 :
           (<<p>> \o s.list[l])[i] = IF i = 1 THEN p ELSE s.list[l][i - 1]
  BY <1>2, PrependProperties
<1>4. /\ [s.list EXCEPT ![l] = <<p>> \o s.list[l]] \in [List -> Seq(Page)]
      /\ [s.numActiveCodePages EXCEPT ![r] = @ - 1] \in [Runtime -> Int]
      /\ [s.active EXCEPT ![r] = @ \ {p}] \in [Runtime -> SUBSET Page]
  <2>1. [s.list EXCEPT ![l] = <<p>> \o s.list[l]] \in [List -> Seq(Page)]
    BY <1>3 DEF Good, PoolType
  <2>2. [s.numActiveCodePages EXCEPT ![r] = @ - 1] \in [Runtime -> Int]
    BY DEF Good, PoolType
  <2>3. [s.active EXCEPT ![r] = @ \ {p}] \in [Runtime -> SUBSET Page]
    BY DEF Good, PoolType
  <2> QED
    BY <2>1, <2>2, <2>3
<1>5. t \in PoolType
  <2> DEFINE list1 == [s.list EXCEPT ![l] = <<p>> \o s.list[l]]
             num1  == [s.numActiveCodePages EXCEPT ![r] = @ - 1]
             act1  == [s.active EXCEPT ![r] = @ \ {p}]
  <2>1. list1 \in [List -> Seq(Page)] /\ num1 \in [Runtime -> Int]
        /\ act1 \in [Runtime -> SUBSET Page]
    BY <1>4
  <2>2. t = [s EXCEPT !.list = list1, !.numActiveCodePages = num1, !.active = act1]
    BY <1>1
  <2> HIDE DEF t, list1, num1, act1
  <2> QED
    BY <2>1, <2>2 DEF Good, PoolType
<1>6. /\ t.list = [s.list EXCEPT ![l] = <<p>> \o s.list[l]]
      /\ t.active = [s.active EXCEPT ![r] = @ \ {p}]
      /\ t.sequence = s.sequence /\ t.code = s.code
  BY <1>1 DEF Good, PoolType
\* Where an element of a list of t was in s; 0: on no list.
<1> DEFINE old(m, j) == IF m = l THEN j - 1 ELSE j
<1>7. ASSUME NEW m \in List, NEW j \in 1 .. Len(t.list[m])
      PROVE  /\ j \in Int
             /\ \/ m = l /\ j = 1 /\ t.list[m][j] = p
                \/ old(m, j) \in 1 .. Len(s.list[m]) /\ t.list[m][j] = s.list[m][old(m, j)]
  <2>1. CASE m = l
    <3>1. t.list[m] = <<p>> \o s.list[l]
      BY <1>6, <2>1, <1>2 DEF Good, PoolType
    <3>2. Len(s.list[l]) \in Nat
      BY <1>2
    <3>3. j \in 1 .. Len(s.list[l]) + 1
      BY <1>3, <3>1
    <3>4. (<<p>> \o s.list[l])[j] = IF j = 1 THEN p ELSE s.list[l][j - 1]
      BY <1>3, <3>3
    <3> QED
      BY <2>1, <3>1, <3>2, <3>3, <3>4
  <2>2. CASE m # l
    <3>1. t.list[m] = s.list[m] /\ Len(s.list[m]) \in Nat
      BY <1>6, <2>2 DEF Good, PoolType
    <3> QED
      BY <2>2, <3>1
  <2> QED
    BY <2>1, <2>2
<1>8. /\ \A m \in List : \A j \in 1 .. Len(s.list[m]) : s.list[m][j] # p
      /\ p <= s.sequence
  BY DEF Good, OnePlace
<1>9. \A q \in Runtime : \A x : x \in t.active[q] => x \in s.active[q] /\ x # p
  BY <1>6 DEF Good, PoolType, OnePlace
<1>10. OnePlace(t)
  <2> HIDE DEF t
  <2>1. \A m, m2 \in List : \A j \in 1 .. Len(t.list[m]), j2 \in 1 .. Len(t.list[m2]) :
          t.list[m][j] = t.list[m2][j2] => m = m2 /\ j = j2
    <3> SUFFICES ASSUME NEW m \in List, NEW m2 \in List,
                        NEW j \in 1 .. Len(t.list[m]), NEW j2 \in 1 .. Len(t.list[m2]),
                        t.list[m][j] = t.list[m2][j2]
                 PROVE  m = m2 /\ j = j2
      OBVIOUS
    <3>1. j \in Int /\ j2 \in Int
      BY <1>7
    <3>2. CASE t.list[m][j] = p
      <4>1. \A i \in 1 .. Len(s.list[m]) : t.list[m][j] # s.list[m][i]
        BY <1>8, <3>2
      <4>2. \A i \in 1 .. Len(s.list[m2]) : t.list[m2][j2] # s.list[m2][i]
        BY <1>8, <3>2
      <4> HIDE DEF old
      <4> QED
        BY <1>7, <4>1, <4>2
    <3>3. CASE t.list[m][j] # p
      <4>1. /\ old(m, j) \in 1 .. Len(s.list[m])
            /\ t.list[m][j] = s.list[m][old(m, j)]
        BY <1>7, <3>3
      <4>2. /\ old(m2, j2) \in 1 .. Len(s.list[m2])
            /\ t.list[m2][j2] = s.list[m2][old(m2, j2)]
        BY <1>7, <3>3
      <4>3. m = m2 /\ old(m, j) = old(m2, j2)
        <5> DEFINE k == old(m, j)
                   k2 == old(m2, j2)
        <5>1. /\ k \in 1 .. Len(s.list[m]) /\ k2 \in 1 .. Len(s.list[m2])
              /\ s.list[m][k] = s.list[m2][k2]
          BY <4>1, <4>2
        <5> HIDE DEF k, k2
        <5>2. m = m2 /\ k = k2
          BY <5>1 DEF Good, OnePlace
        <5> QED
          BY <5>2 DEF k, k2
      <4> QED
        BY <3>1, <4>3
    <3> QED
      BY <3>2, <3>3
  <2>2. /\ \A m \in List : \A j \in 1 .. Len(t.list[m]) : \A q \in Runtime :
             t.list[m][j] \notin t.active[q]
        /\ \A m \in List : \A j \in 1 .. Len(t.list[m]) : t.list[m][j] <= t.sequence
    <3> SUFFICES ASSUME NEW m \in List, NEW j \in 1 .. Len(t.list[m])
                 PROVE  /\ \A q \in Runtime : t.list[m][j] \notin t.active[q]
                        /\ t.list[m][j] <= t.sequence
      OBVIOUS
    <3>1. CASE t.list[m][j] = p
      BY <1>6, <1>8, <1>9, <3>1
    <3>2. CASE t.list[m][j] # p
      <4>1. /\ old(m, j) \in 1 .. Len(s.list[m])
            /\ t.list[m][j] = s.list[m][old(m, j)]
        BY <1>7, <3>2
      <4> HIDE DEF old
      <4> QED
        BY <1>6, <1>9, <4>1 DEF Good, OnePlace
    <3> QED
      BY <3>1, <3>2
  <2> QED
    BY <1>6, <1>9, <2>1, <2>2 DEF Good, OnePlace
<1> QED
  BY <1>5, <1>6, <1>10 DEF Good

LEMMA ReleaseCodePagesGood ==
  ASSUME NEW s, Good(s), NEW l \in List, l # Released
  PROVE  /\ Good(Environment_ReleaseCodePages(s, l))
         /\ Environment_ReleaseCodePages(s, l).active = s.active
         /\ SameCounters(s, Environment_ReleaseCodePages(s, l))
         /\ \A m \in List \ {Released} :
              Environment_ReleaseCodePages(s, l).list[m] = IF m = l THEN <<>> ELSE s.list[m]
<1> DEFINE t       == Environment_ReleaseCodePages(s, l)
           n       == Len(s.list[l])
           joined  == s.list[l] \o s.list[Released]
           list1   == [s.list EXCEPT ![Released] = joined, ![l] = <<>>]
           wiped(p) == \E i \in 1 .. Len(s.list[l]) : s.list[l][i] = p
           code1   == [p \in Page |-> IF wiped(p) THEN <<>> ELSE s.code[p]]
<1>1. /\ Released \in List /\ s.list[l] \in Seq(Page) /\ s.list[Released] \in Seq(Page)
      /\ n \in Nat
  BY DEF Good, PoolType, List
<1>2. /\ joined \in Seq(Page) /\ Len(joined) = n + Len(s.list[Released])
      /\ \A i \in 1 .. n + Len(s.list[Released]) :
           joined[i] = IF i <= n THEN s.list[l][i] ELSE s.list[Released][i - n]
  BY <1>1, ConcatProperties
<1>3. list1 \in [List -> Seq(Page)] /\ code1 \in [Page -> Seq(Word)]
  <2>1. <<>> \in Seq(Page) /\ <<>> \in Seq(Word)
    OBVIOUS
  <2>2. list1 \in [List -> Seq(Page)]
    <3> HIDE DEF joined
    <3> QED
      BY <1>2, <2>1 DEF Good, PoolType
  <2>3. ASSUME NEW p \in Page
        PROVE  (IF wiped(p) THEN <<>> ELSE s.code[p]) \in Seq(Word)
    <3>1. s.code[p] \in Seq(Word)
      BY DEF Good, PoolType
    <3> HIDE DEF wiped
    <3> QED
      BY <2>1, <3>1
  <2>4. code1 \in [Page -> Seq(Word)]
    <3> HIDE DEF wiped
    <3> QED
      BY <2>3
  <2> QED
    BY <2>2, <2>4
<1>4. t = [s EXCEPT !.list = list1, !.code = code1]
  BY DEF Environment_ReleaseCodePages
<1>5. t \in PoolType
  <2> HIDE DEF t, list1, code1
  <2> QED
    BY <1>3, <1>4 DEF Good, PoolType
<1>6. t.list = list1 /\ t.active = s.active /\ t.sequence = s.sequence
  <2> HIDE DEF t, list1, code1
  <2> QED
    BY <1>4 DEF Good, PoolType
\* Where an element of a list of t was in s.
<1> DEFINE from(m, j) == IF m = Released /\ j <= n THEN l ELSE m
           old(m, j)  == IF m = Released /\ ~(j <= n) THEN j - n ELSE j
<1>7. ASSUME NEW m \in List, NEW j \in 1 .. Len(t.list[m])
      PROVE  /\ j \in Int /\ m # l
             /\ from(m, j) \in List /\ old(m, j) \in 1 .. Len(s.list[from(m, j)])
             /\ t.list[m][j] = s.list[from(m, j)][old(m, j)]
  <2>1. CASE m = Released
    <3>1. t.list[m] = joined
      <4> HIDE DEF joined, t
      <4> QED
        BY <1>1, <1>6, <2>1 DEF Good, PoolType
    <3>2. j \in 1 .. n + Len(s.list[Released]) /\ Len(s.list[Released]) \in Nat
      <4> HIDE DEF joined, t, n
      <4> QED
        BY <1>1, <1>2, <3>1
    <3>3. joined[j] = IF j <= n THEN s.list[l][j] ELSE s.list[Released][j - n]
      BY <1>2, <3>2
    <3> HIDE DEF joined, t
    <3>4. CASE j <= n
      BY <1>1, <2>1, <3>1, <3>2, <3>3, <3>4
    <3>5. CASE ~(j <= n)
      <4>1. j \in Int /\ j - n \in 1 .. Len(s.list[Released])
        <5> HIDE DEF n
        <5> QED
          BY <1>1, <3>2, <3>5
      <4>2. from(m, j) = Released /\ old(m, j) = j - n
        BY <2>1, <3>5
      <4> HIDE DEF from, old, n
      <4> QED
        BY <1>1, <2>1, <3>1, <3>3, <3>5, <4>1, <4>2
    <3> QED
      BY <3>4, <3>5
  <2>2. CASE m = l
    <3>1. t.list[m] = <<>>
      <4> HIDE DEF joined, t
      <4> QED
        BY <1>1, <1>6, <2>2 DEF Good, PoolType
    <3> QED
      BY <3>1
  <2>3. CASE m # Released /\ m # l
    <3>1. t.list[m] = s.list[m] /\ Len(s.list[m]) \in Nat
      <4> HIDE DEF joined, t
      <4> QED
        BY <1>1, <1>6, <2>3 DEF Good, PoolType
    <3> HIDE DEF joined, t
    <3> QED
      BY <2>3, <3>1
  <2> QED
    BY <2>1, <2>2, <2>3
<1>8. OnePlace(t)
  <2> HIDE DEF t
  <2>1. ASSUME NEW m \in List, NEW m2 \in List,
               NEW j \in 1 .. Len(t.list[m]), NEW j2 \in 1 .. Len(t.list[m2]),
               t.list[m][j] = t.list[m2][j2]
        PROVE  m = m2 /\ j = j2
    <3> DEFINE x == from(m, j)   k == old(m, j)
               x2 == from(m2, j2) k2 == old(m2, j2)
    <3>1. /\ x \in List /\ x2 \in List
          /\ k \in 1 .. Len(s.list[x]) /\ k2 \in 1 .. Len(s.list[x2])
          /\ s.list[x][k] = s.list[x2][k2]
      BY <1>7, <2>1
    <3>2. x = x2 /\ k = k2
      <4> HIDE DEF x, x2, k, k2
      <4> QED
        BY <3>1 DEF Good, OnePlace
    <3>3. j \in Int /\ j2 \in Int /\ m # l /\ m2 # l
      BY <1>7
    <3> QED
      BY <1>1, <3>2, <3>3
  <2>2. ASSUME NEW m \in List, NEW j \in 1 .. Len(t.list[m])
        PROVE  /\ \A r \in Runtime : t.list[m][j] \notin t.active[r]
               /\ t.list[m][j] <= t.sequence
    <3> DEFINE x == from(m, j)   k == old(m, j)
    <3>1. x \in List /\ k \in 1 .. Len(s.list[x]) /\ t.list[m][j] = s.list[x][k]
      BY <1>7
    <3> HIDE DEF x, k
    <3> QED
      BY <1>6, <3>1 DEF Good, OnePlace
  <2> QED
    BY <1>6, <2>1, <2>2 DEF Good, OnePlace
<1>9. SameCounters(s, t)
  <2> HIDE DEF t, list1, code1
  <2> QED
    BY <1>4 DEF Good, PoolType, SameCounters
<1>10. \A m \in List \ {Released} : t.list[m] = IF m = l THEN <<>> ELSE s.list[m]
  <2> HIDE DEF t, joined
  <2> QED
    BY <1>1, <1>6 DEF Good, PoolType
<1> QED
  BY <1>5, <1>6, <1>8, <1>9, <1>10 DEF Good

LEMMA Runtime_ReleaseGood ==
  ASSUME NEW s, Good(s), NEW r \in Runtime
  PROVE  Good(Runtime_Release(s, r))
<1> DEFINE s1 == Environment_ReleaseCodePages(s, Open(r))
           s2 == Environment_ReleaseCodePages(s1, Full(r))
           t  == Runtime_Release(s, r)
<1>1. Good(s1)
  BY ListHeads, ReleaseCodePagesGood
<1>2. Good(s2)
  BY <1>1, ListHeads, ReleaseCodePagesGood
<1> HIDE DEF s1
<1>3. t = [s2 EXCEPT !.numCodePages       = [s2.numCodePages EXCEPT ![r] = 0],
                     !.numActiveCodePages = [s2.numActiveCodePages EXCEPT ![r] = 0],
                     !.active             = [s2.active EXCEPT ![r] = {}]]
  BY DEF Runtime_Release, s1
<1> HIDE DEF s2, t
<1>4. /\ [s2.numCodePages EXCEPT ![r] = 0] \in [Runtime -> Nat]
      /\ [s2.numActiveCodePages EXCEPT ![r] = 0] \in [Runtime -> Int]
      /\ [s2.active EXCEPT ![r] = {}] \in [Runtime -> SUBSET Page]
  BY <1>2 DEF Good, PoolType
<1>5. /\ t \in PoolType
      /\ t.list = s2.list /\ t.active = [s2.active EXCEPT ![r] = {}]
      /\ t.sequence = s2.sequence
  BY <1>2, <1>3, <1>4 DEF Good, PoolType
<1>6. \A q \in Runtime : t.active[q] \subseteq s2.active[q]
  BY <1>2, <1>5 DEF Good, PoolType
<1>7. OnePlace(t)
  BY <1>2, <1>5, <1>6 DEF Good, OnePlace
<1> QED
  BY <1>5, <1>7 DEF Good, t

LEMMA Environment_ReleaseGood ==
  ASSUME NEW s, Good(s)
  PROVE  Good(Environment_Release(s))
<1> DEFINE t      == Environment_Release(s)
           list1  == [s.list EXCEPT ![Released] = <<>>]
           freed(p) == \E i \in 1 .. Len(s.list[Released]) : s.list[Released][i] = p
           lines1 == [p \in Page |-> IF freed(p) THEN 0 ELSE s.numLines[p]]
<1>1. Released \in List
  BY DEF List
<1>2. list1 \in [List -> Seq(Page)] /\ lines1 \in [Page -> Nat]
  <2>1. <<>> \in Seq(Page)
    OBVIOUS
  <2>2. \A p \in Page : s.numLines[p] \in Nat
    BY DEF Good, PoolType
  <2>3. list1 \in [List -> Seq(Page)]
    BY <2>1 DEF Good, PoolType
  <2>4. lines1 \in [Page -> Nat]
    <3> HIDE DEF freed
    <3> QED
      BY <2>2
  <2> QED
    BY <2>3, <2>4
<1>3. t = [s EXCEPT !.numLines = lines1, !.list = list1]
  BY DEF Environment_Release
<1> HIDE DEF t, lines1
<1>4. /\ t \in PoolType
      /\ t.list = list1 /\ t.active = s.active /\ t.sequence = s.sequence
  <2> HIDE DEF list1
  <2> QED
    BY <1>2, <1>3 DEF Good, PoolType
<1>5. ASSUME NEW m \in List
      PROVE  /\ m = Released => Len(t.list[m]) = 0
             /\ m # Released => t.list[m] = s.list[m]
  BY <1>1, <1>4 DEF Good, PoolType
<1>6. ASSUME NEW m \in List, NEW j \in 1 .. Len(t.list[m])
      PROVE  j \in 1 .. Len(s.list[m]) /\ t.list[m][j] = s.list[m][j]
  BY <1>5
<1>7. OnePlace(t)
  BY <1>4, <1>6 DEF Good, OnePlace
<1> QED
  BY <1>4, <1>7 DEF Good, t

-----------------------------------------------------------------------------
(* The counters.                                                           *)

LEMMA ActiveFinite ==
  ASSUME NEW s, Good(s), NEW r \in Runtime
  PROVE  IsFiniteSet(s.active[r]) /\ Cardinality(s.active[r]) \in Nat
<1>1. IsFiniteSet(Page)
  BY FS_Interval, PageAssumption DEF Page
<1>2. s.active[r] \subseteq Page
  BY DEF Good, PoolType
<1> QED
  BY <1>1, <1>2, FS_Subset, FS_CardinalityType

LEMMA SameAccounted ==
  ASSUME NEW s, NEW t, SamePlaces(s, t), SameCounters(s, t), Accounted(s)
  PROVE  Accounted(t)
BY DEF SamePlaces, SameCounters, Accounted, CountersAgreeOn

\* The pages on the two lists of a runtime.
Listed(s, q) == Len(s.list[Open(q)]) + Len(s.list[Full(q)])

LEMMA ListedType ==
  ASSUME NEW s, Good(s), NEW q \in Runtime
  PROVE  /\ Listed(s, q) \in Int
         /\ Len(s.list[Open(q)]) \in Int /\ Len(s.list[Full(q)]) \in Int
         /\ s.numCodePages[q] \in Int /\ s.numActiveCodePages[q] \in Int
BY ListHeads DEF Good, PoolType, Listed

LEMMA AccountedListed ==
  ASSUME NEW s
  PROVE  CountersAgreeOn(s) <=>
           \A q \in Runtime : Listed(s, q) + s.numActiveCodePages[q] = s.numCodePages[q]
BY DEF CountersAgreeOn, Listed

\* b is s without the page: taken from the runtime's own list (owned = 0), or
\* from elsewhere (owned = 1).
LEMMA ActivateAccounted ==
  ASSUME NEW s, Good(s), Accounted(s), NEW r \in Runtime,
         NEW b, Good(b), b.active = s.active, SameCounters(s, b),
         NEW p, Nowhere(b, p), NEW owned \in {0, 1},
         \A q \in Runtime : q # r => Listed(b, q) = Listed(s, q),
         Listed(b, r) + 1 = Listed(s, r) + owned
  PROVE  Accounted(Activate(b, r, p, owned))
<1> DEFINE t == Activate(b, r, p, owned)
<1>1. /\ t.list = b.list
      /\ t.numCodePages = [s.numCodePages EXCEPT ![r] = @ + owned]
      /\ t.numActiveCodePages = [s.numActiveCodePages EXCEPT ![r] = @ + 1]
      /\ t.active = [s.active EXCEPT ![r] = @ \cup {p}]
  BY DEF Activate, Good, PoolType, SameCounters
<1>2. ASSUME NEW q \in Runtime
      PROVE  /\ q = r => /\ t.numCodePages[q] = s.numCodePages[q] + owned
                         /\ t.numActiveCodePages[q] = s.numActiveCodePages[q] + 1
                         /\ t.active[q] = s.active[q] \cup {p}
             /\ q # r => /\ t.numCodePages[q] = s.numCodePages[q]
                         /\ t.numActiveCodePages[q] = s.numActiveCodePages[q]
                         /\ t.active[q] = s.active[q]
  <2> HIDE DEF t
  <2> QED
    BY <1>1 DEF Good, PoolType
<1> HIDE DEF t
<1>3. ASSUME NEW q \in Runtime
      PROVE  Listed(t, q) + t.numActiveCodePages[q] = t.numCodePages[q]
  <2>1. Listed(s, q) + s.numActiveCodePages[q] = s.numCodePages[q]
    BY AccountedListed DEF Accounted
  <2>2. Listed(t, q) = Listed(b, q)
    BY <1>1 DEF Listed
  <2>3. Listed(s, q) \in Int /\ Listed(b, q) \in Int /\ s.numActiveCodePages[q] \in Int
    BY ListedType
  <2>4. CASE q = r
    BY <1>2, <2>1, <2>2, <2>3, <2>4
  <2>5. CASE q # r
    BY <1>2, <2>1, <2>2, <2>5
  <2> QED
    BY <2>4, <2>5
<1>4. CountersAgreeOn(t)
  BY <1>3, AccountedListed
<1>5. ASSUME NEW q \in Runtime
      PROVE  Cardinality(t.active[q]) = t.numActiveCodePages[q]
  <2>1. CASE q = r
    <3>1. p \notin s.active[r] /\ IsFiniteSet(s.active[r])
      BY ActiveFinite DEF Nowhere
    <3>2. Cardinality(s.active[r] \cup {p}) = Cardinality(s.active[r]) + 1
      BY <3>1, FS_AddElement
    <3> QED
      BY <1>2, <2>1, <3>2 DEF Accounted
  <2>2. CASE q # r
    BY <1>2, <2>2 DEF Accounted
  <2> QED
    BY <2>1, <2>2
<1> QED
  BY <1>4, <1>5 DEF Accounted, t

LEMMA AcquireAccounted ==
  ASSUME NEW s, Good(s), Accounted(s), NEW r \in Runtime, NEW n \in Nat,
         NEW a \in AcquireCodePageWithCapacity(s, r, n)
  PROVE  Accounted(a.pool)
<1> DEFINE open     == RemoveCodePageOfCapacity(s, Open(r), n)
           released == RemoveCodePageOfCapacity(s, Released, n)
<1>1. \/ a = Outcome(s, NULL)
      \/ \E b \in open : a = Outcome(Activate(b.pool, r, b.page, 0), b.page)
      \/ \E b \in released \cup NewCodePage(s, n) :
           a = Outcome(Activate(b.pool, r, b.page, 1), b.page)
  BY DEF AcquireCodePageWithCapacity
<1>3. ASSUME NEW b \in open
      PROVE  Accounted(Activate(b.pool, r, b.page, 0))
  <2>1. /\ Good(b.pool) /\ Nowhere(b.pool, b.page) /\ b.pool.active = s.active
        /\ SameCounters(s, b.pool)
        /\ \A m \in List : Len(b.pool.list[m]) = IF m = Open(r) THEN Len(s.list[m]) - 1
                                                  ELSE Len(s.list[m])
    BY ListHeads, RemoveCodePageGood
  <2>2. ASSUME NEW q \in Runtime, q # r
        PROVE  Listed(b.pool, q) = Listed(s, q)
    BY <2>1, <2>2, ListHeads DEF Listed
  <2>3. Listed(b.pool, r) + 1 = Listed(s, r)
    <3>1. /\ Len(b.pool.list[Open(r)]) = Len(s.list[Open(r)]) - 1
          /\ Len(b.pool.list[Full(r)]) = Len(s.list[Full(r)])
      BY <2>1, ListHeads
    <3> QED
      BY <3>1, ListedType DEF Listed
  <2>4. Listed(s, r) + 0 = Listed(s, r)
    BY ListedType
  <2> QED
    BY <2>1, <2>2, <2>3, <2>4, ActivateAccounted
<1>4. ASSUME NEW b \in released \cup NewCodePage(s, n)
      PROVE  Accounted(Activate(b.pool, r, b.page, 1))
  <2>1. /\ Good(b.pool) /\ Nowhere(b.pool, b.page) /\ b.pool.active = s.active
        /\ SameCounters(s, b.pool)
        /\ \A m \in List : m # Released => Len(b.pool.list[m]) = Len(s.list[m])
    BY ListHeads, RemoveCodePageGood, NewCodePageGood
  <2>2. ASSUME NEW q \in Runtime
        PROVE  Listed(b.pool, q) = Listed(s, q)
    BY <2>1, ListHeads DEF Listed
  <2> QED
    BY <2>1, <2>2, ActivateAccounted
<1> QED
  BY <1>1, <1>3, <1>4 DEF Outcome

LEMMA ReleaseAccounted ==
  ASSUME NEW s, Good(s), Accounted(s), NEW r \in Runtime, NEW p \in s.active[r]
  PROVE  Accounted(ReleaseCodePage(s, r, p))
<1> DEFINE t == ReleaseCodePage(s, r, p)
<1>1. PICK l \in {Open(r), Full(r)} :
        t = [s EXCEPT !.list               = [s.list EXCEPT ![l] = <<p>> \o s.list[l]],
                      !.numActiveCodePages = [s.numActiveCodePages EXCEPT ![r] = @ - 1],
                      !.active             = [s.active EXCEPT ![r] = @ \ {p}]]
  BY DEF ReleaseCodePage
<1>2. l \in List /\ s.list[l] \in Seq(Page) /\ p \in Page
  BY ListHeads DEF Good, PoolType
<1>3. Len(<<p>> \o s.list[l]) = Len(s.list[l]) + 1
  BY <1>2, PrependProperties
<1>4. /\ t.list = [s.list EXCEPT ![l] = <<p>> \o s.list[l]]
      /\ t.numCodePages = s.numCodePages
      /\ t.numActiveCodePages = [s.numActiveCodePages EXCEPT ![r] = @ - 1]
      /\ t.active = [s.active EXCEPT ![r] = @ \ {p}]
  BY <1>1 DEF Good, PoolType
<1> HIDE DEF t
<1>5. ASSUME NEW q \in Runtime
      PROVE  /\ q = r => /\ t.numActiveCodePages[q] = s.numActiveCodePages[q] - 1
                         /\ t.active[q] = s.active[q] \ {p}
             /\ q # r => /\ t.numActiveCodePages[q] = s.numActiveCodePages[q]
                         /\ t.active[q] = s.active[q]
  BY <1>4 DEF Good, PoolType
<1>6. ASSUME NEW m \in List
      PROVE  /\ m = l => Len(t.list[m]) = Len(s.list[m]) + 1
             /\ m # l => Len(t.list[m]) = Len(s.list[m])
  BY <1>3, <1>4 DEF Good, PoolType
<1>7. ASSUME NEW q \in Runtime, q # r
      PROVE  Listed(t, q) = Listed(s, q)
  <2>1. Open(q) # l /\ Full(q) # l /\ Open(q) \in List /\ Full(q) \in List
    BY <1>7, ListHeads
  <2> QED
    BY <1>6, <2>1 DEF Listed
<1>8. Listed(t, r) = Listed(s, r) + 1
  <2>1. /\ Len(s.list[Open(r)]) \in Int /\ Len(s.list[Full(r)]) \in Int
    BY ListedType
  <2>2. Open(r) # Full(r) /\ Open(r) \in List /\ Full(r) \in List
    BY ListHeads
  <2>3. CASE l = Open(r)
    <3>1. /\ Len(t.list[Open(r)]) = Len(s.list[Open(r)]) + 1
          /\ Len(t.list[Full(r)]) = Len(s.list[Full(r)])
      BY <1>6, <2>2, <2>3
    <3>2. \A x, y \in Int : (x + 1) + y = (x + y) + 1 /\ x + (y + 1) = (x + y) + 1
      OBVIOUS
    <3> QED
      BY <2>1, <3>1, <3>2 DEF Listed
  <2>4. CASE l = Full(r)
    <3>1. /\ Len(t.list[Full(r)]) = Len(s.list[Full(r)]) + 1
          /\ Len(t.list[Open(r)]) = Len(s.list[Open(r)])
      BY <1>6, <2>2, <2>4
    <3>2. \A x, y \in Int : (x + 1) + y = (x + y) + 1 /\ x + (y + 1) = (x + y) + 1
      OBVIOUS
    <3> QED
      BY <2>1, <3>1, <3>2 DEF Listed
  <2> QED
    BY <2>3, <2>4
<1>9. ASSUME NEW q \in Runtime
      PROVE  Listed(t, q) + t.numActiveCodePages[q] = t.numCodePages[q]
  <2>1. Listed(s, q) + s.numActiveCodePages[q] = s.numCodePages[q]
    BY AccountedListed DEF Accounted
  <2>2. Listed(s, q) \in Int /\ s.numActiveCodePages[q] \in Int
    BY ListedType
  <2>3. CASE q = r
    BY <1>4, <1>5, <1>8, <2>1, <2>2, <2>3
  <2>4. CASE q # r
    BY <1>4, <1>5, <1>7, <2>1, <2>4
  <2> QED
    BY <2>3, <2>4
<1>10. ASSUME NEW q \in Runtime
       PROVE  Cardinality(t.active[q]) = t.numActiveCodePages[q]
  <2>1. CASE q = r
    <3>1. IsFiniteSet(s.active[r])
      BY ActiveFinite
    <3>2. Cardinality(s.active[r] \ {p}) = Cardinality(s.active[r]) - 1
      BY <3>1, FS_RemoveElement
    <3> QED
      BY <1>5, <2>1, <3>2 DEF Accounted
  <2>2. CASE q # r
    BY <1>5, <2>2 DEF Accounted
  <2> QED
    BY <2>1, <2>2
<1> QED
  BY <1>9, <1>10, AccountedListed DEF Accounted, t

LEMMA Runtime_ReleaseAccounted ==
  ASSUME NEW s, Good(s), Accounted(s), NEW r \in Runtime
  PROVE  Accounted(Runtime_Release(s, r))
<1> DEFINE s1 == Environment_ReleaseCodePages(s, Open(r))
           s2 == Environment_ReleaseCodePages(s1, Full(r))
           t  == Runtime_Release(s, r)
<1>1. /\ Good(s1) /\ s1.active = s.active /\ SameCounters(s, s1)
      /\ \A m \in List \ {Released} : s1.list[m] = IF m = Open(r) THEN <<>> ELSE s.list[m]
  BY ListHeads, ReleaseCodePagesGood
<1>2. /\ Good(s2) /\ s2.active = s1.active /\ SameCounters(s1, s2)
      /\ \A m \in List \ {Released} : s2.list[m] = IF m = Full(r) THEN <<>> ELSE s1.list[m]
  BY <1>1, ListHeads, ReleaseCodePagesGood
<1>3. t = [s2 EXCEPT !.numCodePages[r] = 0, !.numActiveCodePages[r] = 0, !.active[r] = {}]
  BY DEF Runtime_Release
<1> HIDE DEF s1, s2, t
<1>4. /\ t.list = s2.list
      /\ t.numCodePages = [s.numCodePages EXCEPT ![r] = 0]
      /\ t.numActiveCodePages = [s.numActiveCodePages EXCEPT ![r] = 0]
      /\ t.active = [s.active EXCEPT ![r] = {}]
  BY <1>1, <1>2, <1>3 DEF Good, PoolType, SameCounters
<1>5. ASSUME NEW q \in Runtime, q # r
      PROVE  Listed(t, q) = Listed(s, q)
  BY <1>1, <1>2, <1>4, <1>5, ListHeads DEF Listed
<1>6. Listed(t, r) = 0
  <2>1. /\ Open(r) \in List \ {Released} /\ Full(r) \in List \ {Released}
        /\ Open(r) # Full(r)
    BY ListHeads
  <2>2. t.list[Open(r)] = <<>> /\ t.list[Full(r)] = <<>>
    BY <1>1, <1>2, <1>4, <2>1
  <2> QED
    BY <2>2 DEF Listed
<1>7. ASSUME NEW q \in Runtime
      PROVE  /\ Listed(t, q) + t.numActiveCodePages[q] = t.numCodePages[q]
             /\ Cardinality(t.active[q]) = t.numActiveCodePages[q]
  <2>1. CASE q = r
    <3>1. /\ t.numCodePages[q] = 0 /\ t.numActiveCodePages[q] = 0 /\ t.active[q] = {}
      BY <1>4, <2>1 DEF Good, PoolType
    <3> QED
      BY <1>6, <2>1, <3>1, FS_EmptySet
  <2>2. CASE q # r
    <3>1. /\ t.numCodePages[q] = s.numCodePages[q] /\ t.active[q] = s.active[q]
          /\ t.numActiveCodePages[q] = s.numActiveCodePages[q]
      BY <1>4, <2>2 DEF Good, PoolType
    <3>2. /\ Listed(s, q) + s.numActiveCodePages[q] = s.numCodePages[q]
          /\ Cardinality(s.active[q]) = s.numActiveCodePages[q]
      BY AccountedListed DEF Accounted
    <3> QED
      BY <1>5, <2>2, <3>1, <3>2
  <2> QED
    BY <2>1, <2>2
<1> QED
  BY <1>7, AccountedListed DEF Accounted, t

LEMMA Environment_ReleaseAccounted ==
  ASSUME NEW s, Good(s), Accounted(s)
  PROVE  Accounted(Environment_Release(s))
<1> DEFINE t == Environment_Release(s)
<1>1. /\ SameCounters(s, t) /\ t.active = s.active
      /\ t.list = [s.list EXCEPT ![Released] = <<>>]
  BY DEF Environment_Release, Good, PoolType, SameCounters
<1> HIDE DEF t
<1>2. ASSUME NEW q \in Runtime
      PROVE  Listed(t, q) = Listed(s, q)
  BY <1>1, ListHeads DEF Listed, Good, PoolType
<1> QED
  BY <1>1, <1>2, AccountedListed DEF Accounted, SameCounters, t

\* The pool to begin with.
LEMMA EmptyPoolGood == Good(EmptyPool) /\ Accounted(EmptyPool)
<1> DEFINE s == EmptyPool
<1>1. /\ <<>> \in Seq(Page) /\ <<>> \in Seq(Word) /\ Len(<<>>) = 0
      /\ 0 \in 0 .. MaxPages
  BY PageAssumption
<1>2. s \in PoolType
  BY <1>1 DEF EmptyPool, PoolType
<1>3. /\ \A l \in List : Len(s.list[l]) = 0
      /\ \A r \in Runtime : s.active[r] = {} /\ s.numActiveCodePages[r] = 0
                            /\ s.numCodePages[r] = 0
  BY DEF EmptyPool
<1>4. OnePlace(s)
  <2> HIDE DEF s
  <2>1. \A l \in List : 1 .. Len(s.list[l]) = {}
    BY <1>3
  <2> QED
    BY <1>3, <2>1 DEF OnePlace
<1>5. Accounted(s)
  <2> HIDE DEF s
  <2>1. ASSUME NEW q \in Runtime
        PROVE  Listed(s, q) + s.numActiveCodePages[q] = s.numCodePages[q]
    <3>1. Len(s.list[Open(q)]) = 0 /\ Len(s.list[Full(q)]) = 0
      BY <1>3, ListHeads
    <3> QED
      BY <1>3, <3>1 DEF Listed
  <2>2. ASSUME NEW q \in Runtime
        PROVE  Cardinality(s.active[q]) = s.numActiveCodePages[q]
    BY <1>3, FS_EmptySet
  <2>3. CountersAgreeOn(s)
    BY <2>1, AccountedListed
  <2> QED
    BY <2>2, <2>3 DEF Accounted
<1> QED
  BY <1>2, <1>4, <1>5 DEF Good

-----------------------------------------------------------------------------
(* The compiler                                                            *)

\* The pages kept in savedPage by the open blocks ss.
HeldPages(ss) == {ss[i].saved : i \in {k \in 1 .. Len(ss) : ss[k].saved # NULL}}

\* How the open blocks are nested, and that each saved page is kept once.
ScopesOk(ss) ==
  /\ ss \in Seq(Scope) /\ Len(ss) >= 1
  /\ \A i \in 1 .. Len(ss) : ss[i].opcode \in {"function", "expression"} <=> i = 1
  /\ \A i \in 1 .. Len(ss) : ss[i].opcode \in {"else", "target"} => ss[i].saved # NULL
  /\ \A i \in 1 .. Len(ss) :
       ss[i].opcode = "target" => i > 1 /\ ss[i - 1].opcode = "targets"
  /\ \A i \in 1 .. Len(ss) : ss[i].opcode = "targets" => ss[i].left >= 1
  /\ \A i, k \in 1 .. Len(ss) :
       ss[i].saved # NULL /\ ss[i].saved = ss[k].saved => i = k

\* A runtime r writes to page p of pool s and keeps the pages of H for later.
Owns(s, r, p, H) ==
  /\ Good(s) /\ Accounted(s)
  /\ p \in s.active[r] /\ H \subseteq s.active[r] \ {p}

\* The inductive invariant.
IInv ==
  /\ Good(pool) /\ Accounted(pool)
  /\ live \subseteq Runtime \ {Scratch}
  /\ compiled \in [Function \cup Import -> {NULL} \cup [job : Nat, pc : PC]]
  /\ ignored \in BOOLEAN /\ job \in Nat /\ steps \in Nat
  /\ o \in {NULL} \cup CompilationType
  /\ o # NULL => /\ ScopesOk(o.scopes)
                 /\ Owns(pool, o.runtime, o.page, HeldPages(o.scopes))

-----------------------------------------------------------------------------
(* Blocks                                                                  *)

LEMMA ScopeType ==
  ASSUME NEW ss, ScopesOk(ss), NEW i \in 1 .. Len(ss)
  PROVE  /\ ss[i] \in Scope /\ Len(ss) \in Nat /\ i \in Nat
         /\ ss[i].saved \in Page \cup {NULL} /\ ss[i].left \in Nat
         /\ ss[i].patches \subseteq PC /\ ss[i].pc \in PC
         /\ ss[i].saved # NULL => ss[i].saved \in HeldPages(ss)
<1>1. ss[i] \in Scope /\ Len(ss) \in Nat /\ i \in Nat
  BY DEF ScopesOk
<1> QED
  BY <1>1 DEF Scope, HeldPages

\* A block opened inside the others.
LEMMA AppendScope ==
  ASSUME NEW ss, ScopesOk(ss), NEW sc \in Scope,
         sc.opcode \notin {"function", "expression"},
         sc.opcode \in {"else", "target"} => sc.saved # NULL,
         sc.opcode = "target" => ss[Len(ss)].opcode = "targets",
         sc.opcode = "targets" => sc.left >= 1,
         sc.saved \notin HeldPages(ss)
  PROVE  /\ ScopesOk(Append(ss, sc))
         /\ HeldPages(Append(ss, sc)) \subseteq HeldPages(ss) \cup {sc.saved}
         /\ sc.saved = NULL => HeldPages(Append(ss, sc)) \subseteq HeldPages(ss)
<1> DEFINE ts == Append(ss, sc)
<1>1. ss \in Seq(Scope) /\ Len(ss) \in Nat /\ Len(ss) >= 1
  BY DEF ScopesOk
<1>2. /\ ts \in Seq(Scope) /\ Len(ts) = Len(ss) + 1
      /\ \A i \in 1 .. Len(ss) : ts[i] = ss[i]
      /\ ts[Len(ss) + 1] = sc
  BY <1>1, AppendProperties
<1> HIDE DEF ts
<1>3. ASSUME NEW i \in 1 .. Len(ts)
      PROVE  /\ i \in Int
             /\ \/ i \in 1 .. Len(ss) /\ ts[i] = ss[i]
                \/ i = Len(ss) + 1 /\ ts[i] = sc
  BY <1>1, <1>2
<1>4. ASSUME NEW i \in 1 .. Len(ts)
      PROVE  /\ ts[i].opcode \in {"function", "expression"} <=> i = 1
             /\ ts[i].opcode \in {"else", "target"} => ts[i].saved # NULL
             /\ ts[i].opcode = "target" => i > 1 /\ ts[i - 1].opcode = "targets"
             /\ ts[i].opcode = "targets" => ts[i].left >= 1
  <2>1. CASE i \in 1 .. Len(ss) /\ ts[i] = ss[i]
    <3>1. i > 1 => i - 1 \in 1 .. Len(ss)
      BY <1>1, <2>1
    <3> QED
      BY <1>2, <2>1, <3>1 DEF ScopesOk
  <2>2. CASE i = Len(ss) + 1 /\ ts[i] = sc
    <3>1. i > 1 /\ i - 1 = Len(ss) /\ Len(ss) \in 1 .. Len(ss)
      BY <1>1, <2>2
    <3> QED
      BY <1>2, <2>2, <3>1
  <2> QED
    BY <1>3, <2>1, <2>2
<1>5. ASSUME NEW i \in 1 .. Len(ts), NEW k \in 1 .. Len(ts),
             ts[i].saved # NULL, ts[i].saved = ts[k].saved
      PROVE  i = k
  <2>1. CASE i \in 1 .. Len(ss) /\ ts[i] = ss[i]
    <3>1. ts[i].saved \in HeldPages(ss)
      BY <1>5, <2>1 DEF HeldPages
    <3>2. k \in 1 .. Len(ss) /\ ts[k] = ss[k]
      BY <1>3, <1>5, <3>1
    <3> QED
      BY <1>5, <2>1, <3>2 DEF ScopesOk
  <2>2. CASE i = Len(ss) + 1 /\ ts[i] = sc
    <3>1. ASSUME k \in 1 .. Len(ss) /\ ts[k] = ss[k]
          PROVE  FALSE
      BY <1>5, <2>2, <3>1 DEF HeldPages
    <3> QED
      BY <1>3, <2>2, <3>1
  <2> QED
    BY <1>3, <2>1, <2>2
<1>6. ScopesOk(ts)
  BY <1>1, <1>2, <1>4, <1>5 DEF ScopesOk
<1>7. ASSUME NEW i \in 1 .. Len(ts), ts[i].saved # NULL
      PROVE  ts[i].saved \in HeldPages(ss) \/ ts[i].saved = sc.saved
  BY <1>3, <1>7 DEF HeldPages
<1>8. HeldPages(ts) \subseteq HeldPages(ss) \cup {sc.saved}
  BY <1>7 DEF HeldPages
<1>9. NULL \notin HeldPages(ts)
  BY DEF HeldPages
<1> QED
  BY <1>6, <1>8, <1>9 DEF ts

\* The blocks outside the n innermost ones.
LEMMA OuterScopes ==
  ASSUME NEW ss, ScopesOk(ss), NEW n \in 1 .. Len(ss)
  PROVE  /\ ScopesOk(SubSeq(ss, 1, n)) /\ Len(SubSeq(ss, 1, n)) = n
         /\ \A i \in 1 .. n : SubSeq(ss, 1, n)[i] = ss[i]
         /\ HeldPages(SubSeq(ss, 1, n)) \subseteq HeldPages(ss)
         /\ \A i \in n + 1 .. Len(ss) :
              ss[i].saved # NULL => ss[i].saved \notin HeldPages(SubSeq(ss, 1, n))
<1> DEFINE ts == SubSeq(ss, 1, n)
<1>1. ss \in Seq(Scope) /\ Len(ss) \in Nat
  BY DEF ScopesOk
<1>2. /\ ts \in Seq(Scope) /\ Len(ts) = n
      /\ \A i \in 1 .. n : ts[i] = ss[i] /\ i \in 1 .. Len(ss)
  BY <1>1
<1> HIDE DEF ts
<1>3. ASSUME NEW i \in 1 .. n
      PROVE  /\ ts[i].opcode \in {"function", "expression"} <=> i = 1
             /\ ts[i].opcode \in {"else", "target"} => ts[i].saved # NULL
             /\ ts[i].opcode = "target" => i > 1 /\ ts[i - 1].opcode = "targets"
             /\ ts[i].opcode = "targets" => ts[i].left >= 1
  <2>1. i > 1 => i - 1 \in 1 .. n
    OBVIOUS
  <2> QED
    BY <1>2, <2>1 DEF ScopesOk
<1>4. \A i, k \in 1 .. n : ts[i].saved # NULL /\ ts[i].saved = ts[k].saved => i = k
  BY <1>2 DEF ScopesOk
<1>5. ScopesOk(ts)
  BY <1>2, <1>3, <1>4 DEF ScopesOk
<1>6. HeldPages(ts) \subseteq HeldPages(ss)
  BY <1>2 DEF HeldPages
<1>7. ASSUME NEW i \in n + 1 .. Len(ss), ss[i].saved # NULL, ss[i].saved \in HeldPages(ts)
      PROVE  FALSE
  <2>1. PICK k \in 1 .. n : ss[i].saved = ss[k].saved
    BY <1>2, <1>7 DEF HeldPages
  <2>2. i \in 1 .. Len(ss) /\ k \in 1 .. Len(ss) /\ i # k
    BY <1>1
  <2> QED
    BY <1>7, <2>1, <2>2 DEF ScopesOk
<1> QED
  BY <1>2, <1>5, <1>6, <1>7 DEF ts

\* A pointer added to the patches of a block.
LEMMA PatchScope ==
  ASSUME NEW ss, ScopesOk(ss), NEW t \in 1 .. Len(ss), NEW pc \in PC
  PROVE  LET ts == [ss EXCEPT ![t].patches = @ \cup {pc}]
         IN  /\ ScopesOk(ts) /\ Len(ts) = Len(ss) /\ HeldPages(ts) = HeldPages(ss)
             /\ \A i \in 1 .. Len(ss) : /\ ts[i].opcode = ss[i].opcode
                                        /\ ts[i].saved = ss[i].saved
                                        /\ ts[i].left = ss[i].left
<1> DEFINE sc == [ss[t] EXCEPT !.patches = @ \cup {pc}]
           ts == [ss EXCEPT ![t] = sc]
<1>1. /\ ss \in Seq(Scope) /\ ss[t] \in Scope
  BY DEF ScopesOk
<1>2. /\ sc \in Scope /\ sc.opcode = ss[t].opcode /\ sc.saved = ss[t].saved
      /\ sc.left = ss[t].left
  BY <1>1 DEF Scope
<1> HIDE DEF sc
<1>3. /\ ts \in Seq(Scope) /\ Len(ts) = Len(ss)
      /\ \A i \in 1 .. Len(ss) : ts[i] = IF i = t THEN sc ELSE ss[i]
  BY <1>1, <1>2, ExceptSeq
<1> HIDE DEF ts
<1>4. \A i \in 1 .. Len(ss) : /\ ts[i].opcode = ss[i].opcode
                              /\ ts[i].saved = ss[i].saved
                              /\ ts[i].left = ss[i].left
  BY <1>2, <1>3
<1>5. HeldPages(ts) = HeldPages(ss)
  BY <1>3, <1>4 DEF HeldPages
<1>6. ASSUME NEW i \in 1 .. Len(ts)
      PROVE  /\ ts[i].opcode \in {"function", "expression"} <=> i = 1
             /\ ts[i].opcode \in {"else", "target"} => ts[i].saved # NULL
             /\ ts[i].opcode = "target" => i > 1 /\ ts[i - 1].opcode = "targets"
             /\ ts[i].opcode = "targets" => ts[i].left >= 1
  <2>1. i \in 1 .. Len(ss) /\ (i > 1 => i - 1 \in 1 .. Len(ss))
    BY <1>1, <1>3
  <2> QED
    BY <1>4, <2>1 DEF ScopesOk
<1>7. ScopesOk(ts)
  BY <1>3, <1>4, <1>6 DEF ScopesOk
<1> QED
  BY <1>3, <1>4, <1>5, <1>7 DEF ts, sc

-----------------------------------------------------------------------------
(* The emitter                                                             *)

EmitterOk(e, r, H) ==
  /\ e \in [pool : PoolType, page : Page, failed : BOOLEAN]
  /\ Owns(e.pool, r, e.page, H)

LEMMA EmitterFacts ==
  ASSUME NEW e, NEW r, NEW H, EmitterOk(e, r, H)
  PROVE  /\ e.page \in Page /\ e.pool \in PoolType /\ e.failed \in BOOLEAN
         /\ Owns(e.pool, r, e.page, H) /\ Good(e.pool) /\ Accounted(e.pool)
         /\ \A s \in PoolType : Owns(s, r, e.page, H) =>
              /\ EmitterOk([e EXCEPT !.pool = s], r, H)
              /\ [e EXCEPT !.pool = s].page = e.page /\ [e EXCEPT !.pool = s].pool = s
              /\ [e EXCEPT !.pool = s].failed = e.failed
         /\ \A b \in BOOLEAN : EmitterOk([e EXCEPT !.failed = b], r, H)
<1>1. /\ e \in [pool : PoolType, page : Page, failed : BOOLEAN]
      /\ Owns(e.pool, r, e.page, H)
  BY DEF EmitterOk
<1>2. Good(e.pool) /\ Accounted(e.pool)
  BY <1>1 DEF Owns
<1>3. ASSUME NEW s \in PoolType, Owns(s, r, e.page, H)
      PROVE  /\ EmitterOk([e EXCEPT !.pool = s], r, H)
             /\ [e EXCEPT !.pool = s].page = e.page /\ [e EXCEPT !.pool = s].pool = s
             /\ [e EXCEPT !.pool = s].failed = e.failed
  BY <1>1, <1>3 DEF EmitterOk
<1>4. ASSUME NEW b \in BOOLEAN
      PROVE  EmitterOk([e EXCEPT !.failed = b], r, H)
  BY <1>1 DEF EmitterOk
<1> QED
  BY <1>1, <1>2, <1>3, <1>4

LEMMA PCType ==
  ASSUME NEW s \in PoolType, NEW p \in Page
  PROVE  /\ GetPagePC(s, p) \in PC
         /\ Len(s.code[p]) > 0 => LastPC(s, p) \in PC
<1>1. Len(s.code[p]) \in Nat
  BY DEF PoolType
<1> QED
  BY <1>1 DEF GetPagePC, LastPC, PC

LEMMA WordTypes ==
  ASSUME NEW j \in Nat, NEW pc \in PC \cup {Unpatched}
  PROVE  /\ Plain(j) \in Word /\ Stop(j) \in Word
         /\ Jump(j, pc) \in Word /\ Fork(j, pc) \in Word
         /\ [Jump(j, pc) EXCEPT !.falls = TRUE] \in Word
         /\ [Jump(j, pc) EXCEPT !.falls = FALSE] \in Word
         /\ \A n \in Nat : PlainWords(j, n) \in Seq(Word) /\ Len(PlainWords(j, n)) = n
<1>1. /\ Plain(j) \in Word /\ Stop(j) \in Word
      /\ Jump(j, pc) \in Word /\ Fork(j, pc) \in Word
  BY DEF Plain, Stop, Jump, Fork, Word
<1>2. /\ [Jump(j, pc) EXCEPT !.falls = TRUE] \in Word
      /\ [Jump(j, pc) EXCEPT !.falls = FALSE] \in Word
  BY <1>1 DEF Word
<1>3. ASSUME NEW n \in Nat
      PROVE  PlainWords(j, n) \in Seq(Word) /\ Len(PlainWords(j, n)) = n
  <2> DEFINE w == Plain(j)
             ws == [i \in 1 .. n |-> w]
  <2>1. w \in Word
    BY <1>1
  <2> HIDE DEF w
  <2>2. ws \in Seq(Word) /\ Len(ws) = n
    BY <2>1
  <2> QED
    BY <2>2 DEF PlainWords, w
<1> QED
  BY <1>1, <1>2, <1>3

LEMMA EmitterGives ==
  ASSUME NEW r \in Runtime, NEW s, NEW p \in Page, NEW H, Owns(s, r, p, H)
  PROVE  EmitterOk(Emitter(s, p), r, H)
BY DEF EmitterOk, Emitter, Owns, Good

\* Writing, or setting pointers, moves no page.
LEMMA WriteOwns ==
  ASSUME NEW r \in Runtime, NEW s, NEW p \in Page, NEW H, Owns(s, r, p, H),
         NEW q \in Page, NEW words \in Seq(Word)
  PROVE  Owns(EmitWords(s, q, words), r, p, H)
BY EmitWordsGood, SameAccounted DEF Owns, SamePlaces

LEMMA PatchOwns ==
  ASSUME NEW r \in Runtime, NEW s, NEW p \in Page, NEW H, Owns(s, r, p, H),
         NEW pcs, NEW target \in PC
  PROVE  Owns(SetPointers(s, pcs, target), r, p, H)
BY SetPointersGood, SameAccounted DEF Owns, SamePlaces

\* A page acquired is none of those that are held already.
LEMMA AcquireOwns ==
  ASSUME NEW r \in Runtime, NEW s, NEW p \in Page, NEW H, Owns(s, r, p, H),
         NEW n \in Nat, NEW a \in AcquireCodePageWithCapacity(s, r, n)
  PROVE  /\ a.page = NULL => Owns(a.pool, r, p, H)
         /\ a.page # NULL => /\ a.page \in Page /\ a.page \notin H /\ p \notin H
                             /\ Owns(a.pool, r, p, H \cup {a.page})
                             /\ Owns(a.pool, r, a.page, H \cup {p})
<1>1. NULL \notin Page
  BY CompilationAssumption
<1>2. Good(a.pool) /\ Accounted(a.pool)
  BY <1>1, AcquireGood, AcquireAccounted DEF Owns
<1>3. CASE a.page = NULL
  BY <1>1, <1>3, AcquireGood DEF Owns
<1>4. CASE a.page # NULL
  <2>1. /\ a.page \in Page /\ a.page \notin s.active[r]
        /\ a.pool.active = [s.active EXCEPT ![r] = @ \cup {a.page}]
    BY <1>1, <1>4, AcquireGood DEF Owns
  <2>2. a.pool.active[r] = s.active[r] \cup {a.page}
    BY <2>1 DEF Owns, Good, PoolType
  <2> QED
    BY <1>2, <1>4, <2>1, <2>2 DEF Owns
<1> QED
  BY <1>3, <1>4

\* The page a runtime writes to is released, and it goes on with a held one.
LEMMA ReleaseOwns ==
  ASSUME NEW r \in Runtime, NEW s, NEW p \in Page, NEW H, Owns(s, r, p, H)
  PROVE  /\ Good(ReleaseCodePage(s, r, p)) /\ Accounted(ReleaseCodePage(s, r, p))
         /\ \A q \in H : \A K \in SUBSET H :
              q \notin K => Owns(ReleaseCodePage(s, r, p), r, q, K)
<1> DEFINE t == ReleaseCodePage(s, r, p)
<1>1. /\ Good(t) /\ Accounted(t) /\ t.active = [s.active EXCEPT ![r] = @ \ {p}]
  BY ReleaseGood, ReleaseAccounted DEF Owns
<1> HIDE DEF t
<1>2. t.active[r] = s.active[r] \ {p}
  BY <1>1 DEF Owns, Good, PoolType
<1>3. ASSUME NEW q \in H, NEW K \in SUBSET H, q \notin K
      PROVE  Owns(t, r, q, K)
  BY <1>1, <1>2, <1>3 DEF Owns
<1> QED
  BY <1>1, <1>3 DEF t

LEMMA EnsureOk ==
  ASSUME NEW r \in Runtime, NEW j \in Nat, NEW H, NEW e, EmitterOk(e, r, H), NEW n \in Nat,
         NEW x \in EnsureCodePageNumLines(e, r, j, n)
  PROVE  EmitterOk(x, r, H)
<1>1. CASE x = e
  BY <1>1
<1>2. CASE \E a \in AcquireCodePageWithCapacity(e.pool, r, n + 2) :
             x = IF a.page = NULL THEN [e EXCEPT !.failed = TRUE] ELSE Bridge(e, r, j, a)
  <2>1. PICK a \in AcquireCodePageWithCapacity(e.pool, r, n + 2) :
               x = IF a.page = NULL THEN [e EXCEPT !.failed = TRUE] ELSE Bridge(e, r, j, a)
    BY <1>2
  <2>2. CASE a.page = NULL
    BY <2>1, <2>2, EmitterFacts
  <2>3. CASE a.page # NULL
    <3> DEFINE words == <<Plain(j), Jump(j, GetPagePC(a.pool, a.page))>>
               bridged == EmitWords(a.pool, e.page, words)
    <3>1. /\ a.page \in Page /\ e.page \in Page /\ a.page \notin H
          /\ Owns(a.pool, r, e.page, H \cup {a.page})
      <4>1. PICK m \in Nat : a \in AcquireCodePageWithCapacity(e.pool, r, m)
        OBVIOUS
      <4>2. e.page \in Page /\ Owns(e.pool, r, e.page, H)
        BY EmitterFacts
      <4> QED
        BY <2>3, <4>1, <4>2, AcquireOwns, ZenonT(40)
    <3>2. GetPagePC(a.pool, a.page) \in PC
      BY <3>1, PCType DEF Owns, Good
    <3>3. words \in Seq(Word)
      <4>1. Plain(j) \in Word /\ Jump(j, GetPagePC(a.pool, a.page)) \in Word
        BY <3>2, WordTypes
      <4> QED
        BY <4>1
    <3> HIDE DEF words
    <3>4. Owns(bridged, r, e.page, H \cup {a.page})
      BY <3>1, <3>3, WriteOwns
    <3> HIDE DEF bridged
    <3>5. Owns(ReleaseCodePage(bridged, r, e.page), r, a.page, H)
      BY <3>1, <3>4, ReleaseOwns
    <3>6. x = Emitter(ReleaseCodePage(bridged, r, e.page), a.page)
      BY <2>1, <2>3 DEF Bridge, bridged, words
    <3> QED
      BY <3>1, <3>5, <3>6, EmitterGives
  <2> QED
    BY <2>2, <2>3
<1> QED
  BY <1>1, <1>2 DEF EnsureCodePageNumLines

LEMMA EmitOpOk ==
  ASSUME NEW r \in Runtime, NEW j \in Nat, NEW H, NEW e, EmitterOk(e, r, H),
         NEW words \in Seq(Word), NEW x \in EmitOp(e, r, j, words)
  PROVE  /\ EmitterOk(x, r, H)
         /\ ~x.failed /\ Len(words) > 0 => LastPC(x.pool, x.page) \in PC
<1>1. FreeLinesThreshold \in Nat
  BY DEF FreeLinesThreshold
<1>2. PICK y \in EnsureCodePageNumLines(e, r, j, FreeLinesThreshold) :
        x = IF y.failed THEN y ELSE [y EXCEPT !.pool = EmitWords(y.pool, y.page, words)]
  BY DEF EmitOp
<1>3. EmitterOk(y, r, H)
  BY <1>1, EnsureOk
<1>4. CASE y.failed
  BY <1>2, <1>3, <1>4
<1>5. CASE ~y.failed
  <2>1. x = [y EXCEPT !.pool = EmitWords(y.pool, y.page, words)]
    BY <1>2, <1>5
  <2>2. /\ Owns(EmitWords(y.pool, y.page, words), r, y.page, H)
        /\ EmitWords(y.pool, y.page, words) \in PoolType
    <3>1. y.page \in Page /\ Owns(y.pool, r, y.page, H)
      BY <1>3, EmitterFacts
    <3>2. Owns(EmitWords(y.pool, y.page, words), r, y.page, H)
      BY <3>1, WriteOwns
    <3> QED
      BY <3>2 DEF Owns, Good
  <2>3. Len(EmitWords(y.pool, y.page, words).code[y.page])
          = Len(y.pool.code[y.page]) + Len(words)
    <3> DEFINE s == y.pool
               p == y.page
    <3>1. Good(s) /\ p \in Page
      BY <1>3, EmitterFacts
    <3> HIDE DEF s, p
    <3>2. Len(EmitWords(s, p, words).code[p]) = Len(s.code[p]) + Len(words)
      BY <3>1, EmitWordsGood
    <3> QED
      BY <3>2 DEF s, p
  <2>4. x.page = y.page /\ x.pool = EmitWords(y.pool, y.page, words) /\ EmitterOk(x, r, H)
    BY <1>3, <2>1, <2>2, EmitterFacts
  <2>5. Len(words) > 0 => LastPC(x.pool, x.page) \in PC
    <3>1. Len(y.pool.code[y.page]) \in Nat /\ Len(words) \in Nat /\ y.page \in Page
      BY <1>3, SMTT(40) DEF EmitterOk, Owns, Good, PoolType
    <3> QED
      BY <2>3, <2>4, <3>1 DEF LastPC, PC
  <2> QED
    BY <2>4, <2>5
<1> QED
  BY <1>4, <1>5

LEMMA PreserveOk ==
  ASSUME NEW r \in Runtime, NEW j \in Nat, NEW H, NEW e, EmitterOk(e, r, H), NEW n \in {0, 1},
         NEW x \in PreserveArgsAndLocals(e, r, j, n)
  PROVE  /\ EmitterOk(x, r, H)
         /\ EmitterOk([x EXCEPT !.failed = FALSE], r, H)
<1>1. PlainWords(j, 2) \in Seq(Word) /\ PlainWords(j, 3) \in Seq(Word)
  BY WordTypes
<1>2. EmitterOk(x, r, H)
  <2>1. CASE n = 0
    BY <2>1 DEF PreserveArgsAndLocals
  <2>2. CASE n # 0
    <3>1. PICK y \in EmitOp(e, r, j, PlainWords(j, 3)) :
            x = IF y.failed THEN [y EXCEPT !.pool = EmitWords(y.pool, y.page, PlainWords(j, 2))]
                ELSE y
      BY <2>2 DEF PreserveArgsAndLocals
    <3>2. EmitterOk(y, r, H)
      BY <1>1, EmitOpOk
    <3>3. /\ Owns(EmitWords(y.pool, y.page, PlainWords(j, 2)), r, y.page, H)
          /\ EmitWords(y.pool, y.page, PlainWords(j, 2)) \in PoolType
      <4>1. y.page \in Page /\ Owns(y.pool, r, y.page, H)
        BY <3>2, EmitterFacts
      <4>2. Owns(EmitWords(y.pool, y.page, PlainWords(j, 2)), r, y.page, H)
        BY <1>1, <4>1, WriteOwns
      <4> QED
        BY <4>2 DEF Owns, Good
    <3> QED
      BY <3>1, <3>2, <3>3, EmitterFacts
  <2> QED
    BY <2>1, <2>2
<1> QED
  BY <1>2, EmitterFacts

-----------------------------------------------------------------------------
(* What the steps have in common                                           *)

LEMMA InProgress ==
  ASSUME IInv, o # NULL
  PROVE  /\ o \in CompilationType /\ o.runtime \in Runtime /\ o.job \in Nat
         /\ o.page \in Page /\ o.pc \in PC /\ o.fn \in Function \cup {NULL}
         /\ ScopesOk(o.scopes) /\ Top \in 1 .. Top /\ Top \in Nat
         /\ Owns(pool, o.runtime, o.page, HeldPages(o.scopes))
         /\ EmitterOk(Start, o.runtime, HeldPages(o.scopes))
<1>1. /\ o \in CompilationType /\ ScopesOk(o.scopes)
      /\ Owns(pool, o.runtime, o.page, HeldPages(o.scopes))
  BY DEF IInv
<1>2. /\ o.runtime \in Runtime /\ o.job \in Nat /\ o.page \in Page
      /\ o.pc \in PC /\ o.fn \in Function \cup {NULL}
  BY <1>1 DEF CompilationType
<1>3. Top \in Nat /\ Top \in 1 .. Top
  BY <1>1 DEF ScopesOk, Top
<1> QED
  BY <1>1, <1>2, <1>3, EmitterGives DEF Start

LEMMA AbandonOk ==
  ASSUME IInv, o # NULL, NEW e, NEW H, EmitterOk(e, o.runtime, H), Abandon(e),
         live' = live, ignored' \in BOOLEAN, job' = job, steps' \in Nat
  PROVE  IInv'
<1> DEFINE s == ReleaseCodePage(e.pool, o.runtime, e.page)
<1>1. o.runtime \in Runtime /\ e.page \in Page /\ Owns(e.pool, o.runtime, e.page, H)
  BY InProgress, EmitterFacts
<1>2. Good(s) /\ Accounted(s)
  BY <1>1, ReleaseOwns
<1> HIDE DEF s
<1>3. Good(Runtime_Release(s, Scratch)) /\ Accounted(Runtime_Release(s, Scratch))
  BY <1>2, CompilationAssumption, Runtime_ReleaseGood, Runtime_ReleaseAccounted
<1>4. /\ pool' = IF o.fn = NULL THEN Runtime_Release(s, Scratch) ELSE s
      /\ o' = NULL /\ compiled' = compiled
  BY DEF Abandon, s
<1>5. Good(pool') /\ Accounted(pool')
  BY <1>2, <1>3, <1>4
<1> QED
  BY <1>4, <1>5 DEF IInv

LEMMA ContinueOk ==
  ASSUME IInv, o # NULL, NEW e, NEW H, EmitterOk(e, o.runtime, H), NEW c, Continue(e, c),
         ~e.failed => /\ c \in CompilationType /\ c.runtime = o.runtime
                      /\ ScopesOk(c.scopes) /\ HeldPages(c.scopes) \subseteq H,
         live' = live, ignored' \in BOOLEAN, job' = job, steps' \in Nat
  PROVE  IInv'
<1>1. CASE e.failed
  <2>1. Abandon(e)
    BY <1>1 DEF Continue
  <2> QED
    BY <2>1, AbandonOk
<1>2. CASE ~e.failed
  <2>1. /\ pool' = e.pool /\ o' = [c EXCEPT !.page = e.page] /\ compiled' = compiled
    BY <1>2 DEF Continue
  <2>2. e.page \in Page /\ Owns(e.pool, o.runtime, e.page, H)
    BY EmitterFacts
  <2>3. /\ o' \in CompilationType /\ o'.page = e.page
        /\ o'.runtime = o.runtime /\ o'.scopes = c.scopes
    BY <1>2, <2>1, <2>2 DEF CompilationType
  <2>4. Owns(pool', o'.runtime, o'.page, HeldPages(o'.scopes))
    BY <1>2, <2>1, <2>2, <2>3 DEF Owns
  <2>5. Good(pool') /\ Accounted(pool')
    BY <2>4 DEF Owns
  <2> QED
    BY <1>2, <2>1, <2>3, <2>4, <2>5 DEF IInv
<1> QED
  BY <1>1, <1>2

\* A compilation that goes on with other scopes.
LEMMA WithScopes ==
  ASSUME NEW c \in CompilationType, NEW ss, ScopesOk(ss)
  PROVE  /\ [c EXCEPT !.scopes = ss] \in CompilationType
         /\ [c EXCEPT !.scopes = ss].runtime = c.runtime
         /\ [c EXCEPT !.scopes = ss].scopes = ss
<1>1. ss \in Seq(Scope)
  BY DEF ScopesOk
<1> QED
  BY <1>1 DEF CompilationType

LEMMA WithScopesAndDead ==
  ASSUME NEW c \in CompilationType, NEW ss, ScopesOk(ss), NEW d \in BOOLEAN
  PROVE  /\ [c EXCEPT !.scopes = ss, !.dead = d] \in CompilationType
         /\ [c EXCEPT !.scopes = ss, !.dead = d].runtime = c.runtime
         /\ [c EXCEPT !.scopes = ss, !.dead = d].scopes = ss
<1>1. ss \in Seq(Scope)
  BY DEF ScopesOk
<1> QED
  BY <1>1 DEF CompilationType

LEMMA WithPatchOk ==
  ASSUME NEW c \in CompilationType, ScopesOk(c.scopes), NEW t \in 1 .. Len(c.scopes),
         NEW e, LastPC(e.pool, e.page) \in PC
  PROVE  /\ WithPatch(c, t, e) \in CompilationType
         /\ WithPatch(c, t, e).runtime = c.runtime
         /\ ScopesOk(WithPatch(c, t, e).scopes)
         /\ HeldPages(WithPatch(c, t, e).scopes) = HeldPages(c.scopes)
         /\ Len(WithPatch(c, t, e).scopes) = Len(c.scopes)
         /\ \A i \in 1 .. Len(c.scopes) :
              /\ WithPatch(c, t, e).scopes[i].opcode = c.scopes[i].opcode
              /\ WithPatch(c, t, e).scopes[i].saved = c.scopes[i].saved
              /\ WithPatch(c, t, e).scopes[i].left = c.scopes[i].left
<1> DEFINE pc == LastPC(e.pool, e.page)
           ts == [c.scopes EXCEPT ![t].patches = @ \cup {pc}]
<1>1. CASE WithPatch(c, t, e) = c
  BY <1>1
<1>2. CASE WithPatch(c, t, e) = [c EXCEPT !.scopes = ts]
  <2>1. /\ ScopesOk(ts) /\ HeldPages(ts) = HeldPages(c.scopes) /\ Len(ts) = Len(c.scopes)
        /\ \A i \in 1 .. Len(c.scopes) : /\ ts[i].opcode = c.scopes[i].opcode
                                         /\ ts[i].saved = c.scopes[i].saved
                                         /\ ts[i].left = c.scopes[i].left
    <3> HIDE DEF pc
    <3>1. pc \in PC
      BY DEF pc
    <3> QED
      BY <3>1, PatchScope
  <2> HIDE DEF ts
  <2> DEFINE c1 == [c EXCEPT !.scopes = ts]
  <2>2. c1 \in CompilationType /\ c1.runtime = c.runtime /\ c1.scopes = ts
    BY <2>1, WithScopes
  <2> HIDE DEF c1
  <2>3. WithPatch(c, t, e) = c1
    BY <1>2 DEF c1
  <2> QED
    BY <2>1, <2>2, <2>3
<1>3. WithPatch(c, t, e) = c \/ WithPatch(c, t, e) = [c EXCEPT !.scopes = ts]
  BY DEF WithPatch
<1> QED
  BY <1>1, <1>2, <1>3

-----------------------------------------------------------------------------
(* One lemma per action: runtimes, linking, starting                       *)

LEMMA NewRuntimeOk ==
  ASSUME IInv, NEW r \in Runtime, m3_NewRuntime(r)
  PROVE  IInv'
BY DEF IInv, m3_NewRuntime

LEMMA FreeRuntimeOk ==
  ASSUME IInv, NEW r \in Runtime, m3_FreeRuntime(r)
  PROVE  IInv'
<1>1. /\ Good(pool) /\ Accounted(pool) /\ pool' = Runtime_Release(pool, r)
      /\ o = NULL /\ o' = o
  BY DEF IInv, m3_FreeRuntime, Resting
<1>2. Good(pool') /\ Accounted(pool')
  BY <1>1, Runtime_ReleaseGood, Runtime_ReleaseAccounted
<1>3. compiled' \in [Function \cup Import -> {NULL} \cup [job : Nat, pc : PC]]
  BY DEF IInv, m3_FreeRuntime
<1> QED
  BY <1>1, <1>2, <1>3 DEF IInv, m3_FreeRuntime

LEMMA FreeEnvironmentOk ==
  ASSUME IInv, m3_FreeEnvironment
  PROVE  IInv'
<1>1. /\ Good(pool) /\ Accounted(pool) /\ pool' = Environment_Release(pool)
      /\ o = NULL /\ o' = o
  BY DEF IInv, m3_FreeEnvironment, Resting
<1>2. Good(pool') /\ Accounted(pool')
  BY <1>1, Environment_ReleaseGood, Environment_ReleaseAccounted
<1> QED
  BY <1>1, <1>2 DEF IInv, m3_FreeEnvironment

\* The page of a compilation that begins.
LEMMA AcquireFirst ==
  ASSUME NEW s, Good(s), Accounted(s), NEW r \in Runtime, NEW n \in Nat,
         NEW a \in AcquireCodePageWithCapacity(s, r, n)
  PROVE  /\ Good(a.pool) /\ Accounted(a.pool)
         /\ a.page # NULL => /\ a.page \in Page /\ GetPagePC(a.pool, a.page) \in PC
                             /\ Owns(a.pool, r, a.page, {})
<1>1. NULL \notin Page
  BY CompilationAssumption
<1>2. Good(a.pool) /\ Accounted(a.pool)
  BY <1>1, AcquireGood, AcquireAccounted
<1>3. CASE a.page # NULL
  <2>1. a.page \in Page /\ a.pool.active = [s.active EXCEPT ![r] = @ \cup {a.page}]
    BY <1>1, <1>3, AcquireGood
  <2>2. a.page \in a.pool.active[r]
    BY <2>1 DEF Good, PoolType
  <2>3. GetPagePC(a.pool, a.page) \in PC
    BY <1>2, <2>1, PCType DEF Good
  <2> QED
    BY <1>2, <2>1, <2>2, <2>3 DEF Owns
<1> QED
  BY <1>2, <1>3

LEMMA LinkRawFunctionOk ==
  ASSUME IInv, NEW f \in Import, LinkRawFunction(f)
  PROVE  IInv'
<1> DEFINE r == Home[f]
<1>1. /\ Good(pool) /\ Accounted(pool) /\ o = NULL /\ o' = NULL /\ job' \in Nat
      /\ r \in Runtime
  BY CompilationAssumption DEF IInv, LinkRawFunction, Resting
<1>2. PICK a \in AcquireCodePageWithCapacity(pool, r, 4) :
        IF a.page = NULL THEN UNCHANGED <<pool, compiled>>
        ELSE /\ compiled' = [compiled EXCEPT ![f] =
                               [job |-> job', pc |-> GetPagePC(a.pool, a.page)]]
             /\ pool' = ReleaseCodePage(EmitWords(a.pool, a.page,
                                          PlainWords(job', 3) \o <<Stop(job')>>), r, a.page)
  BY DEF LinkRawFunction
<1>3. PICK n \in Nat : a \in AcquireCodePageWithCapacity(pool, r, n)
  OBVIOUS
<1> HIDE DEF r
<1>4. CASE a.page = NULL
  BY <1>1, <1>2, <1>4 DEF IInv, LinkRawFunction
<1>5. CASE a.page # NULL
  <2> DEFINE words == PlainWords(job', 3) \o <<Stop(job')>>
             s == EmitWords(a.pool, a.page, words)
  <2>1. /\ a.page \in Page /\ GetPagePC(a.pool, a.page) \in PC
        /\ Owns(a.pool, r, a.page, {})
    BY <1>1, <1>3, <1>5, AcquireFirst
  <2>2. words \in Seq(Word)
    <3>1. PlainWords(job', 3) \in Seq(Word) /\ Stop(job') \in Word
      BY <1>1, WordTypes
    <3>2. <<Stop(job')>> \in Seq(Word)
      BY <3>1
    <3> QED
      BY <3>1, <3>2, ConcatProperties
  <2> HIDE DEF words
  <2>3. Owns(s, r, a.page, {})
    BY <1>1, <2>1, <2>2, WriteOwns
  <2> HIDE DEF s
  <2>4. Good(pool') /\ Accounted(pool')
    BY <1>1, <1>2, <1>5, <2>1, <2>3, ReleaseOwns DEF s, words
  <2>5. compiled' \in [Function \cup Import -> {NULL} \cup [job : Nat, pc : PC]]
    <3>1. [job |-> job', pc |-> GetPagePC(a.pool, a.page)] \in [job : Nat, pc : PC]
      BY <1>1, <2>1
    <3> QED
      BY <1>2, <1>5, <3>1 DEF IInv
  <2> QED
    BY <1>1, <2>4, <2>5 DEF IInv, LinkRawFunction
<1> QED
  BY <1>4, <1>5

\* The scope a compilation begins with.
LEMMA FirstScope ==
  ASSUME NEW r \in Runtime, NEW f \in Function \cup {NULL}, NEW j \in Nat, NEW pc \in PC,
         NEW p \in Page, NEW opcode \in {"function", "expression"}
  PROVE  LET c == NewCompilation(r, f, j, pc, p, opcode)
         IN  /\ c \in CompilationType /\ c.runtime = r /\ c.page = p
             /\ ScopesOk(c.scopes) /\ HeldPages(c.scopes) = {}
<1> DEFINE sc == NewScope(opcode, pc)
           ss == <<sc>>
           c  == NewCompilation(r, f, j, pc, p, opcode)
<1>1. /\ sc \in Scope /\ sc.opcode = opcode /\ sc.saved = NULL
  BY DEF NewScope, Scope, BlockOpcode
<1> HIDE DEF sc
<1>2. /\ ss \in Seq(Scope) /\ Len(ss) = 1 /\ ss[1] = sc
  BY <1>1
<1> HIDE DEF ss
<1>3. /\ c \in CompilationType /\ c.runtime = r /\ c.page = p /\ c.scopes = ss
  BY <1>1, <1>2 DEF NewCompilation, CompilationType, sc, ss
<1>4. \A i \in 1 .. Len(ss) : i = 1 /\ ss[i] = sc
  BY <1>2
<1>5. ScopesOk(ss)
  BY <1>1, <1>2, <1>4 DEF ScopesOk
<1>6. HeldPages(ss) = {}
  BY <1>1, <1>4 DEF HeldPages
<1> QED
  BY <1>3, <1>5, <1>6

LEMMA CompileFunctionOk ==
  ASSUME IInv, NEW f \in Function, CompileFunction(f)
  PROVE  IInv'
<1> DEFINE r == Home[f]
<1>1. /\ Good(pool) /\ Accounted(pool) /\ o = NULL /\ job' \in Nat /\ r \in Runtime
      /\ compiled' \in [Function \cup Import -> {NULL} \cup [job : Nat, pc : PC]]
  BY CompilationAssumption DEF IInv, CompileFunction, Resting
<1>2. PICK a \in AcquireCodePage(pool, r) :
        IF a.page = NULL THEN UNCHANGED <<pool, o>>
        ELSE LET pc == GetPagePC(a.pool, a.page) IN
             \E e \in EmitOp(Emitter(a.pool, a.page), r, job', PlainWords(job', 2)) :
               IF e.failed
               THEN pool' = ReleaseCodePage(e.pool, r, e.page) /\ UNCHANGED o
               ELSE /\ pool' = e.pool
                    /\ o' = NewCompilation(r, f, job', pc, e.page, "function")
  BY DEF CompileFunction
<1>3. PICK n \in Nat : a \in AcquireCodePageWithCapacity(pool, r, n)
  BY DEF AcquireCodePage, FreeLinesThreshold
<1> HIDE DEF r
<1>4. CASE a.page = NULL
  BY <1>1, <1>2, <1>4 DEF IInv, CompileFunction
<1>5. CASE a.page # NULL
  <2> DEFINE pc == GetPagePC(a.pool, a.page)
  <2>1. a.page \in Page /\ pc \in PC /\ Owns(a.pool, r, a.page, {})
    BY <1>1, <1>3, <1>5, AcquireFirst
  <2>2. PICK e \in EmitOp(Emitter(a.pool, a.page), r, job', PlainWords(job', 2)) :
          IF e.failed
          THEN pool' = ReleaseCodePage(e.pool, r, e.page) /\ UNCHANGED o
          ELSE /\ pool' = e.pool
               /\ o' = NewCompilation(r, f, job', pc, e.page, "function")
    BY <1>2, <1>5
  <2> HIDE DEF pc
  <2>3. EmitterOk(e, r, {})
    <3>1. EmitterOk(Emitter(a.pool, a.page), r, {})
      BY <1>1, <2>1, EmitterGives
    <3>2. PlainWords(job', 2) \in Seq(Word)
      BY <1>1, WordTypes
    <3> QED
      BY <1>1, <3>1, <3>2, EmitOpOk
  <2>4. e.page \in Page /\ Owns(e.pool, r, e.page, {})
    BY <2>3, EmitterFacts
  <2>5. CASE e.failed
    <3>1. Good(pool') /\ Accounted(pool') /\ o' = NULL
      BY <1>1, <2>2, <2>4, <2>5, ReleaseOwns
    <3> QED
      BY <1>1, <3>1 DEF IInv, CompileFunction
  <2>6. CASE ~e.failed
    <3> DEFINE c == NewCompilation(r, f, job', pc, e.page, "function")
    <3>1. /\ c \in CompilationType /\ c.runtime = r /\ c.page = e.page
          /\ ScopesOk(c.scopes) /\ HeldPages(c.scopes) = {}
      BY <1>1, <2>1, <2>4, FirstScope
    <3>2. pool' = e.pool /\ o' = c
      BY <2>2, <2>6
    <3> HIDE DEF c
    <3>3. Good(pool') /\ Accounted(pool')
      BY <2>4, <3>2 DEF Owns
    <3>4. Owns(pool', o'.runtime, o'.page, HeldPages(o'.scopes))
      BY <2>4, <3>1, <3>2
    <3> QED
      BY <1>1, <3>1, <3>2, <3>3, <3>4 DEF IInv, CompileFunction
  <2> QED
    BY <2>5, <2>6
<1> QED
  BY <1>4, <1>5

LEMMA EvaluateExpressionOk ==
  ASSUME IInv, EvaluateExpression
  PROVE  IInv'
<1>1. /\ Good(pool) /\ Accounted(pool) /\ o = NULL /\ job' \in Nat /\ Scratch \in Runtime
  BY CompilationAssumption DEF IInv, EvaluateExpression, Resting
<1>2. PICK a \in AcquireCodePage(pool, Scratch) :
        IF a.page = NULL
        THEN pool' = Runtime_Release(a.pool, Scratch) /\ UNCHANGED o
        ELSE /\ pool' = a.pool
             /\ o' = NewCompilation(Scratch, NULL, job', GetPagePC(a.pool, a.page),
                                    a.page, "expression")
  BY DEF EvaluateExpression
<1>3. PICK n \in Nat : a \in AcquireCodePageWithCapacity(pool, Scratch, n)
  BY DEF AcquireCodePage, FreeLinesThreshold
<1>4. /\ Good(a.pool) /\ Accounted(a.pool)
      /\ a.page # NULL => /\ a.page \in Page /\ GetPagePC(a.pool, a.page) \in PC
                          /\ Owns(a.pool, Scratch, a.page, {})
  BY <1>1, <1>3, AcquireFirst
<1>5. CASE a.page = NULL
  <2>1. Good(pool') /\ Accounted(pool') /\ o' = NULL
    BY <1>1, <1>2, <1>4, <1>5, Runtime_ReleaseGood, Runtime_ReleaseAccounted
  <2> QED
    BY <1>1, <2>1 DEF IInv, EvaluateExpression
<1>6. CASE a.page # NULL
  <2> DEFINE pc == GetPagePC(a.pool, a.page)
             c  == NewCompilation(Scratch, NULL, job', pc, a.page, "expression")
  <2>1. pool' = a.pool /\ o' = c
    BY <1>2, <1>6
  <2>2. /\ c \in CompilationType /\ c.runtime = Scratch /\ c.page = a.page
        /\ ScopesOk(c.scopes) /\ HeldPages(c.scopes) = {}
    <3>1. pc \in PC /\ a.page \in Page
      BY <1>4, <1>6
    <3> HIDE DEF pc
    <3> QED
      BY <1>1, <3>1, FirstScope
  <2> HIDE DEF c
  <2>3. Owns(pool', o'.runtime, o'.page, HeldPages(o'.scopes))
    BY <1>4, <1>6, <2>1, <2>2
  <2> QED
    BY <1>1, <1>4, <2>1, <2>2, <2>3 DEF IInv, EvaluateExpression
<1> QED
  BY <1>5, <1>6

-----------------------------------------------------------------------------
(* One lemma per action: statements                                        *)

LEMMA MalformedOk ==
  ASSUME IInv, Malformed
  PROVE  IInv'
<1>1. o # NULL /\ Abandon(Start) /\ EmitterOk(Start, o.runtime, HeldPages(o.scopes))
  BY InProgress DEF Malformed
<1>2. live' = live /\ ignored' \in BOOLEAN /\ job' = job /\ steps' \in Nat
  BY DEF IInv, Malformed
<1> QED
  BY <1>1, <1>2, AbandonOk

LEMMA BusyFacts ==
  ASSUME IInv, Busy
  PROVE  o # NULL /\ ~Overrun /\ steps + 1 \in Nat
BY DEF IInv, Busy, Emitting

LEMMA CountedFacts ==
  ASSUME IInv, Counted
  PROVE  live' = live /\ job' = job /\ steps' \in Nat
BY DEF IInv, Counted

LEMMA InstructionOk ==
  ASSUME IInv, NEW n \in Operands, Instruction(n)
  PROVE  IInv'
<1>1. o # NULL /\ live' = live /\ job' = job /\ steps' \in Nat /\ ignored' \in BOOLEAN
  BY BusyFacts, CountedFacts DEF Instruction, IInv
<1>2. PICK e \in EmitOp(Start, o.runtime, o.job, PlainWords(o.job, n + 1)) : Continue(e, o)
  BY DEF Instruction
<1>3. /\ o \in CompilationType /\ o.runtime \in Runtime /\ o.job \in Nat
      /\ ScopesOk(o.scopes) /\ EmitterOk(Start, o.runtime, HeldPages(o.scopes))
  BY <1>1, InProgress
<1>4. PlainWords(o.job, n + 1) \in Seq(Word)
  <2>1. n + 1 \in Nat
    BY CompilationAssumption DEF FreeLinesThreshold
  <2> QED
    BY <1>3, <2>1, WordTypes
<1>5. EmitterOk(e, o.runtime, HeldPages(o.scopes))
  BY <1>3, <1>4, EmitOpOk
<1> QED
  BY <1>1, <1>2, <1>3, <1>5, ContinueOk

\* A block opened in the current one, with no page saved.
LEMMA OpenScope ==
  ASSUME IInv, o # NULL, NEW sc \in Scope, sc.saved = NULL,
         sc.opcode \in {"block", "loop", "if", "targets"}, sc.opcode = "targets" => sc.left >= 1
  PROVE  LET c == [o EXCEPT !.scopes = Append(@, sc)]
         IN  /\ c \in CompilationType /\ c.runtime = o.runtime
             /\ ScopesOk(c.scopes) /\ HeldPages(c.scopes) \subseteq HeldPages(o.scopes)
<1> DEFINE ss == Append(o.scopes, sc)
           c  == [o EXCEPT !.scopes = ss]
<1>1. o \in CompilationType /\ ScopesOk(o.scopes)
  BY InProgress
<1>2. NULL \notin HeldPages(o.scopes)
  BY DEF HeldPages
<1>3. ScopesOk(ss) /\ HeldPages(ss) \subseteq HeldPages(o.scopes)
  BY <1>1, <1>2, AppendScope
<1> HIDE DEF ss
<1>4. c \in CompilationType /\ c.runtime = o.runtime /\ c.scopes = ss
  BY <1>1, <1>3, WithScopes
<1> HIDE DEF c
<1>5. c.runtime = o.runtime /\ ScopesOk(c.scopes) /\ HeldPages(c.scopes) \subseteq HeldPages(o.scopes)
  BY <1>3, <1>4
<1> QED
  BY <1>4, <1>5 DEF c, ss

LEMMA NewScopeType ==
  ASSUME NEW opcode \in BlockOpcode \cup {"expression", "targets", "target"}, NEW pc \in PC
  PROVE  /\ NewScope(opcode, pc) \in Scope
         /\ NewScope(opcode, pc).opcode = opcode /\ NewScope(opcode, pc).saved = NULL
         /\ NewScope(opcode, pc).left = 0
BY DEF NewScope, Scope

LEMMA LoopOrBlockOk ==
  ASSUME IInv, NEW opcode \in {"block", "loop"}, NEW n \in {0, 1},
         Compile_LoopOrBlock(opcode, n)
  PROVE  IInv'
<1> DEFINE H == HeldPages(o.scopes)
<1>1. o # NULL /\ live' = live /\ job' = job /\ steps' \in Nat
  BY BusyFacts, CountedFacts DEF Compile_LoopOrBlock, InBlock
<1>2. PICK x \in PreserveArgsAndLocals(Start, o.runtime, o.job, n) :
        LET y == [x EXCEPT !.failed = FALSE] IN
        /\ ignored' = (ignored \/ x.failed)
        /\ \E e \in IF opcode = "block" THEN {y}
                    ELSE EmitOp(y, o.runtime, o.job, PlainWords(o.job, 1)) :
             Continue(e, [o EXCEPT !.scopes =
               Append(@, NewScope(opcode, GetPagePC(e.pool, e.page)))])
  BY DEF Compile_LoopOrBlock
<1>3. o.runtime \in Runtime /\ o.job \in Nat /\ EmitterOk(Start, o.runtime, H)
  BY <1>1, InProgress
<1> HIDE DEF H
<1> DEFINE y == [x EXCEPT !.failed = FALSE]
<1>4. EmitterOk(x, o.runtime, H) /\ EmitterOk(y, o.runtime, H)
  BY <1>3, PreserveOk
<1>5. ignored' \in BOOLEAN
  <2>1. x.failed \in BOOLEAN
    BY <1>4, EmitterFacts
  <2> QED
    BY <1>2, <2>1 DEF IInv
<1>6. PICK e : /\ \/ e = y
                  \/ e \in EmitOp(y, o.runtime, o.job, PlainWords(o.job, 1))
               /\ Continue(e, [o EXCEPT !.scopes =
                    Append(@, NewScope(opcode, GetPagePC(e.pool, e.page)))])
  BY <1>2
<1> HIDE DEF y
<1>7. EmitterOk(e, o.runtime, H)
  <2>1. PlainWords(o.job, 1) \in Seq(Word)
    BY <1>3, WordTypes
  <2> QED
    BY <1>3, <1>4, <1>6, <2>1, EmitOpOk
<1> DEFINE sc == NewScope(opcode, GetPagePC(e.pool, e.page))
           c  == [o EXCEPT !.scopes = Append(@, sc)]
<1>8. /\ sc \in Scope /\ sc.saved = NULL /\ sc.opcode = opcode
  <2>1. GetPagePC(e.pool, e.page) \in PC
    BY <1>7, EmitterFacts, PCType
  <2> QED
    BY <2>1, NewScopeType DEF BlockOpcode
<1>9. Continue(e, c)
  BY <1>6
<1> HIDE DEF sc
<1>10. /\ c \in CompilationType /\ c.runtime = o.runtime
       /\ ScopesOk(c.scopes) /\ HeldPages(c.scopes) \subseteq H
  BY <1>1, <1>8, OpenScope DEF H
<1> HIDE DEF c
<1> QED
  BY <1>1, <1>5, <1>7, <1>9, <1>10, ContinueOk

LEMMA IfOk ==
  ASSUME IInv, NEW n \in {0, 1}, Compile_If(n)
  PROVE  IInv'
<1> DEFINE H == HeldPages(o.scopes)
           words == <<Plain(o.job), Fork(o.job, Unpatched)>>
<1>1. o # NULL /\ live' = live /\ job' = job /\ steps' \in Nat
  BY BusyFacts, CountedFacts DEF Compile_If, InBlock
<1>2. PICK x \in PreserveArgsAndLocals(Start, o.runtime, o.job, n) :
        /\ ignored' = (ignored \/ x.failed)
        /\ \E e \in EmitOp([x EXCEPT !.failed = FALSE], o.runtime, o.job, words) :
             Continue(e, [o EXCEPT !.scopes =
               Append(@, [NewScope("if", GetPagePC(e.pool, e.page))
                            EXCEPT !.pointer = LastPC(e.pool, e.page)])])
  BY DEF Compile_If
<1>3. o.runtime \in Runtime /\ o.job \in Nat /\ EmitterOk(Start, o.runtime, H)
  BY <1>1, InProgress
<1>4. words \in Seq(Word) /\ Len(words) = 2
  <2>1. Plain(o.job) \in Word /\ Fork(o.job, Unpatched) \in Word
    BY <1>3, WordTypes
  <2> QED
    BY <2>1
<1> HIDE DEF H, words
<1> DEFINE y == [x EXCEPT !.failed = FALSE]
<1>5. EmitterOk(x, o.runtime, H) /\ EmitterOk(y, o.runtime, H)
  BY <1>3, PreserveOk
<1>6. ignored' \in BOOLEAN
  <2>1. x.failed \in BOOLEAN
    BY <1>5, EmitterFacts
  <2> QED
    BY <1>2, <2>1 DEF IInv
<1>7. PICK e \in EmitOp(y, o.runtime, o.job, words) :
             Continue(e, [o EXCEPT !.scopes =
               Append(@, [NewScope("if", GetPagePC(e.pool, e.page))
                            EXCEPT !.pointer = LastPC(e.pool, e.page)])])
  BY <1>2
<1> HIDE DEF y
<1>8. EmitterOk(e, o.runtime, H) /\ (~e.failed => LastPC(e.pool, e.page) \in PC)
  BY <1>3, <1>4, <1>5, EmitOpOk
<1> DEFINE new == NewScope("if", GetPagePC(e.pool, e.page))
           sc == [new EXCEPT !.pointer = LastPC(e.pool, e.page)]
           c  == [o EXCEPT !.scopes = Append(@, sc)]
<1>9. ~e.failed => sc \in Scope /\ sc.saved = NULL /\ sc.opcode = "if"
  <2>1. GetPagePC(e.pool, e.page) \in PC
    BY <1>8, EmitterFacts, PCType
  <2>2. new \in Scope /\ new.saved = NULL /\ new.opcode = "if"
    BY <2>1, NewScopeType DEF BlockOpcode
  <2> HIDE DEF new
  <2> QED
    BY <1>8, <2>2 DEF Scope
<1>10. Continue(e, c)
  BY <1>7
<1> HIDE DEF sc
<1>11. ~e.failed => /\ c \in CompilationType /\ c.runtime = o.runtime
                    /\ ScopesOk(c.scopes) /\ HeldPages(c.scopes) \subseteq H
  BY <1>1, <1>9, OpenScope DEF H
<1> HIDE DEF c
<1> QED
  BY <1>1, <1>6, <1>8, <1>10, <1>11, ContinueOk

-----------------------------------------------------------------------------
(* One lemma per action: branches                                          *)

LEMMA LeavingWordsType ==
  ASSUME IInv, o # NULL, NEW t \in 1 .. Top, NEW falls \in BOOLEAN
  PROVE  LeavingWords(t, falls) \in Seq(Word) /\ Len(LeavingWords(t, falls)) > 0
<1> DEFINE pc == o.scopes[t].pc
           j  == o.job
<1>1. pc \in PC /\ j \in Nat
  BY InProgress, ScopeType DEF Top
<1> HIDE DEF pc
<1>2. Plain(j) \in Word /\ Stop(j) \in Word
  BY <1>1, WordTypes
<1>3. ASSUME NEW to \in PC \cup {Unpatched}
      PROVE  [Jump(j, to) EXCEPT !.falls = falls] \in Word
  BY <1>1 DEF Jump, Word
<1>4. /\ <<Stop(j)>> \in Seq(Word) /\ Len(<<Stop(j)>>) > 0
      /\ \A w \in Word : <<Plain(j), w>> \in Seq(Word) /\ Len(<<Plain(j), w>>) > 0
  BY <1>2
<1>5. LeavingWords(t, falls) \in
        {<<Stop(j)>>, <<Plain(j), [Jump(j, pc) EXCEPT !.falls = falls]>>,
         <<Plain(j), [Jump(j, Unpatched) EXCEPT !.falls = falls]>>}
  BY DEF LeavingWords, pc
<1> QED
  BY <1>1, <1>3, <1>4, <1>5

LEMMA LeaveOk ==
  ASSUME IInv, o # NULL, NEW t \in BranchTarget, NEW falls \in BOOLEAN,
         NEW H, NEW e, EmitterOk(e, o.runtime, H), NEW x \in Leave(e, t, falls)
  PROVE  /\ t \in 1 .. Top /\ t \in 1 .. Len(o.scopes)
         /\ EmitterOk(x, o.runtime, H)
         /\ ~x.failed => LastPC(x.pool, x.page) \in PC
<1>1. t \in 1 .. Top /\ t \in 1 .. Len(o.scopes)
  BY DEF BranchTarget, Top
<1>2. LeavingWords(t, falls) \in Seq(Word) /\ Len(LeavingWords(t, falls)) > 0
  BY <1>1, LeavingWordsType
<1>3. o.runtime \in Runtime /\ o.job \in Nat
  BY InProgress
<1> QED
  BY <1>1, <1>2, <1>3, EmitOpOk DEF Leave

LEMMA BranchOk ==
  ASSUME IInv, NEW t \in BranchTarget, Compile_Branch(t)
  PROVE  IInv'
<1> DEFINE H == HeldPages(o.scopes)
<1>1. o # NULL /\ live' = live /\ job' = job /\ steps' \in Nat /\ ignored' \in BOOLEAN
  BY BusyFacts, CountedFacts DEF Compile_Branch, InBlock, IInv
<1>2. PICK e \in Leave(Start, t, FALSE) :
        Continue(e, [WithPatch(o, t, e) EXCEPT !.dead = TRUE])
  BY DEF Compile_Branch
<1>3. o \in CompilationType /\ ScopesOk(o.scopes) /\ EmitterOk(Start, o.runtime, H)
  BY <1>1, InProgress
<1>4. /\ t \in 1 .. Len(o.scopes) /\ EmitterOk(e, o.runtime, H)
      /\ ~e.failed => LastPC(e.pool, e.page) \in PC
  BY <1>1, <1>3, LeaveOk
<1> DEFINE c == [WithPatch(o, t, e) EXCEPT !.dead = TRUE]
<1>5. ~e.failed => /\ c \in CompilationType /\ c.runtime = o.runtime
                   /\ ScopesOk(c.scopes) /\ HeldPages(c.scopes) \subseteq H
  <2> SUFFICES ASSUME ~e.failed
               PROVE  /\ c \in CompilationType /\ c.runtime = o.runtime
                      /\ ScopesOk(c.scopes) /\ HeldPages(c.scopes) \subseteq H
    OBVIOUS
  <2> DEFINE d == WithPatch(o, t, e)
  <2>1. /\ d \in CompilationType /\ d.runtime = o.runtime
        /\ ScopesOk(d.scopes) /\ HeldPages(d.scopes) = H
    BY <1>3, <1>4, WithPatchOk
  <2> HIDE DEF d
  <2>2. c \in CompilationType /\ c.runtime = d.runtime /\ c.scopes = d.scopes
    BY <2>1 DEF CompilationType, d
  <2> HIDE DEF c
  <2> QED
    BY <2>1, <2>2
<1> HIDE DEF c
<1>6. Continue(e, c)
  BY <1>2 DEF c
<1> QED
  BY <1>1, <1>4, <1>5, <1>6, ContinueOk

LEMMA BranchIfOk ==
  ASSUME IInv, NEW t \in BranchTarget, Compile_BranchIf(t)
  PROVE  IInv'
<1> DEFINE H == HeldPages(o.scopes)
<1>1. o # NULL /\ live' = live /\ job' = job /\ steps' \in Nat /\ ignored' \in BOOLEAN
  BY BusyFacts, CountedFacts DEF Compile_BranchIf, InBlock, IInv
<1>2. PICK e \in Leave(Start, t, TRUE) : Continue(e, WithPatch(o, t, e))
  BY DEF Compile_BranchIf
<1>3. o \in CompilationType /\ ScopesOk(o.scopes) /\ EmitterOk(Start, o.runtime, H)
  BY <1>1, InProgress
<1>4. /\ t \in 1 .. Len(o.scopes) /\ EmitterOk(e, o.runtime, H)
      /\ ~e.failed => LastPC(e.pool, e.page) \in PC
  BY <1>1, <1>3, LeaveOk
<1> DEFINE c == WithPatch(o, t, e)
<1>5. ~e.failed => /\ c \in CompilationType /\ c.runtime = o.runtime
                   /\ ScopesOk(c.scopes) /\ HeldPages(c.scopes) \subseteq H
  BY <1>3, <1>4, WithPatchOk
<1> HIDE DEF c
<1>6. Continue(e, c)
  BY <1>2 DEF c
<1> QED
  BY <1>1, <1>4, <1>5, <1>6, ContinueOk

LEMMA BranchIfPrologueOk ==
  ASSUME IInv, NEW t \in BranchTarget, Compile_BranchIfPrologue(t)
  PROVE  IInv'
<1> DEFINE H == HeldPages(o.scopes)
           words == <<Plain(o.job), Fork(o.job, Unpatched)>>
<1>1. o # NULL /\ live' = live /\ job' = job /\ steps' \in Nat /\ ignored' \in BOOLEAN
  BY BusyFacts, CountedFacts DEF Compile_BranchIfPrologue, InBlock, IInv
<1>2. PICK x \in EmitOp(Start, o.runtime, o.job, words) :
       IF x.failed THEN Abandon(x)
       ELSE \E e \in Leave(x, t, FALSE) :
              Continue([e EXCEPT !.pool =
                          SetPointers(@, {LastPC(x.pool, x.page)},
                                      GetPagePC(e.pool, e.page))],
                       WithPatch(o, t, e))
  BY DEF Compile_BranchIfPrologue
<1>3. /\ o \in CompilationType /\ ScopesOk(o.scopes) /\ EmitterOk(Start, o.runtime, H)
      /\ o.runtime \in Runtime /\ o.job \in Nat
  BY <1>1, InProgress
<1>4. words \in Seq(Word)
  <2>1. Plain(o.job) \in Word /\ Fork(o.job, Unpatched) \in Word
    BY <1>3, WordTypes
  <2> QED
    BY <2>1
<1> HIDE DEF words, H
<1>5. EmitterOk(x, o.runtime, H)
  BY <1>3, <1>4, EmitOpOk
<1>6. CASE x.failed
  BY <1>1, <1>2, <1>5, <1>6, AbandonOk
<1>7. CASE ~x.failed
  <2> DEFINE pcs == {LastPC(x.pool, x.page)}
  <2>1. PICK e \in Leave(x, t, FALSE) :
          Continue([e EXCEPT !.pool = SetPointers(e.pool, pcs, GetPagePC(e.pool, e.page))],
                   WithPatch(o, t, e))
    BY <1>2, <1>7
  <2> HIDE DEF pcs
  <2>2. /\ t \in 1 .. Len(o.scopes) /\ EmitterOk(e, o.runtime, H)
        /\ ~e.failed => LastPC(e.pool, e.page) \in PC
    BY <1>1, <1>5, LeaveOk
  <2> DEFINE s == SetPointers(e.pool, pcs, GetPagePC(e.pool, e.page))
             y == [e EXCEPT !.pool = s]
             c == WithPatch(o, t, e)
  <2>3. s \in PoolType /\ Owns(s, o.runtime, e.page, H)
    <3>1. /\ e.page \in Page /\ Owns(e.pool, o.runtime, e.page, H)
          /\ GetPagePC(e.pool, e.page) \in PC
      BY <2>2, EmitterFacts, PCType
    <3>2. Owns(s, o.runtime, e.page, H)
      BY <1>3, <3>1, PatchOwns
    <3> HIDE DEF s
    <3> QED
      BY <3>2 DEF Owns, Good
  <2> HIDE DEF s
  <2>4. EmitterOk(y, o.runtime, H) /\ y.failed = e.failed
    BY <2>2, <2>3, EmitterFacts
  <2>5. ~e.failed => /\ c \in CompilationType /\ c.runtime = o.runtime
                     /\ ScopesOk(c.scopes) /\ HeldPages(c.scopes) \subseteq H
    BY <1>3, <2>2, WithPatchOk DEF H
  <2>6. Continue(y, c)
    BY <2>1 DEF s
  <2> HIDE DEF y, c
  <2> QED
    BY <1>1, <2>4, <2>5, <2>6, ContinueOk
<1> QED
  BY <1>6, <1>7

LEMMA BranchTableOk ==
  ASSUME IInv, NEW n \in Nat, Compile_BranchTable(n)
  PROVE  IInv'
<1> DEFINE H == HeldPages(o.scopes)
<1>1. o # NULL /\ live' = live /\ job' = job /\ steps' \in Nat /\ ignored' \in BOOLEAN
  BY BusyFacts, CountedFacts DEF Compile_BranchTable, InBlock, IInv
<1>2. PICK x \in EnsureCodePageNumLines(Start, o.runtime, o.job, n + 4) :
       IF x.failed THEN Abandon(x)
       ELSE \E e \in EmitOp(x, o.runtime, o.job, PlainWords(o.job, 3)) :
              Continue(e, [o EXCEPT !.scopes =
                Append(@, [NewScope("targets", GetPagePC(e.pool, e.page))
                             EXCEPT !.left = n + 1])])
  BY DEF Compile_BranchTable
<1>3. /\ o \in CompilationType /\ ScopesOk(o.scopes) /\ EmitterOk(Start, o.runtime, H)
      /\ o.runtime \in Runtime /\ o.job \in Nat
  BY <1>1, InProgress
<1> HIDE DEF H
<1>4. EmitterOk(x, o.runtime, H)
  <2>1. PICK m \in Nat : x \in EnsureCodePageNumLines(Start, o.runtime, o.job, m)
    OBVIOUS
  <2> QED
    BY <1>3, <2>1, EnsureOk
<1>5. CASE x.failed
  BY <1>1, <1>2, <1>4, <1>5, AbandonOk
<1>6. CASE ~x.failed
  <2>1. PICK e \in EmitOp(x, o.runtime, o.job, PlainWords(o.job, 3)) :
              Continue(e, [o EXCEPT !.scopes =
                Append(@, [NewScope("targets", GetPagePC(e.pool, e.page))
                             EXCEPT !.left = n + 1])])
    BY <1>2, <1>6
  <2>2. EmitterOk(e, o.runtime, H)
    <3>1. PlainWords(o.job, 3) \in Seq(Word)
      BY <1>3, WordTypes
    <3> QED
      BY <1>3, <1>4, <3>1, EmitOpOk
  <2> DEFINE new == NewScope("targets", GetPagePC(e.pool, e.page))
             sc == [new EXCEPT !.left = n + 1]
             c  == [o EXCEPT !.scopes = Append(@, sc)]
  <2>3. /\ sc \in Scope /\ sc.saved = NULL /\ sc.opcode = "targets" /\ sc.left >= 1
    <3>1. GetPagePC(e.pool, e.page) \in PC
      BY <2>2, EmitterFacts, PCType
    <3>2. new \in Scope /\ new.saved = NULL /\ new.opcode = "targets"
      BY <3>1, NewScopeType
    <3> HIDE DEF new
    <3> QED
      BY <3>2 DEF Scope
  <2>4. Continue(e, c)
    BY <2>1
  <2> HIDE DEF sc
  <2>5. /\ c \in CompilationType /\ c.runtime = o.runtime
        /\ ScopesOk(c.scopes) /\ HeldPages(c.scopes) \subseteq H
    BY <1>1, <2>3, OpenScope DEF H
  <2> HIDE DEF c
  <2> QED
    BY <1>1, <2>2, <2>4, <2>5, ContinueOk
<1> QED
  BY <1>5, <1>6

LEMMA OpenTargetOk ==
  ASSUME IInv, OpenTarget
  PROVE  IInv'
<1> DEFINE H == HeldPages(o.scopes)
           r == o.runtime
<1>1. /\ o # NULL /\ live' = live /\ job' = job /\ steps' \in Nat /\ ignored' \in BOOLEAN
      /\ o.scopes[Len(o.scopes)].opcode = "targets"
  BY DEF OpenTarget, Emitting, Current, Top, IInv
<1>2. PICK a \in AcquireCodePage(pool, r) :
        IF a.page = NULL THEN Abandon(Start)
        ELSE Continue(Emitter(a.pool, a.page), [o EXCEPT !.scopes =
               Append(@, [NewScope("target", GetPagePC(a.pool, a.page))
                            EXCEPT !.saved = o.page])])
  BY DEF OpenTarget
<1>3. PICK n \in Nat : a \in AcquireCodePageWithCapacity(pool, r, n)
  BY DEF AcquireCodePage, FreeLinesThreshold
<1>4. /\ o \in CompilationType /\ ScopesOk(o.scopes) /\ EmitterOk(Start, r, H)
      /\ r \in Runtime /\ o.page \in Page /\ Owns(pool, r, o.page, H)
  BY <1>1, InProgress
<1>5. CASE a.page = NULL
  BY <1>1, <1>2, <1>4, <1>5, AbandonOk
<1>6. CASE a.page # NULL
  <2> DEFINE pc == GetPagePC(a.pool, a.page)
             new == NewScope("target", pc)
             sc == [new EXCEPT !.saved = o.page]
             ss == Append(o.scopes, sc)
             c  == [o EXCEPT !.scopes = ss]
             e  == Emitter(a.pool, a.page)
  <2>1. /\ a.page \in Page /\ o.page \notin H
        /\ Owns(a.pool, r, a.page, H \cup {o.page})
    <3> HIDE DEF H, r
    <3>1. PICK p \in Page : p = o.page
      BY <1>4
    <3>2. Owns(pool, r, p, H) /\ r \in Runtime /\ a \in AcquireCodePageWithCapacity(pool, r, n)
      BY <1>3, <1>4, <3>1
    <3>3. a.page # NULL => a.page \in Page /\ Owns(a.pool, r, a.page, H \cup {p})
      BY <3>2, AcquireOwns
    <3>5. p \notin H
      BY <3>2 DEF Owns
    <3>4. a.page \in Page /\ p \notin H /\ Owns(a.pool, r, a.page, H \cup {p})
      BY <1>6, <3>3, <3>5
    <3> QED
      BY <3>1, <3>4
  <2>2. pc \in PC
    BY <2>1, PCType DEF Owns, Good
  <2> HIDE DEF pc
  <2>3. sc \in Scope /\ sc.opcode = "target" /\ sc.saved = o.page
    <3>1. new \in Scope /\ new.opcode = "target"
      BY <2>2, NewScopeType
    <3> HIDE DEF new
    <3> QED
      BY <1>4, <3>1 DEF Scope
  <2>4. Continue(e, c)
    BY <1>2, <1>6 DEF pc
  <2>5. EmitterOk(e, r, H \cup {o.page}) /\ ~e.failed
    BY <1>4, <2>1, EmitterGives DEF Emitter
  <2> HIDE DEF sc, e
  <2>6. ScopesOk(ss) /\ HeldPages(ss) \subseteq H \cup {o.page}
    <3>1. sc.saved # NULL
      BY <1>4, <2>3, CompilationAssumption
    <3> QED
      BY <1>1, <1>4, <2>1, <2>3, <3>1, AppendScope
  <2> HIDE DEF ss
  <2>7. c \in CompilationType /\ c.runtime = r /\ c.scopes = ss
    BY <1>4, <2>6, WithScopes
  <2> HIDE DEF c, H
  <2>8. ScopesOk(c.scopes) /\ HeldPages(c.scopes) \subseteq H \cup {o.page}
    BY <2>6, <2>7
  <2> QED
    BY <1>1, <2>4, <2>5, <2>7, <2>8, ContinueOk
<1> QED
  BY <1>5, <1>6

-----------------------------------------------------------------------------
(* One lemma per action: ends                                              *)

\* A block that ends has a block around it.
LEMMA OuterOk ==
  ASSUME IInv, o # NULL, Current.opcode \notin {"function", "expression"}
  PROVE  /\ ScopesOk(Outer) /\ HeldPages(Outer) \subseteq HeldPages(o.scopes)
         /\ Current.saved # NULL => /\ Current.saved \in HeldPages(o.scopes)
                                    /\ Current.saved \notin HeldPages(Outer)
<1>1. ScopesOk(o.scopes) /\ Top \in 1 .. Len(o.scopes) /\ Top \in Nat /\ Top = Len(o.scopes)
  BY InProgress DEF Top
<1>2. Top > 1
  BY <1>1 DEF ScopesOk, Current
<1>3. PICK m \in Nat : m = Top /\ m = Len(o.scopes)
  BY <1>1
<1>4. PICK n \in 1 .. Len(o.scopes) : n = Top - 1 /\ Top \in n + 1 .. Len(o.scopes)
  <2>1. m - 1 \in 1 .. m /\ m \in (m - 1) + 1 .. m
    BY <1>1, <1>2, <1>3
  <2> QED
    BY <1>3, <2>1
<1>5. /\ ScopesOk(SubSeq(o.scopes, 1, n))
      /\ HeldPages(SubSeq(o.scopes, 1, n)) \subseteq HeldPages(o.scopes)
      /\ o.scopes[Top].saved # NULL =>
           o.scopes[Top].saved \notin HeldPages(SubSeq(o.scopes, 1, n))
  BY <1>1, <1>4, OuterScopes
<1>6. Current.saved # NULL => Current.saved \in HeldPages(o.scopes)
  BY <1>1, ScopeType DEF Current
<1> QED
  BY <1>4, <1>5, <1>6 DEF Outer, Current

LEMMA PatchBranchesOk ==
  ASSUME IInv, o # NULL
  PROVE  /\ Owns(PatchBranches(pool), o.runtime, o.page, HeldPages(o.scopes))
         /\ GetPagePC(PatchBranches(pool), o.page) \in PC
<1>1. /\ o.runtime \in Runtime /\ o.page \in Page
      /\ Owns(pool, o.runtime, o.page, HeldPages(o.scopes))
  BY InProgress
<1>2. GetPagePC(pool, o.page) \in PC
  BY <1>1, PCType DEF Owns, Good
<1>3. Owns(PatchBranches(pool), o.runtime, o.page, HeldPages(o.scopes))
  BY <1>1, <1>2, PatchOwns DEF PatchBranches
<1>4. GetPagePC(PatchBranches(pool), o.page) \in PC
  BY <1>1, <1>3, PCType DEF Owns, Good
<1> QED
  BY <1>3, <1>4

LEMMA EndBlockOk ==
  ASSUME IInv, EndBlock
  PROVE  IInv'
<1> DEFINE H == HeldPages(o.scopes)
           s == PatchBranches(pool)
           t == IF Current.opcode # "if" THEN s
                ELSE SetPointers(s, {Current.pointer}, GetPagePC(s, o.page))
           c == [o EXCEPT !.scopes = Outer, !.dead = FALSE]
           e == Emitter(t, o.page)
<1>1. /\ o # NULL /\ live' = live /\ job' = job /\ steps' \in Nat /\ ignored' \in BOOLEAN
      /\ Current.opcode \notin {"function", "expression"}
  BY DEF EndBlock, AtEnd, IInv
<1>2. Continue(e, c)
  BY DEF EndBlock
<1>3. o \in CompilationType /\ o.runtime \in Runtime /\ o.page \in Page
  BY <1>1, InProgress
<1>4. Owns(s, o.runtime, o.page, H) /\ GetPagePC(s, o.page) \in PC
  BY <1>1, PatchBranchesOk
<1> HIDE DEF s
<1>5. Owns(t, o.runtime, o.page, H)
  <2>1. Owns(SetPointers(s, {Current.pointer}, GetPagePC(s, o.page)), o.runtime, o.page, H)
    BY <1>3, <1>4, PatchOwns
  <2> QED
    BY <1>4, <2>1
<1> HIDE DEF t
<1>6. EmitterOk(e, o.runtime, H)
  BY <1>3, <1>5, EmitterGives
<1> HIDE DEF e
<1>7. ScopesOk(Outer) /\ HeldPages(Outer) \subseteq H
  BY <1>1, OuterOk
<1>8. c \in CompilationType /\ c.runtime = o.runtime /\ c.scopes = Outer
  BY <1>3, <1>7, WithScopesAndDead
<1> HIDE DEF c, H
<1>9. ScopesOk(c.scopes) /\ HeldPages(c.scopes) \subseteq H
  BY <1>7, <1>8
<1> QED
  BY <1>1, <1>2, <1>6, <1>8, <1>9, ContinueOk

LEMMA CompileElseBlockOk ==
  ASSUME IInv, CompileElseBlock
  PROVE  IInv'
<1> DEFINE H == HeldPages(o.scopes)
           r == o.runtime
           s == PatchBranches(pool)
<1>1. /\ o # NULL /\ live' = live /\ job' = job /\ steps' \in Nat /\ ignored' \in BOOLEAN
      /\ Current.opcode \notin {"function", "expression"}
  BY DEF CompileElseBlock, AtEnd, IInv
<1>2. PICK a \in AcquireCodePage(s, r) :
       IF a.page = NULL THEN Abandon(Emitter(a.pool, o.page))
       ELSE LET pc == GetPagePC(a.pool, a.page) IN
            Continue(Emitter(SetPointers(a.pool, {Current.pointer}, pc), a.page),
                     [o EXCEPT !.scopes = Append(Outer, [NewScope("else", pc)
                                                           EXCEPT !.saved = o.page]),
                               !.dead = FALSE])
  BY DEF CompileElseBlock
<1>3. PICK n \in Nat : a \in AcquireCodePageWithCapacity(s, r, n)
  BY DEF AcquireCodePage, FreeLinesThreshold
<1>4. /\ o \in CompilationType /\ r \in Runtime /\ o.page \in Page
      /\ Owns(s, r, o.page, H)
  BY <1>1, InProgress, PatchBranchesOk
<1>5. ScopesOk(Outer) /\ HeldPages(Outer) \subseteq H
  BY <1>1, OuterOk
<1> HIDE DEF s
<1>6. CASE a.page = NULL
  <2>1. EmitterOk(Emitter(a.pool, o.page), r, H)
    BY <1>3, <1>4, <1>6, AcquireOwns, EmitterGives
  <2> QED
    BY <1>1, <1>2, <1>6, <2>1, AbandonOk
<1>7. CASE a.page # NULL
  <2> DEFINE pc == GetPagePC(a.pool, a.page)
             K  == H \cup {o.page}
             u  == SetPointers(a.pool, {Current.pointer}, pc)
             new == NewScope("else", pc)
             sc == [new EXCEPT !.saved = o.page]
             ss == Append(Outer, sc)
             c  == [o EXCEPT !.scopes = ss, !.dead = FALSE]
             e  == Emitter(u, a.page)
  <2>1. a.page \in Page /\ o.page \notin H /\ Owns(a.pool, r, a.page, K)
    <3> HIDE DEF H, r
    <3>1. PICK p \in Page : p = o.page
      BY <1>4
    <3>2. Owns(s, r, p, H) /\ r \in Runtime /\ a \in AcquireCodePageWithCapacity(s, r, n)
      BY <1>3, <1>4, <3>1
    <3>3. a.page # NULL => a.page \in Page /\ Owns(a.pool, r, a.page, H \cup {p})
      BY <3>2, AcquireOwns
    <3>5. p \notin H
      BY <3>2 DEF Owns
    <3>4. a.page \in Page /\ p \notin H /\ Owns(a.pool, r, a.page, H \cup {p})
      BY <1>7, <3>3, <3>5
    <3> QED
      BY <3>1, <3>4
  <2>2. pc \in PC
    BY <2>1, PCType DEF Owns, Good
  <2>3. Continue(e, c)
    BY <1>2, <1>7
  <2> HIDE DEF pc, K
  <2>4. EmitterOk(e, r, K) /\ ~e.failed
    <3>1. Owns(u, r, a.page, K)
      BY <1>4, <2>1, <2>2, PatchOwns
    <3> HIDE DEF u
    <3> QED
      BY <1>4, <2>1, <3>1, EmitterGives DEF Emitter
  <2> HIDE DEF e
  <2>5. sc \in Scope /\ sc.opcode = "else" /\ sc.saved = o.page
    <3>1. new \in Scope /\ new.opcode = "else"
      BY <2>2, NewScopeType DEF BlockOpcode
    <3> HIDE DEF new
    <3> QED
      BY <1>4, <3>1 DEF Scope
  <2> HIDE DEF sc
  <2>6. ScopesOk(ss) /\ HeldPages(ss) \subseteq K
    <3>1. sc.saved # NULL /\ sc.saved \notin HeldPages(Outer)
      BY <1>4, <1>5, <2>1, <2>5, CompilationAssumption
    <3>2. ScopesOk(ss) /\ HeldPages(ss) \subseteq HeldPages(Outer) \cup {sc.saved}
      BY <1>5, <2>5, <3>1, AppendScope
    <3> QED
      BY <1>5, <2>5, <3>2 DEF K
  <2> HIDE DEF ss
  <2>7. c \in CompilationType /\ c.runtime = r /\ c.scopes = ss
    BY <1>4, <2>6, WithScopesAndDead
  <2> HIDE DEF c
  <2>8. ScopesOk(c.scopes) /\ HeldPages(c.scopes) \subseteq K
    BY <2>6, <2>7
  <2> QED
    BY <1>1, <2>3, <2>4, <2>7, <2>8, ContinueOk
<1> QED
  BY <1>6, <1>7

LEMMA EndElseOk ==
  ASSUME IInv, EndElse
  PROVE  IInv'
<1> DEFINE H == HeldPages(o.scopes)
           r == o.runtime
           q == Current.saved
           words == <<Plain(o.job), Jump(o.job, GetPagePC(pool, q))>>
           x == Emitter(PatchBranches(pool), o.page)
<1>1. /\ o # NULL /\ live' = live /\ job' = job /\ steps' \in Nat /\ ignored' \in BOOLEAN
      /\ Current.opcode \notin {"function", "expression"} /\ Current.opcode = "else"
  BY DEF EndElse, AtEnd, IInv
<1>2. PICK e \in EmitOp(x, r, o.job, words) :
       IF e.failed THEN Abandon(e)
       ELSE Continue(Emitter(ReleaseCodePage(e.pool, r, e.page), q),
                     [o EXCEPT !.scopes = Outer, !.dead = FALSE])
  BY DEF EndElse
<1>3. /\ o \in CompilationType /\ ScopesOk(o.scopes) /\ r \in Runtime /\ o.job \in Nat
      /\ o.page \in Page /\ Owns(pool, r, o.page, H)
  BY <1>1, InProgress
<1>4. q \in Page /\ q \in H
  <2>1. Top \in 1 .. Len(o.scopes)
    BY <1>1, InProgress DEF Top
  <2>2. q # NULL
    BY <1>1, <1>3, <2>1 DEF ScopesOk, Current
  <2> QED
    BY <1>3, <2>1, <2>2, ScopeType DEF Current
<1>5. /\ ScopesOk(Outer) /\ HeldPages(Outer) \in SUBSET H /\ q \notin HeldPages(Outer)
  <2>1. q # NULL
    BY <1>4, CompilationAssumption
  <2> QED
    BY <1>1, <2>1, OuterOk
<1>6. words \in Seq(Word)
  <2>1. GetPagePC(pool, q) \in PC
    BY <1>3, <1>4, PCType DEF Owns, Good
  <2>2. Plain(o.job) \in Word /\ Jump(o.job, GetPagePC(pool, q)) \in Word
    BY <1>3, <2>1, WordTypes
  <2> QED
    BY <2>2
<1>7. EmitterOk(x, r, H)
  BY <1>1, <1>3, PatchBranchesOk, EmitterGives
<1> HIDE DEF words, x
<1>8. EmitterOk(e, r, H)
  BY <1>2, <1>3, <1>6, <1>7, EmitOpOk
<1>9. CASE e.failed
  BY <1>1, <1>2, <1>8, <1>9, AbandonOk
<1>10. CASE ~e.failed
  <2> DEFINE c == [o EXCEPT !.scopes = Outer, !.dead = FALSE]
             K == HeldPages(Outer)
             s == ReleaseCodePage(e.pool, r, e.page)
             y == Emitter(s, q)
  <2>1. e.page \in Page /\ Owns(e.pool, r, e.page, H)
    BY <1>8, EmitterFacts
  <2>2. Owns(s, r, q, K)
    <3> HIDE DEF H, r, q
    <3> QED
      BY <1>3, <1>4, <1>5, <2>1, ReleaseOwns
  <2>3. Continue(y, c)
    BY <1>2, <1>10
  <2> HIDE DEF s
  <2>4. EmitterOk(y, r, K)
    BY <1>3, <1>4, <2>2, EmitterGives
  <2> HIDE DEF y
  <2>5. c \in CompilationType /\ c.runtime = r /\ c.scopes = Outer
    BY <1>3, <1>5, WithScopesAndDead
  <2> HIDE DEF c
  <2>6. ScopesOk(c.scopes) /\ HeldPages(c.scopes) \subseteq K
    BY <1>5, <2>5
  <2> HIDE DEF K
  <2> QED
    BY <1>1, <2>3, <2>4, <2>5, <2>6, ContinueOk
<1> QED
  BY <1>9, <1>10

LEMMA LastWordOk ==
  ASSUME IInv, o # NULL, NEW e \in EmitOp(Start, o.runtime, o.job, <<Stop(o.job)>>)
  PROVE  EmitterOk(e, o.runtime, HeldPages(o.scopes))
<1>1. /\ o.runtime \in Runtime /\ o.job \in Nat
      /\ EmitterOk(Start, o.runtime, HeldPages(o.scopes))
  BY InProgress
<1>2. Stop(o.job) \in Word
  BY <1>1, WordTypes
<1>3. <<Stop(o.job)>> \in Seq(Word)
  BY <1>2
<1> QED
  BY <1>1, <1>3, EmitOpOk

LEMMA EndFunctionOk ==
  ASSUME IInv, EndFunction
  PROVE  IInv'
<1>1. o # NULL /\ live' = live /\ job' = job /\ steps' \in Nat /\ ignored' \in BOOLEAN
  BY DEF EndFunction, AtEnd, IInv
<1>2. PICK e \in EmitOp(Start, o.runtime, o.job, <<Stop(o.job)>>) :
       IF e.failed THEN Abandon(e)
       ELSE /\ compiled' = [compiled EXCEPT ![o.fn] = [job |-> o.job, pc |-> o.pc]]
            /\ pool' = ReleaseCodePage(e.pool, o.runtime, e.page)
            /\ o' = NULL
  BY DEF EndFunction
<1>3. EmitterOk(e, o.runtime, HeldPages(o.scopes))
  BY <1>1, LastWordOk
<1>4. CASE e.failed
  BY <1>1, <1>2, <1>3, <1>4, AbandonOk
<1>5. CASE ~e.failed
  <2>1. /\ o.runtime \in Runtime /\ e.page \in Page
        /\ Owns(e.pool, o.runtime, e.page, HeldPages(o.scopes))
        /\ o.job \in Nat /\ o.pc \in PC
    BY <1>1, <1>3, InProgress, EmitterFacts
  <2>2. Good(pool') /\ Accounted(pool')
    BY <1>2, <1>5, <2>1, ReleaseOwns
  <2>3. compiled' \in [Function \cup Import -> {NULL} \cup [job : Nat, pc : PC]]
    <3>1. [job |-> o.job, pc |-> o.pc] \in [job : Nat, pc : PC]
      BY <2>1
    <3> QED
      BY <1>2, <1>5, <3>1 DEF IInv
  <2> QED
    BY <1>1, <1>2, <1>5, <2>2, <2>3 DEF IInv
<1> QED
  BY <1>4, <1>5

LEMMA EndExpressionOk ==
  ASSUME IInv, EndExpression
  PROVE  IInv'
<1>1. o # NULL /\ live' = live /\ job' = job /\ steps' \in Nat /\ ignored' \in BOOLEAN
  BY DEF EndExpression, AtEnd, IInv
<1>2. PICK e \in EmitOp(Start, o.runtime, o.job, <<Stop(o.job)>>) : Abandon(e)
  BY DEF EndExpression
<1>3. EmitterOk(e, o.runtime, HeldPages(o.scopes))
  BY <1>1, LastWordOk
<1> QED
  BY <1>1, <1>2, <1>3, AbandonOk

\* The blocks that are left when the target of a branch table is done: those
\* around the table, and the table itself when it has another target.
LEMMA AfterTarget ==
  ASSUME NEW ss, ScopesOk(ss), ss[Len(ss)].opcode = "target"
  PROVE  LET n  == Len(ss) - 2
             ts == SubSeq(ss, 1, n)
             table == [ss[Len(ss) - 1] EXCEPT !.left = @ - 1]
             us == Append(ts, table)
             q  == ss[Len(ss)].saved
         IN  /\ q \in Page /\ q \in HeldPages(ss)
             /\ ScopesOk(ts) /\ HeldPages(ts) \in SUBSET HeldPages(ss)
             /\ q \notin HeldPages(ts)
             /\ ss[Len(ss) - 1].left # 1 => /\ ScopesOk(us)
                                            /\ HeldPages(us) \in SUBSET HeldPages(ss)
                                            /\ q \notin HeldPages(us)
<1>1. ss \in Seq(Scope) /\ Len(ss) \in Nat /\ Len(ss) >= 1
  BY DEF ScopesOk
<1>2. PICK k \in Nat : k = Len(ss) /\ k \in 1 .. Len(ss)
  BY <1>1
<1>3. k > 1 /\ ss[k - 1].opcode = "targets" /\ ss[k].saved # NULL
  BY <1>2 DEF ScopesOk
<1>4. PICK m \in 1 .. Len(ss) : m = k - 1
  BY <1>2, <1>3
<1>5. m # 1
  BY <1>3, <1>4 DEF ScopesOk
<1>6. PICK n \in 1 .. Len(ss) : n = m - 1 /\ m \in n + 1 .. Len(ss) /\ k \in n + 1 .. Len(ss)
  BY <1>2, <1>4, <1>5
<1> DEFINE ts == SubSeq(ss, 1, n)
           table == [ss[m] EXCEPT !.left = ss[m].left - 1]
           us == Append(ts, table)
           q  == ss[k].saved
<1>7. q \in Page /\ q \in HeldPages(ss)
  BY <1>2, <1>3, ScopeType
<1>8. /\ ScopesOk(ts) /\ HeldPages(ts) \in SUBSET HeldPages(ss) /\ q \notin HeldPages(ts)
      /\ ss[m].saved # NULL => ss[m].saved \notin HeldPages(ts)
  BY <1>3, <1>6, OuterScopes
<1>9. ASSUME ss[m].left # 1
      PROVE  /\ ScopesOk(us) /\ HeldPages(us) \in SUBSET HeldPages(ss)
             /\ q \notin HeldPages(us)
  <2>1. ss[m] \in Scope /\ ss[m].left >= 1 /\ ss[m].opcode = "targets" /\ ss[m].left \in Nat
    BY <1>3, <1>4, ScopeType DEF ScopesOk
  <2>2. /\ table \in Scope /\ table.left >= 1 /\ table.opcode = "targets"
        /\ table.saved = ss[m].saved
    BY <1>9, <2>1 DEF Scope
  <2>3. NULL \notin HeldPages(ts)
    BY DEF HeldPages
  <2> HIDE DEF ts, table
  <2>4. /\ ScopesOk(us) /\ HeldPages(us) \subseteq HeldPages(ts) \cup {table.saved}
        /\ table.saved = NULL => HeldPages(us) \subseteq HeldPages(ts)
    <3>1. table.saved \notin HeldPages(ts)
      BY <1>8, <2>2, <2>3
    <3> QED
      BY <1>8, <2>2, <3>1, AppendScope
  <2>5. table.saved # NULL => table.saved \in HeldPages(ss) /\ table.saved # q
    <3>1. k # m
      BY <1>2, <1>4
    <3> QED
      BY <1>2, <2>2, <3>1, ScopeType DEF ScopesOk
  <2> QED
    BY <1>8, <2>4, <2>5
<1>10. /\ Len(ss) = k /\ Len(ss) - 1 = m /\ Len(ss) - 2 = n
  BY <1>2, <1>4, <1>6
<1> QED
  BY <1>7, <1>8, <1>9, <1>10

LEMMA CloseTargetOk ==
  ASSUME IInv, NEW t \in BranchTarget, CloseTarget(t)
  PROVE  IInv'
<1> DEFINE H == HeldPages(o.scopes)
           r == o.runtime
           q == Current.saved
           last == o.scopes[Top - 1].left = 1
           entry == [Jump(o.job, Current.pc) EXCEPT !.falls = ~last]
<1>1. /\ o # NULL /\ live' = live /\ job' = job /\ steps' \in Nat /\ ignored' \in BOOLEAN
      /\ Current.opcode = "target"
  BY DEF CloseTarget, Emitting, IInv
<1>2. PICK e \in Leave(Start, t, FALSE) :
       IF e.failed THEN Abandon(e)
       ELSE LET c == WithPatch(o, t, e)
                s == EmitWords(ReleaseCodePage(e.pool, r, e.page), q, <<entry>>)
            IN Continue(Emitter(s, q),
                 IF last THEN [c EXCEPT !.scopes = SubSeq(c.scopes, 1, Top - 2),
                                        !.dead = TRUE]
                 ELSE [c EXCEPT !.scopes = Append(SubSeq(c.scopes, 1, Top - 2),
                                                  [c.scopes[Top - 1] EXCEPT !.left = @ - 1])])
  BY DEF CloseTarget
<1>3. /\ o \in CompilationType /\ ScopesOk(o.scopes) /\ EmitterOk(Start, r, H)
      /\ r \in Runtime /\ o.job \in Nat /\ Top \in 1 .. Len(o.scopes) /\ Top = Len(o.scopes)
  BY <1>1, InProgress DEF Top
<1>4. /\ t \in 1 .. Len(o.scopes) /\ EmitterOk(e, r, H)
      /\ ~e.failed => LastPC(e.pool, e.page) \in PC
  BY <1>1, <1>3, LeaveOk
<1>5. CASE e.failed
  BY <1>1, <1>2, <1>4, <1>5, AbandonOk
<1>6. CASE ~e.failed
  <2> DEFINE c  == WithPatch(o, t, e)
             ts == SubSeq(c.scopes, 1, Top - 2)
             us == Append(ts, [c.scopes[Top - 1] EXCEPT !.left = @ - 1])
             rel == ReleaseCodePage(e.pool, r, e.page)
             s  == EmitWords(rel, q, <<entry>>)
             y  == Emitter(s, q)
             c1 == [c EXCEPT !.scopes = ts, !.dead = TRUE]
             c2 == [c EXCEPT !.scopes = us]
  <2>1. Continue(y, IF last THEN c1 ELSE c2)
    BY <1>2, <1>6
  <2>2. /\ c \in CompilationType /\ c.runtime = r
        /\ ScopesOk(c.scopes) /\ HeldPages(c.scopes) = H /\ Len(c.scopes) = Len(o.scopes)
        /\ \A i \in 1 .. Len(o.scopes) : /\ c.scopes[i].opcode = o.scopes[i].opcode
                                         /\ c.scopes[i].saved = o.scopes[i].saved
                                         /\ c.scopes[i].left = o.scopes[i].left
    BY <1>3, <1>4, <1>6, WithPatchOk
  <2> HIDE DEF c
  <2>3. /\ c.scopes[Len(c.scopes)].opcode = "target" /\ Top = Len(c.scopes)
        /\ c.scopes[Len(c.scopes)].saved = q
    BY <1>1, <1>3, <2>2 DEF Current
  <2>4. c.scopes[Top - 1].left = o.scopes[Top - 1].left
    <3>1. Top > 1
      BY <1>1, <1>3 DEF ScopesOk, Current
    <3>2. Top - 1 \in 1 .. Len(o.scopes)
      BY <1>3, <3>1
    <3> QED
      BY <2>2, <3>2
  <2>5. /\ q \in Page /\ q \in H /\ ScopesOk(ts) /\ HeldPages(ts) \in SUBSET H
        /\ q \notin HeldPages(ts)
        /\ ~last => ScopesOk(us) /\ HeldPages(us) \in SUBSET H /\ q \notin HeldPages(us)
    BY <2>2, <2>3, <2>4, AfterTarget
  <2> HIDE DEF ts, us
  <2>6. e.page \in Page /\ Owns(e.pool, r, e.page, H)
    BY <1>4, EmitterFacts
  <2>7. \A K \in SUBSET H : q \notin K => Owns(rel, r, q, K)
    <3> HIDE DEF H, r, q
    <3> QED
      BY <1>3, <2>5, <2>6, ReleaseOwns
  <2>8. entry \in Word
    <3>1. Current.pc \in PC
      BY <1>3, ScopeType DEF Current
    <3> QED
      BY <1>3, <3>1 DEF Jump, Word
  <2> HIDE DEF rel, entry
  <2>9. <<entry>> \in Seq(Word)
    BY <2>8
  <2>10. ASSUME NEW K \in SUBSET H, q \notin K
         PROVE  EmitterOk(y, r, K) /\ ~y.failed
    <3>1. Owns(s, r, q, K)
      <4> HIDE DEF H, r, q
      <4> QED
        BY <1>3, <2>5, <2>7, <2>9, <2>10, WriteOwns
    <3> HIDE DEF s
    <3> QED
      BY <1>3, <2>5, <3>1, EmitterGives DEF Emitter
  <2> HIDE DEF y
  <2>11. CASE last
    <3>1. c1 \in CompilationType /\ c1.runtime = r /\ c1.scopes = ts
      BY <2>2, <2>5, WithScopesAndDead
    <3>2. Continue(y, c1)
      BY <2>1, <2>11
    <3> HIDE DEF c1
    <3>3. ScopesOk(c1.scopes) /\ HeldPages(c1.scopes) \subseteq HeldPages(ts)
      BY <2>5, <3>1
    <3>4. EmitterOk(y, r, HeldPages(ts))
      BY <2>5, <2>10
    <3> QED
      BY <1>1, <3>1, <3>2, <3>3, <3>4, ContinueOk
  <2>12. CASE ~last
    <3>1. c2 \in CompilationType /\ c2.runtime = r /\ c2.scopes = us
      BY <2>2, <2>5, <2>12, WithScopes
    <3>2. Continue(y, c2)
      BY <2>1, <2>12
    <3> HIDE DEF c2
    <3>3. ScopesOk(c2.scopes) /\ HeldPages(c2.scopes) \subseteq HeldPages(us)
      BY <2>5, <2>12, <3>1
    <3>4. EmitterOk(y, r, HeldPages(us))
      BY <2>5, <2>10, <2>12
    <3> QED
      BY <1>1, <3>1, <3>2, <3>3, <3>4, ContinueOk
  <2> QED
    BY <2>11, <2>12
<1> QED
  BY <1>5, <1>6

-----------------------------------------------------------------------------
(* The invariant                                                           *)

LEMMA InitIInv ==
  ASSUME Init
  PROVE  IInv
<1>1. Good(pool) /\ Accounted(pool)
  BY EmptyPoolGood DEF Init
<1>2. o = NULL /\ live = {} /\ ignored \in BOOLEAN /\ job \in Nat /\ steps \in Nat
  BY DEF Init
<1>3. compiled \in [Function \cup Import -> {NULL} \cup [job : Nat, pc : PC]]
  BY DEF Init
<1> QED
  BY <1>1, <1>2, <1>3 DEF IInv

LEMMA StutterIInv ==
  ASSUME IInv, UNCHANGED vars
  PROVE  IInv'
BY DEF IInv, vars

LEMMA NextIInv ==
  ASSUME IInv, [Next]_vars
  PROVE  IInv'
<1>1. ASSUME NEW r \in Runtime, m3_NewRuntime(r)
      PROVE  IInv'
  BY <1>1, NewRuntimeOk
<1>2. ASSUME NEW r \in Runtime, m3_FreeRuntime(r)
      PROVE  IInv'
  BY <1>2, FreeRuntimeOk
<1>3. CASE m3_FreeEnvironment
  BY <1>3, FreeEnvironmentOk
<1>4. ASSUME NEW f \in Import, LinkRawFunction(f)
      PROVE  IInv'
  BY <1>4, LinkRawFunctionOk
<1>5. ASSUME NEW f \in Function, CompileFunction(f)
      PROVE  IInv'
  BY <1>5, CompileFunctionOk
<1>6. CASE EvaluateExpression
  BY <1>6, EvaluateExpressionOk
<1>7. CASE Malformed
  BY <1>7, MalformedOk
<1>8. ASSUME NEW n \in Operands, Instruction(n)
      PROVE  IInv'
  BY <1>8, InstructionOk
<1>9. ASSUME NEW n \in {0, 1}, Compile_LoopOrBlock("block", n)
      PROVE  IInv'
  BY <1>9, LoopOrBlockOk
<1>10. ASSUME NEW n \in {0, 1}, Compile_LoopOrBlock("loop", n)
       PROVE  IInv'
  BY <1>10, LoopOrBlockOk
<1>11. ASSUME NEW n \in {0, 1}, Compile_If(n)
       PROVE  IInv'
  BY <1>11, IfOk
<1>12. ASSUME NEW t \in BranchTarget, Compile_Branch(t)
       PROVE  IInv'
  BY <1>12, BranchOk
<1>13. ASSUME NEW t \in BranchTarget, Compile_BranchIf(t)
       PROVE  IInv'
  BY <1>13, BranchIfOk
<1>14. ASSUME NEW t \in BranchTarget, Compile_BranchIfPrologue(t)
       PROVE  IInv'
  BY <1>14, BranchIfPrologueOk
<1>15. ASSUME NEW n \in 0 .. MaxTargets, Compile_BranchTable(n)
       PROVE  IInv'
  <2>1. n \in Nat
    BY CompilationAssumption
  <2> QED
    BY <1>15, <2>1, BranchTableOk
<1>16. CASE OpenTarget
  BY <1>16, OpenTargetOk
<1>17. ASSUME NEW t \in BranchTarget, CloseTarget(t)
       PROVE  IInv'
  BY <1>17, CloseTargetOk
<1>18. CASE EndBlock
  BY <1>18, EndBlockOk
<1>19. CASE CompileElseBlock
  BY <1>19, CompileElseBlockOk
<1>20. CASE EndElse
  BY <1>20, EndElseOk
<1>21. CASE EndFunction
  BY <1>21, EndFunctionOk
<1>22. CASE EndExpression
  BY <1>22, EndExpressionOk
<1>23. CASE UNCHANGED vars
  BY <1>23, StutterIInv
<1> QED
  BY <1>1, <1>2, <1>3, <1>4, <1>5, <1>6, <1>7, <1>8, <1>9, <1>10, <1>11, <1>12, <1>13,
     <1>14, <1>15, <1>16, <1>17, <1>18, <1>19, <1>20, <1>21, <1>22, <1>23 DEF Next

\* IInv holds in every state of the compiler.
THEOREM Invariance == Spec => []IInv
<1>1. Init => IInv
  BY InitIInv
<1>2. IInv /\ [Next]_vars => IInv'
  BY NextIInv
<1> QED
  BY <1>1, <1>2, PTL DEF Spec

\* Every variable keeps its type: in particular no step of the compiler leaves a
\* page that malloc did not give on a list, or a pointer that is not a line.
THEOREM TypeCorrect == Spec => []TypeOK
<1>1. IInv => TypeOK
  BY DEF IInv, Good, TypeOK
<1> QED
  BY <1>1, Invariance, PTL

\* Page ownership, for any number of runtimes, functions, pages and statements:
\* no page is ever in two places, and what a compilation holds is its own.
THEOREM PagesInOnePlace == Spec => []PageInOnePlace
<1>1. ASSUME IInv
      PROVE  PageInOnePlace
  <2>1. OnePlace(pool)
    BY <1>1 DEF IInv, Good
  <2>2. ASSUME o # NULL
        PROVE  /\ o.page \in pool.active[o.runtime]
               /\ \A i \in Saved :
                    /\ o.scopes[i].saved \in pool.active[o.runtime] \ {o.page}
                    /\ \A j \in Saved : o.scopes[i].saved = o.scopes[j].saved => i = j
    <3>1. /\ ScopesOk(o.scopes)
          /\ o.page \in pool.active[o.runtime]
          /\ HeldPages(o.scopes) \subseteq pool.active[o.runtime] \ {o.page}
      BY <1>1, <2>2 DEF IInv, Owns
    <3>2. ASSUME NEW i \in Saved
          PROVE  /\ i \in 1 .. Len(o.scopes) /\ o.scopes[i].saved # NULL
                 /\ o.scopes[i].saved \in HeldPages(o.scopes)
      BY DEF Saved, Top, HeldPages
    <3>3. \A i, j \in Saved : o.scopes[i].saved = o.scopes[j].saved => i = j
      BY <3>1, <3>2 DEF ScopesOk
    <3> QED
      BY <3>1, <3>2, <3>3
  <2> QED
    BY <2>1, <2>2 DEF PageInOnePlace, HeldPagesActive
<1> QED
  BY <1>1, Invariance, PTL

\* The assertion of ReleaseCodePage always holds: the lists of a runtime and its
\* active pages account for every page it has, so its counters never go below 0.
THEOREM CountersAlwaysAgree == Spec => []CountersAgree
<1>1. IInv => CountersAgree
  BY DEF IInv, Accounted, CountersAgree
<1> QED
  BY <1>1, Invariance, PTL

-----------------------------------------------------------------------------
(* Whose pages                                                             *)

\* The pages on list l, and all pages of runtime r.
On(s, l) == {s.list[l][i] : i \in 1 .. Len(s.list[l])}
PagesOf(s, r) == s.active[r] \cup On(s, Open(r)) \cup On(s, Full(r))

\* The lines of page p.
Lines(s, p) == 1 .. Len(s.code[p])

\* Pages that are with the environment, or not malloc'ed yet, hold no code.
Clean(s) == \A p \in Page : p \in On(s, Released) \/ p > s.sequence => s.code[p] = <<>>

\* The words of job j are on pages of runtime r.
WordsIn(s, j, r) ==
  \A p \in Page : \A i \in Lines(s, p) : s.code[p][i].job = j => p \in PagesOf(s, r)

\* The runtime has no page, and has counted none.
EmptyRuntime(s, r) ==
  /\ s.list[Open(r)] = <<>> /\ s.list[Full(r)] = <<>>
  /\ s.active[r] = {} /\ s.numCodePages[r] = 0

SameRuntime(s, t, q) ==
  /\ t.list[Open(q)] = s.list[Open(q)] /\ t.list[Full(q)] = s.list[Full(q)]
  /\ t.active[q] = s.active[q] /\ t.numCodePages[q] = s.numCodePages[q]

\* The pages grow by words of job j, and of the words that were there only those
\* of job j may change.
Grows(s, t, r, j) ==
  \A p \in Page :
    /\ Len(s.code[p]) <= Len(t.code[p])
    /\ Len(s.code[p]) < Len(t.code[p]) => p \in PagesOf(t, r)
    /\ \A i \in Lines(t, p) :
         IF i \in Lines(s, p)
         THEN /\ t.code[p][i].job = s.code[p][i].job
              /\ s.code[p][i].job # j => t.code[p][i] = s.code[p][i]
         ELSE t.code[p][i].job = j

\* From pool s to pool t, runtime r does part of job j.
Work(s, t, r, j) ==
  /\ \A q \in Runtime \ {r} : SameRuntime(s, t, q)
  /\ PagesOf(s, r) \subseteq PagesOf(t, r)
  /\ Clean(s) => Clean(t)
  /\ Grows(s, t, r, j)

\* The word at pc has been emitted by job j.
EmittedIn(s, pc, j) ==
  pc[2] \in Lines(s, pc[1]) /\ s.code[pc[1]][pc[2]].job = j

\* The pointers that wait for the end of a block, of one of the blocks ss.
Waiting(sc) == sc.patches \cup (IF sc.opcode = "if" THEN {sc.pointer} ELSE {})
Pending(ss) == UNION {Waiting(ss[i]) : i \in 1 .. Len(ss)}

\* What the blocks keep for later, by their kind.
Keeping(sc) ==
  /\ sc.saved # NULL => sc.opcode \in {"else", "target"}
  /\ sc.patches # {} => sc.opcode \in {"block", "if", "else"}
  /\ sc.opcode = "if" => sc.pointer \in PC

-----------------------------------------------------------------------------
(* Where control goes                                                      *)

\* Control that comes to pc finds a word of job j, or comes to the next line of
\* a page of K, where job j will go on.
Reached(s, j, K, pc) ==
  \/ EmittedIn(s, pc, j)
  \/ pc[1] \in K /\ pc[2] = Len(s.code[pc[1]]) + 1

Sound(s, j, K, P) ==
  \A p \in Page : \A i \in Lines(s, p) :
    LET w == s.code[p][i] IN
    w.job = j => /\ w.falls => Reached(s, j, K, <<p, i + 1>>)
                 /\ w.to = Unpatched => <<p, i>> \in P
                 /\ w.to \in PC => Reached(s, j, K, w.to)

-----------------------------------------------------------------------------
(* The invariant of code                                                   *)

\* The finished functions, after j jobs: their words are on pages of their
\* runtime, and lead from one to another.
Finished(s, comp, j) ==
  /\ Clean(s)
  /\ \A p \in Page : \A i \in Lines(s, p) : s.code[p][i].job <= j
  /\ \A f \in DOMAIN comp : comp[f] # NULL =>
       /\ comp[f].job <= j /\ WordsIn(s, comp[f].job, Home[f])
       /\ EmittedIn(s, comp[f].pc, comp[f].job)
       /\ Sound(s, comp[f].job, {}, {})

\* The pages a compilation that writes to page p will write to.
Writes(p, ss) == HeldPages(ss) \cup {p}

\* The compilation c writes to page p: its words lead from one to another, or
\* to where it will go on, and every unpatched pointer is waited for.
Sane(s, p, c) ==
  LET ss == c.scopes
      K  == Writes(p, ss)
  IN  /\ \A i \in 1 .. Len(ss) : Keeping(ss[i]) /\ Reached(s, c.job, K, ss[i].pc)
      /\ \A pc \in Pending(ss) : pc \in PC /\ EmittedIn(s, pc, c.job)
      /\ Sound(s, c.job, K, Pending(ss))
      /\ Reached(s, c.job, K, c.pc)

Begun(c, j) ==
  /\ c.job = j
  /\ c.runtime = IF c.fn = NULL THEN Scratch ELSE Home[c.fn]
  /\ c.scopes[1].opcode = IF c.fn = NULL THEN "expression" ELSE "function"

CInv ==
  /\ Finished(pool, compiled, job)
  /\ o = NULL \/ o.runtime # Scratch => EmptyRuntime(pool, Scratch)
  /\ o # NULL =>
       /\ Begun(o, job)
       /\ \A f \in DOMAIN compiled : compiled[f] # NULL => compiled[f].job # o.job
       /\ WordsIn(pool, o.job, o.runtime)
       /\ Sane(pool, o.page, o)

-----------------------------------------------------------------------------
(* Room                                                                    *)

Fits(s) == \A p \in Page : NumFreeLines(s, p) >= 0

\* Room for the bridge, and on the page of a branch table for the entries left.
RoomFor(s, page, ss) ==
  LET n == Len(ss) IN
  /\ NumFreeLines(s, page) >= 2
  /\ \A q \in HeldPages(ss) : NumFreeLines(s, q) >= 2
  /\ \A i \in 1 .. n : ss[i].opcode = "targets" =>
       i = n \/ (i = n - 1 /\ ss[n].opcode = "target")
  /\ ss[n].opcode = "targets" => NumFreeLines(s, page) >= ss[n].left + 2
  /\ ss[n].opcode = "target" => NumFreeLines(s, ss[n].saved) >= ss[n - 1].left + 2

SInv ==
  ~ignored => Fits(pool) /\ (o # NULL => RoomFor(pool, o.page, o.scopes))

-----------------------------------------------------------------------------
(* Words in the pool of pages                                              *)

LEMMA PoolFacts ==
  ASSUME NEW s \in PoolType, NEW p \in Page
  PROVE  /\ s.code[p] \in Seq(Word) /\ Len(s.code[p]) \in Nat /\ s.numLines[p] \in Nat
         /\ p \in Nat /\ s.sequence \in Nat /\ Lines(s, p) \subseteq Nat
         /\ \A i \in Lines(s, p) : s.code[p][i] \in Word /\ s.code[p][i].job \in Nat
<1>1. s.code[p] \in Seq(Word) /\ s.numLines[p] \in Nat
  BY DEF PoolType
<1>2. p \in Nat /\ s.sequence \in Nat
  BY PageAssumption DEF PoolType, Page
<1>3. \A i \in Lines(s, p) : s.code[p][i] \in Word
  BY <1>1 DEF Lines
<1> QED
  BY <1>1, <1>2, <1>3 DEF Lines, Word

\* b is what is left of pool s, and the page taken from it for runtime r, which
\* has room for n words.
Taken(s, b, r, n) ==
  /\ b.page \in Page /\ b.pool.code = s.code
  /\ \A q \in Runtime \ {r} : /\ b.pool.list[Open(q)] = s.list[Open(q)]
                              /\ b.pool.list[Full(q)] = s.list[Full(q)]
  /\ On(s, Open(r)) \subseteq On(b.pool, Open(r)) \cup {b.page}
  /\ On(s, Full(r)) \subseteq On(b.pool, Full(r))
  /\ On(b.pool, Released) \subseteq On(s, Released)
  /\ b.pool.sequence \in Nat /\ b.pool.sequence >= s.sequence
  /\ \A p \in Page : p <= s.sequence => b.pool.numLines[p] = s.numLines[p]
  /\ Clean(s) => NumFreeLines(b.pool, b.page) >= n

LEMMA RemoveTakes ==
  ASSUME NEW s, Good(s), NEW r \in Runtime, NEW l \in {Open(r), Released}, NEW n \in Nat,
         NEW b \in RemoveCodePageOfCapacity(s, l, n)
  PROVE  Taken(s, b, r, n)
<1>1. PICK i \in FirstFit(s, l, n) :
        b = Outcome([s EXCEPT !.list[l] = RemoveAt(@, i)], s.list[l][i])
  BY DEF RemoveCodePageOfCapacity
<1>2. l \in List /\ s.list \in [List -> Seq(Page)] /\ i \in 1 .. Len(s.list[l])
  BY ListHeads DEF Good, PoolType, FirstFit
<1>3. /\ RemoveAt(s.list[l], i) \in Seq(Page)
      /\ Len(RemoveAt(s.list[l], i)) = Len(s.list[l]) - 1
      /\ \A j \in 1 .. Len(s.list[l]) - 1 :
           RemoveAt(s.list[l], i)[j] = IF j < i THEN s.list[l][j] ELSE s.list[l][j + 1]
  BY <1>2, RemoveAtProperties
<1> DEFINE t == b.pool
           shorter == RemoveAt(s.list[l], i)
<1>4. /\ b.page = s.list[l][i]
      /\ t.list = [s.list EXCEPT ![l] = shorter]
      /\ t.code = s.code /\ t.numLines = s.numLines /\ t.sequence = s.sequence
  BY <1>1 DEF Outcome, Good, PoolType
<1>5. b.page \in Page /\ s.sequence \in Nat
  BY <1>2, <1>4 DEF Good, PoolType
<1> HIDE DEF t, shorter
<1>6. t.list[l] = shorter /\ \A m \in List : m # l => t.list[m] = s.list[m]
  BY <1>2, <1>4
<1>7. On(t, l) \subseteq On(s, l)
  <2> SUFFICES ASSUME NEW x \in On(t, l) PROVE x \in On(s, l)
    OBVIOUS
  <2>1. PICK j \in 1 .. Len(shorter) : x = shorter[j]
    BY <1>6 DEF On
  <2>2. j \in 1 .. Len(s.list[l]) - 1 /\ j \in 1 .. Len(s.list[l])
    BY <1>2, <1>3 DEF shorter
  <2>3. j + 1 \in 1 .. Len(s.list[l])
    BY <1>2, <2>2
  <2>4. \E k \in 1 .. Len(s.list[l]) : s.list[l][k] = shorter[j]
    BY <1>3, <2>2, <2>3 DEF shorter
  <2> QED
    BY <2>1, <2>4 DEF On
<1>8. On(s, l) \subseteq On(t, l) \cup {b.page}
  <2> SUFFICES ASSUME NEW k \in 1 .. Len(s.list[l]), k # i
               PROVE  \E j \in 1 .. Len(shorter) : shorter[j] = s.list[l][k]
    BY <1>4, <1>6 DEF On
  <2>1. CASE k < i
    <3>1. k \in 1 .. Len(s.list[l]) - 1
      BY <1>2, <2>1
    <3> QED
      BY <1>3, <2>1, <3>1 DEF shorter
  <2>2. CASE ~(k < i)
    <3>1. k - 1 \in 1 .. Len(s.list[l]) - 1 /\ ~(k - 1 < i) /\ (k - 1) + 1 = k
      BY <1>2, <2>2
    <3> QED
      BY <1>3, <3>1 DEF shorter
  <2> QED
    BY <2>1, <2>2
<1>9. NumFreeLines(t, b.page) >= n
  BY <1>1, <1>4 DEF FirstFit, NumFreeLines
<1>10. \A m \in List : m # l => On(t, m) = On(s, m)
  BY <1>6 DEF On
<1>11. \A q \in Runtime \ {r} : t.list[Open(q)] = s.list[Open(q)] /\ t.list[Full(q)] = s.list[Full(q)]
  BY <1>6, ListHeads
<1>12. /\ On(s, Open(r)) \subseteq On(t, Open(r)) \cup {b.page}
       /\ On(s, Full(r)) \subseteq On(t, Full(r))
       /\ On(t, Released) \subseteq On(s, Released)
  BY <1>7, <1>8, <1>10, ListHeads
<1>13. \A p \in Page : t.numLines[p] = s.numLines[p]
  BY <1>4
<1>14. t.sequence \in Nat /\ t.sequence >= s.sequence
  BY <1>4, <1>5
<1> QED
  BY <1>4, <1>5, <1>9, <1>11, <1>12, <1>13, <1>14 DEF Taken, t

LEMMA NewTakes ==
  ASSUME NEW s, Good(s), NEW r \in Runtime, NEW n \in Nat, NEW b \in NewCodePage(s, n)
  PROVE  Taken(s, b, r, n)
<1> DEFINE k == s.sequence + 1
<1>1. /\ s.sequence < MaxPages /\ b.page = k
      /\ b.pool = [s EXCEPT !.sequence = k,
                            !.numLines = [s.numLines EXCEPT ![k] = PageLines(n)]]
  BY DEF NewCodePage, Outcome
<1>2. s.sequence \in Nat /\ k \in Page /\ k > s.sequence /\ k \in Nat
  BY <1>1, PageAssumption DEF Good, PoolType, Page
<1> HIDE DEF k
<1>3. /\ b.pool.list = s.list /\ b.pool.code = s.code /\ b.pool.sequence = k
      /\ b.pool.numLines = [s.numLines EXCEPT ![k] = PageLines(n)]
  BY <1>1 DEF Good, PoolType
<1>4. \A p \in Page : b.pool.numLines[p] = IF p = k THEN PageLines(n) ELSE s.numLines[p]
  BY <1>3 DEF Good, PoolType
<1>5. Clean(s) => NumFreeLines(b.pool, k) >= n
  <2>1. Clean(s) => b.pool.code[k] = <<>>
    BY <1>2, <1>3 DEF Clean
  <2>2. b.pool.numLines[k] = PageLines(n) /\ PageLines(n) \in Nat /\ PageLines(n) >= n
    BY <1>2, <1>4, PageLinesEnough
  <2> QED
    BY <2>1, <2>2 DEF NumFreeLines
<1>6. \A p \in Page : p <= s.sequence => b.pool.numLines[p] = s.numLines[p]
  <2> SUFFICES ASSUME NEW p \in Page, p <= s.sequence
               PROVE  p # k
    BY <1>4
  <2> QED
    BY <1>2 DEF Page
<1> QED
  BY <1>1, <1>2, <1>3, <1>5, <1>6 DEF Taken, On

\* What acquiring a page does to the code (nothing), to the pages of its runtime
\* and of the others, and to the room on every page.
LEMMA AcquireDoes ==
  ASSUME NEW s, Good(s), NEW r \in Runtime, NEW n \in Nat,
         NEW a \in AcquireCodePageWithCapacity(s, r, n)
  PROVE  /\ a.page = NULL => a.pool = s
         /\ a.page # NULL =>
              /\ a.page \in Page /\ a.pool.code = s.code /\ a.page \in PagesOf(a.pool, r)
              /\ \A q \in Runtime \ {r} : SameRuntime(s, a.pool, q)
              /\ PagesOf(s, r) \subseteq PagesOf(a.pool, r)
              /\ Clean(s) => Clean(a.pool) /\ NumFreeLines(a.pool, a.page) >= n
              /\ \A p \in Page : p <= s.sequence => a.pool.numLines[p] = s.numLines[p]
              /\ a.pool.sequence >= s.sequence
<1> DEFINE open     == RemoveCodePageOfCapacity(s, Open(r), n)
           released == RemoveCodePageOfCapacity(s, Released, n)
<1>1. \/ a = Outcome(s, NULL)
      \/ \E b \in open : a = Outcome(Activate(b.pool, r, b.page, 0), b.page)
      \/ \E b \in released \cup NewCodePage(s, n) :
           a = Outcome(Activate(b.pool, r, b.page, 1), b.page)
  BY DEF AcquireCodePageWithCapacity
<1>2. ASSUME NEW b \in open \cup released \cup NewCodePage(s, n)
      PROVE  Taken(s, b, r, n) /\ Good(b.pool) /\ b.pool.active = s.active /\ SameCounters(s, b.pool)
  BY ListHeads, RemoveCodePageGood, NewCodePageGood, RemoveTakes, NewTakes
<1> HIDE DEF open, released
<1>3. ASSUME NEW b, Taken(s, b, r, n), Good(b.pool), b.pool.active = s.active,
             SameCounters(s, b.pool), NEW owned \in {0, 1},
             a = Outcome(Activate(b.pool, r, b.page, owned), b.page)
      PROVE  /\ a.page # NULL /\ a.page \in Page /\ a.pool.code = s.code
             /\ a.page \in PagesOf(a.pool, r)
             /\ \A q \in Runtime \ {r} : SameRuntime(s, a.pool, q)
             /\ PagesOf(s, r) \subseteq PagesOf(a.pool, r)
             /\ Clean(s) => Clean(a.pool) /\ NumFreeLines(a.pool, a.page) >= n
             /\ \A p \in Page : p <= s.sequence => a.pool.numLines[p] = s.numLines[p]
             /\ a.pool.sequence >= s.sequence
  <2> DEFINE t == Activate(b.pool, r, b.page, owned)
  <2>1. a.pool = t /\ a.page = b.page /\ b.page \in Page
    BY <1>3 DEF Outcome, Taken
  <2>2. /\ t.list = b.pool.list /\ t.code = b.pool.code /\ t.numLines = b.pool.numLines
        /\ t.sequence = b.pool.sequence
        /\ t.active = [s.active EXCEPT ![r] = s.active[r] \cup {b.page}]
        /\ t.numCodePages = [s.numCodePages EXCEPT ![r] = s.numCodePages[r] + owned]
    BY <1>3 DEF Activate, Good, PoolType, SameCounters
  <2> HIDE DEF t
  <2>3. /\ t.active[r] = s.active[r] \cup {b.page}
        /\ \A q \in Runtime \ {r} : /\ t.active[q] = s.active[q]
                                    /\ t.numCodePages[q] = s.numCodePages[q]
    BY <2>2 DEF Good, PoolType
  <2>4. \A l : On(t, l) = On(b.pool, l)
    BY <2>2 DEF On
  <2>5. \A q \in Runtime \ {r} : SameRuntime(s, t, q)
    BY <1>3, <2>2, <2>3 DEF Taken, SameRuntime
  <2>6. b.page \in PagesOf(t, r) /\ PagesOf(s, r) \subseteq PagesOf(t, r)
    BY <1>3, <2>3, <2>4 DEF Taken, PagesOf
  <2>7. Clean(s) => Clean(t)
    <3> SUFFICES ASSUME Clean(s), NEW p \in Page, p \in On(t, Released) \/ p > t.sequence
                 PROVE  t.code[p] = <<>>
      BY DEF Clean
    <3>1. s.sequence \in Nat /\ p \in Nat
      BY PoolFacts DEF Good
    <3>2. p \in On(s, Released) \/ p > s.sequence
      BY <1>3, <2>2, <2>4, <3>1 DEF Taken
    <3> QED
      BY <1>3, <2>2, <3>2 DEF Clean, Taken
  <2>8. Clean(s) => NumFreeLines(t, b.page) >= n
    BY <1>3, <2>2 DEF Taken, NumFreeLines
  <2>9. b.page # NULL
    BY <2>1, CompilationAssumption
  <2>10. /\ \A p \in Page : p <= s.sequence => t.numLines[p] = s.numLines[p]
         /\ t.sequence >= s.sequence /\ t.code = s.code
    BY <1>3, <2>2 DEF Taken
  <2> QED
    BY <2>1, <2>5, <2>6, <2>7, <2>8, <2>9, <2>10
<1>4. CASE a = Outcome(s, NULL)
  BY <1>4 DEF Outcome
<1>5. ASSUME NEW b \in open, a = Outcome(Activate(b.pool, r, b.page, 0), b.page)
      PROVE  a.page # NULL /\ \E owned \in {0, 1} : a = Outcome(Activate(b.pool, r, b.page, owned), b.page)
  BY <1>2, <1>3, <1>5
<1> QED
  BY <1>1, <1>2, <1>3, <1>4

LEMMA ReleaseDoes ==
  ASSUME NEW s, Good(s), NEW r \in Runtime, NEW p \in s.active[r]
  PROVE  LET t == ReleaseCodePage(s, r, p) IN
         /\ t.code = s.code /\ t.numLines = s.numLines /\ t.sequence = s.sequence
         /\ \A q \in Runtime \ {r} : SameRuntime(s, t, q)
         /\ PagesOf(s, r) \subseteq PagesOf(t, r)
         /\ On(t, Released) = On(s, Released)
<1> DEFINE t == ReleaseCodePage(s, r, p)
<1>1. PICK l \in {Open(r), Full(r)} :
        t = [s EXCEPT !.list               = [s.list EXCEPT ![l] = <<p>> \o s.list[l]],
                      !.numActiveCodePages = [s.numActiveCodePages EXCEPT ![r] = @ - 1],
                      !.active             = [s.active EXCEPT ![r] = @ \ {p}]]
  BY DEF ReleaseCodePage
<1>2. l \in List /\ p \in Page /\ s.list[l] \in Seq(Page) /\ Len(s.list[l]) \in Nat
  BY ListHeads DEF Good, PoolType
<1> DEFINE longer == <<p>> \o s.list[l]
<1>3. /\ Len(longer) = Len(s.list[l]) + 1
      /\ \A i \in 1 .. Len(s.list[l]) + 1 :
           longer[i] = IF i = 1 THEN p ELSE s.list[l][i - 1]
  BY <1>2, PrependProperties
<1>4. /\ t.list = [s.list EXCEPT ![l] = longer]
      /\ t.code = s.code /\ t.numLines = s.numLines /\ t.sequence = s.sequence
      /\ t.numCodePages = s.numCodePages
      /\ t.active = [s.active EXCEPT ![r] = s.active[r] \ {p}]
  BY <1>1 DEF Good, PoolType
<1> HIDE DEF t, longer
<1>5. /\ t.list[l] = longer /\ \A m \in List : m # l => t.list[m] = s.list[m]
      /\ t.active[r] = s.active[r] \ {p}
      /\ \A q \in Runtime \ {r} : t.active[q] = s.active[q]
  BY <1>2, <1>4 DEF Good, PoolType
<1>6. p \in On(t, l) /\ On(s, l) \subseteq On(t, l)
  <2>1. 1 \in 1 .. Len(longer) /\ longer[1] = p
    BY <1>2, <1>3
  <2>2. ASSUME NEW i \in 1 .. Len(s.list[l])
        PROVE  \E k \in 1 .. Len(longer) : longer[k] = s.list[l][i]
    <3>1. i + 1 \in 1 .. Len(s.list[l]) + 1 /\ i + 1 # 1 /\ (i + 1) - 1 = i
      BY <1>2
    <3> QED
      BY <1>3, <3>1
  <2> QED
    BY <1>5, <2>1, <2>2 DEF On
<1>7. \A m \in List : m # l => On(t, m) = On(s, m)
  BY <1>5 DEF On
<1>8. PagesOf(s, r) \subseteq PagesOf(t, r)
  BY <1>5, <1>6, <1>7, ListHeads DEF PagesOf
<1>9. \A q \in Runtime \ {r} : SameRuntime(s, t, q)
  BY <1>4, <1>5, ListHeads DEF SameRuntime
<1>10. On(t, Released) = On(s, Released)
  BY <1>7, ListHeads
<1> QED
  BY <1>4, <1>8, <1>9, <1>10 DEF t

LEMMA ReleaseListDoes ==
  ASSUME NEW s, Good(s), NEW l \in List \ {Released}
  PROVE  LET t == Environment_ReleaseCodePages(s, l) IN
         /\ On(t, l) = {} /\ t.list[l] = <<>>
         /\ \A m \in List \ {Released, l} : t.list[m] = s.list[m]
         /\ On(t, Released) = On(s, l) \cup On(s, Released)
         /\ \A p \in Page : t.code[p] = IF p \in On(s, l) THEN <<>> ELSE s.code[p]
         /\ t.numLines = s.numLines /\ t.sequence = s.sequence
         /\ t.active = s.active /\ t.numCodePages = s.numCodePages
<1> DEFINE t == Environment_ReleaseCodePages(s, l)
           joined == s.list[l] \o s.list[Released]
           code1 == [p \in Page |->
                        IF \E i \in 1 .. Len(s.list[l]) : s.list[l][i] = p
                        THEN <<>> ELSE s.code[p]]
<1>1. t = [s EXCEPT !.list = [s.list EXCEPT ![Released] = joined, ![l] = <<>>],
                    !.code = code1]
  BY DEF Environment_ReleaseCodePages
<1>2. /\ s.list[l] \in Seq(Page) /\ s.list[Released] \in Seq(Page)
      /\ Released \in List /\ l \in List /\ l # Released
  BY DEF Good, PoolType, List
<1>3. \A p \in Page : code1[p] = IF p \in On(s, l) THEN <<>> ELSE s.code[p]
  BY DEF On
<1> HIDE DEF code1, joined
<1>4. /\ t.list = [s.list EXCEPT ![Released] = joined, ![l] = <<>>]
      /\ t.code = code1 /\ t.numLines = s.numLines /\ t.sequence = s.sequence
      /\ t.active = s.active /\ t.numCodePages = s.numCodePages
  BY <1>1 DEF Good, PoolType
<1> HIDE DEF t
<1>5. /\ t.list[l] = <<>> /\ t.list[Released] = joined
      /\ \A m \in List \ {Released, l} : t.list[m] = s.list[m]
  BY <1>2, <1>4 DEF Good, PoolType
<1>6. On(t, l) = {}
  <2>1. Len(t.list[l]) = 0
    BY <1>5
  <2> QED
    BY <2>1 DEF On
<1>7. On(t, Released) = On(s, l) \cup On(s, Released)
  <2>1. joined \in Seq(Page)
    BY <1>2, ConcatProperties DEF joined
  <2>2. Range(joined) = Range(s.list[l]) \cup Range(s.list[Released])
    BY <1>2, RangeConcatenation DEF joined
  <2>3. On(t, Released) = Range(joined)
    BY <1>5, <2>1, RangeEquality DEF On
  <2>4. On(s, l) = Range(s.list[l])
    BY <1>2, RangeEquality DEF On
  <2>5. On(s, Released) = Range(s.list[Released])
    BY <1>2, RangeEquality DEF On
  <2> QED
    BY <2>2, <2>3, <2>4, <2>5
<1> QED
  BY <1>3, <1>4, <1>5, <1>6, <1>7 DEF t

LEMMA Runtime_ReleaseDoes ==
  ASSUME NEW s, Good(s), NEW r \in Runtime
  PROVE  LET t == Runtime_Release(s, r) IN
         /\ EmptyRuntime(t, r) /\ PagesOf(t, r) = {}
         /\ \A q \in Runtime \ {r} : SameRuntime(s, t, q)
         /\ \A p \in Page : t.code[p] = IF p \in On(s, Open(r)) \cup On(s, Full(r))
                                        THEN <<>> ELSE s.code[p]
         /\ t.numLines = s.numLines
         /\ Clean(s) => Clean(t)
<1> DEFINE s1 == Environment_ReleaseCodePages(s, Open(r))
           s2 == Environment_ReleaseCodePages(s1, Full(r))
           t  == Runtime_Release(s, r)
<1>1. Open(r) \in List \ {Released} /\ Full(r) \in List \ {Released} /\ Open(r) # Full(r)
  BY ListHeads
<1>2. Good(s1) /\ Good(s2)
  BY <1>1, ReleaseCodePagesGood
<1>3. /\ s1.list[Open(r)] = <<>>
      /\ \A m \in List \ {Released, Open(r)} : s1.list[m] = s.list[m]
      /\ On(s1, Released) = On(s, Open(r)) \cup On(s, Released)
      /\ \A p \in Page : s1.code[p] = IF p \in On(s, Open(r)) THEN <<>> ELSE s.code[p]
      /\ s1.numLines = s.numLines /\ s1.sequence = s.sequence
      /\ s1.active = s.active /\ s1.numCodePages = s.numCodePages
  BY <1>1, ReleaseListDoes
<1> HIDE DEF s1
<1>4. /\ s2.list[Full(r)] = <<>>
      /\ \A m \in List \ {Released, Full(r)} : s2.list[m] = s1.list[m]
      /\ On(s2, Released) = On(s1, Full(r)) \cup On(s1, Released)
      /\ \A p \in Page : s2.code[p] = IF p \in On(s1, Full(r)) THEN <<>> ELSE s1.code[p]
      /\ s2.numLines = s1.numLines /\ s2.sequence = s1.sequence
      /\ s2.active = s1.active /\ s2.numCodePages = s1.numCodePages
  BY <1>1, <1>2, ReleaseListDoes
<1>5. t = [s2 EXCEPT !.numCodePages[r] = 0, !.numActiveCodePages[r] = 0, !.active[r] = {}]
  BY DEF Runtime_Release, s1
<1> HIDE DEF s2, t
<1>6. /\ t.list = s2.list /\ t.code = s2.code /\ t.numLines = s2.numLines
      /\ t.sequence = s2.sequence
      /\ t.numCodePages = [s2.numCodePages EXCEPT ![r] = 0]
      /\ t.active = [s2.active EXCEPT ![r] = {}]
  BY <1>2, <1>5 DEF Good, PoolType
<1>7. /\ t.numCodePages[r] = 0 /\ t.active[r] = {}
      /\ \A q \in Runtime \ {r} : /\ t.numCodePages[q] = s2.numCodePages[q]
                                  /\ t.active[q] = s2.active[q]
  BY <1>2, <1>6 DEF Good, PoolType
<1>8. EmptyRuntime(t, r)
  BY <1>1, <1>3, <1>4, <1>6, <1>7 DEF EmptyRuntime
<1>9. ASSUME NEW q \in Runtime \ {r}
      PROVE  SameRuntime(s, t, q)
  <2>1. /\ Open(q) \in List \ {Released, Open(r), Full(r)}
        /\ Full(q) \in List \ {Released, Open(r), Full(r)}
    BY ListHeads
  <2> QED
    BY <1>3, <1>4, <1>6, <1>7, <2>1 DEF SameRuntime
<1>10. On(s1, Full(r)) = On(s, Full(r))
  BY <1>1, <1>3 DEF On
<1>11. \A p \in Page : t.code[p] = IF p \in On(s, Open(r)) \cup On(s, Full(r))
                                   THEN <<>> ELSE s.code[p]
  BY <1>3, <1>4, <1>6, <1>10
<1>12. On(t, Released) = On(s, Full(r)) \cup On(s, Open(r)) \cup On(s, Released)
  <2>1. On(t, Released) = On(s2, Released)
    BY <1>6 DEF On
  <2> QED
    BY <1>3, <1>4, <1>10, <2>1
<1>13. Clean(s) => Clean(t)
  BY <1>3, <1>4, <1>6, <1>11, <1>12 DEF Clean
<1>14. PagesOf(t, r) = {}
  <2>1. Len(t.list[Open(r)]) = 0 /\ Len(t.list[Full(r)]) = 0
    BY <1>8 DEF EmptyRuntime
  <2> QED
    BY <1>7, <2>1 DEF PagesOf, On
<1> QED
  BY <1>3, <1>4, <1>6, <1>8, <1>9, <1>11, <1>13, <1>14 DEF t

LEMMA Environment_ReleaseDoes ==
  ASSUME NEW s, Good(s)
  PROVE  LET t == Environment_Release(s) IN
         /\ t.code = s.code
         /\ \A q \in Runtime : SameRuntime(s, t, q) /\ PagesOf(t, q) = PagesOf(s, q)
         /\ \A p \in Page : t.numLines[p] = IF p \in On(s, Released) THEN 0 ELSE s.numLines[p]
         /\ Clean(s) => Clean(t)
<1> DEFINE t == Environment_Release(s)
           lines1 == [p \in Page |-> IF \E i \in 1 .. Len(s.list[Released]) :
                                          s.list[Released][i] = p
                                     THEN 0 ELSE s.numLines[p]]
<1>1. t = [s EXCEPT !.numLines = lines1, !.list = [s.list EXCEPT ![Released] = <<>>]]
  BY DEF Environment_Release
<1>2. \A p \in Page : lines1[p] = IF p \in On(s, Released) THEN 0 ELSE s.numLines[p]
  BY DEF On
<1> HIDE DEF t, lines1
<1>3. /\ t.list = [s.list EXCEPT ![Released] = <<>>] /\ t.code = s.code
      /\ t.numLines = lines1 /\ t.sequence = s.sequence
      /\ t.active = s.active /\ t.numCodePages = s.numCodePages
  BY <1>1 DEF Good, PoolType
<1>4. \A q \in Runtime : t.list[Open(q)] = s.list[Open(q)] /\ t.list[Full(q)] = s.list[Full(q)]
  BY <1>3, ListHeads DEF Good, PoolType
<1>5. \A q \in Runtime : SameRuntime(s, t, q) /\ PagesOf(t, q) = PagesOf(s, q)
  BY <1>3, <1>4 DEF SameRuntime, PagesOf, On
<1>6. On(t, Released) = {}
  <2>1. Len(t.list[Released]) = 0
    BY <1>3, ListHeads DEF Good, PoolType, List
  <2> QED
    BY <2>1 DEF On
<1>7. Clean(s) => Clean(t)
  BY <1>3, <1>6 DEF Clean
<1> QED
  BY <1>2, <1>3, <1>5, <1>7 DEF t

\* The pages of two runtimes are apart.
LEMMA PagesApart ==
  ASSUME NEW s, Good(s), NEW q \in Runtime, NEW r \in Runtime, q # r
  PROVE  /\ PagesOf(s, q) \cap PagesOf(s, r) = {}
         /\ PagesOf(s, q) \subseteq Page
<1>1. /\ Open(q) \in List /\ Full(q) \in List /\ Open(r) \in List /\ Full(r) \in List
      /\ Open(q) # Open(r) /\ Open(q) # Full(r) /\ Full(q) # Open(r) /\ Full(q) # Full(r)
  BY ListHeads
<1>2. ASSUME NEW l \in List, NEW m \in List, l # m
      PROVE  On(s, l) \cap On(s, m) = {}
  BY <1>2 DEF Good, OnePlace, On
<1>3. \A l \in List : On(s, l) \cap s.active[q] = {} /\ On(s, l) \cap s.active[r] = {}
  BY DEF Good, OnePlace, On
<1>4. s.active[q] \cap s.active[r] = {}
  BY DEF Good, OnePlace
<1>5. \A l \in List : On(s, l) \subseteq Page
  BY DEF Good, PoolType, On
<1>6. s.active[q] \subseteq Page
  BY DEF Good, PoolType
<1>7. /\ On(s, Open(q)) \cap On(s, Open(r)) = {} /\ On(s, Open(q)) \cap On(s, Full(r)) = {}
      /\ On(s, Full(q)) \cap On(s, Open(r)) = {} /\ On(s, Full(q)) \cap On(s, Full(r)) = {}
  BY <1>1, <1>2
<1> QED
  BY <1>1, <1>3, <1>4, <1>5, <1>6, <1>7 DEF PagesOf

-----------------------------------------------------------------------------
(* What a step of a job does to the pool                                   *)

LEMMA EmitDoes ==
  ASSUME NEW s, Good(s), NEW p \in Page, NEW words \in Seq(Word)
  PROVE  LET t == EmitWords(s, p, words) IN
         /\ t.list = s.list /\ t.active = s.active /\ t.numCodePages = s.numCodePages
         /\ t.numLines = s.numLines /\ t.sequence = s.sequence
         /\ \A q \in Page \ {p} : t.code[q] = s.code[q]
         /\ Len(t.code[p]) = Len(s.code[p]) + Len(words)
         /\ \A i \in Lines(s, p) : i \in Lines(t, p) /\ t.code[p][i] = s.code[p][i]
         /\ \A i \in Lines(t, p) \ Lines(s, p) :
              /\ i - Len(s.code[p]) \in 1 .. Len(words)
              /\ t.code[p][i] = words[i - Len(s.code[p])]
<1> DEFINE t == EmitWords(s, p, words)
           old == s.code[p]
           new == old \o words
<1>1. /\ old \in Seq(Word) /\ Len(old) \in Nat /\ Len(words) \in Nat
      /\ Len(new) = Len(old) + Len(words)
      /\ \A i \in 1 .. Len(old) + Len(words) :
           new[i] = IF i <= Len(old) THEN old[i] ELSE words[i - Len(old)]
  BY ConcatProperties DEF Good, PoolType
<1>2. t = [s EXCEPT !.code = [s.code EXCEPT ![p] = new]]
  BY DEF EmitWords
<1> HIDE DEF t, new
<1>3. /\ t.list = s.list /\ t.active = s.active /\ t.numCodePages = s.numCodePages
      /\ t.numLines = s.numLines /\ t.sequence = s.sequence
      /\ t.code = [s.code EXCEPT ![p] = new]
  BY <1>2 DEF Good, PoolType
<1>4. t.code[p] = new /\ \A q \in Page \ {p} : t.code[q] = s.code[q]
  BY <1>3 DEF Good, PoolType
<1> HIDE DEF old
<1>5. \A i \in 1 .. Len(old) : i \in 1 .. Len(new) /\ new[i] = old[i]
  BY <1>1
<1>6. ASSUME NEW i \in 1 .. Len(new), i \notin 1 .. Len(old)
      PROVE  i - Len(old) \in 1 .. Len(words) /\ new[i] = words[i - Len(old)]
  <2>1. i \in 1 .. Len(old) + Len(words) /\ ~(i <= Len(old)) /\ i - Len(old) \in 1 .. Len(words)
    BY <1>1, <1>6
  <2> QED
    BY <1>1, <2>1
<1> QED
  BY <1>1, <1>3, <1>4, <1>5, <1>6 DEF Lines, t, old

LEMMA PatchDoes ==
  ASSUME NEW s, Good(s), NEW pcs, NEW target \in PC
  PROVE  LET t == SetPointers(s, pcs, target) IN
         /\ t.list = s.list /\ t.active = s.active /\ t.numCodePages = s.numCodePages
         /\ t.numLines = s.numLines /\ t.sequence = s.sequence
         /\ \A p \in Page : Len(t.code[p]) = Len(s.code[p]) /\ Lines(t, p) = Lines(s, p)
         /\ \A p \in Page : \A i \in Lines(s, p) :
              /\ t.code[p][i].job = s.code[p][i].job
              /\ t.code[p][i].falls = s.code[p][i].falls
              /\ <<p, i>> \in pcs => t.code[p][i].to = target
              /\ <<p, i>> \notin pcs => t.code[p][i] = s.code[p][i]
<1> DEFINE t == SetPointers(s, pcs, target)
           new == [p \in Page |-> [i \in 1 .. Len(s.code[p]) |->
                     IF <<p, i>> \in pcs THEN [s.code[p][i] EXCEPT !.to = target]
                                         ELSE s.code[p][i]]]
<1>1. t = [s EXCEPT !.code = new]
  BY DEF SetPointers
<1>2. ASSUME NEW p \in Page, NEW i \in Lines(s, p)
      PROVE  /\ new[p][i].job = s.code[p][i].job
             /\ new[p][i].falls = s.code[p][i].falls
             /\ <<p, i>> \in pcs => new[p][i].to = target
             /\ <<p, i>> \notin pcs => new[p][i] = s.code[p][i]
  <2> DEFINE w == s.code[p][i]
  <2>1. w \in Word
    BY PoolFacts DEF Good
  <2>2. new[p][i] = IF <<p, i>> \in pcs THEN [w EXCEPT !.to = target] ELSE w
    BY DEF Lines
  <2> HIDE DEF new, w
  <2>3. /\ [w EXCEPT !.to = target].job = w.job /\ [w EXCEPT !.to = target].falls = w.falls
        /\ [w EXCEPT !.to = target].to = target
    BY <2>1 DEF Word
  <2> QED
    BY <2>2, <2>3 DEF w
<1> HIDE DEF t, new
<1>3. /\ t.list = s.list /\ t.active = s.active /\ t.numCodePages = s.numCodePages
      /\ t.numLines = s.numLines /\ t.sequence = s.sequence
      /\ t.code = new
  BY <1>1 DEF Good, PoolType
<1>4. \A p \in Page : Len(t.code[p]) = Len(s.code[p])
  BY SetPointersGood DEF t
<1> QED
  BY <1>2, <1>3, <1>4 DEF Lines, t

\* Pools with the same lists and active pages have the same pages.
LEMMA SamePages ==
  ASSUME NEW s, NEW t, t.list = s.list, t.active = s.active, t.numCodePages = s.numCodePages
  PROVE  /\ \A r : PagesOf(t, r) = PagesOf(s, r)
         /\ \A l : On(t, l) = On(s, l)
         /\ \A q \in Runtime : SameRuntime(s, t, q)
BY DEF PagesOf, On, SameRuntime

LEMMA EmitWork ==
  ASSUME NEW s, Good(s), NEW r \in Runtime, NEW p \in s.active[r], NEW j,
         NEW words \in Seq(Word), \A k \in 1 .. Len(words) : words[k].job = j
  PROVE  Work(s, EmitWords(s, p, words), r, j)
<1> DEFINE t == EmitWords(s, p, words)
<1>1. p \in Page /\ p \in PagesOf(s, r)
  BY DEF Good, PoolType, PagesOf
<1>2. /\ t.list = s.list /\ t.active = s.active /\ t.numCodePages = s.numCodePages
      /\ t.numLines = s.numLines /\ t.sequence = s.sequence
      /\ \A q \in Page \ {p} : t.code[q] = s.code[q]
      /\ Len(t.code[p]) = Len(s.code[p]) + Len(words)
      /\ \A i \in Lines(s, p) : i \in Lines(t, p) /\ t.code[p][i] = s.code[p][i]
      /\ \A i \in Lines(t, p) \ Lines(s, p) :
           /\ i - Len(s.code[p]) \in 1 .. Len(words)
           /\ t.code[p][i] = words[i - Len(s.code[p])]
  BY <1>1, EmitDoes
<1> HIDE DEF t
<1>3. /\ PagesOf(t, r) = PagesOf(s, r) /\ On(t, Released) = On(s, Released)
      /\ \A q \in Runtime : SameRuntime(s, t, q)
  BY <1>2, SamePages
<1>4. p \notin On(s, Released) /\ ~(p > s.sequence)
  <2>1. p \notin On(s, Released)
    BY ListHeads DEF Good, OnePlace, On
  <2>2. p <= s.sequence /\ p \in Nat /\ s.sequence \in Nat
    BY <1>1, PoolFacts DEF Good, OnePlace
  <2> QED
    BY <2>1, <2>2
<1>5. Clean(s) => Clean(t)
  BY <1>2, <1>3, <1>4 DEF Clean
<1>6. ASSUME NEW q \in Page
      PROVE  /\ Len(s.code[q]) <= Len(t.code[q])
             /\ Len(s.code[q]) < Len(t.code[q]) => q \in PagesOf(t, r)
             /\ \A i \in Lines(t, q) :
                  IF i \in Lines(s, q)
                  THEN /\ t.code[q][i].job = s.code[q][i].job
                       /\ s.code[q][i].job # j => t.code[q][i] = s.code[q][i]
                  ELSE t.code[q][i].job = j
  <2>0. Len(s.code[q]) \in Nat
    BY PoolFacts DEF Good
  <2>1. CASE q = p
    <3>1. Len(s.code[q]) <= Len(t.code[q])
      BY <1>2, <2>0, <2>1
    <3>2. q \in PagesOf(t, r)
      BY <1>1, <1>3, <2>1
    <3>3. ASSUME NEW i \in Lines(t, p), i \notin Lines(s, p)
          PROVE  t.code[p][i].job = j
      BY <1>2, <3>3
    <3>4. ASSUME NEW i \in Lines(t, p), i \in Lines(s, p)
          PROVE  t.code[p][i] = s.code[p][i]
      BY <1>2, <3>4
    <3> QED
      BY <2>1, <3>1, <3>2, <3>3, <3>4
  <2>2. CASE q # p
    BY <1>2, <2>0, <2>2 DEF Lines
  <2> QED
    BY <2>1, <2>2
<1>7. Grows(s, t, r, j)
  BY <1>6 DEF Grows
<1> QED
  BY <1>3, <1>5, <1>7 DEF Work, t

LEMMA PatchWork ==
  ASSUME NEW s, Good(s), NEW r \in Runtime, NEW j, NEW pcs, NEW target \in PC,
         \A pc \in pcs : EmittedIn(s, pc, j)
  PROVE  Work(s, SetPointers(s, pcs, target), r, j)
<1> DEFINE t == SetPointers(s, pcs, target)
<1>1. /\ t.list = s.list /\ t.active = s.active /\ t.numCodePages = s.numCodePages
      /\ t.numLines = s.numLines /\ t.sequence = s.sequence
      /\ \A p \in Page : Len(t.code[p]) = Len(s.code[p]) /\ Lines(t, p) = Lines(s, p)
      /\ \A p \in Page : \A i \in Lines(s, p) :
           /\ t.code[p][i].job = s.code[p][i].job
           /\ <<p, i>> \notin pcs => t.code[p][i] = s.code[p][i]
  BY PatchDoes
<1> HIDE DEF t
<1>2. /\ PagesOf(t, r) = PagesOf(s, r) /\ On(t, Released) = On(s, Released)
      /\ \A q \in Runtime : SameRuntime(s, t, q)
  BY <1>1, SamePages
<1>3. Clean(s) => Clean(t)
  <2> SUFFICES ASSUME Clean(s), NEW p \in Page, s.code[p] = <<>>
               PROVE  t.code[p] = <<>>
    BY <1>1, <1>2 DEF Clean
  <2>1. t.code[p] \in Seq(Word) /\ Len(t.code[p]) = 0
    BY <1>1, SetPointersGood DEF Good, PoolType, t
  <2> QED
    BY <2>1
<1>4. ASSUME NEW p \in Page, NEW i \in Lines(s, p)
      PROVE  s.code[p][i].job # j => <<p, i>> \notin pcs
  BY DEF EmittedIn
<1>5. \A p \in Page : Len(s.code[p]) \in Nat
  BY PoolFacts DEF Good
<1>6. ASSUME NEW p \in Page
      PROVE  /\ Len(s.code[p]) <= Len(t.code[p]) /\ ~(Len(s.code[p]) < Len(t.code[p]))
             /\ Lines(t, p) = Lines(s, p)
             /\ \A i \in Lines(s, p) :
                  /\ t.code[p][i].job = s.code[p][i].job
                  /\ s.code[p][i].job # j => t.code[p][i] = s.code[p][i]
  <2>1. Len(t.code[p]) = Len(s.code[p]) /\ Len(s.code[p]) \in Nat
    BY <1>1, <1>5
  <2>2. Len(s.code[p]) <= Len(t.code[p]) /\ ~(Len(s.code[p]) < Len(t.code[p]))
    BY <2>1
  <2> QED
    BY <1>1, <1>4, <2>2
<1>7. Grows(s, t, r, j)
  BY <1>6 DEF Grows
<1> QED
  BY <1>2, <1>3, <1>7 DEF Work, t

\* No word is written.
LEMMA SameCodeGrows ==
  ASSUME NEW s, Good(s), NEW t, t.code = s.code, NEW r, NEW j
  PROVE  Grows(s, t, r, j)
<1>1. \A p \in Page : Len(s.code[p]) \in Nat
  BY PoolFacts DEF Good
<1> QED
  BY <1>1 DEF Grows, Lines

LEMMA NoWork ==
  ASSUME NEW s, Good(s), NEW r \in Runtime, NEW j
  PROVE  Work(s, s, r, j)
BY SameCodeGrows DEF Work, SameRuntime

LEMMA AcquireWork ==
  ASSUME NEW s, Good(s), NEW r \in Runtime, NEW n \in Nat, NEW j,
         NEW a \in AcquireCodePageWithCapacity(s, r, n)
  PROVE  Work(s, a.pool, r, j)
<1>1. CASE a.page = NULL
  BY <1>1, AcquireDoes, NoWork
<1>2. CASE a.page # NULL
  BY <1>2, AcquireDoes, SameCodeGrows DEF Work
<1> QED
  BY <1>1, <1>2

LEMMA ReleaseWork ==
  ASSUME NEW s, Good(s), NEW r \in Runtime, NEW p \in s.active[r], NEW j
  PROVE  Work(s, ReleaseCodePage(s, r, p), r, j)
<1> DEFINE t == ReleaseCodePage(s, r, p)
<1>1. /\ t.code = s.code /\ t.numLines = s.numLines /\ t.sequence = s.sequence
      /\ \A q \in Runtime \ {r} : SameRuntime(s, t, q)
      /\ PagesOf(s, r) \subseteq PagesOf(t, r)
      /\ On(t, Released) = On(s, Released)
  BY ReleaseDoes
<1> HIDE DEF t
<1>2. Clean(s) => Clean(t)
  BY <1>1 DEF Clean
<1> QED
  BY <1>1, <1>2, SameCodeGrows DEF Work, t

LEMMA WorkTransitive ==
  ASSUME NEW s \in PoolType, NEW t \in PoolType, NEW u \in PoolType, NEW r \in Runtime, NEW j,
         Work(s, t, r, j), Work(t, u, r, j)
  PROVE  Work(s, u, r, j)
<1>1. \A q \in Runtime \ {r} : SameRuntime(s, u, q)
  BY DEF Work, SameRuntime
<1>2. ASSUME NEW p \in Page
      PROVE  /\ Len(s.code[p]) <= Len(u.code[p])
             /\ Len(s.code[p]) < Len(u.code[p]) => p \in PagesOf(u, r)
             /\ \A i \in Lines(u, p) :
                  IF i \in Lines(s, p)
                  THEN /\ u.code[p][i].job = s.code[p][i].job
                       /\ s.code[p][i].job # j => u.code[p][i] = s.code[p][i]
                  ELSE u.code[p][i].job = j
  <2>1. Len(s.code[p]) \in Nat /\ Len(t.code[p]) \in Nat /\ Len(u.code[p]) \in Nat
    BY PoolFacts
  <2>2. /\ Len(s.code[p]) <= Len(t.code[p])
        /\ Len(s.code[p]) < Len(t.code[p]) => p \in PagesOf(t, r)
        /\ \A i \in Lines(t, p) :
                  IF i \in Lines(s, p)
                  THEN /\ t.code[p][i].job = s.code[p][i].job
                       /\ s.code[p][i].job # j => t.code[p][i] = s.code[p][i]
                  ELSE t.code[p][i].job = j
    BY DEF Work, Grows
  <2>3. /\ Len(t.code[p]) <= Len(u.code[p])
        /\ Len(t.code[p]) < Len(u.code[p]) => p \in PagesOf(u, r)
        /\ \A i \in Lines(u, p) :
                  IF i \in Lines(t, p)
                  THEN /\ u.code[p][i].job = t.code[p][i].job
                       /\ t.code[p][i].job # j => u.code[p][i] = t.code[p][i]
                  ELSE u.code[p][i].job = j
    BY DEF Work, Grows
  <2>4. PagesOf(t, r) \subseteq PagesOf(u, r)
    BY DEF Work
  <2>5. /\ Len(s.code[p]) <= Len(u.code[p])
        /\ Len(s.code[p]) < Len(u.code[p]) => p \in PagesOf(u, r)
    BY <2>1, <2>2, <2>3, <2>4
  <2>6. Lines(s, p) \subseteq Lines(t, p)
    BY <2>1, <2>2 DEF Lines
  <2> QED
    BY <2>2, <2>3, <2>5, <2>6
<1>3. Grows(s, u, r, j)
  BY <1>2 DEF Grows
<1> QED
  BY <1>1, <1>3 DEF Work

-----------------------------------------------------------------------------
(* Where a step of a job leads                                             *)

\* What was sound, and what was reached, in pool s with K and P is so in pool t
\* with L and Q.
Flow(s, K, P, t, L, Q, j) ==
  /\ Sound(s, j, K, P) => Sound(t, j, L, Q)
  /\ \A pc \in PC : Reached(s, j, K, pc) => Reached(t, j, L, pc)

LEMMA PCFacts ==
  /\ \A pc \in PC : pc[1] \in Page /\ pc[2] \in Nat /\ pc[2] >= 1 /\ pc = <<pc[1], pc[2]>>
  /\ \A p \in Page, i \in Nat : i >= 1 => <<p, i>> \in PC /\ <<p, i>>[1] = p /\ <<p, i>>[2] = i
BY DEF PC

LEMMA FlowTransitive ==
  ASSUME NEW s, NEW K, NEW P, NEW t, NEW L, NEW Q, NEW u, NEW M, NEW R, NEW j,
         Flow(s, K, P, t, L, Q, j), Flow(t, L, Q, u, M, R, j)
  PROVE  Flow(s, K, P, u, M, R, j)
BY DEF Flow

LEMMA SameCodeFlow ==
  ASSUME NEW s, NEW t, t.code = s.code, NEW K, NEW L, K \subseteq L,
         NEW P, NEW Q, P \subseteq Q, NEW j
  PROVE  Flow(s, K, P, t, L, Q, j)
<1>1. \A pc : Reached(s, j, K, pc) => Reached(t, j, L, pc)
  BY DEF Reached, EmittedIn, Lines
<1>2. \A p \in Page : Lines(t, p) = Lines(s, p)
  BY DEF Lines
<1>3. Sound(s, j, K, P) => Sound(t, j, L, Q)
  BY <1>1, <1>2 DEF Sound
<1> QED
  BY <1>1, <1>3 DEF Flow

LEMMA PatchFlow ==
  ASSUME NEW s, Good(s), NEW pcs, NEW target \in PC, NEW j, NEW K, NEW P,
         Reached(s, j, K, target)
  PROVE  Flow(s, K, P, SetPointers(s, pcs, target), K, P \ pcs, j)
<1> DEFINE t == SetPointers(s, pcs, target)
<1>1. /\ \A p \in Page : Len(t.code[p]) = Len(s.code[p]) /\ Lines(t, p) = Lines(s, p)
      /\ \A p \in Page : \A i \in Lines(s, p) :
              /\ t.code[p][i].job = s.code[p][i].job
              /\ t.code[p][i].falls = s.code[p][i].falls
              /\ <<p, i>> \in pcs => t.code[p][i].to = target
              /\ <<p, i>> \notin pcs => t.code[p][i] = s.code[p][i]
  BY PatchDoes
<1> HIDE DEF t
<1>2. \A pc \in PC : Reached(s, j, K, pc) => Reached(t, j, K, pc)
  <2> SUFFICES ASSUME NEW pc \in PC, Reached(s, j, K, pc)
               PROVE  Reached(t, j, K, pc)
    OBVIOUS
  <2>1. pc[1] \in Page
    BY PCFacts
  <2>2. EmittedIn(s, pc, j) => EmittedIn(t, pc, j)
    BY <1>1, <2>1 DEF EmittedIn
  <2> QED
    BY <1>1, <2>1, <2>2 DEF Reached
<1>3. ASSUME Sound(s, j, K, P), NEW p \in Page, NEW i \in Lines(t, p), t.code[p][i].job = j
      PROVE  /\ t.code[p][i].falls => Reached(t, j, K, <<p, i + 1>>)
             /\ t.code[p][i].to = Unpatched => <<p, i>> \in P \ pcs
             /\ t.code[p][i].to \in PC => Reached(t, j, K, t.code[p][i].to)
  <2>1. i \in Lines(s, p) /\ s.code[p][i].job = j
    BY <1>1, <1>3
  <2>2. /\ s.code[p][i].falls => Reached(s, j, K, <<p, i + 1>>)
        /\ s.code[p][i].to = Unpatched => <<p, i>> \in P
        /\ s.code[p][i].to \in PC => Reached(s, j, K, s.code[p][i].to)
    BY <1>3, <2>1 DEF Sound
  <2>3. <<p, i + 1>> \in PC
    <3>1. i \in Nat
      BY <2>1, PoolFacts DEF Good
    <3> QED
      BY <3>1, PCFacts
  <2>4. target # Unpatched
    BY PageAssumption
  <2>5. CASE <<p, i>> \in pcs
    BY <1>1, <1>2, <2>1, <2>2, <2>3, <2>4, <2>5
  <2>6. CASE <<p, i>> \notin pcs
    BY <1>1, <1>2, <2>1, <2>2, <2>3, <2>6
  <2> QED
    BY <2>5, <2>6
<1>4. Sound(s, j, K, P) => Sound(t, j, K, P \ pcs)
  BY <1>3 DEF Sound
<1> QED
  BY <1>2, <1>4 DEF Flow, t

\* Words written to page p of K.  When control does not go on behind the last
\* one, p need not be in L.
LEMMA EmitReached ==
  ASSUME NEW s, Good(s), NEW p \in Page, NEW words \in Seq(Word), Len(words) >= 1, NEW j,
         \A k \in 1 .. Len(words) : words[k].job = j,
         NEW K, NEW L, p \in K, K \subseteq L \cup {p}
  PROVE  LET t == EmitWords(s, p, words)
             n == Len(s.code[p])
         IN  /\ \A i \in Nat : i > n /\ i <= n + Len(words) =>
                   <<p, i>> \in PC /\ EmittedIn(t, <<p, i>>, j)
             /\ \A pc \in PC : Reached(s, j, K, pc) => Reached(t, j, L, pc)
<1> DEFINE t == EmitWords(s, p, words)
           n == Len(s.code[p])
           m == Len(words)
<1>1. /\ \A q \in Page \ {p} : t.code[q] = s.code[q]
      /\ Len(t.code[p]) = n + m
      /\ \A i \in Lines(s, p) : i \in Lines(t, p) /\ t.code[p][i] = s.code[p][i]
      /\ \A i \in Lines(t, p) \ Lines(s, p) :
           i - n \in 1 .. m /\ t.code[p][i] = words[i - n]
  BY EmitDoes
<1>2. n \in Nat /\ m \in Nat /\ m >= 1
  BY PoolFacts DEF Good
<1>3. \A k \in 1 .. m : words[k].job = j
  OBVIOUS
<1> HIDE DEF t, n, m
<1>4. ASSUME NEW i \in Nat, i > n, i <= n + m
      PROVE  <<p, i>> \in PC /\ EmittedIn(t, <<p, i>>, j)
  <2>1. i \in Lines(t, p) \ Lines(s, p) /\ i >= 1
    BY <1>1, <1>2, <1>4 DEF Lines, n
  <2>2. t.code[p][i].job = j
    <3>1. PICK k \in 1 .. m : t.code[p][i] = words[k]
      BY <1>1, <2>1
    <3> QED
      BY <1>3, <3>1
  <2> QED
    BY <2>1, <2>2, PCFacts DEF EmittedIn
<1>5. ASSUME NEW pc \in PC, Reached(s, j, K, pc)
      PROVE  Reached(t, j, L, pc)
  <2>1. pc[1] \in Page /\ pc[2] \in Nat /\ pc = <<pc[1], pc[2]>>
    BY PCFacts
  <2>2. CASE pc[1] = p
    <3>1. CASE EmittedIn(s, pc, j)
      BY <1>1, <2>2, <3>1 DEF Reached, EmittedIn
    <3>2. CASE pc[2] = n + 1
      <4>1. pc = <<p, n + 1>> /\ n + 1 \in Nat /\ n + 1 > n /\ n + 1 <= n + m
        BY <1>2, <2>1, <2>2, <3>2
      <4> QED
        BY <1>4, <4>1 DEF Reached
    <3> QED
      BY <1>5, <2>2, <3>1, <3>2 DEF Reached, n
  <2>3. CASE pc[1] # p
    <3>1. t.code[pc[1]] = s.code[pc[1]]
      BY <1>1, <2>1, <2>3
    <3> QED
      BY <1>5, <2>3, <3>1 DEF Reached, EmittedIn, Lines
  <2> QED
    BY <2>2, <2>3
<1> QED
  BY <1>4, <1>5 DEF t, n, m

LEMMA EmitFlow ==
  ASSUME NEW s, Good(s), NEW p \in Page, NEW words \in Seq(Word), Len(words) >= 1, NEW j,
         \A k \in 1 .. Len(words) : words[k].job = j,
         NEW K, NEW L, p \in K, K \subseteq L \cup {p}, words[Len(words)].falls => p \in L,
         NEW P, NEW Q, P \subseteq Q,
         \A k \in 1 .. Len(words) :
           /\ words[k].to = Unpatched => <<p, Len(s.code[p]) + k>> \in Q
           /\ words[k].to \in PC => Reached(EmitWords(s, p, words), j, L, words[k].to)
  PROVE  Flow(s, K, P, EmitWords(s, p, words), L, Q, j)
<1> DEFINE t == EmitWords(s, p, words)
           n == Len(s.code[p])
           m == Len(words)
<1>1. /\ \A q \in Page \ {p} : t.code[q] = s.code[q]
      /\ Len(t.code[p]) = n + m
      /\ \A i \in Lines(s, p) : i \in Lines(t, p) /\ t.code[p][i] = s.code[p][i]
      /\ \A i \in Lines(t, p) \ Lines(s, p) :
           i - n \in 1 .. m /\ t.code[p][i] = words[i - n]
  BY EmitDoes
<1>2. n \in Nat /\ m \in Nat /\ m >= 1
  BY PoolFacts DEF Good
<1>3. \A k \in 1 .. m : /\ words[k].job = j
                        /\ words[k].to = Unpatched => <<p, n + k>> \in Q
                        /\ words[k].to \in PC => Reached(t, j, L, words[k].to)
  OBVIOUS
<1> HIDE DEF t, n, m
<1>4. ASSUME NEW i \in Nat, i > n, i <= n + m
      PROVE  <<p, i>> \in PC /\ EmittedIn(t, <<p, i>>, j)
  BY <1>3, <1>4, EmitReached DEF t, n, m
<1>5. ASSUME NEW pc \in PC, Reached(s, j, K, pc)
      PROVE  Reached(t, j, L, pc)
  BY <1>5, EmitReached DEF t
<1>6. ASSUME Sound(s, j, K, P), NEW q \in Page, NEW i \in Lines(t, q), t.code[q][i].job = j
      PROVE  /\ t.code[q][i].falls => Reached(t, j, L, <<q, i + 1>>)
             /\ t.code[q][i].to = Unpatched => <<q, i>> \in Q
             /\ t.code[q][i].to \in PC => Reached(t, j, L, t.code[q][i].to)
  <2>1. CASE i \in Lines(s, q) /\ t.code[q][i] = s.code[q][i]
    <3>1. /\ s.code[q][i].falls => Reached(s, j, K, <<q, i + 1>>)
          /\ s.code[q][i].to = Unpatched => <<q, i>> \in P
          /\ s.code[q][i].to \in PC => Reached(s, j, K, s.code[q][i].to)
      BY <1>6, <2>1 DEF Sound
    <3>2. <<q, i + 1>> \in PC
      <4>1. i \in Nat
        BY <2>1, PoolFacts DEF Good
      <4> QED
        BY <4>1, PCFacts
    <3> QED
      BY <1>5, <2>1, <3>1, <3>2
  <2>2. CASE q = p /\ i \in Lines(t, p) \ Lines(s, p)
    <3>1. /\ i - n \in 1 .. m /\ t.code[q][i] = words[i - n]
      BY <1>1, <2>2
    <3>2. i \in Int /\ n + (i - n) = i
      BY <1>2, <2>2 DEF Lines
    <3>3. CASE i - n = m
      <4>1. t.code[q][i].falls => p \in L
        BY <3>1, <3>3 DEF m
      <4>2. i + 1 = Len(t.code[p]) + 1
        BY <1>1, <3>2, <3>3
      <4>3. <<p, i + 1>>[1] = p /\ <<p, i + 1>>[2] = i + 1
        OBVIOUS
      <4>4. t.code[q][i].falls => Reached(t, j, L, <<q, i + 1>>)
        BY <2>2, <4>1, <4>2, <4>3 DEF Reached
      <4> QED
        BY <1>3, <2>2, <3>1, <3>2, <4>4
    <3>4. CASE i - n # m
      <4>1. i + 1 \in Nat /\ i + 1 > n /\ i + 1 <= n + m
        BY <1>2, <3>1, <3>2, <3>4
      <4>2. Reached(t, j, L, <<q, i + 1>>)
        BY <1>4, <2>2, <4>1 DEF Reached
      <4> QED
        BY <1>3, <2>2, <3>1, <3>2, <4>2
    <3> QED
      BY <3>3, <3>4
  <2>3. \/ i \in Lines(s, q) /\ t.code[q][i] = s.code[q][i]
        \/ q = p /\ i \in Lines(t, p) \ Lines(s, p)
    BY <1>1, <1>6 DEF Lines
  <2> QED
    BY <2>1, <2>2, <2>3
<1>7. Sound(s, j, K, P) => Sound(t, j, L, Q)
  BY <1>6 DEF Sound
<1> QED
  BY <1>5, <1>7 DEF Flow, t

\* The words of job j are the same in both pools.
Keeps(s, t, j) ==
  \A p \in Page :
    /\ \A i \in Lines(s, p) :
         s.code[p][i].job = j => i \in Lines(t, p) /\ t.code[p][i] = s.code[p][i]
    /\ \A i \in Lines(t, p) :
         t.code[p][i].job = j => i \in Lines(s, p) /\ t.code[p][i] = s.code[p][i]

LEMMA KeepsFinished ==
  ASSUME NEW s, Good(s), NEW t, NEW j, Keeps(s, t, j)
  PROVE  /\ \A pc \in PC : EmittedIn(s, pc, j) => EmittedIn(t, pc, j)
         /\ Sound(s, j, {}, {}) => Sound(t, j, {}, {})
<1>1. ASSUME NEW pc \in PC, EmittedIn(s, pc, j)
      PROVE  EmittedIn(t, pc, j)
  BY <1>1, PCFacts DEF Keeps, EmittedIn
<1>2. ASSUME Sound(s, j, {}, {}), NEW p \in Page, NEW i \in Lines(t, p), t.code[p][i].job = j
      PROVE  /\ t.code[p][i].falls => Reached(t, j, {}, <<p, i + 1>>)
             /\ t.code[p][i].to # Unpatched
             /\ t.code[p][i].to \in PC => Reached(t, j, {}, t.code[p][i].to)
  <2>1. i \in Lines(s, p) /\ t.code[p][i] = s.code[p][i] /\ i \in Nat
    BY <1>2, PoolFacts DEF Keeps, Good
  <2>2. <<p, i + 1>> \in PC
    BY <2>1, PCFacts
  <2> QED
    BY <1>1, <1>2, <2>1, <2>2 DEF Sound, Reached
<1> QED
  BY <1>1, <1>2 DEF Sound

LEMMA WorkKeeps ==
  ASSUME NEW s, Good(s), NEW t, Good(t), NEW r, NEW j, Work(s, t, r, j), NEW k, k # j
  PROVE  Keeps(s, t, k)
<1> SUFFICES ASSUME NEW p \in Page
             PROVE  /\ \A i \in Lines(s, p) :
                         s.code[p][i].job = k => i \in Lines(t, p) /\ t.code[p][i] = s.code[p][i]
                    /\ \A i \in Lines(t, p) :
                         t.code[p][i].job = k => i \in Lines(s, p) /\ t.code[p][i] = s.code[p][i]
  BY DEF Keeps
<1>1. Len(s.code[p]) \in Nat /\ Len(t.code[p]) \in Nat
  BY PoolFacts DEF Good
<1>2. /\ Len(s.code[p]) <= Len(t.code[p])
      /\ \A i \in Lines(t, p) :
           IF i \in Lines(s, p)
           THEN /\ t.code[p][i].job = s.code[p][i].job
                /\ s.code[p][i].job # j => t.code[p][i] = s.code[p][i]
           ELSE t.code[p][i].job = j
  BY DEF Work, Grows
<1>3. Lines(s, p) \subseteq Lines(t, p)
  BY <1>1, <1>2 DEF Lines
<1> QED
  BY <1>2, <1>3

\* The words of a job stay on the pages of its runtime.
LEMMA WorkInside ==
  ASSUME NEW s, NEW t, Good(t), NEW r \in Runtime, NEW j, Work(s, t, r, j),
         NEW k, NEW q \in Runtime, q = r \/ k # j, WordsIn(s, k, q)
  PROVE  WordsIn(t, k, q)
<1> SUFFICES ASSUME NEW p \in Page, NEW i \in Lines(t, p), t.code[p][i].job = k
             PROVE  p \in PagesOf(t, q)
  BY DEF WordsIn
<1>1. PagesOf(s, q) \subseteq PagesOf(t, q)
  <2>1. CASE q = r
    BY <2>1 DEF Work
  <2>2. CASE q # r
    <3>1. SameRuntime(s, t, q)
      BY <2>2 DEF Work
    <3> QED
      BY <3>1 DEF SameRuntime, PagesOf, On
  <2> QED
    BY <2>1, <2>2
<1>2. CASE i \in Lines(s, p)
  BY <1>1, <1>2 DEF WordsIn, Work, Grows
<1>3. CASE i \notin Lines(s, p)
  <2>1. t.code[p][i].job = j
    BY <1>3 DEF Work, Grows
  <2>2. ~(Len(t.code[p]) <= Len(s.code[p])) => p \in PagesOf(t, r)
    <3>1. Len(t.code[p]) \in Nat
      BY PoolFacts DEF Good
    <3> QED
      BY <1>3 DEF Work, Grows, Lines
  <2> QED
    BY <1>3, <2>1, <2>2 DEF Lines
<1> QED
  BY <1>2, <1>3

-----------------------------------------------------------------------------
(* Room after a step of a job                                              *)

\* The pages of H are as they were.
Untouched(s, t, H) ==
  \A p \in H : t.code[p] = s.code[p] /\ t.numLines[p] = s.numLines[p]

LEMMA FreeLinesType ==
  ASSUME NEW s, Good(s), NEW p \in Page
  PROVE  NumFreeLines(s, p) \in Int
BY PoolFacts DEF Good, NumFreeLines

LEMMA UntouchedRoom ==
  ASSUME NEW s, NEW t, NEW H, Untouched(s, t, H), NEW p \in H
  PROVE  NumFreeLines(t, p) = NumFreeLines(s, p)
BY DEF Untouched, NumFreeLines

LEMMA EmitRoom ==
  ASSUME NEW s, Good(s), NEW p \in Page, NEW words \in Seq(Word)
  PROVE  LET t == EmitWords(s, p, words) IN
         /\ NumFreeLines(t, p) = NumFreeLines(s, p) - Len(words)
         /\ \A H \in SUBSET (Page \ {p}) : Untouched(s, t, H)
         /\ Fits(s) /\ NumFreeLines(s, p) >= Len(words) => Fits(t)
<1> DEFINE t == EmitWords(s, p, words)
<1>1. /\ t.numLines = s.numLines
      /\ \A q \in Page \ {p} : t.code[q] = s.code[q]
      /\ Len(t.code[p]) = Len(s.code[p]) + Len(words)
  BY EmitDoes
<1>2. Len(s.code[p]) \in Nat /\ s.numLines[p] \in Nat /\ Len(words) \in Nat
  BY PoolFacts DEF Good
<1> HIDE DEF t
<1>3. NumFreeLines(t, p) = NumFreeLines(s, p) - Len(words)
  BY <1>1, <1>2 DEF NumFreeLines
<1>4. \A q \in Page \ {p} : NumFreeLines(t, q) = NumFreeLines(s, q)
  BY <1>1 DEF NumFreeLines
<1>5. NumFreeLines(s, p) >= Len(words) => NumFreeLines(t, p) >= 0
  BY <1>2, <1>3, FreeLinesType
<1>6. Fits(s) /\ NumFreeLines(s, p) >= Len(words) => Fits(t)
  BY <1>4, <1>5 DEF Fits
<1>7. \A H \in SUBSET (Page \ {p}) : Untouched(s, t, H)
  BY <1>1 DEF Untouched
<1> QED
  BY <1>3, <1>6, <1>7 DEF t

LEMMA PatchRoom ==
  ASSUME NEW s, Good(s), NEW pcs, NEW target \in PC
  PROVE  LET t == SetPointers(s, pcs, target) IN
         /\ \A p \in Page : NumFreeLines(t, p) = NumFreeLines(s, p)
         /\ Fits(s) => Fits(t)
<1> DEFINE t == SetPointers(s, pcs, target)
<1>1. \A p \in Page : NumFreeLines(t, p) = NumFreeLines(s, p)
  BY PatchDoes DEF NumFreeLines
<1> HIDE DEF t
<1> QED
  BY <1>1 DEF Fits, t

LEMMA AcquireRoom ==
  ASSUME NEW s, Good(s), NEW r \in Runtime, NEW n \in Nat,
         NEW a \in AcquireCodePageWithCapacity(s, r, n), Clean(s)
  PROVE  /\ Fits(s) => Fits(a.pool)
         /\ a.page # NULL => NumFreeLines(a.pool, a.page) >= n
         /\ \A q \in Runtime : Untouched(s, a.pool, s.active[q])
<1>1. CASE a.page = NULL
  BY <1>1, AcquireDoes DEF Untouched
<1>2. CASE a.page # NULL
  <2>1. /\ a.pool.code = s.code
        /\ NumFreeLines(a.pool, a.page) >= n
        /\ \A p \in Page : p <= s.sequence => a.pool.numLines[p] = s.numLines[p]
    BY <1>2, AcquireDoes
  <2>2. \A q \in Runtime : \A p \in s.active[q] : p \in Page /\ p <= s.sequence
    BY DEF Good, PoolType, OnePlace
  <2>3. \A q \in Runtime : Untouched(s, a.pool, s.active[q])
    BY <2>1, <2>2 DEF Untouched
  <2>4. ASSUME Fits(s), NEW p \in Page
        PROVE  NumFreeLines(a.pool, p) >= 0
    <3>1. CASE p <= s.sequence
      BY <2>1, <2>4, <3>1 DEF Fits, NumFreeLines
    <3>2. CASE ~(p <= s.sequence)
      <4>1. p > s.sequence
        BY <3>2, PoolFacts DEF Good
      <4>2. Len(a.pool.code[p]) = 0
        BY <2>1, <4>1 DEF Clean
      <4>3. a.pool.numLines[p] \in Nat
        BY AcquireGood, CompilationAssumption, PoolFacts DEF Good
      <4> QED
        BY <4>2, <4>3 DEF NumFreeLines
    <3> QED
      BY <3>1, <3>2
  <2> QED
    BY <2>1, <2>3, <2>4 DEF Fits
<1> QED
  BY <1>1, <1>2

\* A pool that differs in lists and counters only has the same room.
LEMMA SameRoom ==
  ASSUME NEW s, NEW t, t.code = s.code, t.numLines = s.numLines
  PROVE  /\ Fits(s) => Fits(t)
         /\ \A p : NumFreeLines(t, p) = NumFreeLines(s, p)
         /\ \A H : Untouched(s, t, H)
BY DEF Fits, NumFreeLines, Untouched

LEMMA UntouchedTransitive ==
  ASSUME NEW s, NEW t, NEW u, NEW H, Untouched(s, t, H), Untouched(t, u, H)
  PROVE  Untouched(s, u, H)
BY DEF Untouched

-----------------------------------------------------------------------------
(* What the emitter writes                                                 *)

\* A word's fields.
LEMMA WordFields ==
  ASSUME NEW j, NEW pc
  PROVE  /\ Plain(j).job = j /\ Plain(j).falls = TRUE /\ Plain(j).to = NULL
         /\ Stop(j).job = j /\ Stop(j).falls = FALSE /\ Stop(j).to = NULL
         /\ Jump(j, pc).job = j /\ Jump(j, pc).falls = FALSE /\ Jump(j, pc).to = pc
         /\ Fork(j, pc).job = j /\ Fork(j, pc).falls = TRUE /\ Fork(j, pc).to = pc
BY DEF Plain, Stop, Jump, Fork

LEMMA JumpFields ==
  ASSUME NEW j, NEW pc, NEW b
  PROVE  /\ [Jump(j, pc) EXCEPT !.falls = b].job = j
         /\ [Jump(j, pc) EXCEPT !.falls = b].falls = b
         /\ [Jump(j, pc) EXCEPT !.falls = b].to = pc
BY DEF Jump

LEMMA TwoWords ==
  ASSUME NEW v \in Word, NEW w \in Word
  PROVE  /\ <<v, w>> \in Seq(Word) /\ Len(<<v, w>>) = 2
         /\ \A k \in 1 .. 2 : (k = 1 /\ <<v, w>>[k] = v) \/ (k = 2 /\ <<v, w>>[k] = w)
OBVIOUS

\* What runtime r owns, with the pages it keeps for later.
LEMMA OwnsFacts ==
  ASSUME NEW r \in Runtime, NEW s, NEW p, NEW H, Owns(s, r, p, H)
  PROVE  /\ Good(s) /\ s \in PoolType /\ p \in Page /\ H \subseteq Page \ {p} /\ p \notin H
         /\ p \in s.active[r] /\ H \subseteq s.active[r]
BY DEF Owns, Good, PoolType

\* e and x are emitters of a job j: what the steps between them have done, except
\* where they lead.
Writing(e, x, r, j, H) ==
  /\ Work(e.pool, x.pool, r, j)
  /\ x.failed => x.pool = e.pool /\ x.page = e.page
  /\ Clean(e.pool) => Untouched(e.pool, x.pool, H)
  /\ Clean(e.pool) /\ Fits(e.pool) /\ NumFreeLines(e.pool, e.page) >= 2 => Fits(x.pool)

LEMMA BridgeDoes ==
  ASSUME NEW r \in Runtime, NEW j \in Nat, NEW H, NEW s, NEW p, Owns(s, r, p, H),
         NEW n \in Nat, NEW a \in AcquireCodePageWithCapacity(s, r, n), a.page # NULL
  PROVE  LET words == <<Plain(j), Jump(j, GetPagePC(a.pool, a.page))>>
             t == ReleaseCodePage(EmitWords(a.pool, p, words), r, p)
         IN  /\ Work(s, t, r, j)
             /\ \A P : Flow(s, H \cup {p}, P, t, H \cup {a.page}, P, j)
             /\ Clean(s) => Untouched(s, t, H) /\ NumFreeLines(t, a.page) >= n
             /\ Clean(s) /\ Fits(s) /\ NumFreeLines(s, p) >= 2 => Fits(t)
<1> DEFINE q     == a.page
           s1    == a.pool
           pc    == GetPagePC(s1, q)
           words == <<Plain(j), Jump(j, pc)>>
           s2    == EmitWords(s1, p, words)
           s3    == ReleaseCodePage(s2, r, p)
<1>1. /\ Good(s) /\ s \in PoolType /\ p \in Page /\ H \subseteq Page \ {p} /\ p \notin H
      /\ p \in s.active[r] /\ H \subseteq s.active[r]
  BY OwnsFacts
<1>2. /\ q \in Page /\ Owns(s1, r, p, H \cup {q})
  BY <1>1, AcquireOwns
<1>3. Good(s1) /\ s1 \in PoolType /\ q # p /\ p \in s1.active[r]
  BY <1>2, OwnsFacts
<1>4. s1.code = s.code /\ Work(s, s1, r, j)
  BY <1>1, AcquireDoes, AcquireWork
<1>5. pc \in PC /\ pc[1] = q /\ pc[2] = Len(s1.code[q]) + 1
  BY <1>2, <1>3, PCType DEF GetPagePC
<1>6. /\ Clean(s) => NumFreeLines(s1, q) >= n /\ Untouched(s, s1, s.active[r])
      /\ Clean(s) /\ Fits(s) => Fits(s1)
  BY <1>1, AcquireRoom
<1> HIDE DEF q, s1, pc
<1>7. /\ words \in Seq(Word) /\ Len(words) = 2
      /\ \A k \in 1 .. 2 : \/ k = 1 /\ words[k] = Plain(j)
                           \/ k = 2 /\ words[k] = Jump(j, pc)
  <2>1. Plain(j) \in Word /\ Jump(j, pc) \in Word
    BY <1>5, WordTypes
  <2> QED
    BY <2>1, TwoWords
<1> HIDE DEF words
<1>8. /\ \A k \in 1 .. Len(words) :
           words[k].job = j /\ (words[k].to = NULL \/ words[k].to = pc)
      /\ words[Len(words)].falls = FALSE
  <2>1. /\ Plain(j).job = j /\ Plain(j).to = NULL
        /\ Jump(j, pc).job = j /\ Jump(j, pc).to = pc /\ Jump(j, pc).falls = FALSE
    BY DEF Plain, Jump
  <2>2. words[2] = Jump(j, pc)
    BY <1>7
  <2> QED
    BY <1>7, <2>1, <2>2
<1>9. Owns(s2, r, p, H \cup {q}) /\ Work(s1, s2, r, j)
  <2>1. \A k \in 1 .. Len(words) : words[k].job = j
    BY <1>7, <1>8
  <2> QED
    BY <1>1, <1>2, <1>3, <1>7, <2>1, WriteOwns, EmitWork
<1>10. Good(s2) /\ s2 \in PoolType /\ p \in s2.active[r]
  BY <1>9, OwnsFacts
<1>11. ASSUME NEW P
       PROVE  Flow(s1, H \cup {p}, P, s2, H \cup {q}, P, j)
  <2>1. s2.code[q] = s1.code[q]
    BY <1>1, <1>2, <1>3, <1>7, EmitDoes
  <2>2. Reached(s2, j, H \cup {q}, pc)
    BY <1>5, <2>1 DEF Reached
  <2>6. NULL # Unpatched /\ NULL \notin PC /\ Unpatched \notin PC
    BY PageAssumption
  <2>3. \A k \in 1 .. Len(words) :
          /\ words[k].job = j
          /\ words[k].to = Unpatched => <<p, Len(s1.code[p]) + k>> \in P
          /\ words[k].to \in PC => Reached(s2, j, H \cup {q}, words[k].to)
    <3> HIDE DEF s2
    <3> QED
      BY <1>5, <1>8, <2>2, <2>6
  <2>4. ~words[Len(words)].falls /\ Len(words) >= 1
    BY <1>7, <1>8
  <2> HIDE DEF s2
  <2>5. H \cup {p} \subseteq (H \cup {q}) \cup {p} /\ p \in H \cup {p}
    OBVIOUS
  <2> QED
    BY <1>1, <1>3, <1>7, <2>3, <2>4, <2>5, EmitFlow DEF s2
<1>12. /\ Clean(s1) => Untouched(s1, s2, H) /\ NumFreeLines(s2, q) = NumFreeLines(s1, q)
       /\ Fits(s1) /\ NumFreeLines(s1, p) >= 2 => Fits(s2)
  <2>1. H \cup {q} \in SUBSET (Page \ {p})
    BY <1>1, <1>2, <1>3
  <2>2. Untouched(s1, s2, H \cup {q})
    BY <1>1, <1>3, <1>7, <2>1, EmitRoom
  <2>3. Fits(s1) /\ NumFreeLines(s1, p) >= 2 => Fits(s2)
    BY <1>1, <1>3, <1>7, EmitRoom
  <2> HIDE DEF s2
  <2> QED
    BY <2>2, <2>3 DEF Untouched, NumFreeLines
<1> HIDE DEF s2
<1>13. /\ Good(s3) /\ s3 \in PoolType /\ s3.code = s2.code /\ s3.numLines = s2.numLines
       /\ Work(s2, s3, r, j)
  <2>1. Good(s2)
    BY <1>10
  <2>2. Good(s3)
    BY <1>10, <2>1, ReleaseGood
  <2>3. s3.code = s2.code /\ s3.numLines = s2.numLines
    BY <1>10, <2>1, ReleaseDoes
  <2>4. Work(s2, s3, r, j)
    BY <1>10, <2>1, ReleaseWork
  <2> HIDE DEF s3
  <2> QED
    BY <2>2, <2>3, <2>4 DEF Good
<1> HIDE DEF s3
<1>14. Work(s, s3, r, j)
  <2>1. Work(s, s2, r, j)
    BY <1>1, <1>3, <1>4, <1>9, <1>10, WorkTransitive
  <2> QED
    BY <1>1, <1>10, <1>13, <2>1, WorkTransitive
<1>15. ASSUME NEW P
       PROVE  Flow(s, H \cup {p}, P, s3, H \cup {q}, P, j)
  <2>1. Flow(s, H \cup {p}, P, s1, H \cup {p}, P, j)
    BY <1>4, SameCodeFlow
  <2>2. Flow(s2, H \cup {q}, P, s3, H \cup {q}, P, j)
    BY <1>13, SameCodeFlow
  <2>3. Flow(s1, H \cup {p}, P, s2, H \cup {q}, P, j)
    BY <1>11
  <2> QED
    BY <2>1, <2>2, <2>3 DEF Flow
<1>16. ASSUME Clean(s)
       PROVE  /\ Untouched(s, s3, H) /\ NumFreeLines(s3, q) >= n
              /\ Fits(s) /\ NumFreeLines(s, p) >= 2 => Fits(s3)
  <2>1. Clean(s1)
    BY <1>4, <1>16 DEF Work
  <2>2. NumFreeLines(s1, p) = NumFreeLines(s, p)
    BY <1>1, <1>6, <1>16, UntouchedRoom
  <2>3. Untouched(s, s1, H)
    BY <1>1, <1>6, <1>16 DEF Untouched
  <2>4. Untouched(s1, s2, H) /\ Untouched(s2, s3, H)
    BY <1>12, <1>13, <2>1, SameRoom
  <2>5. Untouched(s, s3, H)
    BY <2>3, <2>4 DEF Untouched
  <2>6. NumFreeLines(s3, q) >= n
    BY <1>6, <1>12, <1>13, <1>16, <2>1, SameRoom
  <2>7. Fits(s) /\ NumFreeLines(s, p) >= 2 => Fits(s3)
    BY <1>6, <1>12, <1>13, <1>16, <2>2, SameRoom
  <2> QED
    BY <2>5, <2>6, <2>7
<1> QED
  BY <1>14, <1>15, <1>16 DEF q, s1, pc, words, s2, s3

LEMMA EnsureDoes ==
  ASSUME NEW r \in Runtime, NEW j \in Nat, NEW H, NEW e, EmitterOk(e, r, H), NEW n \in Nat,
         NEW x \in EnsureCodePageNumLines(e, r, j, n)
  PROVE  /\ Writing(e, x, r, j, H)
         /\ \A P : Flow(e.pool, H \cup {e.page}, P, x.pool, H \cup {x.page}, P, j)
         /\ ~x.failed /\ Clean(e.pool) => NumFreeLines(x.pool, x.page) >= n + 2
<1>1. Owns(e.pool, r, e.page, H) /\ Good(e.pool) /\ e.page \in Page
  BY EmitterFacts
<1>2. CASE x = e /\ NumFreeLines(e.pool, e.page) >= n + 2
  <2>1. /\ Work(e.pool, e.pool, r, j) /\ Untouched(e.pool, e.pool, H)
        /\ \A P : Flow(e.pool, H \cup {e.page}, P, e.pool, H \cup {e.page}, P, j)
    BY <1>1, NoWork DEF Untouched, Flow
  <2> QED
    BY <1>2, <2>1 DEF Writing
<1>3. CASE \E a \in AcquireCodePageWithCapacity(e.pool, r, n + 2) :
             x = IF a.page = NULL THEN [e EXCEPT !.failed = TRUE] ELSE Bridge(e, r, j, a)
  <2>1. PICK a \in AcquireCodePageWithCapacity(e.pool, r, n + 2) :
               x = IF a.page = NULL THEN [e EXCEPT !.failed = TRUE] ELSE Bridge(e, r, j, a)
    BY <1>3
  <2>2. CASE a.page = NULL
    <3>1. x.pool = e.pool /\ x.page = e.page /\ x.failed
      BY <2>1, <2>2 DEF EmitterOk
    <3>2. /\ Work(e.pool, e.pool, r, j) /\ Untouched(e.pool, e.pool, H)
          /\ \A P : Flow(e.pool, H \cup {e.page}, P, e.pool, H \cup {e.page}, P, j)
      BY <1>1, NoWork DEF Untouched, Flow
    <3> QED
      BY <3>1, <3>2 DEF Writing
  <2>3. CASE a.page # NULL
    <3> DEFINE words == <<Plain(j), Jump(j, GetPagePC(a.pool, a.page))>>
               t == ReleaseCodePage(EmitWords(a.pool, e.page, words), r, e.page)
    <3>1. x.pool = t /\ x.page = a.page /\ x.failed = FALSE
      BY <2>1, <2>3 DEF Bridge, Emitter
    <3>2. /\ Work(e.pool, t, r, j)
          /\ \A P : Flow(e.pool, H \cup {e.page}, P, t, H \cup {a.page}, P, j)
          /\ Clean(e.pool) => Untouched(e.pool, t, H) /\ NumFreeLines(t, a.page) >= n + 2
          /\ Clean(e.pool) /\ Fits(e.pool) /\ NumFreeLines(e.pool, e.page) >= 2 => Fits(t)
      <4>1. PICK m \in Nat : m = n + 2
        OBVIOUS
      <4>2. a \in AcquireCodePageWithCapacity(e.pool, r, m)
        BY <4>1
      <4>3. /\ Work(e.pool, t, r, j)
            /\ \A P : Flow(e.pool, H \cup {e.page}, P, t, H \cup {a.page}, P, j)
            /\ Clean(e.pool) => Untouched(e.pool, t, H) /\ NumFreeLines(t, a.page) >= m
            /\ Clean(e.pool) /\ Fits(e.pool) /\ NumFreeLines(e.pool, e.page) >= 2 => Fits(t)
        BY <1>1, <2>3, <4>2, BridgeDoes
      <4> HIDE DEF t
      <4> QED
        BY <4>1, <4>3
    <3> HIDE DEF t
    <3> QED
      BY <3>1, <3>2 DEF Writing
  <2> QED
    BY <2>2, <2>3
<1> QED
  BY <1>2, <1>3 DEF EnsureCodePageNumLines

\* Words of job j that EmitOp may be given when K is reached in pool s: pointers
\* lead to what is reached, and only the last one may wait to be patched.
Leads(words, s, j, K) ==
  /\ words \in Seq(Word) /\ Len(words) >= 1 /\ Len(words) <= FreeLinesThreshold
  /\ \A k \in 1 .. Len(words) :
       /\ words[k].job = j
       /\ words[k].to = Unpatched => k = Len(words)
       /\ words[k].to \in PC => Reached(s, j, K, words[k].to)

\* The pages where j goes on, and the pointers that wait, when x has emitted the
\* words.
After(words, H, x) == IF words[Len(words)].falls THEN H \cup {x.page} ELSE H
Waits(words, P, x) ==
  IF words[Len(words)].to = Unpatched THEN P \cup {LastPC(x.pool, x.page)} ELSE P

\* What EmitOp of m words leaves on the page: it has made room for 8 at least.
LeavesRoom(e, x, m) ==
  /\ NumFreeLines(x.pool, x.page) >= 8 - m
  /\ NumFreeLines(e.pool, e.page) >= 8 =>
       /\ x.page = e.page
       /\ NumFreeLines(x.pool, x.page) = NumFreeLines(e.pool, e.page) - m

LEMMA LastWord ==
  ASSUME NEW s, Good(s), NEW p \in Page, NEW words \in Seq(Word), Len(words) >= 1, NEW j,
         \A k \in 1 .. Len(words) : words[k].job = j
  PROVE  LET t == EmitWords(s, p, words) IN
         /\ LastPC(t, p) = <<p, Len(s.code[p]) + Len(words)>>
         /\ LastPC(t, p) \in PC /\ EmittedIn(t, LastPC(t, p), j)
<1> DEFINE t == EmitWords(s, p, words)
           n == Len(s.code[p])
           m == Len(words)
<1>1. n \in Nat /\ m \in Nat /\ m >= 1
  BY PoolFacts DEF Good
<1>2. Len(t.code[p]) = n + m
  BY EmitDoes
<1>3. \A i \in Nat : i > n /\ i <= n + m => <<p, i>> \in PC /\ EmittedIn(t, <<p, i>>, j)
  <2>1. {p} \subseteq {p} \cup {p} /\ p \in {p}
    OBVIOUS
  <2> QED
    BY <2>1, EmitReached
<1> HIDE DEF n, m, t
<1>4. n + m \in Nat /\ n + m > n /\ n + m <= n + m
  BY <1>1
<1>5. LastPC(t, p) = <<p, n + m>>
  BY <1>2 DEF LastPC
<1> QED
  BY <1>3, <1>4, <1>5 DEF n, m, t

LEMMA EmitOpDoes ==
  ASSUME NEW r \in Runtime, NEW j \in Nat, NEW H, NEW e, EmitterOk(e, r, H),
         NEW words, Leads(words, e.pool, j, H \cup {e.page}), NEW x \in EmitOp(e, r, j, words)
  PROVE  /\ Writing(e, x, r, j, H)
         /\ EmitterOk(x, r, H)
         /\ x.failed => \A P : Flow(e.pool, H \cup {e.page}, P, x.pool, H \cup {x.page}, P, j)
         /\ ~x.failed =>
              /\ \A P : Flow(e.pool, H \cup {e.page}, P,
                             x.pool, After(words, H, x), Waits(words, P, x), j)
              /\ LastPC(x.pool, x.page) \in PC /\ EmittedIn(x.pool, LastPC(x.pool, x.page), j)
         /\ ~x.failed /\ Clean(e.pool) => LeavesRoom(e, x, Len(words))
<1>1. /\ words \in Seq(Word) /\ Len(words) \in Nat /\ Len(words) >= 1 /\ Len(words) <= 6
      /\ FreeLinesThreshold = 6 /\ Len(words) \in 1 .. Len(words)
      /\ \A k \in 1 .. Len(words) : words[k].job = j
  BY DEF Leads, FreeLinesThreshold
<1>2. PICK y \in EnsureCodePageNumLines(e, r, j, 6) :
        x = IF y.failed THEN y ELSE [y EXCEPT !.pool = EmitWords(y.pool, y.page, words)]
  BY <1>1 DEF EmitOp
<1>3. EmitterOk(x, r, H) /\ EmitterOk(y, r, H)
  BY <1>1, EmitOpOk, EnsureOk
<1>4. /\ Writing(e, y, r, j, H)
      /\ \A P : Flow(e.pool, H \cup {e.page}, P, y.pool, H \cup {y.page}, P, j)
      /\ ~y.failed /\ Clean(e.pool) => NumFreeLines(y.pool, y.page) >= 8
  <2> PICK m \in Nat : m = 6
    OBVIOUS
  <2>1. /\ Writing(e, y, r, j, H)
        /\ \A P : Flow(e.pool, H \cup {e.page}, P, y.pool, H \cup {y.page}, P, j)
        /\ ~y.failed /\ Clean(e.pool) => NumFreeLines(y.pool, y.page) >= m + 2
    <3>1. y \in EnsureCodePageNumLines(e, r, j, m)
      OBVIOUS
    <3> QED
      BY ONLY <3>1, EnsureDoes, r \in Runtime, j \in Nat, EmitterOk(e, r, H), m \in Nat
  <2>2. m + 2 = 8
    OBVIOUS
  <2> QED
    BY ONLY <2>1, <2>2
<1>5. CASE y.failed
  BY <1>2, <1>3, <1>4, <1>5
<1>6. CASE ~y.failed
  <2> DEFINE s == y.pool
             p == y.page
             t == EmitWords(s, p, words)
  <2>1. x.pool = t /\ x.page = p /\ x.failed = FALSE
    BY <1>2, <1>3, <1>6 DEF EmitterOk
  <2>2. Owns(s, r, p, H) /\ Good(s) /\ s \in PoolType /\ p \in Page /\ p \in s.active[r]
    BY <1>3, EmitterFacts, OwnsFacts
  <2>3. H \subseteq Page \ {p}
    BY <2>2, OwnsFacts
  <2>4. Work(s, t, r, j) /\ t \in PoolType
    <3>1. Work(s, t, r, j)
      BY <1>1, <2>2, EmitWork
    <3>2. Owns(t, r, p, H)
      BY <1>1, <2>2, WriteOwns
    <3> QED
      BY <3>1, <3>2, OwnsFacts
  <2>5. e.pool \in PoolType /\ e.page \in Page
    BY EmitterFacts
  <2>6. /\ NumFreeLines(t, p) = NumFreeLines(s, p) - Len(words)
        /\ Untouched(s, t, H)
        /\ Fits(s) /\ NumFreeLines(s, p) >= Len(words) => Fits(t)
    BY <1>1, <2>2, <2>3, EmitRoom
  <2>7. LastPC(t, p) \in PC /\ EmittedIn(t, LastPC(t, p), j) /\ LastPC(t, p) = <<p, Len(s.code[p]) + Len(words)>>
    BY <1>1, <2>2, LastWord
  <2> HIDE DEF t
  <2>8. ASSUME NEW P
        PROVE  Flow(e.pool, H \cup {e.page}, P, t, After(words, H, x), Waits(words, P, x), j)
    <3> DEFINE K == H \cup {p}
               L == After(words, H, x)
               Q == Waits(words, P, x)
    <3>1. Flow(e.pool, H \cup {e.page}, P, s, K, P, j)
      BY <1>4
    <3>2. p \in K /\ K \subseteq L \cup {p} /\ (words[Len(words)].falls => p \in L)
      BY <2>1 DEF After
    <3>3. P \subseteq Q
      BY DEF Waits
    <3>4. ASSUME NEW k \in 1 .. Len(words)
          PROVE  /\ words[k].to = Unpatched => <<p, Len(s.code[p]) + k>> \in Q
                 /\ words[k].to \in PC => Reached(t, j, L, words[k].to)
      <4>1. words[k].to = Unpatched => <<p, Len(s.code[p]) + k>> \in Q
        BY <2>1, <2>7 DEF Leads, Waits
      <4>2. words[k].to \in PC => Reached(s, j, K, words[k].to)
        BY <3>1 DEF Leads, Flow
      <4>3. \A pc \in PC : Reached(s, j, K, pc) => Reached(t, j, L, pc)
        <5> HIDE DEF K, L
        <5> QED
          BY <1>1, <2>2, <3>2, EmitReached DEF t
      <4> QED
        BY <4>1, <4>2, <4>3
    <3> HIDE DEF K, L, Q
    <3>5. Flow(s, K, P, t, L, Q, j)
      BY <1>1, <2>2, <3>2, <3>3, <3>4, EmitFlow DEF t
    <3> QED
      BY <3>1, <3>5 DEF Flow, L, Q
  <2>9. Work(e.pool, t, r, j)
    BY <1>4, <2>2, <2>4, <2>5, WorkTransitive DEF Writing
  <2>10. Clean(e.pool) => Untouched(e.pool, t, H)
    BY <1>4, <2>6 DEF Writing, Untouched
  <2>11. NumFreeLines(s, p) \in Int
    BY <2>2, FreeLinesType
  <2>12. Clean(e.pool) /\ Fits(e.pool) /\ NumFreeLines(e.pool, e.page) >= 2 => Fits(t)
    BY <1>1, <1>4, <1>6, <2>6, <2>11 DEF Writing
  <2>13. Clean(e.pool) => NumFreeLines(t, p) >= 8 - Len(words)
    BY <1>1, <1>4, <1>6, <2>6, <2>11
  <2>14. NumFreeLines(e.pool, e.page) >= 8 =>
           p = e.page /\ NumFreeLines(t, p) = NumFreeLines(e.pool, e.page) - Len(words)
    <3>1. NumFreeLines(e.pool, e.page) >= 8 => y = e
      <4>1. NumFreeLines(e.pool, e.page) >= 8 => NumFreeLines(e.pool, e.page) >= 6 + 2
        OBVIOUS
      <4> QED
        BY <4>1 DEF EnsureCodePageNumLines
    <3> QED
      BY <2>6, <3>1
  <2>15. Writing(e, x, r, j, H)
    BY <2>1, <2>9, <2>10, <2>12 DEF Writing
  <2> QED
    BY <1>3, <2>1, <2>7, <2>8, <2>13, <2>14, <2>15 DEF LeavesRoom
<1> QED
  BY <1>5, <1>6

-----------------------------------------------------------------------------
(* The finished functions                                                  *)

CompiledType == [Function \cup Import -> {NULL} \cup [job : Nat, pc : PC]]

LEMMA CompiledFacts ==
  ASSUME NEW comp \in CompiledType, NEW f \in DOMAIN comp
  PROVE  /\ f \in Function \cup Import /\ Home[f] \in Runtime /\ Home[f] # Scratch
         /\ comp[f] # NULL => comp[f].job \in Nat /\ comp[f].pc \in PC
  BY CompilationAssumption DEF CompiledType

LEMMA WorkEmitted ==
  ASSUME NEW s \in PoolType, NEW t \in PoolType, NEW r, NEW j, Work(s, t, r, j),
         NEW pc \in PC, NEW k, EmittedIn(s, pc, k)
  PROVE  EmittedIn(t, pc, k)
<1> DEFINE p == pc[1]
           i == pc[2]
<1>1. p \in Page /\ i \in Nat
  BY PCFacts
<1>2. i \in Lines(s, p) /\ s.code[p][i].job = k
  BY DEF EmittedIn
<1> HIDE DEF p, i
<1>3. Len(s.code[p]) \in Nat /\ Len(t.code[p]) \in Nat
  BY <1>1, PoolFacts
<1>4. Len(s.code[p]) <= Len(t.code[p])
  BY <1>1 DEF Work, Grows
<1>5. i \in Lines(t, p)
  BY <1>2, <1>3, <1>4 DEF Lines
<1>6. t.code[p][i].job = s.code[p][i].job
  BY <1>1, <1>2, <1>5 DEF Work, Grows
<1> QED
  BY <1>2, <1>5, <1>6 DEF EmittedIn, p, i

\* Jobs of other numbers leave the finished functions alone.
LEMMA FinishedWork ==
  ASSUME NEW s, Good(s), NEW t, Good(t), NEW r \in Runtime, NEW j \in Nat,
         NEW k \in Nat, Work(s, t, r, k), NEW m \in Nat, k <= m, j <= m,
         NEW comp \in CompiledType, Finished(s, comp, j),
         \A f \in DOMAIN comp : comp[f] # NULL => comp[f].job # k
  PROVE  /\ Finished(t, comp, m)
         /\ \A f \in DOMAIN comp : comp[f] # NULL => Keeps(s, t, comp[f].job)
<1>1. ASSUME NEW p \in Page, NEW i \in Lines(t, p)
      PROVE  t.code[p][i].job <= m
  <2>1. t.code[p][i].job \in Nat
    BY PoolFacts DEF Good
  <2>2. CASE i \in Lines(s, p)
    <3>1. t.code[p][i].job = s.code[p][i].job /\ s.code[p][i].job <= j
      BY <2>2 DEF Work, Grows, Finished
    <3> QED
      BY <2>1, <3>1
  <2>3. CASE i \notin Lines(s, p)
    <3>1. t.code[p][i].job = k
      BY <2>3 DEF Work, Grows
    <3> QED
      BY <3>1
  <2> QED
    BY <2>2, <2>3
<1>2. ASSUME NEW f \in DOMAIN comp, comp[f] # NULL
      PROVE  /\ comp[f].job <= m /\ WordsIn(t, comp[f].job, Home[f])
             /\ EmittedIn(t, comp[f].pc, comp[f].job)
             /\ Sound(t, comp[f].job, {}, {})
             /\ Keeps(s, t, comp[f].job)
  <2>1. /\ comp[f].job \in Nat /\ comp[f].pc \in PC /\ Home[f] \in Runtime
        /\ comp[f].job # k
    BY <1>2, CompiledFacts
  <2>2. /\ comp[f].job <= j /\ WordsIn(s, comp[f].job, Home[f])
        /\ EmittedIn(s, comp[f].pc, comp[f].job)
        /\ Sound(s, comp[f].job, {}, {})
    BY <1>2 DEF Finished
  <2>3. Keeps(s, t, comp[f].job)
    BY <2>1, WorkKeeps
  <2>4. WordsIn(t, comp[f].job, Home[f])
    BY <2>1, <2>2, WorkInside
  <2>5. EmittedIn(t, comp[f].pc, comp[f].job) /\ Sound(t, comp[f].job, {}, {})
    BY <2>1, <2>2, <2>3, KeepsFinished
  <2>6. comp[f].job <= m
    BY <2>1, <2>2
  <2> QED
    BY <2>3, <2>4, <2>5, <2>6
<1>3. Clean(t)
  BY DEF Work, Finished
<1> QED
  BY <1>1, <1>2, <1>3 DEF Finished

\* A runtime that has no finished function is released.
LEMMA FinishedWipe ==
  ASSUME NEW s, Good(s), NEW r \in Runtime, NEW j \in Nat,
         NEW comp \in CompiledType, Finished(s, comp, j),
         \A f \in DOMAIN comp : comp[f] # NULL => Home[f] # r
  PROVE  LET t == Runtime_Release(s, r) IN
         /\ Finished(t, comp, j)
         /\ \A f \in DOMAIN comp : comp[f] # NULL => Keeps(s, t, comp[f].job)
<1> DEFINE t == Runtime_Release(s, r)
           X == On(s, Open(r)) \cup On(s, Full(r))
<1>1. Good(t)
  BY Runtime_ReleaseGood
<1>2. /\ \A q \in Runtime \ {r} : SameRuntime(s, t, q)
      /\ \A p \in Page : t.code[p] = IF p \in X THEN <<>> ELSE s.code[p]
      /\ Clean(t)
  BY Runtime_ReleaseDoes DEF Finished
<1>3. X \subseteq PagesOf(s, r)
  BY DEF PagesOf
<1> HIDE DEF t, X
<1>4. \A p \in Page : \A i \in Lines(t, p) :
        p \notin X /\ t.code[p] = s.code[p] /\ i \in Lines(s, p)
  <2> SUFFICES ASSUME NEW p \in Page, NEW i \in Lines(t, p)
               PROVE  p \notin X /\ t.code[p] = s.code[p] /\ i \in Lines(s, p)
    OBVIOUS
  <2>1. p \notin X
    <3> SUFFICES ASSUME p \in X PROVE FALSE
      OBVIOUS
    <3>1. t.code[p] = <<>>
      BY <1>2
    <3> QED
      BY <3>1 DEF Lines
  <2> QED
    BY <1>2, <2>1 DEF Lines
<1>5. ASSUME NEW f \in DOMAIN comp, comp[f] # NULL
      PROVE  /\ WordsIn(t, comp[f].job, Home[f])
             /\ EmittedIn(t, comp[f].pc, comp[f].job)
             /\ Sound(t, comp[f].job, {}, {})
             /\ Keeps(s, t, comp[f].job)
  <2> DEFINE k == comp[f].job
             q == Home[f]
  <2>1. q \in Runtime /\ q # r /\ comp[f].pc \in PC
    BY <1>5, CompiledFacts
  <2>2. WordsIn(s, k, q) /\ EmittedIn(s, comp[f].pc, k) /\ Sound(s, k, {}, {})
    BY <1>5 DEF Finished
  <2> HIDE DEF k, q
  <2>3. \A p \in Page : p \in PagesOf(s, q) => p \notin X
    BY <1>3, <2>1, PagesApart
  <2>4. PagesOf(t, q) = PagesOf(s, q)
    BY <1>2, <2>1 DEF SameRuntime, PagesOf, On
  <2>5. WordsIn(t, k, q)
    BY <1>4, <2>2, <2>4 DEF WordsIn
  <2>6. \A p \in Page : \A i \in Lines(s, p) :
          s.code[p][i].job = k => t.code[p] = s.code[p] /\ i \in Lines(t, p)
    BY <1>2, <2>2, <2>3 DEF WordsIn, Lines
  <2>7. Keeps(s, t, k)
    BY <1>4, <2>6 DEF Keeps
  <2> QED
    BY <2>1, <2>2, <2>5, <2>7, KeepsFinished DEF k, q
<1>6. \A p \in Page : \A i \in Lines(t, p) : t.code[p][i].job <= j
  BY <1>4 DEF Finished
<1>7. Finished(t, comp, j)
  BY <1>2, <1>5, <1>6 DEF Finished
<1> QED
  BY <1>5, <1>7 DEF t

\* Nothing has been emitted by the job to come.
LEMMA NothingYet ==
  ASSUME NEW s, Good(s), NEW j \in Nat, NEW comp, Finished(s, comp, j), NEW r, NEW K, NEW P
  PROVE  Sound(s, j + 1, K, P) /\ WordsIn(s, j + 1, r)
<1>1. \A p \in Page : \A i \in Lines(s, p) : s.code[p][i].job # j + 1
  BY PoolFacts DEF Good, Finished
<1> QED
  BY <1>1 DEF Sound, WordsIn

LEMMA SomeForgotten ==
  ASSUME NEW s, NEW j, NEW comp, NEW d, Finished(s, comp, j), DOMAIN d = DOMAIN comp,
         \A f \in DOMAIN comp : d[f] = NULL \/ d[f] = comp[f]
  PROVE  Finished(s, d, j)
  BY DEF Finished

-----------------------------------------------------------------------------
(* What the blocks keep                                                    *)

LEMMA PendingElements ==
  ASSUME NEW ss
  PROVE  \A x : x \in Pending(ss) <=> \E i \in 1 .. Len(ss) : x \in Waiting(ss[i])
  BY DEF Pending

LEMMA HeldElements ==
  ASSUME NEW ss
  PROVE  \A x : x \in HeldPages(ss) <=>
           \E i \in 1 .. Len(ss) : ss[i].saved # NULL /\ x = ss[i].saved
  BY DEF HeldPages

LEMMA AppendKeeps ==
  ASSUME NEW ss, ScopesOk(ss), NEW sc \in Scope
  PROVE  LET ts == Append(ss, sc) IN
         /\ Pending(ts) = Pending(ss) \cup Waiting(sc)
         /\ Len(ts) = Len(ss) + 1 /\ Len(ss) \in Nat /\ Len(ss) >= 1
         /\ ts[Len(ss) + 1] = sc /\ ts[Len(ts)] = sc
         /\ \A i \in 1 .. Len(ss) : ts[i] = ss[i]
         /\ \A i \in 1 .. Len(ts) : i \in 1 .. Len(ss) \/ i = Len(ss) + 1
         /\ HeldPages(ss) \subseteq HeldPages(ts)
         /\ sc.saved # NULL => sc.saved \in HeldPages(ts)
<1> DEFINE ts == Append(ss, sc)
           n == Len(ss)
<1>1. ss \in Seq(Scope) /\ n \in Nat /\ n >= 1 /\ Len(ts) = n + 1
  BY DEF ScopesOk
<1>2. ts[n + 1] = sc /\ (\A i \in 1 .. n : ts[i] = ss[i])
  BY <1>1
<1> HIDE DEF ts, n
<1>3. /\ \A i \in 1 .. Len(ts) : i \in 1 .. n \/ i = n + 1
      /\ \A i \in 1 .. n : i \in 1 .. Len(ts)
      /\ n + 1 \in 1 .. Len(ts)
  BY <1>1
<1>4. Pending(ts) = Pending(ss) \cup Waiting(sc)
  <2>1. ASSUME NEW x \in Pending(ts)
        PROVE  x \in Pending(ss) \cup Waiting(sc)
    BY <1>2, <1>3, PendingElements DEF n
  <2>2. ASSUME NEW x \in Pending(ss) \cup Waiting(sc)
        PROVE  x \in Pending(ts)
    <3>1. CASE x \in Pending(ss)
      BY <1>2, <1>3, <3>1, PendingElements DEF n
    <3>2. CASE x \in Waiting(sc)
      BY <1>2, <1>3, <3>2, PendingElements
    <3> QED
      BY <3>1, <3>2
  <2> QED
    BY <2>1, <2>2
<1>5. HeldPages(ss) \subseteq HeldPages(ts)
  BY <1>2, <1>3, HeldElements DEF n
<1>6. sc.saved # NULL => sc.saved \in HeldPages(ts)
  BY <1>2, <1>3, HeldElements
<1> QED
  BY <1>1, <1>2, <1>3, <1>4, <1>5, <1>6 DEF ts, n

LEMMA OuterKeeps ==
  ASSUME NEW ss, ScopesOk(ss), Len(ss) >= 2
  PROVE  LET n  == Len(ss)
             ts == SubSeq(ss, 1, n - 1)
         IN  /\ n \in Nat /\ Len(ts) = n - 1 /\ n - 1 \in 1 .. n /\ n \in 1 .. n
             /\ ScopesOk(ts) /\ HeldPages(ts) \subseteq HeldPages(ss)
             /\ \A i \in 1 .. Len(ts) : i \in 1 .. n /\ ts[i] = ss[i]
             /\ Pending(ts) \subseteq Pending(ss)
             /\ Pending(ss) \subseteq Pending(ts) \cup Waiting(ss[n])
             /\ \A q \in HeldPages(ss) :
                  q \in HeldPages(ts) \/ (q = ss[n].saved /\ ss[n].saved # NULL)
<1> PICK n \in Nat : n = Len(ss)
  BY DEF ScopesOk
<1> PICK m \in Nat : m = n - 1
  OBVIOUS
<1> DEFINE ts == SubSeq(ss, 1, m)
<1>1. m \in 1 .. n /\ n \in 1 .. n /\ \A i \in 1 .. n : i \in 1 .. m \/ i = n
  OBVIOUS
<1>2. /\ ScopesOk(ts) /\ Len(ts) = m /\ (\A i \in 1 .. m : ts[i] = ss[i])
      /\ HeldPages(ts) \subseteq HeldPages(ss)
  BY <1>1, OuterScopes
<1> HIDE DEF ts
<1>3. \A i \in 1 .. m : i \in 1 .. n
  OBVIOUS
<1>4. Pending(ts) \subseteq Pending(ss)
  <2> SUFFICES ASSUME NEW x \in Pending(ts) PROVE x \in Pending(ss)
    OBVIOUS
  <2>1. PICK i \in 1 .. m : x \in Waiting(ts[i])
    BY <1>2, PendingElements
  <2> QED
    BY <1>2, <1>3, <2>1, PendingElements
<1>5. Pending(ss) \subseteq Pending(ts) \cup Waiting(ss[n])
  <2> SUFFICES ASSUME NEW x \in Pending(ss) PROVE x \in Pending(ts) \cup Waiting(ss[n])
    OBVIOUS
  <2>1. PICK i \in 1 .. n : x \in Waiting(ss[i])
    BY PendingElements
  <2> QED
    BY <1>1, <1>2, <2>1, PendingElements
<1>6. ASSUME NEW q \in HeldPages(ss)
      PROVE  q \in HeldPages(ts) \/ (q = ss[n].saved /\ ss[n].saved # NULL)
  <2>1. PICK i \in 1 .. n : ss[i].saved # NULL /\ q = ss[i].saved
    BY HeldElements
  <2> QED
    BY <1>1, <1>2, <2>1, HeldElements
<1> QED
  BY <1>1, <1>2, <1>3, <1>4, <1>5, <1>6 DEF ts

-----------------------------------------------------------------------------
(* How a step of a compilation ends                                        *)

\* What CodeStable says, of the step.
Stable ==
  \A f \in DOMAIN compiled :
    compiled[f] # NULL /\ compiled'[f] = compiled[f] => Keeps(pool, pool', compiled[f].job)

LEMMA KeepsTransitive ==
  ASSUME NEW s, NEW t, NEW u, NEW j, Keeps(s, t, j), Keeps(t, u, j)
  PROVE  Keeps(s, u, j)
<1> SUFFICES ASSUME NEW p \in Page
             PROVE  /\ \A i \in Lines(s, p) :
                         s.code[p][i].job = j => i \in Lines(u, p) /\ u.code[p][i] = s.code[p][i]
                    /\ \A i \in Lines(u, p) :
                         u.code[p][i].job = j => i \in Lines(s, p) /\ u.code[p][i] = s.code[p][i]
  BY DEF Keeps
<1>1. ASSUME NEW i \in Lines(s, p), s.code[p][i].job = j
      PROVE  i \in Lines(u, p) /\ u.code[p][i] = s.code[p][i]
  <2>1. i \in Lines(t, p) /\ t.code[p][i] = s.code[p][i]
    BY <1>1 DEF Keeps
  <2> QED
    BY <1>1, <2>1 DEF Keeps
<1>2. ASSUME NEW i \in Lines(u, p), u.code[p][i].job = j
      PROVE  i \in Lines(s, p) /\ u.code[p][i] = s.code[p][i]
  <2>1. i \in Lines(t, p) /\ u.code[p][i] = t.code[p][i]
    BY <1>2 DEF Keeps
  <2> QED
    BY <1>2, <2>1 DEF Keeps
<1> QED
  BY <1>1, <1>2

LEMMA SameStable ==
  ASSUME pool' = pool
  PROVE  Stable
  BY DEF Stable, Keeps

LEMMA WipeRoom ==
  ASSUME NEW s, Good(s), NEW r \in Runtime, Fits(s)
  PROVE  Fits(Runtime_Release(s, r))
<1> DEFINE t == Runtime_Release(s, r)
<1> SUFFICES ASSUME NEW p \in Page PROVE NumFreeLines(t, p) >= 0
  BY DEF Fits
<1>1. t.numLines[p] = s.numLines[p] /\ (t.code[p] = <<>> \/ t.code[p] = s.code[p])
  BY Runtime_ReleaseDoes
<1>2. s.numLines[p] \in Nat
  BY PoolFacts DEF Good
<1> HIDE DEF t
<1>3. CASE t.code[p] = <<>>
  <2>1. Len(t.code[p]) = 0
    BY <1>3
  <2> QED
    BY <1>1, <1>2, <2>1 DEF NumFreeLines
<1>4. CASE t.code[p] = s.code[p]
  BY <1>1, <1>4 DEF NumFreeLines, Fits
<1> QED
  BY <1>1, <1>3, <1>4

\* The compilation is given up, or its result is run and thrown away.
LEMMA Abandoned ==
  ASSUME IInv, CInv, o # NULL, NEW e, NEW H, EmitterOk(e, o.runtime, H),
         Work(pool, e.pool, o.runtime, o.job), Abandon(e), job' = job
  PROVE  CInv' /\ Stable /\ (Fits(e.pool) => Fits(pool')) /\ o' = NULL
<1> DEFINE r == o.runtime
           j == o.job
           s == ReleaseCodePage(e.pool, r, e.page)
           t == Runtime_Release(s, Scratch)
<1>1. /\ r \in Runtime /\ j \in Nat /\ j = job /\ Good(pool) /\ pool \in PoolType
      /\ compiled \in CompiledType /\ Scratch \in Runtime
  BY InProgress, CompilationAssumption DEF IInv, CInv, Begun, CompiledType, Good
<1>2. /\ e.pool \in PoolType /\ Good(e.pool) /\ e.page \in e.pool.active[r]
  BY EmitterFacts, OwnsFacts, <1>1
<1>3. Good(s) /\ s \in PoolType
  BY <1>1, <1>2, ReleaseGood DEF Good
<1>4. Work(pool, s, r, j)
  <2>1. Work(e.pool, s, r, j)
    BY <1>1, <1>2, ReleaseWork
  <2> QED
    BY <1>1, <1>2, <1>3, <2>1, WorkTransitive
<1>5. Fits(e.pool) => Fits(s)
  BY <1>1, <1>2, ReleaseDoes, SameRoom
<1>6. /\ pool' = IF o.fn = NULL THEN t ELSE s
      /\ o' = NULL /\ compiled' = compiled
  BY DEF Abandon
<1> HIDE DEF s
<1>7. /\ Finished(s, compiled, job)
      /\ \A f \in DOMAIN compiled : compiled[f] # NULL => Keeps(pool, s, compiled[f].job)
  <2>1. /\ Finished(pool, compiled, job)
        /\ \A f \in DOMAIN compiled : compiled[f] # NULL => compiled[f].job # j
    BY DEF CInv
  <2>2. job <= job
    BY <1>1
  <2> QED
    BY <1>1, <1>3, <1>4, <2>1, <2>2, FinishedWork
<1>8. CASE o.fn = NULL
  <2>1. /\ Finished(t, compiled, job)
        /\ \A f \in DOMAIN compiled : compiled[f] # NULL => Keeps(s, t, compiled[f].job)
    BY <1>1, <1>3, <1>7, FinishedWipe, CompiledFacts
  <2>2. EmptyRuntime(t, Scratch)
    BY <1>1, <1>3, Runtime_ReleaseDoes
  <2>3. Fits(s) => Fits(t)
    BY <1>1, <1>3, WipeRoom
  <2> HIDE DEF t
  <2>4. CInv'
    BY <1>1, <1>6, <1>8, <2>1, <2>2 DEF CInv
  <2>5. Stable
    <3> SUFFICES ASSUME NEW f \in DOMAIN compiled, compiled[f] # NULL
                 PROVE  Keeps(pool, t, compiled[f].job)
      BY <1>6, <1>8 DEF Stable
    <3> QED
      BY <1>7, <2>1, KeepsTransitive
  <2> QED
    BY <1>5, <1>6, <1>8, <2>3, <2>4, <2>5
<1>9. CASE o.fn # NULL
  <2>1. o.fn \in Function /\ r = Home[o.fn] /\ r # Scratch
    BY <1>9, InProgress, CompilationAssumption DEF CInv, Begun
  <2>2. EmptyRuntime(s, Scratch)
    <3>1. EmptyRuntime(pool, Scratch)
      BY <2>1 DEF CInv
    <3>2. SameRuntime(pool, s, Scratch)
      BY <1>1, <1>4, <2>1 DEF Work
    <3> QED
      BY <3>1, <3>2 DEF EmptyRuntime, SameRuntime
  <2>3. CInv'
    BY <1>1, <1>6, <1>7, <1>9, <2>2 DEF CInv
  <2>4. Stable
    BY <1>6, <1>7, <1>9 DEF Stable
  <2> QED
    BY <1>5, <1>6, <1>9, <2>3, <2>4
<1> QED
  BY <1>8, <1>9

\* c is the compilation in progress, further on.
Same(c) ==
  /\ c.job = o.job /\ c.runtime = o.runtime /\ c.fn = o.fn /\ c.pc = o.pc
  /\ c.scopes[1].opcode = o.scopes[1].opcode

LEMMA Continued ==
  ASSUME IInv, CInv, o # NULL, NEW e, NEW H, EmitterOk(e, o.runtime, H),
         Work(pool, e.pool, o.runtime, o.job), NEW c, Continue(e, c), job' = job,
         ~ignored' => Fits(e.pool),
         ~e.failed => /\ c \in CompilationType /\ Same(c) /\ Sane(e.pool, e.page, c)
                      /\ ~ignored' => RoomFor(e.pool, e.page, c.scopes)
  PROVE  CInv' /\ SInv' /\ Stable
<1>1. CASE e.failed
  <2>1. Abandon(e)
    BY <1>1 DEF Continue
  <2> QED
    BY <2>1, Abandoned DEF SInv
<1>2. CASE ~e.failed
  <2> DEFINE d == [c EXCEPT !.page = e.page]
  <2>1. pool' = e.pool /\ o' = d /\ compiled' = compiled
    BY <1>2 DEF Continue
  <2>2. /\ d \in CompilationType /\ d.job = c.job /\ d.runtime = c.runtime /\ d.fn = c.fn
        /\ d.scopes = c.scopes /\ d.page = e.page /\ d.pc = c.pc
    BY <1>2, EmitterFacts DEF CompilationType
  <2>3. /\ o.runtime \in Runtime /\ o.job \in Nat /\ o.job = job /\ Good(pool)
        /\ compiled \in CompiledType /\ Good(e.pool) /\ d # NULL
    <3>1. d # NULL
      BY <2>2, CompilationNotNull
    <3> QED
      BY <3>1, InProgress, EmitterFacts DEF IInv, CInv, Begun, CompiledType
  <2> HIDE DEF d
  <2>4. /\ Finished(e.pool, compiled, job)
        /\ \A f \in DOMAIN compiled : compiled[f] # NULL => Keeps(pool, e.pool, compiled[f].job)
    <3>1. /\ Finished(pool, compiled, job)
          /\ \A f \in DOMAIN compiled : compiled[f] # NULL => compiled[f].job # o.job
      BY DEF CInv
    <3>2. job <= job /\ job \in Nat
      BY <2>3
    <3> QED
      BY <2>3, <3>1, <3>2, FinishedWork
  <2>5. WordsIn(e.pool, o.job, o.runtime)
    BY <2>3, WorkInside DEF CInv
  <2>6. o.runtime # Scratch => EmptyRuntime(e.pool, Scratch)
    <3> SUFFICES ASSUME o.runtime # Scratch PROVE EmptyRuntime(e.pool, Scratch)
      OBVIOUS
    <3>1. EmptyRuntime(pool, Scratch)
      BY DEF CInv
    <3>2. SameRuntime(pool, e.pool, Scratch)
      BY CompilationAssumption DEF Work
    <3> QED
      BY <3>1, <3>2 DEF EmptyRuntime, SameRuntime
  <2>7. Sane(e.pool, d.page, d)
    BY <1>2, <2>2 DEF Sane
  <2>8. Begun(d, job)
    BY <1>2, <2>2 DEF Begun, Same, CInv
  <2>9. d.job = o.job /\ d.runtime = o.runtime
    BY <1>2, <2>2 DEF Same
  <2>10. CInv'
    BY <2>1, <2>3, <2>4, <2>5, <2>6, <2>7, <2>8, <2>9 DEF CInv
  <2>11. SInv'
    BY <1>2, <2>1, <2>2 DEF SInv
  <2>12. Stable
    BY <2>1, <2>4 DEF Stable
  <2> QED
    BY <2>10, <2>11, <2>12
<1>3. e.failed \in BOOLEAN
  BY EmitterFacts
<1> QED
  BY <1>1, <1>2, <1>3

-----------------------------------------------------------------------------
(* The words of the statements                                             *)

LEMMA Nulls == NULL # Unpatched /\ NULL \notin PC /\ Unpatched \notin PC
  BY PageAssumption

LEMMA PlainLeads ==
  ASSUME NEW j \in Nat, NEW n \in 1 .. FreeLinesThreshold, NEW s, NEW K
  PROVE  LET words == PlainWords(j, n) IN
         /\ Leads(words, s, j, K) /\ Len(words) = n
         /\ words[n].falls /\ words[n].to # Unpatched
<1> DEFINE words == PlainWords(j, n)
<1>1. n \in Nat /\ n >= 1 /\ n <= FreeLinesThreshold /\ n \in 1 .. n
  BY DEF FreeLinesThreshold
<1>2. words \in Seq(Word) /\ Len(words) = n
  <2>1. Unpatched \in PC \cup {Unpatched}
    OBVIOUS
  <2> QED
    BY <1>1, <2>1, WordTypes
<1>3. \A k \in 1 .. n : words[k] = Plain(j)
  BY DEF PlainWords
<1>4. Plain(j).job = j /\ Plain(j).falls /\ Plain(j).to = NULL
  BY WordFields
<1> HIDE DEF words
<1> QED
  BY <1>1, <1>2, <1>3, <1>4, Nulls DEF Leads, words

\* An operation and a pointer.
LEMMA PointerLeads ==
  ASSUME NEW j \in Nat, NEW w \in Word, w.job = j, NEW s, NEW K,
         w.to \in PC => Reached(s, j, K, w.to)
  PROVE  LET words == <<Plain(j), w>> IN
         /\ Leads(words, s, j, K) /\ Len(words) = 2 /\ words[2] = w
<1> DEFINE words == <<Plain(j), w>>
<1>1. Plain(j) \in Word
  <2>1. Unpatched \in PC \cup {Unpatched}
    OBVIOUS
  <2> QED
    BY <2>1, WordTypes
<1>2. /\ words \in Seq(Word) /\ Len(words) = 2
      /\ \A k \in 1 .. 2 : (k = 1 /\ words[k] = Plain(j)) \/ (k = 2 /\ words[k] = w)
  BY <1>1, TwoWords
<1>3. words[2] = w
  OBVIOUS
<1>4. Plain(j).job = j /\ Plain(j).to = NULL
  BY WordFields
<1>5. 2 >= 1 /\ 2 <= FreeLinesThreshold
  BY DEF FreeLinesThreshold
<1> HIDE DEF words
<1> QED
  BY <1>2, <1>3, <1>4, <1>5, Nulls DEF Leads, words

LEMMA StopLeads ==
  ASSUME NEW j \in Nat, NEW s, NEW K
  PROVE  LET words == <<Stop(j)>> IN
         /\ Leads(words, s, j, K) /\ Len(words) = 1
         /\ ~words[1].falls /\ words[1].to # Unpatched
<1> DEFINE words == <<Stop(j)>>
<1>1. Stop(j) \in Word
  <2>1. Unpatched \in PC \cup {Unpatched}
    OBVIOUS
  <2> QED
    BY <2>1, WordTypes
<1>2. words \in Seq(Word) /\ Len(words) = 1 /\ words[1] = Stop(j)
  BY <1>1
<1>3. Stop(j).job = j /\ Stop(j).falls = FALSE /\ Stop(j).to = NULL
  BY WordFields
<1>4. 1 >= 1 /\ 1 <= FreeLinesThreshold
  BY DEF FreeLinesThreshold
<1>5. \A k \in 1 .. 1 : k = 1
  OBVIOUS
<1> HIDE DEF words
<1> QED
  BY <1>2, <1>3, <1>4, <1>5, Nulls DEF Leads, words

LEMMA LeavingLeads ==
  ASSUME IInv, o # NULL, NEW t \in BranchTarget, NEW falls \in BOOLEAN, NEW s, NEW K,
         Reached(s, o.job, K, o.scopes[t].pc),
         o.scopes[t].opcode = "function" => ~falls
  PROVE  LET words == LeavingWords(t, falls) IN
         /\ Leads(words, s, o.job, K) /\ Len(words) <= 2
         /\ words[Len(words)].falls = falls
         /\ words[Len(words)].to = Unpatched <=>
              o.scopes[t].opcode \notin {"function", "loop"}
<1> DEFINE words == LeavingWords(t, falls)
           sc == o.scopes[t]
           j == o.job
<1>1. j \in Nat /\ sc.pc \in PC
  BY InProgress, ScopeType DEF BranchTarget, Top
<1> HIDE DEF sc, j
<1>2. CASE sc.opcode = "function"
  <2>1. words = <<Stop(j)>>
    BY <1>2 DEF LeavingWords, sc, j
  <2>2. Stop(j).falls = FALSE
    BY WordFields
  <2>3. falls = FALSE
    BY <1>2 DEF sc
  <2>4. /\ Leads(words, s, j, K) /\ Len(words) = 1
        /\ words[1].falls = FALSE /\ words[1].to # Unpatched
    <3>1. /\ Leads(<<Stop(j)>>, s, j, K) /\ Len(<<Stop(j)>>) = 1
          /\ <<Stop(j)>>[1].to # Unpatched
      BY <1>1, StopLeads
    <3>2. <<Stop(j)>>[1] = Stop(j)
      OBVIOUS
    <3> QED
      BY <2>1, <2>2, <3>1, <3>2
  <2> HIDE DEF words
  <2>5. Leads(words, s, j, K) /\ Len(words) <= 2
    BY <2>4
  <2>6. words[Len(words)] = words[1]
    BY <2>4
  <2>7. words[Len(words)].falls = falls /\ words[Len(words)].to # Unpatched
    BY <2>3, <2>4, <2>6
  <2>8. sc.opcode \in {"function", "loop"}
    BY <1>2
  <2> QED
    BY <2>5, <2>7, <2>8 DEF j, sc, words
<1>3. CASE sc.opcode = "loop"
  <2> DEFINE w == [Jump(j, sc.pc) EXCEPT !.falls = falls]
  <2>1. words = <<Plain(j), w>>
    BY <1>3 DEF LeavingWords, sc, j
  <2>2. w.job = j /\ w.falls = falls /\ w.to = sc.pc
    BY JumpFields
  <2>3. w \in Word
    <3>1. sc.pc \in PC \cup {Unpatched} /\ (falls = TRUE \/ falls = FALSE)
      BY <1>1
    <3> QED
      BY <1>1, <3>1, WordTypes
  <2> HIDE DEF w, words
  <2>4. Leads(words, s, j, K) /\ Len(words) = 2 /\ words[2] = w
    BY <1>1, <2>1, <2>2, <2>3, PointerLeads DEF sc, j
  <2> QED
    BY <1>1, <1>3, <2>2, <2>4, Nulls DEF words, j, sc
<1>4. CASE sc.opcode \notin {"function", "loop"}
  <2> DEFINE w == [Jump(j, Unpatched) EXCEPT !.falls = falls]
  <2>1. words = <<Plain(j), w>>
    BY <1>4 DEF LeavingWords, sc, j
  <2>2. w.job = j /\ w.falls = falls /\ w.to = Unpatched
    BY JumpFields
  <2>3. w \in Word
    <3>1. Unpatched \in PC \cup {Unpatched} /\ (falls = TRUE \/ falls = FALSE)
      OBVIOUS
    <3> QED
      BY <1>1, <3>1, WordTypes
  <2> HIDE DEF w, words
  <2>4. Leads(words, s, j, K) /\ Len(words) = 2 /\ words[2] = w
    BY <1>1, <2>1, <2>2, <2>3, Nulls, PointerLeads
  <2> QED
    BY <1>4, <2>2, <2>4 DEF words, j, sc
<1> QED
  BY <1>2, <1>3, <1>4 DEF sc

\* Words that fall through and wait for nothing.
LEMMA EmitPlainDoes ==
  ASSUME NEW r \in Runtime, NEW j \in Nat, NEW H, NEW e, EmitterOk(e, r, H),
         NEW n \in 1 .. FreeLinesThreshold, NEW x \in EmitOp(e, r, j, PlainWords(j, n))
  PROVE  /\ Writing(e, x, r, j, H) /\ EmitterOk(x, r, H)
         /\ \A P : Flow(e.pool, H \cup {e.page}, P, x.pool, H \cup {x.page}, P, j)
         /\ ~x.failed /\ Clean(e.pool) => LeavesRoom(e, x, n)
<1> DEFINE words == PlainWords(j, n)
<1>1. /\ Leads(words, e.pool, j, H \cup {e.page}) /\ Len(words) = n
      /\ words[n].falls /\ words[n].to # Unpatched
  BY PlainLeads
<1>2. x \in EmitOp(e, r, j, words)
  OBVIOUS
<1> HIDE DEF words
<1>3. /\ Writing(e, x, r, j, H) /\ EmitterOk(x, r, H)
      /\ x.failed => \A P : Flow(e.pool, H \cup {e.page}, P, x.pool, H \cup {x.page}, P, j)
      /\ ~x.failed => \A P : Flow(e.pool, H \cup {e.page}, P,
                                  x.pool, After(words, H, x), Waits(words, P, x), j)
      /\ ~x.failed /\ Clean(e.pool) => LeavesRoom(e, x, Len(words))
  <2> DEFINE L == Leads(words, e.pool, j, H \cup {e.page})
  <2>1. r \in Runtime /\ j \in Nat /\ EmitterOk(e, r, H) /\ L /\ x \in EmitOp(e, r, j, words)
    BY <1>1, <1>2
  <2>2. Writing(e, x, r, j, H) /\ EmitterOk(x, r, H)
    BY <2>1, EmitOpDoes
  <2>3. x.failed => \A P : Flow(e.pool, H \cup {e.page}, P, x.pool, H \cup {x.page}, P, j)
    BY <2>1, EmitOpDoes
  <2>4. ~x.failed => \A P : Flow(e.pool, H \cup {e.page}, P,
                                 x.pool, After(words, H, x), Waits(words, P, x), j)
    BY <2>1, EmitOpDoes
  <2>5. ~x.failed /\ Clean(e.pool) => LeavesRoom(e, x, Len(words))
    BY <2>1, EmitOpDoes
  <2> QED
    BY <2>2, <2>3, <2>4, <2>5
<1>4. After(words, H, x) = H \cup {x.page} /\ \A P : Waits(words, P, x) = P
  BY <1>1 DEF After, Waits
<1>5. x.failed \in BOOLEAN
  BY <1>3, EmitterFacts
<1> QED
  BY <1>1, <1>3, <1>4, <1>5

\* The copy of a local that is still referenced.
LEMMA PreserveDoes ==
  ASSUME NEW r \in Runtime, NEW j \in Nat, NEW H, NEW e, EmitterOk(e, r, H), NEW n \in {0, 1},
         NEW x \in PreserveArgsAndLocals(e, r, j, n)
  PROVE  /\ Work(e.pool, x.pool, r, j) /\ EmitterOk(x, r, H)
         /\ EmitterOk([x EXCEPT !.failed = FALSE], r, H)
         /\ \A P : Flow(e.pool, H \cup {e.page}, P, x.pool, H \cup {x.page}, P, j)
         /\ ~x.failed /\ Clean(e.pool) =>
              /\ Untouched(e.pool, x.pool, H)
              /\ Fits(e.pool) /\ NumFreeLines(e.pool, e.page) >= 2 =>
                   Fits(x.pool) /\ NumFreeLines(x.pool, x.page) >= 2
<1>1. EmitterOk(x, r, H) /\ EmitterOk([x EXCEPT !.failed = FALSE], r, H)
  BY PreserveOk
<1>2. Good(e.pool) /\ e.pool \in PoolType
  BY EmitterFacts
<1>3. CASE n = 0
  <2>1. x = e
    BY <1>3 DEF PreserveArgsAndLocals
  <2>2. Work(e.pool, e.pool, r, j)
    BY <1>2, NoWork
  <2>3. \A P : Flow(e.pool, H \cup {e.page}, P, e.pool, H \cup {e.page}, P, j)
    BY DEF Flow
  <2>4. Untouched(e.pool, e.pool, H)
    BY DEF Untouched
  <2> QED
    BY <1>1, <2>1, <2>2, <2>3, <2>4
<1>4. CASE n = 1
  <2>1. PICK y \in EmitOp(e, r, j, PlainWords(j, 3)) :
          x = IF y.failed THEN [y EXCEPT !.pool = EmitWords(y.pool, y.page, PlainWords(j, 2))]
              ELSE y
    BY <1>4 DEF PreserveArgsAndLocals
  <2>2. /\ Writing(e, y, r, j, H) /\ EmitterOk(y, r, H)
        /\ \A P : Flow(e.pool, H \cup {e.page}, P, y.pool, H \cup {y.page}, P, j)
        /\ ~y.failed /\ Clean(e.pool) => NumFreeLines(y.pool, y.page) >= 2
    <3> PICK m \in Nat : m = 3
      OBVIOUS
    <3>1. m \in 1 .. FreeLinesThreshold /\ y \in EmitOp(e, r, j, PlainWords(j, m))
      BY DEF FreeLinesThreshold
    <3>2. /\ Writing(e, y, r, j, H) /\ EmitterOk(y, r, H)
          /\ \A P : Flow(e.pool, H \cup {e.page}, P, y.pool, H \cup {y.page}, P, j)
          /\ ~y.failed /\ Clean(e.pool) => LeavesRoom(e, y, m)
      BY <3>1, EmitPlainDoes
    <3>3. Good(y.pool) /\ y.page \in Page
      BY <3>2, EmitterFacts
    <3>4. NumFreeLines(y.pool, y.page) \in Int
      BY <3>3, FreeLinesType
    <3>5. LeavesRoom(e, y, m) => NumFreeLines(y.pool, y.page) >= 2
      <4> SUFFICES ASSUME NumFreeLines(y.pool, y.page) >= 8 - m
                   PROVE  NumFreeLines(y.pool, y.page) >= 2
        BY DEF LeavesRoom
      <4> DEFINE N == NumFreeLines(y.pool, y.page)
      <4>1. N \in Int /\ N >= 8 - m
        BY <3>4
      <4> HIDE DEF N
      <4>2. N >= 2
        BY <4>1
      <4> QED
        BY <4>2 DEF N
    <3> QED
      BY <3>2, <3>5
  <2>3. CASE ~y.failed
    BY <1>1, <2>1, <2>2, <2>3 DEF Writing
  <2>4. CASE y.failed
    <3> DEFINE words == PlainWords(j, 2)
               t == EmitWords(y.pool, y.page, words)
    <3>1. x.pool = t /\ x.page = y.page /\ x.failed
      BY <2>1, <2>2, <2>4 DEF EmitterOk
    <3>2. Good(y.pool) /\ y.page \in Page /\ y.page \in y.pool.active[r] /\ y.pool \in PoolType
      BY <2>2, EmitterFacts, OwnsFacts
    <3>3. x.pool \in PoolType
      BY <1>1, EmitterFacts
    <3>4. /\ words \in Seq(Word) /\ Len(words) = 2
          /\ \A k \in 1 .. 2 : words[k] = Plain(j)
      <4>1. Unpatched \in PC \cup {Unpatched} /\ 2 \in Nat
        OBVIOUS
      <4> QED
        BY <4>1, WordTypes DEF PlainWords
    <3>5. Plain(j).job = j /\ Plain(j).falls /\ Plain(j).to = NULL
      BY WordFields
    <3> HIDE DEF words
    <3>6. Work(y.pool, t, r, j)
      BY <3>2, <3>4, <3>5, EmitWork
    <3>7. Work(e.pool, t, r, j)
      BY <1>2, <2>2, <3>1, <3>2, <3>3, <3>6, WorkTransitive DEF Writing
    <3>8. ASSUME NEW P
          PROVE  Flow(y.pool, H \cup {y.page}, P, t, H \cup {y.page}, P, j)
      <4> DEFINE K == H \cup {y.page}
      <4>1. y.page \in K /\ K \subseteq K \cup {y.page} /\ P \subseteq P
        OBVIOUS
      <4>2. \A k \in 1 .. Len(words) : /\ words[k].job = j
                                       /\ words[k].to # Unpatched
                                       /\ words[k].to \notin PC
        BY <3>4, <3>5, Nulls
      <4>3. Len(words) >= 1
        BY <3>4
      <4> HIDE DEF K
      <4> QED
        BY <3>2, <3>4, <4>1, <4>2, <4>3, EmitFlow DEF K
    <3> HIDE DEF t
    <3>9. \A P : Flow(e.pool, H \cup {e.page}, P, t, H \cup {y.page}, P, j)
      BY <2>2, <3>8 DEF Flow
    <3> QED
      BY <1>1, <3>1, <3>7, <3>9
  <2>5. y.failed \in BOOLEAN
    BY <2>2, EmitterFacts
  <2> QED
    BY <2>3, <2>4, <2>5
<1> QED
  BY <1>3, <1>4

-----------------------------------------------------------------------------
(* Room, by the kind of the innermost block                                *)

NoTable(ss) == \A i \in 1 .. Len(ss) : ss[i].opcode # "targets"

LEMMA OutsideTable ==
  ASSUME NEW s, NEW p, NEW ss, ScopesOk(ss), RoomFor(s, p, ss),
         ss[Len(ss)].opcode \notin {"targets", "target"}
  PROVE  NoTable(ss)
  BY DEF RoomFor, NoTable

LEMMA SimpleRoom ==
  ASSUME NEW ss, ScopesOk(ss), NoTable(ss), NEW t, NEW q, NumFreeLines(t, q) >= 2,
         \A h \in HeldPages(ss) : NumFreeLines(t, h) >= 2
  PROVE  RoomFor(t, q, ss)
<1> DEFINE n == Len(ss)
<1>1. n \in 1 .. n /\ n \in Nat
  BY DEF ScopesOk
<1>2. ss[n].opcode # "targets"
  BY <1>1 DEF NoTable
<1>3. ss[n].opcode # "target"
  <2> SUFFICES ASSUME ss[n].opcode = "target" PROVE FALSE
    OBVIOUS
  <2>1. n > 1 /\ ss[n - 1].opcode = "targets"
    BY <1>1 DEF ScopesOk
  <2>2. n - 1 \in 1 .. n
    BY <1>1, <2>1
  <2> QED
    BY <2>1, <2>2 DEF NoTable
<1> QED
  BY <1>1, <1>2, <1>3 DEF RoomFor, NoTable

\* The innermost block goes on; what it keeps has not been written to.
LEMMA RoomAfter ==
  ASSUME NEW s, NEW p, NEW ss, ScopesOk(ss), RoomFor(s, p, ss), ss[Len(ss)].opcode # "targets",
         NEW t, NEW q, NumFreeLines(t, q) >= 2,
         \A h \in HeldPages(ss) : NumFreeLines(t, h) = NumFreeLines(s, h)
  PROVE  RoomFor(t, q, ss)
<1> DEFINE n == Len(ss)
<1>1. n \in 1 .. n /\ n \in Nat
  BY DEF ScopesOk
<1>2. \A h \in HeldPages(ss) : NumFreeLines(t, h) = NumFreeLines(s, h)
  OBVIOUS
<1>3. ss[n].opcode = "target" => ss[n].saved \in HeldPages(ss)
  BY <1>1, ScopeType DEF ScopesOk
<1> QED
  BY <1>1, <1>2, <1>3 DEF RoomFor

LEMMA RoomSame ==
  ASSUME NEW s, NEW p, NEW ss, ScopesOk(ss), RoomFor(s, p, ss),
         NEW ts, Len(ts) = Len(ss), HeldPages(ts) = HeldPages(ss),
         \A i \in 1 .. Len(ss) : /\ ts[i].opcode = ss[i].opcode
                                 /\ ts[i].saved = ss[i].saved
                                 /\ ts[i].left = ss[i].left
  PROVE  RoomFor(s, p, ts)
<1> DEFINE n == Len(ss)
<1>1. n \in 1 .. n /\ n \in Nat
  BY DEF ScopesOk
<1>2. ss[n].opcode = "target" => n - 1 \in 1 .. n
  BY <1>1 DEF ScopesOk
<1>3. \A i \in 1 .. n : ss[i].opcode = "targets" =>
        i = n \/ (i = n - 1 /\ ss[n].opcode = "target")
  BY DEF RoomFor
<1> QED
  BY <1>1, <1>2, <1>3 DEF RoomFor

LEMMA OuterRoom ==
  ASSUME NEW ss, ScopesOk(ss), NoTable(ss), Len(ss) >= 2
  PROVE  NoTable(SubSeq(ss, 1, Len(ss) - 1))
  BY OuterKeeps DEF NoTable

LEMMA AppendRoom ==
  ASSUME NEW ss, ScopesOk(ss), NoTable(ss), NEW sc \in Scope, sc.opcode # "targets"
  PROVE  NoTable(Append(ss, sc))
  BY AppendKeeps DEF NoTable

-----------------------------------------------------------------------------
(* Statements                                                              *)

AllInv == IInv /\ CInv /\ SInv
Preserved == CInv' /\ SInv' /\ Stable

LEMMA InBetween ==
  ASSUME AllInv, o # NULL
  PROVE  /\ Start.pool = pool /\ Start.page = o.page /\ Start.failed = FALSE
         /\ Good(pool) /\ pool \in PoolType /\ Clean(pool) /\ o.page \in Page
         /\ o \in CompilationType /\ o.runtime \in Runtime /\ o.job \in Nat
         /\ ScopesOk(o.scopes) /\ EmitterOk(Start, o.runtime, HeldPages(o.scopes))
         /\ Owns(pool, o.runtime, o.page, HeldPages(o.scopes))
         /\ Sane(pool, o.page, o)
         /\ ~ignored => /\ Fits(pool) /\ RoomFor(pool, o.page, o.scopes)
                        /\ NumFreeLines(pool, o.page) >= 2
                        /\ \A h \in HeldPages(o.scopes) : NumFreeLines(pool, h) >= 2
         /\ \A P : Flow(pool, HeldPages(o.scopes) \cup {o.page}, P,
                        pool, HeldPages(o.scopes) \cup {o.page}, P, o.job)
<1>1. Start.pool = pool /\ Start.page = o.page /\ Start.failed = FALSE
  BY DEF Start, Emitter
<1>2. Good(pool) /\ pool \in PoolType
  BY DEF AllInv, IInv, Good
<1>3. Clean(pool) /\ Sane(pool, o.page, o)
  BY DEF AllInv, CInv, Finished
<1>4. ~ignored => /\ Fits(pool) /\ RoomFor(pool, o.page, o.scopes)
                  /\ NumFreeLines(pool, o.page) >= 2
                  /\ \A h \in HeldPages(o.scopes) : NumFreeLines(pool, h) >= 2
  BY DEF AllInv, SInv, RoomFor
<1>5. \A P : Flow(pool, HeldPages(o.scopes) \cup {o.page}, P,
                  pool, HeldPages(o.scopes) \cup {o.page}, P, o.job)
  BY DEF Flow
<1> QED
  BY <1>1, <1>2, <1>3, <1>4, <1>5, InProgress DEF AllInv

LEMMA HereReached ==
  ASSUME NEW s, NEW j, NEW K, NEW q \in K
  PROVE  Reached(s, j, K, GetPagePC(s, q))
  BY DEF Reached, GetPagePC

LEMMA FlowWidens ==
  ASSUME NEW s, NEW K, NEW P, NEW t, NEW L, NEW Q, NEW j, Flow(s, K, P, t, L, Q, j),
         NEW M, L \subseteq M, NEW R, Q \subseteq R
  PROVE  Flow(s, K, P, t, M, R, j)
<1>1. Flow(t, L, Q, t, M, R, j)
  BY SameCodeFlow
<1> QED
  BY <1>1, FlowTransitive

\* When the words lead on, the compilation is sane.
LEMMA SaneAfter ==
  ASSUME AllInv, o # NULL, NEW t \in PoolType, NEW q, Work(pool, t, o.runtime, o.job),
         NEW c, c.job = o.job, c.pc = o.pc,
         Flow(pool, HeldPages(o.scopes) \cup {o.page}, Pending(o.scopes),
              t, HeldPages(c.scopes) \cup {q}, Pending(c.scopes), o.job),
         \A i \in 1 .. Len(c.scopes) :
           /\ Keeping(c.scopes[i])
           /\ \/ \E k \in 1 .. Len(o.scopes) : c.scopes[i].pc = o.scopes[k].pc
              \/ Reached(t, o.job, HeldPages(c.scopes) \cup {q}, c.scopes[i].pc),
         \A pc \in Pending(c.scopes) :
           pc \in Pending(o.scopes) \/ (pc \in PC /\ EmittedIn(t, pc, o.job))
  PROVE  Sane(t, q, c)
<1> DEFINE K == HeldPages(o.scopes) \cup {o.page}
           L == HeldPages(c.scopes) \cup {q}
           j == o.job
<1>1. /\ \A i \in 1 .. Len(o.scopes) : Reached(pool, j, K, o.scopes[i].pc)
      /\ \A pc \in Pending(o.scopes) : pc \in PC /\ EmittedIn(pool, pc, j)
      /\ Sound(pool, j, K, Pending(o.scopes)) /\ Reached(pool, j, K, o.pc)
  BY InBetween DEF Sane, Writes
<1>2. o.pc \in PC /\ pool \in PoolType
  BY InBetween DEF CompilationType
<1>3. \A i \in 1 .. Len(o.scopes) : o.scopes[i].pc \in PC
  BY InBetween, ScopeType
<1> HIDE DEF K, L
<1>4. Sound(t, j, L, Pending(c.scopes)) /\ \A pc \in PC : Reached(pool, j, K, pc) => Reached(t, j, L, pc)
  BY <1>1 DEF Flow, K, L
<1>5. \A i \in 1 .. Len(c.scopes) : Keeping(c.scopes[i]) /\ Reached(t, j, L, c.scopes[i].pc)
  BY <1>1, <1>3, <1>4 DEF L
<1>6. \A pc \in Pending(c.scopes) : pc \in PC /\ EmittedIn(t, pc, j)
  BY <1>1, <1>2, WorkEmitted
<1>7. Reached(t, j, L, c.pc)
  BY <1>1, <1>2, <1>4
<1> QED
  BY <1>4, <1>5, <1>6, <1>7 DEF Sane, Writes, L

LEMMA RoomLeft ==
  ASSUME NEW e, NEW x, Good(x.pool), x.page \in Page, NEW m \in Nat, m <= 6,
         LeavesRoom(e, x, m)
  PROVE  NumFreeLines(x.pool, x.page) >= 2
<1> DEFINE N == NumFreeLines(x.pool, x.page)
<1>1. N \in Int
  BY FreeLinesType
<1>2. N >= 8 - m
  BY DEF LeavesRoom
<1> HIDE DEF N
<1>3. N >= 2
  BY <1>1, <1>2
<1> QED
  BY <1>3 DEF N

\* The room after words have been emitted, when the blocks are the same.
LEMMA RoomGoesOn ==
  ASSUME AllInv, o # NULL, ~ignored, Current.opcode # "targets",
         NEW e, NEW m \in Nat, m <= 6,
         Writing(Start, e, o.runtime, o.job, HeldPages(o.scopes)),
         EmitterOk(e, o.runtime, HeldPages(o.scopes)), LeavesRoom(Start, e, m)
  PROVE  /\ Fits(e.pool) /\ RoomFor(e.pool, e.page, o.scopes)
         /\ NumFreeLines(e.pool, e.page) >= 2
         /\ \A h \in HeldPages(o.scopes) : NumFreeLines(e.pool, h) = NumFreeLines(pool, h)
<1>1. Fits(e.pool) /\ Untouched(pool, e.pool, HeldPages(o.scopes))
  BY InBetween DEF Writing
<1>2. NumFreeLines(e.pool, e.page) >= 2
  BY EmitterFacts, RoomLeft
<1>3. \A h \in HeldPages(o.scopes) : NumFreeLines(e.pool, h) = NumFreeLines(pool, h)
  BY <1>1, UntouchedRoom
<1>4. o.scopes[Len(o.scopes)].opcode # "targets"
  BY DEF Current, Top
<1>5. RoomFor(pool, o.page, o.scopes) /\ ScopesOk(o.scopes)
  BY InBetween
<1>6. RoomFor(e.pool, e.page, o.scopes)
  BY <1>2, <1>3, <1>4, <1>5, RoomAfter
<1> QED
  BY <1>1, <1>2, <1>3, <1>6

LEMMA MalformedDoes ==
  ASSUME AllInv, Malformed
  PROVE  Preserved
<1>1. o # NULL /\ Abandon(Start) /\ ignored' = ignored /\ job' = job
  BY DEF Malformed
<1>2. Work(pool, Start.pool, o.runtime, o.job)
  BY <1>1, InBetween, NoWork
<1>3. CInv' /\ Stable /\ (Fits(pool) => Fits(pool')) /\ o' = NULL
  BY <1>1, <1>2, InBetween, Abandoned DEF AllInv
<1>4. SInv'
  BY <1>1, <1>3, InBetween DEF SInv
<1> QED
  BY <1>3, <1>4 DEF Preserved

LEMMA InstructionDoes ==
  ASSUME AllInv, NEW n \in Operands, Instruction(n)
  PROVE  Preserved
<1> PICK m \in Nat : m = n + 1 /\ m >= 1 /\ m <= 6
  BY CompilationAssumption DEF FreeLinesThreshold
<1> DEFINE H == HeldPages(o.scopes)
<1>1. o # NULL /\ Current.opcode # "targets" /\ ignored' = ignored /\ job' = job
  BY DEF Instruction, Busy, Emitting, Counted
<1>2. PICK e \in EmitOp(Start, o.runtime, o.job, PlainWords(o.job, m)) : Continue(e, o)
  BY DEF Instruction
<1>3. m \in 1 .. FreeLinesThreshold
  BY DEF FreeLinesThreshold
<1>4. /\ Writing(Start, e, o.runtime, o.job, H) /\ EmitterOk(e, o.runtime, H)
      /\ \A P : Flow(pool, H \cup {o.page}, P, e.pool, H \cup {e.page}, P, o.job)
      /\ ~e.failed => LeavesRoom(Start, e, m)
  <2>1. /\ o.runtime \in Runtime /\ o.job \in Nat /\ EmitterOk(Start, o.runtime, H)
        /\ Start.pool = pool /\ Start.page = o.page /\ Clean(pool)
    BY <1>1, InBetween
  <2> HIDE DEF H
  <2>2. /\ Writing(Start, e, o.runtime, o.job, H) /\ EmitterOk(e, o.runtime, H)
        /\ \A P : Flow(Start.pool, H \cup {Start.page}, P, e.pool, H \cup {e.page}, P, o.job)
        /\ ~e.failed /\ Clean(Start.pool) => LeavesRoom(Start, e, m)
    BY <1>2, <1>3, <2>1, EmitPlainDoes
  <2> QED
    BY <2>1, <2>2
<1>5. Work(pool, e.pool, o.runtime, o.job) /\ e.pool \in PoolType
  BY <1>1, <1>4, InBetween, EmitterFacts DEF Writing
<1>6. Sane(e.pool, e.page, o)
  <2>1. Flow(pool, H \cup {o.page}, Pending(o.scopes),
             e.pool, HeldPages(o.scopes) \cup {e.page}, Pending(o.scopes), o.job)
    BY <1>4
  <2>2. \A i \in 1 .. Len(o.scopes) : Keeping(o.scopes[i])
    BY <1>1, InBetween DEF Sane
  <2> QED
    BY <1>1, <1>5, <2>1, <2>2, SaneAfter
<1>7. ~ignored => Fits(e.pool)
  BY <1>1, <1>4, InBetween DEF Writing
<1>8. ~ignored /\ ~e.failed => RoomFor(e.pool, e.page, o.scopes)
  BY <1>1, <1>4, RoomGoesOn
<1>9. Same(o) /\ o \in CompilationType
  BY <1>1, InBetween DEF Same
<1> HIDE DEF H
<1> QED
  BY <1>1, <1>2, <1>4, <1>5, <1>6, <1>7, <1>8, <1>9, Continued DEF AllInv, Preserved

\* A block begins, and its code goes on where the emitter is.
LEMMA BlockOpened ==
  ASSUME AllInv, o # NULL, Current.opcode \in BlockOpcode,
         NEW e, EmitterOk(e, o.runtime, HeldPages(o.scopes)),
         Work(pool, e.pool, o.runtime, o.job),
         NEW sc \in Scope, sc.saved = NULL, Keeping(sc), sc.pc = GetPagePC(e.pool, e.page),
         sc.opcode \in {"block", "loop", "if", "targets"}, sc.opcode = "targets" => sc.left >= 1,
         Flow(pool, HeldPages(o.scopes) \cup {o.page}, Pending(o.scopes),
              e.pool, HeldPages(o.scopes) \cup {e.page}, Pending(o.scopes) \cup Waiting(sc), o.job),
         \A pc \in Waiting(sc) : pc \in PC /\ EmittedIn(e.pool, pc, o.job),
         ~ignored' => /\ ~ignored /\ NumFreeLines(e.pool, e.page) >= 2
                      /\ sc.opcode = "targets" => NumFreeLines(e.pool, e.page) >= sc.left + 2
                      /\ \A h \in HeldPages(o.scopes) :
                           NumFreeLines(e.pool, h) = NumFreeLines(pool, h)
  PROVE  LET c == [o EXCEPT !.scopes = Append(@, sc)] IN
         /\ c \in CompilationType /\ Same(c) /\ Sane(e.pool, e.page, c)
         /\ ~ignored' => RoomFor(e.pool, e.page, c.scopes)
<1> DEFINE c  == [o EXCEPT !.scopes = Append(@, sc)]
           ss == o.scopes
           ts == Append(ss, sc)
           H  == HeldPages(ss)
<1>1. /\ o \in CompilationType /\ ScopesOk(ss) /\ e.pool \in PoolType /\ e.page \in Page
      /\ Sane(pool, o.page, o)
  BY InBetween, EmitterFacts
<1>2. c \in CompilationType /\ ScopesOk(c.scopes) /\ HeldPages(c.scopes) \subseteq H
  BY OpenScope DEF AllInv
<1>3. /\ c.scopes = ts /\ c.job = o.job /\ c.runtime = o.runtime /\ c.fn = o.fn /\ c.pc = o.pc
  BY <1>1 DEF CompilationType
<1> HIDE DEF c
<1>4. /\ Pending(ts) = Pending(ss) \cup Waiting(sc)
      /\ Len(ts) = Len(ss) + 1 /\ Len(ss) \in Nat /\ Len(ss) >= 1
      /\ ts[Len(ss) + 1] = sc /\ ts[Len(ts)] = sc
      /\ \A i \in 1 .. Len(ss) : ts[i] = ss[i]
      /\ \A i \in 1 .. Len(ts) : i \in 1 .. Len(ss) \/ i = Len(ss) + 1
      /\ H \subseteq HeldPages(ts)
  BY <1>1, AppendKeeps
<1> HIDE DEF ts
<1>5. HeldPages(ts) = H /\ ScopesOk(ts)
  BY <1>2, <1>3, <1>4
<1>6. Same(c)
  <2>1. 1 \in 1 .. Len(ss)
    BY <1>4
  <2> QED
    BY <1>3, <1>4, <2>1 DEF Same
<1>7. Sane(e.pool, e.page, c)
  <2>1. ASSUME NEW i \in 1 .. Len(ts)
        PROVE  /\ Keeping(ts[i])
               /\ \/ \E k \in 1 .. Len(o.scopes) : ts[i].pc = o.scopes[k].pc
                  \/ Reached(e.pool, o.job, HeldPages(ts) \cup {e.page}, ts[i].pc)
    <3>1. CASE i \in 1 .. Len(ss)
      <4>1. Keeping(ss[i])
        BY <1>1, <3>1 DEF Sane
      <4> QED
        BY <1>4, <3>1, <4>1
    <3>2. CASE i = Len(ss) + 1
      <4>1. e.page \in HeldPages(ts) \cup {e.page}
        OBVIOUS
      <4>2. Reached(e.pool, o.job, HeldPages(ts) \cup {e.page}, sc.pc)
        BY <4>1, HereReached
      <4> QED
        BY <1>4, <3>2, <4>2
    <3> QED
      BY <1>4, <3>1, <3>2
  <2>2. Flow(pool, HeldPages(o.scopes) \cup {o.page}, Pending(o.scopes),
             e.pool, HeldPages(ts) \cup {e.page}, Pending(ts), o.job)
    BY <1>4, <1>5
  <2>3. \A pc \in Pending(ts) :
          pc \in Pending(o.scopes) \/ (pc \in PC /\ EmittedIn(e.pool, pc, o.job))
    BY <1>4
  <2> QED
    BY <1>1, <1>3, <2>1, <2>2, <2>3, SaneAfter
<1>8. ASSUME ~ignored'
      PROVE  RoomFor(e.pool, e.page, ts)
  <2>1. /\ ~ignored /\ NumFreeLines(e.pool, e.page) >= 2
        /\ \A h \in H : NumFreeLines(e.pool, h) >= 2
    BY <1>8, InBetween
  <2>2. NoTable(ss)
    <3>1. RoomFor(pool, o.page, ss)
      BY <2>1, InBetween
    <3>2. ss[Len(ss)].opcode \notin {"targets", "target"}
      BY DEF Current, Top, BlockOpcode
    <3> QED
      BY <1>1, <3>1, <3>2, OutsideTable
  <2>3. CASE sc.opcode # "targets"
    <3>1. NoTable(ts)
      BY <1>1, <2>2, <2>3, AppendRoom DEF ts
    <3> QED
      BY <1>5, <2>1, <3>1, SimpleRoom
  <2>4. CASE sc.opcode = "targets"
    <3>1. \A i \in 1 .. Len(ts) : ts[i].opcode = "targets" => i = Len(ts)
      BY <1>4, <2>2 DEF NoTable
    <3> QED
      BY <1>4, <1>5, <1>8, <2>1, <2>4, <3>1 DEF RoomFor
  <2> QED
    BY <2>3, <2>4
<1> QED
  BY <1>2, <1>3, <1>6, <1>7, <1>8 DEF c

LEMMA NewScopeKeeps ==
  ASSUME NEW opcode \in (BlockOpcode \cup {"expression", "targets", "target"}) \ {"if"}, NEW pc \in PC
  PROVE  /\ NewScope(opcode, pc) \in Scope
         /\ NewScope(opcode, pc).opcode = opcode /\ NewScope(opcode, pc).saved = NULL
         /\ NewScope(opcode, pc).pc = pc
         /\ Keeping(NewScope(opcode, pc)) /\ Waiting(NewScope(opcode, pc)) = {}
<1>1. NewScope(opcode, pc).patches = {} /\ NewScope(opcode, pc).pc = pc
  BY DEF NewScope
<1>2. /\ NewScope(opcode, pc) \in Scope /\ NewScope(opcode, pc).opcode = opcode
      /\ NewScope(opcode, pc).saved = NULL
  BY NewScopeType
<1> QED
  BY <1>1, <1>2 DEF Keeping, Waiting

LEMMA LoopOrBlockDoes ==
  ASSUME AllInv, NEW opcode \in {"block", "loop"}, NEW n \in {0, 1},
         Compile_LoopOrBlock(opcode, n)
  PROVE  Preserved
<1> DEFINE H == HeldPages(o.scopes)
           r == o.runtime
           j == o.job
<1>1. o # NULL /\ Current.opcode \in BlockOpcode /\ job' = job
  BY DEF Compile_LoopOrBlock, InBlock, Busy, Emitting, Counted
<1>2. PICK x \in PreserveArgsAndLocals(Start, r, j, n) :
        LET y == [x EXCEPT !.failed = FALSE] IN
        /\ ignored' = (ignored \/ x.failed)
        /\ \E e \in IF opcode = "block" THEN {y} ELSE EmitOp(y, r, j, PlainWords(j, 1)) :
             Continue(e, [o EXCEPT !.scopes =
               Append(@, NewScope(opcode, GetPagePC(e.pool, e.page)))])
  BY DEF Compile_LoopOrBlock
<1> DEFINE y == [x EXCEPT !.failed = FALSE]
<1>3. PICK e \in IF opcode = "block" THEN {y} ELSE EmitOp(y, r, j, PlainWords(j, 1)) :
        Continue(e, [o EXCEPT !.scopes =
          Append(@, NewScope(opcode, GetPagePC(e.pool, e.page)))])
  BY <1>2
<1>4. /\ r \in Runtime /\ j \in Nat /\ EmitterOk(Start, r, H)
      /\ Start.pool = pool /\ Start.page = o.page /\ Clean(pool) /\ pool \in PoolType
      /\ ~ignored => Fits(pool) /\ NumFreeLines(pool, o.page) >= 2
  BY <1>1, InBetween
<1> HIDE DEF H, r, j
<1>5. /\ Work(pool, x.pool, r, j) /\ EmitterOk(x, r, H) /\ EmitterOk(y, r, H)
      /\ \A P : Flow(pool, H \cup {o.page}, P, x.pool, H \cup {x.page}, P, j)
      /\ ~x.failed => /\ Untouched(pool, x.pool, H)
                      /\ ~ignored => Fits(x.pool) /\ NumFreeLines(x.pool, x.page) >= 2
  BY <1>4, PreserveDoes
<1>6. /\ y.pool = x.pool /\ y.page = x.page /\ y.failed = FALSE /\ Clean(x.pool)
      /\ x.pool \in PoolType /\ x.failed \in BOOLEAN
  BY <1>4, <1>5, EmitterFacts DEF EmitterOk, Work
<1> HIDE DEF y
<1>7. /\ Work(pool, e.pool, r, j) /\ EmitterOk(e, r, H)
      /\ \A P : Flow(pool, H \cup {o.page}, P, e.pool, H \cup {e.page}, P, j)
      /\ ~ignored' => /\ ~ignored /\ Untouched(pool, e.pool, H) /\ Fits(e.pool)
                      /\ ~e.failed => NumFreeLines(e.pool, e.page) >= 2
  <2>1. CASE opcode = "block"
    <3>1. e = y
      BY <1>3, <2>1
    <3> QED
      BY <1>2, <1>5, <1>6, <3>1
  <2>2. CASE opcode = "loop"
    <3> PICK m \in Nat : m = 1
      OBVIOUS
    <3>1. m \in 1 .. FreeLinesThreshold /\ m <= 6 /\ e \in EmitOp(y, r, j, PlainWords(j, m))
      BY <1>3, <2>2 DEF FreeLinesThreshold
    <3>2. /\ Writing(y, e, r, j, H) /\ EmitterOk(e, r, H)
          /\ \A P : Flow(y.pool, H \cup {y.page}, P, e.pool, H \cup {e.page}, P, j)
          /\ ~e.failed /\ Clean(y.pool) => LeavesRoom(y, e, m)
      BY <1>4, <1>5, <3>1, EmitPlainDoes
    <3>3. Good(e.pool) /\ e.page \in Page /\ e.pool \in PoolType
      BY <3>2, EmitterFacts
    <3>4. Work(pool, e.pool, r, j)
      BY <1>4, <1>5, <1>6, <3>2, <3>3, WorkTransitive DEF Writing
    <3>5. \A P : Flow(pool, H \cup {o.page}, P, e.pool, H \cup {e.page}, P, j)
      BY <1>5, <1>6, <3>2 DEF Flow
    <3>6. ASSUME ~ignored'
          PROVE  /\ ~ignored /\ Untouched(pool, e.pool, H) /\ Fits(e.pool)
                 /\ ~e.failed => NumFreeLines(e.pool, e.page) >= 2
      <4>1. /\ ~ignored /\ Untouched(pool, x.pool, H)
            /\ Fits(x.pool) /\ NumFreeLines(x.pool, x.page) >= 2
        BY <1>2, <1>5, <3>6
      <4>2. Untouched(x.pool, e.pool, H) /\ Fits(e.pool)
        BY <1>6, <3>2, <4>1 DEF Writing
      <4>3. ~e.failed => NumFreeLines(e.pool, e.page) >= 2
        BY <1>6, <3>1, <3>2, <3>3, RoomLeft
      <4> QED
        BY <4>1, <4>2, <4>3, UntouchedTransitive
    <3> QED
      BY <3>2, <3>4, <3>5, <3>6
  <2> QED
    BY <2>1, <2>2
<1> DEFINE sc == NewScope(opcode, GetPagePC(e.pool, e.page))
           c  == [o EXCEPT !.scopes = Append(@, sc)]
<1>8. /\ sc \in Scope /\ sc.opcode = opcode /\ sc.saved = NULL
      /\ sc.pc = GetPagePC(e.pool, e.page) /\ Keeping(sc) /\ Waiting(sc) = {}
  <2>1. opcode \in (BlockOpcode \cup {"expression", "targets", "target"}) \ {"if"}
    BY DEF BlockOpcode
  <2>2. GetPagePC(e.pool, e.page) \in PC
    BY <1>7, EmitterFacts, PCType
  <2> QED
    BY <2>1, <2>2, NewScopeKeeps
<1>9. Continue(e, c)
  BY <1>3
<1> HIDE DEF sc
<1>10. ~e.failed => /\ c \in CompilationType /\ Same(c) /\ Sane(e.pool, e.page, c)
                    /\ ~ignored' => RoomFor(e.pool, e.page, c.scopes)
  <2> SUFFICES ASSUME ~e.failed
               PROVE  /\ c \in CompilationType /\ Same(c) /\ Sane(e.pool, e.page, c)
                      /\ ~ignored' => RoomFor(e.pool, e.page, c.scopes)
    OBVIOUS
  <2>1. /\ EmitterOk(e, o.runtime, HeldPages(o.scopes)) /\ Work(pool, e.pool, o.runtime, o.job)
        /\ Flow(pool, HeldPages(o.scopes) \cup {o.page}, Pending(o.scopes), e.pool,
                HeldPages(o.scopes) \cup {e.page}, Pending(o.scopes) \cup Waiting(sc), o.job)
    BY <1>7, <1>8 DEF H, r, j
  <2>2. ~ignored' => /\ ~ignored /\ NumFreeLines(e.pool, e.page) >= 2
                     /\ \A h \in HeldPages(o.scopes) :
                          NumFreeLines(e.pool, h) = NumFreeLines(pool, h)
    BY <1>7, UntouchedRoom DEF H
  <2>3. sc.opcode \in {"block", "loop", "if", "targets"} /\ sc.opcode # "targets"
    BY <1>8
  <2> QED
    BY <1>1, <1>8, <2>1, <2>2, <2>3, BlockOpened
<1>11. IInv /\ CInv
  BY DEF AllInv
<1> HIDE DEF c
<1> QED
  BY <1>1, <1>7, <1>9, <1>10, <1>11, Continued DEF Preserved, r, j

LEMMA IfDoes ==
  ASSUME AllInv, NEW n \in {0, 1}, Compile_If(n)
  PROVE  Preserved
<1> DEFINE H == HeldPages(o.scopes)
           r == o.runtime
           j == o.job
           w == Fork(j, Unpatched)
           words == <<Plain(j), w>>
<1>1. o # NULL /\ Current.opcode \in BlockOpcode /\ job' = job
  BY DEF Compile_If, InBlock, Busy, Emitting, Counted
<1>2. PICK x \in PreserveArgsAndLocals(Start, r, j, n) :
        /\ ignored' = (ignored \/ x.failed)
        /\ \E e \in EmitOp([x EXCEPT !.failed = FALSE], r, j, words) :
             Continue(e, [o EXCEPT !.scopes =
               Append(@, [NewScope("if", GetPagePC(e.pool, e.page))
                            EXCEPT !.pointer = LastPC(e.pool, e.page)])])
  BY DEF Compile_If
<1> DEFINE y == [x EXCEPT !.failed = FALSE]
<1>3. PICK e \in EmitOp(y, r, j, words) :
        Continue(e, [o EXCEPT !.scopes =
          Append(@, [NewScope("if", GetPagePC(e.pool, e.page))
                       EXCEPT !.pointer = LastPC(e.pool, e.page)])])
  BY <1>2
<1>4. /\ r \in Runtime /\ j \in Nat /\ EmitterOk(Start, r, H)
      /\ Start.pool = pool /\ Start.page = o.page /\ Clean(pool) /\ pool \in PoolType
      /\ ~ignored => Fits(pool) /\ NumFreeLines(pool, o.page) >= 2
  BY <1>1, InBetween
<1> HIDE DEF H, r, j, w, words
<1>5. /\ Work(pool, x.pool, r, j) /\ EmitterOk(x, r, H) /\ EmitterOk(y, r, H)
      /\ \A P : Flow(pool, H \cup {o.page}, P, x.pool, H \cup {x.page}, P, j)
      /\ ~x.failed => /\ Untouched(pool, x.pool, H)
                      /\ ~ignored => Fits(x.pool) /\ NumFreeLines(x.pool, x.page) >= 2
  BY <1>4, PreserveDoes
<1>6. /\ y.pool = x.pool /\ y.page = x.page /\ y.failed = FALSE /\ Clean(x.pool)
      /\ x.pool \in PoolType /\ x.failed \in BOOLEAN
  BY <1>4, <1>5, EmitterFacts DEF EmitterOk, Work
<1> HIDE DEF y
<1>7. /\ Leads(words, y.pool, j, H \cup {y.page}) /\ Len(words) = 2
      /\ words[2].falls = TRUE /\ words[2].to = Unpatched
  <2>1. w.job = j /\ w.falls = TRUE /\ w.to = Unpatched
    BY DEF w, Fork
  <2>2. w \in Word
    <3>1. Unpatched \in PC \cup {Unpatched}
      OBVIOUS
    <3> QED
      BY <1>4, <3>1, WordTypes DEF w
  <2> QED
    BY <1>4, <2>1, <2>2, Nulls, PointerLeads DEF words
<1>8. /\ Writing(y, e, r, j, H) /\ EmitterOk(e, r, H)
      /\ ~e.failed =>
           /\ \A P : Flow(y.pool, H \cup {y.page}, P,
                          e.pool, After(words, H, e), Waits(words, P, e), j)
           /\ LastPC(e.pool, e.page) \in PC /\ EmittedIn(e.pool, LastPC(e.pool, e.page), j)
      /\ ~e.failed /\ Clean(y.pool) => LeavesRoom(y, e, Len(words))
  BY <1>3, <1>4, <1>5, <1>7, EmitOpDoes
<1>9. /\ After(words, H, e) = H \cup {e.page}
      /\ \A P : Waits(words, P, e) = P \cup {LastPC(e.pool, e.page)}
  BY <1>7 DEF After, Waits
<1>10. Good(e.pool) /\ e.page \in Page /\ e.pool \in PoolType
  BY <1>8, EmitterFacts
<1>11. Work(pool, e.pool, r, j)
  BY <1>4, <1>5, <1>6, <1>8, <1>10, WorkTransitive DEF Writing
<1>12. ASSUME ~ignored'
       PROVE  /\ ~ignored /\ Untouched(pool, e.pool, H) /\ Fits(e.pool)
              /\ ~e.failed => NumFreeLines(e.pool, e.page) >= 2
  <2>1. /\ ~ignored /\ Untouched(pool, x.pool, H)
        /\ Fits(x.pool) /\ NumFreeLines(x.pool, x.page) >= 2
    BY <1>2, <1>5, <1>12
  <2>2. Untouched(x.pool, e.pool, H) /\ Fits(e.pool)
    BY <1>6, <1>8, <2>1 DEF Writing
  <2>3. ~e.failed => NumFreeLines(e.pool, e.page) >= 2
    <3>1. 2 \in Nat /\ 2 <= 6 /\ (~e.failed => LeavesRoom(y, e, 2))
      BY <1>6, <1>7, <1>8
    <3> QED
      BY <1>10, <3>1, RoomLeft
  <2> QED
    BY <2>1, <2>2, <2>3, UntouchedTransitive
<1> DEFINE pc == GetPagePC(e.pool, e.page)
           last == LastPC(e.pool, e.page)
           sc == [NewScope("if", pc) EXCEPT !.pointer = last]
           c  == [o EXCEPT !.scopes = Append(@, sc)]
<1>13. Continue(e, c)
  BY <1>3
<1>14. ~e.failed => /\ c \in CompilationType /\ Same(c) /\ Sane(e.pool, e.page, c)
                    /\ ~ignored' => RoomFor(e.pool, e.page, c.scopes)
  <2> SUFFICES ASSUME ~e.failed
               PROVE  /\ c \in CompilationType /\ Same(c) /\ Sane(e.pool, e.page, c)
                      /\ ~ignored' => RoomFor(e.pool, e.page, c.scopes)
    OBVIOUS
  <2>1. pc \in PC /\ last \in PC /\ EmittedIn(e.pool, last, j)
    BY <1>8, <1>10, PCType
  <2> HIDE DEF pc, last
  <2>2. /\ sc \in Scope /\ sc.opcode = "if" /\ sc.saved = NULL /\ sc.pc = pc
        /\ sc.patches = {} /\ sc.pointer = last
    <3>1. NewScope("if", pc) \in Scope /\ NewScope("if", pc).opcode = "if" /\ NewScope("if", pc).saved = NULL
      BY <2>1, NewScopeType DEF BlockOpcode
    <3>2. NewScope("if", pc).patches = {} /\ NewScope("if", pc).pc = pc
      BY DEF NewScope
    <3> QED
      BY <2>1, <3>1, <3>2 DEF Scope
  <2> HIDE DEF sc
  <2>3. Keeping(sc) /\ Waiting(sc) = {last}
    BY <2>1, <2>2 DEF Keeping, Waiting
  <2>4. /\ EmitterOk(e, o.runtime, HeldPages(o.scopes)) /\ Work(pool, e.pool, o.runtime, o.job)
        /\ Flow(pool, HeldPages(o.scopes) \cup {o.page}, Pending(o.scopes), e.pool,
                HeldPages(o.scopes) \cup {e.page}, Pending(o.scopes) \cup Waiting(sc), o.job)
    <3>1. \A P : Flow(pool, H \cup {o.page}, P, e.pool, H \cup {e.page}, P \cup {last}, j)
      BY <1>5, <1>6, <1>8, <1>9 DEF Flow, last
    <3> QED
      BY <1>8, <1>11, <2>3, <3>1 DEF H, r, j
  <2>5. ~ignored' => /\ ~ignored /\ NumFreeLines(e.pool, e.page) >= 2
                     /\ \A h \in HeldPages(o.scopes) :
                          NumFreeLines(e.pool, h) = NumFreeLines(pool, h)
    BY <1>12, UntouchedRoom DEF H
  <2>6. sc.opcode \in {"block", "loop", "if", "targets"} /\ sc.opcode # "targets"
    BY <2>2
  <2>7. \A x_1 \in Waiting(sc) : x_1 \in PC /\ EmittedIn(e.pool, x_1, o.job)
    BY <2>1, <2>3 DEF j
  <2>8. sc.pc = GetPagePC(e.pool, e.page) /\ sc.saved = NULL /\ sc \in Scope /\ Keeping(sc)
    BY <2>2, <2>3 DEF pc
  <2> QED
    BY <1>1, <2>4, <2>5, <2>6, <2>7, <2>8, BlockOpened
<1>15. IInv /\ CInv
  BY DEF AllInv
<1> HIDE DEF c
<1> QED
  BY <1>1, <1>8, <1>11, <1>12, <1>13, <1>14, <1>15, Continued DEF Preserved, r, j

-----------------------------------------------------------------------------
(* Branches                                                                *)

\* The pointer that leaving for block t leaves behind.
LeftFor(t, e) ==
  IF o.scopes[t].opcode \in {"function", "loop"} THEN {} ELSE {LastPC(e.pool, e.page)}

LEMMA LeaveDoes ==
  ASSUME IInv, o # NULL, NEW t \in BranchTarget, NEW falls \in BOOLEAN,
         o.scopes[t].opcode = "function" => ~falls,
         NEW H, NEW e, EmitterOk(e, o.runtime, H), NEW x \in Leave(e, t, falls),
         Reached(e.pool, o.job, H \cup {e.page}, o.scopes[t].pc), Clean(e.pool)
  PROVE  /\ Writing(e, x, o.runtime, o.job, H) /\ EmitterOk(x, o.runtime, H)
         /\ ~x.failed =>
              /\ \A P : Flow(e.pool, H \cup {e.page}, P, x.pool,
                             IF falls THEN H \cup {x.page} ELSE H, P \cup LeftFor(t, x), o.job)
              /\ LastPC(x.pool, x.page) \in PC
              /\ EmittedIn(x.pool, LastPC(x.pool, x.page), o.job)
              /\ NumFreeLines(x.pool, x.page) >= 2
              /\ \E m \in Nat : m <= 6 /\ LeavesRoom(e, x, m)
<1> DEFINE words == LeavingWords(t, falls)
           r == o.runtime
           j == o.job
<1>1. /\ Leads(words, e.pool, j, H \cup {e.page}) /\ Len(words) <= 2
      /\ words[Len(words)].falls = falls
      /\ words[Len(words)].to = Unpatched <=>
           o.scopes[t].opcode \notin {"function", "loop"}
  BY LeavingLeads
<1>2. r \in Runtime /\ j \in Nat
  BY InProgress
<1>3. x \in EmitOp(e, r, j, words)
  BY DEF Leave
<1> HIDE DEF words, r, j
<1>4. EmitterOk(e, r, H)
  BY DEF r
<1>5. /\ Writing(e, x, r, j, H) /\ EmitterOk(x, r, H)
      /\ ~x.failed =>
           /\ \A P : Flow(e.pool, H \cup {e.page}, P,
                          x.pool, After(words, H, x), Waits(words, P, x), j)
           /\ LastPC(x.pool, x.page) \in PC /\ EmittedIn(x.pool, LastPC(x.pool, x.page), j)
      /\ ~x.failed /\ Clean(e.pool) => LeavesRoom(e, x, Len(words))
  BY <1>1, <1>2, <1>3, <1>4, EmitOpDoes
<1>6. After(words, H, x) = IF falls THEN H \cup {x.page} ELSE H
  BY <1>1 DEF After
<1>7. \A P : Waits(words, P, x) = P \cup LeftFor(t, x)
  BY <1>1 DEF Waits, LeftFor
<1>8. Len(words) \in Nat /\ Len(words) <= 6
  BY <1>1 DEF Leads
<1>9. ~x.failed => NumFreeLines(x.pool, x.page) >= 2
  BY <1>5, <1>8, EmitterFacts, RoomLeft
<1> QED
  BY <1>5, <1>6, <1>7, <1>8, <1>9 DEF r, j

LEMMA WithPatchKeeps ==
  ASSUME AllInv, o # NULL, NEW t \in BranchTarget, NEW e, LastPC(e.pool, e.page) \in PC
  PROVE  LET c == WithPatch(o, t, e) IN
         /\ c \in CompilationType /\ c.job = o.job /\ c.runtime = o.runtime
         /\ c.fn = o.fn /\ c.pc = o.pc
         /\ ScopesOk(c.scopes) /\ HeldPages(c.scopes) = HeldPages(o.scopes)
         /\ Len(c.scopes) = Len(o.scopes)
         /\ Pending(c.scopes) = Pending(o.scopes) \cup LeftFor(t, e)
         /\ \A i \in 1 .. Len(o.scopes) :
              /\ c.scopes[i].opcode = o.scopes[i].opcode /\ c.scopes[i].saved = o.scopes[i].saved
              /\ c.scopes[i].left = o.scopes[i].left /\ c.scopes[i].pc = o.scopes[i].pc
              /\ Keeping(c.scopes[i])
              /\ i # t => c.scopes[i] = o.scopes[i]
<1> DEFINE c == WithPatch(o, t, e)
           last == LastPC(e.pool, e.page)
           ss == o.scopes
           ts == c.scopes
<1>1. /\ o \in CompilationType /\ ScopesOk(ss) /\ t \in 1 .. Len(ss)
      /\ ss[t].opcode \in BlockOpcode
      /\ \A i \in 1 .. Len(ss) : Keeping(ss[i])
  BY InBetween DEF BranchTarget, Top, Sane
<1>2. /\ c \in CompilationType /\ c.runtime = o.runtime /\ ScopesOk(ts)
      /\ HeldPages(ts) = HeldPages(ss) /\ Len(ts) = Len(ss)
      /\ \A i \in 1 .. Len(ss) : /\ ts[i].opcode = ss[i].opcode
                                 /\ ts[i].saved = ss[i].saved
                                 /\ ts[i].left = ss[i].left
  BY <1>1, WithPatchOk
<1>3. CASE ss[t].opcode \in {"function", "loop"}
  <2>1. c = o /\ LeftFor(t, e) = {}
    BY <1>3 DEF WithPatch, LeftFor
  <2> QED
    BY <1>1, <1>2, <2>1
<1>4. CASE ss[t].opcode \notin {"function", "loop"}
  <2>1. c = [o EXCEPT !.scopes[t].patches = @ \cup {last}] /\ LeftFor(t, e) = {last}
    BY <1>4 DEF WithPatch, LeftFor
  <2>2. /\ c.job = o.job /\ c.fn = o.fn /\ c.pc = o.pc
        /\ ts = [ss EXCEPT ![t].patches = @ \cup {last}]
    BY <1>1, <2>1 DEF CompilationType
  <2> HIDE DEF c
  <2>3. ss \in Seq(Scope)
    BY <1>1 DEF ScopesOk
  <2>4. \A i \in 1 .. Len(ss) : i # t => ts[i] = ss[i]
    BY <1>1, <2>2, <2>3
  <2>5. /\ ts[t].opcode = ss[t].opcode /\ ts[t].saved = ss[t].saved
        /\ ts[t].pc = ss[t].pc /\ ts[t].pointer = ss[t].pointer
        /\ ts[t].patches = ss[t].patches \cup {last}
    <3>1. ts[t] = [ss[t] EXCEPT !.patches = @ \cup {last}] /\ ss[t] \in Scope
      BY <1>1, <2>2, <2>3
    <3> QED
      BY <3>1 DEF Scope
  <2>6. Waiting(ts[t]) = Waiting(ss[t]) \cup {last}
    BY <2>5 DEF Waiting
  <2>7. Keeping(ts[t])
    <3>1. Keeping(ss[t]) /\ ss[t].opcode \in {"block", "if", "else"}
      BY <1>1, <1>4 DEF BlockOpcode
    <3> QED
      BY <2>5, <3>1 DEF Keeping
  <2> HIDE DEF ts, ss, last
  <2>8. Pending(ts) = Pending(ss) \cup {last}
    <3>1. ASSUME NEW x \in Pending(ts)
          PROVE  x \in Pending(ss) \cup {last}
      <4>1. PICK i \in 1 .. Len(ss) : x \in Waiting(ts[i])
        BY <1>2, PendingElements
      <4>2. x \in Waiting(ss[i]) \cup {last}
        BY <2>4, <2>6, <4>1
      <4> QED
        BY <4>2, PendingElements
    <3>2. ASSUME NEW x \in Pending(ss) \cup {last}
          PROVE  x \in Pending(ts)
      <4>1. CASE x = last
        BY <1>1, <1>2, <2>6, <4>1, PendingElements
      <4>2. CASE x \in Pending(ss)
        <5>1. PICK i \in 1 .. Len(ss) : x \in Waiting(ss[i])
          BY <4>2, PendingElements
        <5>2. x \in Waiting(ts[i])
          BY <2>4, <2>6, <5>1
        <5> QED
          BY <1>2, <5>1, <5>2, PendingElements
      <4> QED
        BY <4>1, <4>2
    <3> QED
      BY <3>1, <3>2
  <2>9. \A i \in 1 .. Len(ss) : ts[i].pc = ss[i].pc /\ Keeping(ts[i])
    BY <1>1, <2>4, <2>5, <2>7
  <2> QED
    BY <1>2, <2>1, <2>2, <2>4, <2>8, <2>9 DEF c, ts, ss
<1> QED
  BY <1>3, <1>4

\* The compilation goes on after words that leave for block t.
LEMMA LeftBlock ==
  ASSUME AllInv, o # NULL, NEW t \in BranchTarget,
         NEW x, LastPC(x.pool, x.page) \in PC,
         NEW e, EmitterOk(e, o.runtime, HeldPages(o.scopes)), Work(pool, e.pool, o.runtime, o.job),
         Flow(pool, HeldPages(o.scopes) \cup {o.page}, Pending(o.scopes), e.pool,
              HeldPages(o.scopes) \cup {e.page}, Pending(o.scopes) \cup LeftFor(t, x), o.job),
         EmittedIn(e.pool, LastPC(x.pool, x.page), o.job),
         ~ignored' => RoomFor(e.pool, e.page, o.scopes),
         NEW c, c = WithPatch(o, t, x) \/ c = [WithPatch(o, t, x) EXCEPT !.dead = TRUE]
  PROVE  /\ c \in CompilationType /\ Same(c) /\ Sane(e.pool, e.page, c)
         /\ ~ignored' => RoomFor(e.pool, e.page, c.scopes)
<1> DEFINE d  == WithPatch(o, t, x)
           ss == o.scopes
<1>1. /\ d \in CompilationType /\ d.job = o.job /\ d.runtime = o.runtime
      /\ d.fn = o.fn /\ d.pc = o.pc
      /\ ScopesOk(d.scopes) /\ HeldPages(d.scopes) = HeldPages(ss)
      /\ Len(d.scopes) = Len(ss)
      /\ Pending(d.scopes) = Pending(ss) \cup LeftFor(t, x)
      /\ \A i \in 1 .. Len(ss) :
           /\ d.scopes[i].opcode = ss[i].opcode /\ d.scopes[i].saved = ss[i].saved
           /\ d.scopes[i].left = ss[i].left /\ d.scopes[i].pc = ss[i].pc
           /\ Keeping(d.scopes[i])
  BY WithPatchKeeps
<1> HIDE DEF d
<1>2. /\ c \in CompilationType /\ c.job = d.job /\ c.runtime = d.runtime
      /\ c.fn = d.fn /\ c.pc = d.pc /\ c.scopes = d.scopes
  <2>1. CASE c = d
    BY <1>1, <2>1
  <2>2. CASE c = [d EXCEPT !.dead = TRUE]
    BY <1>1, <2>2 DEF CompilationType
  <2> QED
    BY <2>1, <2>2 DEF d
<1>3. e.pool \in PoolType /\ ScopesOk(ss)
  BY EmitterFacts, InBetween
<1>4. Same(c)
  <2>1. 1 \in 1 .. Len(ss)
    BY <1>3 DEF ScopesOk
  <2> QED
    BY <1>1, <1>2, <2>1 DEF Same
<1>5. Sane(e.pool, e.page, c)
  <2>1. \A i \in 1 .. Len(c.scopes) :
          /\ Keeping(c.scopes[i])
          /\ \E k \in 1 .. Len(o.scopes) : c.scopes[i].pc = o.scopes[k].pc
    BY <1>1, <1>2
  <2>2. \A pc \in Pending(c.scopes) :
          pc \in Pending(o.scopes) \/ (pc \in PC /\ EmittedIn(e.pool, pc, o.job))
    BY <1>1, <1>2 DEF LeftFor
  <2>3. Flow(pool, HeldPages(o.scopes) \cup {o.page}, Pending(o.scopes), e.pool,
             HeldPages(c.scopes) \cup {e.page}, Pending(c.scopes), o.job)
    BY <1>1, <1>2
  <2>4. c.job = o.job /\ c.pc = o.pc
    BY <1>1, <1>2
  <2> QED
    BY <1>3, <2>1, <2>2, <2>3, <2>4, SaneAfter
<1>6. ~ignored' => RoomFor(e.pool, e.page, c.scopes)
  <2> DEFINE ts == c.scopes
  <2>1. /\ Len(ts) = Len(ss) /\ HeldPages(ts) = HeldPages(ss)
        /\ \A i \in 1 .. Len(ss) : /\ ts[i].opcode = ss[i].opcode
                                 /\ ts[i].saved = ss[i].saved
                                 /\ ts[i].left = ss[i].left
    BY <1>1, <1>2
  <2> HIDE DEF ts, ss
  <2>2. ~ignored' => RoomFor(e.pool, e.page, ss)
    BY DEF ss
  <2>3. ~ignored' => RoomFor(e.pool, e.page, ts)
    BY <1>3, <2>1, <2>2, RoomSame
  <2> QED
    BY <2>3 DEF ts
<1> QED
  BY <1>2, <1>4, <1>5, <1>6

\* A statement that only leaves for a block.
LEMMA LeaveGoesOn ==
  ASSUME AllInv, o # NULL, Current.opcode # "targets", ignored' = ignored, job' = job,
         NEW t \in BranchTarget, NEW falls \in BOOLEAN,
         o.scopes[t].opcode = "function" => ~falls,
         NEW e \in Leave(Start, t, falls), NEW c, Continue(e, c),
         c = WithPatch(o, t, e) \/ c = [WithPatch(o, t, e) EXCEPT !.dead = TRUE]
  PROVE  Preserved
<1> DEFINE H == HeldPages(o.scopes)
<1>1. /\ EmitterOk(Start, o.runtime, H) /\ Start.pool = pool /\ Start.page = o.page
      /\ Clean(pool) /\ o.runtime \in Runtime /\ IInv /\ CInv
  BY InBetween DEF AllInv
<1>2. Reached(pool, o.job, H \cup {o.page}, o.scopes[t].pc)
  BY InBetween DEF Sane, Writes, BranchTarget, Top
<1> HIDE DEF H
<1>3. /\ Writing(Start, e, o.runtime, o.job, H) /\ EmitterOk(e, o.runtime, H)
      /\ ~e.failed =>
           /\ \A P : Flow(pool, H \cup {o.page}, P, e.pool,
                          IF falls THEN H \cup {e.page} ELSE H, P \cup LeftFor(t, e), o.job)
           /\ LastPC(e.pool, e.page) \in PC
           /\ EmittedIn(e.pool, LastPC(e.pool, e.page), o.job)
           /\ \E m \in Nat : m <= 6 /\ LeavesRoom(Start, e, m)
  BY <1>1, <1>2, LeaveDoes
<1>4. Work(pool, e.pool, o.runtime, o.job)
  BY <1>1, <1>3 DEF Writing
<1>5. ~ignored' => Fits(e.pool)
  BY <1>1, <1>3, InBetween DEF Writing
<1>6. ~e.failed => /\ c \in CompilationType /\ Same(c) /\ Sane(e.pool, e.page, c)
                   /\ ~ignored' => RoomFor(e.pool, e.page, c.scopes)
  <2> SUFFICES ASSUME ~e.failed
               PROVE  /\ c \in CompilationType /\ Same(c) /\ Sane(e.pool, e.page, c)
                      /\ ~ignored' => RoomFor(e.pool, e.page, c.scopes)
    OBVIOUS
  <2>1. Flow(pool, H \cup {o.page}, Pending(o.scopes), e.pool,
             H \cup {e.page}, Pending(o.scopes) \cup LeftFor(t, e), o.job)
    <3> DEFINE L == IF falls THEN H \cup {e.page} ELSE H
               Q == Pending(o.scopes) \cup LeftFor(t, e)
    <3>1. Flow(pool, H \cup {o.page}, Pending(o.scopes), e.pool, L, Q, o.job)
      BY <1>3
    <3>2. L \subseteq H \cup {e.page} /\ Q \subseteq Q
      OBVIOUS
    <3> HIDE DEF L, Q
    <3>3. Flow(pool, H \cup {o.page}, Pending(o.scopes), e.pool, H \cup {e.page}, Q, o.job)
      BY <3>1, <3>2, FlowWidens
    <3> QED
      BY <3>3 DEF Q
  <2>2. ~ignored' => RoomFor(e.pool, e.page, o.scopes)
    BY <1>3, RoomGoesOn DEF H
  <2>3. LastPC(e.pool, e.page) \in PC /\ EmittedIn(e.pool, LastPC(e.pool, e.page), o.job)
    BY <1>3
  <2> QED
    BY <1>3, <1>4, <2>1, <2>2, <2>3, LeftBlock DEF H
<1> QED
  BY <1>1, <1>3, <1>4, <1>5, <1>6, Continued DEF Preserved

LEMMA InBlockFacts ==
  ASSUME InBlock, Counted
  PROVE  /\ o # NULL /\ Current.opcode \in BlockOpcode /\ Current.opcode # "targets" /\ job' = job
  BY DEF InBlock, Busy, Emitting, Counted, BlockOpcode

LEMMA BranchDoes ==
  ASSUME AllInv, NEW t \in BranchTarget, Compile_Branch(t)
  PROVE  Preserved
<1>1. /\ o # NULL /\ Current.opcode # "targets" /\ job' = job /\ ignored' = ignored
  BY InBlockFacts DEF Compile_Branch
<1>2. PICK e \in Leave(Start, t, FALSE) : Continue(e, [WithPatch(o, t, e) EXCEPT !.dead = TRUE])
  BY DEF Compile_Branch
<1> DEFINE c == [WithPatch(o, t, e) EXCEPT !.dead = TRUE]
<1>3. Continue(e, c) /\ c = [WithPatch(o, t, e) EXCEPT !.dead = TRUE]
  BY <1>2
<1> HIDE DEF c
<1>4. PICK falls \in BOOLEAN : falls = FALSE
  OBVIOUS
<1>5. e \in Leave(Start, t, falls) /\ ~falls
  BY <1>4
<1> QED
  BY <1>1, <1>3, <1>5, LeaveGoesOn

LEMMA BranchIfDoes ==
  ASSUME AllInv, NEW t \in BranchTarget, Compile_BranchIf(t)
  PROVE  Preserved
<1>1. /\ o # NULL /\ Current.opcode # "targets" /\ job' = job /\ ignored' = ignored
      /\ o.scopes[t].opcode # "function"
  BY InBlockFacts DEF Compile_BranchIf
<1>2. PICK e \in Leave(Start, t, TRUE) : Continue(e, WithPatch(o, t, e))
  BY DEF Compile_BranchIf
<1>3. PICK falls \in BOOLEAN : falls = TRUE
  OBVIOUS
<1>4. e \in Leave(Start, t, falls)
  BY <1>2, <1>3
<1> QED
  BY <1>1, <1>2, <1>4, LeaveGoesOn

LEMMA BranchIfPrologueDoes ==
  ASSUME AllInv, NEW t \in BranchTarget, Compile_BranchIfPrologue(t)
  PROVE  Preserved
<1> DEFINE H == HeldPages(o.scopes)
           r == o.runtime
           j == o.job
           w == Fork(j, Unpatched)
           words == <<Plain(j), w>>
<1>1. /\ o # NULL /\ Current.opcode # "targets" /\ job' = job /\ ignored' = ignored
  BY InBlockFacts DEF Compile_BranchIfPrologue
<1>2. PICK x \in EmitOp(Start, r, j, words) :
        IF x.failed THEN Abandon(x)
        ELSE \E e \in Leave(x, t, FALSE) :
               Continue([e EXCEPT !.pool = SetPointers(@, {LastPC(x.pool, x.page)},
                                                       GetPagePC(e.pool, e.page))],
                        WithPatch(o, t, e))
  BY DEF Compile_BranchIfPrologue
<1>3. /\ r \in Runtime /\ j \in Nat /\ EmitterOk(Start, r, H) /\ IInv /\ CInv
      /\ Start.pool = pool /\ Start.page = o.page /\ Clean(pool) /\ pool \in PoolType
  BY <1>1, InBetween DEF AllInv
<1>4. Reached(pool, j, H \cup {o.page}, o.scopes[t].pc) /\ o.scopes[t].pc \in PC
  <2>1. t \in 1 .. Len(o.scopes)
    BY DEF BranchTarget, Top
  <2> QED
    BY <1>1, <2>1, InBetween, ScopeType DEF Sane, Writes
<1> HIDE DEF H, r, j, w, words
<1>5. /\ Leads(words, pool, j, H \cup {o.page}) /\ Len(words) = 2
      /\ words[2].falls = TRUE /\ words[2].to = Unpatched
  <2>1. w.job = j /\ w.falls = TRUE /\ w.to = Unpatched
    BY DEF w, Fork
  <2>2. w \in Word
    <3>1. Unpatched \in PC \cup {Unpatched}
      OBVIOUS
    <3> QED
      BY <1>3, <3>1, WordTypes DEF w
  <2> QED
    BY <1>3, <2>1, <2>2, Nulls, PointerLeads DEF words
<1>6. /\ Writing(Start, x, r, j, H) /\ EmitterOk(x, r, H)
      /\ ~x.failed =>
           /\ \A P : Flow(pool, H \cup {o.page}, P,
                          x.pool, After(words, H, x), Waits(words, P, x), j)
           /\ LastPC(x.pool, x.page) \in PC /\ EmittedIn(x.pool, LastPC(x.pool, x.page), j)
      /\ ~x.failed => LeavesRoom(Start, x, Len(words))
  BY <1>2, <1>3, <1>5, EmitOpDoes
<1>7. Good(x.pool) /\ x.page \in Page /\ x.pool \in PoolType /\ x.failed \in BOOLEAN
  BY <1>6, EmitterFacts
<1>8. Work(pool, x.pool, r, j) /\ (~ignored => Fits(x.pool)) /\ Clean(x.pool)
  BY <1>1, <1>3, <1>6, InBetween DEF Writing, Work
<1>9. CASE x.failed
  <2>1. Abandon(x)
    BY <1>2, <1>9
  <2>2. CInv' /\ Stable /\ (Fits(x.pool) => Fits(pool')) /\ o' = NULL
    BY <1>1, <1>3, <1>6, <1>8, <2>1, Abandoned DEF r, j, H
  <2> QED
    BY <1>1, <1>8, <2>2 DEF Preserved, SInv
<1>10. CASE ~x.failed
  <2> DEFINE jumpTo == LastPC(x.pool, x.page)
  <2>1. PICK e \in Leave(x, t, FALSE) :
          Continue([e EXCEPT !.pool = SetPointers(@, {jumpTo}, GetPagePC(e.pool, e.page))],
                   WithPatch(o, t, e))
    BY <1>2, <1>10
  <2>2. /\ \A P : Flow(pool, H \cup {o.page}, P, x.pool, H \cup {x.page}, P \cup {jumpTo}, j)
        /\ jumpTo \in PC /\ EmittedIn(x.pool, jumpTo, j)
        /\ NumFreeLines(x.pool, x.page) >= 2
    <3>1. /\ After(words, H, x) = H \cup {x.page}
          /\ \A P : Waits(words, P, x) = P \cup {jumpTo}
      BY <1>5 DEF After, Waits
    <3>2. 2 \in Nat /\ 2 <= 6 /\ LeavesRoom(Start, x, 2)
      BY <1>5, <1>6, <1>10
    <3> QED
      BY <1>6, <1>7, <1>10, <3>1, <3>2, RoomLeft
  <2> HIDE DEF jumpTo
  <2>3. Reached(x.pool, j, H \cup {x.page}, o.scopes[t].pc)
    BY <1>4, <2>2 DEF Flow
  <2>4. /\ Writing(x, e, r, j, H) /\ EmitterOk(e, r, H)
        /\ ~e.failed =>
             /\ \A P : Flow(x.pool, H \cup {x.page}, P, e.pool, H, P \cup LeftFor(t, e), j)
             /\ LastPC(e.pool, e.page) \in PC
             /\ EmittedIn(e.pool, LastPC(e.pool, e.page), j)
             /\ NumFreeLines(e.pool, e.page) >= 2
    <3>1. PICK falls \in BOOLEAN : falls = FALSE
      OBVIOUS
    <3>2. e \in Leave(x, t, falls) /\ ~falls
      BY <3>1
    <3>3. /\ Writing(x, e, o.runtime, o.job, H) /\ EmitterOk(e, o.runtime, H)
          /\ ~e.failed =>
               /\ \A P : Flow(x.pool, H \cup {x.page}, P, e.pool,
                              IF falls THEN H \cup {e.page} ELSE H, P \cup LeftFor(t, e), o.job)
               /\ LastPC(e.pool, e.page) \in PC
               /\ EmittedIn(e.pool, LastPC(e.pool, e.page), o.job)
               /\ NumFreeLines(e.pool, e.page) >= 2
      BY <1>1, <1>3, <1>6, <1>8, <2>3, <3>2, LeaveDoes DEF r, j
    <3> QED
      BY <3>1, <3>3 DEF r, j
  <2> DEFINE here == GetPagePC(e.pool, e.page)
             u == SetPointers(e.pool, {jumpTo}, here)
             f == [e EXCEPT !.pool = u]
  <2>5. /\ Good(e.pool) /\ e.pool \in PoolType /\ e.page \in Page
        /\ Owns(e.pool, r, e.page, H) /\ here \in PC /\ Clean(e.pool)
    <3>1. Clean(e.pool)
      BY <1>8, <2>4 DEF Writing, Work
    <3> QED
      BY <2>4, <3>1, EmitterFacts, PCType
  <2>6. Continue(f, WithPatch(o, t, e))
    BY <2>1
  <2> HIDE DEF here
  <2>7. Owns(u, r, e.page, H) /\ u \in PoolType /\ Good(u)
    <3>1. Owns(u, r, e.page, H)
      BY <1>3, <2>5, PatchOwns
    <3> QED
      BY <1>3, <3>1, OwnsFacts
  <2>8. f.pool = u /\ f.page = e.page /\ f.failed = e.failed /\ EmitterOk(f, r, H)
    BY <2>4, <2>7, EmitterFacts
  <2>9. Work(pool, e.pool, r, j) /\ EmittedIn(e.pool, jumpTo, j)
    <3>1. Work(pool, e.pool, r, j)
      BY <1>3, <1>7, <1>8, <2>4, <2>5, WorkTransitive DEF Writing
    <3>2. Work(x.pool, e.pool, r, j)
      BY <2>4 DEF Writing
    <3> QED
      BY <1>7, <2>2, <2>5, <3>1, <3>2, WorkEmitted
  <2>10. Work(e.pool, u, r, j)
    BY <1>3, <2>5, <2>9, PatchWork
  <2>11. Work(pool, u, r, j)
    BY <1>3, <2>5, <2>7, <2>9, <2>10, WorkTransitive
  <2>12. /\ \A p \in Page : NumFreeLines(u, p) = NumFreeLines(e.pool, p)
         /\ Fits(e.pool) => Fits(u)
    BY <2>5, PatchRoom
  <2>13. ~ignored => Fits(e.pool)
    BY <1>8, <2>2, <2>4 DEF Writing
  <2> HIDE DEF u, f
  <2>14. ASSUME ~e.failed
         PROVE  LET c == WithPatch(o, t, e) IN
                /\ c \in CompilationType /\ Same(c) /\ Sane(f.pool, f.page, c)
                /\ ~ignored' => RoomFor(f.pool, f.page, c.scopes)
    <3> DEFINE P == Pending(o.scopes)
               Q == LeftFor(t, e)
               K == H \cup {e.page}
               last == LastPC(e.pool, e.page)
    <3>1. Flow(pool, H \cup {o.page}, P, u, K, P \cup Q, j)
      <4>1. Flow(pool, H \cup {o.page}, P, x.pool, H \cup {x.page}, P \cup {jumpTo}, j)
        BY <2>2
      <4>2. Flow(x.pool, H \cup {x.page}, P \cup {jumpTo}, e.pool, H, (P \cup {jumpTo}) \cup Q, j)
        BY <2>4, <2>14
      <4>3. Flow(pool, H \cup {o.page}, P, e.pool, H, (P \cup {jumpTo}) \cup Q, j)
        BY <4>1, <4>2, FlowTransitive
      <4>4. H \subseteq K /\ (P \cup {jumpTo}) \cup Q \subseteq (P \cup {jumpTo}) \cup Q
        OBVIOUS
      <4>5. Flow(pool, H \cup {o.page}, P, e.pool, K, (P \cup {jumpTo}) \cup Q, j)
        BY <4>3, <4>4, FlowWidens
      <4>6. Flow(e.pool, K, (P \cup {jumpTo}) \cup Q, u, K, ((P \cup {jumpTo}) \cup Q) \ {jumpTo}, j)
        <5>1. Reached(e.pool, j, K, here)
          BY HereReached DEF here
        <5> HIDE DEF K, P, Q
        <5> QED
          BY <2>5, <5>1, PatchFlow DEF u
      <4>7. Flow(pool, H \cup {o.page}, P, u, K, ((P \cup {jumpTo}) \cup Q) \ {jumpTo}, j)
        BY <4>5, <4>6, FlowTransitive
      <4>8. ((P \cup {jumpTo}) \cup Q) \ {jumpTo} \subseteq P \cup Q /\ K \subseteq K
        OBVIOUS
      <4> QED
        BY <4>7, <4>8, FlowWidens
    <3>2. last \in PC /\ EmittedIn(u, last, j)
      <4>1. last \in PC /\ EmittedIn(e.pool, last, j)
        BY <2>4, <2>14
      <4> QED
        BY <2>5, <2>7, <2>10, <4>1, WorkEmitted
    <3>3. ~ignored' => RoomFor(f.pool, f.page, o.scopes)
      <4> SUFFICES ASSUME ~ignored PROVE RoomFor(u, e.page, o.scopes)
        BY <1>1, <2>8
      <4>1. Untouched(pool, e.pool, H)
        BY <1>3, <1>6, <1>8, <2>4, UntouchedTransitive DEF Writing
      <4>2. \A h \in H : NumFreeLines(u, h) = NumFreeLines(pool, h)
        <5>1. \A h \in H : h \in Page
          BY <1>3, <2>5, OwnsFacts
        <5> QED
          BY <2>12, <4>1, <5>1, UntouchedRoom
      <4>3. NumFreeLines(u, e.page) >= 2
        BY <2>4, <2>5, <2>12, <2>14
      <4>4. o.scopes[Len(o.scopes)].opcode # "targets"
        BY <1>1 DEF Current, Top
      <4>5. RoomFor(pool, o.page, o.scopes) /\ ScopesOk(o.scopes)
        BY <1>1, InBetween
      <4> QED
        BY <4>2, <4>3, <4>4, <4>5, RoomAfter DEF H
    <3> DEFINE c == WithPatch(o, t, e)
    <3>4. c = WithPatch(o, t, e) \/ c = [WithPatch(o, t, e) EXCEPT !.dead = TRUE]
      OBVIOUS
    <3> HIDE DEF c
    <3>5. /\ EmitterOk(f, o.runtime, HeldPages(o.scopes)) /\ Work(pool, f.pool, o.runtime, o.job)
          /\ Flow(pool, HeldPages(o.scopes) \cup {o.page}, Pending(o.scopes), f.pool,
                  HeldPages(o.scopes) \cup {f.page}, Pending(o.scopes) \cup LeftFor(t, e), o.job)
          /\ EmittedIn(f.pool, LastPC(e.pool, e.page), o.job)
      BY <2>8, <2>11, <3>1, <3>2 DEF H, r, j
    <3> QED
      BY <1>1, <3>2, <3>3, <3>4, <3>5, LeftBlock DEF c
  <2>15. Work(pool, f.pool, o.runtime, o.job) /\ EmitterOk(f, o.runtime, H)
    BY <2>8, <2>11 DEF r, j
  <2>16. ~ignored' => Fits(f.pool)
    BY <1>1, <2>8, <2>12, <2>13
  <2> DEFINE c == WithPatch(o, t, e)
  <2>17. Continue(f, c) /\ (~f.failed => /\ c \in CompilationType /\ Same(c) /\ Sane(f.pool, f.page, c)
                                         /\ ~ignored' => RoomFor(f.pool, f.page, c.scopes))
    BY <2>6, <2>8, <2>14
  <2> HIDE DEF c
  <2> QED
    BY <1>1, <1>3, <2>15, <2>16, <2>17, Continued DEF Preserved
<1> QED
  BY <1>7, <1>9, <1>10

-----------------------------------------------------------------------------
(* Branch tables                                                           *)

LEMMA BranchTableDoes ==
  ASSUME AllInv, NEW n \in Nat, Compile_BranchTable(n)
  PROVE  Preserved
<1> PICK k \in Nat : k = n + 4
  OBVIOUS
<1> PICK m \in Nat : m = 3
  OBVIOUS
<1> DEFINE H == HeldPages(o.scopes)
           r == o.runtime
           j == o.job
<1>1. /\ o # NULL /\ Current.opcode \in BlockOpcode /\ job' = job /\ ignored' = ignored
  BY InBlockFacts DEF Compile_BranchTable
<1>2. PICK x \in EnsureCodePageNumLines(Start, r, j, k) :
        IF x.failed THEN Abandon(x)
        ELSE \E e \in EmitOp(x, r, j, PlainWords(j, m)) :
               Continue(e, [o EXCEPT !.scopes =
                 Append(@, [NewScope("targets", GetPagePC(e.pool, e.page))
                              EXCEPT !.left = n + 1])])
  BY DEF Compile_BranchTable
<1>3. /\ r \in Runtime /\ j \in Nat /\ EmitterOk(Start, r, H) /\ IInv /\ CInv
      /\ Start.pool = pool /\ Start.page = o.page /\ Clean(pool) /\ pool \in PoolType
  BY <1>1, InBetween DEF AllInv
<1> HIDE DEF H, r, j
<1>4. /\ Writing(Start, x, r, j, H) /\ EmitterOk(x, r, H)
      /\ \A P : Flow(pool, H \cup {o.page}, P, x.pool, H \cup {x.page}, P, j)
      /\ ~x.failed => NumFreeLines(x.pool, x.page) >= k + 2
  <2>1. EmitterOk(x, r, H)
    BY <1>2, <1>3, EnsureOk
  <2>2. /\ Writing(Start, x, r, j, H)
        /\ \A P : Flow(Start.pool, H \cup {Start.page}, P, x.pool, H \cup {x.page}, P, j)
        /\ ~x.failed /\ Clean(Start.pool) => NumFreeLines(x.pool, x.page) >= k + 2
    BY <1>2, <1>3, EnsureDoes
  <2> QED
    BY <1>3, <2>1, <2>2
<1>5. Good(x.pool) /\ x.page \in Page /\ x.pool \in PoolType /\ x.failed \in BOOLEAN
  BY <1>4, EmitterFacts
<1>6. Work(pool, x.pool, r, j) /\ (~ignored => Fits(x.pool)) /\ Clean(x.pool)
  BY <1>1, <1>3, <1>4, InBetween DEF Writing, Work
<1>7. CASE x.failed
  <2>1. Abandon(x)
    BY <1>2, <1>7
  <2>2. CInv' /\ Stable /\ (Fits(x.pool) => Fits(pool')) /\ o' = NULL
    BY <1>1, <1>3, <1>4, <1>6, <2>1, Abandoned DEF r, j, H
  <2> QED
    BY <1>1, <1>6, <2>2 DEF Preserved, SInv
<1>8. CASE ~x.failed
  <2>1. PICK e \in EmitOp(x, r, j, PlainWords(j, m)) :
          Continue(e, [o EXCEPT !.scopes =
            Append(@, [NewScope("targets", GetPagePC(e.pool, e.page)) EXCEPT !.left = n + 1])])
    BY <1>2, <1>8
  <2>2. /\ Writing(x, e, r, j, H) /\ EmitterOk(e, r, H)
        /\ \A P : Flow(x.pool, H \cup {x.page}, P, e.pool, H \cup {e.page}, P, j)
        /\ ~e.failed => LeavesRoom(x, e, m)
    <3>1. m \in 1 .. FreeLinesThreshold
      BY DEF FreeLinesThreshold
    <3> QED
      BY <1>3, <1>4, <1>6, <2>1, <3>1, EmitPlainDoes
  <2>3. Good(e.pool) /\ e.page \in Page /\ e.pool \in PoolType
    BY <2>2, EmitterFacts
  <2>4. Work(pool, e.pool, r, j)
    BY <1>3, <1>5, <1>6, <2>2, <2>3, WorkTransitive DEF Writing
  <2>5. ~e.failed => NumFreeLines(e.pool, e.page) >= (n + 1) + 2
    <3> SUFFICES ASSUME ~e.failed PROVE NumFreeLines(e.pool, e.page) >= (n + 1) + 2
      OBVIOUS
    <3> DEFINE A == NumFreeLines(x.pool, x.page)
               B == NumFreeLines(e.pool, e.page)
    <3>1. A \in Int /\ B \in Int
      BY <1>5, <2>3, FreeLinesType
    <3>2. A >= k + 2
      BY <1>4, <1>8
    <3>3. B >= 8 - m /\ (A >= 8 => B = A - m)
      BY <2>2 DEF LeavesRoom
    <3> HIDE DEF A, B
    <3>4. B >= (n + 1) + 2
      BY <3>1, <3>2, <3>3
    <3> QED
      BY <3>4 DEF B
  <2>6. ~ignored => Untouched(pool, e.pool, H) /\ Fits(e.pool)
    <3> SUFFICES ASSUME ~ignored PROVE Untouched(pool, e.pool, H) /\ Fits(e.pool)
      OBVIOUS
    <3>1. Untouched(pool, x.pool, H) /\ Untouched(x.pool, e.pool, H)
      BY <1>3, <1>4, <1>6, <2>2 DEF Writing
    <3>2. NumFreeLines(x.pool, x.page) >= 2
      <4> DEFINE A == NumFreeLines(x.pool, x.page)
      <4>1. A \in Int /\ A >= k + 2
        BY <1>4, <1>5, <1>8, FreeLinesType
      <4> HIDE DEF A
      <4>2. A >= 2
        BY <4>1
      <4> QED
        BY <4>2 DEF A
    <3>3. Fits(e.pool)
      BY <1>6, <2>2, <3>2 DEF Writing
    <3> QED
      BY <3>1, <3>3, UntouchedTransitive
  <2> DEFINE pc == GetPagePC(e.pool, e.page)
             sc == [NewScope("targets", pc) EXCEPT !.left = n + 1]
             c  == [o EXCEPT !.scopes = Append(@, sc)]
  <2>7. Continue(e, c)
    BY <2>1
  <2>8. ~e.failed => /\ c \in CompilationType /\ Same(c) /\ Sane(e.pool, e.page, c)
                     /\ ~ignored' => RoomFor(e.pool, e.page, c.scopes)
    <3> SUFFICES ASSUME ~e.failed
                 PROVE  /\ c \in CompilationType /\ Same(c) /\ Sane(e.pool, e.page, c)
                        /\ ~ignored' => RoomFor(e.pool, e.page, c.scopes)
      OBVIOUS
    <3>1. pc \in PC
      BY <2>3, PCType
    <3> HIDE DEF pc
    <3>2. /\ sc \in Scope /\ sc.opcode = "targets" /\ sc.saved = NULL /\ sc.pc = pc
          /\ sc.patches = {} /\ sc.left = n + 1
      <4>1. /\ NewScope("targets", pc) \in Scope /\ NewScope("targets", pc).opcode = "targets"
            /\ NewScope("targets", pc).saved = NULL
        BY <3>1, NewScopeType
      <4>2. NewScope("targets", pc).patches = {} /\ NewScope("targets", pc).pc = pc
        BY DEF NewScope
      <4>3. n + 1 \in Nat
        OBVIOUS
      <4> QED
        BY <4>1, <4>2, <4>3 DEF Scope
    <3> HIDE DEF sc
    <3>3. Keeping(sc) /\ Waiting(sc) = {}
      BY <3>2 DEF Keeping, Waiting
    <3>4. /\ EmitterOk(e, o.runtime, HeldPages(o.scopes)) /\ Work(pool, e.pool, o.runtime, o.job)
          /\ Flow(pool, HeldPages(o.scopes) \cup {o.page}, Pending(o.scopes), e.pool,
                  HeldPages(o.scopes) \cup {e.page}, Pending(o.scopes) \cup Waiting(sc), o.job)
      <4>1. \A P : Flow(pool, H \cup {o.page}, P, e.pool, H \cup {e.page}, P, j)
        BY <1>4, <2>2 DEF Flow
      <4> QED
        BY <2>2, <2>4, <3>3, <4>1 DEF H, r, j
    <3>5. ~ignored' => /\ ~ignored /\ NumFreeLines(e.pool, e.page) >= 2
                       /\ sc.opcode = "targets" => NumFreeLines(e.pool, e.page) >= sc.left + 2
                       /\ \A h \in HeldPages(o.scopes) :
                            NumFreeLines(e.pool, h) = NumFreeLines(pool, h)
      <4> DEFINE B == NumFreeLines(e.pool, e.page)
      <4>1. B \in Int /\ B >= (n + 1) + 2
        BY <2>3, <2>5, FreeLinesType
      <4> HIDE DEF B
      <4>2. B >= 2 /\ B >= sc.left + 2
        BY <3>2, <4>1
      <4>3. ~ignored => \A h \in H : NumFreeLines(e.pool, h) = NumFreeLines(pool, h)
        BY <2>6, UntouchedRoom
      <4> QED
        BY <1>1, <4>2, <4>3 DEF B, H
    <3>6. /\ sc.opcode \in {"block", "loop", "if", "targets"}
          /\ sc.opcode = "targets" => sc.left >= 1
      BY <3>2
    <3>7. sc.pc = GetPagePC(e.pool, e.page) /\ sc.saved = NULL /\ sc \in Scope /\ Keeping(sc)
      BY <3>2, <3>3 DEF pc
    <3> QED
      BY <1>1, <3>3, <3>4, <3>5, <3>6, <3>7, BlockOpened
  <2>9. Work(pool, e.pool, o.runtime, o.job) /\ EmitterOk(e, o.runtime, H)
    BY <2>2, <2>4 DEF r, j
  <2> HIDE DEF c
  <2> QED
    BY <1>1, <1>3, <2>6, <2>7, <2>8, <2>9, Continued DEF Preserved
<1> QED
  BY <1>5, <1>7, <1>8

LEMMA OpenTargetDoes ==
  ASSUME AllInv, OpenTarget
  PROVE  Preserved
<1> DEFINE H == HeldPages(o.scopes)
           r == o.runtime
           j == o.job
           ss == o.scopes
<1>1. /\ o # NULL /\ Current.opcode = "targets" /\ job' = job /\ ignored' = ignored
  BY DEF OpenTarget, Emitting
<1>2. PICK a \in AcquireCodePage(pool, r) :
        IF a.page = NULL THEN Abandon(Start)
        ELSE Continue(Emitter(a.pool, a.page), [o EXCEPT !.scopes =
               Append(@, [NewScope("target", GetPagePC(a.pool, a.page))
                            EXCEPT !.saved = o.page])])
  BY DEF OpenTarget
<1>3. /\ r \in Runtime /\ j \in Nat /\ EmitterOk(Start, r, H) /\ IInv /\ CInv
      /\ Start.pool = pool /\ Start.page = o.page /\ Clean(pool) /\ pool \in PoolType
      /\ Good(pool) /\ Owns(pool, r, o.page, H) /\ ScopesOk(ss) /\ o.page \in Page
      /\ o \in CompilationType
  BY <1>1, InBetween DEF AllInv
<1> PICK m \in Nat : m = 6
  OBVIOUS
<1>4. a \in AcquireCodePageWithCapacity(pool, r, m)
  BY <1>2 DEF AcquireCodePage, FreeLinesThreshold
<1>5. CASE a.page = NULL
  <2>1. Abandon(Start)
    BY <1>2, <1>5
  <2>2. Work(pool, Start.pool, o.runtime, o.job)
    BY <1>3, NoWork DEF r
  <2>3. CInv' /\ Stable /\ (Fits(pool) => Fits(pool')) /\ o' = NULL
    BY <1>1, <1>3, <2>1, <2>2, Abandoned DEF r, j, H
  <2> QED
    BY <1>1, <2>3, InBetween DEF Preserved, SInv
<1>6. CASE a.page # NULL
  <2> DEFINE e == Emitter(a.pool, a.page)
             pc == GetPagePC(a.pool, a.page)
             sc == [NewScope("target", pc) EXCEPT !.saved = o.page]
             ts == Append(ss, sc)
             c == [o EXCEPT !.scopes = Append(@, sc)]
  <2>1. /\ a.page \in Page /\ a.page \notin H /\ o.page \notin H
        /\ Owns(a.pool, r, a.page, H \cup {o.page})
    <3> HIDE DEF H, r
    <3> DEFINE p == o.page
    <3>1. p \in Page /\ Owns(pool, r, p, H) /\ a \in AcquireCodePageWithCapacity(pool, r, m) /\ r \in Runtime
      BY <1>3, <1>4
    <3> HIDE DEF p
    <3>2. /\ a.page \in Page /\ a.page \notin H /\ p \notin H
          /\ Owns(a.pool, r, a.page, H \cup {p})
      BY ONLY <1>6, <3>1, m \in Nat, AcquireOwns
    <3> QED
      BY <3>2 DEF p
  <2>2. /\ a.pool.code = pool.code /\ NumFreeLines(a.pool, a.page) >= m
        /\ Work(pool, a.pool, r, j)
    <3> HIDE DEF H, r, j
    <3>1. Work(pool, a.pool, r, j)
      BY <1>3, <1>4, AcquireWork
    <3>2. a.pool.code = pool.code
      BY <1>3, <1>4, <1>6, AcquireDoes
    <3>3. NumFreeLines(a.pool, a.page) >= m
      BY <1>3, <1>4, <1>6, AcquireDoes
    <3> QED
      BY <3>1, <3>2, <3>3
  <2>3. Continue(e, c)
    BY <1>2, <1>6
  <2>4. /\ e.pool = a.pool /\ e.page = a.page /\ ~e.failed /\ EmitterOk(e, r, H \cup {o.page})
        /\ a.pool \in PoolType
    <3>1. e.pool = a.pool /\ e.page = a.page /\ ~e.failed
      BY DEF Emitter
    <3> QED
      BY <1>3, <2>1, <3>1, EmitterGives, OwnsFacts
  <2> HIDE DEF e
  <2>5. pc \in PC
    BY <2>1, <2>4, PCType
  <2> HIDE DEF pc
  <2>6. /\ sc \in Scope /\ sc.opcode = "target" /\ sc.saved = o.page /\ sc.pc = pc
        /\ sc.patches = {} /\ o.page # NULL
    <3>1. NewScope("target", pc) \in Scope /\ NewScope("target", pc).opcode = "target"
      BY <2>5, NewScopeType
    <3>2. NewScope("target", pc).patches = {} /\ NewScope("target", pc).pc = pc
      BY DEF NewScope
    <3>3. o.page # NULL
      BY <1>3, CompilationAssumption
    <3> QED
      BY <1>3, <3>1, <3>2, <3>3 DEF Scope
  <2> HIDE DEF sc
  <2>7. Keeping(sc) /\ Waiting(sc) = {}
    BY <2>6 DEF Keeping, Waiting
  <2>8. ScopesOk(ts) /\ HeldPages(ts) \subseteq H \cup {o.page}
    <3>1. ss[Len(ss)].opcode = "targets"
      BY <1>1 DEF Current, Top
    <3> QED
      BY <1>3, <2>1, <2>6, <3>1, AppendScope
  <2>9. /\ c \in CompilationType /\ c.scopes = ts /\ c.runtime = r
        /\ c.job = o.job /\ c.fn = o.fn /\ c.pc = o.pc
    BY <1>3, <2>8, WithScopes DEF CompilationType
  <2> HIDE DEF c
  <2>10. /\ Pending(ts) = Pending(ss)
         /\ Len(ts) = Len(ss) + 1 /\ Len(ss) \in Nat /\ Len(ss) >= 1
         /\ ts[Len(ss) + 1] = sc /\ ts[Len(ts)] = sc
         /\ \A i \in 1 .. Len(ss) : ts[i] = ss[i]
         /\ \A i \in 1 .. Len(ts) : i \in 1 .. Len(ss) \/ i = Len(ss) + 1
         /\ H \subseteq HeldPages(ts) /\ o.page \in HeldPages(ts)
    <3> HIDE DEF ss, H
    <3>1. /\ Pending(ts) = Pending(ss) \cup Waiting(sc)
          /\ Len(ts) = Len(ss) + 1 /\ Len(ss) \in Nat /\ Len(ss) >= 1
          /\ ts[Len(ss) + 1] = sc /\ ts[Len(ts)] = sc
          /\ \A i \in 1 .. Len(ss) : ts[i] = ss[i]
          /\ \A i \in 1 .. Len(ts) : i \in 1 .. Len(ss) \/ i = Len(ss) + 1
          /\ HeldPages(ss) \subseteq HeldPages(ts)
          /\ sc.saved # NULL => sc.saved \in HeldPages(ts)
      BY <1>3, <2>6, AppendKeeps
    <3> HIDE DEF ts
    <3> QED
      BY <2>6, <2>7, <3>1 DEF H, ss
  <2> HIDE DEF ts
  <2>11. Same(c)
    <3>1. 1 \in 1 .. Len(ss)
      BY <2>10
    <3> QED
      BY <2>9, <2>10, <3>1 DEF Same
  <2>12. Sane(e.pool, e.page, c)
    <3>1. ASSUME NEW i \in 1 .. Len(ts)
          PROVE  /\ Keeping(ts[i])
                 /\ \/ \E k \in 1 .. Len(o.scopes) : ts[i].pc = o.scopes[k].pc
                    \/ Reached(a.pool, o.job, HeldPages(ts) \cup {a.page}, ts[i].pc)
      <4>1. CASE i \in 1 .. Len(ss)
        <5>1. Keeping(ss[i])
          BY <1>1, <4>1, InBetween DEF Sane
        <5> QED
          BY <2>10, <4>1, <5>1
      <4>2. CASE i = Len(ss) + 1
        <5>1. a.page \in HeldPages(ts) \cup {a.page}
          OBVIOUS
        <5>2. Reached(a.pool, o.job, HeldPages(ts) \cup {a.page}, sc.pc)
          BY <2>6, <5>1, HereReached DEF pc
        <5> QED
          BY <2>7, <2>10, <4>2, <5>2
      <4> QED
        BY <2>10, <4>1, <4>2
    <3>2. Flow(pool, HeldPages(o.scopes) \cup {o.page}, Pending(o.scopes),
               a.pool, HeldPages(ts) \cup {a.page}, Pending(ts), o.job)
      <4>1. H \cup {o.page} \subseteq HeldPages(ts) \cup {a.page} /\ Pending(ss) \subseteq Pending(ts)
        BY <2>10
      <4> QED
        BY <2>2, <4>1, SameCodeFlow
    <3> HIDE DEF ss
    <3> QED
      BY <1>1, <2>2, <2>4, <2>9, <2>10, <3>1, <3>2, SaneAfter DEF r, j, ss
  <2>13. ASSUME ~ignored
         PROVE  Fits(a.pool) /\ RoomFor(a.pool, a.page, ts)
    <3>1. Fits(pool) /\ RoomFor(pool, o.page, ss)
      BY <1>1, <2>13, InBetween
    <3>2. Fits(a.pool) /\ Untouched(pool, a.pool, pool.active[r])
      BY <1>3, <1>4, <3>1, AcquireRoom
    <3>3. \A h \in H \cup {o.page} : NumFreeLines(a.pool, h) = NumFreeLines(pool, h)
      BY <1>3, <3>2, OwnsFacts, UntouchedRoom
    <3>4. ss[Len(ss)].opcode = "targets"
      BY <1>1 DEF Current, Top
    <3>5. /\ NumFreeLines(pool, o.page) >= 2 /\ (\A q \in H : NumFreeLines(pool, q) >= 2)
          /\ NumFreeLines(pool, o.page) >= ss[Len(ss)].left + 2
          /\ \A i \in 1 .. Len(ss) : ss[i].opcode = "targets" => i = Len(ss)
      BY <3>1, <3>4 DEF RoomFor
    <3>6. NumFreeLines(a.pool, a.page) >= 2
      <4> DEFINE A == NumFreeLines(a.pool, a.page)
      <4>1. A \in Int /\ A >= m
        <5>1. Good(a.pool)
          BY <2>1 DEF Owns
        <5> QED
          BY <2>1, <2>2, <5>1, FreeLinesType
      <4> HIDE DEF A
      <4>2. A >= 2
        BY <4>1
      <4> QED
        BY <4>2 DEF A
    <3>7. \A q \in HeldPages(ts) : NumFreeLines(a.pool, q) >= 2
      BY <2>8, <3>3, <3>5
    <3>8. Len(ts) - 1 = Len(ss) /\ Len(ss) \in 1 .. Len(ss)
      BY <2>10
    <3>9. ts[Len(ts) - 1].left = ss[Len(ss)].left
      BY <2>10, <3>8
    <3>10. NumFreeLines(a.pool, ts[Len(ts)].saved) >= ts[Len(ts) - 1].left + 2
      BY <2>6, <2>10, <3>3, <3>5, <3>9
    <3>11. \A i \in 1 .. Len(ts) : ts[i].opcode = "targets" => i = Len(ts) - 1
      BY <2>6, <2>10, <3>5, <3>8
    <3>12. ts[Len(ts)].opcode = "target"
      BY <2>6, <2>10
    <3> QED
      BY <3>2, <3>6, <3>7, <3>10, <3>11, <3>12 DEF RoomFor
  <2>14. /\ EmitterOk(e, o.runtime, H \cup {o.page}) /\ Work(pool, e.pool, o.runtime, o.job)
         /\ ~ignored' => Fits(e.pool) /\ RoomFor(e.pool, e.page, c.scopes)
    BY <1>1, <2>2, <2>4, <2>9, <2>13 DEF r, j
  <2> QED
    BY <1>1, <1>3, <2>3, <2>9, <2>11, <2>12, <2>14, Continued DEF Preserved
<1> QED
  BY <1>5, <1>6

-----------------------------------------------------------------------------
(* The ends of blocks                                                      *)

LEMMA PatchBranchesDoes ==
  ASSUME AllInv, o # NULL
  PROVE  LET s == PatchBranches(pool)
             K == HeldPages(o.scopes) \cup {o.page}
         IN  /\ Owns(s, o.runtime, o.page, HeldPages(o.scopes)) /\ Good(s) /\ s \in PoolType
             /\ Work(pool, s, o.runtime, o.job) /\ Clean(s)
             /\ \A P : Flow(pool, K, P, s, K, P \ Current.patches, o.job)
             /\ \A p \in Page : NumFreeLines(s, p) = NumFreeLines(pool, p)
             /\ Fits(pool) => Fits(s)
             /\ \A p \in Page : Len(s.code[p]) = Len(pool.code[p])
<1> DEFINE H == HeldPages(o.scopes)
           K == H \cup {o.page}
           r == o.runtime
           j == o.job
           here == GetPagePC(pool, o.page)
           pcs == Current.patches
           s == SetPointers(pool, pcs, here)
<1>1. /\ r \in Runtime /\ Good(pool) /\ pool \in PoolType /\ Clean(pool) /\ o.page \in Page
      /\ Owns(pool, r, o.page, H) /\ ScopesOk(o.scopes)
  BY InBetween
<1>2. here \in PC
  BY <1>1, PCType
<1>3. s = PatchBranches(pool)
  BY DEF PatchBranches
<1>4. \A pc \in pcs : EmittedIn(pool, pc, j)
  <2>1. Top \in 1 .. Len(o.scopes)
    BY <1>1 DEF Top, ScopesOk
  <2>2. pcs \subseteq Pending(o.scopes)
    BY <2>1, PendingElements DEF Current, Waiting
  <2> QED
    BY <2>2, InBetween DEF Sane
<1>5. Reached(pool, j, K, here)
  BY HereReached
<1> HIDE DEF H, r, j, here, pcs
<1>6. Owns(s, r, o.page, H) /\ Good(s) /\ s \in PoolType
  <2>1. Owns(s, r, o.page, H)
    BY <1>1, <1>2, PatchOwns
  <2> QED
    BY <1>1, <2>1, OwnsFacts
<1>7. Work(pool, s, r, j)
  BY <1>1, <1>2, <1>4, PatchWork
<1>8. \A P : Flow(pool, K, P, s, K, P \ pcs, j)
  <2> HIDE DEF K
  <2> QED
    BY <1>1, <1>2, <1>5, PatchFlow
<1>9. /\ \A p \in Page : NumFreeLines(s, p) = NumFreeLines(pool, p)
      /\ Fits(pool) => Fits(s)
  BY <1>1, <1>2, PatchRoom
<1>10. \A p \in Page : Len(s.code[p]) = Len(pool.code[p])
  BY <1>1, <1>2, PatchDoes
<1> HIDE DEF s
<1>11. Clean(s)
  BY <1>1, <1>7 DEF Work
<1> QED
  BY <1>3, <1>6, <1>7, <1>8, <1>9, <1>10, <1>11 DEF H, r, j, pcs

LEMMA OuterFacts ==
  ASSUME AllInv, o # NULL, Current.opcode \in {"block", "loop", "if", "else"}
  PROVE  /\ ScopesOk(Outer) /\ HeldPages(Outer) \subseteq HeldPages(o.scopes)
         /\ Current \in Scope /\ Keeping(Current)
         /\ Current.opcode # "else" => HeldPages(o.scopes) \subseteq HeldPages(Outer)
         /\ HeldPages(o.scopes) \subseteq HeldPages(Outer) \cup {Current.saved}
         /\ Current.opcode = "else" =>
              /\ Current.saved \in HeldPages(o.scopes) /\ Current.saved \notin HeldPages(Outer)
         /\ Pending(Outer) \subseteq Pending(o.scopes)
         /\ Pending(o.scopes) \subseteq Pending(Outer) \cup Waiting(Current)
         /\ \A i \in 1 .. Len(Outer) :
              i \in 1 .. Len(o.scopes) /\ Outer[i] = o.scopes[i] /\ Keeping(Outer[i])
         /\ 1 \in 1 .. Len(Outer)
         /\ ~ignored => NoTable(Outer)
<1> DEFINE ss == o.scopes
<1>1. ScopesOk(ss) /\ \A i \in 1 .. Len(ss) : Keeping(ss[i])
  BY InBetween DEF Sane
<1>2. Len(ss) \in Nat /\ Len(ss) >= 2 /\ Current = ss[Len(ss)] /\ Top = Len(ss)
  <2>1. Len(ss) \in Nat /\ Len(ss) >= 1 /\ Len(ss) \in 1 .. Len(ss)
    BY <1>1 DEF ScopesOk
  <2>2. ss[Len(ss)].opcode \notin {"function", "expression"}
    BY DEF Current, Top
  <2>3. Len(ss) # 1
    BY <1>1, <2>1, <2>2 DEF ScopesOk
  <2>4. Current = ss[Len(ss)] /\ Top = Len(ss)
    BY DEF Current, Top
  <2> DEFINE n == Len(ss)
  <2>5. n \in Nat /\ n >= 1 /\ n # 1
    BY <2>1, <2>3
  <2> HIDE DEF n
  <2>6. n \in Nat /\ n >= 2
    BY <2>5
  <2> QED
    BY <2>4, <2>6 DEF n
<1>3. Outer = SubSeq(ss, 1, Len(ss) - 1)
  BY DEF Outer, Top
<1> HIDE DEF ss
<1>4. /\ Len(Outer) = Len(ss) - 1
      /\ ScopesOk(Outer) /\ HeldPages(Outer) \subseteq HeldPages(ss)
      /\ \A i \in 1 .. Len(Outer) : i \in 1 .. Len(ss) /\ Outer[i] = ss[i]
      /\ Pending(Outer) \subseteq Pending(ss)
      /\ Pending(ss) \subseteq Pending(Outer) \cup Waiting(Current)
      /\ \A q \in HeldPages(ss) :
           q \in HeldPages(Outer) \/ (q = Current.saved /\ Current.saved # NULL)
  BY <1>1, <1>2, <1>3, OuterKeeps
<1>5. Current \in Scope /\ Keeping(Current) /\ Len(ss) \in 1 .. Len(ss)
  BY <1>1, <1>2, ScopeType
<1>6. Current.opcode # "else" => Current.saved = NULL
  BY <1>5 DEF Keeping
<1>7. Current.opcode = "else" =>
        Current.saved \in HeldPages(ss) /\ Current.saved \notin HeldPages(Outer)
  <2>1. Current.opcode = "else" => Current.saved # NULL
    BY <1>1, <1>2, <1>5 DEF ScopesOk
  <2>2. Current.opcode \notin {"function", "expression"} /\ IInv
    BY DEF AllInv
  <2> QED
    BY <2>1, <2>2, OuterOk DEF ss
<1>8. 1 \in 1 .. Len(Outer)
  BY <1>2, <1>4
<1>9. ~ignored => NoTable(Outer)
  <2> SUFFICES ASSUME ~ignored PROVE NoTable(Outer)
    OBVIOUS
  <2>1. RoomFor(pool, o.page, ss)
    BY InBetween DEF ss
  <2>2. NoTable(ss)
    BY <1>1, <1>2, <2>1, OutsideTable
  <2> QED
    BY <1>1, <1>2, <1>3, <2>2, OuterRoom
<1> QED
  BY <1>1, <1>4, <1>5, <1>6, <1>7, <1>8, <1>9 DEF ss

\* A block is left: the compilation goes on with the outer ones on page q.
LEMMA BlockClosed ==
  ASSUME AllInv, o # NULL, Current.opcode \in {"block", "loop", "if", "else"},
         NEW t \in PoolType, NEW q, Work(pool, t, o.runtime, o.job),
         Flow(pool, HeldPages(o.scopes) \cup {o.page}, Pending(o.scopes),
              t, HeldPages(Outer) \cup {q}, Pending(Outer), o.job)
  PROVE  LET c == [o EXCEPT !.scopes = Outer, !.dead = FALSE] IN
         /\ c \in CompilationType /\ Same(c) /\ Sane(t, q, c) /\ c.scopes = Outer
<1> DEFINE c == [o EXCEPT !.scopes = Outer, !.dead = FALSE]
<1>1. /\ ScopesOk(Outer) /\ 1 \in 1 .. Len(Outer)
      /\ Pending(Outer) \subseteq Pending(o.scopes)
      /\ \A i \in 1 .. Len(Outer) :
           i \in 1 .. Len(o.scopes) /\ Outer[i] = o.scopes[i] /\ Keeping(Outer[i])
  BY OuterFacts
<1>2. o \in CompilationType
  BY InBetween
<1>3. /\ c \in CompilationType /\ c.runtime = o.runtime /\ c.scopes = Outer
      /\ c.job = o.job /\ c.fn = o.fn /\ c.pc = o.pc
  BY <1>1, <1>2, WithScopesAndDead DEF CompilationType
<1> HIDE DEF c
<1>4. Same(c)
  BY <1>1, <1>3 DEF Same
<1>5. Sane(t, q, c)
  <2>1. \A i \in 1 .. Len(c.scopes) :
          /\ Keeping(c.scopes[i])
          /\ \E k \in 1 .. Len(o.scopes) : c.scopes[i].pc = o.scopes[k].pc
    BY <1>1, <1>3
  <2>2. Flow(pool, HeldPages(o.scopes) \cup {o.page}, Pending(o.scopes),
             t, HeldPages(c.scopes) \cup {q}, Pending(c.scopes), o.job)
    BY <1>3
  <2> QED
    BY <1>1, <1>3, <2>1, <2>2, SaneAfter
<1> QED
  BY <1>3, <1>4, <1>5 DEF c

LEMMA EndBlockDoes ==
  ASSUME AllInv, EndBlock
  PROVE  Preserved
<1> DEFINE H == HeldPages(o.scopes)
           K == H \cup {o.page}
           r == o.runtime
           j == o.job
           s == PatchBranches(pool)
           here == GetPagePC(s, o.page)
           t == IF Current.opcode # "if" THEN s ELSE SetPointers(s, {Current.pointer}, here)
           e == Emitter(t, o.page)
           c == [o EXCEPT !.scopes = Outer, !.dead = FALSE]
           P == Pending(o.scopes)
<1>1. /\ o # NULL /\ Current.opcode \in {"block", "loop", "if"} /\ job' = job /\ ignored' = ignored
      /\ Current.opcode \in {"block", "loop", "if", "else"} /\ Current.opcode # "else"
      /\ Continue(e, c)
  BY DEF EndBlock, AtEnd
<1>2. /\ r \in Runtime /\ IInv /\ CInv /\ Good(pool) /\ pool \in PoolType /\ o.page \in Page
  BY <1>1, InBetween DEF AllInv
<1>3. /\ Owns(s, r, o.page, H) /\ Good(s) /\ s \in PoolType
      /\ Work(pool, s, r, j) /\ Clean(s)
      /\ Flow(pool, K, P, s, K, P \ Current.patches, j)
      /\ \A p \in Page : NumFreeLines(s, p) = NumFreeLines(pool, p)
      /\ Fits(pool) => Fits(s)
  BY <1>1, PatchBranchesDoes
<1>4. /\ Pending(Outer) \subseteq P /\ P \subseteq Pending(Outer) \cup Waiting(Current)
      /\ H \subseteq HeldPages(Outer) /\ HeldPages(Outer) \subseteq H
      /\ Current \in Scope /\ Keeping(Current) /\ ScopesOk(Outer)
      /\ ~ignored => NoTable(Outer)
  BY <1>1, OuterFacts
<1>5. here \in PC /\ Reached(s, j, K, here)
  BY <1>2, <1>3, PCType, HereReached
<1> HIDE DEF s, here, H, r, j, P
<1>6. /\ Owns(t, r, o.page, H) /\ t \in PoolType /\ Work(pool, t, r, j)
      /\ Flow(pool, K, P, t, K, P \ Waiting(Current), j)
      /\ \A p \in Page : NumFreeLines(t, p) = NumFreeLines(pool, p)
      /\ Fits(pool) => Fits(t)
  <2>1. CASE Current.opcode # "if"
    <3>1. t = s /\ Waiting(Current) = Current.patches
      BY <2>1 DEF Waiting
    <3> QED
      BY <1>3, <3>1
  <2>2. CASE Current.opcode = "if"
    <3> DEFINE pcs == {Current.pointer}
               u == SetPointers(s, pcs, here)
    <3>1. t = u /\ Waiting(Current) = Current.patches \cup pcs
      BY <2>2 DEF Waiting
    <3>2. \A pc \in pcs : EmittedIn(s, pc, j)
      <4>1. Current.pointer \in Pending(o.scopes)
        <5>1. Top \in 1 .. Len(o.scopes)
          BY <1>1, InBetween DEF Top, ScopesOk
        <5> QED
          BY <2>2, <5>1, PendingElements DEF Current, Waiting
      <4>2. Current.pointer \in PC /\ EmittedIn(pool, Current.pointer, j)
        BY <1>1, <4>1, InBetween DEF Sane, j
      <4>3. EmittedIn(s, Current.pointer, j)
        BY <1>2, <1>3, <4>2, WorkEmitted
      <4> QED
        BY <4>3
    <3> HIDE DEF pcs
    <3>3. Owns(u, r, o.page, H) /\ u \in PoolType
      <4>1. Owns(u, r, o.page, H)
        BY <1>2, <1>3, <1>5, PatchOwns
      <4> QED
        BY <1>2, <4>1, OwnsFacts
    <3>4. Work(pool, u, r, j)
      <4>1. Work(s, u, r, j)
        BY <1>2, <1>3, <1>5, <3>2, PatchWork
      <4> QED
        BY <1>2, <1>3, <3>3, <4>1, WorkTransitive
    <3>5. /\ \A p \in Page : NumFreeLines(u, p) = NumFreeLines(s, p)
          /\ Fits(s) => Fits(u)
      BY <1>3, <1>5, PatchRoom
    <3>6. Flow(pool, K, P, u, K, (P \ Current.patches) \ pcs, j)
      <4> DEFINE Q == P \ Current.patches
      <4> HIDE DEF Q, K
      <4>1. Flow(s, K, Q, u, K, Q \ pcs, j)
        BY <1>3, <1>5, PatchFlow
      <4>2. Flow(pool, K, P, s, K, Q, j)
        BY <1>3 DEF Q
      <4> QED
        BY <4>1, <4>2, FlowTransitive DEF Q
    <3>7. (P \ Current.patches) \ pcs = P \ Waiting(Current)
      BY <3>1
    <3> HIDE DEF u
    <3> QED
      BY <1>3, <3>1, <3>3, <3>4, <3>5, <3>6, <3>7
  <2> QED
    BY <2>1, <2>2
<1> HIDE DEF t
<1>7. Flow(pool, K, P, t, HeldPages(Outer) \cup {o.page}, Pending(Outer), j)
  <2>1. K \subseteq HeldPages(Outer) \cup {o.page} /\ P \ Waiting(Current) \subseteq Pending(Outer)
    BY <1>4
  <2> QED
    BY <1>6, <2>1, FlowWidens
<1>8. c \in CompilationType /\ Same(c) /\ Sane(t, o.page, c) /\ c.scopes = Outer
  BY <1>1, <1>6, <1>7, BlockClosed DEF H, r, j, P
<1> HIDE DEF c
<1>9. e.pool = t /\ e.page = o.page /\ EmitterOk(e, r, H) /\ ~e.failed
  <2>1. e.pool = t /\ e.page = o.page /\ ~e.failed
    BY DEF Emitter
  <2> QED
    BY <1>2, <1>6, <2>1, EmitterGives
<1>10. ASSUME ~ignored
       PROVE  Fits(t) /\ RoomFor(t, o.page, Outer)
  <2>1. /\ Fits(pool) /\ NumFreeLines(pool, o.page) >= 2
        /\ \A h \in H : h \in Page /\ NumFreeLines(pool, h) >= 2
    BY <1>1, <1>10, InBetween, OwnsFacts DEF H
  <2>2. NumFreeLines(t, o.page) >= 2 /\ \A h \in HeldPages(Outer) : NumFreeLines(t, h) >= 2
    BY <1>2, <1>4, <1>6, <2>1
  <2> QED
    BY <1>4, <1>6, <1>10, <2>1, <2>2, SimpleRoom
<1> HIDE DEF e
<1>11. Work(pool, e.pool, o.runtime, o.job) /\ EmitterOk(e, o.runtime, H)
  BY <1>6, <1>9 DEF r, j
<1> QED
  BY <1>1, <1>2, <1>8, <1>9, <1>10, <1>11, Continued DEF Preserved

LEMMA CompileElseBlockDoes ==
  ASSUME AllInv, CompileElseBlock
  PROVE  Preserved
<1> DEFINE H == HeldPages(o.scopes)
           K == H \cup {o.page}
           r == o.runtime
           j == o.job
           s == PatchBranches(pool)
           P == Pending(o.scopes)
           pcs == {Current.pointer}
<1>1. /\ o # NULL /\ Current.opcode = "if" /\ job' = job /\ ignored' = ignored
      /\ Current.opcode \in {"block", "loop", "if", "else"} /\ Current.opcode # "else"
  BY DEF CompileElseBlock, AtEnd
<1>2. PICK a \in AcquireCodePage(s, r) :
        IF a.page = NULL THEN Abandon(Emitter(a.pool, o.page))
        ELSE LET pc == GetPagePC(a.pool, a.page) IN
             Continue(Emitter(SetPointers(a.pool, pcs, pc), a.page),
                      [o EXCEPT !.scopes = Append(Outer, [NewScope("else", pc)
                                                            EXCEPT !.saved = o.page]),
                                !.dead = FALSE])
  BY DEF CompileElseBlock
<1>3. /\ r \in Runtime /\ IInv /\ CInv /\ Good(pool) /\ pool \in PoolType /\ o.page \in Page
      /\ o \in CompilationType
  BY <1>1, InBetween DEF AllInv
<1>4. /\ Owns(s, r, o.page, H) /\ Good(s) /\ s \in PoolType
      /\ Work(pool, s, r, j) /\ Clean(s)
      /\ Flow(pool, K, P, s, K, P \ Current.patches, j)
      /\ \A p \in Page : NumFreeLines(s, p) = NumFreeLines(pool, p)
      /\ Fits(pool) => Fits(s)
  BY <1>1, PatchBranchesDoes
<1> PICK m \in Nat : m = 6
  OBVIOUS
<1>5. a \in AcquireCodePageWithCapacity(s, r, m)
  BY <1>2 DEF AcquireCodePage, FreeLinesThreshold
<1>6. CASE a.page = NULL
  <2> DEFINE e == Emitter(s, o.page)
  <2>1. a.pool = s
    <3> HIDE DEF s, r
    <3> QED
      BY <1>3, <1>4, <1>5, <1>6, AcquireDoes
  <2>2. Abandon(e)
    BY <1>2, <1>6, <2>1
  <2>3. e.pool = s /\ EmitterOk(e, r, H)
    <3>1. e.pool = s
      BY DEF Emitter
    <3> QED
      BY <1>3, <1>4, <3>1, EmitterGives
  <2> HIDE DEF e, s
  <2>4. CInv' /\ Stable /\ (Fits(s) => Fits(pool')) /\ o' = NULL
    BY <1>1, <1>3, <1>4, <2>2, <2>3, Abandoned
  <2> QED
    BY <1>1, <1>4, <2>4, InBetween DEF Preserved, SInv
<1>7. CASE a.page # NULL
  <2> DEFINE pc == GetPagePC(a.pool, a.page)
             t == SetPointers(a.pool, pcs, pc)
             e == Emitter(t, a.page)
             sc == [NewScope("else", pc) EXCEPT !.saved = o.page]
             ts == Append(Outer, sc)
             c == [o EXCEPT !.scopes = ts, !.dead = FALSE]
  <2>1. Continue(e, c)
    BY <1>2, <1>7
  <2>2. /\ Pending(Outer) \subseteq P /\ P \subseteq Pending(Outer) \cup Waiting(Current)
        /\ H \subseteq HeldPages(Outer) /\ HeldPages(Outer) \subseteq H
        /\ Current \in Scope /\ Keeping(Current) /\ ScopesOk(Outer)
        /\ \A i \in 1 .. Len(Outer) :
             i \in 1 .. Len(o.scopes) /\ Outer[i] = o.scopes[i] /\ Keeping(Outer[i])
        /\ 1 \in 1 .. Len(Outer)
        /\ ~ignored => NoTable(Outer)
    BY <1>1, OuterFacts
  <2>3. Waiting(Current) = Current.patches \cup pcs
    BY <1>1 DEF Waiting
  <2>4. Current.pointer \in PC /\ EmittedIn(pool, Current.pointer, j)
    <3>1. Current.pointer \in Pending(o.scopes)
      <4>1. Top \in 1 .. Len(o.scopes)
        BY <1>1, InBetween DEF Top, ScopesOk
      <4> QED
        BY <1>1, <4>1, PendingElements DEF Current, Waiting
    <3> QED
      BY <1>1, <3>1, InBetween DEF Sane
  <2> HIDE DEF s, r, j, H, P
  <2>5. /\ a.page \in Page /\ a.page \notin H /\ o.page \notin H /\ o.page # NULL
        /\ Owns(a.pool, r, a.page, H \cup {o.page})
    <3>1. PICK p \in Page : p = o.page
      BY <1>3
    <3>2. Owns(s, r, p, H) /\ r \in Runtime /\ a \in AcquireCodePageWithCapacity(s, r, m)
      BY <1>3, <1>4, <1>5, <3>1
    <3>3. a.page # NULL => a.page \in Page /\ Owns(a.pool, r, a.page, H \cup {p})
      BY ONLY <3>2, AcquireOwns, m \in Nat, p \in Page
    <3>4. a.page # NULL => a.page \notin H
      BY ONLY <3>2, AcquireOwns, m \in Nat, p \in Page
    <3>5. p \notin H /\ p # NULL
      BY <3>2, CompilationAssumption DEF Owns
    <3> QED
      BY <1>7, <3>1, <3>3, <3>4, <3>5
  <2>6. /\ Good(a.pool) /\ a.pool \in PoolType /\ pc \in PC
    <3>1. Good(a.pool) /\ a.pool \in PoolType
      BY <1>3, <2>5, OwnsFacts
    <3> QED
      BY <2>5, <3>1, PCType
  <2>7. Work(s, a.pool, r, j) /\ a.pool.code = s.code /\ NumFreeLines(a.pool, a.page) >= m
    <3>1. Work(s, a.pool, r, j)
      BY <1>3, <1>4, <1>5, AcquireWork
    <3>2. a.pool.code = s.code /\ NumFreeLines(a.pool, a.page) >= m
      BY <1>3, <1>4, <1>5, <1>7, AcquireDoes
    <3> QED
      BY <3>1, <3>2
  <2>8. Work(pool, a.pool, r, j)
    BY <1>3, <1>4, <2>6, <2>7, WorkTransitive
  <2>9. \A x \in pcs : EmittedIn(a.pool, x, j)
    BY <1>3, <2>4, <2>6, <2>8, WorkEmitted
  <2>10. Reached(a.pool, j, K \cup {a.page}, pc)
    BY HereReached
  <2> HIDE DEF pc, pcs
  <2>11. Owns(t, r, a.page, H \cup {o.page}) /\ t \in PoolType
    <3>1. Owns(t, r, a.page, H \cup {o.page})
      <4> DEFINE G == H \cup {o.page}
      <4> HIDE DEF G
      <4>1. Owns(a.pool, r, a.page, G)
        BY <2>5 DEF G
      <4>2. Owns(t, r, a.page, G)
        BY <1>3, <2>5, <2>6, <4>1, PatchOwns
      <4> QED
        BY <4>2 DEF G
    <3> QED
      BY <1>3, <3>1, OwnsFacts
  <2>12. Work(pool, t, r, j)
    <3>1. Work(a.pool, t, r, j)
      BY <1>3, <2>6, <2>9, PatchWork
    <3> QED
      BY <1>3, <2>6, <2>8, <2>11, <3>1, WorkTransitive
  <2>13. Flow(pool, K, P, t, K \cup {a.page}, P \ Waiting(Current), j)
    <3> DEFINE Q == P \ Current.patches
               L == K \cup {a.page}
    <3>1. Flow(pool, K, P, s, K, Q, j)
      BY <1>4
    <3>2. K \subseteq L /\ Q \subseteq Q
      OBVIOUS
    <3>3. Q \ pcs = P \ Waiting(Current)
      BY <2>3
    <3> HIDE DEF Q, L
    <3>4. Flow(s, K, Q, a.pool, L, Q, j)
      BY <2>7, <3>2, SameCodeFlow
    <3>5. Flow(a.pool, L, Q, t, L, Q \ pcs, j)
      <4>1. Reached(a.pool, j, L, pc)
        BY <2>10 DEF L
      <4> QED
        BY <2>6, <4>1, PatchFlow
    <3>6. Flow(pool, K, P, t, L, Q \ pcs, j)
      BY <3>1, <3>4, <3>5, FlowTransitive
    <3> QED
      BY <3>3, <3>6 DEF L
  <2>14. /\ \A p \in Page : NumFreeLines(t, p) = NumFreeLines(a.pool, p)
         /\ Fits(a.pool) => Fits(t)
    BY <2>6, PatchRoom
  <2>15. Len(t.code[a.page]) = Len(a.pool.code[a.page])
    BY <2>5, <2>6, PatchDoes
  <2> HIDE DEF t
  <2>16. pc = GetPagePC(t, a.page)
    BY <2>15 DEF pc, GetPagePC
  <2>17. /\ sc \in Scope /\ sc.opcode = "else" /\ sc.saved = o.page /\ sc.pc = pc
         /\ sc.patches = {}
    <3>1. NewScope("else", pc) \in Scope /\ NewScope("else", pc).opcode = "else"
      BY <2>6, NewScopeType DEF BlockOpcode
    <3>2. NewScope("else", pc).patches = {} /\ NewScope("else", pc).pc = pc
      BY DEF NewScope
    <3> QED
      BY <1>3, <3>1, <3>2 DEF Scope
  <2> HIDE DEF sc
  <2>18. Keeping(sc) /\ Waiting(sc) = {}
    BY <2>17 DEF Keeping, Waiting
  <2>19. ScopesOk(ts) /\ HeldPages(ts) \subseteq H \cup {o.page}
    <3>1. sc.saved \notin HeldPages(Outer) /\ sc.saved # NULL
      BY <2>2, <2>5, <2>17
    <3> QED
      BY <2>2, <2>17, <3>1, AppendScope
  <2>20. /\ Pending(ts) = Pending(Outer)
         /\ Len(ts) = Len(Outer) + 1 /\ Len(Outer) \in Nat
         /\ ts[Len(Outer) + 1] = sc
         /\ \A i \in 1 .. Len(Outer) : ts[i] = Outer[i]
         /\ \A i \in 1 .. Len(ts) : i \in 1 .. Len(Outer) \/ i = Len(Outer) + 1
         /\ H \subseteq HeldPages(ts) /\ o.page \in HeldPages(ts)
    <3>1. /\ Pending(ts) = Pending(Outer) \cup Waiting(sc)
          /\ Len(ts) = Len(Outer) + 1 /\ Len(Outer) \in Nat
          /\ ts[Len(Outer) + 1] = sc
          /\ \A i \in 1 .. Len(Outer) : ts[i] = Outer[i]
          /\ \A i \in 1 .. Len(ts) : i \in 1 .. Len(Outer) \/ i = Len(Outer) + 1
          /\ HeldPages(Outer) \subseteq HeldPages(ts)
          /\ sc.saved # NULL => sc.saved \in HeldPages(ts)
      BY <2>2, <2>17, AppendKeeps
    <3> HIDE DEF ts
    <3> QED
      BY <2>2, <2>5, <2>17, <2>18, <3>1
  <2>21. NoTable(Outer) => NoTable(ts)
    BY <2>2, <2>17, AppendRoom
  <2>22. /\ c \in CompilationType /\ c.scopes = ts /\ c.runtime = r
         /\ c.job = o.job /\ c.fn = o.fn /\ c.pc = o.pc
    BY <1>3, <2>19, WithScopesAndDead DEF CompilationType, r
  <2> HIDE DEF c, ts
  <2>23. Same(c)
    BY <2>2, <2>20, <2>22 DEF Same, r
  <2>24. Sane(t, a.page, c)
    <3>1. ASSUME NEW i \in 1 .. Len(ts)
          PROVE  /\ Keeping(ts[i])
                 /\ \/ \E k \in 1 .. Len(o.scopes) : ts[i].pc = o.scopes[k].pc
                    \/ Reached(t, o.job, HeldPages(ts) \cup {a.page}, ts[i].pc)
      <4>1. CASE i \in 1 .. Len(Outer)
        BY <2>2, <2>20, <4>1
      <4>2. CASE i = Len(Outer) + 1
        <5>1. a.page \in HeldPages(ts) \cup {a.page}
          OBVIOUS
        <5>2. Reached(t, o.job, HeldPages(ts) \cup {a.page}, sc.pc)
          BY <2>16, <2>17, <5>1, HereReached
        <5> QED
          BY <2>18, <2>20, <4>2, <5>2
      <4> QED
        BY <2>20, <4>1, <4>2
    <3>2. Flow(pool, HeldPages(o.scopes) \cup {o.page}, Pending(o.scopes),
               t, HeldPages(ts) \cup {a.page}, Pending(ts), o.job)
      <4>1. K \cup {a.page} \subseteq HeldPages(ts) \cup {a.page} /\ P \ Waiting(Current) \subseteq Pending(ts)
        BY <2>2, <2>20
      <4> HIDE DEF K
      <4>2. Flow(pool, K, P, t, HeldPages(ts) \cup {a.page}, Pending(ts), j)
        BY <2>13, <4>1, FlowWidens
      <4> QED
        BY <4>2 DEF K, H, P, j
    <3>3. \A x \in Pending(ts) : x \in Pending(o.scopes)
      BY <2>2, <2>20 DEF P
    <3> QED
      BY <1>1, <2>11, <2>12, <2>22, <3>1, <3>2, <3>3, SaneAfter DEF r, j
  <2>25. e.pool = t /\ e.page = a.page /\ ~e.failed /\ EmitterOk(e, r, H \cup {o.page})
    <3>1. e.pool = t /\ e.page = a.page /\ ~e.failed
      BY DEF Emitter
    <3> QED
      BY <1>3, <2>5, <2>11, <3>1, EmitterGives
  <2> HIDE DEF e
  <2>26. ASSUME ~ignored
         PROVE  Fits(t) /\ RoomFor(t, a.page, ts)
    <3>1. /\ Fits(pool) /\ NumFreeLines(pool, o.page) >= 2
          /\ \A h \in H : NumFreeLines(pool, h) >= 2
      BY <1>1, <2>26, InBetween DEF H
    <3>2. Fits(a.pool) /\ Untouched(s, a.pool, s.active[r])
      BY <1>3, <1>4, <1>5, <3>1, AcquireRoom
    <3>3. \A h \in H \cup {o.page} : h \in Page /\ NumFreeLines(t, h) = NumFreeLines(pool, h)
      <4>1. \A h \in H \cup {o.page} : h \in Page /\ h \in s.active[r]
        BY <1>3, <1>4, OwnsFacts
      <4>2. \A h \in H \cup {o.page} : NumFreeLines(a.pool, h) = NumFreeLines(s, h)
        BY <3>2, <4>1, UntouchedRoom
      <4> QED
        BY <1>4, <2>14, <4>1, <4>2
    <3>4. \A h \in HeldPages(ts) : NumFreeLines(t, h) >= 2
      BY <2>19, <3>1, <3>3
    <3>5. NumFreeLines(t, a.page) >= 2
      <4> DEFINE A == NumFreeLines(a.pool, a.page)
      <4>1. A \in Int /\ A >= m
        BY <2>5, <2>6, <2>7, FreeLinesType
      <4> HIDE DEF A
      <4>2. A >= 2
        BY <4>1
      <4> QED
        BY <2>5, <2>14, <4>2 DEF A
    <3> QED
      BY <2>2, <2>14, <2>19, <2>21, <2>26, <3>2, <3>4, <3>5, SimpleRoom
  <2>27. /\ EmitterOk(e, o.runtime, H \cup {o.page}) /\ Work(pool, e.pool, o.runtime, o.job)
         /\ Sane(e.pool, e.page, c)
         /\ ~ignored' => Fits(e.pool) /\ RoomFor(e.pool, e.page, c.scopes)
    BY <1>1, <2>12, <2>22, <2>24, <2>25, <2>26 DEF r, j
  <2> QED
    BY <1>1, <1>3, <2>1, <2>22, <2>23, <2>27, Continued DEF Preserved
<1> QED
  BY <1>6, <1>7

LEMMA EndElseDoes ==
  ASSUME AllInv, EndElse
  PROVE  Preserved
<1> DEFINE H == HeldPages(o.scopes)
           K == H \cup {o.page}
           L == HeldPages(Outer)
           P == Pending(o.scopes)
           Q == P \ Current.patches
           r == o.runtime
           j == o.job
           s == PatchBranches(pool)
           q == Current.saved
           back == GetPagePC(pool, q)
           w == Jump(j, back)
           words == <<Plain(j), w>>
           x == Emitter(s, o.page)
<1>1. /\ o # NULL /\ Current.opcode = "else" /\ job' = job /\ ignored' = ignored
      /\ Current.opcode \in {"block", "loop", "if", "else"}
  BY DEF EndElse, AtEnd
<1>2. PICK e \in EmitOp(x, r, j, words) :
        IF e.failed THEN Abandon(e)
        ELSE Continue(Emitter(ReleaseCodePage(e.pool, r, e.page), q),
                      [o EXCEPT !.scopes = Outer, !.dead = FALSE])
  BY DEF EndElse
<1>3. /\ r \in Runtime /\ j \in Nat /\ IInv /\ CInv /\ Good(pool) /\ pool \in PoolType
      /\ o.page \in Page /\ o \in CompilationType
  BY <1>1, InBetween DEF AllInv
<1>4. /\ Owns(s, r, o.page, H) /\ Good(s) /\ s \in PoolType
      /\ Work(pool, s, r, j) /\ Clean(s)
      /\ Flow(pool, K, P, s, K, Q, j)
      /\ \A p \in Page : NumFreeLines(s, p) = NumFreeLines(pool, p)
      /\ Fits(pool) => Fits(s)
      /\ \A p \in Page : Len(s.code[p]) = Len(pool.code[p])
  BY <1>1, PatchBranchesDoes
<1>5. /\ P \subseteq Pending(Outer) \cup Waiting(Current)
      /\ H \subseteq L \cup {q} /\ L \subseteq H /\ q \in H /\ q \notin L
      /\ ScopesOk(Outer) /\ (~ignored => NoTable(Outer))
  BY <1>1, OuterFacts
<1>6. Q \subseteq Pending(Outer)
  <2>1. Waiting(Current) = Current.patches
    BY <1>1 DEF Waiting
  <2> QED
    BY <1>5, <2>1
<1>7. EmitterOk(x, r, H) /\ x.pool = s /\ x.page = o.page
  <2>1. x.pool = s /\ x.page = o.page
    BY DEF Emitter
  <2> QED
    BY <1>3, <1>4, <2>1, EmitterGives
<1>8. q \in Page
  BY <1>4, <1>5, OwnsFacts, <1>3
<1>9. back \in PC /\ Reached(s, j, K, back)
  <2>1. back = GetPagePC(s, q)
    BY <1>4, <1>8 DEF GetPagePC
  <2>2. q \in K
    BY <1>5
  <2> HIDE DEF K, s, back
  <2>3. Reached(s, j, K, back)
    BY <2>1, <2>2, HereReached
  <2> QED
    BY <1>4, <1>8, <2>1, <2>3, PCType
<1> HIDE DEF s, x, back, q, j, r
<1>10. w \in Word /\ w.job = j /\ w.falls = FALSE /\ w.to = back
  <2>1. back \in PC \cup {Unpatched}
    BY <1>9
  <2>2. Jump(j, back) \in Word
    BY <1>3, <2>1, WordTypes
  <2>3. Jump(j, back).job = j /\ Jump(j, back).falls = FALSE /\ Jump(j, back).to = back
    BY DEF Jump
  <2> QED
    BY <2>2, <2>3
<1> HIDE DEF w, K
<1>11. Leads(words, s, j, K) /\ Len(words) = 2 /\ words[2] = w
  BY <1>3, <1>9, <1>10, PointerLeads
<1> HIDE DEF words
<1>12. /\ Writing(x, e, r, j, H) /\ EmitterOk(e, r, H)
       /\ ~e.failed => \A R : Flow(s, K, R, e.pool, After(words, H, e), Waits(words, R, e), j)
  BY <1>2, <1>3, <1>7, <1>11, EmitOpDoes DEF K
<1>13. After(words, H, e) = H /\ Waits(words, Q, e) = Q
  BY <1>9, <1>10, <1>11, Nulls DEF After, Waits
<1>14. ~e.failed => Flow(s, K, Q, e.pool, H, Q, j)
  <2> HIDE DEF H, Q
  <2>1. ~e.failed => Flow(s, K, Q, e.pool, After(words, H, e), Waits(words, Q, e), j)
    BY <1>12
  <2> QED
    BY <1>13, <2>1
<1> HIDE DEF H, L, P, Q
<1>15. Work(s, e.pool, r, j) /\ (Fits(s) /\ NumFreeLines(s, o.page) >= 2 => Fits(e.pool))
       /\ Untouched(s, e.pool, H)
  BY <1>4, <1>7, <1>12 DEF Writing
<1>16. /\ Good(e.pool) /\ e.pool \in PoolType /\ e.page \in Page
       /\ Owns(e.pool, r, e.page, H) /\ e.page \in e.pool.active[r]
  <2>1. Owns(e.pool, r, e.page, H)
    BY <1>12, EmitterFacts
  <2> QED
    BY <1>3, <2>1, OwnsFacts
<1>17. Work(pool, e.pool, r, j)
  BY <1>3, <1>4, <1>15, <1>16, WorkTransitive
<1>18. ASSUME ~ignored
       PROVE  /\ Fits(e.pool) /\ NumFreeLines(s, q) >= 2
              /\ \A h \in H : h \in Page /\ NumFreeLines(e.pool, h) >= 2
  <2>1. /\ Fits(pool) /\ NumFreeLines(pool, o.page) >= 2
        /\ \A h \in H : h \in Page /\ NumFreeLines(pool, h) >= 2
    BY <1>1, <1>3, <1>18, InBetween, OwnsFacts DEF H
  <2>2. \A h \in H : h \in Page /\ NumFreeLines(s, h) >= 2
    BY <1>4, <2>1
  <2>3. \A h \in H : NumFreeLines(e.pool, h) = NumFreeLines(s, h)
    BY <1>15, UntouchedRoom
  <2> QED
    BY <1>3, <1>4, <1>5, <1>15, <2>1, <2>2, <2>3
<1>19. CASE e.failed
  <2>1. Abandon(e)
    BY <1>2, <1>19
  <2>2. EmitterOk(e, o.runtime, H) /\ Work(pool, e.pool, o.runtime, o.job)
    BY <1>12, <1>17 DEF r, j
  <2>3. CInv' /\ Stable /\ (Fits(e.pool) => Fits(pool')) /\ o' = NULL
    BY <1>1, <1>3, <2>1, <2>2, Abandoned
  <2> QED
    BY <1>1, <1>18, <2>3 DEF Preserved, SInv
<1>20. CASE ~e.failed
  <2> DEFINE t == ReleaseCodePage(e.pool, r, e.page)
             y == Emitter(t, q)
             c == [o EXCEPT !.scopes = Outer, !.dead = FALSE]
  <2>1. Continue(y, c)
    BY <1>2, <1>20
  <2>2. t.code = e.pool.code /\ t.numLines = e.pool.numLines
    BY <1>3, <1>16, ReleaseDoes
  <2>3. Work(e.pool, t, r, j)
    BY <1>3, <1>16, ReleaseWork
  <2>4. Owns(t, r, q, L)
    <3>1. q \in H /\ L \in SUBSET H
      BY <1>5
    <3> QED
      BY <1>3, <1>5, <1>16, <3>1, ReleaseOwns
  <2> HIDE DEF t, c
  <2>5. t \in PoolType
    BY <1>3, <2>4, OwnsFacts
  <2>6. Work(pool, t, r, j)
    BY <1>3, <1>16, <1>17, <2>3, <2>5, WorkTransitive
  <2>7. Flow(pool, K, P, t, L \cup {q}, Pending(Outer), j)
    <3> DEFINE M == L \cup {q}
               R == Pending(Outer)
    <3>1. H \subseteq M /\ Q \subseteq R
      BY <1>5, <1>6
    <3> HIDE DEF M, R
    <3>2. Flow(e.pool, H, Q, t, M, R, j)
      BY <2>2, <3>1, SameCodeFlow
    <3>3. Flow(pool, K, P, e.pool, H, Q, j)
      BY <1>4, <1>14, <1>20, FlowTransitive
    <3>4. Flow(pool, K, P, t, M, R, j)
      BY <3>2, <3>3, FlowTransitive
    <3> QED
      BY <3>4 DEF M, R
  <2>8. c \in CompilationType /\ Same(c) /\ Sane(t, q, c) /\ c.scopes = Outer
    <3>1. Flow(pool, HeldPages(o.scopes) \cup {o.page}, Pending(o.scopes),
               t, HeldPages(Outer) \cup {q}, Pending(Outer), o.job)
      BY <2>7 DEF K, H, P, L, j
    <3>2. Work(pool, t, o.runtime, o.job)
      BY <2>6 DEF r, j
    <3> QED
      BY <1>1, <2>5, <3>1, <3>2, BlockClosed DEF c
  <2>9. y.pool = t /\ y.page = q /\ ~y.failed /\ EmitterOk(y, r, L)
    <3>1. y.pool = t /\ y.page = q /\ ~y.failed
      BY DEF Emitter
    <3> QED
      BY <1>3, <1>8, <2>4, <3>1, EmitterGives
  <2> HIDE DEF y
  <2>10. ASSUME ~ignored
         PROVE  Fits(t) /\ RoomFor(t, q, Outer)
    <3>1. Fits(t) /\ \A p : NumFreeLines(t, p) = NumFreeLines(e.pool, p)
      BY <1>18, <2>2, <2>10, SameRoom
    <3>2. NumFreeLines(t, q) >= 2 /\ \A h \in HeldPages(Outer) : NumFreeLines(t, h) >= 2
      BY <1>5, <1>18, <2>10, <3>1 DEF L
    <3> QED
      BY <1>5, <2>10, <3>1, <3>2, SimpleRoom
  <2>11. /\ EmitterOk(y, o.runtime, L) /\ Work(pool, y.pool, o.runtime, o.job)
         /\ ~ignored' => Fits(y.pool) /\ RoomFor(y.pool, y.page, c.scopes)
         /\ Sane(y.pool, y.page, c)
    BY <1>1, <2>6, <2>8, <2>9, <2>10 DEF r, j
  <2> QED
    BY <1>1, <1>3, <2>1, <2>8, <2>11, Continued DEF Preserved
<1>21. e.failed \in BOOLEAN
  BY <1>12, EmitterFacts
<1> QED
  BY <1>19, <1>20, <1>21

-----------------------------------------------------------------------------
(* The end of a target                                                     *)

\* The blocks that are left when a target is done: its table goes on when it
\* has another entry.
AfterEntry(ss) ==
  LET ts == SubSeq(ss, 1, Len(ss) - 2) IN
  IF ss[Len(ss) - 1].left = 1 THEN ts
  ELSE Append(ts, [ss[Len(ss) - 1] EXCEPT !.left = @ - 1])

\* The table and its target are the last two blocks.
LEMMA TableAndTarget ==
  ASSUME NEW ss, ScopesOk(ss), ss[Len(ss)].opcode = "target"
  PROVE  \E n \in Nat :
           /\ Len(ss) = n + 2 /\ Len(ss) - 1 = n + 1 /\ Len(ss) - 2 = n /\ n >= 1
           /\ n \in 1 .. Len(ss) /\ n + 1 \in 1 .. Len(ss) /\ n + 2 \in 1 .. Len(ss)
           /\ \A i \in 1 .. n : i \in 1 .. Len(ss) /\ i # n + 1 /\ i # n + 2
           /\ \A i \in 1 .. Len(ss) : i \in 1 .. n \/ i = n + 1 \/ i = n + 2
           /\ ss[n + 1].opcode = "targets" /\ ss[n + 2].opcode = "target"
           /\ ss[n + 1] \in Scope /\ ss[n + 1].left \in Nat /\ ss[n + 1].left >= 1
<1>1. PICK k \in Nat : k = Len(ss) /\ k \in 1 .. Len(ss)
  BY DEF ScopesOk
<1>2. k > 1 /\ ss[k - 1].opcode = "targets"
  BY <1>1 DEF ScopesOk
<1>3. PICK m \in 1 .. Len(ss) : m = k - 1
  BY <1>1, <1>2
<1>4. m # 1
  BY <1>2, <1>3 DEF ScopesOk
<1>5. PICK n \in Nat : n = k - 2 /\ n >= 1 /\ m = n + 1 /\ k = n + 2
  BY <1>1, <1>2, <1>3, <1>4
<1>6. ss[m] \in Scope /\ ss[m].left \in Nat /\ ss[m].left >= 1
  BY <1>2, <1>3, ScopeType DEF ScopesOk
<1>7. /\ Len(ss) = n + 2 /\ Len(ss) - 1 = n + 1 /\ Len(ss) - 2 = n
      /\ n \in 1 .. Len(ss) /\ n + 1 \in 1 .. Len(ss) /\ n + 2 \in 1 .. Len(ss)
      /\ \A i \in 1 .. n : i \in 1 .. Len(ss) /\ i # n + 1 /\ i # n + 2
      /\ \A i \in 1 .. Len(ss) : i \in 1 .. n \/ i = n + 1 \/ i = n + 2
  BY <1>1, <1>5
<1> QED
  BY <1>1, <1>2, <1>3, <1>5, <1>6, <1>7

LEMMA TableGoesOn ==
  ASSUME NEW ss, ScopesOk(ss), ss[Len(ss)].opcode = "target",
         \A i \in 1 .. Len(ss) : Keeping(ss[i])
  PROVE  LET vs == AfterEntry(ss)
             q  == ss[Len(ss)].saved
         IN  /\ q \in Page /\ q \in HeldPages(ss) /\ q \notin HeldPages(vs)
             /\ ScopesOk(vs) /\ HeldPages(vs) \subseteq HeldPages(ss)
             /\ HeldPages(ss) \subseteq HeldPages(vs) \cup {q}
             /\ Pending(vs) = Pending(ss)
             /\ 1 \in 1 .. Len(vs) /\ vs[1].opcode = ss[1].opcode
             /\ \A i \in 1 .. Len(vs) :
                  /\ Keeping(vs[i])
                  /\ \E k \in 1 .. Len(ss) : vs[i].pc = ss[k].pc
<1>1. PICK n \in Nat :
           /\ Len(ss) = n + 2 /\ Len(ss) - 1 = n + 1 /\ Len(ss) - 2 = n /\ n >= 1
           /\ n \in 1 .. Len(ss) /\ n + 1 \in 1 .. Len(ss) /\ n + 2 \in 1 .. Len(ss)
           /\ \A i \in 1 .. n : i \in 1 .. Len(ss) /\ i # n + 1 /\ i # n + 2
           /\ \A i \in 1 .. Len(ss) : i \in 1 .. n \/ i = n + 1 \/ i = n + 2
           /\ ss[n + 1].opcode = "targets" /\ ss[n + 2].opcode = "target"
           /\ ss[n + 1] \in Scope /\ ss[n + 1].left \in Nat /\ ss[n + 1].left >= 1
  BY TableAndTarget
<1> DEFINE ts == SubSeq(ss, 1, n)
           old == ss[n + 1]
           table == [old EXCEPT !.left = old.left - 1]
           us == Append(ts, table)
           q  == ss[n + 2].saved
           vs == AfterEntry(ss)
<1>2. vs = IF old.left = 1 THEN ts ELSE us
  BY <1>1 DEF AfterEntry
<1>3. /\ q \in Page /\ q \in HeldPages(ss)
      /\ ScopesOk(ts) /\ HeldPages(ts) \in SUBSET HeldPages(ss) /\ q \notin HeldPages(ts)
      /\ old.left # 1 => /\ ScopesOk(us) /\ HeldPages(us) \in SUBSET HeldPages(ss)
                         /\ q \notin HeldPages(us)
  <2> DEFINE ts1 == SubSeq(ss, 1, Len(ss) - 2)
             us1 == Append(ts1, [ss[Len(ss) - 1] EXCEPT !.left = @ - 1])
  <2>1. /\ ss[Len(ss)].saved \in Page /\ ss[Len(ss)].saved \in HeldPages(ss)
        /\ ScopesOk(ts1) /\ HeldPages(ts1) \in SUBSET HeldPages(ss)
        /\ ss[Len(ss)].saved \notin HeldPages(ts1)
        /\ ss[Len(ss) - 1].left # 1 => /\ ScopesOk(us1) /\ HeldPages(us1) \in SUBSET HeldPages(ss)
                                       /\ ss[Len(ss)].saved \notin HeldPages(us1)
    BY AfterTarget
  <2>2. ts1 = ts
    BY <1>1
  <2>3. us1 = us
    BY <1>1
  <2> HIDE DEF ts1, us1, ts, us
  <2> QED
    BY <1>1, <2>1, <2>2, <2>3
<1>4. Len(ts) = n /\ \A i \in 1 .. n : ts[i] = ss[i]
  BY <1>1, OuterScopes
<1>5. /\ table \in Scope \/ old.left = 0
      /\ table.opcode = "targets" /\ table.patches = old.patches /\ table.saved = old.saved
      /\ table.pc = old.pc
  BY <1>1 DEF Scope
<1>6. /\ Waiting(ss[n + 1]) = {} /\ Waiting(ss[n + 2]) = {} /\ ss[n + 1].saved = NULL
  BY <1>1 DEF Keeping, Waiting
<1>7. table \in Scope /\ Keeping(table) /\ Waiting(table) = {}
  <2>1. table.patches = {} /\ table.saved = NULL
    BY <1>1, <1>5 DEF Keeping
  <2>2. table.opcode # "if"
    BY <1>5
  <2> QED
    BY <1>1, <1>5, <2>1, <2>2 DEF Keeping, Waiting
<1> HIDE DEF ts, table, us, vs
<1>8. Pending(ts) = Pending(ss) /\ HeldPages(ss) \subseteq HeldPages(ts) \cup {q}
  <2>1. ASSUME NEW x \in Pending(ts) PROVE x \in Pending(ss)
    <3>1. PICK i \in 1 .. n : x \in Waiting(ts[i])
      BY <1>4, PendingElements
    <3> QED
      BY <1>1, <1>4, <3>1, PendingElements
  <2>2. ASSUME NEW x \in Pending(ss) PROVE x \in Pending(ts)
    <3>1. PICK i \in 1 .. Len(ss) : x \in Waiting(ss[i])
      BY PendingElements
    <3>2. i \in 1 .. n
      BY <1>1, <1>6, <3>1
    <3> QED
      BY <1>4, <3>1, <3>2, PendingElements
  <2>3. ASSUME NEW x \in HeldPages(ss) PROVE x \in HeldPages(ts) \cup {q}
    <3>1. PICK i \in 1 .. Len(ss) : ss[i].saved # NULL /\ x = ss[i].saved
      BY HeldElements
    <3>2. CASE i \in 1 .. n
      BY <1>4, <3>1, <3>2, HeldElements
    <3> QED
      BY <1>1, <1>6, <3>1, <3>2
  <2> QED
    BY <2>1, <2>2, <2>3
<1>9. /\ 1 \in 1 .. n /\ ts[1].opcode = ss[1].opcode
      /\ \A i \in 1 .. n : Keeping(ts[i]) /\ \E k \in 1 .. Len(ss) : ts[i].pc = ss[k].pc
  BY <1>1, <1>4
<1>10. CASE old.left = 1
  BY <1>1, <1>2, <1>3, <1>4, <1>8, <1>9, <1>10 DEF vs
<1>11. CASE old.left # 1
  <2>1. /\ Pending(us) = Pending(ts) \cup Waiting(table)
        /\ Len(us) = n + 1 /\ us[n + 1] = table
        /\ \A i \in 1 .. n : us[i] = ts[i]
        /\ \A i \in 1 .. Len(us) : i \in 1 .. n \/ i = n + 1
        /\ HeldPages(ts) \subseteq HeldPages(us)
    BY <1>3, <1>4, <1>7, AppendKeeps DEF us
  <2>2. 1 \in 1 .. Len(us)
    BY <1>1, <2>1
  <2>3. ASSUME NEW i \in 1 .. Len(us)
        PROVE  Keeping(us[i]) /\ \E k \in 1 .. Len(ss) : us[i].pc = ss[k].pc
    <3>1. CASE i \in 1 .. n
      BY <1>9, <2>1, <3>1
    <3>2. CASE i = n + 1
      BY <1>1, <1>5, <1>7, <2>1, <3>2
    <3> QED
      BY <2>1, <3>1, <3>2
  <2>4. us[1].opcode = ss[1].opcode
    BY <1>9, <2>1
  <2>5. Pending(us) = Pending(ss) /\ HeldPages(ss) \subseteq HeldPages(us) \cup {q}
    BY <1>7, <1>8, <2>1
  <2> QED
    BY <1>1, <1>2, <1>3, <1>11, <2>2, <2>3, <2>4, <2>5 DEF vs
<1> QED
  BY <1>10, <1>11

\* The entry takes one of the lines kept for the table.
LEMMA TableRoom ==
  ASSUME NEW ss, ScopesOk(ss), ss[Len(ss)].opcode = "target",
         \A i \in 1 .. Len(ss) : Keeping(ss[i]),
         NEW s, NEW p, RoomFor(s, p, ss), NEW q, q = ss[Len(ss)].saved,
         NEW t, NumFreeLines(s, q) \in Int, NumFreeLines(t, q) = NumFreeLines(s, q) - 1,
         \A h \in HeldPages(AfterEntry(ss)) : NumFreeLines(t, h) >= 2
  PROVE  RoomFor(t, q, AfterEntry(ss)) /\ NumFreeLines(s, q) >= 1
<1>1. PICK n \in Nat :
           /\ Len(ss) = n + 2 /\ Len(ss) - 1 = n + 1 /\ Len(ss) - 2 = n /\ n >= 1
           /\ n \in 1 .. Len(ss) /\ n + 1 \in 1 .. Len(ss) /\ n + 2 \in 1 .. Len(ss)
           /\ \A i \in 1 .. n : i \in 1 .. Len(ss) /\ i # n + 1 /\ i # n + 2
           /\ \A i \in 1 .. Len(ss) : i \in 1 .. n \/ i = n + 1 \/ i = n + 2
           /\ ss[n + 1].opcode = "targets" /\ ss[n + 2].opcode = "target"
           /\ ss[n + 1] \in Scope /\ ss[n + 1].left \in Nat /\ ss[n + 1].left >= 1
  BY TableAndTarget
<1> DEFINE ts == SubSeq(ss, 1, n)
           old == ss[n + 1]
           table == [old EXCEPT !.left = old.left - 1]
           us == Append(ts, table)
           vs == AfterEntry(ss)
           A == NumFreeLines(s, q)
           left == old.left
<1>2. vs = IF old.left = 1 THEN ts ELSE us
  BY <1>1 DEF AfterEntry
<1>3. /\ ScopesOk(ts) /\ HeldPages(ts) \in SUBSET HeldPages(ss)
  BY <1>1, AfterTarget
<1>4. Len(ts) = n /\ \A i \in 1 .. n : ts[i] = ss[i]
  BY <1>1, OuterScopes
<1>5. table \in Scope \/ left = 0
  BY <1>1 DEF Scope
<1>6. table.opcode = "targets" /\ table.left = left - 1
  BY <1>1 DEF Scope
<1>7. /\ A >= left + 2
      /\ \A i \in 1 .. Len(ss) : ss[i].opcode = "targets" =>
           i = Len(ss) \/ (i = Len(ss) - 1 /\ ss[Len(ss)].opcode = "target")
  BY <1>1 DEF RoomFor
<1>8. NoTable(ts)
  BY <1>1, <1>4, <1>7 DEF NoTable
<1>9. left \in Nat /\ left >= 1
  BY <1>1
<1> HIDE DEF ts, table, us, vs, A, left
<1>10. A \in Int /\ NumFreeLines(t, q) = A - 1
  BY DEF A
<1>11. A >= 1 /\ A - 1 >= 2 /\ A - 1 >= (left - 1) + 2
  BY <1>7, <1>9, <1>10
<1>12. NumFreeLines(t, q) >= 2 /\ A >= 1 /\ NumFreeLines(t, q) >= (left - 1) + 2
  BY <1>10, <1>11
<1>13. CASE left = 1
  <2>1. vs = ts /\ \A h \in HeldPages(ts) : NumFreeLines(t, h) >= 2
    BY <1>2, <1>13 DEF vs, left
  <2> QED
    BY <1>3, <1>8, <1>12, <2>1, SimpleRoom DEF vs, A
<1>14. CASE left # 1
  <2>1. vs = us /\ \A h \in HeldPages(us) : NumFreeLines(t, h) >= 2
    BY <1>2, <1>14 DEF vs, left
  <2>2. table \in Scope
    BY <1>5, <1>9
  <2>3. /\ Len(us) = n + 1 /\ us[n + 1] = table
        /\ \A i \in 1 .. n : us[i] = ts[i]
        /\ \A i \in 1 .. Len(us) : i \in 1 .. n \/ i = n + 1
    BY <1>3, <1>4, <2>2, AppendKeeps DEF us
  <2>4. \A i \in 1 .. Len(us) : us[i].opcode = "targets" => i = Len(us)
    BY <1>4, <1>8, <2>3 DEF NoTable
  <2>5. us[Len(us)].opcode = "targets" /\ us[Len(us)].left = left - 1
    BY <1>6, <2>3
  <2>6. RoomFor(t, q, us)
    BY <1>12, <2>1, <2>4, <2>5 DEF RoomFor
  <2> QED
    BY <1>12, <2>1, <2>6 DEF vs, A
<1> QED
  BY <1>13, <1>14

LEMMA CloseTargetDoes ==
  ASSUME AllInv, NEW t \in BranchTarget, CloseTarget(t)
  PROVE  Preserved
<1> DEFINE H == HeldPages(o.scopes)
           K == H \cup {o.page}
           P == Pending(o.scopes)
           r == o.runtime
           j == o.job
           q == Current.saved
           start == Current.pc
           last == o.scopes[Top - 1].left = 1
           entry == [Jump(j, start) EXCEPT !.falls = ~last]
           words == <<entry>>
<1>1. /\ o # NULL /\ Current.opcode = "target" /\ job' = job /\ ignored' = ignored
  BY DEF CloseTarget, Emitting
<1>2. PICK e \in Leave(Start, t, FALSE) :
       IF e.failed THEN Abandon(e)
       ELSE LET c == WithPatch(o, t, e)
                s == EmitWords(ReleaseCodePage(e.pool, r, e.page), q, words)
            IN Continue(Emitter(s, q),
                 IF last THEN [c EXCEPT !.scopes = SubSeq(c.scopes, 1, Top - 2),
                                        !.dead = TRUE]
                 ELSE [c EXCEPT !.scopes = Append(SubSeq(c.scopes, 1, Top - 2),
                                                  [c.scopes[Top - 1] EXCEPT !.left = @ - 1])])
  BY DEF CloseTarget
<1>3. /\ r \in Runtime /\ j \in Nat /\ IInv /\ CInv /\ Good(pool) /\ pool \in PoolType
      /\ o.page \in Page /\ o \in CompilationType /\ ScopesOk(o.scopes) /\ Clean(pool)
      /\ EmitterOk(Start, r, H) /\ Start.pool = pool /\ Start.page = o.page
      /\ Owns(pool, r, o.page, H)
  BY <1>1, InBetween DEF AllInv
<1>4. /\ Top \in 1 .. Len(o.scopes) /\ Top = Len(o.scopes)
      /\ t \in 1 .. Len(o.scopes) /\ start \in PC
      /\ Current = o.scopes[Len(o.scopes)]
  <2>1. Top \in 1 .. Len(o.scopes) /\ Top = Len(o.scopes)
    BY <1>3 DEF Top, ScopesOk
  <2>2. t \in 1 .. Len(o.scopes)
    BY DEF BranchTarget, Top
  <2> QED
    BY <1>3, <2>1, <2>2, ScopeType DEF Current
<1>5. Reached(pool, j, K, o.scopes[t].pc) /\ Reached(pool, j, K, start)
  <2>1. \A i \in 1 .. Len(o.scopes) : Reached(pool, j, K, o.scopes[i].pc)
    BY <1>1, InBetween DEF Sane, Writes
  <2> QED
    BY <1>4, <2>1 DEF Current
<1> HIDE DEF H, P, r, j, K
<1>6. /\ Writing(Start, e, r, j, H) /\ EmitterOk(e, r, H)
      /\ ~e.failed =>
           /\ Flow(pool, K, P, e.pool, H, P \cup LeftFor(t, e), j)
           /\ LastPC(e.pool, e.page) \in PC
           /\ EmittedIn(e.pool, LastPC(e.pool, e.page), j)
  <2>1. PICK falls \in BOOLEAN : falls = FALSE
    OBVIOUS
  <2>2. e \in Leave(Start, t, falls) /\ (o.scopes[t].opcode = "function" => ~falls)
    BY <2>1
  <2>3. Reached(Start.pool, o.job, H \cup {Start.page}, o.scopes[t].pc) /\ Clean(Start.pool)
    BY <1>3, <1>5 DEF j, K
  <2>4. EmitterOk(Start, o.runtime, H)
    BY <1>3 DEF r
  <2>5. /\ Writing(Start, e, r, j, H) /\ EmitterOk(e, r, H)
        /\ ~e.failed =>
             /\ \A R : Flow(Start.pool, H \cup {Start.page}, R, e.pool,
                            IF falls THEN H \cup {e.page} ELSE H, R \cup LeftFor(t, e), j)
             /\ LastPC(e.pool, e.page) \in PC
             /\ EmittedIn(e.pool, LastPC(e.pool, e.page), j)
    BY <1>1, <1>3, <2>2, <2>3, <2>4, LeaveDoes DEF r, j
  <2>6. (IF falls THEN H \cup {e.page} ELSE H) = H
    BY <2>1
  <2> QED
    BY <1>3, <2>5, <2>6 DEF K
<1>7. /\ Good(e.pool) /\ e.pool \in PoolType /\ e.page \in Page
      /\ Owns(e.pool, r, e.page, H) /\ e.page \in e.pool.active[r] /\ e.failed \in BOOLEAN
  <2>1. Owns(e.pool, r, e.page, H) /\ e.failed \in BOOLEAN
    BY <1>6, EmitterFacts
  <2> QED
    BY <1>3, <2>1, OwnsFacts
<1>8. Work(pool, e.pool, r, j) /\ Untouched(pool, e.pool, H)
  BY <1>3, <1>6 DEF Writing
<1>9. ~ignored => Fits(e.pool)
  BY <1>1, <1>3, <1>6, InBetween DEF Writing
<1>10. CASE e.failed
  <2>1. Abandon(e)
    BY <1>2, <1>10
  <2>2. EmitterOk(e, o.runtime, H) /\ Work(pool, e.pool, o.runtime, o.job)
    BY <1>6, <1>8 DEF r, j
  <2>3. CInv' /\ Stable /\ (Fits(e.pool) => Fits(pool')) /\ o' = NULL
    BY <1>1, <1>3, <2>1, <2>2, Abandoned
  <2> QED
    BY <1>1, <1>9, <2>3 DEF Preserved, SInv
<1>11. CASE ~e.failed
  <2> DEFINE c  == WithPatch(o, t, e)
             cs == c.scopes
             vs == AfterEntry(cs)
             L  == HeldPages(vs)
             M  == L \cup {q}
             Q  == P \cup LeftFor(t, e)
             u  == ReleaseCodePage(e.pool, r, e.page)
             s  == EmitWords(u, q, words)
             y  == Emitter(s, q)
             d  == IF last THEN [c EXCEPT !.scopes = SubSeq(c.scopes, 1, Top - 2), !.dead = TRUE]
                   ELSE [c EXCEPT !.scopes = Append(SubSeq(c.scopes, 1, Top - 2),
                                                    [c.scopes[Top - 1] EXCEPT !.left = @ - 1])]
  <2>1. Continue(y, d)
    BY <1>2, <1>11
  <2>2. /\ c \in CompilationType /\ c.job = o.job /\ c.runtime = o.runtime
        /\ c.fn = o.fn /\ c.pc = o.pc
        /\ ScopesOk(cs) /\ HeldPages(cs) = H
        /\ Len(cs) = Len(o.scopes)
        /\ Pending(cs) = Q
        /\ \A i \in 1 .. Len(o.scopes) :
             /\ cs[i].opcode = o.scopes[i].opcode /\ cs[i].saved = o.scopes[i].saved
             /\ cs[i].left = o.scopes[i].left /\ cs[i].pc = o.scopes[i].pc
             /\ Keeping(cs[i])
    <3>1. LastPC(e.pool, e.page) \in PC
      BY <1>6, <1>11
    <3> HIDE DEF c
    <3> QED
      BY <1>1, <3>1, WithPatchKeeps DEF H, P, c
  <2> HIDE DEF c
  <2>3. /\ cs[Len(cs)].opcode = "target" /\ cs[Len(cs)].saved = q /\ Len(cs) = Top
        /\ \A i \in 1 .. Len(cs) : Keeping(cs[i])
    BY <1>1, <1>4, <2>2 DEF Current
  <2>4. cs[Len(cs) - 1].left = o.scopes[Top - 1].left
    <3>1. PICK n \in Nat : Len(cs) - 1 = n + 1 /\ n + 1 \in 1 .. Len(cs)
      BY <2>2, <2>3, TableAndTarget
    <3> QED
      BY <2>2, <2>3, <3>1
  <2>5. /\ q \in Page /\ q \in H /\ q \notin L
        /\ ScopesOk(vs) /\ L \subseteq H /\ H \subseteq L \cup {q}
        /\ Pending(vs) = Q
        /\ 1 \in 1 .. Len(vs) /\ vs[1].opcode = cs[1].opcode
        /\ \A i \in 1 .. Len(vs) :
             Keeping(vs[i]) /\ \E k \in 1 .. Len(cs) : vs[i].pc = cs[k].pc
    <3> HIDE DEF q
    <3> QED
      BY <2>2, <2>3, TableGoesOn
  <2>6. d = IF last THEN [c EXCEPT !.scopes = vs, !.dead = TRUE] ELSE [c EXCEPT !.scopes = vs]
    BY <2>3, <2>4 DEF AfterEntry
  <2> HIDE DEF d, vs
  <2>7. /\ d \in CompilationType /\ d.scopes = vs /\ d.runtime = c.runtime
        /\ d.job = c.job /\ d.fn = c.fn /\ d.pc = c.pc
    <3>1. CASE last
      BY <2>2, <2>5, <2>6, <3>1, WithScopesAndDead DEF CompilationType
    <3>2. CASE ~last
      BY <2>2, <2>5, <2>6, <3>2, WithScopes DEF CompilationType
    <3> QED
      BY <3>1, <3>2
  <2>8. /\ entry \in Word /\ entry.job = j /\ entry.to = start
    <3>1. start \in PC \cup {Unpatched}
      BY <1>4
    <3>2. [Jump(j, start) EXCEPT !.falls = TRUE] \in Word /\ [Jump(j, start) EXCEPT !.falls = FALSE] \in Word
      BY <1>3, <3>1, WordTypes
    <3>3. entry \in Word
      BY <3>2
    <3> HIDE DEF start, last
    <3>4. entry.job = j /\ entry.to = start
      BY JumpFields
    <3> QED
      BY <3>3, <3>4
  <2> HIDE DEF entry, last
  <2>9. /\ words \in Seq(Word) /\ Len(words) = 1 /\ \A k \in 1 .. Len(words) : words[k] = entry
    BY <2>8
  <2> HIDE DEF words
  <2>10. u.code = e.pool.code /\ u.numLines = e.pool.numLines
    BY <1>3, <1>7, ReleaseDoes
  <2>11. Work(e.pool, u, r, j)
    BY <1>3, <1>7, ReleaseWork
  <2> HIDE DEF q, start, L
  <2>12. Owns(u, r, q, L)
    <3>1. q \in H /\ L \in SUBSET H
      BY <2>5
    <3> QED
      BY <1>3, <1>7, <2>5, <3>1, ReleaseOwns
  <2> HIDE DEF u
  <2>13. u \in PoolType /\ Good(u) /\ q \in u.active[r]
    BY <1>3, <2>12, OwnsFacts
  <2>14. Owns(s, r, q, L)
    BY <1>3, <2>5, <2>9, <2>12, WriteOwns
  <2>15. Work(u, s, r, j)
    <3>1. \A k \in 1 .. Len(words) : words[k].job = j
      BY <2>8, <2>9
    <3> QED
      BY <1>3, <2>5, <2>9, <2>13, <3>1, EmitWork
  <2>16. Flow(pool, K, P, u, H, Q, j)
    <3>1. Flow(pool, K, P, e.pool, H, Q, j)
      BY <1>6, <1>11
    <3> HIDE DEF Q
    <3>2. Flow(e.pool, H, Q, u, H, Q, j)
      BY <2>10, SameCodeFlow
    <3> QED
      BY <3>1, <3>2, FlowTransitive
  <2>17. Flow(u, H, Q, s, M, Q, j)
    <3>1. Reached(u, j, H, start)
      BY <1>4, <1>5, <2>16 DEF Flow
    <3>2. H \subseteq M \cup {q} /\ q \in M /\ Len(words) >= 1
          /\ \A k \in 1 .. Len(words) : words[k].job = j /\ words[k].to = start
      BY <2>5, <2>8, <2>9
    <3> HIDE DEF M, Q
    <3>3. Reached(s, j, M, start)
      BY <1>4, <2>5, <2>9, <2>13, <3>1, <3>2, EmitReached
    <3>4. \A k \in 1 .. Len(words) :
            /\ words[k].to = Unpatched => <<q, Len(u.code[q]) + k>> \in Q
            /\ words[k].to \in PC => Reached(EmitWords(u, q, words), j, M, words[k].to)
      BY <1>4, <3>2, <3>3, Nulls
    <3> QED
      BY <2>5, <2>9, <2>13, <3>2, <3>4, EmitFlow
  <2>18. /\ Fits(e.pool) => Fits(u)
         /\ \A p : NumFreeLines(u, p) = NumFreeLines(e.pool, p)
    BY <2>10, SameRoom
  <2>19. /\ NumFreeLines(s, q) = NumFreeLines(u, q) - Len(words)
         /\ Untouched(u, s, L)
         /\ Fits(u) /\ NumFreeLines(u, q) >= Len(words) => Fits(s)
    <3>1. L \in SUBSET (Page \ {q})
      BY <1>3, <2>12, OwnsFacts
    <3> QED
      BY <2>5, <2>9, <2>13, <3>1, EmitRoom
  <2>20. Flow(pool, K, P, s, M, Q, j)
    <3> HIDE DEF M, Q, s
    <3> QED
      BY <2>16, <2>17, FlowTransitive
  <2> HIDE DEF s
  <2>21. s \in PoolType /\ Good(s)
    BY <1>3, <2>14, OwnsFacts
  <2>22. Work(pool, s, r, j) /\ Work(e.pool, s, r, j)
    <3>1. Work(e.pool, s, r, j)
      BY <1>3, <1>7, <2>11, <2>13, <2>15, <2>21, WorkTransitive
    <3> QED
      BY <1>3, <1>7, <1>8, <2>21, <3>1, WorkTransitive
  <2>23. Same(d)
    <3>1. 1 \in 1 .. Len(o.scopes)
      BY <1>3 DEF ScopesOk
    <3> QED
      BY <2>2, <2>5, <2>7, <3>1 DEF Same
  <2>24. Sane(s, q, d)
    <3>1. \A i \in 1 .. Len(d.scopes) :
            /\ Keeping(d.scopes[i])
            /\ \E k \in 1 .. Len(o.scopes) : d.scopes[i].pc = o.scopes[k].pc
      <4> SUFFICES ASSUME NEW i \in 1 .. Len(vs)
                   PROVE  /\ Keeping(vs[i])
                          /\ \E k \in 1 .. Len(o.scopes) : vs[i].pc = o.scopes[k].pc
        BY <2>7
      <4>1. PICK k \in 1 .. Len(cs) : vs[i].pc = cs[k].pc
        BY <2>5
      <4>2. k \in 1 .. Len(o.scopes) /\ vs[i].pc = o.scopes[k].pc
        BY <2>2, <4>1
      <4> QED
        BY <2>5, <4>2
    <3>2. \A pc \in Pending(d.scopes) :
            pc \in Pending(o.scopes) \/ (pc \in PC /\ EmittedIn(s, pc, o.job))
      <4>1. LastPC(e.pool, e.page) \in PC /\ EmittedIn(s, LastPC(e.pool, e.page), j)
        BY <1>6, <1>7, <1>11, <2>21, <2>22, WorkEmitted
      <4>2. \A pc \in Q : pc \in P \/ pc = LastPC(e.pool, e.page)
        BY DEF LeftFor
      <4> QED
        BY <2>5, <2>7, <4>1, <4>2 DEF P, j
    <3>3. Flow(pool, HeldPages(o.scopes) \cup {o.page}, Pending(o.scopes),
               s, HeldPages(d.scopes) \cup {q}, Pending(d.scopes), o.job)
      BY <2>5, <2>7, <2>20 DEF H, K, P, L, j
    <3>4. d.job = o.job /\ d.pc = o.pc /\ Work(pool, s, o.runtime, o.job)
      BY <2>2, <2>7, <2>22 DEF r, j
    <3> QED
      BY <1>1, <2>21, <3>1, <3>2, <3>3, <3>4, SaneAfter
  <2>25. y.pool = s /\ y.page = q /\ ~y.failed /\ EmitterOk(y, r, L)
    <3>1. y.pool = s /\ y.page = q /\ ~y.failed
      BY DEF Emitter
    <3> QED
      BY <1>3, <2>5, <2>14, <3>1, EmitterGives
  <2> HIDE DEF y
  <2>26. ASSUME ~ignored
         PROVE  Fits(s) /\ RoomFor(s, q, vs)
    <3>1. /\ RoomFor(pool, o.page, o.scopes)
          /\ \A h \in H : h \in Page /\ NumFreeLines(pool, h) >= 2
      BY <1>1, <1>3, <2>26, InBetween, OwnsFacts DEF H
    <3>2. RoomFor(pool, o.page, cs)
      BY <1>3, <2>2, <3>1, RoomSame DEF H
    <3>3. \A h \in H : NumFreeLines(u, h) = NumFreeLines(pool, h)
      BY <1>8, <2>18, UntouchedRoom
    <3>4. \A h \in HeldPages(vs) : NumFreeLines(s, h) >= 2
      <4>1. \A h \in L : NumFreeLines(s, h) = NumFreeLines(u, h)
        BY <2>19, UntouchedRoom
      <4> QED
        BY <2>5, <3>1, <3>3, <4>1 DEF L
    <3>5. NumFreeLines(pool, q) \in Int
      BY <1>3, <2>5, FreeLinesType
    <3>6. NumFreeLines(s, q) = NumFreeLines(pool, q) - 1
      BY <2>5, <2>9, <2>19, <3>3
    <3>7. RoomFor(s, q, vs) /\ NumFreeLines(pool, q) >= 1
      BY <2>2, <2>3, <3>2, <3>4, <3>5, <3>6, TableRoom DEF vs
    <3>8. Fits(s)
      BY <1>9, <2>5, <2>9, <2>18, <2>19, <2>26, <3>3, <3>7
    <3> QED
      BY <3>7, <3>8
  <2>27. /\ EmitterOk(y, o.runtime, L) /\ Work(pool, y.pool, o.runtime, o.job)
         /\ ~ignored' => Fits(y.pool) /\ RoomFor(y.pool, y.page, d.scopes)
         /\ Sane(y.pool, y.page, d)
    BY <1>1, <2>7, <2>22, <2>24, <2>25, <2>26 DEF r, j
  <2> QED
    BY <1>1, <1>3, <2>1, <2>7, <2>23, <2>27, Continued DEF Preserved
<1> QED
  BY <1>7, <1>10, <1>11

-----------------------------------------------------------------------------
(* The end of the code                                                     *)

\* op_Return is emitted.
LEMMA LastWordDoes ==
  ASSUME AllInv, o # NULL, NEW e \in EmitOp(Start, o.runtime, o.job, <<Stop(o.job)>>)
  PROVE  LET H == HeldPages(o.scopes) IN
         /\ EmitterOk(e, o.runtime, H) /\ Work(pool, e.pool, o.runtime, o.job)
         /\ ~ignored => Fits(e.pool)
         /\ ~e.failed => \A P : Flow(pool, H \cup {o.page}, P, e.pool, H, P, o.job)
<1> DEFINE H == HeldPages(o.scopes)
           r == o.runtime
           j == o.job
           words == <<Stop(j)>>
<1>1. /\ r \in Runtime /\ j \in Nat /\ EmitterOk(Start, r, H)
      /\ Start.pool = pool /\ Start.page = o.page /\ Clean(pool)
  BY InBetween
<1> HIDE DEF H, r, j
<1>2. /\ Leads(words, pool, j, H \cup {o.page}) /\ Len(words) = 1
      /\ ~words[1].falls /\ words[1].to # Unpatched
  BY <1>1, StopLeads
<1>3. e \in EmitOp(Start, r, j, words)
  BY DEF r, j
<1> HIDE DEF words
<1>4. /\ Writing(Start, e, r, j, H) /\ EmitterOk(e, r, H)
      /\ ~e.failed => \A P : Flow(pool, H \cup {o.page}, P, e.pool,
                                  After(words, H, e), Waits(words, P, e), j)
  BY <1>1, <1>2, <1>3, EmitOpDoes
<1>5. After(words, H, e) = H /\ \A P : Waits(words, P, e) = P
  BY <1>2 DEF After, Waits
<1>6. ~e.failed => \A P : Flow(pool, H \cup {o.page}, P, e.pool, H, P, j)
  BY <1>4, <1>5
<1>7. Work(pool, e.pool, r, j)
  BY <1>1, <1>4 DEF Writing
<1>8. ~ignored => Fits(e.pool)
  BY <1>1, <1>4, InBetween DEF Writing
<1> QED
  BY <1>4, <1>6, <1>7, <1>8 DEF H, r, j

\* The function's own block is the first, keeps no page and waits for nothing.
LEMMA FunctionBlock ==
  ASSUME AllInv, o # NULL, Current.opcode = "function"
  PROVE  /\ HeldPages(o.scopes) = {} /\ Pending(o.scopes) = {}
         /\ o.fn \in Function /\ o.runtime = Home[o.fn] /\ o.runtime # Scratch
<1>1. /\ ScopesOk(o.scopes) /\ Sane(pool, o.page, o) /\ o \in CompilationType
      /\ Begun(o, job)
  BY InBetween DEF AllInv, CInv
<1>2. Top \in 1 .. Len(o.scopes) /\ Top = Len(o.scopes)
  BY <1>1 DEF ScopesOk, Top
<1>3. Top = 1
  BY <1>1, <1>2 DEF ScopesOk, Current
<1>4. \A i \in 1 .. Len(o.scopes) : i = 1
  BY <1>2, <1>3
<1>5. o.scopes[1].opcode = "function" /\ 1 \in 1 .. Len(o.scopes)
  BY <1>2, <1>3 DEF Current
<1>6. Keeping(o.scopes[1])
  BY <1>1, <1>5 DEF Sane
<1>7. o.scopes[1].saved = NULL /\ Waiting(o.scopes[1]) = {}
  BY <1>5, <1>6 DEF Keeping, Waiting
<1>8. HeldPages(o.scopes) = {}
  BY <1>4, <1>7, HeldElements
<1>9. Pending(o.scopes) = {}
  BY <1>4, <1>7, PendingElements
<1>10. o.fn # NULL
  BY <1>1, <1>5 DEF Begun
<1>11. o.fn \in Function
  BY <1>1, <1>10 DEF CompilationType
<1> QED
  BY <1>1, <1>8, <1>9, <1>10, <1>11, CompilationAssumption DEF Begun

LEMMA EndFunctionDoes ==
  ASSUME AllInv, EndFunction
  PROVE  Preserved
<1> DEFINE r == o.runtime
           j == o.job
<1>1. o # NULL /\ Current.opcode = "function" /\ job' = job /\ ignored' = ignored
  BY DEF EndFunction, AtEnd
<1>2. PICK e \in EmitOp(Start, o.runtime, o.job, <<Stop(o.job)>>) :
        IF e.failed THEN Abandon(e)
        ELSE /\ compiled' = [compiled EXCEPT ![o.fn] = [job |-> o.job, pc |-> o.pc]]
             /\ pool' = ReleaseCodePage(e.pool, r, e.page)
             /\ o' = NULL
  BY DEF EndFunction
<1>3. /\ r \in Runtime /\ j \in Nat /\ IInv /\ CInv /\ Good(pool) /\ pool \in PoolType
      /\ o.page \in Page /\ o \in CompilationType /\ compiled \in CompiledType /\ j = job
      /\ Scratch \in Runtime
  BY <1>1, InBetween, CompilationAssumption DEF AllInv, IInv, CInv, Begun, CompiledType
<1>4. /\ HeldPages(o.scopes) = {} /\ Pending(o.scopes) = {}
      /\ o.fn \in Function /\ r = Home[o.fn] /\ r # Scratch
  BY <1>1, FunctionBlock
<1>5. /\ EmitterOk(e, r, {}) /\ Work(pool, e.pool, r, j)
      /\ ~ignored => Fits(e.pool)
      /\ ~e.failed => Flow(pool, {} \cup {o.page}, {}, e.pool, {}, {}, j)
  BY <1>1, <1>4, LastWordDoes
<1> HIDE DEF r, j
<1>6. CASE e.failed
  <2>1. Abandon(e)
    BY <1>2, <1>6
  <2>2. EmitterOk(e, o.runtime, {}) /\ Work(pool, e.pool, o.runtime, o.job)
    BY <1>5 DEF r, j
  <2>3. CInv' /\ Stable /\ (Fits(e.pool) => Fits(pool')) /\ o' = NULL
    BY <1>1, <1>3, <2>1, <2>2, Abandoned
  <2> QED
    BY <1>1, <1>5, <2>3 DEF Preserved, SInv
<1>7. CASE ~e.failed
  <2> DEFINE s == ReleaseCodePage(e.pool, r, e.page)
             new == [job |-> j, pc |-> o.pc]
             d == [compiled EXCEPT ![o.fn] = new]
  <2>1. compiled' = d /\ pool' = s /\ o' = NULL
    BY <1>2, <1>7 DEF j
  <2>2. /\ Good(e.pool) /\ e.pool \in PoolType /\ e.page \in Page
        /\ Owns(e.pool, r, e.page, {}) /\ e.page \in e.pool.active[r]
    <3>1. Owns(e.pool, r, e.page, {})
      BY <1>5, EmitterFacts
    <3> QED
      BY <1>3, <3>1, OwnsFacts
  <2>3. /\ s.code = e.pool.code /\ s.numLines = e.pool.numLines
        /\ Work(e.pool, s, r, j) /\ Good(s) /\ s \in PoolType
    <3>1. s.code = e.pool.code /\ s.numLines = e.pool.numLines
      BY <1>3, <2>2, ReleaseDoes
    <3>2. Work(e.pool, s, r, j)
      BY <1>3, <2>2, ReleaseWork
    <3>3. Good(s)
      BY <1>3, <2>2, ReleaseOwns
    <3>4. s \in PoolType
      BY <3>3 DEF Good
    <3> QED
      BY <3>1, <3>2, <3>3, <3>4
  <2> HIDE DEF s
  <2>4. Work(pool, s, r, j)
    BY <1>3, <1>5, <2>2, <2>3, WorkTransitive
  <2>5. Sound(s, j, {}, {}) /\ EmittedIn(s, o.pc, j)
    <3>1. Sound(pool, j, {} \cup {o.page}, {}) /\ Reached(pool, j, {} \cup {o.page}, o.pc)
      BY <1>1, <1>4, InBetween DEF Sane, Writes, j
    <3>2. o.pc \in PC
      BY <1>3 DEF CompilationType
    <3>3. Sound(e.pool, j, {}, {}) /\ Reached(e.pool, j, {}, o.pc)
      BY <1>5, <1>7, <3>1, <3>2 DEF Flow
    <3>4. {} \subseteq {}
      OBVIOUS
    <3>5. Flow(e.pool, {}, {}, s, {}, {}, j)
      BY <2>3, <3>4, SameCodeFlow
    <3>6. Sound(s, j, {}, {}) /\ Reached(s, j, {}, o.pc)
      BY <3>2, <3>3, <3>5 DEF Flow
    <3> QED
      BY <3>6 DEF Reached
  <2>6. /\ Finished(s, compiled, job)
        /\ \A f \in DOMAIN compiled : compiled[f] # NULL => Keeps(pool, s, compiled[f].job)
    <3>1. /\ Finished(pool, compiled, job)
          /\ \A f \in DOMAIN compiled : compiled[f] # NULL => compiled[f].job # j
      BY <1>1, <1>3 DEF CInv, j
    <3>2. job <= job /\ job \in Nat
      BY <1>3
    <3> QED
      BY <1>3, <2>3, <2>4, <3>1, <3>2, FinishedWork
  <2>7. WordsIn(s, j, r)
    <3>1. WordsIn(pool, j, r)
      BY <1>1, <1>3 DEF CInv, j, r
    <3> QED
      BY <1>3, <2>3, <2>4, <3>1, WorkInside
  <2>8. Finished(s, d, job)
    <3>1. \A f \in DOMAIN d : f \in DOMAIN compiled /\ d[f] = IF f = o.fn THEN new ELSE compiled[f]
      BY <1>3, <1>4 DEF CompiledType
    <3>2. new.job = j /\ new.pc = o.pc /\ j <= job
      BY <1>3
    <3> HIDE DEF d, new
    <3>3. ASSUME NEW f \in DOMAIN d, d[f] # NULL
          PROVE  /\ d[f].job <= job /\ WordsIn(s, d[f].job, Home[f])
                 /\ EmittedIn(s, d[f].pc, d[f].job)
                 /\ Sound(s, d[f].job, {}, {})
      <4>1. CASE f = o.fn
        BY <1>4, <2>5, <2>7, <3>1, <3>2, <4>1
      <4>2. CASE f # o.fn
        BY <2>6, <3>1, <3>3, <4>2 DEF Finished
      <4> QED
        BY <4>1, <4>2
    <3> QED
      BY <2>6, <3>3 DEF Finished
  <2>9. EmptyRuntime(s, Scratch)
    <3>1. EmptyRuntime(pool, Scratch)
      BY <1>3, <1>4 DEF CInv, r
    <3>2. SameRuntime(pool, s, Scratch)
      BY <1>3, <1>4, <2>4 DEF Work
    <3> QED
      BY <3>1, <3>2 DEF EmptyRuntime, SameRuntime
  <2>10. CInv'
    BY <1>1, <2>1, <2>8, <2>9 DEF CInv
  <2>11. Stable
    BY <2>1, <2>6 DEF Stable
  <2>12. SInv'
    <3>1. Fits(e.pool) => Fits(s)
      BY <2>3, SameRoom
    <3> QED
      BY <1>1, <1>5, <2>1, <3>1 DEF SInv
  <2> QED
    BY <2>10, <2>11, <2>12 DEF Preserved
<1>8. e.failed \in BOOLEAN
  BY <1>5, EmitterFacts
<1> QED
  BY <1>6, <1>7, <1>8

LEMMA EndExpressionDoes ==
  ASSUME AllInv, EndExpression
  PROVE  Preserved
<1> DEFINE H == HeldPages(o.scopes)
<1>1. o # NULL /\ job' = job /\ ignored' = ignored /\ IInv /\ CInv
  BY DEF EndExpression, AtEnd, AllInv
<1>2. PICK e \in EmitOp(Start, o.runtime, o.job, <<Stop(o.job)>>) : Abandon(e)
  BY DEF EndExpression
<1>3. /\ EmitterOk(e, o.runtime, H) /\ Work(pool, e.pool, o.runtime, o.job)
      /\ ~ignored => Fits(e.pool)
  BY <1>1, LastWordDoes
<1>4. CInv' /\ Stable /\ (Fits(e.pool) => Fits(pool')) /\ o' = NULL
  BY <1>1, <1>2, <1>3, Abandoned
<1> QED
  BY <1>1, <1>3, <1>4 DEF Preserved, SInv

-----------------------------------------------------------------------------
(* Starting, linking                                                       *)

\* Runtime r does a first part of a job, and some functions are forgotten.
LEMMA JobBegins ==
  ASSUME AllInv, o = NULL, NEW k \in Nat, k = job + 1,
         NEW t, Good(t), NEW r \in Runtime, Work(pool, t, r, k),
         NEW d, DOMAIN d = DOMAIN compiled,
         \A f \in DOMAIN compiled : d[f] = NULL \/ d[f] = compiled[f]
  PROVE  /\ Finished(t, d, k) /\ WordsIn(t, k, r)
         /\ \A f \in DOMAIN compiled : compiled[f] # NULL => Keeps(pool, t, compiled[f].job)
         /\ \A f \in DOMAIN d : d[f] # NULL => d[f].job # k
         /\ r # Scratch => EmptyRuntime(t, Scratch)
<1>1. /\ Good(pool) /\ compiled \in CompiledType /\ job \in Nat
      /\ Finished(pool, compiled, job) /\ EmptyRuntime(pool, Scratch) /\ Scratch \in Runtime
  BY CompilationAssumption DEF AllInv, IInv, CInv, CompiledType
<1>2. job <= k /\ k <= k
  BY <1>1
<1>3. \A f \in DOMAIN compiled : compiled[f] # NULL => compiled[f].job # k
  <2> SUFFICES ASSUME NEW f \in DOMAIN compiled, compiled[f] # NULL
               PROVE  compiled[f].job # k
    OBVIOUS
  <2>1. compiled[f].job \in Nat /\ compiled[f].job <= job
    BY <1>1, CompiledFacts DEF Finished
  <2> QED
    BY <1>1, <2>1
<1>4. WordsIn(pool, k, r)
  BY <1>1, NothingYet
<1>5. /\ Finished(t, compiled, k)
      /\ \A f \in DOMAIN compiled : compiled[f] # NULL => Keeps(pool, t, compiled[f].job)
  BY <1>1, <1>2, <1>3, FinishedWork
<1>6. Finished(t, d, k)
  BY <1>5, SomeForgotten
<1>7. WordsIn(t, k, r)
  BY <1>4, WorkInside
<1>8. r # Scratch => EmptyRuntime(t, Scratch)
  <2> SUFFICES ASSUME r # Scratch PROVE EmptyRuntime(t, Scratch)
    OBVIOUS
  <2>1. SameRuntime(pool, t, Scratch)
    BY <1>1 DEF Work
  <2> QED
    BY <1>1, <2>1 DEF EmptyRuntime, SameRuntime
<1> QED
  BY <1>3, <1>5, <1>6, <1>7, <1>8

\* The compilation that begins when its first words are on page p.
LEMMA CompilationBegins ==
  ASSUME NEW r \in Runtime, NEW f \in Function \cup {NULL}, NEW j \in Nat, NEW pc \in PC,
         NEW p \in Page, NEW opcode \in {"function", "expression"}, NEW t,
         Sound(t, j, {p}, {}), Reached(t, j, {p}, pc)
  PROVE  LET c == NewCompilation(r, f, j, pc, p, opcode)
         IN  /\ Sane(t, p, c) /\ c # NULL
             /\ c.job = j /\ c.runtime = r /\ c.fn = f /\ c.page = p
             /\ c.scopes[1].opcode = opcode
             /\ NumFreeLines(t, p) >= 2 => RoomFor(t, p, c.scopes)
<1> DEFINE c == NewCompilation(r, f, j, pc, p, opcode)
<1>1. /\ c \in CompilationType /\ c.runtime = r /\ c.page = p
      /\ ScopesOk(c.scopes) /\ HeldPages(c.scopes) = {}
  <2> HIDE DEF c
  <2>1. c \in CompilationType
    BY FirstScope, Zenon DEF c
  <2>4. c.runtime = r /\ c.page = p
    BY DEF c, NewCompilation
  <2>2. ScopesOk(c.scopes)
    BY FirstScope, Zenon DEF c
  <2>3. HeldPages(c.scopes) = {}
    BY FirstScope, Zenon DEF c
  <2> QED
    BY <2>1, <2>2, <2>3, <2>4
<1> DEFINE sc == NewScope(opcode, pc)
<1>2. sc.opcode = opcode /\ sc.pc = pc /\ Keeping(sc) /\ Waiting(sc) = {}
  <2>1. opcode \in (BlockOpcode \cup {"expression", "targets", "target"}) \ {"if"}
    BY DEF BlockOpcode
  <2> QED
    BY <2>1, NewScopeKeeps
<1>3. c.job = j /\ c.fn = f /\ c.pc = pc /\ c.scopes = <<sc>>
  BY DEF NewCompilation
<1>4. c # NULL
  BY <1>1, CompilationNotNull
<1> HIDE DEF c, sc
<1>5. Len(c.scopes) = 1 /\ c.scopes[1] = sc
  BY <1>3
<1>6. \A i \in 1 .. Len(c.scopes) : c.scopes[i] = sc
  BY <1>5
<1>7. Pending(c.scopes) = {}
  BY <1>2, <1>6, PendingElements
<1>8. Writes(p, c.scopes) = {p}
  BY <1>1 DEF Writes
<1>9. Sane(t, p, c)
  BY <1>2, <1>3, <1>6, <1>7, <1>8 DEF Sane
<1>10. NoTable(c.scopes)
  BY <1>2, <1>6 DEF NoTable
<1>11. NumFreeLines(t, p) >= 2 => RoomFor(t, p, c.scopes)
  BY <1>1, <1>10, SimpleRoom
<1> QED
  BY <1>1, <1>2, <1>3, <1>4, <1>5, <1>9, <1>11 DEF c

\* Nothing has been emitted yet on the page that is acquired.
LEMMA FirstPage ==
  ASSUME AllInv, o = NULL, NEW k \in Nat, k = job + 1, NEW r \in Runtime,
         NEW n \in Nat, NEW a \in AcquireCodePageWithCapacity(pool, r, n)
  PROVE  /\ Good(a.pool) /\ a.pool \in PoolType /\ Clean(a.pool)
         /\ Work(pool, a.pool, r, k)
         /\ ~ignored => Fits(a.pool)
         /\ a.page = NULL => a.pool = pool
         /\ a.page # NULL =>
              /\ a.page \in Page /\ Owns(a.pool, r, a.page, {})
              /\ GetPagePC(a.pool, a.page) \in PC
              /\ Sound(a.pool, k, {a.page}, {})
              /\ Reached(a.pool, k, {a.page}, GetPagePC(a.pool, a.page))
              /\ NumFreeLines(a.pool, a.page) >= n
<1>1. /\ Good(pool) /\ Accounted(pool) /\ pool \in PoolType /\ job \in Nat
      /\ Finished(pool, compiled, job) /\ Clean(pool)
      /\ ~ignored => Fits(pool)
  BY DEF AllInv, IInv, CInv, SInv, Finished, Good
<1>2. /\ Good(a.pool)
      /\ a.page # NULL => /\ a.page \in Page /\ GetPagePC(a.pool, a.page) \in PC
                          /\ Owns(a.pool, r, a.page, {})
  BY <1>1, AcquireFirst
<1>3. Work(pool, a.pool, r, k)
  BY <1>1, AcquireWork
<1>4. Clean(a.pool)
  BY <1>1, <1>3 DEF Work
<1>5. /\ Fits(pool) => Fits(a.pool)
      /\ a.page # NULL => NumFreeLines(a.pool, a.page) >= n
  BY <1>1, AcquireRoom
<1>6. /\ a.page = NULL => a.pool = pool
      /\ a.page # NULL => a.pool.code = pool.code
  BY <1>1, AcquireDoes
<1>7. Sound(a.pool, k, {a.page}, {})
  <2>1. Sound(pool, k, {a.page}, {})
    BY <1>1, NothingYet
  <2>2. a.pool.code = pool.code
    BY <1>6
  <2>3. Flow(pool, {a.page}, {}, a.pool, {a.page}, {}, k)
    BY <2>2, SameCodeFlow
  <2> QED
    BY <2>1, <2>3 DEF Flow
<1>8. Reached(a.pool, k, {a.page}, GetPagePC(a.pool, a.page))
  BY HereReached
<1> QED
  BY <1>1, <1>2, <1>3, <1>4, <1>5, <1>6, <1>7, <1>8 DEF Good

LEMMA EvaluateExpressionDoes ==
  ASSUME AllInv, EvaluateExpression
  PROVE  Preserved
<1>1. /\ o = NULL /\ compiled' = compiled /\ ignored' = ignored /\ job' = job + 1
      /\ Scratch \in Runtime /\ job \in Nat /\ compiled \in CompiledType
  BY CompilationAssumption DEF AllInv, IInv, EvaluateExpression, Resting, CompiledType
<1>2. PICK k \in Nat : k = job + 1 /\ job' = k
  BY <1>1
<1>3. PICK a \in AcquireCodePage(pool, Scratch) :
        IF a.page = NULL
        THEN pool' = Runtime_Release(a.pool, Scratch) /\ UNCHANGED o
        ELSE /\ pool' = a.pool
             /\ o' = NewCompilation(Scratch, NULL, k, GetPagePC(a.pool, a.page),
                                    a.page, "expression")
  BY <1>2 DEF EvaluateExpression
<1>4. PICK n \in Nat : n >= 2 /\ a \in AcquireCodePageWithCapacity(pool, Scratch, n)
  BY DEF AcquireCodePage, FreeLinesThreshold
<1>5. /\ Good(a.pool) /\ Work(pool, a.pool, Scratch, k)
      /\ ~ignored => Fits(a.pool)
      /\ a.page # NULL =>
           /\ a.page \in Page /\ Owns(a.pool, Scratch, a.page, {})
           /\ GetPagePC(a.pool, a.page) \in PC
           /\ Sound(a.pool, k, {a.page}, {})
           /\ Reached(a.pool, k, {a.page}, GetPagePC(a.pool, a.page))
           /\ NumFreeLines(a.pool, a.page) >= n
  BY <1>1, <1>2, <1>4, FirstPage
<1>6. /\ Finished(a.pool, compiled, k) /\ WordsIn(a.pool, k, Scratch)
      /\ \A f \in DOMAIN compiled : compiled[f] # NULL => Keeps(pool, a.pool, compiled[f].job)
      /\ \A f \in DOMAIN compiled : compiled[f] # NULL => compiled[f].job # k
  BY <1>1, <1>2, <1>5, JobBegins
<1>7. CASE a.page = NULL
  <2> DEFINE t == Runtime_Release(a.pool, Scratch)
  <2>1. pool' = t /\ o' = NULL
    BY <1>1, <1>3, <1>7
  <2>2. /\ Finished(t, compiled, k)
        /\ \A f \in DOMAIN compiled : compiled[f] # NULL => Keeps(a.pool, t, compiled[f].job)
    BY <1>1, <1>5, <1>6, FinishedWipe, CompiledFacts
  <2>3. EmptyRuntime(t, Scratch)
    BY <1>1, <1>5, Runtime_ReleaseDoes
  <2>4. Fits(a.pool) => Fits(t)
    BY <1>1, <1>5, WipeRoom
  <2> HIDE DEF t
  <2>5. CInv'
    BY <1>1, <1>2, <2>1, <2>2, <2>3 DEF CInv
  <2>6. Stable
    <3> SUFFICES ASSUME NEW f \in DOMAIN compiled, compiled[f] # NULL
                 PROVE  Keeps(pool, t, compiled[f].job)
      BY <2>1 DEF Stable
    <3> QED
      BY <1>6, <2>2, KeepsTransitive
  <2>7. SInv'
    BY <1>1, <1>5, <2>1, <2>4 DEF SInv
  <2> QED
    BY <2>5, <2>6, <2>7 DEF Preserved
<1>8. CASE a.page # NULL
  <2> DEFINE pc == GetPagePC(a.pool, a.page)
             c == NewCompilation(Scratch, NULL, k, pc, a.page, "expression")
  <2>1. pool' = a.pool /\ o' = c
    BY <1>3, <1>8
  <2>2. pc \in PC /\ a.page \in Page /\ Sound(a.pool, k, {a.page}, {})
        /\ Reached(a.pool, k, {a.page}, pc)
    BY <1>5, <1>8
  <2> HIDE DEF pc
  <2>3. /\ Sane(a.pool, a.page, c) /\ c # NULL
        /\ c.job = k /\ c.runtime = Scratch /\ c.fn = NULL /\ c.page = a.page
        /\ c.scopes[1].opcode = "expression"
        /\ NumFreeLines(a.pool, a.page) >= 2 => RoomFor(a.pool, a.page, c.scopes)
    BY <1>1, <2>2, CompilationBegins
  <2> HIDE DEF c
  <2>4. NumFreeLines(a.pool, a.page) >= 2
    <3>1. NumFreeLines(a.pool, a.page) \in Int
      BY <1>5, <2>2, FreeLinesType
    <3>2. NumFreeLines(a.pool, a.page) >= n
      BY <1>5, <1>8
    <3> QED
      BY <1>4, <3>1, <3>2
  <2>5. Begun(c, k)
    BY <2>3 DEF Begun
  <2>6. CInv'
    BY <1>1, <1>2, <1>6, <2>1, <2>3, <2>5 DEF CInv
  <2>7. SInv'
    BY <1>1, <1>5, <2>1, <2>3, <2>4 DEF SInv
  <2>8. Stable
    BY <1>6, <2>1 DEF Stable
  <2> QED
    BY <2>6, <2>7, <2>8 DEF Preserved
<1> QED
  BY <1>7, <1>8

LEMMA CompileFunctionDoes ==
  ASSUME AllInv, NEW f \in Function, CompileFunction(f)
  PROVE  Preserved
<1> DEFINE r == Home[f]
           d == [compiled EXCEPT ![f] = NULL]
<1>1. /\ o = NULL /\ compiled' = d /\ ignored' = ignored /\ job' = job + 1
      /\ Scratch \in Runtime /\ job \in Nat /\ compiled \in CompiledType
      /\ r \in Runtime /\ r # Scratch /\ Good(pool) /\ pool \in PoolType /\ f # NULL
  BY CompilationAssumption DEF AllInv, IInv, CompileFunction, Resting, CompiledType, Good
<1>2. PICK k \in Nat : k = job + 1 /\ job' = k
  BY <1>1
<1>3. PICK a \in AcquireCodePage(pool, r) :
        IF a.page = NULL THEN UNCHANGED <<pool, o>>
        ELSE LET pc == GetPagePC(a.pool, a.page) IN
             \E e \in EmitOp(Emitter(a.pool, a.page), r, k, PlainWords(k, 2)) :
               IF e.failed
               THEN pool' = ReleaseCodePage(e.pool, r, e.page) /\ UNCHANGED o
               ELSE /\ pool' = e.pool
                    /\ o' = NewCompilation(r, f, k, pc, e.page, "function")
  BY <1>2 DEF CompileFunction
<1>4. PICK n \in Nat : n >= 2 /\ a \in AcquireCodePageWithCapacity(pool, r, n)
  BY DEF AcquireCodePage, FreeLinesThreshold
<1>5. DOMAIN d = DOMAIN compiled /\ \A g \in DOMAIN compiled : d[g] = NULL \/ d[g] = compiled[g]
  BY <1>1 DEF CompiledType
<1> HIDE DEF r, d
<1>6. /\ Good(a.pool) /\ a.pool \in PoolType /\ Clean(a.pool) /\ Work(pool, a.pool, r, k)
      /\ ~ignored => Fits(a.pool)
      /\ a.page = NULL => a.pool = pool
      /\ a.page # NULL =>
           /\ a.page \in Page /\ Owns(a.pool, r, a.page, {})
           /\ GetPagePC(a.pool, a.page) \in PC
           /\ Sound(a.pool, k, {a.page}, {})
           /\ Reached(a.pool, k, {a.page}, GetPagePC(a.pool, a.page))
           /\ NumFreeLines(a.pool, a.page) >= n
  BY <1>1, <1>2, <1>4, FirstPage
\* The step ends without a compilation.
<1>7. ASSUME NEW t, Good(t), Work(pool, t, r, k), ~ignored => Fits(t), pool' = t, o' = NULL
      PROVE  Preserved
  <2>1. /\ Finished(t, d, k) /\ EmptyRuntime(t, Scratch)
        /\ \A g \in DOMAIN compiled : compiled[g] # NULL => Keeps(pool, t, compiled[g].job)
    BY <1>1, <1>2, <1>5, <1>7, JobBegins
  <2>2. CInv'
    BY <1>1, <1>2, <1>7, <2>1 DEF CInv
  <2>3. SInv' /\ Stable
    BY <1>1, <1>7, <2>1 DEF SInv, Stable
  <2> QED
    BY <2>2, <2>3 DEF Preserved
<1>8. CASE a.page = NULL
  <2>1. pool' = pool /\ o' = NULL
    BY <1>1, <1>3, <1>8
  <2> QED
    BY <1>1, <1>6, <1>7, <1>8, <2>1
<1>9. CASE a.page # NULL
  <2> DEFINE b == Emitter(a.pool, a.page)
             pc == GetPagePC(a.pool, a.page)
  <2>1. PICK e \in EmitOp(b, r, k, PlainWords(k, 2)) :
          IF e.failed
          THEN pool' = ReleaseCodePage(e.pool, r, e.page) /\ UNCHANGED o
          ELSE /\ pool' = e.pool
               /\ o' = NewCompilation(r, f, k, pc, e.page, "function")
    BY <1>3, <1>9
  <2>2. /\ b.pool = a.pool /\ b.page = a.page /\ EmitterOk(b, r, {})
    BY <1>1, <1>6, <1>9, EmitterGives DEF Emitter
  <2>3. pc \in PC /\ Sound(a.pool, k, {a.page}, {}) /\ Reached(a.pool, k, {a.page}, pc)
    BY <1>6, <1>9
  <2> HIDE DEF b, pc
  <2>4. PICK m \in 1 .. FreeLinesThreshold :
          m \in Nat /\ m <= 6 /\ e \in EmitOp(b, r, k, PlainWords(k, m))
    BY DEF FreeLinesThreshold
  <2>5. /\ Writing(b, e, r, k, {}) /\ EmitterOk(e, r, {})
        /\ \A P : Flow(b.pool, {} \cup {b.page}, P, e.pool, {} \cup {e.page}, P, k)
        /\ ~e.failed /\ Clean(b.pool) => LeavesRoom(b, e, m)
    BY <1>1, <2>2, <2>4, EmitPlainDoes
  <2>6. /\ e.page \in Page /\ Owns(e.pool, r, e.page, {}) /\ Good(e.pool) /\ e.pool \in PoolType
        /\ e.page \in e.pool.active[r] /\ e.failed \in BOOLEAN
    BY <1>1, <2>5, EmitterFacts, OwnsFacts
  <2>7. Work(pool, e.pool, r, k)
    <3>1. Work(a.pool, e.pool, r, k)
      BY <2>2, <2>5 DEF Writing
    <3> QED
      BY <1>1, <1>6, <2>6, <3>1, WorkTransitive
  <2>8. ~ignored => Fits(e.pool)
    <3>1. NumFreeLines(a.pool, a.page) \in Int /\ NumFreeLines(a.pool, a.page) >= n
      BY <1>6, <1>9, FreeLinesType
    <3>2. NumFreeLines(a.pool, a.page) >= 2
      BY <1>4, <3>1
    <3> QED
      BY <1>6, <2>2, <2>5, <3>2 DEF Writing
  <2>9. CASE e.failed
    <3> DEFINE t == ReleaseCodePage(e.pool, r, e.page)
    <3>1. pool' = t /\ o' = NULL
      BY <1>1, <2>1, <2>9
    <3>2. t.code = e.pool.code /\ t.numLines = e.pool.numLines
      BY <1>1, <2>6, ReleaseDoes
    <3>3. Work(e.pool, t, r, k)
      BY <1>1, <2>6, ReleaseWork
    <3>4. Good(t)
      BY <1>1, <2>6, ReleaseOwns
    <3> HIDE DEF t
    <3>5. t \in PoolType
      BY <3>4 DEF Good
    <3>6. Work(pool, t, r, k)
      BY <1>1, <2>6, <2>7, <3>3, <3>5, WorkTransitive
    <3>7. Fits(e.pool) => Fits(t)
      BY <3>2, SameRoom
    <3> QED
      BY <1>7, <2>8, <3>1, <3>4, <3>6, <3>7
  <2>10. CASE ~e.failed
    <3> DEFINE c == NewCompilation(r, f, k, pc, e.page, "function")
    <3>1. pool' = e.pool /\ o' = c
      BY <2>1, <2>10
    <3>2. Sound(e.pool, k, {e.page}, {}) /\ Reached(e.pool, k, {e.page}, pc)
      <4>1. Flow(a.pool, {a.page}, {}, e.pool, {e.page}, {}, k)
        BY <2>2, <2>5
      <4> QED
        BY <2>3, <4>1 DEF Flow
    <3>3. /\ Sane(e.pool, e.page, c) /\ c # NULL
          /\ c.job = k /\ c.runtime = r /\ c.fn = f /\ c.page = e.page
          /\ c.scopes[1].opcode = "function"
          /\ NumFreeLines(e.pool, e.page) >= 2 => RoomFor(e.pool, e.page, c.scopes)
      BY <1>1, <2>3, <2>6, <3>2, CompilationBegins
    <3> HIDE DEF c
    <3>4. NumFreeLines(e.pool, e.page) >= 2
      BY <1>6, <2>2, <2>4, <2>5, <2>6, <2>10, RoomLeft
    <3>5. /\ Finished(e.pool, d, k) /\ WordsIn(e.pool, k, r)
          /\ \A g \in DOMAIN compiled : compiled[g] # NULL => Keeps(pool, e.pool, compiled[g].job)
          /\ \A g \in DOMAIN d : d[g] # NULL => d[g].job # k
          /\ EmptyRuntime(e.pool, Scratch)
      BY <1>1, <1>2, <1>5, <2>6, <2>7, JobBegins
    <3>6. Begun(c, k)
      BY <1>1, <3>3 DEF Begun, r
    <3>7. CInv'
      BY <1>1, <1>2, <3>1, <3>3, <3>5, <3>6 DEF CInv
    <3>8. SInv'
      BY <1>1, <2>8, <3>1, <3>3, <3>4 DEF SInv
    <3>9. Stable
      BY <3>1, <3>5 DEF Stable
    <3> QED
      BY <3>7, <3>8, <3>9 DEF Preserved
  <2> QED
    BY <2>6, <2>9, <2>10
<1> QED
  BY <1>8, <1>9

LEMMA NewRuntimeDoes ==
  ASSUME AllInv, NEW r \in Runtime, m3_NewRuntime(r)
  PROVE  Preserved
<1>1. pool' = pool /\ o' = o /\ compiled' = compiled /\ ignored' = ignored /\ job' = job
  BY DEF m3_NewRuntime
<1> QED
  BY <1>1, SameStable DEF Preserved, AllInv, CInv, SInv

LEMMA FreeRuntimeDoes ==
  ASSUME AllInv, NEW r \in Runtime, m3_FreeRuntime(r)
  PROVE  Preserved
<1> DEFINE d == [f \in DOMAIN compiled |-> IF Home[f] = r THEN NULL ELSE compiled[f]]
           t == Runtime_Release(pool, r)
<1>1. /\ o = NULL /\ o' = NULL /\ compiled' = d /\ ignored' = ignored /\ job' = job /\ pool' = t
      /\ Scratch \in Runtime /\ job \in Nat /\ compiled \in CompiledType
      /\ r # Scratch /\ Good(pool) /\ Finished(pool, compiled, job) /\ EmptyRuntime(pool, Scratch)
      /\ ~ignored => Fits(pool)
  BY CompilationAssumption DEF AllInv, IInv, CInv, SInv, m3_FreeRuntime, Resting, CompiledType
<1>2. /\ d \in CompiledType /\ DOMAIN d = DOMAIN compiled
      /\ \A f \in DOMAIN compiled : d[f] = IF Home[f] = r THEN NULL ELSE compiled[f]
  BY <1>1 DEF CompiledType
<1> HIDE DEF d
<1>3. Finished(pool, d, job)
  BY <1>1, <1>2, SomeForgotten
<1>4. /\ Finished(t, d, job)
      /\ \A f \in DOMAIN d : d[f] # NULL => Keeps(pool, t, d[f].job)
  <2>1. \A f \in DOMAIN d : d[f] # NULL => Home[f] # r
    BY <1>2
  <2> QED
    BY <1>1, <1>2, <1>3, <2>1, FinishedWipe
<1>5. EmptyRuntime(t, Scratch)
  <2>1. SameRuntime(pool, t, Scratch)
    BY <1>1, Runtime_ReleaseDoes
  <2> HIDE DEF t
  <2> QED
    BY <1>1, <2>1 DEF EmptyRuntime, SameRuntime
<1>6. Fits(pool) => Fits(t)
  BY <1>1, WipeRoom
<1> HIDE DEF t
<1>7. CInv'
  BY <1>1, <1>4, <1>5 DEF CInv
<1>8. SInv'
  BY <1>1, <1>6 DEF SInv
<1>9. Stable
  BY <1>1, <1>2, <1>4 DEF Stable
<1> QED
  BY <1>7, <1>8, <1>9 DEF Preserved

LEMMA FreeEnvironmentDoes ==
  ASSUME AllInv, m3_FreeEnvironment
  PROVE  Preserved
<1> DEFINE t == Environment_Release(pool)
<1>1. /\ o = NULL /\ o' = NULL /\ compiled' = compiled /\ ignored' = ignored /\ job' = job
      /\ pool' = t /\ Scratch \in Runtime /\ job \in Nat /\ compiled \in CompiledType
      /\ Good(pool) /\ Finished(pool, compiled, job) /\ EmptyRuntime(pool, Scratch)
      /\ ~ignored => Fits(pool)
  BY CompilationAssumption DEF AllInv, IInv, CInv, SInv, m3_FreeEnvironment, Resting, CompiledType
<1>2. /\ t.code = pool.code
      /\ \A q \in Runtime : SameRuntime(pool, t, q) /\ PagesOf(t, q) = PagesOf(pool, q)
      /\ \A p \in Page : t.numLines[p] = IF p \in On(pool, Released) THEN 0 ELSE pool.numLines[p]
      /\ Clean(pool) => Clean(t)
  BY <1>1, Environment_ReleaseDoes
<1> HIDE DEF t
<1>3. Finished(t, compiled, job)
  <2>1. \A j, q : q \in Runtime /\ WordsIn(pool, j, q) => WordsIn(t, j, q)
    BY <1>2 DEF WordsIn, Lines
  <2>2. \A j : Sound(pool, j, {}, {}) => Sound(t, j, {}, {})
    <3> SUFFICES ASSUME NEW j, Sound(pool, j, {}, {}) PROVE Sound(t, j, {}, {})
      OBVIOUS
    <3>1. Flow(pool, {}, {}, t, {}, {}, j)
      BY <1>2, SameCodeFlow
    <3> QED
      BY <3>1 DEF Flow
  <2>3. \A pc, j : EmittedIn(pool, pc, j) => EmittedIn(t, pc, j)
    BY <1>2 DEF EmittedIn, Lines
  <2>4. Clean(t) /\ \A p \in Page : \A i \in Lines(t, p) : t.code[p][i].job <= job
    BY <1>1, <1>2 DEF Finished, Lines
  <2>5. ASSUME NEW f \in DOMAIN compiled, compiled[f] # NULL
        PROVE  /\ compiled[f].job <= job /\ WordsIn(t, compiled[f].job, Home[f])
               /\ EmittedIn(t, compiled[f].pc, compiled[f].job)
               /\ Sound(t, compiled[f].job, {}, {})
    <3>1. /\ compiled[f].job <= job /\ WordsIn(pool, compiled[f].job, Home[f])
          /\ EmittedIn(pool, compiled[f].pc, compiled[f].job)
          /\ Sound(pool, compiled[f].job, {}, {})
      BY <1>1, <2>5 DEF Finished
    <3>2. Home[f] \in Runtime
      BY <1>1, CompiledFacts
    <3> QED
      BY <2>1, <2>2, <2>3, <3>1, <3>2
  <2> QED
    BY <2>4, <2>5 DEF Finished
<1>4. EmptyRuntime(t, Scratch)
  <2>1. SameRuntime(pool, t, Scratch)
    BY <1>1, <1>2
  <2> QED
    BY <1>1, <2>1 DEF EmptyRuntime, SameRuntime
<1>5. Fits(pool) => Fits(t)
  <2> SUFFICES ASSUME Fits(pool), NEW p \in Page PROVE NumFreeLines(t, p) >= 0
    BY DEF Fits
  <2>1. CASE p \in On(pool, Released)
    <3>1. pool.code[p] = <<>>
      BY <1>1, <2>1 DEF Finished, Clean
    <3>2. Len(t.code[p]) = 0 /\ t.numLines[p] = 0
      BY <1>2, <2>1, <3>1
    <3> QED
      BY <3>2 DEF NumFreeLines
  <2>2. CASE p \notin On(pool, Released)
    <3>1. t.code[p] = pool.code[p] /\ t.numLines[p] = pool.numLines[p]
      BY <1>2, <2>2
    <3>2. NumFreeLines(pool, p) >= 0
      BY DEF Fits
    <3> QED
      BY <3>1, <3>2 DEF NumFreeLines
  <2> QED
    BY <2>1, <2>2
<1>6. CInv'
  BY <1>1, <1>3, <1>4 DEF CInv
<1>7. SInv'
  BY <1>1, <1>5 DEF SInv
<1>8. Stable
  BY <1>1, <1>2 DEF Stable, Keeps, Lines
<1> QED
  BY <1>6, <1>7, <1>8 DEF Preserved

\* CallRawFunction, the two pointers and the return.
LEMMA RawWords ==
  ASSUME NEW k \in Nat
  PROVE  LET words == PlainWords(k, 3) \o <<Stop(k)>> IN
         /\ words \in Seq(Word) /\ Len(words) = 4
         /\ \A i \in 1 .. Len(words) : words[i].job = k /\ words[i].to = NULL
         /\ ~words[Len(words)].falls
<1> DEFINE head == PlainWords(k, 3)
           words == head \o <<Stop(k)>>
<1>1. /\ head \in Seq(Word) /\ Stop(k) \in Word
  BY WordTypes
<1>2. Len(head) = 3 /\ \A i \in 1 .. 3 : head[i] = Plain(k)
  BY DEF PlainWords
<1> HIDE DEF head
<1>3. <<Stop(k)>> \in Seq(Word) /\ Len(<<Stop(k)>>) = 1 /\ <<Stop(k)>>[1] = Stop(k)
  BY <1>1
<1>4. /\ words \in Seq(Word) /\ Len(words) = 4
      /\ \A i \in 1 .. 4 : words[i] = IF i <= 3 THEN Plain(k) ELSE Stop(k)
  <2> DEFINE tail == <<Stop(k)>>
  <2> HIDE DEF tail
  <2>1. tail \in Seq(Word) /\ Len(tail) = 1 /\ tail[1] = Stop(k)
    BY <1>3 DEF tail
  <2>2. /\ head \o tail \in Seq(Word) /\ Len(head \o tail) = Len(head) + Len(tail)
        /\ \A i \in 1 .. Len(head) + Len(tail) :
             (head \o tail)[i] = IF i <= Len(head) THEN head[i] ELSE tail[i - Len(head)]
    BY <1>1, <2>1, ConcatProperties
  <2>3. Len(head \o tail) = 4
    BY <1>2, <2>1, <2>2
  <2>4. ASSUME NEW i \in 1 .. 4
        PROVE  (head \o tail)[i] = IF i <= 3 THEN Plain(k) ELSE Stop(k)
    <3>1. CASE i \in 1 .. 3
      BY <1>2, <2>1, <2>2, <3>1
    <3>2. CASE i = 4
      <4>1. 4 \in 1 .. Len(head) + Len(tail) /\ ~(4 <= Len(head)) /\ 4 - Len(head) = 1
        BY <1>2, <2>1
      <4>2. (head \o tail)[4] = tail[4 - Len(head)]
        BY <1>2, <2>1, <2>2, <4>1, Zenon
      <4>3. (head \o tail)[4] = tail[1]
        BY <4>1, <4>2
      <4> QED
        BY <2>1, <3>2, <4>3
    <3>3. i \in 1 .. 3 \/ i = 4
      OBVIOUS
    <3> QED
      BY <3>1, <3>2, <3>3
  <2> QED
    BY <2>2, <2>3, <2>4 DEF tail
<1> HIDE DEF words
<1>5. Plain(k).job = k /\ Plain(k).to = NULL
  BY WordFields
<1>6. Stop(k).job = k /\ Stop(k).to = NULL /\ Stop(k).falls = FALSE
  BY WordFields
<1>7. ASSUME NEW i \in 1 .. Len(words)
      PROVE  words[i].job = k /\ words[i].to = NULL
  BY <1>4, <1>5, <1>6
<1>8. words[4] = Stop(k)
  BY <1>4
<1> QED
  BY <1>4, <1>6, <1>7, <1>8 DEF words, head

LEMMA LinkRawFunctionDoes ==
  ASSUME AllInv, NEW f \in Import, LinkRawFunction(f)
  PROVE  Preserved
<1> DEFINE r == Home[f]
<1>1. /\ o = NULL /\ o' = NULL /\ ignored' = ignored /\ job' = job + 1
      /\ Scratch \in Runtime /\ job \in Nat /\ compiled \in CompiledType
      /\ r \in Runtime /\ r # Scratch /\ Good(pool) /\ pool \in PoolType
      /\ ~ignored => Fits(pool)
  BY CompilationAssumption
     DEF AllInv, IInv, SInv, LinkRawFunction, Resting, CompiledType, Good
<1>2. PICK k \in Nat : k = job + 1 /\ job' = k
  BY <1>1
<1>3. PICK a \in AcquireCodePageWithCapacity(pool, r, 4) :
        IF a.page = NULL THEN UNCHANGED <<pool, compiled>>
        ELSE /\ compiled' = [compiled EXCEPT ![f] =
                               [job |-> k, pc |-> GetPagePC(a.pool, a.page)]]
             /\ pool' = ReleaseCodePage(EmitWords(a.pool, a.page,
                                          PlainWords(k, 3) \o <<Stop(k)>>), r, a.page)
  BY <1>2 DEF LinkRawFunction
<1>4. PICK n \in Nat : n = 4 /\ a \in AcquireCodePageWithCapacity(pool, r, n)
  OBVIOUS
<1>5. f \in DOMAIN compiled /\ r = Home[f]
  BY <1>1 DEF CompiledType
<1> HIDE DEF r
<1>6. /\ Good(a.pool) /\ a.pool \in PoolType /\ Work(pool, a.pool, r, k)
      /\ ~ignored => Fits(a.pool)
      /\ a.page # NULL =>
           /\ a.page \in Page /\ Owns(a.pool, r, a.page, {})
           /\ GetPagePC(a.pool, a.page) \in PC
           /\ Sound(a.pool, k, {a.page}, {})
           /\ Reached(a.pool, k, {a.page}, GetPagePC(a.pool, a.page))
           /\ NumFreeLines(a.pool, a.page) >= n
  BY <1>1, <1>2, <1>4, FirstPage
<1>7. CASE a.page = NULL
  <2>1. pool' = pool /\ compiled' = compiled
    BY <1>3, <1>7
  <2>2. Work(pool, pool, r, k)
    BY <1>1, NoWork
  <2>3. Finished(pool, compiled, k) /\ EmptyRuntime(pool, Scratch)
    BY <1>1, <1>2, <2>2, JobBegins
  <2>4. CInv'
    BY <1>1, <1>2, <2>1, <2>3 DEF CInv
  <2>5. SInv'
    BY <1>1, <2>1 DEF SInv
  <2> QED
    BY <2>1, <2>4, <2>5, SameStable DEF Preserved
<1>8. CASE a.page # NULL
  <2> DEFINE words == PlainWords(k, 3) \o <<Stop(k)>>
             p == a.page
             s == EmitWords(a.pool, p, words)
             t == ReleaseCodePage(s, r, p)
             pc == GetPagePC(a.pool, p)
             new == [job |-> k, pc |-> pc]
             d == [compiled EXCEPT ![f] = new]
  <2>1. compiled' = d /\ pool' = t
    BY <1>3, <1>8
  <2>2. /\ words \in Seq(Word) /\ Len(words) = 4
        /\ \A i \in 1 .. Len(words) : words[i].job = k /\ words[i].to = NULL
        /\ ~words[Len(words)].falls
    BY RawWords
  <2>3. p \in Page /\ Owns(a.pool, r, p, {}) /\ p \in a.pool.active[r] /\ pc \in PC
    BY <1>1, <1>6, <1>8, OwnsFacts
  <2>4. Sound(a.pool, k, {p}, {}) /\ Reached(a.pool, k, {p}, pc)
    BY <1>6, <1>8
  <2> HIDE DEF words, p, pc
  <2>5. Owns(s, r, p, {})
    BY <1>1, <2>2, <2>3, WriteOwns
  <2>6. Work(a.pool, s, r, k)
    BY <1>1, <1>6, <2>2, <2>3, EmitWork
  <2>7. Flow(a.pool, {p}, {}, s, {}, {}, k)
    <3>1. /\ p \in {p} /\ {p} \subseteq {} \cup {p} /\ {} \subseteq {}
          /\ Len(words) >= 1
      BY <2>2
    <3>2. \A i \in 1 .. Len(words) :
            /\ words[i].to = Unpatched => <<p, Len(a.pool.code[p]) + i>> \in {}
            /\ words[i].to \in PC => Reached(s, k, {}, words[i].to)
      BY <2>2, Nulls
    <3> HIDE DEF s
    <3>3. \A i \in 1 .. Len(words) : words[i].job = k
      BY <2>2
    <3>4. words[Len(words)].falls => p \in {}
      BY <2>2
    <3>5. Good(a.pool) /\ p \in Page /\ words \in Seq(Word)
      BY <1>6, <2>2, <2>3
    <3> QED
      BY <3>1, <3>2, <3>3, <3>4, <3>5, EmitFlow DEF s
  <2>8. Fits(a.pool) => Fits(s)
    <3>1. NumFreeLines(a.pool, p) >= Len(words)
      BY <1>4, <1>6, <1>8, <2>2 DEF p
    <3> QED
      BY <1>6, <2>2, <2>3, <3>1, EmitRoom
  <2>9. Good(s) /\ s \in PoolType /\ p \in s.active[r]
    BY <1>1, <2>5, OwnsFacts
  <2> HIDE DEF s
  <2>10. t.code = s.code /\ t.numLines = s.numLines
    BY <1>1, <2>9, ReleaseDoes
  <2>11. Work(s, t, r, k)
    BY <1>1, <2>9, ReleaseWork
  <2>12. Good(t)
    BY <1>1, <2>3, <2>5, ReleaseOwns
  <2> HIDE DEF t
  <2>13. t \in PoolType
    BY <2>12 DEF Good
  <2>14. Work(pool, t, r, k)
    <3>1. Work(pool, s, r, k)
      BY <1>1, <1>6, <2>6, <2>9, WorkTransitive
    <3> QED
      BY <1>1, <2>9, <2>11, <2>13, <3>1, WorkTransitive
  <2>15. Sound(t, k, {}, {}) /\ EmittedIn(t, pc, k)
    <3>1. Flow(s, {}, {}, t, {}, {}, k)
      BY <2>10, SameCodeFlow
    <3>2. Sound(t, k, {}, {}) /\ Reached(t, k, {}, pc)
      BY <2>3, <2>4, <2>7, <3>1 DEF Flow
    <3> QED
      BY <3>2 DEF Reached
  <2>16. /\ Finished(t, compiled, k) /\ WordsIn(t, k, r) /\ EmptyRuntime(t, Scratch)
         /\ \A g \in DOMAIN compiled : compiled[g] # NULL => Keeps(pool, t, compiled[g].job)
    BY <1>1, <1>2, <2>12, <2>14, JobBegins
  <2>17. Finished(t, d, k)
    <3>1. \A g \in DOMAIN d : g \in DOMAIN compiled /\ d[g] = IF g = f THEN new ELSE compiled[g]
      BY <1>5
    <3>2. new.job = k /\ new.pc = pc /\ k <= k
      BY <1>2
    <3> HIDE DEF d, new
    <3>3. ASSUME NEW g \in DOMAIN d, d[g] # NULL
          PROVE  /\ d[g].job <= k /\ WordsIn(t, d[g].job, Home[g])
                 /\ EmittedIn(t, d[g].pc, d[g].job)
                 /\ Sound(t, d[g].job, {}, {})
      <4>1. CASE g = f
        BY <1>5, <2>15, <2>16, <3>1, <3>2, <4>1
      <4>2. CASE g # f
        BY <2>16, <3>1, <3>3, <4>2 DEF Finished
      <4> QED
        BY <4>1, <4>2
    <3> QED
      BY <2>16, <3>3 DEF Finished
  <2> HIDE DEF d
  <2>18. CInv'
    BY <1>1, <1>2, <2>1, <2>16, <2>17 DEF CInv
  <2>19. Fits(s) => Fits(t)
    BY <2>10, SameRoom
  <2>20. SInv'
    BY <1>1, <1>6, <2>1, <2>8, <2>19 DEF SInv
  <2>21. Stable
    BY <2>1, <2>16 DEF Stable
  <2> QED
    BY <2>18, <2>20, <2>21 DEF Preserved
<1> QED
  BY <1>7, <1>8

-----------------------------------------------------------------------------
(* The invariant of code, in every state                                   *)

LEMMA InitAllInv ==
  ASSUME Init
  PROVE  AllInv
<1>1. /\ pool = EmptyPool /\ o = NULL /\ job = 0
      /\ compiled = [f \in Function \cup Import |-> NULL] /\ Scratch \in Runtime
  BY CompilationAssumption DEF Init
<1>2. \A p \in Page : pool.code[p] = <<>> /\ Lines(pool, p) = {}
  BY <1>1 DEF EmptyPool, Lines
<1>3. Finished(pool, compiled, job)
  BY <1>1, <1>2 DEF Finished, Clean
<1>4. EmptyRuntime(pool, Scratch)
  BY <1>1, ListHeads DEF EmptyRuntime, EmptyPool
<1>5. Fits(pool)
  <2> SUFFICES ASSUME NEW p \in Page PROVE NumFreeLines(pool, p) >= 0
    BY DEF Fits
  <2>1. pool.numLines[p] \in Nat /\ Len(pool.code[p]) = 0
    BY <1>1, <1>2, EmptyPoolGood, PoolFacts DEF Good
  <2> QED
    BY <2>1 DEF NumFreeLines
<1> QED
  BY <1>1, <1>3, <1>4, <1>5, InitIInv DEF AllInv, CInv, SInv

LEMMA StutterDoes ==
  ASSUME AllInv, UNCHANGED vars
  PROVE  Preserved
<1>1. pool' = pool /\ o' = o /\ compiled' = compiled /\ ignored' = ignored /\ job' = job
  BY DEF vars
<1> QED
  BY <1>1, SameStable DEF Preserved, AllInv, CInv, SInv

LEMMA NextDoes ==
  ASSUME AllInv, [Next]_vars
  PROVE  Preserved
<1>1. ASSUME NEW r \in Runtime, m3_NewRuntime(r)
      PROVE  Preserved
  BY <1>1, NewRuntimeDoes
<1>2. ASSUME NEW r \in Runtime, m3_FreeRuntime(r)
      PROVE  Preserved
  BY <1>2, FreeRuntimeDoes
<1>3. CASE m3_FreeEnvironment
  BY <1>3, FreeEnvironmentDoes
<1>4. ASSUME NEW f \in Import, LinkRawFunction(f)
      PROVE  Preserved
  BY <1>4, LinkRawFunctionDoes
<1>5. ASSUME NEW f \in Function, CompileFunction(f)
      PROVE  Preserved
  BY <1>5, CompileFunctionDoes
<1>6. CASE EvaluateExpression
  BY <1>6, EvaluateExpressionDoes
<1>7. CASE Malformed
  BY <1>7, MalformedDoes
<1>8. ASSUME NEW n \in Operands, Instruction(n)
      PROVE  Preserved
  BY <1>8, InstructionDoes
<1>9. ASSUME NEW opcode \in {"block", "loop"}, NEW n \in {0, 1}, Compile_LoopOrBlock(opcode, n)
      PROVE  Preserved
  BY <1>9, LoopOrBlockDoes
<1>10. ASSUME NEW n \in {0, 1}, Compile_If(n)
       PROVE  Preserved
  BY <1>10, IfDoes
<1>11. ASSUME NEW t \in BranchTarget, Compile_Branch(t)
       PROVE  Preserved
  BY <1>11, BranchDoes
<1>12. ASSUME NEW t \in BranchTarget, Compile_BranchIf(t)
       PROVE  Preserved
  BY <1>12, BranchIfDoes
<1>13. ASSUME NEW t \in BranchTarget, Compile_BranchIfPrologue(t)
       PROVE  Preserved
  BY <1>13, BranchIfPrologueDoes
<1>14. ASSUME NEW n \in 0 .. MaxTargets, Compile_BranchTable(n)
       PROVE  Preserved
  <2>1. n \in Nat
    BY CompilationAssumption
  <2> QED
    BY <1>14, <2>1, BranchTableDoes
<1>15. CASE OpenTarget
  BY <1>15, OpenTargetDoes
<1>16. ASSUME NEW t \in BranchTarget, CloseTarget(t)
       PROVE  Preserved
  BY <1>16, CloseTargetDoes
<1>17. CASE EndBlock
  BY <1>17, EndBlockDoes
<1>18. CASE CompileElseBlock
  BY <1>18, CompileElseBlockDoes
<1>19. CASE EndElse
  BY <1>19, EndElseDoes
<1>20. CASE EndFunction
  BY <1>20, EndFunctionDoes
<1>21. CASE EndExpression
  BY <1>21, EndExpressionDoes
<1>22. CASE UNCHANGED vars
  BY <1>22, StutterDoes
<1> QED
  BY <1>1, <1>2, <1>3, <1>4, <1>5, <1>6, <1>7, <1>8, <1>9, <1>10, <1>11, <1>12, <1>13,
     <1>14, <1>15, <1>16, <1>17, <1>18, <1>19, <1>20, <1>21, <1>22 DEF Next

\* AllInv holds in every state of the compiler: where the words of each job are,
\* where they lead, and how much room is left.
THEOREM CodeInvariance == Spec => []AllInv
<1>1. Init => AllInv
  BY InitAllInv
<1>2. AllInv /\ [Next]_vars => AllInv'
  <2>1. ASSUME AllInv, [Next]_vars PROVE AllInv'
    <3>1. IInv' /\ Preserved
      BY <2>1, NextIInv, NextDoes DEF AllInv
    <3> QED
      BY <3>1 DEF AllInv, Preserved
  <2> QED
    BY <2>1
<1> QED
  BY <1>1, <1>2, PTL DEF Spec

\* A constant expression leaves nothing behind: between compilations the runtime
\* on EvaluateExpression's stack has no page, whatever failed.
THEOREM ScratchAlwaysEmpty == Spec => []ScratchRuntimeEmpty
<1>1. AllInv => ScratchRuntimeEmpty
  BY DEF AllInv, CInv, EmptyRuntime, ScratchRuntimeEmpty
<1> QED
  BY <1>1, CodeInvariance, PTL

\* Code in use does not change: whatever is compiled, linked, given up or freed
\* meanwhile, on shared pages or in shared lists, the words of a function stay
\* what they are until it is compiled again or its runtime is freed.
THEOREM CompiledCodeStable == Spec => CodeStable
<1> DEFINE A == \A f \in DOMAIN compiled :
       compiled[f] # NULL /\ compiled'[f] = compiled[f] =>
         \A p \in Page : \A i \in 1 .. Len(pool.code[p]) :
           pool.code[p][i].job = compiled[f].job =>
             i <= Len(pool'.code[p]) /\ pool'.code[p][i] = pool.code[p][i]
<1>1. AllInv /\ [Next]_vars => [A]_vars
  <2>1. ASSUME AllInv, [Next]_vars PROVE A
    <3>1. Stable
      BY <2>1, NextDoes DEF Preserved
    <3> SUFFICES ASSUME NEW f \in DOMAIN compiled, compiled[f] # NULL,
                        compiled'[f] = compiled[f], NEW p \in Page,
                        NEW i \in 1 .. Len(pool.code[p]),
                        pool.code[p][i].job = compiled[f].job
                 PROVE  i <= Len(pool'.code[p]) /\ pool'.code[p][i] = pool.code[p][i]
      OBVIOUS
    <3>2. i \in Lines(pool', p) /\ pool'.code[p][i] = pool.code[p][i]
      BY <3>1 DEF Stable, Keeps, Lines
    <3> QED
      BY <3>2 DEF Lines
  <2> QED
    BY <2>1
<1> QED
  BY <1>1, CodeInvariance, PTL DEF Spec, CodeStable

\* As long as no error of EmitOp has been dropped, every statement begins with
\* room for a bridge on each page in use, and no page is written past its end.
THEOREM RoomOnEveryPage == Spec => []RoomUnlessIgnored
<1>1. ASSUME AllInv PROVE RoomUnlessIgnored
  <2> SUFFICES ASSUME ~ignored PROVE RoomForBridge /\ NoOverrun
    BY DEF RoomUnlessIgnored
  <2>1. Fits(pool) /\ (o # NULL => RoomFor(pool, o.page, o.scopes)) /\ pool \in PoolType
    BY <1>1 DEF AllInv, IInv, SInv, Good
  <2>2. RoomForBridge
    <3> SUFFICES ASSUME o # NULL
                 PROVE  HasRoom(o.page) /\ \A i \in Saved : HasRoom(o.scopes[i].saved)
      BY DEF RoomForBridge
    <3>1. /\ NumFreeLines(pool, o.page) >= 2
          /\ \A q \in HeldPages(o.scopes) : NumFreeLines(pool, q) >= 2
      BY <2>1 DEF RoomFor
    <3>2. \A i \in Saved : o.scopes[i].saved \in HeldPages(o.scopes)
      BY HeldElements DEF Saved, Top
    <3> QED
      BY <3>1, <3>2 DEF HasRoom
  <2>3. NoOverrun
    <3> SUFFICES ASSUME NEW p \in Page PROVE ~(Len(pool.code[p]) > pool.numLines[p])
      BY DEF NoOverrun, Overrun
    <3>1. NumFreeLines(pool, p) >= 0 /\ Len(pool.code[p]) \in Nat /\ pool.numLines[p] \in Nat
      BY <2>1, PoolFacts DEF Fits
    <3> QED
      BY <3>1 DEF NumFreeLines
  <2> QED
    BY <2>2, <2>3
<1> QED
  BY <1>1, CodeInvariance, PTL

\* Control in a compiled function stays in it: its first line, the line below
\* each word that falls through and the target of each pointer are words of the
\* same job, on pages that have not been wiped, and no pointer is left
\* unpatched, for any nesting of blocks, branch tables and else parts.
THEOREM CodeAlwaysIntact == Spec => []CompiledCodeIntact
<1>1. ASSUME AllInv PROVE CompiledCodeIntact
  <2>1. /\ Finished(pool, compiled, job) /\ pool \in PoolType /\ Good(pool)
        /\ compiled \in CompiledType
    BY <1>1 DEF AllInv, IInv, CInv, Good, CompiledType
  <2>2. \A pc, j : EmittedIn(pool, pc, j) => Emitted(pc, j)
    BY DEF EmittedIn, Emitted, Lines
  <2> SUFFICES ASSUME NEW f \in DOMAIN compiled, compiled[f] # NULL
               PROVE  Emitted(compiled[f].pc, compiled[f].job) /\ CodeIntact(compiled[f].job)
    BY DEF CompiledCodeIntact
  <2> DEFINE j == compiled[f].job
  <2>3. EmittedIn(pool, compiled[f].pc, j) /\ Sound(pool, j, {}, {})
    BY <2>1 DEF Finished
  <2> HIDE DEF j
  <2>4. \A pc : Reached(pool, j, {}, pc) => Emitted(pc, j)
    BY <2>2 DEF Reached
  <2>5. CodeIntact(j)
    <3> SUFFICES ASSUME NEW p \in Page, NEW i \in 1 .. Len(pool.code[p]),
                        pool.code[p][i].job = j
                 PROVE  LET w == pool.code[p][i] IN
                        /\ w.falls => Emitted(<<p, i + 1>>, j)
                        /\ w.to # Unpatched
                        /\ w.to # NULL => Emitted(w.to, j)
      BY DEF CodeIntact
    <3> DEFINE w == pool.code[p][i]
    <3>1. i \in Lines(pool, p)
      BY DEF Lines
    <3>2. w \in Word
      BY <2>1, <3>1, PoolFacts
    <3>3. /\ w.falls => Reached(pool, j, {}, <<p, i + 1>>)
          /\ w.to = Unpatched => <<p, i>> \in {}
          /\ w.to \in PC => Reached(pool, j, {}, w.to)
      BY <2>3, <3>1 DEF Sound
    <3> HIDE DEF w
    <3>4. w.to \in PC \/ w.to = NULL \/ w.to = Unpatched
      BY <3>2 DEF Word
    <3>5. w.to # Unpatched
      BY <3>3
    <3>6. w.to # NULL => Emitted(w.to, j)
      BY <2>4, <3>3, <3>4, <3>5
    <3>7. w.falls => Emitted(<<p, i + 1>>, j)
      BY <2>4, <3>3
    <3> QED
      BY <3>5, <3>6, <3>7 DEF w
  <2> QED
    BY <2>2, <2>3, <2>5 DEF j
<1> QED
  BY <1>1, CodeInvariance, PTL
=============================================================================
