------------------------------ MODULE CodePages ------------------------------
(***************************************************************************)
(* The code pages of m3_code.c and the page lists of m3_env.c.             *)
(*                                                                         *)
(* Compiled code lives in pages of fixed size.  A page is on exactly one   *)
(* list (the environment's pagesReleased, or the pagesOpen or pagesFull of *)
(* one runtime), or it is active: a compilation acquired it and has not    *)
(* released it, and only a local variable of the compiler points to it.    *)
(*                                                                         *)
(* The C code calls several of these functions within one handler, so they *)
(* are operators on the whole pool of pages here: each takes the pool and  *)
(* gives the pool it leaves, or the set of the outcomes it may have.       *)
(* malloc may fail, so acquiring a page may have two.                      *)
(***************************************************************************)
EXTENDS Integers, Sequences, SequencesExt

CONSTANTS
  Runtime,      \* the M3Runtime objects that share the environment
  MaxPages,     \* bound: the pages malloc gives in a behaviour
  AlignLines,   \* d_m3CodePageAlignSize, in lines of sizeof (code_t)
  HeaderLines,  \* sizeof (M3CodePageHeader), in lines
  NULL,
  Unpatched     \* what a pointer holds until the line it leads to is known

\* A page is named by its info.sequence.
Page == 1 .. MaxPages

\* A pc_t: a line of a page.  Lines are numbered from 1.
PC == Page \X (Nat \ {0})

ASSUME PageAssumption ==
  /\ MaxPages \in Nat \ {0}
  /\ AlignLines \in Nat \ {0}
  /\ HeaderLines \in Nat
  /\ NULL # Unpatched /\ NULL \notin PC /\ Unpatched \notin PC

\* d_m3CodePageFreeLinesThreshold
FreeLinesThreshold == 4 + 2

\* The heads of the linked lists of pages.
Released == <<"pagesReleased">>
Open(r)  == <<"pagesOpen", r>>
Full(r)  == <<"pagesFull", r>>
List == {Released} \cup {Open(r) : r \in Runtime} \cup {Full(r) : r \in Runtime}

(***************************************************************************)
(* A word of a code page.  What matters is who emitted it and where        *)
(* control can go from it: to the line below it, to the line it points to. *)
(* `job' numbers the compilation (or the linking) that emitted the word.   *)
(***************************************************************************)
Word == [job : Nat, falls : BOOLEAN, to : PC \cup {NULL, Unpatched}]

EmptyPool ==
  [ list               |-> [l \in List |-> <<>>],
    code               |-> [p \in Page |-> <<>>],    \* lines 1 .. lineIndex
    numLines           |-> [p \in Page |-> 0],       \* 0: not malloc'ed
    sequence           |-> 0,                        \* s_sequence
    numCodePages       |-> [r \in Runtime |-> 0],
    numActiveCodePages |-> [r \in Runtime |-> 0],
    \* Which pages the counter counts; no field of the program holds them.
    active             |-> [r \in Runtime |-> {}] ]

PoolType ==
  [ list               : [List -> Seq(Page)],
    code               : [Page -> Seq(Word)],
    numLines           : [Page -> Nat],
    sequence           : 0 .. MaxPages,
    numCodePages       : [Runtime -> Nat],
    numActiveCodePages : [Runtime -> Int],
    active             : [Runtime -> SUBSET Page] ]

NumFreeLines(s, p) == s.numLines[p] - Len(s.code[p])

\* Mutant of GetPagePC: the last line written instead of the next.
GetPagePCOfLastLine(s, p) == <<p, Len(s.code[p])>>

\* GetPagePC: the line the next word of page p goes to.
GetPagePC(s, p) == <<p, Len(s.code[p]) + 1>>

\* The line the last word of page p went to.
LastPC(s, p) == <<p, Len(s.code[p])>>

EmitWords(s, p, words) == [s EXCEPT !.code[p] = @ \o words]

\* * (pc_t *) pc = target, for every pointer of a set.
SetPointers(s, pcs, target) ==
  [s EXCEPT !.code =
     [p \in Page |-> [i \in 1 .. Len(s.code[p]) |->
        IF <<p, i>> \in pcs THEN [s.code[p][i] EXCEPT !.to = target]
                            ELSE s.code[p][i]]]]

-----------------------------------------------------------------------------
\* Lines of a page malloc'ed for n lines: the size is aligned upwards.
PageLines(n) ==
  AlignLines * ((HeaderLines + n + AlignLines - 1) \div AlignLines) - HeaderLines

\* An outcome of acquiring a page: the page, or NULL, and the pool.
Outcome(s, p) == [pool |-> s, page |-> p]

\* Where RemoveCodePageOfCapacity stops: the first page of the list with room.
FirstFit(s, l, n) ==
  {i \in 1 .. Len(s.list[l]) :
     /\ NumFreeLines(s, s.list[l][i]) >= n
     /\ \A j \in 1 .. (i - 1) : NumFreeLines(s, s.list[l][j]) < n}

\* Mutants of RemoveCodePageOfCapacity: the page stays linked; the page is
\* wiped when it is taken and not when it is given back.
RemoveCodePageNotUnlinked(s, l, n) ==
  {Outcome(s, s.list[l][i]) : i \in FirstFit(s, l, n)}

RemoveCodePageWiped(s, l, n) ==
  {Outcome([s EXCEPT !.list[l] = RemoveAt(@, i), !.code[s.list[l][i]] = <<>>],
           s.list[l][i]) : i \in FirstFit(s, l, n)}

RemoveCodePageOfCapacity(s, l, n) ==
  {Outcome([s EXCEPT !.list[l] = RemoveAt(@, i)], s.list[l][i]) :
     i \in FirstFit(s, l, n)}

NewCodePage(s, n) ==
  IF s.sequence < MaxPages
  THEN {Outcome([s EXCEPT !.sequence = @ + 1,
                          !.numLines[s.sequence + 1] = PageLines(n)],
                s.sequence + 1)}
  ELSE {}

\* Mutant of Activate: a page of the runtime's own is counted again.
ActivateCountingAgain(s, r, p, owned) ==
  [s EXCEPT !.numCodePages[r]       = @ + 1,
            !.numActiveCodePages[r] = @ + 1,
            !.active[r]             = @ \cup {p}]

\* numCodePages and numActiveCodePages after the page is found.
Activate(s, r, p, owned) ==
  [s EXCEPT !.numCodePages[r]       = @ + owned,
            !.numActiveCodePages[r] = @ + 1,
            !.active[r]             = @ \cup {p}]

AcquireCodePageWithCapacity(s, r, n) ==
  LET open     == RemoveCodePageOfCapacity(s, Open(r), n)
      released == RemoveCodePageOfCapacity(s, Released, n)
      new      == IF released # {} THEN released ELSE NewCodePage(s, n)
      failed   == IF released # {} THEN {} ELSE {Outcome(s, NULL)}
  IN  IF open # {}
      THEN {Outcome(Activate(a.pool, r, a.page, 0), a.page) : a \in open}
      ELSE failed \cup {Outcome(Activate(a.pool, r, a.page, 1), a.page) : a \in new}

AcquireCodePage(s, r) == AcquireCodePageWithCapacity(s, r, FreeLinesThreshold)

\* ReleaseCodePageNoTrack and the counter.
ReleaseCodePage(s, r, p) ==
  LET l == IF NumFreeLines(s, p) < FreeLinesThreshold THEN Full(r) ELSE Open(r)
  IN  [s EXCEPT !.list[l]               = <<p>> \o @,
                !.numActiveCodePages[r] = @ - 1,
                !.active[r]             = @ \ {p}]

\* The pages of list l are wiped and go to the front of pagesReleased.
Environment_ReleaseCodePages(s, l) ==
  [s EXCEPT !.list = [s.list EXCEPT ![Released] = s.list[l] \o s.list[Released],
                                    ![l] = <<>>],
            !.code = [p \in Page |->
                        IF \E i \in 1 .. Len(s.list[l]) : s.list[l][i] = p
                        THEN <<>> ELSE s.code[p]]]

\* The M3Runtime is freed: its counters go with it, and a page still active
\* has no owner from then on.
Runtime_Release(s, r) ==
  [Environment_ReleaseCodePages(Environment_ReleaseCodePages(s, Open(r)), Full(r))
     EXCEPT !.numCodePages[r] = 0, !.numActiveCodePages[r] = 0, !.active[r] = {}]

\* FreeCodePages (& pagesReleased).  A freed page never comes back.
Environment_Release(s) ==
  [s EXCEPT !.numLines = [p \in Page |->
                            IF \E i \in 1 .. Len(s.list[Released]) :
                                 s.list[Released][i] = p
                            THEN 0 ELSE s.numLines[p]],
            !.list[Released] = <<>>]

-----------------------------------------------------------------------------
(* The invariant of the pool, in parts.                                    *)

\* Every page is in one place: at one position of one list, or active for one
\* runtime; and only pages that malloc gave are anywhere.
OnePlace(s) ==
  /\ \A l, m \in List : \A i \in 1 .. Len(s.list[l]), j \in 1 .. Len(s.list[m]) :
       s.list[l][i] = s.list[m][j] => l = m /\ i = j
  /\ \A l \in List : \A i \in 1 .. Len(s.list[l]) : \A r \in Runtime :
       s.list[l][i] \notin s.active[r]
  /\ \A q, r \in Runtime : \A p \in s.active[q] : p \in s.active[r] => q = r
  /\ \A l \in List : \A i \in 1 .. Len(s.list[l]) : s.list[l][i] <= s.sequence
  /\ \A r \in Runtime : \A p \in s.active[r] : p <= s.sequence

\* numOpen + numFull + numActiveCodePages == numCodePages
CountersAgreeOn(s) ==
  \A r \in Runtime :
    Len(s.list[Open(r)]) + Len(s.list[Full(r)]) + s.numActiveCodePages[r]
      = s.numCodePages[r]
=============================================================================
