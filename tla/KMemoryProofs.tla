---------------------------- MODULE KMemoryProofs ----------------------------
(***************************************************************************)
(* Proofs about the kernel's memory, for every memory map, page size, size *)
(* of a page table, number of processes and bound on the objects.          *)
(***************************************************************************)
EXTENDS KMemory, FiniteSetTheorems, SequenceTheorems, WellFoundedInduction, TLAPS

-----------------------------------------------------------------------------
(***************************************************************************)
(* The page manager KPmm alone.  The invariants the runs check are not     *)
(* inductive: that a fresh run avoids the reserved pages needs the fact    *)
(* that these are always marked used (ReservedStays), and that freeing     *)
(* keeps them marked needs HandedOutOnce.                                  *)
(***************************************************************************)
ReservedStays == Reserved \subseteq pmm_bitmap

IndInv == TypeOK /\ UsedExact /\ HandedOutOnce /\ ReservedStays

\* There are finitely many pages, so every bitmap has a cardinality.
LEMMA PageFinite == IsFiniteSet(Page)
  BY PageAssumption, FS_Interval DEF Page

LEMMA BitmapFinite ==
  ASSUME NEW S, S \subseteq Page
  PROVE  IsFiniteSet(S) /\ Cardinality(S) \in Nat
  BY PageFinite, FS_Subset, FS_CardinalityType

\* A run of n pages has n pages.
LEMMA RunSize ==
  ASSUME NEW s \in Nat, NEW n \in Nat
  PROVE  IsFiniteSet(Run(s, n)) /\ Cardinality(Run(s, n)) = n
<1>1. s \in Int /\ s + n - 1 \in Int
  OBVIOUS
<1>2. IsFiniteSet(s .. s + n - 1)
      /\ Cardinality(s .. s + n - 1) = IF s <= s + n - 1 THEN (s + n - 1) - s + 1 ELSE 0
  BY <1>1, FS_Interval
<1> QED BY <1>2 DEF Run

LEMMA PageNat == Page \subseteq Nat
  BY PageAssumption DEF Page

\* pmm_init leaves a bitmap of pages and counts its bits.
LEMMA InitIndInv == Init => IndInv
<1> SUFFICES ASSUME Init PROVE IndInv
  OBVIOUS
<1>1. Reserved \subseteq Page
  BY DEF Reserved
<1>2. Cardinality(Reserved) \in Nat
  BY <1>1, BitmapFinite
<1>3. TypeOK
  BY <1>1, <1>2 DEF Init, TypeOK
<1>4. UsedExact
  BY DEF Init, UsedExact
<1>5. HandedOutOnce
  BY DEF Init, HandedOutOnce
<1>6. ReservedStays
  BY DEF Init, ReservedStays
<1> QED BY <1>3, <1>4, <1>5, <1>6 DEF IndInv

\* pmm_alloc_pages: the run found is free, so it is new to every caller.
LEMMA AllocStep ==
  ASSUME IndInv, NEW n \in 1 .. MaxRun, pmm_alloc_pages(n)
  PROVE  IndInv'
<1> USE RunAssumption
<1>1. PICK s \in Page : /\ pmm_find_contiguous(s, n)
                        /\ pmm_bitmap' = pmm_bitmap \cup Run(s, n)
                        /\ pmm_used_pages' = pmm_used_pages + n
                        /\ held' = held \cup {<<s, n>>}
  BY DEF pmm_alloc_pages
<1>2. s \in Nat /\ n \in Nat /\ n >= 1
  BY PageNat
<1>3. Run(s, n) \subseteq Page /\ Run(s, n) \cap pmm_bitmap = {}
  BY <1>1 DEF pmm_find_contiguous, IsFit
<1>4. s \in Run(s, n)
  BY <1>2 DEF Run
<1>5. TypeOK'
  <2>1. pmm_bitmap' \subseteq Page
    BY <1>1, <1>3 DEF IndInv, TypeOK
  <2>2. pmm_used_pages' \in Nat
    BY <1>1, <1>2 DEF IndInv, TypeOK
  <2>3. held' \subseteq Page \X (1 .. MaxRun)
    BY <1>1 DEF IndInv, TypeOK
  <2> QED BY <2>1, <2>2, <2>3 DEF TypeOK
<1>6. UsedExact'
  <2>1. IsFiniteSet(pmm_bitmap) /\ IsFiniteSet(Run(s, n)) /\ Cardinality(Run(s, n)) = n
    BY <1>2, RunSize, BitmapFinite DEF IndInv, TypeOK
  <2>2. Cardinality(pmm_bitmap \cup Run(s, n))
          = Cardinality(pmm_bitmap) + Cardinality(Run(s, n)) - Cardinality(pmm_bitmap \cap Run(s, n))
    BY <2>1, FS_Union
  <2>3. Cardinality(pmm_bitmap \cap Run(s, n)) = 0
    <3>1. pmm_bitmap \cap Run(s, n) = {}
      BY <1>3
    <3> QED BY <3>1, FS_EmptySet
  <2>4. Cardinality(pmm_bitmap) \in Nat
    BY BitmapFinite DEF IndInv, TypeOK
  <2> QED BY <1>1, <1>2, <2>1, <2>2, <2>3, <2>4 DEF IndInv, UsedExact
<1>7. HandedOutOnce'
  <2> SUFFICES ASSUME NEW r \in held'
               PROVE  /\ Run(r[1], r[2]) \subseteq pmm_bitmap'
                      /\ Run(r[1], r[2]) \cap Reserved = {}
                      /\ \A q \in held' : q # r => Run(r[1], r[2]) \cap Run(q[1], q[2]) = {}
    BY DEF HandedOutOnce, Reserved, Run, Cleared, Page
  <2>1. \A q \in held : /\ Run(q[1], q[2]) \subseteq pmm_bitmap
                        /\ Run(q[1], q[2]) \cap Reserved = {}
                        /\ \A p \in held : p # q => Run(q[1], q[2]) \cap Run(p[1], p[2]) = {}
    BY DEF IndInv, HandedOutOnce
  <2>2. <<s, n>>[1] = s /\ <<s, n>>[2] = n
    OBVIOUS
  <2>3. Run(s, n) \cap Reserved = {}
    BY <1>3 DEF IndInv, ReservedStays
  <2>4. CASE r = <<s, n>>
    BY <1>1, <1>3, <2>1, <2>2, <2>3, <2>4
  <2>5. CASE r \in held
    BY <1>1, <1>3, <2>1, <2>2, <2>5
  <2> QED BY <1>1, <2>4, <2>5
<1>8. ReservedStays'
  BY <1>1 DEF IndInv, ReservedStays, Reserved, Cleared, Page
<1> QED BY <1>5, <1>6, <1>7, <1>8 DEF IndInv

\* pmm_free_pages, whatever it is given: the counter follows the bitmap.
LEMMA FreeCounts ==
  ASSUME TypeOK, UsedExact, NEW s, NEW n, pmm_free_pages(s, n)
  PROVE  TypeOK' /\ UsedExact'
<1> DEFINE freed == Run(s, n) \cap Page \cap pmm_bitmap
<1>1. /\ pmm_bitmap' = pmm_bitmap \ freed
      /\ pmm_used_pages' = pmm_used_pages - Cardinality(freed)
      /\ held' = held \ {<<s, n>>}
  BY DEF pmm_free_pages
<1>2. freed \subseteq pmm_bitmap
  OBVIOUS
<1> HIDE DEF freed
<1>3. IsFiniteSet(pmm_bitmap)
  BY BitmapFinite DEF TypeOK
<1>4. pmm_bitmap \cap freed = freed
  BY <1>2
<1>5. Cardinality(pmm_bitmap \ freed) = Cardinality(pmm_bitmap) - Cardinality(freed)
  BY <1>3, <1>4, FS_Difference
<1>6. pmm_bitmap' \subseteq Page
  BY <1>1 DEF TypeOK
<1>7. Cardinality(pmm_bitmap') \in Nat
  BY <1>6, BitmapFinite
<1>8. UsedExact'
  BY <1>1, <1>5 DEF UsedExact
<1>9. TypeOK'
  BY <1>1, <1>6, <1>7, <1>8 DEF TypeOK, UsedExact
<1> QED BY <1>8, <1>9

\* Giving back a run leaves the other runs and the reserved pages alone.
LEMMA FreeHeldStep == ASSUME IndInv, free_held PROVE IndInv'
<1>1. PICK r \in held : pmm_free_pages(r[1], r[2])
  BY DEF free_held
<1>2. TypeOK' /\ UsedExact'
  BY <1>1, FreeCounts DEF IndInv
<1>3. r = <<r[1], r[2]>>
  BY DEF IndInv, TypeOK
<1>4. held' = held \ {r} /\ pmm_bitmap' = pmm_bitmap \ (Run(r[1], r[2]) \cap Page \cap pmm_bitmap)
  BY <1>1, <1>3 DEF pmm_free_pages
<1>5. \A q \in held : /\ Run(q[1], q[2]) \subseteq pmm_bitmap
                      /\ Run(q[1], q[2]) \cap Reserved = {}
                      /\ \A p \in held : p # q => Run(q[1], q[2]) \cap Run(p[1], p[2]) = {}
  BY DEF IndInv, HandedOutOnce
<1>6. ReservedStays'
  <2>1. Reserved \subseteq pmm_bitmap'
    BY <1>4, <1>5 DEF IndInv, ReservedStays
  <2> QED BY <2>1 DEF ReservedStays, Reserved, Cleared, Page
<1>7. HandedOutOnce'
  <2>1. \A q \in held' : /\ Run(q[1], q[2]) \subseteq pmm_bitmap'
                         /\ Run(q[1], q[2]) \cap Reserved = {}
                         /\ \A p \in held' : p # q => Run(q[1], q[2]) \cap Run(p[1], p[2]) = {}
    BY <1>4, <1>5
  <2> QED BY <2>1 DEF HandedOutOnce, Reserved, Run, Cleared, Page
<1> QED BY <1>2, <1>6, <1>7 DEF IndInv

\* A second free of a free page changes nothing.
LEMMA FreeAgainStep == ASSUME IndInv, free_again PROVE IndInv'
<1>1. PICK p \in Page \ pmm_bitmap : pmm_free_pages(p, 1)
  BY DEF free_again
<1>2. TypeOK' /\ UsedExact'
  BY <1>1, FreeCounts DEF IndInv
<1>3. Run(p, 1) = {p}
  BY PageNat DEF Run
<1>4. pmm_bitmap' = pmm_bitmap /\ held' \subseteq held
  BY <1>1, <1>3 DEF pmm_free_pages
<1>5. \A q \in held : /\ Run(q[1], q[2]) \subseteq pmm_bitmap
                      /\ Run(q[1], q[2]) \cap Reserved = {}
                      /\ \A r \in held : r # q => Run(q[1], q[2]) \cap Run(r[1], r[2]) = {}
  BY DEF IndInv, HandedOutOnce
<1>6. ReservedStays'
  BY <1>4 DEF IndInv, ReservedStays, Reserved, Cleared, Page
<1>7. HandedOutOnce'
  BY <1>4, <1>5 DEF HandedOutOnce, Reserved, Run, Cleared, Page
<1> QED BY <1>2, <1>6, <1>7 DEF IndInv

LEMMA StutterStep == ASSUME IndInv, UNCHANGED vars PROVE IndInv'
  BY DEF vars, IndInv, TypeOK, UsedExact, HandedOutOnce, ReservedStays, Reserved, Cleared, Page, Run

\* The inductive invariant of the page manager.
THEOREM IndInvHolds == Spec => []IndInv
<1>1. Init => IndInv
  BY InitIndInv
<1>2. IndInv /\ [Next]_vars => IndInv'
  BY AllocStep, FreeHeldStep, FreeAgainStep, StutterStep DEF Next
<1> QED BY <1>1, <1>2, PTL DEF Spec

\* The bitmap and the counter keep their types (kmalloc.c, pmm_*).
THEOREM TypeCorrect == Spec => []TypeOK
<1>1. IndInv => TypeOK
  BY DEF IndInv
<1> QED BY <1>1, IndInvHolds, PTL

\* pmm_used_pages is the number of bits set, so pmm_get_free_pages is right
\* and never wraps below zero.
THEOREM CounterExact == Spec => []UsedExact
<1>1. IndInv => UsedExact
  BY DEF IndInv
<1> QED BY <1>1, IndInvHolds, PTL

\* No page is handed to two callers, and none that pmm_init reserved.
THEOREM NoPageTwice == Spec => []HandedOutOnce
<1>1. IndInv => HandedOutOnce
  BY DEF IndInv
<1> QED BY <1>1, IndInvHolds, PTL

-----------------------------------------------------------------------------
(***************************************************************************)
(* A memory and what the page manager promises of it.                      *)
(***************************************************************************)
Runs    == Page \X (Nat \ {0})
Tables  == [Page -> [Idx -> Page]]
Memory  == [bm : SUBSET Page, used : Nat, held : SUBSET Runs, mem : Tables]

Private(r, hs) == \A q \in hs : q # r => Run(r[1], r[2]) \cap Run(q[1], q[2]) = {}
PmmOK(m) ==
  /\ m.used = Cardinality(m.bm)
  /\ Reserved \subseteq m.bm
  /\ \A r \in m.held : Run(r[1], r[2]) \subseteq m.bm \ Reserved
  /\ \A r \in m.held : Private(r, m.held)

(***************************************************************************)
(* The pages of the address space with top table c, and what makes it a    *)
(* tree: no page is there twice.  A space without a top table is empty.    *)
(***************************************************************************)
IsTable(t, c, x)   == \E i \in Idx : x = t[c][i]
IsLeaf(t, c, x)    == \E i, j \in Idx : t[c][i] # 0 /\ x = t[t[c][i]][j]
InTree(t, c, x)    == c # 0 /\ x # 0 /\ (x = c \/ IsTable(t, c, x) \/ IsLeaf(t, c, x))

TableOnce(t, c) == \A i, j \in Idx : t[c][i] # 0 /\ t[c][i] = t[c][j] => i = j
TopOnce(t, c)   == ~IsTable(t, c, c) /\ ~IsLeaf(t, c, c)
LeafNoTable(t, c) == \A x : x # 0 /\ IsTable(t, c, x) => ~IsLeaf(t, c, x)
LeafOnce(t, c)  ==
  \A i, j, k, l \in Idx : /\ t[c][i] # 0 /\ t[c][k] # 0 /\ t[t[c][i]][j] # 0
                          /\ t[t[c][i]][j] = t[t[c][k]][l]
                          => i = k /\ j = l
IsTree(t, c) == c # 0 => TableOnce(t, c) /\ TopOnce(t, c) /\ LeafNoTable(t, c) /\ LeafOnce(t, c)

SpaceOK(m, c) == IsTree(m.mem, c) /\ \A x \in Page : InTree(m.mem, c, x) => <<x, 1>> \in m.held

(***************************************************************************)
(* What a system call of the process with top table c keeps: the page      *)
(* manager and the process's own tree are in order, and the runs of h,     *)
(* which are those of everybody else, stay held, outside the tree and as   *)
(* they were in f.                                                         *)
(***************************************************************************)
Keeps(m, c, h, f) ==
  /\ m \in Memory /\ PmmOK(m) /\ SpaceOK(m, c)
  /\ \A r \in h : /\ r \in m.held /\ ~InTree(m.mem, c, r[1])
                  /\ \A x \in Run(r[1], r[2]) : m.mem[x] = f[x]

\* A page that the system call has just obtained.
Fresh(m, c, h, pg) == pg \in Page \ {0} /\ <<pg, 1>> \in m.held /\ <<pg, 1>> \notin h /\ ~InTree(m.mem, c, pg)

-----------------------------------------------------------------------------
(* A set of numbers that is not empty has a smallest one. *)
LEMMA SmallestNat ==
  ASSUME NEW T, T \subseteq Nat, T # {}
  PROVE  \E x \in T : \A y \in T : x <= y
  <1> DEFINE Lt == OpToRel(<, Nat)
  <1>1. IsWellFoundedOn(Lt, Nat)
    BY NatLessThanWellFounded
  <1>2. \A x, y \in Nat : x < y => <<x, y>> \in Lt
    BY DEF OpToRel
  <1> HIDE DEF Lt
  <1>3. PICK x \in T : \A y \in T : ~(<<y, x>> \in Lt)
    BY <1>1, WFMin
  <1>4. ASSUME NEW y \in T PROVE x <= y
    <2>1. x \in Nat /\ y \in Nat
      OBVIOUS
    <2>2. ~(y < x)
      BY <2>1, <1>2, <1>3, Zenon
    <2> QED BY <2>1, <2>2
  <1> QED BY <1>4

LEMMA MinIsIn ==
  ASSUME NEW T, T \subseteq Nat, T # {}
  PROVE  Min(T) \in T /\ \A y \in T : Min(T) <= y
  BY SmallestNat, Zenon DEF Min

(***************************************************************************)
(* The loops of the model are functions of the number of rounds done.      *)
(* Such a function exists when each round maps a set S into itself, and    *)
(* what holds at the start and is kept by a round holds after all.         *)
(***************************************************************************)
IsLoop(f, start, step, n) == f = [k \in 0 .. n |-> IF k = 0 THEN start ELSE step[<<f[k - 1], k>>]]

LEMMA LoopExists ==
  ASSUME NEW S, NEW start \in S, NEW n \in Nat, NEW step,
         \A x \in S : \A k \in 1 .. n : step[<<x, k>>] \in S
  PROVE  \E f : IsLoop(f, start, step, n) /\ \A k \in 0 .. n : f[k] \in S
  <1> USE DEF IsLoop
  <1> DEFINE Is(f, m) == /\ f = [k \in 0 .. m |-> IF k = 0 THEN start ELSE step[<<f[k - 1], k>>]]
                         /\ \A k \in 0 .. m : f[k] \in S
             T == {m \in 0 .. n : ~ \E f : Is(f, m)}
  <1>1. SUFFICES ASSUME T # {} PROVE FALSE
    <2>1. n \in 0 .. n
      OBVIOUS
    <2> QED BY <2>1
  <1>2. PICK m \in T : \A k \in T : m <= k
    <2>1. T \subseteq Nat
      OBVIOUS
    <2> HIDE DEF T
    <2> QED BY <1>1, <2>1, SmallestNat
  <1>3. m # 0
    <2>1. SUFFICES ASSUME m = 0 PROVE \E f : Is(f, 0)
      BY <1>2
    <2>2. Is([k \in 0 .. 0 |-> start], 0)
      OBVIOUS
    <2> QED BY <2>2
  <1>4. m \in 1 .. n /\ m - 1 \in 0 .. n /\ m - 1 \notin T
    <2>1. m \in 0 .. n
      BY <1>2
    <2> HIDE DEF T
    <2> QED BY <1>2, <1>3, <2>1
  <1>5. PICK f : Is(f, m - 1)
    BY <1>4
  <1> DEFINE g == [k \in 0 .. m |-> IF k = m THEN step[<<f[m - 1], m>>] ELSE f[k]]
  <1>6. \A k \in 0 .. m : g[k] \in S /\ g[k] = IF k = 0 THEN start ELSE step[<<g[k - 1], k>>]
    <2> SUFFICES ASSUME NEW k \in 0 .. m
                 PROVE  g[k] \in S /\ g[k] = IF k = 0 THEN start ELSE step[<<g[k - 1], k>>]
      OBVIOUS
    <2>1. CASE k = m
      <3>1. m - 1 \in 0 .. m /\ m - 1 # m /\ m - 1 \in 0 .. m - 1
        BY <1>4
      <3>2. f[m - 1] \in S
        BY <1>5, <3>1
      <3>3. g[m - 1] = f[m - 1] /\ g[m] = step[<<f[m - 1], m>>]
        BY <1>4, <3>1
      <3>4. step[<<f[m - 1], m>>] \in S
        BY <1>4, <3>2
      <3> HIDE DEF g
      <3> QED BY <1>3, <2>1, <3>3, <3>4
    <2>2. CASE k = 0
      BY <1>3, <1>4, <1>5, <2>2
    <2>3. CASE k \in 1 .. m - 1
      <3>1. k \in 0 .. m - 1 /\ k - 1 \in 0 .. m /\ k # m /\ k - 1 # m /\ k # 0
        BY <1>4, <2>3
      <3>2. f[k] = step[<<f[k - 1], k>>] /\ f[k] \in S
        BY <1>5, <3>1
      <3>3. g[k] = f[k] /\ g[k - 1] = f[k - 1]
        BY <3>1
      <3> HIDE DEF g
      <3> QED BY <3>1, <3>2, <3>3
    <2> QED BY <1>4, <2>1, <2>2, <2>3
  <1>7. Is(g, m)
    <2>1. g = [k \in 0 .. m |-> g[k]]
      OBVIOUS
    <2> HIDE DEF g
    <2>2. [k \in 0 .. m |-> g[k]] = [k \in 0 .. m |-> IF k = 0 THEN start ELSE step[<<g[k - 1], k>>]]
      BY <1>6
    <2> QED BY <1>6, <2>1, <2>2
  <1> QED BY <1>2, <1>7

LEMMA UpTo ==
  ASSUME NEW n \in Nat, NEW T, 0 \in T, \A k \in 1 .. n : k - 1 \in T => k \in T
  PROVE  \A k \in 0 .. n : k \in T
  <1> DEFINE B == {k \in 0 .. n : k \notin T}
  <1>1. SUFFICES ASSUME B # {} PROVE FALSE
    OBVIOUS
  <1>2. PICK k \in B : \A j \in B : k <= j
    <2>1. B \subseteq Nat
      OBVIOUS
    <2> HIDE DEF B
    <2> QED BY <1>1, <2>1, SmallestNat
  <1>3. k \in 0 .. n /\ k \notin T /\ k # 0
    BY <1>2
  <1>4. k \in 1 .. n /\ k - 1 \in 0 .. n /\ k - 1 < k
    BY <1>3
  <1>5. k - 1 \in T
    BY <1>2, <1>4
  <1> QED BY <1>3, <1>4, <1>5

-----------------------------------------------------------------------------
(***************************************************************************)
(* One call on the page manager.                                           *)
(***************************************************************************)
LEMMA ZeroPage == 0 \in Reserved /\ 0 \in Page /\ Reserved \subseteq Page /\ Zero \in [Idx -> Page]
  <1>1. 0 \in Reserved /\ Reserved \subseteq Page
    BY SpaceAssumption DEF Reserved
  <1>2. Zero \in [Idx -> Page]
    BY <1>1 DEF Zero
  <1> QED BY <1>1, <1>2

LEMMA MemoryFields ==
  ASSUME NEW m \in Memory
  PROVE  m.bm \subseteq Page /\ m.used \in Nat /\ m.held \subseteq Runs /\ m.mem \in Tables
  BY DEF Memory

\* A held page is marked used, and no other run has it.
LEMMA HeldPage ==
  ASSUME NEW m \in Memory, PmmOK(m), NEW x \in Page, <<x, 1>> \in m.held
  PROVE  /\ Run(x, 1) = {x} /\ x \in m.bm \ Reserved /\ x # 0
         /\ \A r \in m.held : x \in Run(r[1], r[2]) => r = <<x, 1>>
         /\ \A r \in m.held : r[1] = x => r = <<x, 1>>
  <1>1. Run(x, 1) = {x}
    BY PageNat DEF Run
  <1>2. Run(x, 1) \subseteq m.bm \ Reserved
    BY DEF PmmOK
  <1>3. \A r \in m.held : x \in Run(r[1], r[2]) => r = <<x, 1>>
    BY <1>1 DEF PmmOK, Private
  <1>4. \A r \in m.held : r[1] \in Run(r[1], r[2])
    <2> SUFFICES ASSUME NEW r \in m.held PROVE r[1] \in Run(r[1], r[2])
      OBVIOUS
    <2>1. r[1] \in Page /\ r[2] \in Nat \ {0}
      BY MemoryFields DEF Runs
    <2>2. r[1] \in Nat
      BY <2>1, PageNat
    <2> QED BY <2>1, <2>2 DEF Run
  <1> QED BY <1>1, <1>2, <1>3, <1>4, ZeroPage

LEMMA NewPageFree ==
  ASSUME NEW m \in Memory, PmmOK(m), NewPage(m) # 0
  PROVE  NewPage(m) \in Page /\ NewPage(m) \notin m.bm
  <1>1. Page \ m.bm # {} /\ NewPage(m) = Min(Page \ m.bm)
    BY DEF NewPage
  <1>2. Page \ m.bm \subseteq Nat
    BY PageNat
  <1> QED BY <1>1, <1>2, MinIsIn

LEMMA AllocKeepsPmm ==
  ASSUME NEW m \in Memory, PmmOK(m), NewPage(m) # 0
  PROVE  LET w == Alloc(m)
             pg == NewPage(m)
         IN  /\ w \in Memory /\ PmmOK(w)
             /\ w.held = m.held \cup {<<pg, 1>>} /\ <<pg, 1>> \notin m.held
             /\ w.mem = [m.mem EXCEPT ![pg] = Zero]
             /\ \A r \in m.held : pg \notin Run(r[1], r[2])
  <1> DEFINE w  == Alloc(m)
             pg == NewPage(m)
  <1>1. pg \in Page /\ pg \notin m.bm /\ pg # 0
    BY NewPageFree
  <1>2. w = [bm |-> m.bm \cup {pg}, used |-> m.used + 1, held |-> m.held \cup {<<pg, 1>>},
             mem |-> [m.mem EXCEPT ![pg] = Zero]]
    BY <1>1 DEF Alloc
  <1> HIDE DEF w, pg
  <1>3. Run(pg, 1) = {pg} /\ <<pg, 1>> \in Runs
    BY <1>1, PageNat DEF Run, Runs
  <1>4. m.bm \subseteq Page /\ m.used \in Nat /\ m.held \subseteq Runs /\ m.mem \in Tables
    BY MemoryFields
  <1>5. w \in Memory
    <2>1. [m.mem EXCEPT ![pg] = Zero] \in Tables
      BY <1>1, <1>4, ZeroPage DEF Tables
    <2> QED BY <1>1, <1>2, <1>3, <1>4, <2>1 DEF Memory
  <1>6. \A r \in m.held : Run(r[1], r[2]) \subseteq m.bm \ Reserved
    BY DEF PmmOK
  <1>7. \A r \in m.held : pg \notin Run(r[1], r[2])
    BY <1>1, <1>6
  <1>8. <<pg, 1>> \notin m.held
    BY <1>3, <1>7
  <1>9. w.used = Cardinality(w.bm)
    <2>1. IsFiniteSet(m.bm) /\ m.used = Cardinality(m.bm)
      BY <1>4, BitmapFinite DEF PmmOK
    <2>2. Cardinality(m.bm \cup {pg}) = Cardinality(m.bm) + 1
      BY <1>1, <2>1, FS_AddElement
    <2> QED BY <1>2, <2>1, <2>2
  <1>10. \A r \in w.held : Run(r[1], r[2]) \subseteq w.bm \ Reserved
    <2>1. Run(pg, 1) \subseteq w.bm \ Reserved
      BY <1>1, <1>2, <1>3 DEF PmmOK
    <2>2. \A r \in w.held : r \in m.held \/ r = <<pg, 1>>
      BY <1>2
    <2> QED BY <1>2, <1>6, <2>1, <2>2
  <1>11. \A r \in w.held : Private(r, w.held)
    <2> SUFFICES ASSUME NEW r \in w.held, NEW q \in w.held, q # r
                 PROVE  Run(r[1], r[2]) \cap Run(q[1], q[2]) = {}
      BY DEF Private
    <2>1. CASE r \in m.held /\ q \in m.held
      BY <2>1 DEF PmmOK, Private
    <2>2. CASE r = <<pg, 1>> /\ q \in m.held
      BY <1>3, <1>7, <2>2
    <2>3. CASE q = <<pg, 1>> /\ r \in m.held
      BY <1>3, <1>7, <2>3
    <2> QED BY <1>2, <2>1, <2>2, <2>3
  <1>12. Reserved \subseteq w.bm
    BY <1>2 DEF PmmOK
  <1>13. PmmOK(w)
    BY <1>9, <1>10, <1>11, <1>12 DEF PmmOK
  <1>14. w.held = m.held \cup {<<pg, 1>>} /\ w.mem = [m.mem EXCEPT ![pg] = Zero]
    BY <1>2
  <1> QED BY <1>5, <1>7, <1>8, <1>13, <1>14 DEF w, pg

LEMMA FreeKeepsPmm ==
  ASSUME NEW m \in Memory, PmmOK(m), NEW x \in Page, <<x, 1>> \in m.held
  PROVE  LET w == FreePage(m, x)
         IN  /\ w \in Memory /\ PmmOK(w)
             /\ w.held = m.held \ {<<x, 1>>} /\ w.bm = m.bm \ {x} /\ w.mem = m.mem
  <1> DEFINE w == FreePage(m, x)
  <1>1. /\ Run(x, 1) = {x} /\ x \in m.bm /\ x \notin Reserved
        /\ \A r \in m.held : x \in Run(r[1], r[2]) => r = <<x, 1>>
    BY HeldPage
  <1>2. m.bm \subseteq Page /\ m.used \in Nat /\ m.held \subseteq Runs /\ m.mem \in Tables
    BY MemoryFields
  <1>3. w = [m EXCEPT !.bm = @ \ {x}, !.used = @ - 1, !.held = @ \ {<<x, 1>>}]
    BY <1>1 DEF FreePage
  <1>4. w = [bm |-> m.bm \ {x}, used |-> m.used - 1, held |-> m.held \ {<<x, 1>>}, mem |-> m.mem]
    BY <1>3 DEF Memory
  <1> HIDE DEF w
  <1>5. w.used = Cardinality(w.bm)
    <2>1. IsFiniteSet(m.bm) /\ m.used = Cardinality(m.bm)
      BY <1>2, BitmapFinite DEF PmmOK
    <2>2. Cardinality(m.bm \ {x}) = Cardinality(m.bm) - 1
      BY <1>1, <2>1, FS_RemoveElement
    <2> QED BY <1>4, <2>1, <2>2
  <1>6. w \in Memory
    <2>1. m.bm \ {x} \subseteq Page
      BY <1>2
    <2>2. w.used \in Nat
      BY <1>4, <1>5, <2>1, BitmapFinite
    <2> QED BY <1>2, <1>4, <2>1, <2>2 DEF Memory
  <1>7. \A r \in w.held : Run(r[1], r[2]) \subseteq w.bm \ Reserved
    <2> SUFFICES ASSUME NEW r \in w.held PROVE Run(r[1], r[2]) \subseteq w.bm \ Reserved
      OBVIOUS
    <2>1. r \in m.held /\ r # <<x, 1>>
      BY <1>4
    <2>2. Run(r[1], r[2]) \subseteq m.bm \ Reserved /\ x \notin Run(r[1], r[2])
      BY <1>1, <2>1 DEF PmmOK
    <2> QED BY <1>4, <2>2
  <1>8. \A r \in w.held : Private(r, w.held)
    BY <1>4 DEF PmmOK, Private
  <1>9. Reserved \subseteq w.bm
    BY <1>1, <1>4 DEF PmmOK
  <1>10. PmmOK(w)
    BY <1>5, <1>7, <1>8, <1>9 DEF PmmOK
  <1>11. w.held = m.held \ {<<x, 1>>} /\ w.bm = m.bm \ {x} /\ w.mem = m.mem
    BY <1>4
  <1> QED BY <1>6, <1>10, <1>11 DEF w

-----------------------------------------------------------------------------
(***************************************************************************)
(* One write to a table.                                                   *)
(***************************************************************************)
LEMMA EntryIsPage ==
  ASSUME NEW t \in Tables, NEW c \in Page, NEW i \in Idx
  PROVE  t[c] \in [Idx -> Page] /\ t[c][i] \in Page /\ DOMAIN t = Page /\ DOMAIN t[c] = Idx
  BY DEF Tables

\* A tree whose tables are as they were is the same tree.
LEMMA SameTree ==
  ASSUME NEW t \in Tables, NEW u \in Tables, NEW c \in Page,
         c # 0 => u[c] = t[c], c # 0 => \A i \in Idx : t[c][i] # 0 => u[t[c][i]] = t[t[c][i]]
  PROVE  /\ IsTree(t, c) => IsTree(u, c)
         /\ \A x : InTree(u, c, x) <=> InTree(t, c, x)
  <1>1. CASE c = 0
    BY <1>1 DEF IsTree, InTree
  <1>2. CASE c # 0
    <2>1. \A i \in Idx : u[c][i] = t[c][i]
      BY <1>2
    <2>2. \A i, j \in Idx : t[c][i] # 0 => u[u[c][i]][j] = t[t[c][i]][j]
      BY <1>2
    <2>3. \A x : IsTable(u, c, x) <=> IsTable(t, c, x)
      BY <2>1 DEF IsTable
    <2>4. \A x : IsLeaf(u, c, x) <=> IsLeaf(t, c, x)
      BY <2>1, <2>2 DEF IsLeaf
    <2>5. TableOnce(t, c) => TableOnce(u, c)
      BY <2>1 DEF TableOnce
    <2>6. LeafOnce(t, c) => LeafOnce(u, c)
      <3> SUFFICES ASSUME LeafOnce(t, c), NEW i \in Idx, NEW j \in Idx, NEW k \in Idx, NEW l \in Idx,
                          u[c][i] # 0, u[c][k] # 0, u[u[c][i]][j] # 0, u[u[c][i]][j] = u[u[c][k]][l]
                   PROVE  i = k /\ j = l
        BY DEF LeafOnce
      <3>1. t[c][i] # 0 /\ t[c][k] # 0
        BY <2>1
      <3>2. t[t[c][i]][j] # 0 /\ t[t[c][i]][j] = t[t[c][k]][l]
        BY <2>2, <3>1
      <3> QED BY <3>1, <3>2 DEF LeafOnce
    <2> QED BY <2>3, <2>4, <2>5, <2>6 DEF IsTree, InTree, TopOnce, LeafNoTable
  <1> QED BY <1>1, <1>2

Written(t, d, b, n) == [t EXCEPT ![d][b] = n]

\* vmm_map_page hangs a cleared page into an empty entry of the top table.
LEMMA TreeAddTable ==
  ASSUME NEW t \in Tables, NEW c \in Page \ {0}, IsTree(t, c), NEW a \in Idx, t[c][a] = 0,
         NEW n \in Page \ {0}, ~InTree(t, c, n), t[n] = Zero,
         NEW u \in {Written(t, c, a, n)}
  PROVE  /\ u \in Tables /\ IsTree(u, c)
         /\ \A x : InTree(u, c, x) => InTree(t, c, x) \/ x = n
         /\ u[c][a] = n /\ u[n] = Zero
  <1>1. n # c /\ ~IsTable(t, c, n) /\ ~IsLeaf(t, c, n)
    BY DEF InTree
  <1>2. t[c] \in [Idx -> Page] /\ u = [t EXCEPT ![c] = [t[c] EXCEPT ![a] = n]]
    BY DEF Tables, Written
  <1>3. u \in Tables /\ u[c] = [t[c] EXCEPT ![a] = n] /\ \A p \in Page : p # c => u[p] = t[p]
    BY <1>2 DEF Tables
  <1>4. u[c][a] = n /\ \A i \in Idx : i # a => u[c][i] = t[c][i]
    BY <1>2, <1>3
  <1>5. u[n] = Zero
    BY <1>1, <1>3
  <1>6. \A i \in Idx : t[c][i] \in Page /\ t[c][i] # c
    BY <1>2 DEF IsTree, TopOnce, IsTable
  <1>7. \A i, j \in Idx : i # a => u[u[c][i]][j] = t[t[c][i]][j]
    BY <1>3, <1>4, <1>6
  <1>8. \A j \in Idx : u[u[c][a]][j] = 0
    BY <1>4, <1>5 DEF Zero
  <1> USE DEF IsTree
  <1>9. \A x : IsTable(u, c, x) => IsTable(t, c, x) \/ x = n
    BY <1>4 DEF IsTable
  <1>10. \A x : IsLeaf(u, c, x) => IsLeaf(t, c, x) \/ x = 0
    <2> SUFFICES ASSUME NEW x, IsLeaf(u, c, x), x # 0 PROVE IsLeaf(t, c, x)
      OBVIOUS
    <2>1. PICK i \in Idx, j \in Idx : u[c][i] # 0 /\ x = u[u[c][i]][j]
      BY DEF IsLeaf
    <2>2. i # a
      BY <1>8, <2>1
    <2>3. t[c][i] # 0 /\ x = t[t[c][i]][j]
      BY <1>4, <1>7, <2>1, <2>2
    <2> QED BY <2>3 DEF IsLeaf
  <1>11. TableOnce(u, c)
    <2> SUFFICES ASSUME NEW i \in Idx, NEW j \in Idx, u[c][i] # 0, u[c][i] = u[c][j] PROVE i = j
      BY DEF TableOnce
    <2>1. \A k \in Idx : t[c][k] # n
      BY <1>1 DEF IsTable
    <2>2. CASE i # a /\ j # a
      BY <1>4, <2>2 DEF TableOnce
    <2> QED BY <1>4, <2>1, <2>2
  <1>12. TopOnce(u, c)
    BY <1>1, <1>9, <1>10 DEF TopOnce
  <1>13. LeafNoTable(u, c)
    BY <1>1, <1>9, <1>10 DEF LeafNoTable
  <1>14. LeafOnce(u, c)
    <2> SUFFICES ASSUME NEW i \in Idx, NEW j \in Idx, NEW k \in Idx, NEW l \in Idx,
                        u[c][i] # 0, u[c][k] # 0, u[u[c][i]][j] # 0, u[u[c][i]][j] = u[u[c][k]][l]
                 PROVE  i = k /\ j = l
      BY DEF LeafOnce
    <2>1. i # a /\ k # a
      BY <1>8
    <2>2. t[c][i] # 0 /\ t[c][k] # 0 /\ t[t[c][i]][j] # 0 /\ t[t[c][i]][j] = t[t[c][k]][l]
      BY <1>4, <1>7, <2>1
    <2> QED BY <2>2 DEF LeafOnce
  <1>15. IsTree(u, c)
    BY <1>11, <1>12, <1>13, <1>14
  <1>16. \A x : InTree(u, c, x) => InTree(t, c, x) \/ x = n
    BY <1>9, <1>10 DEF InTree
  <1> QED BY <1>3, <1>4, <1>5, <1>15, <1>16

\* Entry b of the leaf table at entry a becomes n, and nothing else changes.
LEMMA LeafChanged ==
  ASSUME NEW t \in Tables, NEW c \in Page \ {0}, IsTree(t, c), NEW a \in Idx, t[c][a] # 0,
         NEW b \in Idx, NEW n \in Page, ~InTree(t, c, n),
         NEW u \in Tables, u[c] = t[c], u[t[c][a]][b] = n,
         \A i, j \in Idx : i # a \/ j # b => u[t[c][i]][j] = t[t[c][i]][j]
  PROVE  /\ IsTree(u, c)
         /\ \A x : InTree(u, c, x) => InTree(t, c, x) \/ x = n
         /\ t[t[c][a]][b] # 0 => ~InTree(u, c, t[t[c][a]][b])
  <1> DEFINE old == t[t[c][a]][b]
  <1> USE DEF IsTree
  <1>8. \A i, j \in Idx : i # a \/ j # b => u[u[c][i]][j] = t[t[c][i]][j]
    OBVIOUS
  <1>9. u[u[c][a]][b] = n
    OBVIOUS
  <1>10. old = t[t[c][a]][b] /\ t[c][a] # 0
    OBVIOUS
  <1> HIDE DEF old
  <1>11. n # 0 => n # c /\ ~IsTable(t, c, n) /\ ~IsLeaf(t, c, n)
    BY DEF InTree
  <1>12. \A x : IsTable(u, c, x) <=> IsTable(t, c, x)
    BY DEF IsTable
  <1>13. \A x : IsLeaf(u, c, x) => x = n \/ (IsLeaf(t, c, x) /\ (x # 0 => x # old))
    <2> SUFFICES ASSUME NEW x, IsLeaf(u, c, x), x # n PROVE IsLeaf(t, c, x) /\ (x # 0 => x # old)
      OBVIOUS
    <2>1. PICK i \in Idx, j \in Idx : u[c][i] # 0 /\ x = u[u[c][i]][j]
      BY DEF IsLeaf
    <2>2. i # a \/ j # b
      BY <1>9, <2>1
    <2>3. t[c][i] # 0 /\ x = t[t[c][i]][j]
      BY <1>8, <2>1, <2>2
    <2>4. IsLeaf(t, c, x)
      BY <2>3 DEF IsLeaf
    <2>5. x # 0 => x # old
      BY <1>10, <2>2, <2>3 DEF LeafOnce
    <2> QED BY <2>4, <2>5
  <1>14. TableOnce(u, c)
    BY DEF TableOnce
  <1>15. TopOnce(u, c)
    BY <1>11, <1>12, <1>13 DEF TopOnce
  <1>16. LeafNoTable(u, c)
    BY <1>11, <1>12, <1>13 DEF LeafNoTable
  <1>17. LeafOnce(u, c)
    <2> SUFFICES ASSUME NEW i \in Idx, NEW j \in Idx, NEW k \in Idx, NEW l \in Idx,
                        u[c][i] # 0, u[c][k] # 0, u[u[c][i]][j] # 0, u[u[c][i]][j] = u[u[c][k]][l]
                 PROVE  i = k /\ j = l
      BY DEF LeafOnce
    <2>0. t[c][i] # 0 /\ t[c][k] # 0
      OBVIOUS
    <2>1. CASE (i # a \/ j # b) /\ (k # a \/ l # b)
      <3>1. t[t[c][i]][j] # 0 /\ t[t[c][i]][j] = t[t[c][k]][l]
        BY <1>8, <2>1
      <3> QED BY <2>0, <3>1 DEF LeafOnce
    <2>2. CASE i = a /\ j = b /\ (k # a \/ l # b)
      <3>1. n = t[t[c][k]][l] /\ n # 0
        BY <1>8, <1>9, <2>2
      <3> QED BY <1>11, <2>0, <3>1 DEF IsLeaf
    <2>3. CASE k = a /\ l = b /\ (i # a \/ j # b)
      <3>1. n = t[t[c][i]][j] /\ n # 0
        BY <1>8, <1>9, <2>3
      <3> QED BY <1>11, <2>0, <3>1 DEF IsLeaf
    <2> QED BY <2>1, <2>2, <2>3
  <1>18. \A x : InTree(u, c, x) => InTree(t, c, x) \/ x = n
    BY <1>12, <1>13 DEF InTree
  <1>19. old # 0 => ~InTree(u, c, old)
    <2> SUFFICES ASSUME old # 0 PROVE ~InTree(u, c, old)
      OBVIOUS
    <2>1. IsLeaf(t, c, old)
      BY <1>10 DEF IsLeaf
    <2>2. old # c /\ ~IsTable(t, c, old) /\ old # n
      BY <1>11, <2>1 DEF TopOnce, LeafNoTable
    <2>3. ~IsTable(u, c, old) /\ ~IsLeaf(u, c, old)
      BY <1>12, <1>13, <2>2
    <2> QED BY <2>2, <2>3 DEF InTree
  <1>20. IsTree(u, c)
    BY <1>14, <1>15, <1>16, <1>17
  <1> QED BY <1>10, <1>18, <1>19, <1>20

\* vmm_map_page and vmm_unmap_page write an entry of a leaf table.
LEMMA TreeSetLeaf ==
  ASSUME NEW t \in Tables, NEW c \in Page \ {0}, IsTree(t, c), NEW a \in Idx, t[c][a] # 0,
         NEW b \in Idx, NEW n \in Page, ~InTree(t, c, n),
         NEW u \in {Written(t, t[c][a], b, n)}
  PROVE  /\ u \in Tables /\ IsTree(u, c)
         /\ \A x : InTree(u, c, x) => InTree(t, c, x) \/ x = n
         /\ t[t[c][a]][b] # 0 => ~InTree(u, c, t[t[c][a]][b])
  <1> DEFINE d == t[c][a]
  <1>0. u = Written(t, d, b, n)
    OBVIOUS
  <1>1. d \in Page /\ d # 0 /\ d # c /\ t[d] \in [Idx -> Page] /\ t[c] \in [Idx -> Page]
    BY DEF Tables, TopOnce, IsTable, IsTree
  <1>2. u = [t EXCEPT ![d] = [t[d] EXCEPT ![b] = n]]
    BY <1>0, <1>1 DEF Tables, Written
  <1>3. u \in Tables /\ u[d] = [t[d] EXCEPT ![b] = n] /\ \A p \in Page : p # d => u[p] = t[p]
    BY <1>1, <1>2 DEF Tables
  <1>4. u[d][b] = n /\ \A j \in Idx : j # b => u[d][j] = t[d][j]
    BY <1>1, <1>3
  <1>5. u[c] = t[c]
    BY <1>1, <1>3
  <1>6. \A i \in Idx : t[c][i] \in Page
    BY <1>1
  <1>7. \A i \in Idx : t[c][i] = d => i = a
    BY <1>1 DEF TableOnce, IsTree
  <1>8. \A i, j \in Idx : i # a \/ j # b => u[t[c][i]][j] = t[t[c][i]][j]
    BY <1>3, <1>4, <1>6, <1>7
  <1>9. u[t[c][a]][b] = n /\ u \in Tables
    BY <1>3, <1>4
  <1> QED BY <1>5, <1>8, <1>9, LeafChanged

-----------------------------------------------------------------------------
(***************************************************************************)
(* The calls of the memory system calls on the page manager and the tables.*)
(***************************************************************************)
LEMMA TopIsInTree == \A t, c : c # 0 => InTree(t, c, c)
  BY DEF InTree

\* The runs of the others do not hold a page of the tree.
LEMMA OthersApart ==
  ASSUME NEW m, NEW c \in Page, NEW h, NEW f, Keeps(m, c, h, f),
         NEW x \in Page, InTree(m.mem, c, x), NEW r \in h
  PROVE  x \notin Run(r[1], r[2]) /\ r # <<x, 1>> /\ r[1] # x
  <1>1. m \in Memory /\ PmmOK(m) /\ r \in m.held /\ ~InTree(m.mem, c, r[1])
    BY DEF Keeps
  <1>2. <<x, 1>> \in m.held
    BY DEF Keeps, SpaceOK
  <1>3. r # <<x, 1>> /\ r[1] # x
    BY <1>1
  <1> QED BY <1>1, <1>2, <1>3, HeldPage

LEMMA AllocKeeps ==
  ASSUME NEW m, NEW c \in Page, NEW h, NEW f, Keeps(m, c, h, f), NewPage(m) # 0
  PROVE  /\ Keeps(Alloc(m), c, h, f) /\ Fresh(Alloc(m), c, h, NewPage(m))
         /\ Alloc(m).mem[NewPage(m)] = Zero
         /\ c # 0 => Alloc(m).mem[c] = m.mem[c]
         /\ \A x : InTree(Alloc(m).mem, c, x) <=> InTree(m.mem, c, x)
         /\ m.held \subseteq Alloc(m).held
  <1> DEFINE w == Alloc(m)
             n == NewPage(m)
  <1>1. m \in Memory /\ PmmOK(m) /\ SpaceOK(m, c)
    BY DEF Keeps
  <1>2. n \in Page /\ n \notin m.bm /\ n # 0
    BY <1>1, NewPageFree
  <1>3. /\ w \in Memory /\ PmmOK(w)
        /\ w.held = m.held \cup {<<n, 1>>} /\ <<n, 1>> \notin m.held
        /\ w.mem = [m.mem EXCEPT ![n] = Zero]
        /\ \A r \in m.held : n \notin Run(r[1], r[2])
    BY <1>1, AllocKeepsPmm
  <1> HIDE DEF w, n
  <1>4. m.mem \in Tables /\ w.mem \in Tables
    BY <1>1, <1>3, MemoryFields
  <1>5. w.mem[n] = Zero /\ \A x \in Page : x # n => w.mem[x] = m.mem[x]
    BY <1>2, <1>3, <1>4 DEF Tables
  <1>6. \A x \in Page : InTree(m.mem, c, x) => x # n
    BY <1>1, <1>2, HeldPage DEF SpaceOK
  <1>7. \A i \in Idx : c # 0 /\ m.mem[c][i] # 0 => InTree(m.mem, c, m.mem[c][i]) /\ m.mem[c][i] \in Page
    BY <1>4, EntryIsPage DEF InTree, IsTable
  <1>8. /\ c # 0 => w.mem[c] = m.mem[c]
        /\ c # 0 => \A i \in Idx : m.mem[c][i] # 0 => w.mem[m.mem[c][i]] = m.mem[m.mem[c][i]]
    BY <1>5, <1>6, <1>7, TopIsInTree
  <1>9. IsTree(w.mem, c) /\ \A x : InTree(w.mem, c, x) <=> InTree(m.mem, c, x)
    BY <1>1, <1>4, <1>8, SameTree DEF SpaceOK
  <1>10. SpaceOK(w, c)
    BY <1>1, <1>3, <1>9 DEF SpaceOK
  <1>11. \A r \in h : /\ r \in w.held /\ ~InTree(w.mem, c, r[1])
                      /\ \A x \in Run(r[1], r[2]) : w.mem[x] = f[x]
    <2> SUFFICES ASSUME NEW r \in h
                 PROVE  /\ r \in w.held /\ ~InTree(w.mem, c, r[1])
                        /\ \A x \in Run(r[1], r[2]) : w.mem[x] = f[x]
      OBVIOUS
    <2>1. /\ r \in m.held /\ ~InTree(m.mem, c, r[1])
          /\ \A x \in Run(r[1], r[2]) : m.mem[x] = f[x]
      BY DEF Keeps
    <2>2. Run(r[1], r[2]) \subseteq Page /\ n \notin Run(r[1], r[2])
      BY <1>1, <1>3, <2>1, MemoryFields DEF PmmOK
    <2> QED BY <1>3, <1>5, <1>9, <2>1, <2>2
  <1>12. Keeps(w, c, h, f)
    BY <1>3, <1>10, <1>11 DEF Keeps
  <1>13. <<n, 1>> \notin h
    BY <1>3 DEF Keeps
  <1>14. ~InTree(w.mem, c, n)
    BY <1>2, <1>6, <1>9
  <1>15. Fresh(w, c, h, n)
    BY <1>2, <1>3, <1>13, <1>14 DEF Fresh
  <1>16. m.held \subseteq w.held
    BY <1>3
  <1> QED BY <1>5, <1>8, <1>9, <1>12, <1>15, <1>16 DEF w, n

\* A write to page d of the tree that brings in at most page n.
LEMMA WriteKeeps ==
  ASSUME NEW m, NEW c \in Page, NEW h, NEW f, Keeps(m, c, h, f),
         NEW d \in Page, InTree(m.mem, c, d), NEW u \in Tables, \A p \in Page : p # d => u[p] = m.mem[p],
         IsTree(u, c), NEW n \in Page, n = 0 \/ Fresh(m, c, h, n),
         \A x : InTree(u, c, x) => InTree(m.mem, c, x) \/ x = n
  PROVE  Keeps([m EXCEPT !.mem = u], c, h, f)
  <1> DEFINE w == [m EXCEPT !.mem = u]
  <1>1. m \in Memory /\ PmmOK(m) /\ SpaceOK(m, c)
    BY DEF Keeps
  <1>2. w.bm = m.bm /\ w.used = m.used /\ w.held = m.held /\ w.mem = u /\ w \in Memory
    BY <1>1 DEF Memory
  <1> HIDE DEF w
  <1>3. PmmOK(w)
    BY <1>1, <1>2 DEF PmmOK
  <1>4. SpaceOK(w, c)
    <2> SUFFICES ASSUME NEW x \in Page, InTree(u, c, x) PROVE <<x, 1>> \in m.held
      BY <1>2 DEF SpaceOK
    <2>1. x # 0
      BY DEF InTree
    <2> QED BY <1>1, <2>1 DEF SpaceOK, Fresh
  <1>5. \A r \in h : /\ r \in w.held /\ ~InTree(w.mem, c, r[1])
                     /\ \A x \in Run(r[1], r[2]) : w.mem[x] = f[x]
    <2> SUFFICES ASSUME NEW r \in h
                 PROVE  /\ r \in w.held /\ ~InTree(w.mem, c, r[1])
                        /\ \A x \in Run(r[1], r[2]) : w.mem[x] = f[x]
      OBVIOUS
    <2>1. /\ r \in m.held /\ ~InTree(m.mem, c, r[1])
          /\ \A x \in Run(r[1], r[2]) : m.mem[x] = f[x]
      BY DEF Keeps
    <2>2. d \notin Run(r[1], r[2])
      BY OthersApart
    <2>3. Run(r[1], r[2]) \subseteq Page
      BY <1>1, <2>1, MemoryFields DEF PmmOK
    <2>4. ~InTree(u, c, r[1])
      <3>1. SUFFICES ASSUME InTree(u, c, r[1]) PROVE FALSE
        OBVIOUS
      <3>2. r[1] = n /\ n # 0
        BY <2>1, <3>1 DEF InTree
      <3>3. Fresh(m, c, h, n)
        BY <3>2
      <3>4. r = <<n, 1>>
        BY <1>1, <2>1, <3>2, <3>3, HeldPage DEF Fresh
      <3> QED BY <3>3, <3>4 DEF Fresh
    <2> QED BY <1>2, <2>1, <2>2, <2>3, <2>4
  <1>6. Keeps(w, c, h, f)
    BY <1>2, <1>3, <1>4, <1>5 DEF Keeps
  <1> QED BY <1>6 DEF w

LEMMA TopAndLeaf ==
  ASSUME NEW v \in Nat
  PROVE  Top(v) \in Idx /\ Leaf(v) \in Idx
  <1>1. ENTRIES \in Nat /\ ENTRIES > 0
    BY SpaceAssumption
  <1>2. v \div ENTRIES \in Nat
    BY <1>1
  <1>3. (v \div ENTRIES) % ENTRIES \in 0 .. ENTRIES - 1
    BY <1>1, <1>2
  <1>4. v % ENTRIES \in 0 .. ENTRIES - 1
    BY <1>1
  <1> QED BY <1>3, <1>4 DEF Top, Leaf, Idx

LEMMA VPageNat == VPage \subseteq Nat
  <1>1. ENTRIES * ENTRIES \in Nat
    BY SpaceAssumption
  <1> QED BY <1>1 DEF VPage

\* vmm_map_page keeps the tree, whether it finds, adds or cannot get the table.
LEMMA MapPageKeeps ==
  ASSUME NEW m, NEW c \in Page, NEW h, NEW f, Keeps(m, c, h, f), NEW v \in Nat,
         NEW pg, Fresh(m, c, h, pg)
  PROVE  Keeps(MapPage(m, c, v, pg), c, h, f)
  <1> DEFINE a == Top(v)
             b == Leaf(v)
             n == NewPage(m)
             d == m.mem[c][a]
             w == [Alloc(m) EXCEPT !.mem[c][a] = n]
             x == IF d # 0 THEN m ELSE IF n = 0 THEN m ELSE w
             t == x.mem[c][a]
  <1>1. MapPage(m, c, v, pg) = IF c = 0 \/ t = 0 THEN m ELSE [x EXCEPT !.mem[t][b] = pg]
    BY DEF MapPage
  <1>2. a \in Idx /\ b \in Idx
    BY TopAndLeaf
  <1> HIDE DEF a, b
  <1>3. CASE c = 0
    <2>1. MapPage(m, c, v, pg) = m
      BY <1>1, <1>3
    <2> QED BY <2>1
  <1>4. CASE c # 0 /\ x = m
    <2>1. CASE t = 0
      <3>1. MapPage(m, c, v, pg) = m
        BY <1>1, <2>1
      <3> QED BY <3>1
    <2>2. CASE t # 0
      <3>1. m.mem \in Tables /\ t = m.mem[c][a] /\ m \in Memory /\ IsTree(m.mem, c)
        BY <1>4, MemoryFields DEF Keeps, SpaceOK
      <3>2. t \in Page /\ InTree(m.mem, c, t)
        BY <1>2, <1>4, <2>2, <3>1, EntryIsPage DEF InTree, IsTable
      <3> DEFINE u == [m.mem EXCEPT ![t][b] = pg]
      <3>3. MapPage(m, c, v, pg) = [m EXCEPT !.mem = u]
        BY <1>1, <1>4, <2>2
      <3>4. u \in {Written(m.mem, m.mem[c][a], b, pg)}
        BY <3>1 DEF Written
      <3>5. \A p \in Page : p # t => u[p] = m.mem[p]
        BY <3>1 DEF Tables
      <3> HIDE DEF u, t, x
      <3>6. u \in Tables /\ IsTree(u, c) /\ \A y : InTree(u, c, y) => InTree(m.mem, c, y) \/ y = pg
        BY <1>2, <1>4, <2>2, <3>1, <3>4, TreeSetLeaf DEF Fresh
      <3>7. Keeps([m EXCEPT !.mem = u], c, h, f)
        <4>1. pg \in Page
          BY DEF Fresh
        <4> QED BY <3>2, <3>5, <3>6, <4>1, WriteKeeps
      <3> QED BY <3>3, <3>7
    <2> QED BY <2>1, <2>2
  <1>5. CASE c # 0 /\ d = 0 /\ n # 0
    <2> DEFINE y  == Alloc(m)
               u1 == [y.mem EXCEPT ![c][a] = n]
               z  == [y EXCEPT !.mem = u1]
               u2 == [z.mem EXCEPT ![n][b] = pg]
    <2>1. /\ Keeps(y, c, h, f) /\ Fresh(y, c, h, n) /\ y.mem[n] = Zero /\ y.mem[c] = m.mem[c]
          /\ \A q : InTree(y.mem, c, q) <=> InTree(m.mem, c, q)
          /\ m.held \subseteq y.held
      BY <1>5, AllocKeeps
    <2> HIDE DEF y
    <2>2. y \in Memory /\ y.mem \in Tables /\ IsTree(y.mem, c) /\ InTree(y.mem, c, c)
      BY <1>5, <2>1, MemoryFields, TopIsInTree DEF Keeps, SpaceOK
    <2>3. y.mem[c][a] = 0
      BY <1>5, <2>1
    <2>4. n \in Page \ {0} /\ ~InTree(y.mem, c, n) /\ <<n, 1>> \in y.held /\ c \in Page \ {0}
      BY <1>5, <2>1 DEF Fresh
    <2> HIDE DEF n
    <2>5. /\ u1 \in Tables /\ IsTree(u1, c)
          /\ \A q : InTree(u1, c, q) => InTree(y.mem, c, q) \/ q = n
          /\ u1[c][a] = n /\ u1[n] = Zero
      <3>1. u1 \in {Written(y.mem, c, a, n)}
        BY DEF Written
      <3> HIDE DEF u1, d, w, x, t
      <3>2. /\ y.mem \in Tables /\ c \in Page \ {0} /\ IsTree(y.mem, c) /\ a \in Idx /\ y.mem[c][a] = 0
            /\ n \in Page \ {0} /\ ~InTree(y.mem, c, n) /\ y.mem[n] = Zero
        BY <1>2, <2>1, <2>2, <2>3, <2>4
      <3> QED BY <3>1, <3>2, TreeAddTable
    <2>6. \A p \in Page : p # c => u1[p] = y.mem[p]
      BY <2>2 DEF Tables
    <2> HIDE DEF u1
    <2>7. Keeps(z, c, h, f)
      BY <2>1, <2>2, <2>4, <2>5, <2>6, WriteKeeps
    <2>8. z \in Memory /\ z.mem = u1 /\ z.held = y.held
      BY <2>2, <2>7 DEF Memory, Keeps
    <2> HIDE DEF z
    <2>9. pg # n
      <3>1. pg \in m.bm /\ n \notin m.bm
        BY <1>5, NewPageFree, HeldPage DEF Fresh, Keeps, n
      <3> QED BY <3>1
    <2>10. Fresh(z, c, h, pg)
      <3>1. ~InTree(u1, c, pg)
        BY <2>1, <2>5, <2>9 DEF Fresh
      <3>2. <<pg, 1>> \in z.held
        BY <2>1, <2>8 DEF Fresh
      <3> QED BY <2>8, <3>1, <3>2 DEF Fresh
    <2>11. InTree(z.mem, c, n)
      BY <1>2, <1>5, <2>4, <2>5, <2>8 DEF InTree, IsTable
    <2>12. /\ u2 \in Tables /\ IsTree(u2, c)
           /\ \A q : InTree(u2, c, q) => InTree(z.mem, c, q) \/ q = pg
      <3>1. u1 \in Tables /\ u1[c][a] # 0 /\ IsTree(u1, c)
        BY <2>4, <2>5
      <3>2. u2 \in {Written(u1, u1[c][a], b, pg)}
        BY <2>5, <2>8 DEF Written
      <3>3. pg \in Page /\ ~InTree(u1, c, pg)
        BY <2>8, <2>10 DEF Fresh
      <3> HIDE DEF u2, d, w, x, t
      <3>4. /\ u2 \in Tables /\ IsTree(u2, c)
            /\ \A q : InTree(u2, c, q) => InTree(u1, c, q) \/ q = pg
        <4>1. c \in Page \ {0} /\ a \in Idx /\ b \in Idx
          BY <1>2, <2>4
        <4> QED BY <3>1, <3>2, <3>3, <4>1, TreeSetLeaf
      <3> QED BY <2>8, <3>4
    <2>13. \A p \in Page : p # n => u2[p] = z.mem[p]
      BY <2>5, <2>8 DEF Tables
    <2> HIDE DEF u2
    <2>14. Keeps([z EXCEPT !.mem = u2], c, h, f)
      <3>1. pg \in Page
        BY DEF Fresh
      <3> QED BY <2>4, <2>7, <2>10, <2>11, <2>12, <2>13, <3>1, WriteKeeps
    <2>15. x = z
      <3>1. x = w
        BY <1>5 DEF n
      <3>2. w = z
        BY <2>2 DEF y, z, u1, n, Memory
      <3> QED BY <3>1, <3>2
    <2> HIDE DEF x
    <2>16. t = n
      BY <2>5, <2>8, <2>15
    <2> HIDE DEF t
    <2>17. MapPage(m, c, v, pg) = [z EXCEPT !.mem[n][b] = pg]
      BY <1>1, <1>5, <2>4, <2>15, <2>16
    <2>18. [z EXCEPT !.mem[n][b] = pg] = [z EXCEPT !.mem = u2]
      BY DEF u2
    <2> QED BY <2>14, <2>17, <2>18
  <1>6. x = m \/ (d = 0 /\ n # 0)
    OBVIOUS
  <1> QED BY <1>3, <1>4, <1>5, <1>6

\* One round of the loop of sys_brk, sys_sbrk, sys_mmap and process_create.
LEMMA MapRoundKeeps ==
  ASSUME NEW m, NEW c \in Page, NEW h, NEW f, Keeps(m, c, h, f), NEW v \in Nat
  PROVE  Keeps(MapFresh(m, c, v), c, h, f)
  <1>1. CASE NewPage(m) = 0
    BY <1>1 DEF MapFresh
  <1>2. CASE NewPage(m) # 0
    <2>1. MapFresh(m, c, v) = MapPage(Alloc(m), c, v, NewPage(m))
      BY <1>2 DEF MapFresh
    <2> QED BY <1>2, <2>1, AllocKeeps, MapPageKeeps, Zenon
  <1> QED BY <1>1, <1>2

\* One round of the loop of sys_munmap.
LEMMA UnmappedKeeps ==
  ASSUME NEW m, NEW c \in Page \ {0}, NEW h, NEW f, Keeps(m, c, h, f), NEW v \in Nat
  PROVE  Keeps(Unmapped(m, c, v), c, h, f)
  <1> DEFINE a  == Top(v)
             b  == Leaf(v)
             d  == m.mem[c][a]
             pg == m.mem[d][b]
             u  == [m.mem EXCEPT ![m.mem[c][a]][b] = 0]
             w  == [m EXCEPT !.mem = u]
  <1>1. CASE Translate(m, c, v) = 0
    BY <1>1 DEF Unmapped
  <1>2. CASE Translate(m, c, v) # 0
    <2>1. a \in Idx /\ b \in Idx
      BY TopAndLeaf
    <2>2. d # 0 /\ Translate(m, c, v) = pg /\ pg # 0
      BY <1>2 DEF Translate
    <2>3. m \in Memory /\ m.mem \in Tables /\ IsTree(m.mem, c)
      BY MemoryFields DEF Keeps, SpaceOK
    <2>4. Unmapped(m, c, v) = FreePage(w, pg)
      <3>1. UnmapPage(m, c, v) = w
        BY DEF UnmapPage
      <3>2. Unmapped(m, c, v) = FreePage(UnmapPage(m, c, v), Translate(m, c, v))
        BY <1>2 DEF Unmapped
      <3> QED BY <2>2, <3>1, <3>2
    <2> HIDE DEF a, b
    <2>5. d \in Page /\ InTree(m.mem, c, d)
      BY <2>1, <2>2, <2>3, EntryIsPage DEF InTree, IsTable
    <2>6. pg \in Page /\ InTree(m.mem, c, pg)
      <3>1. pg \in Page
        BY <2>1, <2>3, <2>5, EntryIsPage
      <3> QED BY <2>1, <2>2, <3>1 DEF InTree, IsLeaf
    <2>7. /\ u \in Tables /\ IsTree(u, c)
          /\ \A x : InTree(u, c, x) => InTree(m.mem, c, x) \/ x = 0
          /\ ~InTree(u, c, pg)
      <3>1. 0 \in Page /\ ~InTree(m.mem, c, 0)
        BY ZeroPage DEF InTree
      <3> HIDE DEF u
      <3>2. u \in {Written(m.mem, m.mem[c][a], b, 0)}
        BY DEF u, Written
      <3> QED BY <2>1, <2>2, <2>3, <3>1, <3>2, TreeSetLeaf
    <2>8. \A p \in Page : p # d => u[p] = m.mem[p]
      BY <2>3 DEF Tables
    <2> HIDE DEF u, d
    <2>9. Keeps(w, c, h, f)
      BY <2>5, <2>7, <2>8, ZeroPage, WriteKeeps
    <2>10. w \in Memory /\ PmmOK(w) /\ w.held = m.held /\ w.mem = u /\ w.bm = m.bm
      BY <2>3, <2>9 DEF Memory, Keeps
    <2>11. <<pg, 1>> \in w.held
      BY <2>6, <2>10 DEF Keeps, SpaceOK
    <2> HIDE DEF pg, w
    <2> DEFINE z == FreePage(w, pg)
    <2>12. z \in Memory /\ PmmOK(z) /\ z.held = w.held \ {<<pg, 1>>} /\ z.mem = u
      BY <2>6, <2>10, <2>11, FreeKeepsPmm
    <2> HIDE DEF z
    <2>13. SpaceOK(z, c)
      <3>1. \A x \in Page : InTree(u, c, x) => <<x, 1>> \in w.held /\ x # pg
        BY <2>7, <2>9, <2>10 DEF Keeps, SpaceOK
      <3>2. \A x \in Page : InTree(u, c, x) => <<x, 1>> \in z.held
        BY <2>12, <3>1
      <3> QED BY <2>7, <2>12, <3>2 DEF SpaceOK
    <2>14. \A r \in h : /\ r \in z.held /\ ~InTree(z.mem, c, r[1])
                        /\ \A x \in Run(r[1], r[2]) : z.mem[x] = f[x]
      <3>1. \A r \in h : r # <<pg, 1>>
        BY <2>6, OthersApart
      <3>2. \A r \in h : /\ r \in w.held /\ ~InTree(w.mem, c, r[1])
                         /\ \A x \in Run(r[1], r[2]) : w.mem[x] = f[x]
        BY <2>9 DEF Keeps
      <3> QED BY <2>10, <2>12, <3>1, <3>2
    <2>15. Keeps(z, c, h, f)
      BY <2>12, <2>13, <2>14 DEF Keeps
    <2> QED BY <2>4, <2>15 DEF z
  <1> QED BY <1>1, <1>2

-----------------------------------------------------------------------------
(***************************************************************************)
(* The loops.                                                              *)
(***************************************************************************)
LEMMA MappingKeeps ==
  ASSUME NEW m, NEW c \in Page, NEW h, NEW f, Keeps(m, c, h, f), NEW vs \in Seq(Nat)
  PROVE  \A k \in 0 .. Len(vs) : Keeps(Mapping(m, c, vs)[k], c, h, f)
  <1> DEFINE n     == Len(vs)
             S     == {w \in Memory : Keeps(w, c, h, f)}
             Is(g) == g = [k \in 0 .. n |-> IF k = 0 THEN m ELSE MapFresh(g[k - 1], c, vs[k])]
             step  == [y \in S \X (1 .. n) |-> MapFresh(y[1], c, vs[y[2]])]
             e     == CHOOSE g : Is(g)
             T     == {k \in 0 .. n : Keeps(e[k], c, h, f)}
  <1>1. n \in Nat /\ \A k \in 1 .. n : vs[k] \in Nat
    OBVIOUS
  <1>2. Mapping(m, c, vs) = e
    BY DEF Mapping
  <1>3. \A w \in S, k \in 1 .. n : step[<<w, k>>] = MapFresh(w, c, vs[k]) /\ step[<<w, k>>] \in S
    <2> SUFFICES ASSUME NEW w \in S, NEW k \in 1 .. n
                 PROVE  step[<<w, k>>] = MapFresh(w, c, vs[k]) /\ MapFresh(w, c, vs[k]) \in S
      OBVIOUS
    <2>1. Keeps(MapFresh(w, c, vs[k]), c, h, f)
      BY <1>1, MapRoundKeeps
    <2> QED BY <2>1 DEF Keeps
  <1>4. m \in S
    BY DEF Keeps
  <1>5. \E g : Is(g)
    <2> HIDE DEF n, S, step
    <2>1. PICK g : IsLoop(g, m, step, n) /\ \A k \in 0 .. n : g[k] \in S
      <3>1. \A w \in S : \A k \in 1 .. n : step[<<w, k>>] \in S
        BY <1>3
      <3> HIDE DEF Is, e, T
      <3> QED BY <1>1, <1>4, <3>1, LoopExists, Zenon
    <2>2. \A k \in 1 .. n : k - 1 \in 0 .. n /\ g[k - 1] \in S
      BY <1>1, <2>1
    <2>3. \A k \in 0 .. n : (IF k = 0 THEN m ELSE step[<<g[k - 1], k>>])
                              = IF k = 0 THEN m ELSE MapFresh(g[k - 1], c, vs[k])
      BY <1>1, <1>3, <2>2
    <2>4. [k \in 0 .. n |-> IF k = 0 THEN m ELSE step[<<g[k - 1], k>>]]
            = [k \in 0 .. n |-> IF k = 0 THEN m ELSE MapFresh(g[k - 1], c, vs[k])]
      BY <2>3
    <2>5. Is(g)
      BY <2>1, <2>4 DEF IsLoop
    <2> QED BY <2>5
  <1>6. Is(e)
    <2> HIDE DEF Is
    <2> QED BY <1>5
  <1>7. e[0] = m /\ \A k \in 1 .. n : e[k] = MapFresh(e[k - 1], c, vs[k])
    <2> HIDE DEF e, n
    <2>1. 0 \in 0 .. n /\ \A k \in 1 .. n : k \in 0 .. n /\ k # 0
      BY <1>1
    <2> QED BY <1>6, <2>1
  <1> HIDE DEF e, n, S, step, Is
  <1>8. \A k \in 0 .. n : k \in T
    <2>1. 0 \in T
      BY <1>1, <1>7
    <2>2. \A k \in 1 .. n : k - 1 \in T => k \in T
      <3> SUFFICES ASSUME NEW k \in 1 .. n, k - 1 \in T PROVE Keeps(e[k], c, h, f)
        BY <1>1
      <3> QED BY <1>1, <1>7, MapRoundKeeps
    <2> HIDE DEF T
    <2> QED BY <1>1, <2>1, <2>2, UpTo
  <1> QED BY <1>2, <1>8 DEF n

LEMMA UnmapAllKeeps ==
  ASSUME NEW m, NEW c \in Page \ {0}, NEW h, NEW f, Keeps(m, c, h, f), NEW vs \in Seq(Nat)
  PROVE  Keeps(UnmapAll(m, c, vs), c, h, f)
  <1> DEFINE n     == Len(vs)
             S     == {w \in Memory : Keeps(w, c, h, f)}
             Is(g) == g = [k \in 0 .. n |-> IF k = 0 THEN m ELSE Unmapped(g[k - 1], c, vs[k])]
             step  == [y \in S \X (1 .. n) |-> Unmapped(y[1], c, vs[y[2]])]
             e     == CHOOSE g : Is(g)
             T     == {k \in 0 .. n : Keeps(e[k], c, h, f)}
  <1>1. n \in Nat /\ \A k \in 1 .. n : vs[k] \in Nat
    OBVIOUS
  <1>2. UnmapAll(m, c, vs) = e[n]
    BY DEF UnmapAll
  <1>3. \A w \in S, k \in 1 .. n : step[<<w, k>>] = Unmapped(w, c, vs[k]) /\ step[<<w, k>>] \in S
    <2> SUFFICES ASSUME NEW w \in S, NEW k \in 1 .. n
                 PROVE  step[<<w, k>>] = Unmapped(w, c, vs[k]) /\ Unmapped(w, c, vs[k]) \in S
      OBVIOUS
    <2>1. Keeps(Unmapped(w, c, vs[k]), c, h, f)
      BY <1>1, UnmappedKeeps
    <2> QED BY <2>1 DEF Keeps
  <1>4. m \in S
    BY DEF Keeps
  <1>5. \E g : Is(g)
    <2> HIDE DEF n, S, step
    <2>1. PICK g : IsLoop(g, m, step, n) /\ \A k \in 0 .. n : g[k] \in S
      <3>1. \A w \in S : \A k \in 1 .. n : step[<<w, k>>] \in S
        BY <1>3
      <3> HIDE DEF Is, e, T
      <3> QED BY <1>1, <1>4, <3>1, LoopExists, Zenon
    <2>2. \A k \in 1 .. n : k - 1 \in 0 .. n /\ g[k - 1] \in S
      BY <1>1, <2>1
    <2>3. \A k \in 0 .. n : (IF k = 0 THEN m ELSE step[<<g[k - 1], k>>])
                              = IF k = 0 THEN m ELSE Unmapped(g[k - 1], c, vs[k])
      BY <1>1, <1>3, <2>2
    <2>4. [k \in 0 .. n |-> IF k = 0 THEN m ELSE step[<<g[k - 1], k>>]]
            = [k \in 0 .. n |-> IF k = 0 THEN m ELSE Unmapped(g[k - 1], c, vs[k])]
      BY <2>3
    <2>5. Is(g)
      BY <2>1, <2>4 DEF IsLoop
    <2> QED BY <2>5
  <1>6. Is(e)
    <2> HIDE DEF Is
    <2> QED BY <1>5
  <1>7. e[0] = m /\ \A k \in 1 .. n : e[k] = Unmapped(e[k - 1], c, vs[k])
    <2> HIDE DEF e, n
    <2>1. 0 \in 0 .. n /\ \A k \in 1 .. n : k \in 0 .. n /\ k # 0
      BY <1>1
    <2> QED BY <1>6, <2>1
  <1> HIDE DEF e, n, S, step, Is
  <1>8. \A k \in 0 .. n : k \in T
    <2>1. 0 \in T
      BY <1>1, <1>7
    <2>2. \A k \in 1 .. n : k - 1 \in T => k \in T
      <3> SUFFICES ASSUME NEW k \in 1 .. n, k - 1 \in T PROVE Keeps(e[k], c, h, f)
        BY <1>1
      <3> QED BY <1>1, <1>7, UnmappedKeeps
    <2> HIDE DEF T
    <2> QED BY <1>1, <2>1, <2>2, UpTo
  <1> QED BY <1>1, <1>2, <1>8

(***************************************************************************)
(* vmm_destroy_address_space of the tree with top table c in memory m: w   *)
(* is the memory when some of the pages of its user half have been given   *)
(* back.                                                                   *)
(***************************************************************************)
IsUserTable(t, c, x) == \E i \in UserIdx : x = t[c][i]
IsUserLeaf(t, c, x)  == \E i \in UserIdx, j \in Idx : t[c][i] # 0 /\ x = t[t[c][i]][j]
InHalf(t, c, x)      == c # 0 /\ x # 0 /\ (x = c \/ IsUserTable(t, c, x) \/ IsUserLeaf(t, c, x))

Tears(m, c, h, w) ==
  /\ w \in Memory /\ PmmOK(w) /\ w.mem = m.mem /\ w.bm \subseteq m.bm /\ h \subseteq w.held
  /\ \A x \in Page : InHalf(m.mem, c, x) /\ x \in w.bm => <<x, 1>> \in w.held

\* What a process's tree does not have.
Foreign(m, c, h) == \A r \in h, x \in Page : InHalf(m.mem, c, x) => r # <<x, 1>>

LEMMA FreePageTears ==
  ASSUME NEW m, NEW c, NEW h, Foreign(m, c, h), NEW w, Tears(m, c, h, w),
         NEW x \in Page, InHalf(m.mem, c, x)
  PROVE  /\ Tears(m, c, h, FreePage(w, x))
         /\ x \notin FreePage(w, x).bm /\ FreePage(w, x).bm \subseteq w.bm
  <1>1. CASE x \notin w.bm
    <2>1. FreePage(w, x) = w
      BY <1>1 DEF FreePage
    <2> QED BY <1>1, <2>1
  <1>2. CASE x \in w.bm
    <2> DEFINE z == FreePage(w, x)
    <2>1. w \in Memory /\ PmmOK(w) /\ <<x, 1>> \in w.held
      BY <1>2 DEF Tears
    <2>2. /\ z \in Memory /\ PmmOK(z)
          /\ z.held = w.held \ {<<x, 1>>} /\ z.bm = w.bm \ {x} /\ z.mem = w.mem
      BY <2>1, FreeKeepsPmm
    <2> HIDE DEF z
    <2>3. h \subseteq z.held
      BY <2>2 DEF Tears, Foreign
    <2>4. \A y \in Page : InHalf(m.mem, c, y) /\ y \in z.bm => <<y, 1>> \in z.held
      BY <2>2 DEF Tears
    <2>5. Tears(m, c, h, z)
      BY <2>2, <2>3, <2>4 DEF Tears
    <2> QED BY <2>2, <2>5 DEF z
  <1> QED BY <1>1, <1>2

LEMMA IdxCount ==
  /\ ENTRIES \in Nat /\ USER_ENTRIES \in Nat /\ UserIdx \subseteq Idx
  /\ \A k \in 1 .. ENTRIES : k - 1 \in Idx
  /\ \A j \in Idx : j \in Nat /\ j + 1 \in 1 .. ENTRIES
  /\ \A k \in 1 .. USER_ENTRIES : k - 1 \in UserIdx
  /\ \A j \in UserIdx : j \in Nat /\ j + 1 \in 1 .. USER_ENTRIES
  BY SpaceAssumption DEF Idx, UserIdx

LEMMA HalfInTree == ASSUME NEW t, NEW c, NEW x, InHalf(t, c, x) PROVE InTree(t, c, x)
  <1>1. UserIdx \subseteq Idx
    BY IdxCount
  <1>2. IsUserTable(t, c, x) => IsTable(t, c, x)
    BY <1>1 DEF IsUserTable, IsTable
  <1>3. IsUserLeaf(t, c, x) => IsLeaf(t, c, x)
    BY <1>1 DEF IsUserLeaf, IsLeaf
  <1> QED BY <1>2, <1>3 DEF InHalf, InTree

\* In a tree a page that hangs below another entry is not in the user half.
LEMMA BeyondHalf ==
  ASSUME NEW t, NEW c, c # 0, IsTree(t, c), NEW i \in Idx \ UserIdx, t[c][i] # 0
  PROVE  /\ ~InHalf(t, c, t[c][i])
         /\ \A j \in Idx : ~InHalf(t, c, t[t[c][i]][j])
  <1>0. UserIdx \subseteq Idx
    BY IdxCount
  <1>1. TableOnce(t, c) /\ TopOnce(t, c) /\ LeafNoTable(t, c) /\ LeafOnce(t, c)
    BY DEF IsTree
  <1>2. ~InHalf(t, c, t[c][i])
    <2> DEFINE x == t[c][i]
    <2>1. IsTable(t, c, x)
      BY DEF IsTable
    <2>2. x # c /\ ~IsLeaf(t, c, x)
      BY <1>1, <2>1 DEF TopOnce, LeafNoTable
    <2>3. ~IsUserTable(t, c, x)
      BY <1>0, <1>1 DEF IsUserTable, TableOnce
    <2>4. ~IsUserLeaf(t, c, x)
      BY <1>0, <2>2 DEF IsUserLeaf, IsLeaf
    <2> QED BY <2>2, <2>3, <2>4 DEF InHalf
  <1>3. ASSUME NEW j \in Idx PROVE ~InHalf(t, c, t[t[c][i]][j])
    <2> DEFINE x == t[t[c][i]][j]
    <2>1. SUFFICES ASSUME x # 0 PROVE ~InHalf(t, c, x)
      BY DEF InHalf
    <2>2. IsLeaf(t, c, x)
      BY DEF IsLeaf
    <2>3. x # c /\ ~IsTable(t, c, x)
      BY <1>1, <2>1, <2>2 DEF TopOnce, LeafNoTable
    <2>4. ~IsUserTable(t, c, x)
      BY <1>0, <2>3 DEF IsUserTable, IsTable
    <2>5. ~IsUserLeaf(t, c, x)
      BY <1>0, <1>1, <2>1 DEF IsUserLeaf, LeafOnce
    <2> QED BY <2>3, <2>4, <2>5 DEF InHalf
  <1> QED BY <1>2, <1>3

LEMMA FreeLeavesTears ==
  ASSUME NEW m, m.mem \in Tables, NEW c \in Page \ {0}, NEW h, Foreign(m, c, h), NEW w, Tears(m, c, h, w),
         NEW i \in UserIdx, m.mem[c][i] # 0
  PROVE  LET t == m.mem[c][i]
             z == FreeLeaves(w, t)
         IN  /\ Tears(m, c, h, z) /\ z.bm \subseteq w.bm
             /\ \A j \in Idx : m.mem[t][j] # 0 => m.mem[t][j] \notin z.bm
  <1> DEFINE n     == ENTRIES
             t     == m.mem[c][i]
             S     == {y \in Memory : Tears(m, c, h, y)}
             body(y, k) == IF w.mem[t][k - 1] = 0 THEN y ELSE FreePage(y, w.mem[t][k - 1])
             Is(g) == g = [k \in 0 .. n |-> IF k = 0 THEN w ELSE body(g[k - 1], k)]
             step  == [y \in S \X (1 .. n) |-> body(y[1], y[2])]
             e     == CHOOSE g : Is(g)
             Given(y, k) == \A j \in Idx : j < k /\ m.mem[t][j] # 0 => m.mem[t][j] \notin y.bm
             T     == {k \in 0 .. n : /\ Tears(m, c, h, e[k]) /\ e[k].bm \subseteq w.bm /\ Given(e[k], k)}
  <1>1. n \in Nat /\ t \in Page /\ w.mem = m.mem /\ w \in Memory
    BY IdxCount, EntryIsPage DEF Tears
  <1>2. FreeLeaves(w, t) = e[n]
    BY DEF FreeLeaves
  <1>3. \A y, k : Tears(m, c, h, y) /\ k \in 1 .. n =>
           /\ Tears(m, c, h, body(y, k)) /\ body(y, k).bm \subseteq y.bm
           /\ m.mem[t][k - 1] # 0 => m.mem[t][k - 1] \notin body(y, k).bm
    <2> SUFFICES ASSUME NEW y, NEW k, Tears(m, c, h, y), k \in 1 .. n
                 PROVE  /\ Tears(m, c, h, body(y, k)) /\ body(y, k).bm \subseteq y.bm
                        /\ m.mem[t][k - 1] # 0 => m.mem[t][k - 1] \notin body(y, k).bm
      OBVIOUS
    <2>1. k - 1 \in Idx
      BY IdxCount
    <2>2. CASE m.mem[t][k - 1] = 0
      <3>1. body(y, k) = y
        BY <1>1, <2>2
      <3> QED BY <2>2, <3>1
    <2>3. CASE m.mem[t][k - 1] # 0
      <3> DEFINE x == m.mem[t][k - 1]
      <3>1. body(y, k) = FreePage(y, x)
        BY <1>1, <2>3
      <3>2. x \in Page /\ IsUserLeaf(m.mem, c, x)
        BY <1>1, <2>1, EntryIsPage DEF IsUserLeaf
      <3>3. InHalf(m.mem, c, x)
        BY <2>3, <3>2 DEF InHalf
      <3> HIDE DEF body, x
      <3>4. /\ Tears(m, c, h, FreePage(y, x))
            /\ x \notin FreePage(y, x).bm /\ FreePage(y, x).bm \subseteq y.bm
        BY <3>2, <3>3, FreePageTears
      <3> QED BY <3>1, <3>4 DEF x
    <2> QED BY <2>2, <2>3
  <1>4. w \in S
    BY <1>1
  <1> HIDE DEF body
  <1>5. \E g : Is(g)
    <2>1. \A y \in S, k \in 1 .. n : step[<<y, k>>] = body(y, k) /\ step[<<y, k>>] \in S
      <3> SUFFICES ASSUME NEW y \in S, NEW k \in 1 .. n
                   PROVE  step[<<y, k>>] = body(y, k) /\ body(y, k) \in S
        OBVIOUS
      <3>1. Tears(m, c, h, body(y, k))
        BY <1>3
      <3> QED BY <3>1 DEF Tears
    <2> HIDE DEF n, S, step
    <2>2. PICK g : IsLoop(g, w, step, n) /\ \A k \in 0 .. n : g[k] \in S
      <3>1. \A y \in S : \A k \in 1 .. n : step[<<y, k>>] \in S
        BY <2>1
      <3> HIDE DEF Is, e, T
      <3> QED BY <1>1, <1>4, <3>1, LoopExists, Zenon
    <2>3. \A k \in 1 .. n : k - 1 \in 0 .. n /\ g[k - 1] \in S
      BY <1>1, <2>2
    <2>4. \A k \in 0 .. n : (IF k = 0 THEN w ELSE step[<<g[k - 1], k>>])
                              = IF k = 0 THEN w ELSE body(g[k - 1], k)
      BY <1>1, <2>1, <2>3
    <2>5. [k \in 0 .. n |-> IF k = 0 THEN w ELSE step[<<g[k - 1], k>>]]
            = [k \in 0 .. n |-> IF k = 0 THEN w ELSE body(g[k - 1], k)]
      BY <2>4
    <2>6. Is(g)
      BY <2>2, <2>5 DEF IsLoop
    <2> QED BY <2>6
  <1>6. Is(e)
    <2> HIDE DEF Is
    <2> QED BY <1>5
  <1>7. e[0] = w /\ \A k \in 1 .. n : e[k] = body(e[k - 1], k)
    <2> HIDE DEF e, n
    <2>1. 0 \in 0 .. n /\ \A k \in 1 .. n : k \in 0 .. n /\ k # 0
      BY <1>1
    <2> QED BY <1>6, <2>1
  <1> HIDE DEF e, n, S, step, Is
  <1>8. \A k \in 0 .. n : k \in T
    <2>1. 0 \in T
      <3>1. Given(w, 0)
        BY IdxCount
      <3> QED BY <1>1, <1>7, <3>1
    <2>2. \A k \in 1 .. n : k - 1 \in T => k \in T
      <3> SUFFICES ASSUME NEW k \in 1 .. n, k - 1 \in T PROVE k \in T
        OBVIOUS
      <3>1. /\ Tears(m, c, h, e[k - 1]) /\ e[k - 1].bm \subseteq w.bm /\ Given(e[k - 1], k - 1)
            /\ e[k] = body(e[k - 1], k) /\ k \in 0 .. n
        BY <1>1, <1>7
      <3>2. /\ Tears(m, c, h, e[k]) /\ e[k].bm \subseteq e[k - 1].bm
            /\ m.mem[t][k - 1] # 0 => m.mem[t][k - 1] \notin e[k].bm
        BY <1>3, <3>1
      <3>3. Given(e[k], k)
        <4> SUFFICES ASSUME NEW j \in Idx, j < k, m.mem[t][j] # 0 PROVE m.mem[t][j] \notin e[k].bm
          OBVIOUS
        <4>1. j = k - 1 \/ j < k - 1
          BY <1>1, IdxCount
        <4> QED BY <3>1, <3>2, <4>1
      <3> QED BY <3>1, <3>2, <3>3
    <2> HIDE DEF T
    <2> QED BY <1>1, <2>1, <2>2, UpTo
  <1>9. n \in 0 .. n /\ \A j \in Idx : j < n
    BY <1>1, IdxCount DEF n
  <1> QED BY <1>2, <1>8, <1>9

LEMMA FreeTableTears ==
  ASSUME NEW m, m.mem \in Tables, NEW c \in Page \ {0}, NEW h, Foreign(m, c, h), NEW w, Tears(m, c, h, w),
         NEW i \in UserIdx
  PROVE  LET t == m.mem[c][i]
             z == FreeTable(w, t)
         IN  /\ Tears(m, c, h, z) /\ z.bm \subseteq w.bm
             /\ t # 0 => t \notin z.bm /\ \A j \in Idx : m.mem[t][j] # 0 => m.mem[t][j] \notin z.bm
  <1> DEFINE t == m.mem[c][i]
             y == FreeLeaves(w, t)
  <1>1. CASE t = 0
    BY <1>1 DEF FreeTable
  <1>2. CASE t # 0
    <2>1. FreeTable(w, t) = FreePage(y, t)
      BY <1>2 DEF FreeTable
    <2>2. /\ Tears(m, c, h, y) /\ y.bm \subseteq w.bm
          /\ \A j \in Idx : m.mem[t][j] # 0 => m.mem[t][j] \notin y.bm
      BY <1>2, FreeLeavesTears
    <2>3. t \in Page /\ InHalf(m.mem, c, t)
      BY <1>2, IdxCount, EntryIsPage DEF InHalf, IsUserTable
    <2> HIDE DEF y, t
    <2>4. /\ Tears(m, c, h, FreePage(y, t))
          /\ t \notin FreePage(y, t).bm /\ FreePage(y, t).bm \subseteq y.bm
      BY <2>2, <2>3, FreePageTears
    <2>5. /\ Tears(m, c, h, FreeTable(w, t)) /\ FreeTable(w, t).bm \subseteq w.bm
          /\ t \notin FreeTable(w, t).bm
          /\ \A j \in Idx : m.mem[t][j] # 0 => m.mem[t][j] \notin FreeTable(w, t).bm
      BY <2>1, <2>2, <2>4
    <2> QED BY <2>5 DEF t
  <1> QED BY <1>1, <1>2

\* vmm_destroy_address_space gives back every page of the user half and no other.
LEMMA DestroyTears ==
  ASSUME NEW m \in Memory, PmmOK(m), NEW c \in Page \ {0}, SpaceOK(m, c),
         NEW h, h \subseteq m.held, Foreign(m, c, h)
  PROVE  LET z == vmm_destroy_address_space(m, c)
         IN  Tears(m, c, h, z) /\ \A x : InHalf(m.mem, c, x) => x \notin z.bm
  <1> DEFINE n     == USER_ENTRIES
             S     == {y \in Memory : Tears(m, c, h, y)}
             body(y, k) == FreeTable(y, m.mem[c][k - 1])
             Is(g) == g = [k \in 0 .. n |-> IF k = 0 THEN m ELSE body(g[k - 1], k)]
             step  == [y \in S \X (1 .. n) |-> body(y[1], y[2])]
             e     == CHOOSE g : Is(g)
             Gone(i, y) == /\ m.mem[c][i] \notin y.bm
                           /\ \A j \in Idx : m.mem[m.mem[c][i]][j] # 0 => m.mem[m.mem[c][i]][j] \notin y.bm
             Given(y, k) == \A i \in UserIdx : i < k /\ m.mem[c][i] # 0 => Gone(i, y)
             T     == {k \in 0 .. n : Tears(m, c, h, e[k]) /\ Given(e[k], k)}
  <1>1. n \in Nat /\ m.mem \in Tables
    BY IdxCount, MemoryFields
  <1>2. vmm_destroy_address_space(m, c) = FreePage(e[n], c)
    BY DEF vmm_destroy_address_space
  <1>3. \A y, k : Tears(m, c, h, y) /\ k \in 1 .. n =>
           /\ Tears(m, c, h, body(y, k)) /\ body(y, k).bm \subseteq y.bm
           /\ m.mem[c][k - 1] # 0 => Gone(k - 1, body(y, k))
    BY <1>1, IdxCount, FreeTableTears
  <1>4. Tears(m, c, h, m) /\ m \in S
    BY HalfInTree DEF Tears, SpaceOK
  <1> HIDE DEF body
  <1>5. \E g : Is(g)
    <2>1. \A y \in S, k \in 1 .. n : step[<<y, k>>] = body(y, k) /\ step[<<y, k>>] \in S
      <3> SUFFICES ASSUME NEW y \in S, NEW k \in 1 .. n
                   PROVE  step[<<y, k>>] = body(y, k) /\ body(y, k) \in S
        OBVIOUS
      <3>1. Tears(m, c, h, body(y, k))
        BY <1>3
      <3> QED BY <3>1 DEF Tears
    <2> HIDE DEF n, S, step
    <2>2. PICK g : IsLoop(g, m, step, n) /\ \A k \in 0 .. n : g[k] \in S
      <3>1. \A y \in S : \A k \in 1 .. n : step[<<y, k>>] \in S
        BY <2>1
      <3> HIDE DEF Is, e, T
      <3> QED BY <1>1, <1>4, <3>1, LoopExists, Zenon
    <2>3. \A k \in 1 .. n : k - 1 \in 0 .. n /\ g[k - 1] \in S
      BY <1>1, <2>2
    <2>4. \A k \in 0 .. n : (IF k = 0 THEN m ELSE step[<<g[k - 1], k>>])
                              = IF k = 0 THEN m ELSE body(g[k - 1], k)
      BY <1>1, <2>1, <2>3
    <2>5. [k \in 0 .. n |-> IF k = 0 THEN m ELSE step[<<g[k - 1], k>>]]
            = [k \in 0 .. n |-> IF k = 0 THEN m ELSE body(g[k - 1], k)]
      BY <2>4
    <2>6. Is(g)
      BY <2>2, <2>5 DEF IsLoop
    <2> QED BY <2>6
  <1>6. Is(e)
    <2> HIDE DEF Is
    <2> QED BY <1>5
  <1>7. e[0] = m /\ \A k \in 1 .. n : e[k] = body(e[k - 1], k)
    <2> HIDE DEF e, n
    <2>1. 0 \in 0 .. n /\ \A k \in 1 .. n : k \in 0 .. n /\ k # 0
      BY <1>1
    <2> QED BY <1>6, <2>1
  <1> HIDE DEF e, n, S, step, Is
  <1>8. \A k \in 0 .. n : k \in T
    <2>1. 0 \in T
      <3>1. Given(m, 0)
        BY IdxCount
      <3> QED BY <1>1, <1>4, <1>7, <3>1
    <2>2. \A k \in 1 .. n : k - 1 \in T => k \in T
      <3> SUFFICES ASSUME NEW k \in 1 .. n, k - 1 \in T PROVE k \in T
        OBVIOUS
      <3>1. /\ Tears(m, c, h, e[k - 1]) /\ Given(e[k - 1], k - 1)
            /\ e[k] = body(e[k - 1], k) /\ k \in 0 .. n
        BY <1>1, <1>7
      <3>2. /\ Tears(m, c, h, e[k]) /\ e[k].bm \subseteq e[k - 1].bm
            /\ m.mem[c][k - 1] # 0 => Gone(k - 1, e[k])
        BY <1>3, <3>1
      <3>3. Given(e[k], k)
        <4> SUFFICES ASSUME NEW i \in UserIdx, i < k, m.mem[c][i] # 0 PROVE Gone(i, e[k])
          OBVIOUS
        <4>1. i = k - 1 \/ i < k - 1
          BY <1>1, IdxCount
        <4> QED BY <3>1, <3>2, <4>1
      <3> QED BY <3>1, <3>2, <3>3
    <2> HIDE DEF T
    <2> QED BY <1>1, <2>1, <2>2, UpTo
  <1>9. n \in 0 .. n /\ \A i \in UserIdx : i < n
    BY <1>1, IdxCount DEF n
  <1>10. Tears(m, c, h, e[n]) /\ \A i \in UserIdx : m.mem[c][i] # 0 => Gone(i, e[n])
    BY <1>8, <1>9
  <1> DEFINE z == FreePage(e[n], c)
  <1>11. Tears(m, c, h, z) /\ c \notin z.bm /\ z.bm \subseteq e[n].bm
    <2>1. InHalf(m.mem, c, c)
      BY DEF InHalf
    <2> QED BY <1>10, <2>1, FreePageTears
  <1> HIDE DEF z
  <1>12. ASSUME NEW x, InHalf(m.mem, c, x) PROVE x \notin z.bm
    <2>1. CASE x = c
      BY <1>11, <2>1
    <2>2. CASE IsUserTable(m.mem, c, x)
      BY <1>10, <1>11, <1>12, <2>2 DEF InHalf, IsUserTable
    <2>3. CASE IsUserLeaf(m.mem, c, x)
      BY <1>10, <1>11, <1>12, <2>3 DEF InHalf, IsUserLeaf
    <2> QED BY <1>12, <2>1, <2>2, <2>3 DEF InHalf
  <1> QED BY <1>2, <1>11, <1>12 DEF z

-----------------------------------------------------------------------------
(***************************************************************************)
(* All address spaces together: the trees of the live processes have no    *)
(* page in common.  Outside are the runs that belong to no tree: those of  *)
(* the kernel heap and the slabs, and the pages a process has lost.        *)
(***************************************************************************)
SpacesOK(m, c3, al) ==
  /\ m \in Memory /\ PmmOK(m)
  /\ \A p \in al : SpaceOK(m, c3[p])
  /\ \A p, q \in al : p # q => \A x : ~(InTree(m.mem, c3[p], x) /\ InTree(m.mem, c3[q], x))

Outside(m, c3, al) == {r \in m.held : \A q \in al : ~InTree(m.mem, c3[q], r[1])}

LEMMA InTreePage ==
  ASSUME NEW t \in Tables, NEW c \in Page, NEW x, InTree(t, c, x)
  PROVE  x \in Page \ {0}
  <1>1. \A i \in Idx : t[c][i] \in Page
    BY EntryIsPage
  <1>2. \A i, j \in Idx : t[t[c][i]][j] \in Page
    BY <1>1, EntryIsPage
  <1> QED BY <1>1, <1>2 DEF InTree, IsTable, IsLeaf

LEMMA UntouchedTree ==
  ASSUME NEW m \in Memory, NEW w \in Memory, NEW c \in Page, SpaceOK(m, c),
         \A x \in Page : InTree(m.mem, c, x) => <<x, 1>> \in w.held /\ w.mem[x] = m.mem[x]
  PROVE  SpaceOK(w, c) /\ \A x : InTree(w.mem, c, x) <=> InTree(m.mem, c, x)
  <1>1. m.mem \in Tables /\ w.mem \in Tables
    BY MemoryFields
  <1>2. c # 0 => w.mem[c] = m.mem[c]
    BY TopIsInTree
  <1>3. c # 0 => \A i \in Idx : m.mem[c][i] # 0 => w.mem[m.mem[c][i]] = m.mem[m.mem[c][i]]
    <2> SUFFICES ASSUME c # 0, NEW i \in Idx, m.mem[c][i] # 0
                 PROVE  w.mem[m.mem[c][i]] = m.mem[m.mem[c][i]]
      OBVIOUS
    <2>1. m.mem[c][i] \in Page /\ InTree(m.mem, c, m.mem[c][i])
      BY <1>1, EntryIsPage DEF InTree, IsTable
    <2> QED BY <2>1
  <1>4. IsTree(w.mem, c) /\ \A x : InTree(w.mem, c, x) <=> InTree(m.mem, c, x)
    BY <1>1, <1>2, <1>3, SameTree DEF SpaceOK
  <1> QED BY <1>4 DEF SpaceOK

\* A system call of process p leaves the other processes alone.
LEMMA CallKeeps ==
  ASSUME NEW m, NEW c3 \in [Procs -> Page], NEW al \in SUBSET Procs, SpacesOK(m, c3, al), NEW p \in al,
         NEW h, h = {r \in m.held : ~InTree(m.mem, c3[p], r[1])},
         NEW w, Keeps(w, c3[p], h, m.mem)
  PROVE  SpacesOK(w, c3, al) /\ Outside(m, c3, al) \subseteq Outside(w, c3, al)
  <1>1. m \in Memory /\ PmmOK(m) /\ m.mem \in Tables
    BY MemoryFields DEF SpacesOK
  <1>2. w \in Memory /\ PmmOK(w) /\ SpaceOK(w, c3[p]) /\ w.mem \in Tables
    BY MemoryFields DEF Keeps
  <1>3. ASSUME NEW q \in al, q # p
        PROVE  SpaceOK(w, c3[q]) /\ \A x : InTree(w.mem, c3[q], x) <=> InTree(m.mem, c3[q], x)
    <2>1. SpaceOK(m, c3[q]) /\ c3[q] \in Page
      BY <1>3 DEF SpacesOK
    <2>2. ASSUME NEW x \in Page, InTree(m.mem, c3[q], x)
          PROVE  <<x, 1>> \in w.held /\ w.mem[x] = m.mem[x]
      <3>1. <<x, 1>> \in m.held /\ ~InTree(m.mem, c3[p], x)
        BY <1>3, <2>1, <2>2 DEF SpaceOK, SpacesOK
      <3>2. <<x, 1>> \in h
        BY <3>1
      <3>3. x \in Run(x, 1)
        BY PageNat DEF Run
      <3> QED BY <3>2, <3>3 DEF Keeps
    <2> QED BY <1>1, <1>2, <2>1, <2>2, UntouchedTree
  <1>4. ASSUME NEW q \in al, q # p, NEW x, InTree(w.mem, c3[q], x) PROVE ~InTree(w.mem, c3[p], x)
    <2>1. InTree(m.mem, c3[q], x) /\ c3[q] \in Page
      BY <1>3, <1>4
    <2>2. x \in Page /\ <<x, 1>> \in m.held /\ ~InTree(m.mem, c3[p], x)
      BY <1>1, <1>4, <2>1, InTreePage DEF SpacesOK, SpaceOK
    <2>3. <<x, 1>> \in h
      BY <2>2
    <2> QED BY <2>3 DEF Keeps
  <1>5. SpacesOK(w, c3, al)
    <2>1. \A q \in al : SpaceOK(w, c3[q])
      BY <1>2, <1>3
    <2>2. ASSUME NEW q \in al, NEW s \in al, q # s, NEW x
          PROVE  ~(InTree(w.mem, c3[q], x) /\ InTree(w.mem, c3[s], x))
      <3>1. CASE q # p /\ s # p
        BY <1>3, <2>2, <3>1 DEF SpacesOK
      <3>2. CASE q = p \/ s = p
        BY <1>4, <2>2, <3>2
      <3> QED BY <3>1, <3>2
    <2> QED BY <1>2, <2>1, <2>2 DEF SpacesOK
  <1>6. ASSUME NEW r \in Outside(m, c3, al) PROVE r \in Outside(w, c3, al)
    <2>1. r \in m.held /\ \A q \in al : ~InTree(m.mem, c3[q], r[1])
      BY DEF Outside
    <2>2. r \in h
      BY <2>1
    <2>3. r \in w.held /\ ~InTree(w.mem, c3[p], r[1])
      BY <2>2 DEF Keeps
    <2> QED BY <1>3, <2>1, <2>3 DEF Outside
  <1> QED BY <1>5, <1>6

\* process_create: the pages of the new process p were free.
LEMMA JoinKeeps ==
  ASSUME NEW m, NEW c3 \in [Procs -> Page], NEW al \in SUBSET Procs, SpacesOK(m, c3, al),
         NEW p \in Procs, p \notin al, NEW c \in Page, NEW w, Keeps(w, c, m.held, m.mem)
  PROVE  LET d3 == [c3 EXCEPT ![p] = c]
         IN  SpacesOK(w, d3, al \cup {p}) /\ Outside(m, c3, al) \subseteq Outside(w, d3, al \cup {p})
  <1> DEFINE d3 == [c3 EXCEPT ![p] = c]
             bl == al \cup {p}
  <1>0. d3[p] = c /\ \A q \in al : d3[q] = c3[q] /\ q # p
    OBVIOUS
  <1> HIDE DEF d3
  <1>1. m \in Memory /\ PmmOK(m) /\ m.mem \in Tables
    BY MemoryFields DEF SpacesOK
  <1>2. w \in Memory /\ PmmOK(w) /\ SpaceOK(w, c) /\ w.mem \in Tables
    BY MemoryFields DEF Keeps
  <1>3. ASSUME NEW q \in al
        PROVE  SpaceOK(w, c3[q]) /\ \A x : InTree(w.mem, c3[q], x) <=> InTree(m.mem, c3[q], x)
    <2>1. SpaceOK(m, c3[q]) /\ c3[q] \in Page
      BY DEF SpacesOK
    <2>2. ASSUME NEW x \in Page, InTree(m.mem, c3[q], x)
          PROVE  <<x, 1>> \in w.held /\ w.mem[x] = m.mem[x]
      <3>1. <<x, 1>> \in m.held
        BY <2>1, <2>2 DEF SpaceOK
      <3>2. x \in Run(x, 1)
        BY PageNat DEF Run
      <3> QED BY <3>1, <3>2 DEF Keeps
    <2> QED BY <1>1, <1>2, <2>1, <2>2, UntouchedTree
  <1>4. ASSUME NEW q \in al, NEW x, InTree(w.mem, c3[q], x) PROVE ~InTree(w.mem, c, x)
    <2>1. InTree(m.mem, c3[q], x) /\ c3[q] \in Page
      BY <1>3, <1>4
    <2>2. x \in Page /\ <<x, 1>> \in m.held
      BY <1>1, <2>1, InTreePage DEF SpacesOK, SpaceOK
    <2> QED BY <2>2 DEF Keeps
  <1>5. SpacesOK(w, d3, bl)
    <2>1. \A q \in bl : SpaceOK(w, d3[q])
      BY <1>0, <1>2, <1>3
    <2>2. ASSUME NEW q \in bl, NEW s \in bl, q # s, NEW x
          PROVE  ~(InTree(w.mem, d3[q], x) /\ InTree(w.mem, d3[s], x))
      <3>1. CASE q \in al /\ s \in al
        BY <1>0, <1>3, <2>2, <3>1 DEF SpacesOK
      <3>2. CASE q = p /\ s \in al
        BY <1>0, <1>4, <3>2
      <3>3. CASE s = p /\ q \in al
        BY <1>0, <1>4, <3>3
      <3> QED BY <2>2, <3>1, <3>2, <3>3
    <2> QED BY <1>2, <2>1, <2>2 DEF SpacesOK
  <1>6. ASSUME NEW r \in Outside(m, c3, al) PROVE r \in Outside(w, d3, bl)
    <2>1. r \in m.held /\ \A q \in al : ~InTree(m.mem, c3[q], r[1])
      BY DEF Outside
    <2>2. r \in w.held /\ ~InTree(w.mem, c, r[1])
      BY <2>1 DEF Keeps
    <2> QED BY <1>0, <1>3, <2>1, <2>2 DEF Outside
  <1> QED BY <1>5, <1>6 DEF d3

\* process_exit: the other trees do not notice.
LEMMA LeaveKeeps ==
  ASSUME NEW m, NEW c3 \in [Procs -> Page], NEW al \in SUBSET Procs, SpacesOK(m, c3, al), NEW p \in al,
         NEW h, {r \in m.held : ~InTree(m.mem, c3[p], r[1])} \subseteq h,
         NEW w, Tears(m, c3[p], h, w)
  PROVE  LET d3 == [c3 EXCEPT ![p] = 0]
         IN  SpacesOK(w, d3, al \ {p}) /\ Outside(m, c3, al) \subseteq Outside(w, d3, al \ {p})
  <1> DEFINE d3 == [c3 EXCEPT ![p] = 0]
             bl == al \ {p}
  <1>0. \A q \in bl : d3[q] = c3[q] /\ q # p /\ q \in al
    OBVIOUS
  <1> HIDE DEF d3
  <1>1. m \in Memory /\ PmmOK(m)
    BY DEF SpacesOK
  <1>2. w \in Memory /\ PmmOK(w) /\ w.mem = m.mem /\ h \subseteq w.held
    BY DEF Tears
  <1>3. ASSUME NEW q \in bl PROVE SpaceOK(w, c3[q])
    <2>1. SpaceOK(m, c3[q]) /\ c3[q] \in Page
      BY <1>0 DEF SpacesOK
    <2>2. ASSUME NEW x \in Page, InTree(m.mem, c3[q], x) PROVE <<x, 1>> \in w.held
      <3>1. <<x, 1>> \in m.held /\ ~InTree(m.mem, c3[p], x)
        BY <1>0, <2>1, <2>2 DEF SpaceOK, SpacesOK
      <3> QED BY <1>2, <3>1
    <2> QED BY <1>2, <2>1, <2>2 DEF SpaceOK
  <1>4. SpacesOK(w, d3, bl)
    BY <1>0, <1>2, <1>3 DEF SpacesOK
  <1>5. ASSUME NEW r \in Outside(m, c3, al) PROVE r \in Outside(w, d3, bl)
    BY <1>0, <1>2 DEF Outside
  <1> QED BY <1>4, <1>5 DEF d3

-----------------------------------------------------------------------------
(***************************************************************************)
(* The invariant of the address spaces.                                    *)
(***************************************************************************)
SpaceInv ==
  /\ SpacesOK(Now, cr3, alive)
  /\ cr3 \in [Procs -> Page] /\ alive \subseteq Procs
  /\ brk \in [Procs -> Nat] /\ user_heap_end \in [Procs -> Nat]

\* What the processes do not have, and what they have.
Spare     == Outside(Now, cr3, alive)
Others(p) == {r \in held : ~InTree(mem, cr3[p], r[1])}

LEMMA NowFields == Now.bm = pmm_bitmap /\ Now.used = pmm_used_pages /\ Now.held = held /\ Now.mem = mem
  BY DEF Now

LEMMA CommitNow ==
  ASSUME NEW m \in Memory, Commit(m)
  PROVE  Now' = m
  BY DEF Commit, Now, Memory

LEMMA NowKeeps ==
  ASSUME SpaceInv, NEW p \in alive
  PROVE  Keeps(Now, cr3[p], Others(p), mem) /\ cr3[p] \in Page /\ p \in Procs
  BY NowFields DEF SpaceInv, SpacesOK, Keeps, Others

\* A system call that ends with memory w.
LEMMA CallStep ==
  ASSUME SpaceInv, NEW p \in alive, NEW w, Keeps(w, cr3[p], Others(p), mem), Commit(w),
         cr3' = cr3, alive' = alive
  PROVE  SpacesOK(Now, cr3, alive)' /\ Spare \subseteq Spare'
  <1>1. w \in Memory /\ Now' = w
    BY CommitNow DEF Keeps
  <1>2. Others(p) = {r \in Now.held : ~InTree(Now.mem, cr3[p], r[1])} /\ mem = Now.mem
    BY NowFields DEF Others
  <1>3. cr3 \in [Procs -> Page] /\ alive \in SUBSET Procs /\ SpacesOK(Now, cr3, alive)
    BY DEF SpaceInv
  <1> HIDE DEF Others, Now
  <1>4. SpacesOK(w, cr3, alive) /\ Outside(Now, cr3, alive) \subseteq Outside(w, cr3, alive)
    BY <1>2, <1>3, CallKeeps
  <1> QED BY <1>1, <1>4 DEF Spare

LEMMA Quotient ==
  ASSUME NEW a \in Nat, NEW b \in Nat, NEW d \in Nat \ {0}
  PROVE  /\ a \div d \in Nat /\ d * (a \div d) <= a /\ a < d * (a \div d) + d
         /\ a <= b => a \div d <= b \div d
         /\ (b * d) \div d = b
  <1>1. a \div d \in Nat /\ d * (a \div d) <= a /\ a < d * (a \div d) + d
    OBVIOUS
  <1>2. b \div d \in Nat /\ d * (b \div d) <= b /\ b < d * (b \div d) + d
    OBVIOUS
  <1>3. ASSUME a <= b PROVE a \div d <= b \div d
    <2> DEFINE q == a \div d
               r == b \div d
    <2>1. SUFFICES ASSUME q > r PROVE FALSE
      BY <1>1, <1>2
    <2> HIDE DEF q, r
    <2>2. q \in Nat /\ r \in Nat /\ d * q <= a /\ b < d * r + d
      BY <1>1, <1>2 DEF q, r
    <2>3. d * (r + 1) <= d * q
      BY <2>1, <2>2
    <2>4. d * (r + 1) = d * r + d
      BY <2>2
    <2>5. d * q \in Nat /\ d * r \in Nat
      BY <2>2
    <2> QED BY <1>3, <2>2, <2>3, <2>4, <2>5
  <1>4. (b * d) \div d = b
    <2> DEFINE x == b * d
               q == x \div d
    <2>1. x \in Nat /\ q \in Nat /\ d * q <= x /\ x < d * q + d
      OBVIOUS
    <2>2. x = d * b
      OBVIOUS
    <2> HIDE DEF x, q
    <2>3. q <= b
      <3>1. SUFFICES ASSUME q >= b + 1 PROVE FALSE
        BY <2>1
      <3>2. d * q >= d * (b + 1) /\ d * (b + 1) = d * b + d
        BY <2>1, <3>1
      <3>3. d * b \in Nat /\ d * q \in Nat
        BY <2>1
      <3> QED BY <2>1, <2>2, <3>2, <3>3
    <2>4. q >= b
      <3>1. SUFFICES ASSUME b >= q + 1 PROVE FALSE
        BY <2>1
      <3>2. d * b >= d * (q + 1) /\ d * (q + 1) = d * q + d
        BY <2>1, <3>1
      <3>3. d * b \in Nat /\ d * q \in Nat
        BY <2>1
      <3> QED BY <2>1, <2>2, <3>2, <3>3
    <2> QED BY <2>1, <2>3, <2>4 DEF q, x
  <1> QED BY <1>1, <1>3, <1>4

LEMMA PageUpProperties ==
  ASSUME NEW a \in Nat, NEW b \in Nat, a <= b
  PROVE  /\ PageUp(a) \in Nat /\ a <= PageUp(a)
         /\ PageNo(a) \in Nat /\ PageNo(PageUp(a)) \in Nat
         /\ PageNo(a) <= PageNo(PageUp(a)) /\ PageNo(PageUp(a)) <= PageNo(PageUp(b))
  <1> DEFINE d == PAGE_SIZE
             q == (a + d - 1) \div d
             r == (b + d - 1) \div d
  <1>1. d \in Nat \ {0}
    BY SpaceAssumption
  <1>2. a + d - 1 \in Nat /\ b + d - 1 \in Nat /\ a + d - 1 <= b + d - 1
    BY <1>1
  <1>3. q \in Nat /\ r \in Nat /\ q <= r /\ a + d - 1 < d * q + d
    <2> HIDE DEF d
    <2> QED BY <1>1, <1>2, Quotient
  <1>4. PageUp(a) = q * d /\ PageUp(b) = r * d
    BY DEF PageUp
  <1> HIDE DEF q, r, d
  <1>5. (q * d) \div d = q /\ (r * d) \div d = r
    BY <1>1, <1>3, Quotient
  <1>6. q * d \in Nat /\ q * d = d * q
    BY <1>1, <1>3
  <1>7. a <= q * d
    BY <1>1, <1>3, <1>6
  <1>8. a \div d \in Nat /\ a \div d <= (q * d) \div d
    BY <1>1, <1>6, <1>7, Quotient
  <1> QED BY <1>3, <1>4, <1>5, <1>6, <1>7, <1>8 DEF PageNo, d

LEMMA PagesProperties ==
  ASSUME NEW a \in Nat, NEW n \in Nat
  PROVE  Len(Pages(a, n)) = n /\ DOMAIN Pages(a, n) = 1 .. n /\ Pages(a, n) \in Seq(Nat)
  BY DEF Pages

LEMMA MapNewKeeps ==
  ASSUME NEW m, NEW c \in Page, NEW h, NEW f, Keeps(m, c, h, f), NEW vs \in Seq(Nat)
  PROVE  Keeps(MapNew(m, c, vs), c, h, f)
  <1>1. Len(vs) \in 0 .. Len(vs)
    OBVIOUS
  <1> QED BY <1>1, MappingKeeps DEF MapNew

LEMMA BrkStep ==
  ASSUME SpaceInv, NEW p \in Procs, NEW addr \in BrkArgs, sys_brk(p, addr)
  PROVE  SpaceInv' /\ Spare \subseteq Spare'
  <1> DEFINE from == PageNo(user_heap_end[p])
             to   == PageNo(PageUp(addr))
             w    == MapNew(Now, cr3[p], Pages(from, to - from))
  <1>1. /\ p \in alive /\ cr3' = cr3 /\ alive' = alive /\ brk' = [brk EXCEPT ![p] = addr]
        /\ addr >= user_heap /\ addr - user_heap <= BRK_LIMIT
    BY DEF sys_brk
  <1>2. addr \in Nat /\ PAGE_SIZE \in Nat /\ user_heap = PAGE_SIZE
    BY SpaceAssumption DEF user_heap
  <1>3. brk' \in [Procs -> Nat] /\ cr3' \in [Procs -> Page] /\ alive' \subseteq Procs
    BY <1>1, <1>2 DEF SpaceInv
  <1>4. user_heap_end[p] \in Nat
    BY DEF SpaceInv
  <1>5. CASE /\ addr > user_heap_end[p] /\ Commit(w)
             /\ user_heap_end' = [user_heap_end EXCEPT ![p] = PageUp(addr)]
    <2>1. from \in Nat /\ to \in Nat /\ from <= to /\ PageUp(addr) \in Nat
      <3>1. user_heap_end[p] <= addr
        BY <1>2, <1>4, <1>5
      <3>2. PageUp(addr) \in Nat /\ to \in Nat
        BY <1>2, PageUpProperties
      <3>3. from \in Nat /\ from <= PageNo(PageUp(user_heap_end[p])) /\ PageNo(PageUp(user_heap_end[p])) \in Nat
        BY <1>4, PageUpProperties
      <3>4. PageNo(PageUp(user_heap_end[p])) <= to
        BY <1>2, <1>4, <3>1, PageUpProperties
      <3> HIDE DEF from, to
      <3> QED BY <3>2, <3>3, <3>4
    <2>3. Pages(from, to - from) \in Seq(Nat)
      <3> HIDE DEF from, to
      <3>1. to - from \in Nat
        BY <2>1
      <3> QED BY <2>1, <3>1, PagesProperties
    <2>4. Keeps(w, cr3[p], Others(p), mem)
      BY <1>1, <2>3, NowKeeps, MapNewKeeps
    <2> HIDE DEF w, to
    <2>5. SpacesOK(Now, cr3, alive)' /\ Spare \subseteq Spare'
      BY <1>1, <1>5, <2>4, CallStep
    <2>6. user_heap_end' \in [Procs -> Nat]
      BY <1>5, <2>1 DEF SpaceInv
    <2> QED BY <1>3, <2>5, <2>6 DEF SpaceInv
  <1>6. CASE UNCHANGED <<vars, mem, user_heap_end>>
    <2>1. Now' = Now /\ cr3' = cr3 /\ alive' = alive
      BY <1>1, <1>6 DEF Now, vars
    <2>2. SpacesOK(Now, cr3, alive)' /\ Spare' = Spare
      BY <2>1 DEF SpaceInv, Spare
    <2> QED BY <1>3, <1>6, <2>2 DEF SpaceInv
  <1> QED BY <1>5, <1>6 DEF sys_brk

LEMMA SbrkStep ==
  ASSUME SpaceInv, NEW p \in Procs, NEW inc \in SbrkArgs, sys_sbrk(p, inc)
  PROVE  SpaceInv' /\ Spare \subseteq Spare'
  <1> DEFINE new == PageUp(brk[p] + inc)
             a   == PageNo(PageUp(brk[p]))
             n   == PageNo(new) - a
             vs  == Pages(a, n)
             w   == MapNew(Now, cr3[p], vs)
  <1>1. /\ p \in alive /\ cr3' = cr3 /\ alive' = alive /\ Commit(w)
        /\ \/ UNCHANGED <<brk, user_heap_end>>
           \/ brk' = [brk EXCEPT ![p] = new] /\ user_heap_end' = [user_heap_end EXCEPT ![p] = Max({@, new})]
    BY DEF sys_sbrk
  <1>2. inc \in Nat /\ brk[p] \in Nat /\ user_heap_end[p] \in Nat
    BY SpaceAssumption DEF SpaceInv
  <1>3. a \in Nat /\ n \in Nat /\ new \in Nat
    <2>1. brk[p] + inc \in Nat /\ brk[p] <= brk[p] + inc
      BY <1>2
    <2>2. a \in Nat /\ a <= PageNo(new) /\ PageNo(new) \in Nat /\ new \in Nat
      BY <1>2, <2>1, PageUpProperties
    <2> HIDE DEF a, new
    <2> QED BY <2>2
  <1>4. vs \in Seq(Nat)
    <2> HIDE DEF a, n
    <2> QED BY <1>1, <1>3, PagesProperties
  <1> HIDE DEF vs, a, n, new
  <1>5. Keeps(w, cr3[p], Others(p), mem)
    BY <1>1, <1>4, NowKeeps, MapNewKeeps
  <1> HIDE DEF w
  <1>6. SpacesOK(Now, cr3, alive)' /\ Spare \subseteq Spare'
    BY <1>1, <1>5, CallStep
  <1>7. Max({user_heap_end[p], new}) \in Nat
    <2> DEFINE x == user_heap_end[p]
    <2>1. x \in Nat /\ new \in Nat
      BY <1>2, <1>3
    <2> HIDE DEF x
    <2>2. \E y \in {x, new} : \A z \in {x, new} : y >= z
      BY <2>1
    <2>3. Max({x, new}) \in {x, new}
      BY <2>2 DEF Max
    <2> QED BY <2>1, <2>3 DEF x
  <1>8. brk' \in [Procs -> Nat] /\ user_heap_end' \in [Procs -> Nat]
    <2>1. brk \in [Procs -> Nat] /\ user_heap_end \in [Procs -> Nat]
      BY DEF SpaceInv
    <2>2. CASE UNCHANGED <<brk, user_heap_end>>
      BY <2>1, <2>2
    <2>3. CASE brk' = [brk EXCEPT ![p] = new] /\ user_heap_end' = [user_heap_end EXCEPT ![p] = Max({@, new})]
      <3>1. user_heap_end' = [user_heap_end EXCEPT ![p] = Max({user_heap_end[p], new})]
        BY <2>3
      <3> QED BY <1>3, <1>7, <2>1, <2>3, <3>1
    <2> QED BY <1>1, <2>2, <2>3
  <1> QED BY <1>1, <1>6, <1>8 DEF SpaceInv

LEMMA MmapStep ==
  ASSUME SpaceInv, NEW p \in Procs, NEW v \in Nat, NEW n \in Nat, sys_mmap(p, v, n)
  PROVE  SpaceInv' /\ Spare \subseteq Spare'
  <1> DEFINE vs   == Pages(v, n)
             done == Mapping(Now, cr3[p], vs)
  <1>1. p \in alive /\ cr3[p] # 0 /\ cr3' = cr3 /\ alive' = alive /\ brk' = brk /\ user_heap_end' = user_heap_end
    BY DEF sys_mmap
  <1>2. Commit(done[n]) \/ \E k \in 0 .. n - 1 : Commit(UnmapAll(done[k], cr3[p], SubSeq(vs, 1, k)))
    BY DEF sys_mmap
  <1>3. vs \in Seq(Nat) /\ Len(vs) = n
    BY <1>1, PagesProperties
  <1> HIDE DEF vs
  <1>4. \A k \in 0 .. n : Keeps(done[k], cr3[p], Others(p), mem)
    BY <1>1, <1>3, NowKeeps, MappingKeeps
  <1> HIDE DEF done
  <1>5. SpacesOK(Now, cr3, alive)' /\ Spare \subseteq Spare'
    <2>1. CASE Commit(done[n])
      <3>1. Keeps(done[n], cr3[p], Others(p), mem)
        BY <1>4
      <3> QED BY <1>1, <2>1, <3>1, CallStep
    <2>2. ASSUME NEW k \in 0 .. n - 1, Commit(UnmapAll(done[k], cr3[p], SubSeq(vs, 1, k)))
          PROVE  SpacesOK(Now, cr3, alive)' /\ Spare \subseteq Spare'
      <3> DEFINE w == UnmapAll(done[k], cr3[p], SubSeq(vs, 1, k))
      <3>1. Keeps(done[k], cr3[p], Others(p), mem) /\ cr3[p] \in Page \ {0}
        BY <1>1, <1>4, NowKeeps
      <3>2. SubSeq(vs, 1, k) \in Seq(Nat)
        BY <1>3
      <3>3. Keeps(w, cr3[p], Others(p), mem)
        BY <3>1, <3>2, UnmapAllKeeps
      <3>4. Commit(w)
        BY <2>2
      <3> HIDE DEF w
      <3> QED BY <1>1, <3>3, <3>4, CallStep
    <2> QED BY <1>2, <2>1, <2>2
  <1> QED BY <1>1, <1>5 DEF SpaceInv

LEMMA MunmapStep ==
  ASSUME SpaceInv, NEW p \in Procs, NEW v \in Nat, NEW n \in Nat, sys_munmap(p, v, n)
  PROVE  SpaceInv' /\ Spare \subseteq Spare'
  <1> DEFINE vs == Pages(v, n)
             w  == UnmapAll(Now, cr3[p], vs)
  <1>1. /\ p \in alive /\ cr3[p] # 0 /\ cr3' = cr3 /\ alive' = alive /\ brk' = brk /\ user_heap_end' = user_heap_end
        /\ Commit(w)
    BY DEF sys_munmap
  <1>2. vs \in Seq(Nat)
    BY <1>1, PagesProperties
  <1> HIDE DEF vs
  <1>3. Keeps(w, cr3[p], Others(p), mem)
    BY <1>1, <1>2, NowKeeps, UnmapAllKeeps
  <1> HIDE DEF w
  <1>4. SpacesOK(Now, cr3, alive)' /\ Spare \subseteq Spare'
    BY <1>1, <1>3, CallStep
  <1> QED BY <1>1, <1>4 DEF SpaceInv

LEMMA ExecStep ==
  ASSUME SpaceInv, NEW p \in Procs, sys_exec(p)
  PROVE  SpaceInv' /\ Spare \subseteq Spare'
  <1> DEFINE w == IF cr3[p] = 0 \/ Translate(Now, cr3[p], 0) # 0 THEN Now ELSE MapNew(Now, cr3[p], <<0>>)
  <1>1. /\ p \in alive /\ cr3' = cr3 /\ alive' = alive /\ brk' = brk /\ user_heap_end' = user_heap_end
        /\ Commit(w)
    BY DEF sys_exec
  <1>2. Keeps(w, cr3[p], Others(p), mem)
    <2>1. <<0>> \in Seq(Nat)
      OBVIOUS
    <2>2. Keeps(MapNew(Now, cr3[p], <<0>>), cr3[p], Others(p), mem)
      BY <1>1, <2>1, NowKeeps, MapNewKeeps
    <2> QED BY <1>1, <2>2, NowKeeps
  <1> HIDE DEF w
  <1>3. SpacesOK(Now, cr3, alive)' /\ Spare \subseteq Spare'
    BY <1>1, <1>2, CallStep
  <1> QED BY <1>1, <1>3 DEF SpaceInv

\* A cleared page is the top table of an empty space.
LEMMA EmptyTree ==
  ASSUME NEW m, NEW h, NEW f, Keeps(m, 0, h, f), NEW c, Fresh(m, 0, h, c), m.mem[c] = Zero
  PROVE  Keeps(m, c, h, f)
  <1>1. m \in Memory /\ PmmOK(m) /\ c \in Page \ {0} /\ <<c, 1>> \in m.held /\ <<c, 1>> \notin h
    BY DEF Keeps, Fresh
  <1>2. \A i \in Idx : m.mem[c][i] = 0
    BY DEF Zero
  <1>3. IsTree(m.mem, c)
    BY <1>1, <1>2 DEF IsTree, TableOnce, TopOnce, LeafNoTable, LeafOnce, IsTable, IsLeaf
  <1>4. \A x : InTree(m.mem, c, x) <=> x = c
    BY <1>1, <1>2 DEF InTree, IsTable, IsLeaf
  <1>5. SpaceOK(m, c)
    BY <1>1, <1>3, <1>4 DEF SpaceOK
  <1>6. \A r \in h : r \in m.held /\ r[1] # c /\ \A x \in Run(r[1], r[2]) : m.mem[x] = f[x]
    BY <1>1, HeldPage DEF Keeps
  <1> QED BY <1>1, <1>4, <1>5, <1>6 DEF Keeps

LEMMA CreateStep ==
  ASSUME SpaceInv, NEW p \in Procs, process_create(p)
  PROVE  SpaceInv' /\ Spare \subseteq Spare'
  <1> DEFINE c     == NewPage(Now)
             heap0 == Pages(PageNo(user_heap), HEAP_PAGES)
             stack == SubSeq(heap0, HEAP_PAGES - STACK_PAGES + 1, HEAP_PAGES)
             w     == IF c = 0 THEN Now ELSE MapNew(MapNew(Alloc(Now), c, stack), c, heap0)
  <1>1. /\ p \notin alive /\ alive' = alive \cup {p} /\ cr3' = [cr3 EXCEPT ![p] = c] /\ Commit(w)
        /\ brk' = [brk EXCEPT ![p] = user_heap] /\ user_heap_end' = [user_heap_end EXCEPT ![p] = user_heap]
    BY DEF process_create
  <1>2. SpacesOK(Now, cr3, alive) /\ Now \in Memory /\ PmmOK(Now) /\ cr3 \in [Procs -> Page] /\ alive \in SUBSET Procs
    BY DEF SpaceInv, SpacesOK
  <1>3. heap0 \in Seq(Nat) /\ stack \in Seq(Nat)
    <2>1. PAGE_SIZE \in Nat \ {0} /\ HEAP_PAGES \in Nat /\ STACK_PAGES \in 0 .. HEAP_PAGES
      BY SpaceAssumption
    <2>2. PageNo(user_heap) = 1
      BY <2>1 DEF PageNo, user_heap
    <2>3. heap0 \in Seq(Nat) /\ Len(heap0) = HEAP_PAGES
      BY <2>1, <2>2, PagesProperties
    <2> HIDE DEF heap0
    <2>4. stack \in Seq(Nat)
      BY <2>1, <2>3
    <2> QED BY <2>3, <2>4
  <1>4. c \in Page
    BY <1>2, NewPageFree, ZeroPage
  <1>5. Keeps(Now, 0, Now.held, Now.mem)
    BY <1>2 DEF Keeps, SpaceOK, IsTree, InTree
  <1>6. Keeps(w, c, Now.held, Now.mem)
    <2>1. CASE c = 0
      BY <1>5, <2>1
    <2>2. CASE c # 0
      <3>1. /\ Keeps(Alloc(Now), 0, Now.held, Now.mem) /\ Fresh(Alloc(Now), 0, Now.held, c)
            /\ Alloc(Now).mem[c] = Zero
        BY <1>5, <2>2, ZeroPage, AllocKeeps
      <3>2. Keeps(Alloc(Now), c, Now.held, Now.mem)
        BY <3>1, EmptyTree
      <3>3. w = MapNew(MapNew(Alloc(Now), c, stack), c, heap0)
        BY <2>2
      <3> HIDE DEF w, heap0, stack, c
      <3>4. Keeps(MapNew(Alloc(Now), c, stack), c, Now.held, Now.mem)
        BY <1>3, <1>4, <3>2, MapNewKeeps
      <3> QED BY <1>3, <1>4, <3>3, <3>4, MapNewKeeps
    <2> QED BY <2>1, <2>2
  <1> HIDE DEF w, c
  <1>7. Now' = w
    BY <1>1, <1>6, CommitNow DEF Keeps
  <1>8. /\ SpacesOK(w, [cr3 EXCEPT ![p] = c], alive \cup {p})
        /\ Outside(Now, cr3, alive) \subseteq Outside(w, [cr3 EXCEPT ![p] = c], alive \cup {p})
    BY <1>1, <1>2, <1>4, <1>6, JoinKeeps
  <1>9. SpacesOK(Now, cr3, alive)' /\ Spare \subseteq Spare'
    BY <1>1, <1>7, <1>8 DEF Spare
  <1>10. cr3' \in [Procs -> Page] /\ alive' \subseteq Procs
    BY <1>1, <1>2, <1>4
  <1>11. brk' \in [Procs -> Nat] /\ user_heap_end' \in [Procs -> Nat]
    BY <1>1, SpaceAssumption DEF SpaceInv, user_heap
  <1> QED BY <1>9, <1>10, <1>11 DEF SpaceInv

LEMMA ExitStep ==
  ASSUME SpaceInv, NEW p \in Procs, process_exit(p)
  PROVE  /\ SpaceInv' /\ Spare \subseteq Spare'
         /\ \A x \in Page : InTree(mem, cr3[p], x) => (x \in pmm_bitmap' <=> ~InHalf(mem, cr3[p], x))
  <1> DEFINE w == IF cr3[p] = 0 THEN Now ELSE vmm_destroy_address_space(Now, cr3[p])
             h == {r \in held : ~InHalf(mem, cr3[p], r[1])}
  <1>1. /\ p \in alive /\ alive' = alive \ {p} /\ Commit(w) /\ cr3' = [cr3 EXCEPT ![p] = 0]
        /\ brk' = brk /\ user_heap_end' = user_heap_end
    BY DEF process_exit
  <1>2. SpacesOK(Now, cr3, alive) /\ Now \in Memory /\ PmmOK(Now) /\ cr3 \in [Procs -> Page] /\ alive \in SUBSET Procs
    BY DEF SpaceInv, SpacesOK
  <1>3. /\ {r \in Now.held : ~InTree(Now.mem, cr3[p], r[1])} \subseteq h /\ mem = Now.mem
        /\ h \subseteq Now.held /\ \A r \in Now.held : ~InHalf(Now.mem, cr3[p], r[1]) => r \in h
    BY NowFields, HalfInTree
  <1>4. SpaceOK(Now, cr3[p]) /\ cr3[p] \in Page
    BY <1>1, <1>2 DEF SpacesOK
  <1>5. Tears(Now, cr3[p], h, w) /\ \A x : InHalf(mem, cr3[p], x) => x \notin w.bm
    <2>1. CASE cr3[p] = 0
      BY <1>2, <1>3, <2>1 DEF Tears, InHalf
    <2>2. CASE cr3[p] # 0
      <3>1. Foreign(Now, cr3[p], h)
        BY <1>3 DEF Foreign
      <3>2. w = vmm_destroy_address_space(Now, cr3[p])
        BY <2>2
      <3> HIDE DEF w, h
      <3> QED BY <1>2, <1>3, <1>4, <2>2, <3>1, <3>2, DestroyTears
    <2> QED BY <2>1, <2>2
  <1> HIDE DEF w, h
  <1>6. Now' = w /\ pmm_bitmap' = w.bm
    BY <1>1, <1>5, CommitNow DEF Tears, Commit
  <1>7. /\ SpacesOK(w, [cr3 EXCEPT ![p] = 0], alive \ {p})
        /\ Outside(Now, cr3, alive) \subseteq Outside(w, [cr3 EXCEPT ![p] = 0], alive \ {p})
    BY <1>1, <1>2, <1>3, <1>5, LeaveKeeps
  <1>8. SpacesOK(Now, cr3, alive)' /\ Spare \subseteq Spare'
    BY <1>1, <1>6, <1>7 DEF Spare
  <1>9. cr3' \in [Procs -> Page] /\ alive' \subseteq Procs
    BY <1>1, <1>2, ZeroPage
  <1>10. brk' \in [Procs -> Nat] /\ user_heap_end' \in [Procs -> Nat]
    BY <1>1 DEF SpaceInv
  <1>11. ASSUME NEW x \in Page, InTree(mem, cr3[p], x), ~InHalf(mem, cr3[p], x) PROVE x \in w.bm
    <2>1. <<x, 1>> \in Now.held
      BY <1>3, <1>4, <1>11 DEF SpaceOK
    <2>2. <<x, 1>> \in h
      BY <1>3, <1>11, <2>1
    <2>3. w \in Memory /\ PmmOK(w) /\ <<x, 1>> \in w.held
      BY <1>5, <2>2 DEF Tears
    <2> QED BY <2>3, HeldPage
  <1> QED BY <1>5, <1>6, <1>8, <1>9, <1>10, <1>11 DEF SpaceInv

LEMMA SpaceStep ==
  ASSUME SpaceInv, SpaceNext
  PROVE  SpaceInv' /\ Spare \subseteq Spare'
  <1>1. \A p \in Procs : PageNo(user_heap_end[p]) + MMAP_GAP \in Nat
    <2> SUFFICES ASSUME NEW p \in Procs PROVE PageNo(user_heap_end[p]) + MMAP_GAP \in Nat
      OBVIOUS
    <2>1. user_heap_end[p] \in Nat /\ MMAP_GAP \in Nat
      BY SpaceAssumption DEF SpaceInv
    <2>2. PageNo(user_heap_end[p]) \in Nat
      BY <2>1, PageUpProperties
    <2> QED BY <2>1, <2>2
  <1>2. MapArgs \subseteq Nat /\ 1 .. MaxPages \subseteq Nat
    BY SpaceAssumption
  <1>3. PICK p \in Procs :
          \/ process_create(p)
          \/ process_exit(p)
          \/ \E addr \in BrkArgs : sys_brk(p, addr)
          \/ \E inc \in SbrkArgs : sys_sbrk(p, inc)
          \/ \E n \in 1 .. MaxPages : sys_mmap(p, PageNo(user_heap_end[p]) + MMAP_GAP, n)
          \/ \E n \in 1 .. MaxPages, v \in MapArgs : sys_mmap(p, v, n)
          \/ \E n \in 1 .. MaxPages, v \in MapArgs : sys_munmap(p, v, n)
          \/ sys_exec(p)
    BY DEF SpaceNext
  <1>4. CASE process_create(p)
    BY <1>4, CreateStep
  <1>5. CASE process_exit(p)
    BY <1>5, ExitStep
  <1>6. CASE \E addr \in BrkArgs : sys_brk(p, addr)
    BY <1>6, BrkStep
  <1>7. CASE \E inc \in SbrkArgs : sys_sbrk(p, inc)
    BY <1>7, SbrkStep
  <1>8. CASE \E n \in 1 .. MaxPages : sys_mmap(p, PageNo(user_heap_end[p]) + MMAP_GAP, n)
    BY <1>1, <1>2, <1>8, MmapStep
  <1>9. CASE \E n \in 1 .. MaxPages, v \in MapArgs : sys_mmap(p, v, n)
    BY <1>2, <1>9, MmapStep
  <1>10. CASE \E n \in 1 .. MaxPages, v \in MapArgs : sys_munmap(p, v, n)
    BY <1>2, <1>10, MunmapStep
  <1>11. CASE sys_exec(p)
    BY <1>11, ExecStep
  <1> QED BY <1>3, <1>4, <1>5, <1>6, <1>7, <1>8, <1>9, <1>10, <1>11

\* The kernel heap or a slab gets a run of n pages.
LEMMA BuyStep ==
  ASSUME SpaceInv, NEW n \in Nat \ {0}, pmm_alloc_pages(n), UNCHANGED spaceVars
  PROVE  \E s \in Page : /\ SpaceInv' /\ <<s, n>> \notin held /\ held' = held \cup {<<s, n>>}
                         /\ Spare' = Spare \cup {<<s, n>>}
  <1>1. PICK s \in Page : /\ IsFit(s, n)
                          /\ pmm_bitmap' = pmm_bitmap \cup Run(s, n)
                          /\ pmm_used_pages' = pmm_used_pages + n
                          /\ held' = held \cup {<<s, n>>}
    BY DEF pmm_alloc_pages, pmm_find_contiguous
  <1>2. Run(s, n) \subseteq Page /\ Run(s, n) \cap pmm_bitmap = {} /\ s \in Run(s, n)
    BY <1>1, PageNat DEF IsFit, Run
  <1>3. /\ Now' = [bm |-> pmm_bitmap \cup Run(s, n), used |-> pmm_used_pages + n,
                   held |-> held \cup {<<s, n>>}, mem |-> mem]
        /\ cr3' = cr3 /\ alive' = alive /\ brk' = brk /\ user_heap_end' = user_heap_end
    BY <1>1 DEF Now, spaceVars
  <1>4. /\ Now \in Memory /\ PmmOK(Now) /\ cr3 \in [Procs -> Page] /\ alive \subseteq Procs
        /\ \A p \in alive : SpaceOK(Now, cr3[p])
        /\ \A p, q \in alive : p # q => \A x : ~(InTree(Now.mem, cr3[p], x) /\ InTree(Now.mem, cr3[q], x))
    BY DEF SpaceInv, SpacesOK
  <1> DEFINE m == Now
             w == Now'
  <1>5. m.bm = pmm_bitmap /\ m.used = pmm_used_pages /\ m.held = held /\ m.mem = mem
    BY NowFields
  <1>6. w.bm = m.bm \cup Run(s, n) /\ w.used = m.used + n /\ w.held = m.held \cup {<<s, n>>} /\ w.mem = m.mem
    BY <1>3, <1>5
  <1>7. w = [bm |-> m.bm \cup Run(s, n), used |-> m.used + n, held |-> m.held \cup {<<s, n>>}, mem |-> m.mem]
    BY <1>3, <1>5
  <1>8. m \in Memory /\ PmmOK(m) /\ m.bm \subseteq Page /\ m.used \in Nat /\ m.held \subseteq Runs /\ m.mem \in Tables
    BY <1>4, MemoryFields
  <1>9. <<s, n>> \in Runs
    BY DEF Runs
  <1>10. Run(s, n) \cap m.bm = {} /\ SpacesOK(m, cr3, alive)
    BY <1>2, <1>5 DEF SpaceInv
  <1>11. \A p \in alive : SpaceOK(m, cr3[p])
    BY <1>4
  <1>12. \A p, q \in alive : p # q => \A x : ~(InTree(m.mem, cr3[p], x) /\ InTree(m.mem, cr3[q], x))
    BY <1>4
  <1> HIDE DEF m, w
  <1>13. w \in Memory
    BY <1>2, <1>7, <1>8, <1>9 DEF Memory
  <1>14. \A r \in m.held : Run(r[1], r[2]) \cap Run(s, n) = {} /\ Run(r[1], r[2]) \subseteq m.bm \ Reserved
    BY <1>8, <1>10 DEF PmmOK
  <1>15. Run(s, n) \cap Reserved = {}
    BY <1>8, <1>10 DEF PmmOK
  <1>16. PmmOK(w)
    <2>1. w.used = Cardinality(w.bm)
      <3>1. IsFiniteSet(m.bm) /\ Cardinality(m.bm) = m.used
        BY <1>8, BitmapFinite DEF PmmOK
      <3>2. IsFiniteSet(Run(s, n)) /\ Cardinality(Run(s, n)) = n
        BY PageNat, RunSize
      <3>3. Cardinality(m.bm \cup Run(s, n))
              = Cardinality(m.bm) + Cardinality(Run(s, n)) - Cardinality(m.bm \cap Run(s, n))
        BY <3>1, <3>2, FS_Union
      <3>4. m.bm \cap Run(s, n) = {} /\ Cardinality({}) = 0
        BY <1>10, FS_EmptySet
      <3>5. Cardinality(m.bm \cup Run(s, n)) = m.used + n - 0
        BY <3>1, <3>2, <3>3, <3>4
      <3>6. Cardinality(m.bm \cup Run(s, n)) = m.used + n
        BY <1>8, <3>5
      <3> QED BY <1>6, <3>6
    <2>2. Reserved \subseteq w.bm
      BY <1>6, <1>8 DEF PmmOK
    <2>3. \A r \in w.held : Run(r[1], r[2]) \subseteq w.bm \ Reserved
      BY <1>6, <1>14, <1>15
    <2>4. \A r \in w.held : Private(r, w.held)
      <3> SUFFICES ASSUME NEW r \in w.held, NEW q \in w.held, q # r
                   PROVE  Run(r[1], r[2]) \cap Run(q[1], q[2]) = {}
        BY DEF Private
      <3>1. CASE r \in m.held /\ q \in m.held
        BY <1>8, <3>1 DEF PmmOK, Private
      <3>2. CASE r = <<s, n>> /\ q \in m.held
        BY <1>14, <3>2
      <3>3. CASE q = <<s, n>> /\ r \in m.held
        BY <1>14, <3>3
      <3> QED BY <1>6, <3>1, <3>2, <3>3
    <2> QED BY <2>1, <2>2, <2>3, <2>4 DEF PmmOK
  <1>17. SpacesOK(w, cr3, alive)
    <2>1. \A p \in alive : SpaceOK(w, cr3[p])
      BY <1>6, <1>11 DEF SpaceOK
    <2> QED BY <1>6, <1>12, <1>13, <1>16, <2>1 DEF SpacesOK
  <1>18. <<s, n>> \notin m.held
    BY <1>2, <1>14
  <1>19. \A p \in alive : ~InTree(m.mem, cr3[p], s)
    <2> SUFFICES ASSUME NEW p \in alive, InTree(m.mem, cr3[p], s) PROVE FALSE
      OBVIOUS
    <2>1. <<s, 1>> \in m.held
      BY <1>11 DEF SpaceOK
    <2>2. s \in Run(s, 1)
      BY PageNat DEF Run
    <2> QED BY <1>2, <1>14, <2>1, <2>2
  <1>20. Outside(w, cr3, alive) = Outside(m, cr3, alive) \cup {<<s, n>>}
    BY <1>6, <1>19 DEF Outside
  <1>21. SpaceInv' /\ Spare' = Spare \cup {<<s, n>>}
    BY <1>3, <1>17, <1>20, <1>4 DEF SpaceInv, Spare, w, m
  <1> QED BY <1>1, <1>5, <1>18, <1>21

-----------------------------------------------------------------------------
(***************************************************************************)
(* What the references of OwnedOnce are: the pages of the trees, each      *)
(* referred to from one place.                                             *)
(***************************************************************************)
LEMMA VPageTop == ASSUME NEW v \in VPage PROVE Top(v) = v \div ENTRIES
  <1>1. ENTRIES \in Nat /\ ENTRIES > 0 /\ v \in Nat /\ v < ENTRIES * ENTRIES
    BY SpaceAssumption DEF VPage
  <1> DEFINE q == v \div ENTRIES
  <1>2. q \in Nat /\ v >= ENTRIES * q
    BY <1>1
  <1>3. Top(v) = q % ENTRIES
    BY DEF Top
  <1> HIDE DEF q
  <1>4. q < ENTRIES
    <2>1. SUFFICES ASSUME q >= ENTRIES PROVE FALSE
      BY <1>1, <1>2
    <2>2. ENTRIES * q >= ENTRIES * ENTRIES
      BY <1>1, <1>2, <2>1
    <2>3. ENTRIES * q \in Nat /\ ENTRIES * ENTRIES \in Nat
      BY <1>1, <1>2
    <2> QED BY <1>1, <1>2, <2>2, <2>3
  <1>5. q % ENTRIES = q
    BY <1>1, <1>2, <1>4
  <1> QED BY <1>3, <1>5 DEF q

LEMMA VPageSplit ==
  ASSUME NEW v \in VPage, NEW w \in VPage, Top(v) = Top(w), Leaf(v) = Leaf(w)
  PROVE  v = w
  <1>1. ENTRIES \in Nat /\ ENTRIES > 0 /\ v \in Nat /\ w \in Nat
    BY SpaceAssumption DEF VPage
  <1>2. v = ENTRIES * (v \div ENTRIES) + (v % ENTRIES)
    BY <1>1
  <1>3. w = ENTRIES * (w \div ENTRIES) + (w % ENTRIES)
    BY <1>1
  <1>4. v \div ENTRIES = w \div ENTRIES
    BY VPageTop
  <1> QED BY <1>2, <1>3, <1>4 DEF Leaf

LEMMA PlaceCases ==
  ASSUME NEW p \in Procs, NEW x \in Places(p)
  PROVE  /\ p \in alive /\ cr3[p] # 0
         /\ \/ x = <<p, "top", 0>> /\ At(x) = cr3[p]
            \/ \E i \in Idx : x = <<p, "table", i>> /\ At(x) = mem[cr3[p]][i] /\ At(x) # 0
            \/ \E v \in VPage : /\ x = <<p, "page", v>> /\ At(x) # 0 /\ mem[cr3[p]][Top(v)] # 0
                                /\ At(x) = mem[mem[cr3[p]][Top(v)]][Leaf(v)]
  <1>1. p \in alive /\ cr3[p] # 0
    BY DEF Places
  <1>2. \/ x = <<p, "top", 0>>
        \/ \E i \in Idx : x = <<p, "table", i>> /\ mem[cr3[p]][i] # 0
        \/ \E v \in VPage : x = <<p, "page", v>> /\ Translate(Now, cr3[p], v) # 0
    BY <1>1 DEF Places
  <1>3. CASE x = <<p, "top", 0>>
    BY <1>1, <1>3 DEF At
  <1>4. ASSUME NEW i \in Idx, x = <<p, "table", i>>, mem[cr3[p]][i] # 0
        PROVE  At(x) = mem[cr3[p]][i]
    BY <1>4 DEF At
  <1>5. ASSUME NEW v \in VPage, x = <<p, "page", v>>, Translate(Now, cr3[p], v) # 0
        PROVE  /\ At(x) # 0 /\ mem[cr3[p]][Top(v)] # 0
               /\ At(x) = mem[mem[cr3[p]][Top(v)]][Leaf(v)]
    <2>1. At(x) = Translate(Now, cr3[p], v)
      BY <1>5 DEF At
    <2>2. Translate(Now, cr3[p], v)
            = IF mem[cr3[p]][Top(v)] = 0 THEN 0 ELSE mem[mem[cr3[p]][Top(v)]][Leaf(v)]
      BY NowFields DEF Translate
    <2> HIDE DEF Translate
    <2> QED BY <1>5, <2>1, <2>2
  <1> QED BY <1>1, <1>2, <1>3, <1>4, <1>5

LEMMA PlaceInTree ==
  ASSUME SpaceInv, NEW p \in Procs, NEW x \in Places(p)
  PROVE  InTree(mem, cr3[p], At(x)) /\ <<At(x), 1>> \in held /\ At(x) \in pmm_bitmap \ Reserved
  <1>1. p \in alive /\ cr3[p] # 0 /\ cr3[p] \in Page
    BY PlaceCases DEF SpaceInv
  <1>2. InTree(mem, cr3[p], At(x))
    <2>1. CASE x = <<p, "top", 0>> /\ At(x) = cr3[p]
      BY <1>1, <2>1 DEF InTree
    <2>2. CASE \E i \in Idx : x = <<p, "table", i>> /\ At(x) = mem[cr3[p]][i] /\ At(x) # 0
      BY <1>1, <2>2 DEF InTree, IsTable
    <2>3. CASE \E v \in VPage : /\ x = <<p, "page", v>> /\ At(x) # 0 /\ mem[cr3[p]][Top(v)] # 0
                                /\ At(x) = mem[mem[cr3[p]][Top(v)]][Leaf(v)]
      <3>1. IsLeaf(mem, cr3[p], At(x))
        BY <2>3, VPageNat, TopAndLeaf DEF IsLeaf
      <3> QED BY <1>1, <2>3, <3>1 DEF InTree
    <2> QED BY <2>1, <2>2, <2>3, PlaceCases
  <1>3. Now \in Memory /\ PmmOK(Now) /\ SpaceOK(Now, cr3[p])
    BY <1>1 DEF SpaceInv, SpacesOK
  <1>4. At(x) \in Page
    BY <1>1, <1>2, <1>3, NowFields, MemoryFields, InTreePage
  <1>5. <<At(x), 1>> \in Now.held
    BY <1>2, <1>3, <1>4, NowFields DEF SpaceOK
  <1>6. At(x) \in Now.bm \ Reserved
    BY <1>3, <1>4, <1>5, HeldPage
  <1> QED BY <1>2, <1>5, <1>6, NowFields

LEMMA PlaceOnce ==
  ASSUME SpaceInv, NEW p \in Procs, NEW x \in Places(p), NEW y \in Places(p), At(x) = At(y)
  PROVE  x = y
  <1> DEFINE c == cr3[p]
             IsTop(z)   == z = <<p, "top", 0>> /\ At(z) = c
             IsEntry(z) == \E i \in Idx : z = <<p, "table", i>> /\ At(z) = mem[c][i] /\ At(z) # 0
             IsPage(z)  == \E v \in VPage : /\ z = <<p, "page", v>> /\ At(z) # 0 /\ mem[c][Top(v)] # 0
                                            /\ At(z) = mem[mem[c][Top(v)]][Leaf(v)]
  <1>1. /\ IsTop(x) \/ IsEntry(x) \/ IsPage(x)
        /\ IsTop(y) \/ IsEntry(y) \/ IsPage(y)
        /\ c # 0 /\ p \in alive
    BY PlaceCases
  <1>2. IsTree(mem, c)
    BY <1>1, NowFields DEF SpaceInv, SpacesOK, SpaceOK
  <1>3. TableOnce(mem, c) /\ TopOnce(mem, c) /\ LeafNoTable(mem, c) /\ LeafOnce(mem, c)
    BY <1>1, <1>2 DEF IsTree
  <1> DEFINE Entry(z) == At(z) # 0 /\ IsTable(mem, c, At(z))
             Leafy(z) == At(z) # 0 /\ IsLeaf(mem, c, At(z))
  <1>4. \A z : (IsEntry(z) => Entry(z)) /\ (IsPage(z) => Leafy(z)) /\ (IsTop(z) => At(z) = c)
    BY VPageNat, TopAndLeaf DEF IsTable, IsLeaf
  <1>5. \A z : At(z) = c => ~Entry(z) /\ ~Leafy(z)
    BY <1>3 DEF TopOnce
  <1>6. \A z : Entry(z) => ~Leafy(z)
    BY <1>3 DEF LeafNoTable
  <1>7. CASE IsTop(x) /\ IsTop(y)
    BY <1>7
  <1>8. CASE IsEntry(x) /\ IsEntry(y)
    BY <1>3, <1>8 DEF TableOnce
  <1>9. CASE IsPage(x) /\ IsPage(y)
    <2>1. PICK v \in VPage : /\ x = <<p, "page", v>> /\ At(x) # 0 /\ mem[c][Top(v)] # 0
                             /\ At(x) = mem[mem[c][Top(v)]][Leaf(v)]
      BY <1>9
    <2>2. PICK w \in VPage : /\ y = <<p, "page", w>> /\ At(y) # 0 /\ mem[c][Top(w)] # 0
                             /\ At(y) = mem[mem[c][Top(w)]][Leaf(w)]
      BY <1>9
    <2>3. Top(v) \in Idx /\ Leaf(v) \in Idx /\ Top(w) \in Idx /\ Leaf(w) \in Idx
      BY VPageNat, TopAndLeaf
    <2>4. Top(v) = Top(w) /\ Leaf(v) = Leaf(w)
      BY <1>3, <2>1, <2>2, <2>3 DEF LeafOnce
    <2> QED BY <2>1, <2>2, <2>4, VPageSplit
  <1>10. ASSUME NEW z, NEW u, At(z) = At(u), IsTop(z) \/ IsEntry(z), IsPage(u) PROVE FALSE
    <2>1. Leafy(u) /\ Leafy(z) /\ (At(z) = c \/ Entry(z))
      BY <1>4, <1>10
    <2> HIDE DEF Leafy, Entry
    <2> QED BY <1>5, <1>6, <2>1
  <1>11. ASSUME NEW z, NEW u, At(z) = At(u), IsTop(z), IsEntry(u) PROVE FALSE
    <2>1. Entry(z) /\ At(z) = c
      BY <1>4, <1>11
    <2> HIDE DEF Leafy, Entry
    <2> QED BY <1>5, <2>1
  <1> HIDE DEF IsTop, IsEntry, IsPage
  <1> QED BY <1>1, <1>7, <1>8, <1>9, <1>10, <1>11

LEMMA InvOwnedOnce == ASSUME SpaceInv PROVE OwnedOnce
  <1>1. ASSUME NEW p \in Procs, NEW x \in Places(p), NEW q \in Procs, NEW y \in Places(q), At(x) = At(y)
        PROVE  x = y
    <2>1. CASE p = q
      BY <1>1, <2>1, PlaceOnce
    <2>2. CASE p # q
      <3>1. InTree(mem, cr3[p], At(x)) /\ InTree(mem, cr3[q], At(y)) /\ p \in alive /\ q \in alive
        BY PlaceInTree, PlaceCases
      <3> QED BY <1>1, <2>2, <3>1, NowFields DEF SpaceInv, SpacesOK
    <2> QED BY <2>1, <2>2
  <1>2. ASSUME NEW x \in UNION {Places(p) : p \in Procs}, NEW y \in UNION {Places(p) : p \in Procs}
        PROVE  At(x) \in pmm_bitmap \ Reserved /\ (x # y => At(x) # At(y))
    <2>1. PICK p \in Procs, q \in Procs : x \in Places(p) /\ y \in Places(q)
      OBVIOUS
    <2> QED BY <1>1, <2>1, PlaceInTree
  <1> QED BY <1>2 DEF OwnedOnce

-----------------------------------------------------------------------------
(***************************************************************************)
(* The kernel heap.  A block is its header and what follows it.            *)
(***************************************************************************)
Blocks     == [addr : Nat, size : Nat \ {0}, free : BOOLEAN]
Whole(b)   == b.addr .. End(b) - 1
Payload(b) == b.addr + HDR .. End(b) - 1

Apart(h)      == \A i, j \in DOMAIN h : i # j => Whole(h[i]) \cap Whole(h[j]) = {}
Covers(h, u)  == \E i \in DOMAIN h : u \in Whole(h[i])
Within(u, S)  == \E r \in S : u \div PAGE_SIZE \in Run(r[1], r[2])

\* The list h of blocks is in order, and its memory is that of the runs S.
HeapOK(h, S) == h \in Seq(Blocks) /\ Apart(h) /\ \A u : Covers(h, u) => Within(u, S)

\* g is made of the memory of h and has kept the blocks of h in use.
Recut(h, g) ==
  /\ g \in Seq(Blocks) /\ Apart(g)
  /\ \A u : Covers(g, u) => Covers(h, u)
  /\ \A i \in DOMAIN h : ~h[i].free => \E j \in DOMAIN g : g[j] = h[i]

\* The page of an address.
LEMMA PageOf ==
  ASSUME NEW u \in Nat, NEW a \in Nat, NEW n \in Nat
  PROVE  u \div PAGE_SIZE \in Run(a, n) <=> u \in a * PAGE_SIZE .. (a + n) * PAGE_SIZE - 1
  <1> DEFINE d == PAGE_SIZE
             q == u \div d
  <1>1. d \in Nat \ {0}
    BY SpaceAssumption
  <1>2. q \in Nat /\ d * q <= u /\ u < d * q + d
    <2> HIDE DEF d
    <2> QED BY <1>1, Quotient
  <1>3. a * d = d * a /\ (a + n) * d = d * (a + n)
    BY <1>1
  <1> HIDE DEF q, d
  <1>4. d * q \in Nat /\ d * a \in Nat /\ d * (a + n) \in Nat
    BY <1>1, <1>2
  <1>5. ASSUME q >= a, q <= a + n - 1 PROVE u >= d * a /\ u <= d * (a + n) - 1
    <2>1. d * q >= d * a
      BY <1>1, <1>2, <1>5
    <2>2. d * (q + 1) <= d * (a + n) /\ d * (q + 1) = d * q + d
      BY <1>1, <1>2, <1>5
    <2> QED BY <1>1, <1>2, <1>4, <2>1, <2>2
  <1>6. ASSUME u >= d * a, u <= d * (a + n) - 1 PROVE q >= a /\ q <= a + n - 1
    <2>1. q >= a
      <3>1. SUFFICES ASSUME a >= q + 1 PROVE FALSE
        BY <1>2
      <3>2. d * a >= d * (q + 1) /\ d * (q + 1) = d * q + d
        BY <1>1, <1>2, <3>1
      <3> QED BY <1>1, <1>2, <1>4, <1>6, <3>2
    <2>2. q <= a + n - 1
      <3>1. SUFFICES ASSUME q >= a + n PROVE FALSE
        BY <1>2
      <3>2. d * q >= d * (a + n)
        BY <1>1, <1>2, <3>1
      <3> QED BY <1>1, <1>2, <1>4, <1>6, <3>2
    <2> QED BY <2>1, <2>2
  <1>7. u \in a * d .. (a + n) * d - 1 <=> u >= d * a /\ u <= d * (a + n) - 1
    BY <1>3, <1>4
  <1>8. q \in Run(a, n) <=> q >= a /\ q <= a + n - 1
    BY <1>2 DEF Run
  <1>9. q = u \div PAGE_SIZE /\ d = PAGE_SIZE
    BY DEF q, d
  <1> QED BY <1>5, <1>6, <1>7, <1>8, <1>9

LEMMA BlockUnits ==
  ASSUME NEW b \in Blocks
  PROVE  /\ b.addr \in Nat /\ b.size \in Nat \ {0} /\ End(b) \in Nat /\ End(b) = b.addr + HDR + b.size
         /\ b.addr \in Whole(b) /\ b.addr + HDR \in Payload(b)
         /\ Payload(b) \subseteq Whole(b) /\ Whole(b) \subseteq Nat
         /\ Header(b) \subseteq Whole(b) /\ Header(b) \cap Payload(b) = {}
  <1>1. HDR \in Nat \ {0} /\ b.addr \in Nat /\ b.size \in Nat \ {0}
    BY HeapAssumption DEF Blocks
  <1> QED BY <1>1 DEF End, Whole, Payload, Header

\* Block l swallows block b.
LEMMA GrownBlock ==
  ASSUME NEW l \in Blocks, NEW b \in Blocks
  PROVE  LET z == [l EXCEPT !.size = l.size + HDR + b.size]
         IN  z \in Blocks /\ z.addr = l.addr /\ z.size = l.size + HDR + b.size /\ z.free = l.free
  <1> DEFINE v == l.size + HDR + b.size
  <1>1. v \in Nat \ {0}
    BY BlockUnits, HeapAssumption
  <1> HIDE DEF v
  <1>2. [l EXCEPT !.size = v] \in Blocks
    BY <1>1 DEF Blocks
  <1>3. /\ [l EXCEPT !.size = v].addr = l.addr /\ [l EXCEPT !.size = v].size = v
        /\ [l EXCEPT !.size = v].free = l.free
    BY DEF Blocks
  <1> QED BY <1>2, <1>3 DEF v

LEMMA SwallowType ==
  ASSUME NEW acc \in Seq(Blocks), NEW b \in Blocks
  PROVE  Swallow(acc, b) \in Seq(Blocks)
  <1> DEFINE n == Len(acc)
             z == [acc[n] EXCEPT !.size = acc[n].size + HDR + b.size]
  <1>1. CASE acc # <<>> /\ acc[n].free /\ b.free
    <2>1. n \in 1 .. n /\ acc[n] \in Blocks
      BY <1>1
    <2>2. z \in Blocks
      BY <2>1, GrownBlock
    <2>3. Swallow(acc, b) = [acc EXCEPT ![n] = z]
      BY <1>1, <2>1 DEF Swallow, Last
    <2> HIDE DEF z
    <2> QED BY <2>1, <2>2, <2>3
  <1>2. CASE ~(acc # <<>> /\ acc[n].free /\ b.free)
    BY <1>2 DEF Swallow, Last
  <1> QED BY <1>1, <1>2

\* What a round of kfree's coalescing loop has made of the first k blocks.
Swallowed(list, acc, k) ==
  /\ acc \in Seq(Blocks) /\ Apart(acc)
  /\ \A u : Covers(acc, u) => \E j \in 1 .. k : u \in Whole(list[j])
  /\ \A j \in 1 .. k : ~list[j].free => \E i \in DOMAIN acc : acc[i] = list[j]
  /\ acc # <<>> /\ acc[Len(acc)].free => k > 0 /\ list[k].free /\ End(acc[Len(acc)]) = End(list[k])

LEMMA SwallowKeeps ==
  ASSUME NEW list \in Seq(Blocks), Apart(list), ~MergesApart(list),
         NEW k \in 1 .. Len(list), NEW acc, Swallowed(list, acc, k - 1)
  PROVE  Swallowed(list, Swallow(acc, list[k]), k)
  <1> DEFINE n == Len(acc)
             b == list[k]
             w == Swallow(acc, b)
  <1>1. acc \in Seq(Blocks) /\ n \in Nat /\ DOMAIN acc = 1 .. n /\ b \in Blocks /\ HDR \in Nat \ {0}
    BY HeapAssumption DEF Swallowed
  <1>2. \A i \in 1 .. n : acc[i] \in Blocks /\ Whole(acc[i]) \cap Whole(b) = {}
    <2> SUFFICES ASSUME NEW i \in 1 .. n, NEW u \in Whole(acc[i]), u \in Whole(b) PROVE FALSE
      BY <1>1
    <2>1. Covers(acc, u)
      BY <1>1 DEF Covers
    <2>2. PICK j \in 1 .. k - 1 : u \in Whole(list[j])
      BY <2>1 DEF Swallowed
    <2>3. j \in DOMAIN list /\ k \in DOMAIN list /\ j # k
      OBVIOUS
    <2> QED BY <2>2, <2>3 DEF Apart
  <1>3. \A i, j \in 1 .. n : i # j => Whole(acc[i]) \cap Whole(acc[j]) = {}
    BY <1>1 DEF Swallowed, Apart
  <1>4. \A u : Covers(acc, u) => \E j \in 1 .. k - 1 : u \in Whole(list[j])
    BY DEF Swallowed
  <1>5. \A j \in 1 .. k - 1 : ~list[j].free => \E i \in 1 .. n : acc[i] = list[j]
    BY <1>1 DEF Swallowed
  <1>6. CASE acc # <<>> /\ acc[n].free /\ b.free
    <2> DEFINE l == acc[n]
               z == [l EXCEPT !.size = l.size + HDR + b.size]
    <2>1. n \in 1 .. n /\ l \in Blocks
      BY <1>1, <1>2, <1>6
    <2>2. w = [acc EXCEPT ![n] = z]
      BY <1>6, <2>1 DEF Swallow, Last
    <2>3. z \in Blocks /\ z.addr = l.addr /\ z.size = l.size + HDR + b.size /\ z.free = l.free
      <3> HIDE DEF l, b
      <3> QED BY <1>1, <2>1, GrownBlock
    <2>4. End(l) = b.addr /\ k - 1 \in 1 .. Len(list) - 1
      <3>1. k - 1 > 0 /\ list[k - 1].free /\ End(l) = End(list[k - 1])
        BY <1>6 DEF Swallowed
      <3>2. k - 1 \in 1 .. Len(list) - 1
        BY <3>1
      <3>3. End(list[k - 1]) = list[(k - 1) + 1].addr
        BY <1>6, <3>1, <3>2 DEF MergesApart
      <3> QED BY <3>1, <3>2, <3>3
    <2>5. End(z) = End(b) /\ Whole(z) = Whole(l) \cup Whole(b)
      <3> HIDE DEF z, l, b
      <3>1. l.addr \in Nat /\ l.size \in Nat /\ b.addr \in Nat /\ b.size \in Nat
        BY <1>1, <2>1, BlockUnits
      <3>2. l.addr + HDR + l.size = b.addr
        BY <2>4 DEF End
      <3>3. End(z) = l.addr + HDR + (l.size + HDR + b.size) /\ End(b) = b.addr + HDR + b.size
        BY <2>3 DEF End
      <3>4. HDR \in Nat \ {0}
        BY <1>1
      <3>5. PICK x \in Nat, y \in Nat, p \in Nat, q \in Nat : x = l.addr /\ y = l.size /\ p = b.addr /\ q = b.size
        BY <3>1
      <3>6. x + HDR + y = p /\ End(z) = x + HDR + (y + HDR + q) /\ End(b) = p + HDR + q
        BY <3>2, <3>3, <3>5
      <3>7. End(z) = End(b)
        BY <3>4, <3>6
      <3>8. z.addr = x /\ l.addr = x /\ b.addr = p /\ End(l) = p
        BY <2>3, <2>4, <3>5
      <3>9. Whole(l) = x .. p - 1 /\ Whole(b) = p .. End(b) - 1 /\ Whole(z) = x .. End(z) - 1
        BY <3>8, Zenon DEF Whole
      <3>10. x .. (p + HDR + q) - 1 = (x .. p - 1) \cup (p .. (p + HDR + q) - 1)
        BY <3>4, <3>6
      <3>11. Whole(z) = Whole(l) \cup Whole(b)
        <4>1. End(z) = p + HDR + q /\ End(b) = p + HDR + q
          BY <3>6, <3>7
        <4>2. Whole(b) = p .. (p + HDR + q) - 1 /\ Whole(z) = x .. (p + HDR + q) - 1 /\ Whole(l) = x .. p - 1
          BY <3>9, <4>1
        <4> QED BY <3>10, <4>2
      <3> QED BY <3>7, <3>11
    <2> HIDE DEF z, l, b
    <2>6. w \in Seq(Blocks) /\ Len(w) = n /\ DOMAIN w = 1 .. n /\ w[n] = z /\ \A i \in 1 .. n : i # n => w[i] = acc[i]
      BY <1>1, <2>1, <2>2, <2>3
    <2> HIDE DEF w, n
    <2>7. w # <<>>
      BY <2>1, <2>6
    <2>8. Apart(w)
      <3> SUFFICES ASSUME NEW i \in 1 .. n, NEW j \in 1 .. n, i # j PROVE Whole(w[i]) \cap Whole(w[j]) = {}
        BY <2>6 DEF Apart
      <3>1. CASE i = n
        BY <1>2, <1>3, <2>1, <2>5, <2>6, <3>1 DEF l
      <3>2. CASE j = n
        BY <1>2, <1>3, <2>1, <2>5, <2>6, <3>2 DEF l
      <3>3. CASE i # n /\ j # n
        BY <1>3, <2>6, <3>3
      <3> QED BY <3>1, <3>2, <3>3
    <2>9. ASSUME NEW u, Covers(w, u) PROVE \E j \in 1 .. k : u \in Whole(list[j])
      <3>1. PICK i \in 1 .. n : u \in Whole(w[i])
        BY <2>6, <2>9 DEF Covers
      <3>2. u \in Whole(b) \/ Covers(acc, u)
        BY <1>1, <2>1, <2>5, <2>6, <3>1 DEF Covers, l
      <3> QED BY <1>4, <3>2 DEF b
    <2>10. ASSUME NEW j \in 1 .. k, ~list[j].free PROVE \E i \in DOMAIN w : w[i] = list[j]
      <3>1. j \in 1 .. k - 1
        BY <1>6, <2>10 DEF b
      <3>2. PICK i \in 1 .. n : acc[i] = list[j]
        BY <1>5, <2>10, <3>1
      <3>3. i # n
        BY <1>6, <2>10, <3>2
      <3> QED BY <2>6, <3>2, <3>3
    <2>11. k > 0 /\ list[k].free /\ End(w[Len(w)]) = End(list[k])
      BY <1>6, <2>5, <2>6 DEF b
    <2> QED BY <2>6, <2>8, <2>9, <2>10, <2>11 DEF Swallowed, w, b
  <1>7. CASE ~(acc # <<>> /\ acc[n].free /\ b.free)
    <2>1. w = Append(acc, b)
      BY <1>1, <1>7 DEF Swallow, Last
    <2>2. /\ w \in Seq(Blocks) /\ Len(w) = n + 1 /\ DOMAIN w = 1 .. n + 1 /\ w[n + 1] = b
          /\ \A i \in 1 .. n : w[i] = acc[i]
      BY <1>1, <2>1
    <2>3. b = list[k]
      OBVIOUS
    <2> HIDE DEF w, n, b
    <2>4. \A i \in 1 .. n + 1 : i \in 1 .. n \/ i = n + 1
      BY <1>1
    <2>5. Apart(w)
      <3> SUFFICES ASSUME NEW i \in 1 .. n + 1, NEW j \in 1 .. n + 1, i # j PROVE Whole(w[i]) \cap Whole(w[j]) = {}
        BY <2>2 DEF Apart
      <3>1. CASE i = n + 1
        BY <1>2, <2>2, <2>4, <3>1
      <3>2. CASE j = n + 1
        BY <1>2, <2>2, <2>4, <3>2
      <3>3. CASE i # n + 1 /\ j # n + 1
        BY <1>3, <2>2, <2>4, <3>3
      <3> QED BY <3>1, <3>2, <3>3
    <2>6. ASSUME NEW u, Covers(w, u) PROVE \E j \in 1 .. k : u \in Whole(list[j])
      <3>1. PICK i \in 1 .. n + 1 : u \in Whole(w[i])
        BY <2>2, <2>6 DEF Covers
      <3>2. u \in Whole(b) \/ Covers(acc, u)
        BY <1>1, <2>2, <2>4, <3>1 DEF Covers
      <3> QED BY <1>4, <2>3, <3>2
    <2>7. ASSUME NEW j \in 1 .. k, ~list[j].free PROVE \E i \in DOMAIN w : w[i] = list[j]
      <3>1. CASE j = k
        BY <1>1, <2>2, <2>3, <3>1
      <3>2. CASE j # k
        <4>1. PICK i \in 1 .. n : acc[i] = list[j]
          BY <1>5, <2>7, <3>2
        <4> QED BY <1>1, <2>2, <4>1
      <3> QED BY <3>1, <3>2
    <2>8. w[Len(w)].free => k > 0 /\ list[k].free /\ End(w[Len(w)]) = End(list[k])
      BY <2>2, <2>3
    <2> QED BY <2>2, <2>3, <2>5, <2>6, <2>7, <2>8 DEF Swallowed, w, b
  <1> QED BY <1>6, <1>7

\* kfree's coalescing loop only recuts the list as long as it merges neighbours.
LEMMA CoalesceKeeps ==
  ASSUME NEW list \in Seq(Blocks), Apart(list), ~MergesApart(list)
  PROVE  Recut(list, Coalesce(list))
  <1> DEFINE n     == Len(list)
             S     == Seq(Blocks)
             Is(g) == g = [k \in 0 .. n |-> IF k = 0 THEN <<>> ELSE Swallow(g[k - 1], list[k])]
             step  == [y \in S \X (1 .. n) |-> Swallow(y[1], list[y[2]])]
             e     == CHOOSE g : Is(g)
             T     == {k \in 0 .. n : Swallowed(list, e[k], k)}
  <1>1. n \in Nat /\ DOMAIN list = 1 .. n /\ \A k \in 1 .. n : list[k] \in Blocks
    OBVIOUS
  <1>2. Coalesce(list) = e[n]
    BY DEF Coalesce
  <1>3. \A w \in S, k \in 1 .. n : step[<<w, k>>] = Swallow(w, list[k]) /\ step[<<w, k>>] \in S
    BY <1>1, SwallowType
  <1>4. <<>> \in S
    OBVIOUS
  <1>5. \E g : Is(g)
    <2> HIDE DEF n, S, step
    <2>1. PICK g : IsLoop(g, <<>>, step, n) /\ \A k \in 0 .. n : g[k] \in S
      <3>1. \A w \in S : \A k \in 1 .. n : step[<<w, k>>] \in S
        BY <1>3
      <3> HIDE DEF Is, e, T
      <3> QED BY <1>1, <1>4, <3>1, LoopExists, Zenon
    <2>2. \A k \in 1 .. n : k - 1 \in 0 .. n /\ g[k - 1] \in S
      BY <1>1, <2>1
    <2>3. \A k \in 0 .. n : (IF k = 0 THEN <<>> ELSE step[<<g[k - 1], k>>])
                              = IF k = 0 THEN <<>> ELSE Swallow(g[k - 1], list[k])
      BY <1>1, <1>3, <2>2
    <2>4. [k \in 0 .. n |-> IF k = 0 THEN <<>> ELSE step[<<g[k - 1], k>>]]
            = [k \in 0 .. n |-> IF k = 0 THEN <<>> ELSE Swallow(g[k - 1], list[k])]
      BY <2>3
    <2>5. Is(g)
      BY <2>1, <2>4 DEF IsLoop
    <2> QED BY <2>5
  <1>6. Is(e)
    <2> HIDE DEF Is
    <2> QED BY <1>5
  <1>7. e[0] = <<>> /\ \A k \in 1 .. n : e[k] = Swallow(e[k - 1], list[k])
    <2> HIDE DEF e, n
    <2>1. 0 \in 0 .. n /\ \A k \in 1 .. n : k \in 0 .. n /\ k # 0
      BY <1>1
    <2> QED BY <1>6, <2>1
  <1> HIDE DEF e, S, step, Is
  <1>8. \A k \in 0 .. n : k \in T
    <2>1. 0 \in T
      <3>1. Swallowed(list, <<>>, 0)
        BY DEF Swallowed, Apart, Covers
      <3> QED BY <1>1, <1>7, <3>1
    <2>2. \A k \in 1 .. n : k - 1 \in T => k \in T
      <3> SUFFICES ASSUME NEW k \in 1 .. n, k - 1 \in T PROVE Swallowed(list, e[k], k)
        BY <1>1
      <3> QED BY <1>1, <1>7, SwallowKeeps
    <2> HIDE DEF T
    <2> QED BY <1>1, <2>1, <2>2, UpTo
  <1>9. Swallowed(list, e[n], n)
    BY <1>1, <1>8
  <1> QED BY <1>1, <1>2, <1>9 DEF Swallowed, Recut, Covers

\* The mark of block i changes.
LEMMA Reflagged ==
  ASSUME NEW h \in Seq(Blocks), Apart(h), NEW i \in DOMAIN h, NEW f \in BOOLEAN
  PROVE  LET g == [h EXCEPT ![i].free = f]
         IN  /\ g \in Seq(Blocks) /\ Apart(g) /\ DOMAIN g = DOMAIN h /\ \A u : Covers(g, u) <=> Covers(h, u)
             /\ \A k \in DOMAIN h : k # i => g[k] = h[k]
             /\ g[i].addr = h[i].addr /\ g[i].size = h[i].size /\ g[i].free = f
  <1> DEFINE z == [h[i] EXCEPT !.free = f]
             g == [h EXCEPT ![i] = z]
  <1>1. h[i] \in Blocks
    OBVIOUS
  <1>2. z \in Blocks /\ z.addr = h[i].addr /\ z.size = h[i].size /\ z.free = f
    BY <1>1 DEF Blocks
  <1>3. [h EXCEPT ![i].free = f] = g
    OBVIOUS
  <1> HIDE DEF z
  <1>4. g \in Seq(Blocks) /\ DOMAIN g = DOMAIN h /\ g[i] = z /\ \A k \in DOMAIN h : k # i => g[k] = h[k]
    BY <1>2
  <1> HIDE DEF g
  <1>5. \A k \in DOMAIN h : Whole(g[k]) = Whole(h[k])
    BY <1>2, <1>4 DEF Whole, End
  <1>6. Apart(g) /\ \A u : Covers(g, u) <=> Covers(h, u)
    BY <1>4, <1>5 DEF Apart, Covers
  <1> QED BY <1>2, <1>3, <1>4, <1>6

\* Element i of a sequence becomes two.
Split(s, i, a, b) == SubSeq(s, 1, i - 1) \o <<a, b>> \o SubSeq(s, i + 1, Len(s))
IsSplit(g, s, i, a, b) ==
  /\ g \in Seq(Blocks) /\ Len(g) = Len(s) + 1
  /\ g[i] = a /\ g[i + 1] = b
  /\ \A k \in 1 .. i - 1 : g[k] = s[k]
  /\ \A k \in i + 2 .. Len(s) + 1 : g[k] = s[k - 1]

LEMMA SplitAt ==
  ASSUME NEW s \in Seq(Blocks), NEW i \in 1 .. Len(s), NEW a \in Blocks, NEW b \in Blocks
  PROVE  IsSplit(Split(s, i, a, b), s, i, a, b)
  <1> DEFINE n == Len(s)
             p == SubSeq(s, 1, i - 1)
             q == SubSeq(s, i + 1, n)
             t == p \o <<a, b>>
             g == t \o q
  <1>1. n \in Nat /\ i \in 1 .. n
    OBVIOUS
  <1>2. p \in Seq(Blocks) /\ Len(p) = i - 1 /\ \A k \in 1 .. i - 1 : p[k] = s[k]
    BY <1>1, SubSeqProperties
  <1>3. q \in Seq(Blocks) /\ Len(q) = n - i /\ \A k \in 1 .. n - i : q[k] = s[i + k]
    BY <1>1, SubSeqProperties
  <1> HIDE DEF p, q, n
  <1>4. t \in Seq(Blocks) /\ Len(t) = i + 1 /\ t[i] = a /\ t[i + 1] = b /\ \A k \in 1 .. i - 1 : t[k] = s[k]
    <2> DEFINE r == <<a, b>>
    <2>1. r \in Seq(Blocks) /\ Len(r) = 2 /\ r[1] = a /\ r[2] = b
      OBVIOUS
    <2> HIDE DEF r
    <2>2. /\ p \o r \in Seq(Blocks) /\ Len(p \o r) = i + 1
          /\ \A k \in 1 .. i + 1 : (p \o r)[k] = IF k <= i - 1 THEN p[k] ELSE r[k - (i - 1)]
      <3>1. /\ p \o r \in Seq(Blocks) /\ Len(p \o r) = Len(p) + Len(r)
            /\ \A k \in 1 .. Len(p) + Len(r) : (p \o r)[k] = IF k <= Len(p) THEN p[k] ELSE r[k - Len(p)]
        BY <1>2, <2>1, ConcatProperties
      <3>2. Len(p) + Len(r) = i + 1
        BY <1>1, <1>2, <2>1
      <3> QED BY <1>2, <3>1, <3>2
    <2>3. i - (i - 1) = 1 /\ (i + 1) - (i - 1) = 2 /\ i \in 1 .. i + 1 /\ i + 1 \in 1 .. i + 1
      BY <1>1
    <2>4. t = p \o r
      BY DEF r
    <2> HIDE DEF t
    <2>5. t[i] = a /\ t[i + 1] = b
      BY <1>1, <2>1, <2>2, <2>3, <2>4
    <2>6. \A k \in 1 .. i - 1 : t[k] = s[k]
      BY <1>1, <1>2, <2>2, <2>4
    <2> QED BY <2>2, <2>4, <2>5, <2>6
  <1> HIDE DEF t
  <1>5. g \in Seq(Blocks) /\ Len(g) = n + 1
        /\ \A k \in 1 .. n + 1 : g[k] = IF k <= i + 1 THEN t[k] ELSE q[k - (i + 1)]
    <2>1. /\ t \o q \in Seq(Blocks) /\ Len(t \o q) = Len(t) + Len(q)
          /\ \A k \in 1 .. Len(t) + Len(q) : (t \o q)[k] = IF k <= Len(t) THEN t[k] ELSE q[k - Len(t)]
      BY <1>3, <1>4, ConcatProperties
    <2>2. Len(t) + Len(q) = n + 1
      BY <1>1, <1>3, <1>4
    <2> QED BY <1>4, <2>1, <2>2
  <1>6. \A k \in 1 .. i + 1 : g[k] = t[k]
    BY <1>1, <1>5
  <1>7. \A k \in i + 2 .. n + 1 : g[k] = s[k - 1]
    <2> SUFFICES ASSUME NEW k \in i + 2 .. n + 1 PROVE g[k] = s[k - 1]
      OBVIOUS
    <2>1. g[k] = q[k - (i + 1)]
      BY <1>1, <1>5
    <2>2. k - (i + 1) \in 1 .. n - i /\ i + (k - (i + 1)) = k - 1
      BY <1>1
    <2> QED BY <1>3, <2>1, <2>2
  <1> HIDE DEF g
  <1>8. g[i] = a /\ g[i + 1] = b /\ \A k \in 1 .. i - 1 : g[k] = s[k]
    BY <1>1, <1>4, <1>6
  <1> QED BY <1>5, <1>7, <1>8 DEF g, t, p, q, n, Split, IsSplit

\* The two parts of a block that is split end where the block ended.
LEMMA CutEnds ==
  ASSUME NEW a \in Int, NEW h \in Int, NEW n \in Int, NEW s \in Int
  PROVE  a + h + n + h + (s - n - h) = a + h + s
  OBVIOUS

\* kmalloc takes block i, or its first n units.
LEMMA CarveKeeps ==
  ASSUME heap \in Seq(Blocks), Apart(heap), NEW i \in DOMAIN heap, heap[i].free,
         NEW n \in Nat \ {0}, heap[i].size >= n
  PROVE  LET g == Carve(i, n)
         IN  /\ Recut(heap, g)
             /\ \E j \in DOMAIN g : /\ g[j].addr = heap[i].addr /\ ~g[j].free /\ g[j].size >= n
                                    /\ Whole(g[j]) \subseteq Whole(heap[i])
  <1> DEFINE b == heap[i]
             l == Len(heap)
             x == Block(b.addr, n, FALSE)
             y == Block(b.addr + HDR + n, b.size - n - HDR, TRUE)
             g == Carve(i, n)
  <1>1. /\ b \in Blocks /\ b.addr \in Nat /\ b.size \in Nat /\ HDR \in Nat \ {0} /\ SPLIT_MIN \in Nat \ {0}
        /\ l \in Nat /\ DOMAIN heap = 1 .. l /\ \A k \in 1 .. l : heap[k] \in Blocks
    BY HeapAssumption, BlockUnits
  <1>2. CASE b.size >= n + HDR + SPLIT_MIN
    <2>1. g = SubSeq(heap, 1, i - 1) \o <<x, y>> \o SubSeq(heap, i + 1, Len(heap))
      BY <1>2 DEF Carve
    <2>2. PICK ba \in Nat, bs \in Nat : ba = b.addr /\ bs = b.size
      BY <1>1
    <2>3. /\ HDR \in Nat \ {0} /\ n \in Nat \ {0} /\ ba + HDR + n \in Nat /\ bs - n - HDR \in Nat \ {0}
          /\ bs >= n + HDR
      <3>1. HDR \in Nat \ {0} /\ SPLIT_MIN \in Nat \ {0}
        BY <1>1
      <3>2. bs >= n + HDR + SPLIT_MIN
        BY <1>2, <2>2
      <3> QED BY <3>1, <3>2
    <2>4. x \in Blocks /\ y \in Blocks
      BY <2>2, <2>3 DEF Block, Blocks
    <2>5. Whole(x) = ba .. (ba + HDR + n) - 1 /\ Whole(y) = ba + HDR + n .. (ba + HDR + bs) - 1
      <3>1. x.addr = ba /\ x.size = n /\ y.addr = ba + HDR + n /\ y.size = bs - n - HDR
        BY <2>2 DEF Block
      <3>2. End(x) = ba + HDR + n /\ End(y) = ba + HDR + n + HDR + (bs - n - HDR)
        BY <3>1 DEF End
      <3>3. ba + HDR + n + HDR + (bs - n - HDR) = ba + HDR + bs
        <4>1. ba \in Int /\ bs \in Int /\ n \in Int /\ HDR \in Int
          BY <2>2, <2>3
        <4> HIDE DEF x, y, b, g
        <4> QED BY <4>1, CutEnds
      <3> HIDE DEF x, y
      <3> QED BY <3>1, <3>2, <3>3 DEF Whole
    <2>6. Whole(b) = ba .. (ba + HDR + bs) - 1
      BY <2>2 DEF Whole, End
    <2>7. Whole(x) \cap Whole(y) = {} /\ Whole(x) \subseteq Whole(b) /\ Whole(y) \subseteq Whole(b)
      <3> HIDE DEF x, y, b
      <3>1. PICK u \in Nat, v \in Nat : u = ba + HDR + n /\ v = ba + HDR + bs
        BY <2>3
      <3>2. u > ba /\ u <= v
        BY <2>3, <3>1
      <3>3. Whole(x) = ba .. u - 1 /\ Whole(y) = u .. v - 1 /\ Whole(b) = ba .. v - 1
        BY <2>5, <2>6, <3>1
      <3> QED BY <3>2, <3>3
    <2>8. ~x.free /\ x.addr = b.addr /\ x.size = n /\ b.free
      BY DEF Block
    <2> HIDE DEF x, y
    <2>9. /\ g \in Seq(Blocks) /\ Len(g) = l + 1 /\ g[i] = x /\ g[i + 1] = y
          /\ \A k \in 1 .. i - 1 : g[k] = heap[k]
          /\ \A k \in i + 2 .. l + 1 : g[k] = heap[k - 1]
      <3>1. i \in 1 .. Len(heap)
        BY <1>1
      <3>2. g = Split(heap, i, x, y)
        BY <2>1 DEF Split
      <3> HIDE DEF g, l
      <3>3. IsSplit(g, heap, i, x, y)
        BY <2>4, <3>1, <3>2, SplitAt, Zenon
      <3> QED BY <3>3 DEF IsSplit, l
    <2> HIDE DEF g, b, l
    <2> DEFINE from(k) == IF k <= i THEN k ELSE k - 1
    <2>10. DOMAIN g = 1 .. l + 1 /\ i \in 1 .. l /\ b = heap[i]
      BY <1>1, <2>9 DEF b
    <2>11. \A k \in 1 .. l + 1 : from(k) \in 1 .. l /\ Whole(g[k]) \subseteq Whole(heap[from(k)])
      <3> SUFFICES ASSUME NEW k \in 1 .. l + 1
                   PROVE  from(k) \in 1 .. l /\ Whole(g[k]) \subseteq Whole(heap[from(k)])
        OBVIOUS
      <3>1. CASE k = i \/ k = i + 1
        <4>1. from(k) = i
          BY <1>1, <2>10, <3>1
        <4> QED BY <2>7, <2>9, <2>10, <3>1, <4>1
      <3>2. CASE k \in 1 .. i - 1
        BY <1>1, <2>9, <2>10, <3>2
      <3>3. CASE k \in i + 2 .. l + 1
        BY <1>1, <2>9, <2>10, <3>3
      <3> QED BY <1>1, <2>10, <3>1, <3>2, <3>3
    <2>12. \A j, k \in 1 .. l + 1 : j # k /\ from(j) = from(k) => (j = i /\ k = i + 1) \/ (k = i /\ j = i + 1)
      BY <1>1, <2>10
    <2> HIDE DEF from
    <2>13. Apart(g)
      <3> SUFFICES ASSUME NEW j \in 1 .. l + 1, NEW k \in 1 .. l + 1, j # k
                   PROVE  Whole(g[j]) \cap Whole(g[k]) = {}
        BY <2>10 DEF Apart
      <3>1. CASE from(j) = from(k)
        BY <2>7, <2>9, <2>12, <3>1
      <3>2. CASE from(j) # from(k)
        <4>1. Whole(heap[from(j)]) \cap Whole(heap[from(k)]) = {}
          BY <1>1, <2>11, <3>2 DEF Apart
        <4> QED BY <2>11, <4>1
      <3> QED BY <3>1, <3>2
    <2>14. ASSUME NEW u, Covers(g, u) PROVE Covers(heap, u)
      BY <1>1, <2>10, <2>11, <2>14 DEF Covers
    <2>15. ASSUME NEW k \in DOMAIN heap, ~heap[k].free PROVE \E j \in DOMAIN g : g[j] = heap[k]
      <3>1. k \in 1 .. l /\ k # i
        BY <1>1, <2>15
      <3>2. CASE k < i
        <4>1. k \in 1 .. i - 1 /\ k \in DOMAIN g
          BY <1>1, <2>10, <3>1, <3>2
        <4> QED BY <2>9, <4>1
      <3>3. CASE k > i
        <4>1. k + 1 \in i + 2 .. l + 1 /\ (k + 1) - 1 = k /\ k + 1 \in DOMAIN g
          BY <1>1, <2>10, <3>1, <3>3
        <4> QED BY <2>9, <4>1
      <3> QED BY <1>1, <2>10, <3>1, <3>2, <3>3
    <2>16. Recut(heap, g)
      BY <2>9, <2>13, <2>14, <2>15 DEF Recut
    <2>17. i \in DOMAIN g /\ g[i].addr = b.addr /\ ~g[i].free /\ g[i].size >= n /\ Whole(g[i]) \subseteq Whole(b)
      <3>1. i \in DOMAIN g /\ n >= n
        BY <1>1, <2>10
      <3> QED BY <2>7, <2>8, <2>9, <3>1
    <2> QED BY <2>16, <2>17 DEF g, b
  <1>3. CASE ~(b.size >= n + HDR + SPLIT_MIN)
    <2>1. g = [heap EXCEPT ![i].free = FALSE]
      BY <1>3 DEF Carve
    <2> HIDE DEF g
    <2>2. /\ g \in Seq(Blocks) /\ Apart(g) /\ DOMAIN g = DOMAIN heap /\ \A u : Covers(g, u) <=> Covers(heap, u)
          /\ \A k \in DOMAIN heap : k # i => g[k] = heap[k]
          /\ g[i].addr = b.addr /\ g[i].size = b.size /\ g[i].free = FALSE
      BY <2>1, Reflagged
    <2>3. Recut(heap, g)
      BY <2>2 DEF Recut
    <2>4. Whole(g[i]) = Whole(b)
      BY <2>2 DEF Whole, End
    <2> QED BY <2>2, <2>3, <2>4 DEF g
  <1> QED BY <1>2, <1>3

-----------------------------------------------------------------------------
(***************************************************************************)
(* The slab pages s, the objects lv in the hands of callers, and where     *)
(* they are: a heap object has a block in use to itself, a slab object the *)
(* bit of a slot.                                                          *)
(***************************************************************************)
SlabRecs == [page : Page, used : Nat, bitmap : SUBSET Nat]
Things   == [ptr : Nat, size : Nat \ {0}, kind : {"heap", "slab"}]

SlabOK(s, S) ==
  /\ s \in [Class -> Seq(SlabRecs)]
  /\ \A c \in Class : \A i \in DOMAIN s[c] : /\ s[c][i].bitmap \subseteq 0 .. Total(c) - 1
                                             /\ s[c][i].used = Cardinality(s[c][i].bitmap)
                                             /\ <<s[c][i].page, 1>> \in S
  /\ \A c, d \in Class : \A i \in DOMAIN s[c], j \in DOMAIN s[d] :
       s[c][i].page = s[d][j].page => c = d /\ i = j

\* No block lies in a slab page.
Elsewhere(h, s) ==
  \A c \in Class : \A i \in DOMAIN s[c] : \A u : Covers(h, u) => u \div PAGE_SIZE # s[c][i].page

Home(h, lv, o, i) ==
  /\ ~h[i].free /\ Span(o) \subseteq Payload(h[i])
  /\ \A q \in lv : q # o /\ q.kind = "heap" => Span(q) \cap Payload(h[i]) = {}
Slot(s, o, c, i, k) ==
  k \in s[c][i].bitmap /\ o.ptr = ObjectAt(c, s[c][i].page, k) /\ o.size <= slab_sizes[c]

HeapLive(h, lv) == \A o \in lv : o.kind = "heap" => \E i \in DOMAIN h : Home(h, lv, o, i)
SlabLive(s, lv) ==
  /\ \A o \in lv : o.kind = "slab" => \E c \in Class : \E i \in DOMAIN s[c], k \in Nat : Slot(s, o, c, i, k)
  /\ \A o, q \in lv : o.kind = "slab" /\ q.kind = "slab" /\ o.ptr = q.ptr => o = q

ThingsOK(h, s, lv, S) ==
  HeapOK(h, S) /\ SlabOK(s, S) /\ Elsewhere(h, s) /\ lv \subseteq Things /\ HeapLive(h, lv) /\ SlabLive(s, lv)

LEMMA SlabFields ==
  ASSUME NEW s, NEW S, SlabOK(s, S), NEW c \in Class, NEW i \in DOMAIN s[c]
  PROVE  /\ s[c] \in Seq(SlabRecs) /\ s[c][i] \in SlabRecs
         /\ s[c][i].page \in Page /\ s[c][i].page \in Nat
         /\ s[c][i].bitmap \subseteq 0 .. Total(c) - 1 /\ s[c][i].used = Cardinality(s[c][i].bitmap)
         /\ <<s[c][i].page, 1>> \in S
         /\ s[c][i].page \in Run(s[c][i].page, 1)
  <1>1. s[c] \in Seq(SlabRecs)
    BY DEF SlabOK
  <1>2. s[c][i] \in SlabRecs
    BY <1>1
  <1>3. s[c][i].page \in Page
    BY <1>2 DEF SlabRecs
  <1>4. s[c][i].page \in Nat
    BY <1>3, PageNat
  <1>5. s[c][i].page \in Run(s[c][i].page, 1)
    <2> DEFINE x == s[c][i].page
    <2> HIDE DEF x
    <2>1. x \in Nat
      BY <1>4 DEF x
    <2>2. x \in Run(x, 1)
      BY <2>1 DEF Run
    <2> QED BY <2>2 DEF x
  <1> QED BY <1>1, <1>2, <1>3, <1>4, <1>5 DEF SlabOK

\* An object has a first unit.
LEMMA SpanStart ==
  ASSUME NEW o \in Things
  PROVE  o.ptr \in Span(o) /\ o.ptr \in Nat /\ o.size \in Nat \ {0} /\ Span(o) \subseteq Nat
  <1>1. o.ptr \in Nat /\ o.size \in Nat \ {0}
    BY DEF Things
  <1> QED BY <1>1 DEF Span

\* Objects do not notice that free memory is recut.
LEMMA RecutKeeps ==
  ASSUME NEW h, NEW s, NEW lv, NEW S, ThingsOK(h, s, lv, S), NEW g, Recut(h, g)
  PROVE  ThingsOK(g, s, lv, S)
  <1>1. HeapOK(g, S)
    BY DEF ThingsOK, HeapOK, Recut
  <1>2. Elsewhere(g, s)
    BY DEF ThingsOK, Elsewhere, Recut
  <1>3. HeapLive(g, lv)
    <2> SUFFICES ASSUME NEW o \in lv, o.kind = "heap" PROVE \E i \in DOMAIN g : Home(g, lv, o, i)
      BY DEF HeapLive
    <2>1. PICK i \in DOMAIN h : Home(h, lv, o, i)
      BY DEF ThingsOK, HeapLive
    <2>2. PICK j \in DOMAIN g : g[j] = h[i]
      BY <2>1 DEF Recut, Home
    <2>3. Home(g, lv, o, j)
      BY <2>1, <2>2 DEF Home
    <2> QED BY <2>3
  <1> QED BY <1>1, <1>2, <1>3 DEF ThingsOK

Unused(S, a, k)   == \A r \in S : Run(r[1], r[2]) \cap Run(a, k) = {}
Headed(b, h)      == <<b>> \o h
InRun(b, a, k)    == \A u \in Whole(b) : u \div PAGE_SIZE \in Run(a, k)
Unheld(lv, b)     == \A q \in lv : q.kind = "heap" => Span(q) \cap Payload(b) = {}

\* A caller gets a block in use that nobody else has.
LEMMA NewHeapObject ==
  ASSUME NEW h, NEW s, NEW lv, NEW S, ThingsOK(h, s, lv, S),
         NEW j \in DOMAIN h, ~h[j].free, NEW o \in Things, o.kind = "heap", Span(o) \subseteq Payload(h[j]),
         Unheld(lv, h[j])
  PROVE  ThingsOK(h, s, lv \cup {o}, S)
  <1> USE DEF Unheld
  <1> DEFINE w == lv \cup {o}
  <1>0. h \in Seq(Blocks) /\ Apart(h) /\ lv \subseteq Things /\ HeapLive(h, lv) /\ SlabLive(s, lv)
    BY DEF ThingsOK, HeapOK
  <1>1. ASSUME NEW q \in w, q.kind = "heap" PROVE \E i \in DOMAIN h : Home(h, w, q, i)
    <2>1. CASE q = o
      <3>1. Home(h, w, o, j)
        BY DEF Home
      <3> QED BY <2>1, <3>1
    <2>2. CASE q # o
      <3>1. q \in lv /\ q \in Things
        BY <1>0, <2>2
      <3>2. PICK i \in DOMAIN h : Home(h, lv, q, i)
        BY <1>0, <1>1, <3>1 DEF HeapLive
      <3>3. q.ptr \in Span(q)
        BY <3>1, SpanStart
      <3>4. Span(q) \subseteq Payload(h[i]) /\ Span(q) \cap Payload(h[j]) = {}
        BY <1>1, <3>1, <3>2 DEF Home
      <3>5. i # j
        BY <3>3, <3>4
      <3>6. h[i] \in Blocks /\ h[j] \in Blocks
        BY <1>0
      <3>7. Payload(h[i]) \cap Payload(h[j]) = {}
        BY <1>0, <3>5, <3>6, BlockUnits DEF Apart
      <3>8. Home(h, w, q, i)
        BY <3>2, <3>7 DEF Home
      <3> QED BY <3>8
    <2> QED BY <2>1, <2>2
  <1>2. SlabLive(s, w)
    BY <1>0 DEF SlabLive
  <1>3. HeapLive(h, w)
    BY <1>1 DEF HeapLive
  <1>4. w \subseteq Things
    BY <1>0
  <1> QED BY <1>2, <1>3, <1>4 DEF ThingsOK

\* A caller gives an object back.
LEMMA DropObject ==
  ASSUME NEW h, NEW s, NEW lv, NEW S, ThingsOK(h, s, lv, S), NEW o
  PROVE  ThingsOK(h, s, lv \ {o}, S)
  <1>1. HeapLive(h, lv \ {o})
    BY DEF ThingsOK, HeapLive, Home
  <1>2. SlabLive(s, lv \ {o})
    BY DEF ThingsOK, SlabLive
  <1> QED BY <1>1, <1>2 DEF ThingsOK

\* The header of block i is marked free when its object is given back.
LEMMA FreedBlock ==
  ASSUME NEW h, NEW s, NEW lv, NEW S, ThingsOK(h, s, lv, S), NEW o \in lv, o.kind = "heap",
         NEW i \in DOMAIN h, h[i].addr + HDR = o.ptr,
         NEW g, g = [h EXCEPT ![i].free = TRUE]
  PROVE  ThingsOK(g, s, lv \ {o}, S)
  <1> DEFINE w == lv \ {o}
  <1>0. h \in Seq(Blocks) /\ Apart(h) /\ lv \subseteq Things /\ HeapLive(h, lv)
    BY DEF ThingsOK, HeapOK
  <1>1. /\ g \in Seq(Blocks) /\ Apart(g) /\ DOMAIN g = DOMAIN h /\ \A u : Covers(g, u) <=> Covers(h, u)
        /\ \A k \in DOMAIN h : k # i => g[k] = h[k]
    BY <1>0, Reflagged
  <1>2. Home(h, lv, o, i)
    <2>1. PICK k \in DOMAIN h : Home(h, lv, o, k)
      BY <1>0 DEF HeapLive
    <2>2. o.ptr \in Payload(h[k]) /\ o.ptr \in Payload(h[i])
      <3>1. o.ptr \in Span(o) /\ Span(o) \subseteq Payload(h[k])
        BY <1>0, <2>1, SpanStart DEF Home
      <3>2. h[i].addr + HDR \in Payload(h[i])
        BY <1>0, BlockUnits
      <3> QED BY <3>1, <3>2
    <2>3. h[k] \in Blocks /\ h[i] \in Blocks
      BY <1>0
    <2>4. k = i
      BY <1>0, <2>2, <2>3, BlockUnits DEF Apart
    <2> QED BY <2>1, <2>4
  <1>3. ASSUME NEW q \in w, q.kind = "heap" PROVE \E k \in DOMAIN g : Home(g, w, q, k)
    <2>1. PICK k \in DOMAIN h : Home(h, lv, q, k)
      BY <1>0, <1>3 DEF HeapLive
    <2>2. q.ptr \in Span(q)
      BY <1>0, SpanStart
    <2>3. k # i
      BY <1>2, <1>3, <2>1, <2>2 DEF Home
    <2>4. Home(g, w, q, k)
      BY <1>1, <2>1, <2>3 DEF Home
    <2> QED BY <1>1, <2>4
  <1>4. HeapLive(g, w)
    BY <1>3 DEF HeapLive
  <1>5. SlabLive(s, w)
    BY DEF ThingsOK, SlabLive
  <1>6. HeapOK(g, S) /\ Elsewhere(g, s)
    BY <1>1 DEF ThingsOK, HeapOK, Elsewhere
  <1> QED BY <1>0, <1>4, <1>5, <1>6 DEF ThingsOK

\* The page manager hands out a run that no block and no slab page is in.
LEMMA MoreRuns ==
  ASSUME NEW h, NEW s, NEW lv, NEW S, ThingsOK(h, s, lv, S), NEW T, S \subseteq T
  PROVE  ThingsOK(h, s, lv, T)
  <1>1. HeapOK(h, T)
    BY DEF ThingsOK, HeapOK, Within
  <1>2. SlabOK(s, T)
    BY DEF ThingsOK, SlabOK
  <1> QED BY <1>1, <1>2 DEF ThingsOK

\* heap_grow puts a block made of a new run at the head of the list.
LEMMA GrowKeeps ==
  ASSUME NEW h, NEW s, NEW lv, NEW S, ThingsOK(h, s, lv, S), NEW a, NEW k, Unused(S, a, k),
         NEW b \in Blocks, InRun(b, a, k), NEW g, g = Headed(b, h)
  PROVE  ThingsOK(g, s, lv, S \cup {<<a, k>>}) /\ g[1] = b /\ 1 \in DOMAIN g /\ Unheld(lv, b)
  <1> USE DEF Unused, InRun, Unheld, Headed
  <1> DEFINE T == S \cup {<<a, k>>}
             n == Len(h)
  <1>0. /\ h \in Seq(Blocks) /\ Apart(h) /\ lv \subseteq Things /\ HeapLive(h, lv) /\ SlabLive(s, lv)
        /\ \A u : Covers(h, u) => Within(u, S)
    BY DEF ThingsOK, HeapOK
  <1>1. /\ g \in Seq(Blocks) /\ n \in Nat /\ DOMAIN h = 1 .. n /\ DOMAIN g = 1 .. n + 1 /\ g[1] = b
        /\ \A i \in 1 .. n : g[i + 1] = h[i]
    <2>1. g \in Seq(Blocks) /\ n \in Nat /\ DOMAIN h = 1 .. n /\ Len(g) = n + 1
      BY <1>0
    <2>2. g[1] = b /\ \A i \in 1 .. n : g[i + 1] = h[i]
      BY <1>0
    <2> QED BY <2>1, <2>2
  <1> HIDE DEF n
  <1>2. \A i \in 1 .. n + 1 : i = 1 \/ (i - 1 \in 1 .. n /\ g[i] = h[i - 1])
    <2> SUFFICES ASSUME NEW i \in 1 .. n + 1, i # 1 PROVE i - 1 \in 1 .. n /\ g[i] = h[i - 1]
      OBVIOUS
    <2>1. i - 1 \in 1 .. n /\ (i - 1) + 1 = i
      BY <1>1
    <2> QED BY <1>1, <2>1
  <1>3. \A u \in Whole(b) : ~Covers(h, u)
    <2> SUFFICES ASSUME NEW u \in Whole(b), Covers(h, u) PROVE FALSE
      OBVIOUS
    <2>1. PICK r \in S : u \div PAGE_SIZE \in Run(r[1], r[2])
      BY <1>0 DEF Within
    <2>2. u \div PAGE_SIZE \in Run(a, k)
      OBVIOUS
    <2> QED BY <2>1, <2>2
  <1>4. \A i \in 1 .. n : Whole(h[i]) \cap Whole(b) = {}
    BY <1>1, <1>3 DEF Covers
  <1>5. Apart(g)
    <2> SUFFICES ASSUME NEW i \in 1 .. n + 1, NEW j \in 1 .. n + 1, i # j PROVE Whole(g[i]) \cap Whole(g[j]) = {}
      BY <1>1 DEF Apart
    <2>1. CASE i = 1
      BY <1>1, <1>2, <1>4, <2>1
    <2>2. CASE j = 1
      BY <1>1, <1>2, <1>4, <2>2
    <2>3. CASE i # 1 /\ j # 1
      <3>1. i - 1 # j - 1
        BY <1>1, <2>3
      <3>2. i - 1 \in DOMAIN h /\ j - 1 \in DOMAIN h /\ g[i] = h[i - 1] /\ g[j] = h[j - 1]
        BY <1>1, <1>2, <2>3
      <3> QED BY <1>0, <3>1, <3>2 DEF Apart
    <2> QED BY <2>1, <2>2, <2>3
  <1>6. ASSUME NEW u, Covers(g, u) PROVE Covers(h, u) \/ u \in Whole(b)
    <2>1. PICK i \in 1 .. n + 1 : u \in Whole(g[i])
      BY <1>1, <1>6 DEF Covers
    <2> QED BY <1>1, <1>2, <2>1 DEF Covers
  <1>7. HeapOK(g, T)
    <2> SUFFICES ASSUME NEW u, Covers(g, u) PROVE Within(u, T)
      BY <1>1, <1>5 DEF HeapOK
    <2>1. CASE Covers(h, u)
      BY <1>0, <2>1 DEF Within
    <2>2. CASE u \in Whole(b)
      <3>1. u \div PAGE_SIZE \in Run(a, k)
        BY <2>2
      <3>2. <<a, k>>[1] = a /\ <<a, k>>[2] = k /\ <<a, k>> \in T
        OBVIOUS
      <3> QED BY <3>1, <3>2 DEF Within
    <2> QED BY <1>6, <2>1, <2>2
  <1>8. SlabOK(s, T)
    BY DEF ThingsOK, SlabOK
  <1>9. Elsewhere(g, s)
    <2> SUFFICES ASSUME NEW c \in Class, NEW i \in DOMAIN s[c], NEW u, Covers(g, u)
                 PROVE  u \div PAGE_SIZE # s[c][i].page
      BY DEF Elsewhere
    <2>1. CASE Covers(h, u)
      BY <2>1 DEF ThingsOK, Elsewhere
    <2>2. CASE u \in Whole(b)
      <3>1. <<s[c][i].page, 1>> \in S /\ s[c][i].page \in Run(s[c][i].page, 1)
        BY SlabFields DEF ThingsOK
      <3>3. Run(s[c][i].page, 1) \cap Run(a, k) = {}
        BY <3>1
      <3> QED BY <2>2, <3>1, <3>3
    <2> QED BY <1>6, <2>1, <2>2
  <1>10. HeapLive(g, lv)
    <2> SUFFICES ASSUME NEW o \in lv, o.kind = "heap" PROVE \E i \in DOMAIN g : Home(g, lv, o, i)
      BY DEF HeapLive
    <2>1. PICK i \in DOMAIN h : Home(h, lv, o, i)
      BY <1>0 DEF HeapLive
    <2>2. i + 1 \in DOMAIN g /\ g[i + 1] = h[i]
      BY <1>1
    <2>3. Home(g, lv, o, i + 1)
      BY <2>1, <2>2 DEF Home
    <2> QED BY <2>2, <2>3
  <1>11. ASSUME NEW q \in lv, q.kind = "heap" PROVE Span(q) \cap Payload(b) = {}
    <2>1. PICK i \in DOMAIN h : Home(h, lv, q, i)
      BY <1>0, <1>11 DEF HeapLive
    <2>2. Span(q) \subseteq Payload(h[i]) /\ h[i] \in Blocks
      BY <1>0, <2>1 DEF Home
    <2> QED BY <1>1, <1>4, <2>2, BlockUnits
  <1>12. 1 \in DOMAIN g
    BY <1>1
  <1> QED BY <1>0, <1>1, <1>7, <1>8, <1>9, <1>10, <1>11, <1>12 DEF ThingsOK

\* What kmalloc asks of the list for an object of want units.
Asked(n, want, aligned) == IF aligned THEN n = want + PAGE_SIZE + HDR ELSE n = want

\* The object lies in the n units from p.
LEMMA PointerInside ==
  ASSUME NEW p \in Nat, NEW want \in Nat \ {0}, NEW aligned \in BOOLEAN, NEW n, Asked(n, want, aligned)
  PROVE  /\ n \in Nat \ {0} /\ Object(p, want, aligned) \in Things /\ Object(p, want, aligned).kind = "heap"
         /\ Span(Object(p, want, aligned)) \subseteq p .. (p + n) - 1
  <1> DEFINE x == Pointer(p, aligned)
             o == Object(p, want, aligned)
  <1>1. PAGE_SIZE \in Nat \ {0} /\ HDR \in Nat \ {0}
    BY HeapAssumption
  <1>2. n \in Nat \ {0}
    BY <1>1 DEF Asked
  <1>3. x \in Nat /\ x >= p /\ x + want <= p + n
    <2>1. CASE ~aligned
      BY <2>1 DEF Asked, Pointer
    <2>2. CASE aligned
      <3> DEFINE d == PAGE_SIZE
                 q == (p + d - 1) \div d
      <3>1. d \in Nat \ {0} /\ p + d - 1 \in Nat
        BY <1>1
      <3>2. x = q * d
        BY <2>2 DEF Pointer
      <3> HIDE DEF d
      <3>3. q \in Nat /\ d * q <= p + d - 1 /\ p + d - 1 < d * q + d
        BY <3>1, Quotient
      <3> HIDE DEF q, x
      <3>4. x = d * q /\ x \in Nat
        BY <3>1, <3>2, <3>3
      <3>5. n = want + d + HDR
        BY <2>2 DEF Asked, d
      <3> QED BY <1>1, <3>1, <3>3, <3>4, <3>5
    <2> QED BY <2>1, <2>2
  <1>4. o.ptr = x /\ o.size = want /\ o.kind = "heap" /\ o = [ptr |-> x, size |-> want, kind |-> "heap"]
    BY DEF Object
  <1> HIDE DEF x, o
  <1>5. o \in Things
    BY <1>3, <1>4 DEF Things
  <1>6. Span(o) \subseteq p .. (p + n) - 1
    BY <1>2, <1>3, <1>4 DEF Span
  <1> QED BY <1>2, <1>4, <1>5, <1>6 DEF o

-----------------------------------------------------------------------------
(***************************************************************************)
(* The invariant of the heap and the slabs, as long as kfree has merged    *)
(* only neighbours.                                                        *)
(***************************************************************************)
HeapInv == crossed \in BOOLEAN /\ (~crossed => ThingsOK(heap, slab, live, Spare))

MemoryInv == SpaceInv /\ HeapInv

\* Nothing happens to the pages.
LEMMA SamePages ==
  ASSUME SpaceInv, UNCHANGED spaceVars, UNCHANGED vars
  PROVE  SpaceInv' /\ Spare' = Spare
  BY DEF SpaceInv, Spare, Now, spaceVars, vars

\* The runs the heap and the slabs have are not part of a new one.
LEMMA NewRun ==
  ASSUME SpaceInv, SpaceInv', NEW a, NEW k, <<a, k>> \notin held, held' = held \cup {<<a, k>>}
  PROVE  Unused(Spare, a, k)
  <1> SUFFICES ASSUME NEW r \in Spare PROVE Run(r[1], r[2]) \cap Run(a, k) = {}
    BY DEF Unused
  <1>1. r \in held
    BY NowFields DEF Spare, Outside
  <1>2. r \in held' /\ <<a, k>> \in held' /\ r # <<a, k>>
    BY <1>1
  <1>3. PmmOK(Now)'
    BY DEF SpaceInv, SpacesOK
  <1>4. Now'.held = held'
    BY DEF Now
  <1>5. \A q \in held' : Private(q, held')
    BY <1>3, <1>4 DEF PmmOK
  <1>6. Run(<<a, k>>[1], <<a, k>>[2]) = Run(a, k)
    OBVIOUS
  <1> QED BY <1>2, <1>5, <1>6 DEF Private

LEMMA FitsStep ==
  ASSUME heap \in Seq(Blocks), NEW n \in Nat, Fits(n) # {}
  PROVE  /\ Min(Fits(n)) \in DOMAIN heap /\ heap[Min(Fits(n))].free
         /\ heap[Min(Fits(n))].size >= n
  <1>1. Fits(n) \subseteq Nat
    BY DEF Fits
  <1>2. Min(Fits(n)) \in Fits(n)
    BY <1>1, MinIsIn
  <1> QED BY <1>2 DEF Fits, Free

LEMMA KmallocStep ==
  ASSUME MemoryInv, UNCHANGED spaceVars, NEW want \in Nat \ {0}, NEW aligned \in BOOLEAN,
         NEW n, Asked(n, want, aligned), kmalloc(n, want, aligned)
  PROVE  MemoryInv'
  <1>0. n \in Nat \ {0} /\ crossed' = crossed /\ slab' = slab /\ crossed \in BOOLEAN /\ SpaceInv
    <2>1. n \in Nat \ {0}
      BY PointerInside
    <2> QED BY <2>1 DEF kmalloc, MemoryInv, HeapInv
  <1>1. CASE Fits(n) # {} /\ \E i \in Fits(n) :
               /\ i = Min(Fits(n))
               /\ heap' = Carve(i, n)
               /\ live' = live \cup {Object(heap[i].addr + HDR, want, aligned)}
               /\ UNCHANGED <<pmm_bitmap, pmm_used_pages, held>>
    <2> DEFINE i == Min(Fits(n))
               o == Object(heap[i].addr + HDR, want, aligned)
    <2>1. heap' = Carve(i, n) /\ live' = live \cup {o} /\ UNCHANGED vars
      BY <1>1 DEF vars
    <2>2. SpaceInv' /\ Spare' = Spare
      BY <1>0, <2>1, SamePages
    <2>3. SUFFICES ASSUME ~crossed PROVE ThingsOK(heap', slab, live', Spare)
      BY <1>0, <2>2 DEF MemoryInv, HeapInv
    <2>4. ThingsOK(heap, slab, live, Spare) /\ heap \in Seq(Blocks) /\ Apart(heap)
      BY <2>3 DEF MemoryInv, HeapInv, ThingsOK, HeapOK
    <2>5. i \in DOMAIN heap /\ heap[i].free /\ heap[i].size >= n
      BY <1>0, <1>1, <2>4, FitsStep
    <2> HIDE DEF i
    <2>6. /\ Recut(heap, Carve(i, n))
          /\ \E j \in DOMAIN Carve(i, n) :
               /\ Carve(i, n)[j].addr = heap[i].addr /\ ~Carve(i, n)[j].free /\ Carve(i, n)[j].size >= n
               /\ Whole(Carve(i, n)[j]) \subseteq Whole(heap[i])
      BY <1>0, <2>4, <2>5, CarveKeeps
    <2> DEFINE g == Carve(i, n)
    <2> HIDE DEF g
    <2>7. Recut(heap, g) /\ heap' = g
      BY <2>1, <2>6 DEF g
    <2>8. PICK j \in DOMAIN g : /\ g[j].addr = heap[i].addr /\ ~g[j].free /\ g[j].size >= n
                                /\ Whole(g[j]) \subseteq Whole(heap[i])
      BY <2>6 DEF g
    <2>9. ThingsOK(g, slab, live, Spare)
      BY <2>4, <2>7, RecutKeeps
    <2>10. g[j] \in Blocks /\ heap[i] \in Blocks
      BY <2>4, <2>5, <2>7 DEF Recut
    <2>11. PICK p \in Nat : p = heap[i].addr + HDR /\ p = g[j].addr + HDR
      BY <2>8, <2>10, BlockUnits, HeapAssumption
    <2>12. o \in Things /\ o.kind = "heap" /\ Span(o) \subseteq p .. (p + n) - 1
      <3>1. o = Object(p, want, aligned)
        BY <2>11
      <3> HIDE DEF o
      <3> QED BY <3>1, PointerInside
    <2> HIDE DEF o
    <2>13. Span(o) \subseteq Payload(g[j])
      <3>1. PICK z \in Nat : z = g[j].size
        BY <2>10, BlockUnits
      <3>2. Payload(g[j]) = p .. (p + z) - 1 /\ z >= n
        BY <2>8, <2>11, <3>1 DEF Payload, End
      <3> QED BY <1>0, <2>12, <3>1, <3>2
    <2>14. Unheld(live, g[j])
      <3> SUFFICES ASSUME NEW q \in live, q.kind = "heap" PROVE Span(q) \cap Payload(g[j]) = {}
        BY DEF Unheld
      <3>1. PICK k \in DOMAIN heap : Home(heap, live, q, k)
        BY <2>4 DEF ThingsOK, HeapLive
      <3>2. k # i /\ Span(q) \subseteq Payload(heap[k]) /\ heap[k] \in Blocks
        BY <2>4, <2>5, <3>1 DEF Home
      <3>3. Whole(heap[k]) \cap Whole(heap[i]) = {}
        BY <2>4, <2>5, <3>2 DEF Apart
      <3> QED BY <2>8, <2>10, <3>2, <3>3, BlockUnits
    <2>15. ThingsOK(g, slab, live \cup {o}, Spare)
      BY <2>8, <2>9, <2>12, <2>13, <2>14, NewHeapObject
    <2> QED BY <2>1, <2>7, <2>15
  <1>2. CASE heap_grow(n) /\ live' = live \cup {Object(heap'[1].addr + HDR, want, aligned)}
    <2> DEFINE d == PAGE_SIZE
               k == (n + HDR + d - 1) \div d
    <2>1. /\ pmm_alloc_pages(k)
          /\ \E r \in held' \ held : heap' = <<Block(r[1] * d, k * d - HDR, FALSE)>> \o heap
      BY <1>2 DEF heap_grow
    <2>2. d \in Nat \ {0} /\ HDR \in Nat \ {0} /\ n + HDR + d - 1 \in Nat
      BY <1>0, HeapAssumption
    <2> HIDE DEF d
    <2>3. k \in Nat /\ d * k <= n + HDR + d - 1 /\ n + HDR + d - 1 < d * k + d
      BY <2>2, Quotient
    <2> HIDE DEF k
    <2>4. k # 0
      BY <1>0, <2>2, <2>3
    <2>5. PICK a \in Page : /\ SpaceInv' /\ <<a, k>> \notin held /\ held' = held \cup {<<a, k>>}
                            /\ Spare' = Spare \cup {<<a, k>>}
      BY <1>0, <2>1, <2>3, <2>4, BuyStep
    <2> DEFINE b == Block(a * d, k * d - HDR, FALSE)
    <2>6. heap' = <<b>> \o heap
      <3>1. PICK r \in held' \ held : heap' = <<Block(r[1] * d, k * d - HDR, FALSE)>> \o heap
        BY <2>1
      <3>2. r = <<a, k>>
        BY <2>5
      <3>3. r[1] = a
        BY <3>2
      <3> QED BY <3>1, <3>3
    <2>7. PICK x \in Nat, z \in Nat : x = a * d /\ z = k * d /\ z >= n + HDR /\ a \in Nat /\ x + z = (a + k) * d
      <3>1. a \in Nat
        BY PageNat
      <3>2. a * d \in Nat /\ k * d \in Nat /\ d * k = k * d /\ a * d + k * d = (a + k) * d
        BY <2>2, <2>3, <3>1
      <3>3. k * d >= n + HDR
        BY <1>0, <2>2, <2>3, <3>2
      <3> QED BY <3>1, <3>2, <3>3
    <2>8. /\ b.addr = x /\ b.size = z - HDR /\ ~b.free
          /\ b = [addr |-> x, size |-> z - HDR, free |-> FALSE]
      BY <2>7 DEF Block
    <2> HIDE DEF b
    <2>9. z - HDR \in Nat \ {0} /\ x + HDR \in Nat /\ x + HDR + (z - HDR) = x + z /\ z - HDR >= n
      BY <1>0, <2>2, <2>7
    <2>10. b \in Blocks /\ Whole(b) = x .. (x + z) - 1 /\ Payload(b) = x + HDR .. (x + z) - 1
      <3>1. b \in Blocks
        BY <2>8, <2>9 DEF Blocks
      <3>2. End(b) = x + z
        BY <2>8, <2>9 DEF End
      <3> QED BY <2>8, <3>1, <3>2 DEF Whole, Payload
    <2>11. InRun(b, a, k)
      <3> SUFFICES ASSUME NEW u \in Whole(b) PROVE u \div PAGE_SIZE \in Run(a, k)
        BY DEF InRun
      <3>1. u \in Nat /\ u \in x .. (x + z) - 1
        BY <2>10, BlockUnits
      <3>2. u \in a * PAGE_SIZE .. (a + k) * PAGE_SIZE - 1
        BY <2>7, <3>1 DEF d
      <3> QED BY <2>3, <2>7, <3>1, <3>2, PageOf
    <2>12. Unused(Spare, a, k)
      BY <1>0, <2>5, NewRun
    <2>13. SUFFICES ASSUME ~crossed PROVE ThingsOK(heap', slab, live', Spare \cup {<<a, k>>})
      BY <1>0, <2>5 DEF MemoryInv, HeapInv
    <2>14. ThingsOK(heap, slab, live, Spare)
      BY <2>13 DEF MemoryInv, HeapInv
    <2> DEFINE g == heap'
    <2>15. g = Headed(b, heap) /\ b \in Blocks
      BY <2>6, <2>10 DEF Headed
    <2> HIDE DEF g
    <2>16. ThingsOK(g, slab, live, Spare \cup {<<a, k>>}) /\ g[1] = b /\ 1 \in DOMAIN g /\ Unheld(live, b)
      BY <2>11, <2>12, <2>14, <2>15, GrowKeeps
    <2> DEFINE o == Object(x + HDR, want, aligned)
    <2>17. live' = live \cup {o}
      BY <1>2, <2>8, <2>16 DEF g
    <2>18. o \in Things /\ o.kind = "heap" /\ Span(o) \subseteq x + HDR .. (x + HDR + n) - 1
      BY <2>9, PointerInside
    <2> HIDE DEF o
    <2>19. Span(o) \subseteq Payload(b)
      <3>1. x + HDR + n <= x + z
        BY <1>0, <2>2, <2>7
      <3> QED BY <1>0, <2>2, <2>7, <2>10, <2>18, <3>1
    <2>20. ThingsOK(g, slab, live \cup {o}, Spare \cup {<<a, k>>})
      BY <2>8, <2>16, <2>18, <2>19, NewHeapObject
    <2> QED BY <2>17, <2>20 DEF g
  <1>3. (\E i \in Fits(n) : /\ i = Min(Fits(n))
                            /\ heap' = Carve(i, n)
                            /\ live' = live \cup {Object(heap[i].addr + HDR, want, aligned)}
                            /\ UNCHANGED <<pmm_bitmap, pmm_used_pages, held>>)
        \/ (heap_grow(n) /\ live' = live \cup {Object(heap'[1].addr + HDR, want, aligned)})
    BY DEF kmalloc
  <1> QED BY <1>1, <1>2, <1>3

LEMMA KfreeKeeps ==
  ASSUME NEW S, ThingsOK(heap, slab, live, S), crossed \in BOOLEAN, NEW o \in live, o.kind = "heap",
         kfree(o.ptr), ~crossed'
  PROVE  ThingsOK(heap', slab, live \ {o}, S)
  <1> DEFINE mine == {i \in DOMAIN heap : heap[i].addr + HDR = o.ptr /\ ~Free(i)}
  <1>1. CASE mine = {} /\ UNCHANGED <<heap, crossed>>
    BY <1>1, DropObject
  <1>2. ASSUME NEW i \in mine, heap' = Coalesce([heap EXCEPT ![i].free = TRUE]),
               crossed' = (crossed \/ MergesApart([heap EXCEPT ![i].free = TRUE]))
        PROVE  ThingsOK(heap', slab, live \ {o}, S)
    <2> DEFINE freed == [heap EXCEPT ![i].free = TRUE]
    <2>1. i \in DOMAIN heap /\ heap[i].addr + HDR = o.ptr
      OBVIOUS
    <2>2. heap' = Coalesce(freed) /\ ~MergesApart(freed)
      BY <1>2
    <2>3. freed = [heap EXCEPT ![i].free = TRUE]
      OBVIOUS
    <2> HIDE DEF freed, mine
    <2>4. ThingsOK(freed, slab, live \ {o}, S)
      BY <2>1, <2>3, FreedBlock
    <2>5. Recut(freed, Coalesce(freed))
      BY <2>2, <2>4, CoalesceKeeps DEF ThingsOK, HeapOK
    <2> QED BY <2>2, <2>4, <2>5, RecutKeeps
  <1> QED BY <1>1, <1>2 DEF kfree

LEMMA Times ==
  ASSUME NEW d \in Nat, NEW a \in Nat, NEW b \in Nat
  PROVE  /\ a * d \in Nat /\ (a + 1) * d = a * d + d
         /\ a <= b => a * d <= b * d
  <1>1. a * d \in Nat /\ (a + 1) * d = a * d + d
    OBVIOUS
  <1>2. a <= b => a * d <= b * d
    OBVIOUS
  <1> QED BY <1>1, <1>2

\* The slots of a slab page: they lie in the page, one after the other.
LEMMA SlotPlaces ==
  ASSUME NEW c \in Class, NEW pg \in Nat, NEW k \in 0 .. Total(c) - 1
  PROVE  /\ Total(c) \in Nat /\ slab_sizes[c] \in Nat \ {0}
         /\ ObjectAt(c, pg, k) \in Nat /\ ObjectAt(c, pg, 0) \in Nat /\ ObjectAt(c, pg, Total(c)) \in Nat
         /\ pg * PAGE_SIZE <= ObjectAt(c, pg, 0) /\ ObjectAt(c, pg, 0) <= ObjectAt(c, pg, k)
         /\ ObjectAt(c, pg, k) + slab_sizes[c] <= ObjectAt(c, pg, Total(c))
         /\ ObjectAt(c, pg, Total(c)) <= (pg + 1) * PAGE_SIZE
         /\ (ObjectAt(c, pg, k) - ObjectAt(c, pg, 0)) \div slab_sizes[c] = k
         /\ \A l \in 0 .. Total(c) - 1 : k < l => ObjectAt(c, pg, k) + slab_sizes[c] <= ObjectAt(c, pg, l)
  <1> DEFINE z == slab_sizes[c]
             t == Total(c)
             q == (PAGE_SIZE - SLAB_HDR) \div z
             x == pg * PAGE_SIZE
  <1>1. /\ PAGE_SIZE \in Nat \ {0} /\ SLAB_HDR \in Nat /\ SLAB_PAGE_OBJECTS \in Nat \ {0}
        /\ z \in Nat \ {0} /\ SLAB_HDR + z <= PAGE_SIZE
    BY HeapAssumption DEF Class
  <1> HIDE DEF z
  <1>2. q \in Nat /\ z * q <= PAGE_SIZE - SLAB_HDR /\ z * q \in Nat /\ PAGE_SIZE - SLAB_HDR \in Nat
    <2>1. PAGE_SIZE - SLAB_HDR \in Nat
      BY <1>1
    <2>2. q \in Nat /\ z * q <= PAGE_SIZE - SLAB_HDR
      BY <1>1, <2>1, Quotient
    <2> HIDE DEF q
    <2> QED BY <1>1, <2>1, <2>2
  <1>3. t \in Nat /\ t <= q
    <2>1. Total(c) = Min({q, SLAB_PAGE_OBJECTS})
      BY DEF Total, z
    <2> HIDE DEF q
    <2>2. {q, SLAB_PAGE_OBJECTS} \subseteq Nat /\ {q, SLAB_PAGE_OBJECTS} # {}
      BY <1>1, <1>2
    <2>3. Min({q, SLAB_PAGE_OBJECTS}) \in {q, SLAB_PAGE_OBJECTS} /\ Min({q, SLAB_PAGE_OBJECTS}) <= q
      BY <2>2, MinIsIn
    <2> QED BY <1>1, <1>2, <2>1, <2>3
  <1> HIDE DEF t, q
  <1>4. k \in Nat /\ k + 1 <= t
    BY <1>3 DEF t
  <1>5. t * z <= PAGE_SIZE - SLAB_HDR /\ t * z \in Nat
    <2>1. t * z <= q * z /\ t * z \in Nat
      BY <1>1, <1>2, <1>3, Times
    <2>2. q * z = z * q
      BY <1>1, <1>2
    <2> QED BY <1>2, <2>1, <2>2
  <1>6. k * z \in Nat /\ k * z + z <= t * z
    <2>1. k * z \in Nat /\ (k + 1) * z = k * z + z
      BY <1>1, <1>4, Times
    <2>2. (k + 1) * z <= t * z
      BY <1>1, <1>3, <1>4, Times
    <2> QED BY <2>1, <2>2
  <1>7. x \in Nat /\ (pg + 1) * PAGE_SIZE = x + PAGE_SIZE
    BY <1>1, Times
  <1>8. /\ ObjectAt(c, pg, k) = x + SLAB_HDR + k * z /\ ObjectAt(c, pg, t) = x + SLAB_HDR + t * z
        /\ ObjectAt(c, pg, 0) = x + SLAB_HDR
    <2>1. ObjectAt(c, pg, 0) = x + SLAB_HDR + 0 * z
      BY DEF ObjectAt, z
    <2>2. 0 * z = 0
      BY <1>1
    <2>3. ObjectAt(c, pg, 0) = x + SLAB_HDR
      BY <1>1, <1>7, <2>1, <2>2
    <2>4. ObjectAt(c, pg, k) = x + SLAB_HDR + k * z /\ ObjectAt(c, pg, t) = x + SLAB_HDR + t * z
      BY DEF ObjectAt, z
    <2> QED BY <2>3, <2>4
  <1>9. ASSUME NEW l \in 0 .. t - 1, k < l PROVE ObjectAt(c, pg, k) + z <= ObjectAt(c, pg, l)
    <2>1. l \in Nat /\ k + 1 <= l
      BY <1>3, <1>4, <1>9
    <2>2. (k + 1) * z = k * z + z /\ (k + 1) * z <= l * z /\ l * z \in Nat
      BY <1>1, <1>4, <2>1, Times
    <2>3. ObjectAt(c, pg, l) = x + SLAB_HDR + l * z
      BY DEF ObjectAt, z
    <2> HIDE DEF x
    <2> QED BY <1>1, <1>6, <1>7, <1>8, <2>2, <2>3
  <1> HIDE DEF x
  <1>10. (ObjectAt(c, pg, k) - ObjectAt(c, pg, 0)) \div z = k
    <2>1. ObjectAt(c, pg, k) - ObjectAt(c, pg, 0) = k * z
      BY <1>1, <1>6, <1>7, <1>8
    <2>2. (k * z) \div z = k
      BY <1>1, <1>4, Quotient
    <2> QED BY <2>1, <2>2
  <1>11. /\ ObjectAt(c, pg, k) \in Nat /\ ObjectAt(c, pg, 0) \in Nat /\ ObjectAt(c, pg, t) \in Nat
         /\ x <= ObjectAt(c, pg, 0) /\ ObjectAt(c, pg, 0) <= ObjectAt(c, pg, k)
         /\ ObjectAt(c, pg, k) + z <= ObjectAt(c, pg, t)
         /\ ObjectAt(c, pg, t) <= (pg + 1) * PAGE_SIZE
    BY <1>1, <1>5, <1>6, <1>7, <1>8
  <1> QED BY <1>1, <1>3, <1>9, <1>10, <1>11 DEF t, z, x

\* A slab object lies in its page.
LEMMA SlabSpan ==
  ASSUME NEW s, NEW S, SlabOK(s, S), NEW o \in Things, NEW c \in Class, NEW i \in DOMAIN s[c], NEW k \in Nat,
         Slot(s, o, c, i, k)
  PROVE  /\ \A u \in Span(o) : u \div PAGE_SIZE = s[c][i].page
         /\ k \in 0 .. Total(c) - 1
         /\ Span(o) \subseteq ObjectAt(c, s[c][i].page, k) .. (ObjectAt(c, s[c][i].page, k) + slab_sizes[c]) - 1
  <1> DEFINE pg == s[c][i].page
             a  == ObjectAt(c, pg, k)
  <1>1. pg \in Nat /\ k \in 0 .. Total(c) - 1
    BY SlabFields DEF Slot
  <1> HIDE DEF pg
  <1>2. /\ a \in Nat /\ slab_sizes[c] \in Nat \ {0} /\ pg * PAGE_SIZE <= a
        /\ a + slab_sizes[c] <= (pg + 1) * PAGE_SIZE
    <2>1. PAGE_SIZE \in Nat
      BY HeapAssumption
    <2>2. pg * PAGE_SIZE \in Nat /\ (pg + 1) * PAGE_SIZE \in Nat
      BY <1>1, <2>1
    <2> HIDE DEF a
    <2>3. /\ slab_sizes[c] \in Nat \ {0}
          /\ a \in Nat /\ ObjectAt(c, pg, 0) \in Nat /\ ObjectAt(c, pg, Total(c)) \in Nat
          /\ pg * PAGE_SIZE <= ObjectAt(c, pg, 0) /\ ObjectAt(c, pg, 0) <= a
          /\ a + slab_sizes[c] <= ObjectAt(c, pg, Total(c))
          /\ ObjectAt(c, pg, Total(c)) <= (pg + 1) * PAGE_SIZE
      BY <1>1, SlotPlaces DEF a
    <2> QED BY <2>2, <2>3
  <1>3. o.ptr = a /\ o.size <= slab_sizes[c] /\ o.size \in Nat \ {0} /\ o.ptr \in Nat
    BY SpanStart DEF Slot, pg
  <1> HIDE DEF a
  <1>4. Span(o) \subseteq a .. (a + slab_sizes[c]) - 1
    BY <1>2, <1>3 DEF Span
  <1>5. ASSUME NEW u \in Span(o) PROVE u \div PAGE_SIZE = pg
    <2>1. PAGE_SIZE \in Nat /\ pg * PAGE_SIZE \in Nat /\ (pg + 1) * PAGE_SIZE \in Nat
      BY <1>1, HeapAssumption
    <2>2. u \in Nat /\ u \in pg * PAGE_SIZE .. (pg + 1) * PAGE_SIZE - 1
      BY <1>2, <1>4, <2>1
    <2>3. u \div PAGE_SIZE \in Run(pg, 1)
      BY <1>1, <2>2, PageOf
    <2> QED BY <1>1, <2>3 DEF Run
  <1> QED BY <1>1, <1>4, <1>5 DEF a, pg

\* Two slab objects that share a unit have the same slot.
LEMMA SlotUnique ==
  ASSUME NEW s, NEW S, SlabOK(s, S), NEW o \in Things, NEW q \in Things,
         NEW c \in Class, NEW i \in DOMAIN s[c], NEW k \in Nat, Slot(s, o, c, i, k),
         NEW d \in Class, NEW j \in DOMAIN s[d], NEW l \in Nat, Slot(s, q, d, j, l),
         NEW u, u \in Span(o), u \in Span(q)
  PROVE  c = d /\ i = j /\ k = l /\ o.ptr = q.ptr
  <1>1. u \div PAGE_SIZE = s[c][i].page /\ u \div PAGE_SIZE = s[d][j].page
    BY SlabSpan
  <1>2. c = d /\ i = j
    BY <1>1 DEF SlabOK
  <1> DEFINE pg == s[c][i].page
             a  == ObjectAt(c, pg, k)
             b  == ObjectAt(c, pg, l)
             z  == slab_sizes[c]
  <1>3. /\ k \in 0 .. Total(c) - 1 /\ l \in 0 .. Total(c) - 1
        /\ u \in a .. (a + z) - 1 /\ u \in b .. (b + z) - 1
    <2>1. k \in 0 .. Total(c) - 1 /\ Span(o) \subseteq a .. (a + z) - 1
      BY SlabSpan
    <2>2. l \in 0 .. Total(c) - 1 /\ Span(q) \subseteq b .. (b + z) - 1
      BY <1>2, SlabSpan
    <2> QED BY <2>1, <2>2
  <1>4. pg \in Nat
    BY SlabFields
  <1>5. a \in Nat /\ b \in Nat /\ z \in Nat
    BY <1>3, <1>4, SlotPlaces
  <1>6. (k < l => a + z <= b) /\ (l < k => b + z <= a)
    BY <1>3, <1>4, SlotPlaces
  <1> HIDE DEF a, b, z
  <1>7. k = l
    <2>1. ~(k < l) /\ ~(l < k)
      BY <1>3, <1>5, <1>6
    <2> QED BY <2>1
  <1> QED BY <1>2, <1>7 DEF Slot

\* The bitmap and the counter of page i of class c are written.
Marked(s, c, i, B, U) == [s EXCEPT ![c][i].bitmap = B, ![c][i].used = U]
IsMarked(g, s, c, i, B, U) ==
  /\ g \in [Class -> Seq(SlabRecs)] /\ \A d \in Class : DOMAIN g[d] = DOMAIN s[d]
  /\ \A d \in Class : \A j \in DOMAIN s[d] : d # c \/ j # i => g[d][j] = s[d][j]
  /\ g[c][i].page = s[c][i].page /\ g[c][i].bitmap = B /\ g[c][i].used = U

LEMMA MarkedFields ==
  ASSUME NEW s, s \in [Class -> Seq(SlabRecs)], NEW c \in Class, NEW i \in DOMAIN s[c],
         NEW B, B \subseteq Nat, NEW U, U \in Nat
  PROVE  IsMarked(Marked(s, c, i, B, U), s, c, i, B, U)
  <1> DEFINE g == Marked(s, c, i, B, U)
  <1> DEFINE r == s[c][i]
             z == [r EXCEPT !.bitmap = B, !.used = U]
             t == [s[c] EXCEPT ![i] = z]
  <1>1. s[c] \in Seq(SlabRecs) /\ r \in SlabRecs
    OBVIOUS
  <1>2. g = [s EXCEPT ![c] = t]
    BY <1>1 DEF Marked
  <1> HIDE DEF g
  <1> HIDE DEF r
  <1>3. z \in SlabRecs /\ z.page = r.page /\ z.bitmap = B /\ z.used = U
    BY <1>1 DEF SlabRecs
  <1> HIDE DEF z
  <1>4. t \in Seq(SlabRecs) /\ DOMAIN t = DOMAIN s[c] /\ t[i] = z /\ \A j \in DOMAIN s[c] : j # i => t[j] = s[c][j]
    BY <1>1, <1>3
  <1> HIDE DEF t
  <1>5. g \in [Class -> Seq(SlabRecs)] /\ g[c] = t /\ \A d \in Class : d # c => g[d] = s[d]
    BY <1>2, <1>4
  <1> QED BY <1>3, <1>4, <1>5 DEF r, g, IsMarked

LEMMA MarkedKeeps ==
  ASSUME NEW h, NEW s, NEW S, SlabOK(s, S), Elsewhere(h, s), NEW c \in Class, NEW i \in DOMAIN s[c],
         NEW B \in SUBSET (0 .. Total(c) - 1), NEW g, g = Marked(s, c, i, B, Cardinality(B))
  PROVE  SlabOK(g, S) /\ Elsewhere(h, g) /\ IsMarked(g, s, c, i, B, Cardinality(B))
  <1>0. Total(c) \in Nat
    <2>1. PAGE_SIZE \in Nat /\ SLAB_HDR \in Nat /\ slab_sizes[c] \in Nat \ {0} /\ SLAB_PAGE_OBJECTS \in Nat
          /\ SLAB_HDR + slab_sizes[c] <= PAGE_SIZE
      BY HeapAssumption DEF Class
    <2> DEFINE q == (PAGE_SIZE - SLAB_HDR) \div slab_sizes[c]
    <2>2. PAGE_SIZE - SLAB_HDR \in Nat
      BY <2>1
    <2>3. q \in Nat
      BY <2>1, <2>2, Quotient
    <2> HIDE DEF q
    <2>4. {q, SLAB_PAGE_OBJECTS} \subseteq Nat /\ {q, SLAB_PAGE_OBJECTS} # {}
      BY <2>1, <2>3
    <2>5. Min({q, SLAB_PAGE_OBJECTS}) \in {q, SLAB_PAGE_OBJECTS}
      BY <2>4, MinIsIn
    <2> QED BY <2>4, <2>5 DEF Total, q
  <1>1. Cardinality(B) \in Nat /\ B \in SUBSET Nat
    <2> DEFINE K == 0 .. Total(c) - 1
    <2>1. IsFiniteSet(K)
      <3>1. 0 \in Int /\ Total(c) - 1 \in Int
        BY <1>0
      <3> QED BY <3>1, FS_Interval
    <2>2. B \subseteq K
      OBVIOUS
    <2>3. K \subseteq Nat
      BY <1>0
    <2> HIDE DEF K
    <2>4. IsFiniteSet(B)
      BY <2>1, <2>2, FS_Subset
    <2> QED BY <2>2, <2>3, <2>4, FS_CardinalityType
  <1>2. s \in [Class -> Seq(SlabRecs)]
    BY DEF SlabOK
  <1>2a. IsMarked(g, s, c, i, B, Cardinality(B))
    <2> DEFINE U == Cardinality(B)
    <2>1. U \in Nat /\ g = Marked(s, c, i, B, U)
      BY <1>1
    <2> HIDE DEF U
    <2>2. IsMarked(g, s, c, i, B, U)
      BY <1>1, <1>2, <2>1, MarkedFields
    <2> QED BY <2>2 DEF U
  <1>3. /\ g \in [Class -> Seq(SlabRecs)] /\ \A d \in Class : DOMAIN g[d] = DOMAIN s[d]
        /\ \A d \in Class : \A j \in DOMAIN s[d] : d # c \/ j # i => g[d][j] = s[d][j]
        /\ g[c][i].page = s[c][i].page /\ g[c][i].bitmap = B /\ g[c][i].used = Cardinality(B)
    BY <1>2a DEF IsMarked
  <1>4. \A d \in Class : \A j \in DOMAIN s[d] : g[d][j].page = s[d][j].page
    BY <1>3
  <1>5. \A d \in Class : \A j \in DOMAIN g[d] : /\ g[d][j].bitmap \subseteq 0 .. Total(d) - 1
                                                /\ g[d][j].used = Cardinality(g[d][j].bitmap)
                                                /\ <<g[d][j].page, 1>> \in S
    <2> SUFFICES ASSUME NEW d \in Class, NEW j \in DOMAIN s[d]
                 PROVE  /\ g[d][j].bitmap \subseteq 0 .. Total(d) - 1
                        /\ g[d][j].used = Cardinality(g[d][j].bitmap)
                        /\ <<g[d][j].page, 1>> \in S
      BY <1>3
    <2>1. <<g[d][j].page, 1>> \in S
      BY <1>4 DEF SlabOK
    <2>2. CASE d = c /\ j = i
      BY <1>3, <2>1, <2>2
    <2>3. CASE d # c \/ j # i
      BY <1>3, <2>1, <2>3 DEF SlabOK
    <2> QED BY <2>2, <2>3
  <1>6. SlabOK(g, S)
    BY <1>3, <1>4, <1>5 DEF SlabOK
  <1>7. Elsewhere(h, g)
    BY <1>3, <1>4 DEF Elsewhere
  <1> QED BY <1>2a, <1>6, <1>7

\* The lists of the heap do not notice what happens to slab objects.
LEMMA HeapLiveSame ==
  ASSUME NEW h, NEW lv, HeapLive(h, lv), NEW w, \A o \in w : o.kind = "heap" => o \in lv
  PROVE  HeapLive(h, w)
  <1> SUFFICES ASSUME NEW o \in w, o.kind = "heap" PROVE \E i \in DOMAIN h : Home(h, w, o, i)
    BY DEF HeapLive
  <1>1. PICK i \in DOMAIN h : Home(h, lv, o, i)
    BY DEF HeapLive
  <1>2. Home(h, w, o, i)
    BY <1>1 DEF Home
  <1> QED BY <1>2

LEMMA TotalPositive == ASSUME NEW c \in Class PROVE Total(c) \in Nat \ {0}
  <1> DEFINE d == PAGE_SIZE - SLAB_HDR
             z == slab_sizes[c]
             q == d \div z
  <1>1. PAGE_SIZE \in Nat /\ SLAB_HDR \in Nat /\ z \in Nat \ {0} /\ SLAB_PAGE_OBJECTS \in Nat \ {0}
        /\ SLAB_HDR + z <= PAGE_SIZE
    BY HeapAssumption DEF Class
  <1> HIDE DEF z
  <1>2. d \in Nat /\ z <= d
    BY <1>1
  <1> HIDE DEF d
  <1>3. q \in Nat /\ d < z * q + z
    BY <1>1, <1>2, Quotient
  <1> HIDE DEF q
  <1>4. q # 0
    <2> SUFFICES ASSUME q = 0 PROVE FALSE
      OBVIOUS
    <2>1. z * q = 0
      BY <1>1
    <2> QED BY <1>1, <1>2, <1>3, <2>1
  <1>5. {q, SLAB_PAGE_OBJECTS} \subseteq Nat /\ {q, SLAB_PAGE_OBJECTS} # {}
    BY <1>1, <1>3
  <1>6. Min({q, SLAB_PAGE_OBJECTS}) \in {q, SLAB_PAGE_OBJECTS}
    BY <1>5, MinIsIn
  <1>7. Total(c) = Min({q, SLAB_PAGE_OBJECTS})
    BY DEF Total, q, d, z
  <1> QED BY <1>1, <1>3, <1>4, <1>6, <1>7

\* A caller gets the object of a clear bit.
LEMMA TakeSlot ==
  ASSUME NEW h, NEW s, NEW lv, NEW S, ThingsOK(h, s, lv, S), NEW c \in Class, NEW i \in DOMAIN s[c],
         NEW k \in 0 .. Total(c) - 1, k \notin s[c][i].bitmap,
         NEW o \in Things, o.kind = "slab", o.ptr = ObjectAt(c, s[c][i].page, k), o.size <= slab_sizes[c],
         NEW g, g = Marked(s, c, i, s[c][i].bitmap \cup {k}, Cardinality(s[c][i].bitmap \cup {k}))
  PROVE  ThingsOK(h, g, lv \cup {o}, S)
  <1> DEFINE B == s[c][i].bitmap \cup {k}
             w == lv \cup {o}
  <1>0. /\ HeapOK(h, S) /\ SlabOK(s, S) /\ Elsewhere(h, s) /\ lv \subseteq Things /\ HeapLive(h, lv)
        /\ SlabLive(s, lv)
    BY DEF ThingsOK
  <1>1. B \in SUBSET (0 .. Total(c) - 1) /\ k \in Nat /\ B \subseteq Nat
    <2>1. s[c][i].bitmap \subseteq 0 .. Total(c) - 1
      BY <1>0, SlabFields
    <2>2. Total(c) \in Nat
      BY TotalPositive
    <2> QED BY <2>1, <2>2
  <1>2. k \in B /\ s[c][i].bitmap \subseteq B /\ g = Marked(s, c, i, B, Cardinality(B))
    OBVIOUS
  <1> HIDE DEF B
  <1>3. SlabOK(g, S) /\ Elsewhere(h, g) /\ IsMarked(g, s, c, i, B, Cardinality(B))
    BY <1>0, <1>1, <1>2, MarkedKeeps
  <1>4. /\ \A d \in Class : DOMAIN g[d] = DOMAIN s[d]
        /\ \A d \in Class : \A j \in DOMAIN s[d] : /\ g[d][j].page = s[d][j].page
                                                   /\ s[d][j].bitmap \subseteq g[d][j].bitmap
        /\ g[c][i].bitmap = B
    BY <1>2, <1>3 DEF IsMarked
  <1>5. Slot(g, o, c, i, k)
    BY <1>2, <1>4 DEF Slot
  <1>6. ASSUME NEW q \in lv, q.kind = "slab"
        PROVE  \E d \in Class : \E j \in DOMAIN s[d], l \in Nat : Slot(s, q, d, j, l) /\ Slot(g, q, d, j, l)
    <2>1. PICK d \in Class : \E j \in DOMAIN s[d], l \in Nat : Slot(s, q, d, j, l)
      BY <1>0, <1>6 DEF SlabLive
    <2>2. PICK j \in DOMAIN s[d], l \in Nat : Slot(s, q, d, j, l)
      BY <2>1
    <2>3. Slot(g, q, d, j, l)
      BY <1>4, <2>2 DEF Slot
    <2> QED BY <2>2, <2>3
  <1>7. ASSUME NEW q \in lv, q.kind = "slab" PROVE q.ptr # o.ptr
    <2> SUFFICES ASSUME q.ptr = o.ptr PROVE FALSE
      OBVIOUS
    <2>1. PICK d \in Class : \E j \in DOMAIN s[d], l \in Nat : Slot(s, q, d, j, l) /\ Slot(g, q, d, j, l)
      BY <1>6, <1>7
    <2>2. PICK j \in DOMAIN s[d], l \in Nat : Slot(s, q, d, j, l) /\ Slot(g, q, d, j, l)
      BY <2>1
    <2>3. q \in Things /\ q.ptr \in Span(q) /\ q.ptr \in Span(o)
      BY <1>0, SpanStart
    <2>4. i \in DOMAIN g[c] /\ j \in DOMAIN g[d]
      BY <1>4
    <2>5. d = c /\ j = i /\ l = k
      BY <1>1, <1>3, <1>5, <2>2, <2>3, <2>4, SlotUnique
    <2> QED BY <2>2, <2>5 DEF Slot
  <1>8. SlabLive(g, w)
    <2>1. ASSUME NEW q \in w, q.kind = "slab"
          PROVE  \E d \in Class : \E j \in DOMAIN g[d], l \in Nat : Slot(g, q, d, j, l)
      <3>1. CASE q = o
        BY <1>1, <1>4, <1>5, <3>1
      <3>2. CASE q \in lv
        BY <1>4, <1>6, <2>1, <3>2
      <3> QED BY <3>1, <3>2
    <2>2. \A p, q \in w : p.kind = "slab" /\ q.kind = "slab" /\ p.ptr = q.ptr => p = q
      BY <1>0, <1>7 DEF SlabLive
    <2> HIDE DEF w
    <2> QED BY <2>1, <2>2 DEF SlabLive
  <1>9. HeapLive(h, w)
    BY <1>0, HeapLiveSame
  <1> QED BY <1>0, <1>3, <1>8, <1>9 DEF ThingsOK

\* An object of a slab is given back.
LEMMA DropSlot ==
  ASSUME NEW h, NEW s, NEW lv, NEW S, ThingsOK(h, s, lv, S), NEW c \in Class, NEW i \in DOMAIN s[c],
         NEW k \in Nat, NEW o \in lv, o.kind = "slab", Slot(s, o, c, i, k),
         NEW g, g = Marked(s, c, i, s[c][i].bitmap \ {k}, Cardinality(s[c][i].bitmap \ {k}))
  PROVE  ThingsOK(h, g, lv \ {o}, S)
  <1> DEFINE B == s[c][i].bitmap \ {k}
             w == lv \ {o}
  <1>0. /\ HeapOK(h, S) /\ SlabOK(s, S) /\ Elsewhere(h, s) /\ lv \subseteq Things /\ HeapLive(h, lv)
        /\ SlabLive(s, lv)
    BY DEF ThingsOK
  <1>1. B \in SUBSET (0 .. Total(c) - 1)
    <2>1. s[c][i].bitmap \subseteq 0 .. Total(c) - 1
      BY <1>0, SlabFields
    <2> QED BY <2>1
  <1>2. s[c][i].bitmap \subseteq B \cup {k} /\ g = Marked(s, c, i, B, Cardinality(B))
    OBVIOUS
  <1> HIDE DEF B
  <1>3. SlabOK(g, S) /\ Elsewhere(h, g) /\ IsMarked(g, s, c, i, B, Cardinality(B))
    BY <1>0, <1>1, <1>2, MarkedKeeps
  <1>4. /\ \A d \in Class : DOMAIN g[d] = DOMAIN s[d]
        /\ \A d \in Class : \A j \in DOMAIN s[d] :
             /\ g[d][j].page = s[d][j].page
             /\ \A l : l \in s[d][j].bitmap /\ ~(d = c /\ j = i /\ l = k) => l \in g[d][j].bitmap
    BY <1>2, <1>3 DEF IsMarked
  <1>5. ASSUME NEW q \in w, q.kind = "slab"
        PROVE  \E d \in Class : \E j \in DOMAIN g[d], l \in Nat : Slot(g, q, d, j, l)
    <2>1. PICK d \in Class : \E j \in DOMAIN s[d], l \in Nat : Slot(s, q, d, j, l)
      BY <1>0, <1>5 DEF SlabLive
    <2>2. PICK j \in DOMAIN s[d], l \in Nat : Slot(s, q, d, j, l)
      BY <2>1
    <2>3. ~(d = c /\ j = i /\ l = k)
      <3> SUFFICES ASSUME d = c, j = i, l = k PROVE FALSE
        OBVIOUS
      <3>1. q.ptr = o.ptr
        BY <2>2 DEF Slot
      <3> QED BY <1>0, <1>5, <3>1 DEF SlabLive
    <2>4. Slot(g, q, d, j, l)
      BY <1>4, <2>2, <2>3 DEF Slot
    <2> QED BY <1>4, <2>4
  <1>6. \A p, q \in w : p.kind = "slab" /\ q.kind = "slab" /\ p.ptr = q.ptr => p = q
    BY <1>0 DEF SlabLive
  <1>7. HeapLive(h, w)
    BY <1>0, HeapLiveSame
  <1>8. w \subseteq Things
    BY <1>0
  <1> HIDE DEF w
  <1>9. SlabLive(g, w)
    BY <1>5, <1>6 DEF SlabLive
  <1>10. ThingsOK(h, g, w, S)
    BY <1>0, <1>3, <1>7, <1>8, <1>9 DEF ThingsOK
  <1> QED BY <1>10 DEF w

\* slab_new_page puts a page at the head of the list of its class.
Paged(s, c, z) == [s EXCEPT ![c] = <<z>> \o s[c]]
Pushed(g, s, c, z) ==
  /\ g \in [Class -> Seq(SlabRecs)]
  /\ \A d \in Class : d # c => g[d] = s[d]
  /\ DOMAIN g[c] = 1 .. Len(s[c]) + 1 /\ DOMAIN s[c] = 1 .. Len(s[c]) /\ Len(s[c]) \in Nat
  /\ g[c][1] = z /\ \A j \in DOMAIN s[c] : g[c][j + 1] = s[c][j]

LEMMA PagedFields ==
  ASSUME NEW s, s \in [Class -> Seq(SlabRecs)], NEW c \in Class, NEW z, z \in SlabRecs
  PROVE  Pushed(Paged(s, c, z), s, c, z)
  <1> DEFINE t == <<z>> \o s[c]
             g == Paged(s, c, z)
             n == Len(s[c])
  <1>1. s[c] \in Seq(SlabRecs) /\ n \in Nat /\ DOMAIN s[c] = 1 .. n
    OBVIOUS
  <1>2. t \in Seq(SlabRecs) /\ Len(t) = n + 1 /\ t[1] = z /\ \A j \in 1 .. n : t[j + 1] = s[c][j]
    BY <1>1
  <1>3. DOMAIN t = 1 .. n + 1
    BY <1>1, <1>2
  <1>4. g = [s EXCEPT ![c] = t]
    BY DEF Paged
  <1> HIDE DEF t, g
  <1>5. g \in [Class -> Seq(SlabRecs)] /\ g[c] = t /\ \A d \in Class : d # c => g[d] = s[d]
    BY <1>2, <1>4
  <1> QED BY <1>1, <1>2, <1>3, <1>5 DEF Pushed, g

\* Where page j of class d is after that.
Later(c, d, j) == IF d = c THEN j + 1 ELSE j

LEMMA LaterPage ==
  ASSUME NEW g, NEW s, NEW c \in Class, NEW z, Pushed(g, s, c, z), NEW d \in Class, NEW j \in DOMAIN s[d]
  PROVE  Later(c, d, j) \in DOMAIN g[d] /\ g[d][Later(c, d, j)] = s[d][j] /\ (d = c => Later(c, d, j) # 1)
  <1>1. CASE d = c
    BY <1>1 DEF Later, Pushed
  <1>2. CASE d # c
    BY <1>2 DEF Later, Pushed
  <1> QED BY <1>1, <1>2

From(g, s, c, z, d, j) ==
  (d = c /\ j = 1 /\ g[d][j] = z) \/ (\E i \in DOMAIN s[d] : j = Later(c, d, i) /\ g[d][j] = s[d][i])

LEMMA EarlierPage ==
  ASSUME NEW g, NEW s, NEW c \in Class, NEW z, Pushed(g, s, c, z), NEW d \in Class, NEW j \in DOMAIN g[d]
  PROVE  From(g, s, c, z, d, j)
  <1> USE DEF From
  <1>1. CASE d # c
    BY <1>1 DEF Later, Pushed
  <1>2. CASE d = c /\ j = 1
    BY <1>2 DEF Pushed
  <1>3. CASE d = c /\ j # 1
    <2>1. j - 1 \in DOMAIN s[c] /\ (j - 1) + 1 = j
      BY <1>3 DEF Pushed
    <2>2. g[c][(j - 1) + 1] = s[c][j - 1]
      BY <2>1 DEF Pushed
    <2>3. j = Later(c, d, j - 1)
      BY <1>3, <2>1 DEF Later
    <2> QED BY <1>3, <2>1, <2>2, <2>3
  <1> QED BY <1>1, <1>2, <1>3

LEMMA PagedKeeps ==
  ASSUME NEW h, NEW s, NEW S, HeapOK(h, S), SlabOK(s, S), Elsewhere(h, s), NEW c \in Class, NEW a \in Page,
         Unused(S, a, 1), NEW z \in SlabRecs, z.page = a, z.used = 1, z.bitmap = {0}, NEW g, g = Paged(s, c, z)
  PROVE  SlabOK(g, S \cup {<<a, 1>>}) /\ Elsewhere(h, g) /\ Pushed(g, s, c, z)
  <1> DEFINE T == S \cup {<<a, 1>>}
  <1>1. Pushed(g, s, c, z)
    BY PagedFields DEF SlabOK
  <1>2. a \in Run(a, 1) /\ a \in Nat
    <2>1. a \in Nat
      BY PageNat
    <2> QED BY <2>1 DEF Run
  <1>3. ASSUME NEW d \in Class, NEW i \in DOMAIN s[d] PROVE s[d][i].page # a
    <2>1. <<s[d][i].page, 1>> \in S /\ s[d][i].page \in Run(s[d][i].page, 1)
      BY SlabFields
    <2>2. Run(s[d][i].page, 1) \cap Run(a, 1) = {}
      BY <2>1 DEF Unused
    <2> QED BY <1>2, <2>1, <2>2
  <1>4. Cardinality({0}) = 1 /\ {0} \subseteq 0 .. Total(c) - 1
    <2>1. Total(c) \in Nat \ {0}
      BY TotalPositive
    <2>2. {0} \subseteq 0 .. Total(c) - 1
      BY <2>1
    <2> QED BY <2>2, FS_Singleton
  <1>5. ASSUME NEW d \in Class, NEW j \in DOMAIN g[d]
        PROVE  (d = c /\ j = 1 /\ g[d][j] = z) \/ (\E i \in DOMAIN s[d] : j = Later(c, d, i) /\ g[d][j] = s[d][i])
    <2>1. From(g, s, c, z, d, j)
      BY <1>1, EarlierPage
    <2> QED BY <2>1 DEF From
  <1> DEFINE Fine(d, x) == x.bitmap \subseteq 0 .. Total(d) - 1 /\ x.used = Cardinality(x.bitmap)
                           /\ <<x.page, 1>> \in T
  <1>5a. ASSUME NEW d \in Class, NEW j \in DOMAIN g[d] PROVE Fine(d, g[d][j])
    <2>1. Fine(c, z)
      BY <1>4
    <2>2. ASSUME NEW i \in DOMAIN s[d] PROVE Fine(d, s[d][i])
      BY DEF SlabOK
    <2> HIDE DEF Fine
    <2> QED BY <1>5, <2>1, <2>2
  <1>6. ASSUME NEW d \in Class, NEW e \in Class, NEW j \in DOMAIN g[d], NEW k \in DOMAIN g[e],
               g[d][j].page = g[e][k].page
        PROVE  d = e /\ j = k
    <2>1. CASE d = c /\ j = 1 /\ g[d][j] = z /\ e = c /\ k = 1
      BY <2>1
    <2>2. ASSUME d = c, j = 1, g[d][j] = z, NEW i \in DOMAIN s[e], g[e][k] = s[e][i] PROVE FALSE
      BY <1>3, <1>6, <2>2
    <2>3. ASSUME NEW i \in DOMAIN s[d], g[d][j] = s[d][i], g[e][k] = z PROVE FALSE
      BY <1>3, <1>6, <2>3
    <2>4. ASSUME NEW i \in DOMAIN s[d], j = Later(c, d, i), g[d][j] = s[d][i],
                 NEW l \in DOMAIN s[e], k = Later(c, e, l), g[e][k] = s[e][l]
          PROVE  d = e /\ j = k
      <3>1. d = e /\ i = l
        BY <1>6, <2>4 DEF SlabOK
      <3> QED BY <2>4, <3>1
    <2> QED BY <1>5, <2>1, <2>2, <2>3, <2>4
  <1>7. SlabOK(g, T)
    <2>1. g \in [Class -> Seq(SlabRecs)]
      BY <1>1 DEF Pushed
    <2> HIDE DEF T
    <2> QED BY <1>5a, <1>6, <2>1 DEF SlabOK
  <1>8. Elsewhere(h, g)
    <2> SUFFICES ASSUME NEW d \in Class, NEW j \in DOMAIN g[d], NEW u, Covers(h, u)
                 PROVE  u \div PAGE_SIZE # g[d][j].page
      BY DEF Elsewhere
    <2>1. CASE d = c /\ j = 1 /\ g[d][j] = z
      <3>1. PICK r \in S : u \div PAGE_SIZE \in Run(r[1], r[2])
        BY DEF HeapOK, Within
      <3>2. u \div PAGE_SIZE \notin Run(a, 1)
        BY <3>1 DEF Unused
      <3> QED BY <1>2, <2>1, <3>2
    <2>2. ASSUME NEW i \in DOMAIN s[d], g[d][j] = s[d][i] PROVE u \div PAGE_SIZE # g[d][j].page
      BY <2>2 DEF Elsewhere
    <2> QED BY <1>5, <2>1, <2>2
  <1> QED BY <1>1, <1>7, <1>8

\* A caller gets the first object of a new page.
LEMMA NewSlabObject ==
  ASSUME NEW h, NEW s, NEW lv, NEW S, ThingsOK(h, s, lv, S), NEW c \in Class, NEW a \in Page,
         Unused(S, a, 1), NEW z \in SlabRecs, z.page = a, z.used = 1, z.bitmap = {0}, NEW g, g = Paged(s, c, z),
         NEW o \in Things, o.kind = "slab", o.ptr = ObjectAt(c, a, 0), o.size <= slab_sizes[c]
  PROVE  ThingsOK(h, g, lv \cup {o}, S \cup {<<a, 1>>})
  <1> DEFINE w == lv \cup {o}
             T == S \cup {<<a, 1>>}
  <1>0. /\ HeapOK(h, S) /\ SlabOK(s, S) /\ Elsewhere(h, s) /\ lv \subseteq Things /\ HeapLive(h, lv)
        /\ SlabLive(s, lv)
    BY DEF ThingsOK
  <1>1. SlabOK(g, T) /\ Elsewhere(h, g) /\ Pushed(g, s, c, z)
    BY <1>0, PagedKeeps
  <1>2. HeapOK(h, T)
    BY <1>0 DEF HeapOK, Within
  <1> HIDE DEF T
  <1>3. Slot(g, o, c, 1, 0) /\ 1 \in DOMAIN g[c]
    <2>1. 1 \in DOMAIN g[c] /\ g[c][1] = z
      BY <1>1 DEF Pushed
    <2> QED BY <2>1 DEF Slot
  <1>4. ASSUME NEW q \in lv, q.kind = "slab"
        PROVE  \E d \in Class : \E j \in DOMAIN g[d], l \in Nat : Slot(g, q, d, j, l) /\ ~(d = c /\ j = 1)
    <2>1. PICK d \in Class : \E j \in DOMAIN s[d], l \in Nat : Slot(s, q, d, j, l)
      BY <1>0, <1>4 DEF SlabLive
    <2>2. PICK j \in DOMAIN s[d], l \in Nat : Slot(s, q, d, j, l)
      BY <2>1
    <2> DEFINE k == Later(c, d, j)
    <2>3. k \in DOMAIN g[d] /\ g[d][k] = s[d][j] /\ (d = c => k # 1)
      BY <1>1, LaterPage
    <2> HIDE DEF k
    <2>4. Slot(g, q, d, k, l)
      BY <2>2, <2>3 DEF Slot
    <2> QED BY <2>3, <2>4
  <1>5. ASSUME NEW q \in lv, q.kind = "slab" PROVE q.ptr # o.ptr
    <2> SUFFICES ASSUME q.ptr = o.ptr PROVE FALSE
      OBVIOUS
    <2>1. PICK d \in Class : \E j \in DOMAIN g[d], l \in Nat : Slot(g, q, d, j, l) /\ ~(d = c /\ j = 1)
      BY <1>4, <1>5
    <2>2. PICK j \in DOMAIN g[d], l \in Nat : Slot(g, q, d, j, l) /\ ~(d = c /\ j = 1)
      BY <2>1
    <2>3. q \in Things /\ q.ptr \in Span(q) /\ q.ptr \in Span(o)
      BY <1>0, SpanStart
    <2>4. d = c /\ j = 1
      BY <1>1, <1>3, <2>2, <2>3, SlotUnique
    <2> QED BY <2>2, <2>4
  <1>6. \A q \in w : q.kind = "slab" => \E d \in Class : \E j \in DOMAIN g[d], l \in Nat : Slot(g, q, d, j, l)
    BY <1>3, <1>4
  <1>7. \A p, q \in w : p.kind = "slab" /\ q.kind = "slab" /\ p.ptr = q.ptr => p = q
    BY <1>0, <1>5 DEF SlabLive
  <1>8. HeapLive(h, w) /\ w \subseteq Things
    BY <1>0, HeapLiveSame
  <1> HIDE DEF w
  <1>9. SlabLive(g, w)
    BY <1>6, <1>7 DEF SlabLive
  <1>10. ThingsOK(h, g, w, T)
    BY <1>1, <1>2, <1>8, <1>9 DEF ThingsOK
  <1> QED BY <1>10 DEF w, T

\* The class slab_alloc takes: the smallest size that is large enough.
LEMMA ClassFor ==
  ASSUME NEW n \in SlabSizes
  PROVE  LET c == Min({k \in Class : slab_sizes[k] >= n})
         IN  c \in Class /\ n <= slab_sizes[c] /\ n \in Nat \ {0}
  <1> DEFINE K == {k \in Class : slab_sizes[k] >= n}
  <1>1. K \subseteq Nat /\ K # {}
    BY HeapAssumption DEF Class
  <1>2. Min(K) \in K
    BY <1>1, MinIsIn
  <1>3. \A k \in Class : slab_sizes[k] \in Nat
    BY HeapAssumption DEF Class
  <1> QED BY <1>2, <1>3, HeapAssumption

LEMMA SlabThing ==
  ASSUME NEW c \in Class, NEW pg \in Nat, NEW k \in 0 .. Total(c) - 1, NEW n \in Nat \ {0}
  PROVE  /\ SlabObject(c, pg, k, n) \in Things /\ SlabObject(c, pg, k, n).kind = "slab"
         /\ SlabObject(c, pg, k, n).ptr = ObjectAt(c, pg, k) /\ SlabObject(c, pg, k, n).size = n
  <1> DEFINE a == ObjectAt(c, pg, k)
  <1>1. a \in Nat
    BY SlotPlaces
  <1>2. SlabObject(c, pg, k, n) = [ptr |-> a, size |-> n, kind |-> "slab"]
    BY DEF SlabObject
  <1> HIDE DEF a
  <1>3. SlabObject(c, pg, k, n) \in Things
    BY <1>1, <1>2 DEF Things
  <1> QED BY <1>2, <1>3 DEF a

\* Fewer bits set than there are objects: the search finds a clear bit.
LEMMA RoomLeft ==
  ASSUME NEW S, SlabOK(slab, S), NEW c \in Class, NEW i \in HasRoom(c)
  PROVE  /\ i \in DOMAIN slab[c] /\ FirstClear(c, i) \in 0 .. Total(c) - 1
         /\ FirstClear(c, i) \notin slab[c][i].bitmap
         /\ Cardinality(slab[c][i].bitmap \cup {FirstClear(c, i)}) = slab[c][i].used + 1
  <1> DEFINE B == slab[c][i].bitmap
             t == Total(c)
             K == 0 .. t - 1
             k == FirstClear(c, i)
  <1>1. i \in DOMAIN slab[c] /\ slab[c][i].used < t
    BY DEF HasRoom
  <1>2. B \subseteq K /\ slab[c][i].used = Cardinality(B)
    BY <1>1, SlabFields
  <1>3. k = Min(K \ B)
    BY DEF FirstClear
  <1>4. t \in Nat \ {0}
    BY TotalPositive
  <1> HIDE DEF t, B, k
  <1>5. IsFiniteSet(K) /\ Cardinality(K) = t
    <2>1. 0 \in Int /\ t - 1 \in Int
      BY <1>4
    <2>2. IsFiniteSet(K) /\ Cardinality(K) = IF 0 > t - 1 THEN 0 ELSE (t - 1) - 0 + 1
      BY <2>1, FS_Interval
    <2> QED BY <1>4, <2>2
  <1>6. IsFiniteSet(B) /\ Cardinality(B) \in Nat
    BY <1>2, <1>5, FS_Subset, FS_CardinalityType
  <1>7. K \ B # {}
    <2> SUFFICES ASSUME B = K PROVE FALSE
      BY <1>2
    <2>1. Cardinality(B) < t
      BY <1>1, <1>2
    <2> QED BY <1>4, <1>5, <2>1
  <1>8. K \ B \subseteq Nat
    BY <1>4
  <1>9. k \in K \ B
    BY <1>3, <1>7, <1>8, MinIsIn
  <1>10. Cardinality(B \cup {k}) = Cardinality(B) + 1
    BY <1>6, <1>9, FS_AddElement
  <1> QED BY <1>1, <1>2, <1>9, <1>10 DEF t, B, k

LEMMA SlabAllocStep ==
  ASSUME MemoryInv, UNCHANGED spaceVars, NEW n \in SlabSizes, slab_alloc(n)
  PROVE  MemoryInv'
  <1> DEFINE c == Min({k \in Class : slab_sizes[k] >= n})
  <1>0. c \in Class /\ n <= slab_sizes[c] /\ n \in Nat \ {0}
    BY ClassFor
  <1>1. \/ \E i \in HasRoom(c) :
             /\ i = Min(HasRoom(c))
             /\ slab' = [slab EXCEPT ![c][i].bitmap = @ \cup {FirstClear(c, i)},
                                     ![c][i].used = @ + 1]
             /\ live' = live \cup {SlabObject(c, slab[c][i].page, FirstClear(c, i), n)}
             /\ UNCHANGED <<pmm_bitmap, pmm_used_pages, held>>
        \/ /\ HasRoom(c) = {}
           /\ pmm_alloc_pages(1)
           /\ \E r \in held' \ held :
                /\ slab' = [slab EXCEPT ![c] =
                              <<[page |-> r[1], used |-> 1, bitmap |-> {0}]>> \o @]
                /\ live' = live \cup {SlabObject(c, r[1], 0, n)}
    BY DEF slab_alloc
  <1>2. heap' = heap /\ crossed' = crossed /\ SpaceInv /\ crossed \in BOOLEAN
    BY DEF slab_alloc, MemoryInv, HeapInv
  <1> HIDE DEF c
  <1>3. ASSUME NEW i \in HasRoom(c),
               slab' = [slab EXCEPT ![c][i].bitmap = @ \cup {FirstClear(c, i)}, ![c][i].used = @ + 1],
               live' = live \cup {SlabObject(c, slab[c][i].page, FirstClear(c, i), n)},
               UNCHANGED <<pmm_bitmap, pmm_used_pages, held>>
        PROVE  MemoryInv'
    <2>1. SpaceInv' /\ Spare' = Spare
      BY <1>2, <1>3, SamePages DEF vars
    <2>2. SUFFICES ASSUME ~crossed PROVE ThingsOK(heap, slab', live', Spare)
      BY <1>2, <2>1 DEF MemoryInv, HeapInv
    <2>3. ThingsOK(heap, slab, live, Spare) /\ SlabOK(slab, Spare)
      BY <2>2 DEF MemoryInv, HeapInv, ThingsOK
    <2> DEFINE k == FirstClear(c, i)
               B == slab[c][i].bitmap \cup {k}
               o == SlabObject(c, slab[c][i].page, k, n)
    <2>4. /\ i \in DOMAIN slab[c] /\ k \in 0 .. Total(c) - 1 /\ k \notin slab[c][i].bitmap
          /\ Cardinality(B) = slab[c][i].used + 1
      BY <1>0, <2>3, RoomLeft
    <2>5. slab[c][i].page \in Nat
      BY <1>0, <2>3, <2>4, SlabFields
    <2>6. slab' = [slab EXCEPT ![c][i].bitmap = B, ![c][i].used = slab[c][i].used + 1] /\ live' = live \cup {o}
      BY <1>3
    <2> HIDE DEF k, B
    <2>7. slab' = Marked(slab, c, i, B, Cardinality(B))
      BY <2>4, <2>6 DEF Marked
    <2>8. /\ o \in Things /\ o.kind = "slab" /\ o.ptr = ObjectAt(c, slab[c][i].page, k) /\ o.size = n
      BY <1>0, <2>4, <2>5, SlabThing
    <2> HIDE DEF o
    <2>9. slab' = Marked(slab, c, i, slab[c][i].bitmap \cup {k}, Cardinality(slab[c][i].bitmap \cup {k}))
      BY <2>7 DEF B
    <2> DEFINE g == slab'
    <2> HIDE DEF g
    <2>10. ThingsOK(heap, g, live \cup {o}, Spare)
      BY <1>0, <2>3, <2>4, <2>8, <2>9, TakeSlot DEF g
    <2> QED BY <2>6, <2>10 DEF g
  <1>4. ASSUME pmm_alloc_pages(1), NEW r \in held' \ held,
               slab' = [slab EXCEPT ![c] = <<[page |-> r[1], used |-> 1, bitmap |-> {0}]>> \o @],
               live' = live \cup {SlabObject(c, r[1], 0, n)}
        PROVE  MemoryInv'
    <2>1. PICK a \in Page : /\ SpaceInv' /\ <<a, 1>> \notin held /\ held' = held \cup {<<a, 1>>}
                            /\ Spare' = Spare \cup {<<a, 1>>}
      <3>1. PICK k \in Nat \ {0} : k = 1
        OBVIOUS
      <3>2. pmm_alloc_pages(k)
        BY <1>4, <3>1
      <3>3. \E a \in Page : /\ SpaceInv' /\ <<a, k>> \notin held /\ held' = held \cup {<<a, k>>}
                            /\ Spare' = Spare \cup {<<a, k>>}
        BY <1>2, <3>2, BuyStep
      <3> QED BY <3>1, <3>3
    <2>2. r[1] = a
      BY <2>1
    <2> DEFINE z == [page |-> a, used |-> 1, bitmap |-> {0}]
               o == SlabObject(c, a, 0, n)
    <2>3. slab' = [slab EXCEPT ![c] = <<z>> \o slab[c]] /\ live' = live \cup {o}
      BY <1>4, <2>2
    <2>4. z \in SlabRecs /\ z.page = a /\ z.used = 1 /\ z.bitmap = {0}
      BY DEF SlabRecs
    <2> HIDE DEF z
    <2>5. SUFFICES ASSUME ~crossed PROVE ThingsOK(heap, slab', live', Spare \cup {<<a, 1>>})
      BY <1>2, <2>1 DEF MemoryInv, HeapInv
    <2>6. ThingsOK(heap, slab, live, Spare)
      BY <2>5 DEF MemoryInv, HeapInv
    <2>7. Unused(Spare, a, 1)
      BY <1>2, <2>1, NewRun
    <2>8. a \in Nat /\ 0 \in 0 .. Total(c) - 1
      <3>1. Total(c) \in Nat \ {0}
        BY <1>0, TotalPositive
      <3> QED BY <3>1, PageNat
    <2>9. o \in Things /\ o.kind = "slab" /\ o.ptr = ObjectAt(c, a, 0) /\ o.size = n
      BY <1>0, <2>8, SlabThing
    <2> HIDE DEF o
    <2> DEFINE g == slab'
    <2>10. g = Paged(slab, c, z)
      BY <2>3 DEF Paged
    <2> HIDE DEF g
    <2>11. ThingsOK(heap, g, live \cup {o}, Spare \cup {<<a, 1>>})
      BY <1>0, <2>4, <2>6, <2>7, <2>9, <2>10, NewSlabObject
    <2> QED BY <2>3, <2>11 DEF g
  <1> QED BY <1>1, <1>3, <1>4

\* slab_free of a slab object clears its bit.
LEMMA SlabFreeKeeps ==
  ASSUME NEW S, ThingsOK(heap, slab, live, S), NEW o \in live, o.kind = "slab", slab_free(o.ptr)
  PROVE  ThingsOK(heap', slab', live \ {o}, S) /\ crossed' = crossed
  <1>0. SlabOK(slab, S) /\ o \in Things /\ o.ptr \in Nat
    BY SpanStart DEF ThingsOK
  <1>1. PICK c \in Class : \E i \in DOMAIN slab[c], k \in Nat : Slot(slab, o, c, i, k)
    BY DEF ThingsOK, SlabLive
  <1>2. PICK i \in DOMAIN slab[c], k \in Nat : Slot(slab, o, c, i, k)
    BY <1>1
  <1> DEFINE Inside(d, j) == LET pg == slab[d][j].page
                             IN  o.ptr >= ObjectAt(d, pg, 0) /\ o.ptr < ObjectAt(d, pg, Total(d))
             found == UNION {{d} \X {j \in DOMAIN slab[d] : Inside(d, j)} : d \in Class}
             Bit(d, j) == (o.ptr - ObjectAt(d, slab[d][j].page, 0)) \div slab_sizes[d]
  <1>3. \/ found = {} /\ kfree(o.ptr) /\ UNCHANGED slab
        \/ \E ci \in found :
             /\ slab' = [slab EXCEPT ![ci[1]][ci[2]].bitmap = @ \ {Bit(ci[1], ci[2])}, ![ci[1]][ci[2]].used = @ - 1]
             /\ UNCHANGED <<heap, crossed>>
    BY DEF slab_free
  <1> DEFINE pg == slab[c][i].page
  <1>4. /\ pg \in Nat /\ k \in 0 .. Total(c) - 1 /\ o.ptr = ObjectAt(c, pg, k)
        /\ k \in slab[c][i].bitmap /\ slab[c][i].bitmap \subseteq 0 .. Total(c) - 1
        /\ slab[c][i].used = Cardinality(slab[c][i].bitmap)
    BY <1>0, <1>2, SlabFields DEF Slot
  <1>5. Inside(c, i) /\ Bit(c, i) = k
    <2> HIDE DEF pg
    <2> DEFINE x == ObjectAt(c, pg, 0)
               y == ObjectAt(c, pg, k)
               z == ObjectAt(c, pg, Total(c))
    <2>1. /\ slab_sizes[c] \in Nat \ {0} /\ x \in Nat /\ y \in Nat /\ z \in Nat
          /\ x <= y /\ y + slab_sizes[c] <= z /\ (y - x) \div slab_sizes[c] = k
      BY <1>4, SlotPlaces
    <2>2. o.ptr = y
      BY <1>4
    <2> HIDE DEF x, y, z
    <2>3. y >= x /\ y < z
      BY <2>1
    <2>4. o.ptr >= x /\ o.ptr < z /\ (o.ptr - x) \div slab_sizes[c] = k
      BY <2>1, <2>2, <2>3
    <2> QED BY <2>4 DEF x, z, pg
  <1>6. ASSUME NEW d \in Class, NEW j \in DOMAIN slab[d], Inside(d, j) PROVE d = c /\ j = i
    <2> DEFINE w == slab[d][j].page
    <2>1. w \in Nat /\ 0 \in 0 .. Total(d) - 1
      <3>1. Total(d) \in Nat \ {0}
        BY TotalPositive
      <3>2. w \in Nat
        BY <1>0, SlabFields
      <3> HIDE DEF w
      <3> QED BY <3>1, <3>2
    <2> HIDE DEF w
    <2> DEFINE x == ObjectAt(d, w, 0)
               z == ObjectAt(d, w, Total(d))
    <2>2. PICK m \in Nat, n \in Nat : m = w * PAGE_SIZE /\ n = (w + 1) * PAGE_SIZE
      <3>1. PAGE_SIZE \in Nat
        BY HeapAssumption
      <3> QED BY <2>1, <3>1
    <2>3. x \in Nat /\ z \in Nat /\ w * PAGE_SIZE <= x /\ z <= (w + 1) * PAGE_SIZE
      BY <2>1, SlotPlaces
    <2>4. o.ptr >= x /\ o.ptr < z
      BY <1>6 DEF w
    <2> HIDE DEF x, z
    <2>5. o.ptr \in m .. n - 1
      BY <1>0, <2>2, <2>3, <2>4
    <2>6. o.ptr \div PAGE_SIZE \in Run(w, 1)
      BY <1>0, <2>1, <2>2, <2>5, PageOf
    <2>7. o.ptr \div PAGE_SIZE = w
      <3> DEFINE q == o.ptr \div PAGE_SIZE
      <3> HIDE DEF q
      <3>1. q \in w .. w
        BY <2>1, <2>6 DEF Run, q
      <3>2. q = w
        BY <2>1, <3>1
      <3> QED BY <3>2 DEF q
    <2>8. o.ptr \div PAGE_SIZE = pg
      BY <1>0, <1>2, SlabSpan, SpanStart
    <2> QED BY <1>0, <2>7, <2>8 DEF w, SlabOK
  <1>7. found = {<<c, i>>}
    <2>1. <<c, i>> \in found
      BY <1>5
    <2>2. ASSUME NEW e \in found PROVE e = <<c, i>>
      BY <1>6
    <2> QED BY <2>1, <2>2
  <1> HIDE DEF found, Inside, Bit
  <1>8. /\ slab' = [slab EXCEPT ![c][i].bitmap = @ \ {k}, ![c][i].used = @ - 1]
        /\ heap' = heap /\ crossed' = crossed
    <2>1. PICK e \in found :
             /\ slab' = [slab EXCEPT ![e[1]][e[2]].bitmap = @ \ {Bit(e[1], e[2])}, ![e[1]][e[2]].used = @ - 1]
             /\ UNCHANGED <<heap, crossed>>
      BY <1>3, <1>7
    <2>2. e[1] = c /\ e[2] = i
      BY <1>7
    <2> QED BY <1>5, <2>1, <2>2
  <1> DEFINE B == slab[c][i].bitmap \ {k}
  <1>9. slab[c][i].used - 1 = Cardinality(B)
    <2>1. Total(c) \in Nat \ {0}
      BY TotalPositive
    <2>2. 0 \in Int /\ Total(c) - 1 \in Int
      BY <2>1
    <2>3. IsFiniteSet(0 .. Total(c) - 1)
      BY <2>2, FS_Interval
    <2>4. IsFiniteSet(slab[c][i].bitmap)
      BY <1>4, <2>3, FS_Subset
    <2>5. Cardinality(B) = Cardinality(slab[c][i].bitmap) - 1
      BY <1>4, <2>4, FS_RemoveElement
    <2> QED BY <1>4, <2>5
  <1>10. slab' = [slab EXCEPT ![c][i].bitmap = B, ![c][i].used = slab[c][i].used - 1]
    BY <1>8
  <1> HIDE DEF B
  <1>11. slab' = Marked(slab, c, i, B, Cardinality(B))
    BY <1>9, <1>10 DEF Marked
  <1> DEFINE g == slab'
  <1>12. g = Marked(slab, c, i, slab[c][i].bitmap \ {k}, Cardinality(slab[c][i].bitmap \ {k}))
    BY <1>11 DEF B
  <1> HIDE DEF g
  <1>13. ThingsOK(heap, g, live \ {o}, S)
    BY <1>2, <1>12, DropSlot
  <1> QED BY <1>8, <1>13 DEF g

LEMMA FreeStep ==
  ASSUME MemoryInv, UNCHANGED spaceVars, NEW o \in live, free(o)
  PROVE  MemoryInv'
  <1>1. /\ live' = live \ {o} /\ UNCHANGED vars /\ SpaceInv /\ crossed \in BOOLEAN
        /\ ~crossed => ThingsOK(heap, slab, live, Spare)
    BY DEF free, vars, MemoryInv, HeapInv
  <1>2. SpaceInv' /\ Spare' = Spare
    BY <1>1, SamePages
  <1>3. CASE o.kind = "heap" /\ kfree(o.ptr) /\ UNCHANGED slab
    <2>1. crossed' \in BOOLEAN /\ (~crossed' => ~crossed)
      BY <1>1, <1>3 DEF kfree
    <2>2. ASSUME ~crossed' PROVE ThingsOK(heap', slab', live', Spare')
      BY <1>1, <1>2, <1>3, <2>1, <2>2, KfreeKeeps
    <2> QED BY <1>2, <2>1, <2>2 DEF MemoryInv, HeapInv
  <1>4. CASE o.kind = "slab" /\ slab_free(o.ptr)
    <2>1. CASE ~crossed
      <3>1. ThingsOK(heap', slab', live \ {o}, Spare) /\ crossed' = crossed
        BY <1>1, <1>4, <2>1, SlabFreeKeeps
      <3> QED BY <1>1, <1>2, <2>1, <3>1 DEF MemoryInv, HeapInv
    <2>2. CASE crossed
      <3>1. crossed' = TRUE
        BY <1>4, <2>2 DEF slab_free, kfree
      <3> QED BY <1>2, <3>1 DEF MemoryInv, HeapInv
    <2> QED BY <1>1, <2>1, <2>2
  <1> QED BY <1>3, <1>4 DEF free

LEMMA HeapStep ==
  ASSUME MemoryInv, HeapNext, UNCHANGED spaceVars
  PROVE  MemoryInv'
  <1>1. ASSUME NEW n \in Sizes, alloc(n) PROVE MemoryInv'
    <2>1. n \in Nat \ {0} /\ Asked(n, n, FALSE) /\ kmalloc(n, n, FALSE)
      BY <1>1, HeapAssumption DEF alloc, Asked
    <2> QED BY <2>1, KmallocStep
  <1>2. ASSUME NEW n \in Sizes, kmalloc_aligned(n) PROVE MemoryInv'
    <2> DEFINE m == n + PAGE_SIZE + HDR
    <2>1. n \in Nat \ {0} /\ Asked(m, n, TRUE) /\ kmalloc(m, n, TRUE)
      BY <1>2, HeapAssumption DEF kmalloc_aligned, Asked
    <2> HIDE DEF m
    <2> QED BY <2>1, KmallocStep
  <1>3. ASSUME NEW n \in SlabSizes, slab_alloc(n) PROVE MemoryInv'
    BY <1>3, SlabAllocStep
  <1>4. ASSUME NEW o \in live, free(o) PROVE MemoryInv'
    BY <1>4, FreeStep
  <1> QED BY <1>1, <1>2, <1>3, <1>4 DEF HeapNext

LEMMA MemoryStep ==
  ASSUME MemoryInv, [MemoryNext]_memoryVars
  PROVE  MemoryInv'
  <1>1. CASE HeapNext /\ UNCHANGED spaceVars
    BY <1>1, HeapStep
  <1>2. CASE SpaceNext /\ UNCHANGED heapVars
    <2>1. SpaceInv' /\ Spare \subseteq Spare'
      BY <1>2, SpaceStep DEF MemoryInv
    <2>2. heap' = heap /\ slab' = slab /\ live' = live /\ crossed' = crossed
      BY <1>2 DEF heapVars
    <2>3. HeapInv'
      BY <2>1, <2>2, MoreRuns DEF MemoryInv, HeapInv
    <2> QED BY <2>1, <2>3 DEF MemoryInv
  <1>3. CASE UNCHANGED memoryVars
    <2>1. SpaceInv' /\ Spare' = Spare
      BY <1>3, SamePages DEF memoryVars, MemoryInv
    <2>2. heap' = heap /\ slab' = slab /\ live' = live /\ crossed' = crossed
      BY <1>3 DEF memoryVars, heapVars
    <2> QED BY <2>1, <2>2 DEF MemoryInv, HeapInv
  <1> QED BY <1>1, <1>2, <1>3 DEF MemoryNext

-----------------------------------------------------------------------------
(***************************************************************************)
(* What the invariant says of the memory.                                  *)
(***************************************************************************)
LEMMA InvUsedExact == ASSUME SpaceInv PROVE UsedExact /\ HandedOutOnce
  <1>1. PmmOK(Now)
    BY DEF SpaceInv, SpacesOK
  <1>2. /\ pmm_used_pages = Cardinality(pmm_bitmap)
        /\ \A r \in held : Run(r[1], r[2]) \subseteq pmm_bitmap \ Reserved
        /\ \A r \in held : Private(r, held)
    BY <1>1, NowFields DEF PmmOK
  <1> QED BY <1>2 DEF UsedExact, HandedOutOnce, Private

LEMMA SpareHeld == ASSUME SpaceInv PROVE Spare \subseteq held /\ held \subseteq Runs
  <1>1. Now \in Memory
    BY DEF SpaceInv, SpacesOK
  <1>2. held \subseteq Runs
    BY <1>1, NowFields DEF Memory
  <1> QED BY <1>2, NowFields DEF Spare, Outside

\* A unit in a run is memory the page manager gave out.
LEMMA UnitOwned ==
  ASSUME NEW u \in Nat, held \subseteq Runs, NEW r \in held, u \div PAGE_SIZE \in Run(r[1], r[2])
  PROVE  u \in Owned
  <1>1. r[1] \in Nat /\ r[2] \in Nat
    <2>1. r[1] \in Page /\ r[2] \in Nat
      BY DEF Runs
    <2> QED BY <2>1, PageNat
  <1>2. u \in r[1] * PAGE_SIZE .. (r[1] + r[2]) * PAGE_SIZE - 1
    BY <1>1, PageOf
  <1> QED BY <1>2 DEF Owned

\* An object in the hands of a caller, block by block or slot by slot.
LEMMA HeapThing ==
  ASSUME NEW h, NEW s, NEW lv, NEW S, ThingsOK(h, s, lv, S), NEW o \in lv, o.kind = "heap"
  PROVE  /\ \E i \in DOMAIN h : Home(h, lv, o, i)
         /\ \A u \in Span(o) : u \in Nat /\ Covers(h, u) /\ Within(u, S)
  <1>0. h \in Seq(Blocks) /\ o \in Things
    BY DEF ThingsOK, HeapOK
  <1>1. PICK i \in DOMAIN h : Home(h, lv, o, i)
    BY DEF ThingsOK, HeapLive
  <1>2. ASSUME NEW u \in Span(o) PROVE u \in Nat /\ Covers(h, u) /\ Within(u, S)
    <2>1. u \in Payload(h[i]) /\ h[i] \in Blocks
      BY <1>0, <1>1 DEF Home
    <2>2. u \in Nat /\ u \in Whole(h[i])
      BY <2>1, BlockUnits
    <2>3. Covers(h, u)
      BY <2>2 DEF Covers
    <2> QED BY <2>2, <2>3 DEF ThingsOK, HeapOK
  <1> QED BY <1>1, <1>2

LEMMA SlabHome ==
  ASSUME NEW h, NEW s, NEW lv, NEW S, ThingsOK(h, s, lv, S), NEW o \in lv, o.kind = "slab"
  PROVE  /\ \E c \in Class : \E i \in DOMAIN s[c], k \in Nat : Slot(s, o, c, i, k)
         /\ \A u \in Span(o) : u \in Nat /\ ~Covers(h, u) /\ Within(u, S)
  <1>0. o \in Things /\ SlabOK(s, S) /\ Elsewhere(h, s)
    BY DEF ThingsOK
  <1>1. PICK c \in Class : \E i \in DOMAIN s[c], k \in Nat : Slot(s, o, c, i, k)
    BY DEF ThingsOK, SlabLive
  <1>2. PICK i \in DOMAIN s[c], k \in Nat : Slot(s, o, c, i, k)
    BY <1>1
  <1>3. ASSUME NEW u \in Span(o) PROVE u \in Nat /\ ~Covers(h, u) /\ Within(u, S)
    <2>1. u \in Nat
      BY <1>0, SpanStart
    <2>2. u \div PAGE_SIZE = s[c][i].page
      BY <1>0, <1>2, SlabSpan
    <2> DEFINE x == s[c][i].page
               r == <<x, 1>>
    <2>3. r \in S /\ x \in Run(x, 1)
      BY <1>0, SlabFields
    <2>4. r[1] = x /\ r[2] = 1
      OBVIOUS
    <2>5. Within(u, S)
      <3> HIDE DEF r, x
      <3>1. u \div PAGE_SIZE = x
        BY <2>2 DEF x
      <3> QED BY <2>3, <2>4, <3>1 DEF Within
    <2>6. ~Covers(h, u)
      BY <1>0, <2>2 DEF Elsewhere
    <2> QED BY <2>1, <2>5, <2>6
  <1> QED BY <1>1, <1>3

LEMMA ObjectsApart ==
  ASSUME NEW h, NEW s, NEW lv, NEW S, ThingsOK(h, s, lv, S), NEW o \in lv, NEW q \in lv, o # q
  PROVE  Span(o) \cap Span(q) = {}
  <1> SUFFICES ASSUME NEW u, u \in Span(o), u \in Span(q) PROVE FALSE
    OBVIOUS
  <1>0. lv \subseteq Things /\ o \in Things /\ q \in Things /\ SlabOK(s, S)
    BY DEF ThingsOK
  <1>1. (o.kind = "heap" \/ o.kind = "slab") /\ (q.kind = "heap" \/ q.kind = "slab")
    BY <1>0 DEF Things
  <1>2. CASE o.kind = "heap" /\ q.kind = "heap"
    <2>1. PICK i \in DOMAIN h : Home(h, lv, o, i)
      BY <1>2, HeapThing
    <2>2. Span(q) \cap Payload(h[i]) = {} /\ Span(o) \subseteq Payload(h[i])
      BY <1>2, <2>1 DEF Home
    <2> QED BY <2>2
  <1>3. CASE o.kind = "slab" /\ q.kind = "slab"
    <2>1. PICK c \in Class : \E i \in DOMAIN s[c], k \in Nat : Slot(s, o, c, i, k)
      BY <1>3, SlabHome
    <2>2. PICK i \in DOMAIN s[c], k \in Nat : Slot(s, o, c, i, k)
      BY <2>1
    <2>3. PICK d \in Class : \E j \in DOMAIN s[d], l \in Nat : Slot(s, q, d, j, l)
      BY <1>3, SlabHome
    <2>4. PICK j \in DOMAIN s[d], l \in Nat : Slot(s, q, d, j, l)
      BY <2>3
    <2>5. o.ptr = q.ptr
      BY <1>0, <2>2, <2>4, SlotUnique
    <2> QED BY <1>3, <2>5 DEF ThingsOK, SlabLive
  <1>4. CASE o.kind = "heap" /\ q.kind = "slab"
    BY <1>4, HeapThing, SlabHome
  <1>5. CASE o.kind = "slab" /\ q.kind = "heap"
    BY <1>5, HeapThing, SlabHome
  <1> QED BY <1>1, <1>2, <1>3, <1>4, <1>5

LEMMA InvObjectsDisjoint == ASSUME MemoryInv PROVE ObjectsDisjoint
  <1> SUFFICES ASSUME ~crossed, NEW o \in live
               PROVE  /\ Span(o) \subseteq Owned
                      /\ \A q \in live \ {o} : Span(o) \cap Span(q) = {}
                      /\ \A i \in DOMAIN heap : Span(o) \cap Header(heap[i]) = {}
    BY DEF ObjectsDisjoint
  <1>0. ThingsOK(heap, slab, live, Spare) /\ SpaceInv
    BY DEF MemoryInv, HeapInv
  <1>1. o \in Things /\ heap \in Seq(Blocks) /\ Apart(heap)
    BY <1>0 DEF ThingsOK, HeapOK
  <1>2. o.kind = "heap" \/ o.kind = "slab"
    BY <1>1 DEF Things
  <1>3. Span(o) \subseteq Owned
    <2> SUFFICES ASSUME NEW u \in Span(o) PROVE u \in Owned
      OBVIOUS
    <2>1. u \in Nat /\ Within(u, Spare)
      BY <1>0, <1>2, HeapThing, SlabHome
    <2>2. PICK r \in Spare : u \div PAGE_SIZE \in Run(r[1], r[2])
      BY <2>1 DEF Within
    <2> QED BY <1>0, <2>1, <2>2, SpareHeld, UnitOwned
  <1>4. \A q \in live \ {o} : Span(o) \cap Span(q) = {}
    BY <1>0, ObjectsApart
  <1>5. ASSUME NEW i \in DOMAIN heap PROVE Span(o) \cap Header(heap[i]) = {}
    <2>1. heap[i] \in Blocks /\ Header(heap[i]) \subseteq Whole(heap[i]) /\ Header(heap[i]) \cap Payload(heap[i]) = {}
      BY <1>1, BlockUnits
    <2>2. CASE o.kind = "slab"
      <3>1. \A u \in Span(o) : ~Covers(heap, u)
        BY <1>0, <2>2, SlabHome
      <3> QED BY <2>1, <3>1 DEF Covers
    <2>3. CASE o.kind = "heap"
      <3>1. PICK j \in DOMAIN heap : Home(heap, live, o, j)
        BY <1>0, <2>3, HeapThing
      <3>2. Span(o) \subseteq Payload(heap[j]) /\ heap[j] \in Blocks
        BY <1>1, <3>1 DEF Home
      <3>3. CASE i = j
        BY <2>1, <3>2, <3>3
      <3>4. CASE i # j
        <4>1. Whole(heap[i]) \cap Whole(heap[j]) = {}
          BY <1>1, <3>4 DEF Apart
        <4> QED BY <2>1, <3>2, <4>1, BlockUnits
      <3> QED BY <3>3, <3>4
    <2> QED BY <1>2, <2>2, <2>3
  <1> QED BY <1>3, <1>4, <1>5

LEMMA InvKernelPagesPrivate == ASSUME MemoryInv PROVE KernelPagesPrivate
  <1> SUFFICES ASSUME ~crossed, NEW p \in Procs, NEW x \in Places(p), At(x) \in KernelPages PROVE FALSE
    BY DEF KernelPagesPrivate
  <1>0. ThingsOK(heap, slab, live, Spare) /\ SpaceInv
    BY DEF MemoryInv, HeapInv
  <1>1. heap \in Seq(Blocks) /\ SlabOK(slab, Spare)
    BY <1>0 DEF ThingsOK, HeapOK
  <1> DEFINE y == At(x)
  <1>2. InTree(mem, cr3[p], y) /\ <<y, 1>> \in held /\ p \in alive
    BY <1>0, PlaceInTree, PlaceCases
  <1> HIDE DEF y
  <1>3. \A r \in Spare : r[1] # y
    BY <1>2, NowFields DEF Spare, Outside
  <1>4. ~\E r \in Spare : y \in Run(r[1], r[2])
    <2> SUFFICES ASSUME NEW r \in Spare, y \in Run(r[1], r[2]) PROVE FALSE
      OBVIOUS
    <2>1. Now \in Memory /\ PmmOK(Now) /\ held \subseteq Runs /\ r \in held
      BY <1>0, SpareHeld DEF SpaceInv, SpacesOK
    <2>2. y \in Page
      BY <1>2, <2>1 DEF Runs
    <2>3. r = <<y, 1>>
      BY <1>2, <2>1, <2>2, NowFields, HeldPage
    <2>4. r[1] = y
      BY <2>3
    <2> QED BY <1>3, <2>4
  <1>5. ASSUME NEW i \in DOMAIN heap, y = heap[i].addr \div PAGE_SIZE PROVE FALSE
    <2>1. Covers(heap, heap[i].addr)
      BY <1>1, BlockUnits DEF Covers
    <2>2. Within(heap[i].addr, Spare)
      BY <1>0, <2>1 DEF ThingsOK, HeapOK
    <2> QED BY <1>4, <1>5, <2>2 DEF Within
  <1>6. ASSUME NEW c \in Class, NEW i \in DOMAIN slab[c], y = slab[c][i].page PROVE FALSE
    <2>1. <<y, 1>> \in Spare
      BY <1>1, <1>6, SlabFields
    <2>2. <<y, 1>>[1] = y
      OBVIOUS
    <2> QED BY <1>3, <2>1, <2>2
  <1>7. y \in {b.addr \div PAGE_SIZE : b \in Range(heap)}
          \/ \E c \in Class : y \in {s.page : s \in Range(slab[c])}
    BY DEF KernelPages, y
  <1>8. Range(heap) = {heap[i] : i \in DOMAIN heap} /\ \A c \in Class : Range(slab[c]) = {slab[c][i] : i \in DOMAIN slab[c]}
    BY DEF Range
  <1> QED BY <1>5, <1>6, <1>7, <1>8

LEMMA InvInit == ASSUME MemoryInit PROVE MemoryInv
  <1>0. /\ pmm_bitmap = Reserved /\ pmm_used_pages = Cardinality(Reserved) /\ held = {}
        /\ heap = <<>> /\ slab = [c \in Class |-> <<>>] /\ live = {} /\ crossed = FALSE
        /\ mem = [p \in Page |-> Zero] /\ cr3 = [p \in Procs |-> 0] /\ alive = {}
        /\ brk = [p \in Procs |-> user_heap] /\ user_heap_end = [p \in Procs |-> user_heap]
    BY DEF MemoryInit, Init, HeapInit, SpaceInit
  <1>1. 0 \in Page /\ Reserved \subseteq Page /\ Zero \in [Idx -> Page] /\ Cardinality(Reserved) \in Nat
    BY ZeroPage, BitmapFinite
  <1>2. mem \in Tables
    BY <1>0, <1>1 DEF Tables
  <1>3. Now \in Memory
    BY <1>0, <1>1, <1>2 DEF Now, Memory
  <1>4. PmmOK(Now)
    BY <1>0, NowFields DEF PmmOK
  <1>5. user_heap \in Nat
    BY SpaceAssumption DEF user_heap
  <1>6. SpaceInv
    BY <1>0, <1>1, <1>3, <1>4, <1>5 DEF SpaceInv, SpacesOK
  <1>7. HeapOK(heap, Spare)
    <2>1. heap \in Seq(Blocks) /\ DOMAIN heap = {}
      BY <1>0
    <2> QED BY <2>1 DEF HeapOK, Apart, Covers
  <1>8. \A c \in Class : slab[c] \in Seq(SlabRecs) /\ DOMAIN slab[c] = {}
    BY <1>0
  <1>9. slab \in [Class -> Seq(SlabRecs)]
    BY <1>0, <1>8
  <1>10. SlabOK(slab, Spare) /\ Elsewhere(heap, slab)
    BY <1>8, <1>9 DEF SlabOK, Elsewhere
  <1>11. HeapLive(heap, live) /\ SlabLive(slab, live) /\ live \subseteq Things
    BY <1>0 DEF HeapLive, SlabLive
  <1> QED BY <1>0, <1>6, <1>7, <1>10, <1>11 DEF MemoryInv, HeapInv, ThingsOK

\* A process leaves the set of live ones only by process_exit.
LEMMA OnlyExit ==
  ASSUME SpaceInv, SpaceNext, NEW p \in alive \ alive'
  PROVE  process_exit(p)
  <1>1. alive \subseteq Procs
    BY DEF SpaceInv
  <1>2. PICK q \in Procs : alive' = alive \/ alive' = alive \cup {q} \/ process_exit(q)
    <2>1. PICK q \in Procs :
            \/ process_create(q)
            \/ process_exit(q)
            \/ \E addr \in BrkArgs : sys_brk(q, addr)
            \/ \E inc \in SbrkArgs : sys_sbrk(q, inc)
            \/ \E n \in 1 .. MaxPages : sys_mmap(q, PageNo(user_heap_end[q]) + MMAP_GAP, n)
            \/ \E n \in 1 .. MaxPages, v \in MapArgs : sys_mmap(q, v, n) \/ sys_munmap(q, v, n)
            \/ sys_exec(q)
      BY DEF SpaceNext
    <2>2. process_create(q) => alive' = alive \cup {q}
      BY DEF process_create
    <2>3. \A addr : sys_brk(q, addr) => alive' = alive
      BY DEF sys_brk
    <2>4. \A inc : sys_sbrk(q, inc) => alive' = alive
      BY DEF sys_sbrk
    <2>5. \A v, n : sys_mmap(q, v, n) \/ sys_munmap(q, v, n) => alive' = alive
      BY DEF sys_mmap, sys_munmap
    <2>6. sys_exec(q) => alive' = alive
      BY DEF sys_exec
    <2> QED BY <2>1, <2>2, <2>3, <2>4, <2>5, <2>6
  <1>3. process_exit(q) /\ alive' = alive \ {q}
    BY <1>2 DEF process_exit
  <1>4. p = q
    BY <1>3
  <1> QED BY <1>3, <1>4

\* What InUserHalf says of a place is what InHalf says of its page.
LEMMA PlaceHalf ==
  ASSUME SpaceInv, NEW p \in Procs, NEW x \in Places(p)
  PROVE  InUserHalf(x) <=> InHalf(mem, cr3[p], At(x))
  <1> DEFINE c == cr3[p]
  <1>1. c # 0 /\ IsTree(mem, c)
    BY PlaceCases, NowFields DEF SpaceInv, SpacesOK, SpaceOK
  <1>2. CASE x = <<p, "top", 0>> /\ At(x) = c
    BY <1>1, <1>2 DEF InUserHalf, InHalf
  <1>3. CASE \E i \in Idx : x = <<p, "table", i>> /\ At(x) = mem[c][i] /\ At(x) # 0
    <2>1. PICK i \in Idx : x = <<p, "table", i>> /\ At(x) = mem[c][i] /\ At(x) # 0
      BY <1>3
    <2>2. InUserHalf(x) <=> i \in UserIdx
      BY <2>1 DEF InUserHalf
    <2>3. CASE i \in UserIdx
      BY <1>1, <2>1, <2>2, <2>3 DEF InHalf, IsUserTable
    <2>4. CASE i \notin UserIdx
      BY <1>1, <2>1, <2>2, <2>4, BeyondHalf
    <2> QED BY <2>3, <2>4
  <1>4. CASE \E v \in VPage : /\ x = <<p, "page", v>> /\ At(x) # 0 /\ mem[c][Top(v)] # 0
                              /\ At(x) = mem[mem[c][Top(v)]][Leaf(v)]
    <2>1. PICK v \in VPage : /\ x = <<p, "page", v>> /\ At(x) # 0 /\ mem[c][Top(v)] # 0
                             /\ At(x) = mem[mem[c][Top(v)]][Leaf(v)]
      BY <1>4
    <2>2. InUserHalf(x) <=> Top(v) \in UserIdx
      BY <2>1 DEF InUserHalf
    <2>3. Top(v) \in Idx /\ Leaf(v) \in Idx
      BY VPageNat, TopAndLeaf
    <2>4. CASE Top(v) \in UserIdx
      BY <1>1, <2>1, <2>2, <2>3, <2>4 DEF InHalf, IsUserLeaf
    <2>5. CASE Top(v) \notin UserIdx
      BY <1>1, <2>1, <2>2, <2>3, <2>5, BeyondHalf
    <2> QED BY <2>4, <2>5
  <1> QED BY <1>2, <1>3, <1>4, PlaceCases

LEMMA ExitReturns ==
  ASSUME MemoryInv, [MemoryNext]_memoryVars, NEW p \in alive \ alive', NEW x \in Places(p)
  PROVE  At(x) \in pmm_bitmap' <=> ~InUserHalf(x)
  <1>1. SpaceInv /\ p \in Procs
    BY DEF MemoryInv, SpaceInv
  <1>2. SpaceNext
    BY DEF MemoryNext, memoryVars, spaceVars
  <1>3. process_exit(p)
    BY <1>1, <1>2, OnlyExit
  <1>4. InTree(mem, cr3[p], At(x)) /\ At(x) \in pmm_bitmap
    BY <1>1, PlaceInTree
  <1>5. pmm_bitmap \subseteq Page
    BY <1>1, NowFields, MemoryFields DEF SpaceInv, SpacesOK
  <1>6. \A y \in Page : InTree(mem, cr3[p], y) => (y \in pmm_bitmap' <=> ~InHalf(mem, cr3[p], y))
    BY <1>1, <1>3, ExitStep
  <1>7. InUserHalf(x) <=> InHalf(mem, cr3[p], At(x))
    BY <1>1, PlaceHalf
  <1> DEFINE y == At(x)
  <1> HIDE DEF y
  <1>8. y \in pmm_bitmap' <=> ~InHalf(mem, cr3[p], y)
    BY <1>4, <1>5, <1>6 DEF y
  <1> QED BY <1>7, <1>8 DEF y

-----------------------------------------------------------------------------
(***************************************************************************)
(* The invariant of the whole memory: every reachable state of the page    *)
(* manager, the heap, the slabs and the address spaces (kmalloc.c,         *)
(* process.c, syscall.c) satisfies it.                                     *)
(***************************************************************************)
THEOREM MemoryInvHolds == MemorySpec => []MemoryInv
  <1>1. MemoryInit => MemoryInv
    BY InvInit
  <1>2. MemoryInv /\ [MemoryNext]_memoryVars => MemoryInv'
    BY MemoryStep
  <1> QED BY <1>1, <1>2, PTL DEF MemorySpec

(***************************************************************************)
(* No page is referred to twice from address spaces, and none the page     *)
(* manager considers free: the loops of mmap and its rollback, munmap,     *)
(* brk, sbrk, exec, create and exit together.                              *)
(***************************************************************************)
THEOREM PagesOwnedOnce == MemorySpec => []OwnedOnce
  <1>1. MemoryInv => OwnedOnce
    BY InvOwnedOnce DEF MemoryInv
  <1> QED BY <1>1, MemoryInvHolds, PTL

(***************************************************************************)
(* pmm_used_pages stays the number of bits set, and no page is handed out  *)
(* twice, when the heap, the slabs and all system calls share the page     *)
(* manager.                                                                *)
(***************************************************************************)
THEOREM SharedPagesSound == MemorySpec => [](UsedExact /\ HandedOutOnce)
  <1>1. MemoryInv => UsedExact /\ HandedOutOnce
    BY InvUsedExact DEF MemoryInv
  <1> QED BY <1>1, MemoryInvHolds, PTL

(***************************************************************************)
(* kmalloc, kmalloc_aligned, slab_alloc and the frees never let two        *)
(* objects of callers overlap, nor an object and a block header, nor an    *)
(* object and memory that was not handed out, until kfree has merged two   *)
(* blocks that are not neighbours.                                         *)
(***************************************************************************)
THEOREM ObjectsStayDisjoint == MemorySpec => []ObjectsDisjoint
  <1>1. MemoryInv => ObjectsDisjoint
    BY InvObjectsDisjoint
  <1> QED BY <1>1, MemoryInvHolds, PTL

(***************************************************************************)
(* What munmap, exit and the rollback of mmap give back to the page        *)
(* manager is out of every page table before heap_grow or slab_new_page    *)
(* can get it.                                                             *)
(***************************************************************************)
THEOREM KernelPagesStayPrivate == MemorySpec => []KernelPagesPrivate
  <1>1. MemoryInv => KernelPagesPrivate
    BY InvKernelPagesPrivate
  <1> QED BY <1>1, MemoryInvHolds, PTL

(***************************************************************************)
(* Whatever calls built the address space, process_exit returns exactly    *)
(* the pages of its user half: user pages, leaf tables and the top table.  *)
(* Those of a hint of mmap beyond it (syscall.c:471) stay taken.           *)
(***************************************************************************)
THEOREM ExitReturnsTheUserHalf == MemorySpec => ExitReturnsUserHalf
  <1>1. MemoryInv /\ [MemoryNext]_memoryVars
          => [\A p \in alive \ alive' : \A x \in Places(p) :
                 At(x) \in pmm_bitmap' <=> ~InUserHalf(x)]_<<vars, spaceVars>>
    BY ExitReturns
  <1> QED BY <1>1, MemoryInvHolds, PTL DEF MemorySpec, ExitReturnsUserHalf
=============================================================================
