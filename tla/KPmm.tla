-------------------------------- MODULE KPmm --------------------------------
(***************************************************************************)
(* The physical page manager of the kernel (kernel/kmalloc.c, first part): *)
(* a bitmap over all page frames, built from the BIOS E820 map, and a      *)
(* counter of used pages.  pmm_bitmap is the set of page frames whose bit  *)
(* is set.  held is a history variable: the runs of pages handed out to    *)
(* callers and not given back, as <<first page, count>>.                   *)
(*                                                                         *)
(* Addresses are counted in units of which PAGE_SIZE make a page, so that  *)
(* an E820 entry need not start or end on a page boundary.                 *)
(***************************************************************************)
EXTENDS Integers, Sequences, FiniteSets, FiniteSetsExt

CONSTANTS PAGE_SIZE,       \* address units per page
          E820_MAP,        \* sequence of [base, length, avail] entries
          E820_MAX,        \* entries the table can hold
          PMM_MAX_PAGES,   \* pages the bitmap can hold
          pmm_mem_start,   \* first address that may be handed out
          MaxRun           \* largest count given to pmm_alloc_pages

\* pmm_init, first loop: the entries before the empty one that ends the table.
Entries == {i \in 1 .. Min({Len(E820_MAP), E820_MAX}) :
              \A j \in 1 .. i : E820_MAP[j].base # 0 \/ E820_MAP[j].length # 0}
pmm_mem_end == Max({0} \cup {E820_MAP[i].base + E820_MAP[i].length : i \in Entries})
pmm_total_pages == Min({pmm_mem_end \div PAGE_SIZE, PMM_MAX_PAGES})
Page == 0 .. pmm_total_pages - 1

ASSUME PageAssumption == pmm_total_pages \in Nat
ASSUME RunAssumption == MaxRun \in Nat

\* pmm_init, second loop: the pages one available entry clears.
Cleared(e) ==
  LET start == IF e.base < pmm_mem_start THEN pmm_mem_start ELSE e.base
      len   == e.base + e.length - start
  IN  IF ~e.avail \/ len <= 0 THEN {}
      ELSE {start \div PAGE_SIZE + j : j \in 0 .. len \div PAGE_SIZE - 1} \cap Page

\* The bitmap pmm_init leaves: everything else, and all below pmm_mem_start.
Reserved == (Page \ UNION {Cleared(E820_MAP[i]) : i \in Entries})
              \cup {p \in Page : p < pmm_mem_start \div PAGE_SIZE}

VARIABLES pmm_bitmap, pmm_used_pages, held

vars == <<pmm_bitmap, pmm_used_pages, held>>

Init ==
  /\ pmm_bitmap = Reserved
  /\ pmm_used_pages = Cardinality(Reserved)
  /\ held = {}

-----------------------------------------------------------------------------
Run(s, n) == s .. s + n - 1

\* Mutant: only the first page of the run is tested.
IsFit_first(s, n) == Run(s, n) \subseteq Page /\ s \notin pmm_bitmap

\* n free pages from s.
IsFit(s, n) == Run(s, n) \subseteq Page /\ Run(s, n) \cap pmm_bitmap = {}

\* pmm_find_contiguous: the first run of n free pages.
pmm_find_contiguous(s, n) == IsFit(s, n) /\ \A t \in Page : IsFit(t, n) => s <= t

\* Mutant: the counter advances by one for a run of pages.
pmm_alloc_pages_count_one(n) ==
  \E s \in Page :
    /\ pmm_find_contiguous(s, n)
    /\ pmm_bitmap' = pmm_bitmap \cup Run(s, n)
    /\ pmm_used_pages' = pmm_used_pages + 1
    /\ held' = held \cup {<<s, n>>}

\* pmm_alloc_page is the case n = 1; without a fit both return 0 and change nothing.
pmm_alloc_pages(n) ==
  \E s \in Page :
    /\ pmm_find_contiguous(s, n)
    /\ pmm_bitmap' = pmm_bitmap \cup Run(s, n)
    /\ pmm_used_pages' = pmm_used_pages + n
    /\ held' = held \cup {<<s, n>>}

\* pmm_free_pages (pmm_free_page is n = 1): pages that are already free are skipped.
pmm_free_pages(s, n) ==
  LET freed == Run(s, n) \cap Page \cap pmm_bitmap
  IN /\ pmm_bitmap' = pmm_bitmap \ freed
     /\ pmm_used_pages' = pmm_used_pages - Cardinality(freed)
     /\ held' = held \ {<<s, n>>}

\* Callers give back what they were handed; a second free of a page that is
\* still free is allowed too.
free_held == \E r \in held : pmm_free_pages(r[1], r[2])
free_again == \E p \in Page \ pmm_bitmap : pmm_free_pages(p, 1)

Next == \/ \E n \in 1 .. MaxRun : pmm_alloc_pages(n)
        \/ free_held
        \/ free_again

Spec == Init /\ [][Next]_vars

-----------------------------------------------------------------------------
TypeOK ==
  /\ pmm_bitmap \subseteq Page
  /\ pmm_used_pages \in Nat
  /\ held \subseteq Page \X (1 .. MaxRun)

(***************************************************************************)
(* pmm_used_pages, which pmm_get_free_pages subtracts from the total, is   *)
(* the number of bits set in the bitmap, through every run allocation and  *)
(* repeated free.                                                          *)
(***************************************************************************)
UsedExact == pmm_used_pages = Cardinality(pmm_bitmap)

(***************************************************************************)
(* No page is handed out twice, and none that pmm_init reserved: runs in   *)
(* the hands of callers are disjoint, marked used, and off the reserved    *)
(* pages.                                                                  *)
(***************************************************************************)
HandedOutOnce ==
  \A r \in held :
    /\ Run(r[1], r[2]) \subseteq pmm_bitmap
    /\ Run(r[1], r[2]) \cap Reserved = {}
    /\ \A q \in held : q # r => Run(r[1], r[2]) \cap Run(q[1], q[2]) = {}
=============================================================================
