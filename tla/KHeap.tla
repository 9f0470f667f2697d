-------------------------------- MODULE KHeap --------------------------------
(***************************************************************************)
(* The kernel heap and the slab allocator (kernel/kmalloc.c, second and    *)
(* third part), both fed by the page manager of KPmm.                      *)
(*                                                                         *)
(* heap is the linked list of block headers from heap_head on, slab the    *)
(* list of slab pages of each class.  Sizes and addresses are in the units *)
(* of KPmm (one unit stands for the 16 bytes sizes are rounded to).        *)
(* heap_used and heap_total are statistics and are left out.               *)
(*                                                                         *)
(* History variables: live is the set of objects in the hands of callers;  *)
(* crossed records that kfree merged two blocks that are not neighbours in *)
(* memory.  Callers free what they hold, once.                             *)
(***************************************************************************)
EXTENDS KPmm, SequencesExt

CONSTANTS HDR,         \* sizeof(block_header_t)
          SPLIT_MIN,   \* the smallest block worth splitting off
          Sizes,       \* sizes asked of kmalloc
          SLAB_HDR,    \* sizeof(slab_page_t)
          slab_sizes,  \* sequence of object sizes, ascending
          SLAB_PAGE_OBJECTS,
          SlabSizes,   \* sizes asked of slab_alloc
          MaxLive      \* bound on the objects callers hold at once

VARIABLES heap, slab, live, crossed

heapVars == <<heap, slab, live, crossed>>

Class == DOMAIN slab_sizes

\* The code's sizes are positive, an object of every class fits into a slab
\* page, and slab_alloc passes sizes that no class covers on to kmalloc.
ASSUME HeapAssumption ==
  /\ PAGE_SIZE \in Nat \ {0} /\ HDR \in Nat \ {0} /\ SPLIT_MIN \in Nat \ {0} /\ SLAB_HDR \in Nat
  /\ Sizes \subseteq Nat \ {0} /\ SlabSizes \subseteq Nat \ {0} /\ SLAB_PAGE_OBJECTS \in Nat \ {0}
  /\ slab_sizes \in Seq(Nat \ {0})
  /\ \A c \in Class : SLAB_HDR + slab_sizes[c] <= PAGE_SIZE
  /\ \A n \in SlabSizes : \E c \in Class : slab_sizes[c] >= n

HeapInit ==
  /\ heap = <<>>
  /\ slab = [c \in Class |-> <<>>]
  /\ live = {}
  /\ crossed = FALSE

-----------------------------------------------------------------------------
(* Heap *)
Free(i) == heap[i].free
End(b) == b.addr + HDR + b.size
Block(a, n, f) == [addr |-> a, size |-> n, free |-> f]

\* First fit: the blocks kmalloc's search accepts.
Fits(n) == {i \in DOMAIN heap : Free(i) /\ heap[i].size >= n}

\* Mutant: the block that is split off starts one header too early.
Carve_overlap(i, n) ==
  LET b == heap[i]
  IN  IF b.size >= n + HDR + SPLIT_MIN
      THEN SubSeq(heap, 1, i - 1)
             \o <<Block(b.addr, n, FALSE), Block(b.addr + n, b.size - n - HDR, TRUE)>>
             \o SubSeq(heap, i + 1, Len(heap))
      ELSE [heap EXCEPT ![i].free = FALSE]

\* Take n units of block i, splitting off the rest if it is large enough.
Carve(i, n) ==
  LET b == heap[i]
  IN  IF b.size >= n + HDR + SPLIT_MIN
      THEN SubSeq(heap, 1, i - 1)
             \o <<Block(b.addr, n, FALSE),
                  Block(b.addr + HDR + n, b.size - n - HDR, TRUE)>>
             \o SubSeq(heap, i + 1, Len(heap))
      ELSE [heap EXCEPT ![i].free = FALSE]

\* heap_grow: whole pages from the page manager, put at the head of the list.
heap_grow(n) ==
  LET pages == (n + HDR + PAGE_SIZE - 1) \div PAGE_SIZE
  IN /\ pmm_alloc_pages(pages)
     /\ \E r \in held' \ held :
          heap' = <<Block(r[1] * PAGE_SIZE, pages * PAGE_SIZE - HDR, FALSE)>> \o heap

\* The pointer a caller makes of p: p itself, or (kmalloc_aligned) the next
\* page boundary.
Pointer(p, aligned) == IF aligned THEN ((p + PAGE_SIZE - 1) \div PAGE_SIZE) * PAGE_SIZE ELSE p
Object(p, n, aligned) == [ptr |-> Pointer(p, aligned), size |-> n, kind |-> "heap"]

\* kmalloc(n) for an object of want units.
kmalloc(n, want, aligned) ==
  /\ Cardinality(live) < MaxLive
  /\ \/ \E i \in Fits(n) :
          /\ i = Min(Fits(n))
          /\ heap' = Carve(i, n)
          /\ live' = live \cup {Object(heap[i].addr + HDR, want, aligned)}
          /\ UNCHANGED <<pmm_bitmap, pmm_used_pages, held>>
     \/ /\ Fits(n) = {}
        /\ heap_grow(n)
        /\ live' = live \cup {Object(heap'[1].addr + HDR, want, aligned)}
  /\ UNCHANGED <<slab, crossed>>

\* kmalloc and kmalloc_zero: the pointer itself.
alloc(n) == kmalloc(n, n, FALSE)

\* kmalloc_aligned: a page boundary inside a larger block.
kmalloc_aligned(n) == kmalloc(n + PAGE_SIZE + HDR, n, TRUE)

\* kfree, the coalescing loop: a free block swallows the free blocks that
\* follow it in the list, wherever they are in memory.
Swallow(acc, b) == IF acc # <<>> /\ Last(acc).free /\ b.free
                   THEN [acc EXCEPT ![Len(acc)].size = @ + HDR + b.size]
                   ELSE Append(acc, b)
Coalesce(list) ==
  LET after[k \in 0 .. Len(list)] == IF k = 0 THEN <<>> ELSE Swallow(after[k - 1], list[k])
  IN  after[Len(list)]
MergesApart(list) ==
  \E i \in 1 .. Len(list) - 1 :
    list[i].free /\ list[i + 1].free /\ End(list[i]) # list[i + 1].addr

\* kfree(p): a pointer whose header does not carry the magic, such as one of
\* kmalloc_aligned, is ignored and its block stays allocated.
kfree(p) ==
  LET mine == {i \in DOMAIN heap : heap[i].addr + HDR = p /\ ~Free(i)}
  IN \/ /\ mine = {}
        /\ UNCHANGED <<heap, crossed>>
     \/ \E i \in mine :
          LET freed == [heap EXCEPT ![i].free = TRUE]
          IN  heap' = Coalesce(freed) /\ crossed' = (crossed \/ MergesApart(freed))

-----------------------------------------------------------------------------
(* Slab pages: [page, used, bitmap], with the newest page first. *)
Total(c) == Min({(PAGE_SIZE - SLAB_HDR) \div slab_sizes[c], SLAB_PAGE_OBJECTS})
ObjectAt(c, pg, k) == pg * PAGE_SIZE + SLAB_HDR + k * slab_sizes[c]
SlabObject(c, pg, k, n) == [ptr |-> ObjectAt(c, pg, k), size |-> n, kind |-> "slab"]

\* The pages of class c with a free object, by the counter.
HasRoom(c) == {i \in DOMAIN slab[c] : slab[c][i].used < Total(c)}

\* The first clear bit of page i of class c.
FirstClear(c, i) == Min((0 .. Total(c) - 1) \ slab[c][i].bitmap)

\* slab_alloc for a size some class covers (a larger size goes to kmalloc).
slab_alloc(n) ==
  LET c == Min({k \in Class : slab_sizes[k] >= n})
  IN /\ Cardinality(live) < MaxLive
     /\ \/ \E i \in HasRoom(c) :
             /\ i = Min(HasRoom(c))
             /\ slab' = [slab EXCEPT ![c][i].bitmap = @ \cup {FirstClear(c, i)},
                                     ![c][i].used = @ + 1]
             /\ live' = live \cup {SlabObject(c, slab[c][i].page, FirstClear(c, i), n)}
             /\ UNCHANGED <<pmm_bitmap, pmm_used_pages, held>>
        \/ /\ HasRoom(c) = {}
           /\ pmm_alloc_pages(1)                          \* slab_new_page
           /\ \E r \in held' \ held :
                /\ slab' = [slab EXCEPT ![c] =
                              <<[page |-> r[1], used |-> 1, bitmap |-> {0}]>> \o @]
                /\ live' = live \cup {SlabObject(c, r[1], 0, n)}
     /\ UNCHANGED <<heap, crossed>>

\* slab_free finds the page by address range; other pointers go to kfree.
slab_free(p) ==
  LET Inside(c, i) == LET pg == slab[c][i].page
                      IN  p >= ObjectAt(c, pg, 0) /\ p < ObjectAt(c, pg, Total(c))
      found == UNION {{c} \X {i \in DOMAIN slab[c] : Inside(c, i)} : c \in Class}
  IN \/ /\ found = {}
        /\ kfree(p)
        /\ UNCHANGED slab
     \/ \E ci \in found :
          LET c == ci[1]
              i == ci[2]
              k == (p - ObjectAt(c, slab[c][i].page, 0)) \div slab_sizes[c]
          IN /\ slab' = [slab EXCEPT ![c][i].bitmap = @ \ {k}, ![c][i].used = @ - 1]
             /\ UNCHANGED <<heap, crossed>>

\* A caller frees an object through kfree, or through slab_free.
free(o) ==
  /\ live' = live \ {o}
  /\ \/ o.kind = "heap" /\ kfree(o.ptr) /\ UNCHANGED slab
     \/ o.kind = "slab" /\ slab_free(o.ptr)
  /\ UNCHANGED <<pmm_bitmap, pmm_used_pages, held>>

HeapNext ==
  \/ \E n \in Sizes : alloc(n) \/ kmalloc_aligned(n)
  \/ \E n \in SlabSizes : slab_alloc(n)
  \/ \E o \in live : free(o)

HeapSpec == Init /\ HeapInit /\ [][HeapNext]_<<vars, heapVars>>

-----------------------------------------------------------------------------
HeapTypeOK ==
  /\ \A i \in DOMAIN heap : heap[i].size \in Nat \ {0}
  /\ \A c \in Class : \A i \in DOMAIN slab[c] :
        slab[c][i].used \in 0 .. Total(c) /\ slab[c][i].bitmap \subseteq 0 .. Total(c) - 1

Span(o) == o.ptr .. o.ptr + o.size - 1
Header(b) == b.addr .. b.addr + HDR - 1
Owned == UNION {r[1] * PAGE_SIZE .. (r[1] + r[2]) * PAGE_SIZE - 1 : r \in held}

(***************************************************************************)
(* Objects in the hands of callers never overlap each other or a block     *)
(* header and lie in memory the page manager gave out: kmalloc's splitting *)
(* and coalescing, kmalloc_aligned and the slab bitmaps, as long as kfree  *)
(* has merged only blocks that are neighbours in memory.                   *)
(***************************************************************************)
ObjectsDisjoint ==
  ~crossed => \A o \in live :
    /\ Span(o) \subseteq Owned
    /\ \A q \in live \ {o} : Span(o) \cap Span(q) = {}
    /\ \A i \in DOMAIN heap : Span(o) \cap Header(heap[i]) = {}

(***************************************************************************)
(* kmalloc.c:255: "Coalesce adjacent free blocks".  Every block of the     *)
(* list lies inside one run of pages that heap_grow obtained.              *)
(***************************************************************************)
BlocksInsideRuns ==
  \A i \in DOMAIN heap : \E r \in held :
    heap[i].addr >= r[1] * PAGE_SIZE /\ End(heap[i]) <= (r[1] + r[2]) * PAGE_SIZE
=============================================================================
