------------------------------ MODULE KMemory ------------------------------
(***************************************************************************)
(* The kernel's memory as one system: the heap and the slab allocator of   *)
(* KHeap and the address spaces of KSpace draw pages from the same page    *)
(* manager (KPmm).                                                         *)
(***************************************************************************)
EXTENDS KHeap, KSpace

memoryVars == <<vars, heapVars, spaceVars>>

MemoryInit == Init /\ HeapInit /\ SpaceInit

MemoryNext == \/ HeapNext /\ UNCHANGED spaceVars
              \/ SpaceNext /\ UNCHANGED heapVars

MemorySpec == MemoryInit /\ [][MemoryNext]_memoryVars

\* The same start with the copies of process_fork added.
ForkSpec == MemoryInit /\ [][ForkNext /\ UNCHANGED heapVars]_memoryVars

-----------------------------------------------------------------------------
MemoryTypeOK ==
  /\ TypeOK /\ HeapTypeOK
  /\ mem \in [Page -> [Idx -> Page]]
  /\ cr3 \in [Procs -> Page]
  /\ \A p \in alive : brk[p] \in user_heap .. user_heap_end[p]

\* The pages that hold kernel objects.
KernelPages == {b.addr \div PAGE_SIZE : b \in Range(heap)}
                 \cup UNION {{s.page : s \in Range(slab[c])} : c \in Class}

(***************************************************************************)
(* A page that holds a heap block or slab objects is never reachable from  *)
(* an address space: what munmap, exit and mmap's rollback give back is    *)
(* unmapped before the heap can get it, as long as kfree has merged only   *)
(* blocks that are neighbours in memory.                                   *)
(***************************************************************************)
KernelPagesPrivate ==
  ~crossed => \A p \in Procs : {At(x) : x \in Places(p)} \cap KernelPages = {}
=============================================================================
