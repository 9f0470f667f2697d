----------------------------- MODULE MCKMemory -----------------------------
(***************************************************************************)
(* A machine of a few pages, two processes and a small kernel heap.  The   *)
(* view leaves out what a free page contains: the callers of               *)
(* pmm_alloc_page clear a page before they use it.  Exploration stops      *)
(* where kfree has merged blocks that are not neighbours (see KHeap).      *)
(***************************************************************************)
EXTENDS KMemory
Map == << [base |-> 0, length |-> 10, avail |-> TRUE],
          [base |-> 10, length |-> 2, avail |-> FALSE],
          [base |-> 12, length |-> 16, avail |-> TRUE],
          [base |-> 0, length |-> 0, avail |-> FALSE],
          [base |-> 40, length |-> 8, avail |-> TRUE] >>
Objects == <<1, 2>>
Same == Permutations(Procs)
Observed == <<vars, heapVars, cr3, alive, brk, user_heap_end,
              [p \in Page |-> IF p \in pmm_bitmap THEN mem[p] ELSE Zero]>>
Sound == ~crossed
=============================================================================
