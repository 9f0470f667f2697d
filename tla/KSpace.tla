-------------------------------- MODULE KSpace --------------------------------
(***************************************************************************)
(* Address spaces (the vmm_* functions of kernel/process.c) and the system *)
(* calls that change them (kernel/syscall.c: brk, sbrk, mmap, munmap and   *)
(* the page mapping of exec), over the page manager of KPmm.               *)
(*                                                                         *)
(* The four levels of page tables are two here: cr3 holds the top table    *)
(* and its entries point to leaf tables; the levels in between repeat the  *)
(* code of the top one, and table flags are left out.  A top table has a   *)
(* user half, its first USER_ENTRIES entries (0-255 in the code), and      *)
(* another one: only the user half is cloned and destroyed, but nothing    *)
(* keeps a hint of sys_mmap within it.  The other half of a new table is   *)
(* copied from the running one, which is always that of enter_long_mode    *)
(* (stage2/main.c; vmm_switch_to has no caller) and empty there.           *)
(* mem[pg] is the table a page holds (all zero after the memset of a fresh *)
(* page); 0 is "not present", page 0 being reserved.                       *)
(* Syscalls run with interrupts masked, so each is one step.               *)
(***************************************************************************)
EXTENDS KPmm, SequencesExt

CONSTANTS Procs,          \* processes that own an address space
          ENTRIES,        \* entries of a table
          USER_ENTRIES,   \* entries of a top table that are the user half
          HEAP_PAGES,     \* PROCESS_HEAP_SIZE in pages
          STACK_PAGES,    \* PROCESS_USER_STACK in pages
          BrkArgs,        \* addresses given to sys_brk
          SbrkArgs,       \* increments given to sys_sbrk
          BRK_LIMIT,      \* sys_brk's 64 MB
          MMAP_GAP,       \* pages left between the heap and mmap(0, ...)
          MapArgs,        \* virtual pages given to mmap and munmap
          MaxPages        \* largest length of mmap and munmap, in pages

Idx     == 0 .. ENTRIES - 1
UserIdx == 0 .. USER_ENTRIES - 1
VPage   == 0 .. ENTRIES * ENTRIES - 1      \* virtual pages
\* The entries of a page: higher bits of an address are masked away.
Top(v)  == (v \div ENTRIES) % ENTRIES
Leaf(v) == v % ENTRIES
Zero == [i \in Idx |-> 0]

VARIABLES mem, cr3, alive, brk, user_heap_end

spaceVars == <<mem, cr3, alive, brk, user_heap_end>>

user_heap == PAGE_SIZE                    \* page 0 is left to program images

SpaceInit ==
  /\ mem = [p \in Page |-> Zero]
  /\ cr3 = [p \in Procs |-> 0]
  /\ alive = {}
  /\ brk = [p \in Procs |-> user_heap]
  /\ user_heap_end = [p \in Procs |-> user_heap]

-----------------------------------------------------------------------------
(***************************************************************************)
(* A syscall allocates and frees several pages one after the other.  The   *)
(* memory it works on is a record m = [bm, used, held, mem], and each      *)
(* operator below is one call on it.                                       *)
(***************************************************************************)
Now == [bm |-> pmm_bitmap, used |-> pmm_used_pages, held |-> held, mem |-> mem]

Commit(m) == /\ pmm_bitmap' = m.bm
             /\ pmm_used_pages' = m.used
             /\ held' = m.held
             /\ mem' = m.mem

\* pmm_alloc_page: the page, or 0.
NewPage(m) == IF Page \subseteq m.bm THEN 0 ELSE Min(Page \ m.bm)

\* pmm_alloc_page and the memset of the page it returned.
Alloc(m) == LET pg == NewPage(m)
            IN  IF pg = 0 THEN m
                ELSE [bm |-> m.bm \cup {pg}, used |-> m.used + 1,
                      held |-> m.held \cup {<<pg, 1>>}, mem |-> [m.mem EXCEPT ![pg] = Zero]]

\* pmm_free_page
FreePage(m, pg) == IF pg \notin m.bm THEN m
                   ELSE [m EXCEPT !.bm = @ \ {pg}, !.used = @ - 1, !.held = @ \ {<<pg, 1>>}]

\* vmm_translate, of a space with a top table
Translate(m, c, v) == LET t == m.mem[c][Top(v)]
                      IN  IF t = 0 THEN 0 ELSE m.mem[t][Leaf(v)]

\* vmm_map_page: a missing table is allocated; without memory it maps nothing.
MapPage(m, c, v, pg) ==
  LET w == IF m.mem[c][Top(v)] # 0 THEN m
           ELSE IF NewPage(m) = 0 THEN m
           ELSE [Alloc(m) EXCEPT !.mem[c][Top(v)] = NewPage(m)]
      t == w.mem[c][Top(v)]
  IN  IF c = 0 \/ t = 0 THEN m ELSE [w EXCEPT !.mem[t][Leaf(v)] = pg]

\* vmm_unmap_page of a page that is mapped
UnmapPage(m, c, v) == [m EXCEPT !.mem[m.mem[c][Top(v)]][Leaf(v)] = 0]

\* One round of the loops that allocate a page, clear it and map it at v.
MapFresh(m, c, v) == IF NewPage(m) = 0 THEN m ELSE MapPage(Alloc(m), c, v, NewPage(m))

\* Such a loop stops when the page manager is empty: the memory after k rounds.
Mapping(m, c, vs) ==
  LET after[k \in 0 .. Len(vs)] == IF k = 0 THEN m ELSE MapFresh(after[k - 1], c, vs[k])
  IN  after
MapNew(m, c, vs) == Mapping(m, c, vs)[Len(vs)]

\* Memory runs out before that loop is through.
RunsOut(m, c, vs) == \E k \in 1 .. Len(vs) : NewPage(Mapping(m, c, vs)[k - 1]) = 0

Pages(a, n) == [i \in 1 .. n |-> a + i - 1]

\* Mutant: munmap gives the page back and leaves the entry in the table.
Unmapped_keeps_entry(m, c, v) ==
  IF Translate(m, c, v) = 0 THEN m ELSE FreePage(m, Translate(m, c, v))
\* One round of the rollback of sys_mmap and of the loop of sys_munmap.
Unmapped(m, c, v) ==
  IF Translate(m, c, v) = 0 THEN m ELSE FreePage(UnmapPage(m, c, v), Translate(m, c, v))

\* Those two loops.
UnmapAll(m, c, vs) ==
  LET after[k \in 0 .. Len(vs)] == IF k = 0 THEN m ELSE Unmapped(after[k - 1], c, vs[k])
  IN  after[Len(vs)]

\* The pages in a leaf table are given back, its entries are left as they are.
FreeLeaves(m, t) ==
  LET after[k \in 0 .. ENTRIES] ==
        IF k = 0 THEN m
        ELSE IF m.mem[t][k - 1] = 0 THEN after[k - 1] ELSE FreePage(after[k - 1], m.mem[t][k - 1])
  IN  after[ENTRIES]

\* Mutant: the leaf table itself is not given back.
FreeTable_keeps_table(m, t) == IF t = 0 THEN m ELSE FreeLeaves(m, t)
\* A leaf table is given back after its pages.
FreeTable(m, t) == IF t = 0 THEN m ELSE FreePage(FreeLeaves(m, t), t)

\* vmm_destroy_address_space: the leaf tables of the user half, then the top
\* table.  What hangs below the other entries is left as it is.
vmm_destroy_address_space(m, c) ==
  LET after[k \in 0 .. USER_ENTRIES] == IF k = 0 THEN m ELSE FreeTable(after[k - 1], m.mem[c][k - 1])
  IN  FreePage(after[USER_ENTRIES], c)

\* vmm_clone_address_space: for every table in the user half of src a new table
\* with copies of its pages is built, and the entry of dst is set to the table
\* of src.
vmm_clone_address_space(m, dst, src) ==
  LET CopyLeaf(w, nt, t, j) ==
        IF w.mem[t][j] = 0 \/ NewPage(w) = 0 THEN w
        ELSE [Alloc(w) EXCEPT !.mem[nt][j] = NewPage(w)]
      CopyTable(w, i) ==
        LET t  == w.mem[src][i]
            nt == NewPage(w)
        IN  IF t = 0 \/ nt = 0 THEN w
            ELSE FoldLeft(LAMBDA x, j : CopyLeaf(x, nt, t, j),
                          [Alloc(w) EXCEPT !.mem[dst][i] = t], Pages(0, ENTRIES))
  IN  FoldLeft(CopyTable, m, Pages(0, USER_ENTRIES))

-----------------------------------------------------------------------------
(* The operations *)
PageUp(a) == ((a + PAGE_SIZE - 1) \div PAGE_SIZE) * PAGE_SIZE
PageNo(a) == a \div PAGE_SIZE

\* What the code's constants have in common: page 0 is below the kernel and
\* never handed out, and heap, stack and break stay in the user half.
ASSUME SpaceAssumption ==
  /\ PAGE_SIZE \in Nat \ {0} /\ ENTRIES \in Nat \ {0} /\ USER_ENTRIES \in 1 .. ENTRIES /\ 0 \in Reserved
  /\ HEAP_PAGES \in Nat /\ STACK_PAGES \in 0 .. HEAP_PAGES /\ HEAP_PAGES < USER_ENTRIES * ENTRIES
  /\ BrkArgs \subseteq Nat /\ SbrkArgs \subseteq Nat /\ MapArgs \subseteq Nat
  /\ MMAP_GAP \in Nat /\ MaxPages \in Nat /\ BRK_LIMIT \in Nat
  /\ PageNo(PageUp(user_heap + BRK_LIMIT)) <= USER_ENTRIES * ENTRIES

\* process_create: a top table, the stack pages, then the heap pages.  The
\* stack is the last part of the heap range and is mapped over by the heap.
process_create(p) ==
  LET c    == NewPage(Now)
      heap0 == Pages(PageNo(user_heap), HEAP_PAGES)
      stack == SubSeq(heap0, HEAP_PAGES - STACK_PAGES + 1, HEAP_PAGES)
  IN /\ p \notin alive
     /\ alive' = alive \cup {p}
     /\ cr3' = [cr3 EXCEPT ![p] = c]
     /\ Commit(IF c = 0 THEN Now ELSE MapNew(MapNew(Alloc(Now), c, stack), c, heap0))
     /\ brk' = [brk EXCEPT ![p] = user_heap]
     /\ user_heap_end' = [user_heap_end EXCEPT ![p] = user_heap]

\* process_exit: the address space is given back.
process_exit(p) ==
  /\ p \in alive
  /\ alive' = alive \ {p}
  /\ Commit(IF cr3[p] = 0 THEN Now ELSE vmm_destroy_address_space(Now, cr3[p]))
  /\ cr3' = [cr3 EXCEPT ![p] = 0]
  /\ UNCHANGED <<brk, user_heap_end>>

\* process_fork: a new top table, then the clone.
process_fork(p, q) ==
  LET c == IF cr3[p] = 0 THEN 0 ELSE NewPage(Now)
  IN /\ p \in alive /\ q \notin alive
     /\ alive' = alive \cup {q}
     /\ cr3' = [cr3 EXCEPT ![q] = c]
     /\ Commit(IF c = 0 THEN Now ELSE vmm_clone_address_space(Alloc(Now), c, cr3[p]))
     /\ brk' = [brk EXCEPT ![q] = brk[p]]
     /\ user_heap_end' = [user_heap_end EXCEPT ![q] = user_heap_end[p]]

\* sys_brk: user_heap_end moves to the new end even if memory ran out.
sys_brk(p, addr) ==
  LET from == PageNo(user_heap_end[p])
      to   == PageNo(PageUp(addr))
  IN /\ p \in alive
     /\ addr >= user_heap /\ addr - user_heap <= BRK_LIMIT
     /\ brk' = [brk EXCEPT ![p] = addr]
     /\ \/ /\ addr > user_heap_end[p]
           /\ Commit(MapNew(Now, cr3[p], Pages(from, to - from)))
           /\ user_heap_end' = [user_heap_end EXCEPT ![p] = PageUp(addr)]
        \/ /\ addr <= user_heap_end[p]
           /\ UNCHANGED <<vars, mem, user_heap_end>>
     /\ UNCHANGED <<cr3, alive>>

\* sys_sbrk with a positive increment: pages from the old break on; the break
\* moves only if all of them were allocated.
sys_sbrk(p, inc) ==
  LET new == PageUp(brk[p] + inc)
      vs  == Pages(PageNo(PageUp(brk[p])), PageNo(new) - PageNo(PageUp(brk[p])))
  IN /\ p \in alive
     /\ Commit(MapNew(Now, cr3[p], vs))
     /\ IF RunsOut(Now, cr3[p], vs) THEN UNCHANGED <<brk, user_heap_end>>
        ELSE /\ brk' = [brk EXCEPT ![p] = new]
             /\ user_heap_end' = [user_heap_end EXCEPT ![p] = Max({@, new})]
     /\ UNCHANGED <<cr3, alive>>

\* sys_mmap of n pages, at the hint v, which nothing checks, or (hint 0) a gap
\* above the heap; rolled back if memory runs out.
sys_mmap(p, v, n) ==
  LET vs   == Pages(v, n)
      done == Mapping(Now, cr3[p], vs)
  IN /\ p \in alive /\ cr3[p] # 0
     /\ \/ /\ ~RunsOut(Now, cr3[p], vs)
           /\ Commit(done[n])
        \/ \E k \in 0 .. n - 1 :
             /\ NewPage(done[k]) = 0
             /\ \A j \in 0 .. k - 1 : NewPage(done[j]) # 0
             /\ Commit(UnmapAll(done[k], cr3[p], SubSeq(vs, 1, k)))
     /\ UNCHANGED <<cr3, alive, brk, user_heap_end>>

\* sys_munmap of n pages at v, which nothing checks either
sys_munmap(p, v, n) ==
  /\ p \in alive /\ cr3[p] # 0
  /\ Commit(UnmapAll(Now, cr3[p], Pages(v, n)))
  /\ UNCHANGED <<cr3, alive, brk, user_heap_end>>

\* sys_exec: the pages of the image (page 0) that are not mapped yet.  With no
\* address space vmm_translate is the identity and nothing is allocated.
sys_exec(p) ==
  /\ p \in alive
  /\ Commit(IF cr3[p] = 0 \/ Translate(Now, cr3[p], 0) # 0 THEN Now
            ELSE MapNew(Now, cr3[p], <<0>>))
  /\ UNCHANGED <<cr3, alive, brk, user_heap_end>>

SpaceNext ==
  \E p \in Procs :
    \/ process_create(p)
    \/ process_exit(p)
    \/ \E addr \in BrkArgs : sys_brk(p, addr)
    \/ \E inc \in SbrkArgs : sys_sbrk(p, inc)
    \/ \E n \in 1 .. MaxPages : \/ sys_mmap(p, PageNo(user_heap_end[p]) + MMAP_GAP, n)
                                \/ \E v \in MapArgs : sys_mmap(p, v, n) \/ sys_munmap(p, v, n)
    \/ sys_exec(p)

ForkNext == SpaceNext \/ \E p, q \in Procs : process_fork(p, q)

SpaceSpec == Init /\ SpaceInit /\ [][SpaceNext]_<<vars, spaceVars>>

-----------------------------------------------------------------------------
\* Where a process refers to a page: its top table, a leaf table, a user page.
Places(p) == IF p \notin alive \/ cr3[p] = 0 THEN {}
             ELSE {<<p, "top", 0>>}
                  \cup {<<p, "table", i>> : i \in {j \in Idx : mem[cr3[p]][j] # 0}}
                  \cup {<<p, "page", v>> : v \in {w \in VPage : Translate(Now, cr3[p], w) # 0}}
At(x) == CASE x[2] = "top"   -> cr3[x[1]]
           [] x[2] = "table" -> mem[cr3[x[1]]][x[3]]
           [] x[2] = "page"  -> Translate(Now, cr3[x[1]], x[3])

(***************************************************************************)
(* Every page an address space refers to, as a table or as user memory, is *)
(* marked used by the page manager and has no other reference: mappings    *)
(* are never aliased and never point at freed memory.                      *)
(***************************************************************************)
OwnedOnce ==
  LET all == UNION {Places(p) : p \in Procs}
  IN  \A x \in all : /\ At(x) \in pmm_bitmap \ Reserved
                     /\ \A y \in all \ {x} : At(x) # At(y)

\* The process reaches the page through the user half of its top table.
InUserHalf(x) == \/ x[2] = "top"
                 \/ x[2] = "table" /\ x[3] \in UserIdx
                 \/ x[2] = "page" /\ Top(x[3]) \in UserIdx

(***************************************************************************)
(* Of the pages a process refers to, process_exit gives back exactly those *)
(* of the user half (data pages, leaf tables and the top table).  What     *)
(* sys_mmap has built for a hint beyond that half, tables and pages,       *)
(* stays taken for good: vmm_destroy_address_space does not look there.    *)
(***************************************************************************)
ExitReturnsUserHalf ==
  [][\A p \in alive \ alive' : \A x \in Places(p) :
        At(x) \in pmm_bitmap' <=> ~InUserHalf(x)]_<<vars, spaceVars>>

(***************************************************************************)
(* README.md: "full fork with 4-level page table clone".  No two processes *)
(* share a page table or a user page.                                      *)
(***************************************************************************)
ForkCopies ==
  \A p, q \in Procs : p # q => {At(x) : x \in Places(p)} \cap {At(x) : x \in Places(q)} = {}
=============================================================================
