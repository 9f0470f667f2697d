------------------------------ MODULE S2Memory ------------------------------
(***************************************************************************)
(* Memory of stage 2: the page bitmap (stage2/memory/pmm.c), the page      *)
(* tables and the cluster window (stage2/memory/vmm.c), and the calls of   *)
(* BrainFS that back clusters with pages (stage2/fs/brainfs_core.c).       *)
(*                                                                         *)
(* A frame is a page number; 0 is also the failed result, as in the code.  *)
(* A virtual address is the tuple of its four table indices, with SM_N     *)
(* entries for the 512 of the hardware; an address below 4 GB is <<0, its  *)
(* gigabyte, its 2 MB, its page>>.  w = [bitmap, free, mem] is the memory  *)
(* a call works on: bitmap is the set of pages marked used, mem the page   *)
(* tables by frame.  Flags other than present and huge are left out.       *)
(*                                                                         *)
(* fat.table is never set by any caller of brainfs_mount: every entry reads*)
(* 0, so the first cluster, 2, is the one every allocation finds.          *)
(*                                                                         *)
(* held (history): the pages callers of the PMM have and not given back.   *)
(***************************************************************************)
EXTENDS Integers, Sequences, FiniteSets

CONSTANTS SM_PAGE,        \* bytes of a page
          SM_E820,        \* the memory map: sequence of [base, len, usable]
          SM_FIXED,       \* BIOS and loader regions, <<base, len>>
          SM_DMA,         \* pages below the DMA limit
          SM_N,           \* entries of a table
          SM_GIGABYTES,   \* gigabytes of the identity mapping
          SM_KERNEL,      \* KERNEL_BASE
          SM_WINDOW,      \* first index of CLUSTER_VA_BASE
          SM_CLUSTERS,    \* fat.total_clusters, up to CLUSTER_MAP_MAX
          SM_MOUNTS,      \* BRAINFS_MAX_MOUNTS
          SM_DRIVES,      \* drives mounted with brainfs_mount
          SM_USER         \* other addresses mapped with vmm_map_page

\* A volume has a data cluster; the first tables are in a region that is reserved
\* and below the end of memory.
ASSUME SMAssumption ==
  /\ SM_PAGE \in Nat \ {0} /\ SM_N \in Nat \ {0} /\ SM_GIGABYTES \in Nat /\ SM_DMA \in Nat
  /\ SM_CLUSTERS \in Nat /\ SM_CLUSTERS > 2
  /\ SM_E820 \in Seq([base : Nat, len : Nat, usable : BOOLEAN]) /\ SM_FIXED \in Seq(Nat \X Nat)
  /\ \E i \in DOMAIN SM_E820 : SM_E820[i].base + SM_E820[i].len >= 4 * SM_PAGE
  /\ \E i \in DOMAIN SM_FIXED : /\ SM_FIXED[i][1] \div SM_PAGE <= 1
                                /\ (SM_FIXED[i][1] + SM_FIXED[i][2] + SM_PAGE - 1) \div SM_PAGE >= 4

VARIABLES phase,              \* "pmm", "paging", "ready" or "halted"
          pmm_bitmap, pmm_free_count,
          mem,                \* page tables
          cluster_phys_map,
          bfs,                \* the mounted drives by slot, and mount_count
          held
smVars == <<phase, pmm_bitmap, pmm_free_count, mem, cluster_phys_map, bfs, held>>

SMMin(a, b) == IF a < b THEN a ELSE b
SMMost(S) == CHOOSE x \in S : \A y \in S : y <= x
pmm_total_pages == SMMost({SM_E820[i].base + SM_E820[i].len : i \in DOMAIN SM_E820}) \div SM_PAGE
PageFrame == 0 .. pmm_total_pages - 1
Cluster == 0 .. SM_CLUSTERS - 1
NoPage == [present |-> FALSE, huge |-> FALSE, frame |-> 0]
EmptyTable == [i \in 0 .. SM_N - 1 |-> NoPage]
PageAt(f) == [present |-> TRUE, huge |-> FALSE, frame |-> f]

vmm_pml4  == 1
vmm_kpdpt == 2
vmm_kpd   == 3

-----------------------------------------------------------------------------
(* pmm.c *)
\* The pages a region touches, and the pages inside it.
pmm_reserve_range(w, base, len) ==
  LET S == (base \div SM_PAGE) .. SMMin((base + len + SM_PAGE - 1) \div SM_PAGE, pmm_total_pages) - 1
  IN  [w EXCEPT !.bitmap = @ \cup S, !.free = @ - Cardinality(S \ w.bitmap)]
pmm_free_range(w, base, len) ==
  LET S == ((base + SM_PAGE - 1) \div SM_PAGE) .. SMMin((base + len) \div SM_PAGE, pmm_total_pages) - 1
  IN  [w EXCEPT !.bitmap = @ \ S, !.free = @ + Cardinality(S \cap w.bitmap)]

\* The regions of the map in order, then the fixed regions, then page 0.
pmm_init ==
  LET Region(w, r) == IF r.usable THEN pmm_free_range(w, r.base, r.len)
                      ELSE pmm_reserve_range(w, r.base, r.len)
      Fixed(w, r) == pmm_reserve_range(w, r[1], r[2])
      none == [bitmap |-> PageFrame, free |-> 0, mem |-> << >>]
      regions[k \in 0 .. Len(SM_E820)] == IF k = 0 THEN none ELSE Region(regions[k - 1], SM_E820[k])
      fixed[k \in 0 .. Len(SM_FIXED)] == IF k = 0 THEN regions[Len(SM_E820)] ELSE Fixed(fixed[k - 1], SM_FIXED[k])
  IN  pmm_reserve_range(fixed[Len(SM_FIXED)], 0, 1)

\* First fit below limit; 0 if there is none.
pmm_find_free_pages(w, count, limit) ==
  LET runs == {p \in 0 .. SMMin(limit, pmm_total_pages) - count : (p .. p + count - 1) \cap w.bitmap = {}}
  IN  IF runs = {} THEN 0 ELSE CHOOSE p \in runs : \A q \in runs : p <= q

Taken(w, S) == [w EXCEPT !.bitmap = @ \cup S, !.free = @ - Cardinality(S)]

pmm_free_pages(w, p, count) ==
  LET S == (p .. p + count - 1) \cap PageFrame \cap w.bitmap
  IN  IF p = 0 THEN w ELSE [w EXCEPT !.bitmap = @ \ S, !.free = @ + Cardinality(S)]

-----------------------------------------------------------------------------
(* vmm.c: r = [w, t] is the memory after a call and the table it returned. *)
\* vmm_alloc_table: an empty table in the page found.
Cleared(w, t) ==
  IF t = 0 THEN [w |-> w, t |-> 0]
  ELSE [w |-> [Taken(w, {t}) EXCEPT !.mem = [x \in DOMAIN @ \cup {t} |-> IF x = t THEN EmptyTable ELSE @[x]]],
        t |-> t]
vmm_alloc_table(w) == Cleared(w, pmm_find_free_pages(w, 1, pmm_total_pages))

\* vmm_get_pdpt, vmm_get_pd and vmm_get_pt: the table below entry idx of t,
\* created if asked to; a huge page has none.
Entered(n, t, idx) == IF n.t = 0 THEN n ELSE [n EXCEPT !.w.mem[t][idx] = PageAt(n.t)]
vmm_get_table(w, t, idx, create) ==
  LET e == w.mem[t][idx]
  IN  IF e.present THEN [w |-> w, t |-> IF e.huge THEN 0 ELSE e.frame]
      ELSE IF ~create THEN [w |-> w, t |-> 0]
      ELSE Entered(vmm_alloc_table(w), t, idx)

\* The page table of v, through the three levels; 0 if a level fails.
TableBelow(r, idx, create) == IF r.t = 0 THEN r ELSE vmm_get_table(r.w, r.t, idx, create)
Walk(w, v, create) == TableBelow(TableBelow(vmm_get_table(w, vmm_pml4, v[1], create), v[2], create), v[3], create)

\* vmm_get_page_entry
PageEntry(r, idx) == IF r.t = 0 THEN NoPage ELSE r.w.mem[r.t][idx]
vmm_get_page_entry(w, v) == PageEntry(Walk(w, v, FALSE), v[4])

\* A table of small pages for the region that starts at frame f.
Small(f) == [i \in 0 .. SM_N - 1 |-> PageAt(f + i)]

\* The tables enter_long_mode leaves: one huge page at 0.
enter_long_mode(w) ==
  [w EXCEPT !.mem = [x \in {vmm_pml4, vmm_kpdpt, vmm_kpd} |->
     [EmptyTable EXCEPT ![0] = IF x = vmm_kpd THEN [PageAt(0) EXCEPT !.huge = TRUE] ELSE PageAt(x + 1)]]]

\* One step of the identity loop, for the 2 MB region m of gigabyte g: the index
\* of the top level picks the entry of the second, that of the second the entry
\* of the third.
Replaced(n, pd, gm) ==
  IF n.t = 0 THEN n
  ELSE [n EXCEPT !.w.mem[n.t] = Small((gm[1] * SM_N + gm[2]) * SM_N), !.w.mem[pd][gm[1]] = PageAt(n.t)]
IdentityStep(r, gm) ==
  LET pd == r.w.mem[r.w.mem[vmm_pml4][0].frame][0].frame
  IN  IF r.t = 0 \/ gm[1] = 0 \/ r.w.mem[pd][gm[1]].huge THEN r
      ELSE Replaced(vmm_alloc_table(r.w), pd, gm)

\* So each region of a gigabyte replaces the one before it, whose table stays
\* taken.  vmm_init: the first table, the identity mapping, then the kernel's, which
\* uses its indices the same way; t is 0 where a table could not be had.
FirstTable(a) == IF a.t = 0 THEN a ELSE [a EXCEPT !.w.mem[a.t] = Small(0), !.w.mem[vmm_kpd][0] = PageAt(a.t)]
KernelTable(e, f) == IF f.t = 0 THEN f ELSE [f EXCEPT !.w.mem[f.t] = Small(0), !.w.mem[e.t][SM_KERNEL[2]] = PageAt(f.t)]
KernelBelow(e) == IF e.t = 0 THEN e ELSE KernelTable(e, vmm_alloc_table(e.w))
KernelMapped(c) ==
  IF c.t = 0 THEN c ELSE KernelBelow(TableBelow(vmm_get_table(c.w, vmm_pml4, SM_KERNEL[1], TRUE), SM_KERNEL[1], TRUE))
vmm_init(w0) ==
  LET identity[k \in 0 .. SM_GIGABYTES * SM_N] ==
        IF k = 0 THEN FirstTable(vmm_alloc_table(w0))
        ELSE IdentityStep(identity[k - 1], <<(k - 1) \div SM_N, (k - 1) % SM_N>>)
  IN  KernelMapped(identity[SM_GIGABYTES * SM_N])

\* vmm_map_page: refused where a page is present.
MappedAt(r, idx, f) == IF r.t = 0 \/ r.w.mem[r.t][idx].present THEN r.w ELSE [r.w EXCEPT !.mem[r.t][idx] = PageAt(f)]
vmm_map_page(w, v, f) == MappedAt(Walk(w, v, TRUE), v[4], f)
UnmappedAt(r, w, idx) == IF r.t = 0 THEN w ELSE [w EXCEPT !.mem[r.t][idx] = NoPage]
vmm_unmap_page(w, v) == UnmappedAt(Walk(w, v, FALSE), w, v[4])

-----------------------------------------------------------------------------
(* The cluster window: k = [w, phys] adds cluster_phys_map. *)
vmm_cluster_virt(c) == <<SM_WINDOW, (c \div SM_N) \div SM_N, (c \div SM_N) % SM_N, c % SM_N>>

\* The window is where neither the kernel nor the identity mapping is, and large
\* enough for all clusters; nobody else maps an address of it.
ASSUME WindowAssumption ==
  LET Indices == 0 .. SM_N - 1
  IN  /\ SM_KERNEL[1] \in Indices /\ SM_WINDOW \in Indices \ {0, SM_KERNEL[1]}
      /\ SM_CLUSTERS <= SM_N * SM_N * SM_N
      /\ SM_USER \subseteq Indices \X Indices \X Indices \X Indices
      /\ \A c \in Cluster : vmm_cluster_virt(c) \notin SM_USER

\* No huge page is ever in the window, so none has to be split.
Backed(k, r, c, f) ==
  IF r.t = 0 THEN [k EXCEPT !.w = r.w]
  ELSE [w |-> [r.w EXCEPT !.mem[r.t][vmm_cluster_virt(c)[4]] = PageAt(f)], phys |-> [k.phys EXCEPT ![c] = f]]
vmm_cluster_map(k, c, f) == Backed(k, Walk(k.w, vmm_cluster_virt(c), TRUE), c, f)

\* Mutant: the entry of the page table stays.
vmm_cluster_unmap_table(k, c) == [k EXCEPT !.phys[c] = 0]
vmm_cluster_unmap(k, c) ==
  IF k.phys[c] = 0 THEN k
  ELSE [w |-> vmm_unmap_page(k.w, vmm_cluster_virt(c)), phys |-> [k.phys EXCEPT ![c] = 0]]

\* vmm_cluster_resolve: a page for a cluster that has none; it is given back
\* when it cannot be mapped.
Kept(m, c, f) == IF m.phys[c] = f THEN m ELSE [m EXCEPT !.w = pmm_free_pages(m.w, f, 1)]
ResolvedWith(k, c, f) == IF f = 0 THEN k ELSE Kept(vmm_cluster_map([k EXCEPT !.w = Taken(k.w, {f})], c, f), c, f)
vmm_cluster_resolve(k, c) == IF k.phys[c] # 0 THEN k ELSE ResolvedWith(k, c, pmm_find_free_pages(k.w, 1, pmm_total_pages))

\* brainfs_fat_alloc_cluster: cluster 2, whose page, if it has one, is replaced.
ClusterWith(k, f) == IF f = 0 THEN k ELSE vmm_cluster_map([k EXCEPT !.w = Taken(k.w, {f})], 2, f)
brainfs_fat_alloc_cluster(k) == ClusterWith(k, pmm_find_free_pages(k.w, 1, pmm_total_pages))

\* Mutant: the cluster still names the page.
brainfs_fat_free_chain_mapped(k, c) ==
  IF c < 2 \/ k.phys[c] = 0 THEN k ELSE [k EXCEPT !.w = pmm_free_pages(k.w, k.phys[c], 1)]
\* brainfs_fat_free_chain: an entry of 0 ends the chain after its first cluster.
brainfs_fat_free_chain(k, c) ==
  LET m == vmm_cluster_unmap(k, c)
  IN  IF c < 2 \/ k.phys[c] = 0 THEN k ELSE [m EXCEPT !.w = pmm_free_pages(m.w, k.phys[c], 1)]

-----------------------------------------------------------------------------
PageMemory == [bitmap |-> pmm_bitmap, free |-> pmm_free_count, mem |-> mem]
ClusterWindow == [w |-> PageMemory, phys |-> cluster_phys_map]
SetMemory(w) == pmm_bitmap' = w.bitmap /\ pmm_free_count' = w.free /\ mem' = w.mem
SetWindow(k) == SetMemory(k.w) /\ cluster_phys_map' = k.phys /\ UNCHANGED <<phase, bfs, held>>
PagingReady == phase = "ready"

SMInit ==
  /\ phase = "pmm"
  /\ pmm_bitmap = {} /\ pmm_free_count = 0 /\ mem = << >>
  /\ cluster_phys_map = [c \in Cluster |-> 0]
  /\ bfs = [drive |-> [i \in 0 .. SM_MOUNTS - 1 |-> 0], count |-> 0]
  /\ held = {}

\* Phases 4, 10 and 11 of stage2_entry; it halts where vmm_init fails.
BootMemory ==
  \/ /\ phase = "pmm" /\ phase' = "paging"
     /\ SetMemory(pmm_init)
     /\ UNCHANGED <<cluster_phys_map, bfs, held>>
  \/ /\ phase = "paging"
     /\ LET r == vmm_init(enter_long_mode(PageMemory))
        IN  SetMemory(r.w) /\ phase' = IF r.t = 0 THEN "halted" ELSE "ready"
     /\ UNCHANGED <<cluster_phys_map, bfs, held>>

\* pmm_alloc_page, pmm_alloc_pages and pmm_alloc_dma
pmm_alloc(count, limit) ==
  LET p == pmm_find_free_pages(PageMemory, count, limit)
  IN /\ PagingReady /\ p # 0
     /\ SetMemory(Taken(PageMemory, p .. p + count - 1))
     /\ held' = held \cup {<<p, count>>}
     /\ UNCHANGED <<phase, cluster_phys_map, bfs>>

\* pmm_free_page, pmm_free_pages and pmm_free_dma of what the caller has.
pmm_free(h) ==
  /\ PagingReady
  /\ SetMemory(pmm_free_pages(PageMemory, h[1], h[2]))
  /\ held' = held \ {h}
  /\ UNCHANGED <<phase, cluster_phys_map, bfs>>

MapUser(v, h) == /\ PagingReady /\ SetMemory(vmm_map_page(PageMemory, v, h[1]))
                 /\ UNCHANGED <<phase, cluster_phys_map, bfs, held>>
UnmapUser(v)  == /\ PagingReady /\ SetMemory(vmm_unmap_page(PageMemory, v))
                 /\ UNCHANGED <<phase, cluster_phys_map, bfs, held>>

\* brainfs_mount takes the slot mount_count names, in use or not.
brainfs_mount(d) ==
  /\ PagingReady /\ bfs.count < SM_MOUNTS
  /\ bfs' = [drive |-> [bfs.drive EXCEPT ![bfs.count] = d], count |-> bfs.count + 1]
  /\ UNCHANGED <<phase, pmm_bitmap, pmm_free_count, mem, cluster_phys_map, held>>

\* brainfs_umount: all clusters lose their slot, whichever drive they are of,
\* and their pages stay taken.
brainfs_umount(d) ==
  LET slots == {i \in DOMAIN bfs.drive : bfs.drive[i] = d}
      Unmap(m, c) == IF c < 2 THEN m ELSE vmm_cluster_unmap(m, c)
      upto[n \in 0 .. SM_CLUSTERS] == IF n = 0 THEN ClusterWindow ELSE Unmap(upto[n - 1], n - 1)
      k == upto[SM_CLUSTERS]
  IN /\ PagingReady /\ slots # {}
     /\ bfs' = [drive |-> [bfs.drive EXCEPT ![CHOOSE i \in slots : \A j \in slots : i <= j] = 0],
                count |-> bfs.count - 1]
     /\ SetMemory(k.w) /\ cluster_phys_map' = k.phys /\ UNCHANGED <<phase, held>>

Mounted == PagingReady /\ \E i \in DOMAIN bfs.drive : bfs.drive[i] # 0

\* brainfs_dir_create, which brainfs_file_create calls too: the new cluster is
\* cleared, which resolves it if it has no page.
brainfs_dir_create == Mounted /\ SetWindow(vmm_cluster_resolve(brainfs_fat_alloc_cluster(ClusterWindow), 2))

\* brainfs_cluster_read and brainfs_cluster_write
ClusterAccess(c) == Mounted /\ SetWindow(vmm_cluster_resolve(ClusterWindow, c))
FreeChain(c) == Mounted /\ SetWindow(brainfs_fat_free_chain(ClusterWindow, c))

SMNext ==
  \/ BootMemory
  \/ pmm_alloc(1, pmm_total_pages) \/ pmm_alloc(2, pmm_total_pages) \/ pmm_alloc(1, SM_DMA)
  \/ \E h \in held : pmm_free(h) \/ \E v \in SM_USER : MapUser(v, h)
  \/ \E v \in SM_USER : UnmapUser(v)
  \/ \E d \in SM_DRIVES : brainfs_mount(d) \/ brainfs_umount(d)
  \/ brainfs_dir_create
  \/ \E c \in Cluster : ClusterAccess(c) \/ FreeChain(c)

SMSpec == SMInit /\ [][SMNext]_smVars

-----------------------------------------------------------------------------
Held == UNION {h[1] .. h[1] + h[2] - 1 : h \in held}
Backing == {cluster_phys_map[c] : c \in Cluster} \ {0}

(***************************************************************************)
(* A page has one owner.  The page tables, the pages behind clusters and   *)
(* the pages callers hold are distinct and marked used, whichever call     *)
(* runs out of pages between two tables; and pmm_free_count is the number  *)
(* of free pages.                                                          *)
(***************************************************************************)
PageOwners ==
  phase \in {"ready", "halted"} =>
    /\ DOMAIN mem \cup Backing \cup Held \subseteq pmm_bitmap
    /\ DOMAIN mem \cap Backing = {} /\ DOMAIN mem \cap Held = {} /\ Backing \cap Held = {}
    /\ \A c, d \in Cluster : c # d /\ cluster_phys_map[c] # 0
                                => cluster_phys_map[c] # cluster_phys_map[d]
    /\ pmm_free_count = Cardinality(PageFrame \ pmm_bitmap)

(***************************************************************************)
(* cluster_phys_map and the page tables are two records of one mapping:    *)
(* an address of the window leads to the page recorded for its cluster,    *)
(* and to none if none is recorded.                                        *)
(***************************************************************************)
WindowAgrees ==
  PagingReady => \A c \in Cluster :
    vmm_get_page_entry(PageMemory, vmm_cluster_virt(c)) =
      IF cluster_phys_map[c] = 0 THEN NoPage ELSE PageAt(cluster_phys_map[c])
=============================================================================
