# Verification of the Chicago-95 / BrainFS boot loader and kernel

TLA+ models of the repository's own logic, TLC configurations that check them on
small instances, and TLAPS proofs of the properties that matter most for every
value of the parameters. Definitions keep the names of the C functions they
translate; `PROJECT.json` maps each to its source lines.

## 1. The system

The repository is a bare-metal boot chain, a small kernel, and the large
environment of programs that stage 2 offers before it starts the kernel.

```
stage1 (MBR) -> stage2 (modes, memory, security suite, shells, menu)
             -> stage3 (ELF64 loader) -> kernel        (stages 5-100: demos)
```

Nothing runs in parallel except where NetGuard is given several cores. What makes
the code hard is what interrupts it (timer, keyboard, power failure), what it
shares with devices (descriptor rings, disk registers), processes that switch
inside system calls, resources that run out half way through an operation,
long-lived tables (pages, heap blocks, descriptors, circuits, identities) that
every caller trusts, and parsers and transformations whose cases nobody enumerated.

### Inventory

| Component | State | Operations | Interacts with | Hard behaviour | What makes it correct |
|---|---|---|---|---|---|
| Process manager (`kernel/process.c`, `syscall.c`) | process table, `current_process`, saved stack pointers | create, fork, exit, sleep, wake, yield, wait, scheduler | timer, address spaces, descriptors | switches inside an interrupt and inside syscalls; sleep at tick 0; slot reuse | one RUNNING process, nobody lost, everybody runs again |
| Timer and interrupt dispatch (`timer.c`, `idt.c`, `irq.c`, `isr.asm`) | ticks, in-service interrupt, frames on stacks | tick, EOI, return | scheduler | the EOI comes after the switch | EOI never lost; ticks go on |
| Page manager (`kmalloc.c`) | bitmap, used counter | init from E820, allocate and free runs | heap, slabs, page tables | odd E820 entries, free of a page twice | a page has one owner; the counter is exact |
| Heap and slabs (`kmalloc.c`) | block list, slab pages | grow, split, merge, allocate, free | page manager | regions that are not neighbours | live objects never overlap |
| Address spaces (`process.c`, `syscall.c`) | page tables, break | map, unmap, clone, destroy, brk, sbrk, mmap, munmap, exec | page manager, processes | running out of pages in the middle | a page is mapped once; exit returns the user half |
| VFS, tmpfs, descriptors (`vfs.c`, `syscall.c`) | nodes, data buffers, global and per-process tables | open, close, read, write, dup, pipe, mkdir, unlink | heap, processes, shell | node freed under a descriptor, tables full, fork | files hold what was written; no entry lost |
| Kernel shell and screen (`shell.c`, `console.c`) | line, history, redirection, tree, screen, hook | editing keys, commands, pipes, scrolling | keyboard, VFS | long key sequences, paths with `..`, output hook | newest history and rows; paths lead where walking leads |
| Keyboard (`keyboard.c`) | ring of key codes, modifiers | interrupt handler, getchar | shell, `sys_read` | handler between two steps of the reader; ring full | keys once and in order |
| Kernel log (`kmsg.c`) | ring of entries | add, count, get | everything, `dmesg` | wrap at 256 | dmesg shows the newest, oldest first |
| Network (`drivers/net.c`, `e1000.c`) | ARP cache, sockets, descriptor rings | send, receive, poll, ping | card, shell | lost and repeated frames, rings full, timeout | answers go to who asked; no frame taken twice |
| Firewalls (`stage2/security/firewall`) | rules, token buckets, connections, block list | packet in, tick, rule update | network | table full, cookies, expiry | verdict of the highest priority; exact counters |
| NetGuard (`stage2/security/netguard`) | ring, signatures, blacklist, four threads | scan, hunt, wipe, display, shutdown | firewalls, NIC | one memory access of two cores between two of another | the ring is a queue while no two pushes overlap; only guilty flows are cut |
| Boot chain (`stage2/main.c`, `boot/`, `stage3`, `stage5`) | phase, `boot.cfg`, menu, snapshot | phases, menu, mount, session, load, jump | disk, keyboard, BrainVFS | failing reads, power failure inside a save | never starts a kernel that was not saved or loaded |
| Stage 2 memory (`stage2/memory`) and BrainFS clusters | bitmap, page tables, cluster window | init, allocate, map, resolve, free chain | BrainFS | a page runs out between two levels of a walk | one owner per page; window and tables agree |
| BrainVFS and allocation tables (`stage2/fs`) | mounts, descriptors, packed FAT | mount, open, close, read, seek; entries of 1 to 128 bits | ATA, snapshot | slots reused, entries that cross bytes | a handle has one descriptor; entries read back |
| ATA (`stage2/tape/ata.c`) | detected drives, registers | detect, select, transfers | BrainFS | answers that fail at any sector, two ways of addressing | sectors hold what was written to them |
| fish, awk, GNU tools (`stage2/shell`) | line, kill ring, tables, call stack, programs | keys, commands, parsing, expansion, records | VFS, keyboard | commands that call themselves; loops and flags; long key sequences | clean prompt; texts are cut and put together as defined |
| Wi-Fi (`stage2/drivers/wifi`) | found controllers, registered drivers, interface | search, select, scan, join, send | PCI, WPA | a later search after an earlier one | a driver only touches its own device |
| john (`stage2/security/john`) | session, odometer, rules, chains | start, step, resume, score | digests | limits in the middle of a search | a search that fails has tried every string but the last |
| Cryptography (`security/common`) | contexts, counters, buffers | update, final, encrypt, tag | everything below | chunks that do not fit blocks, counter carries | digests depend on the message alone; no keystream twice |
| Tor (`security/tor`) | circuits, streams, relays, bootstrap | create, extend, destroy, attach, SOCKS | network | copies of table entries, slots reused | distinct numbers; failed bootstrap keeps nothing |
| WPA2/WPA3, DoH, DoT, DNSCrypt | states, keys, nonces, frames | messages, retransmission, connect, query | network | repeated, late and reordered messages | key confirmed is key used; no nonce twice |
| Disk and address identities (`disk_*`, `mac_*`, `anti_ip`) | real and shown values, tables, histories | hide, reveal, rotate, mask, map | disk, network | rotation between hide and reveal, equal values | what is shown leads back to what is real unless another disk shows the same |

The components that are not modelled are in section 6. `PROJECT.json` lists every
component with its status, and under `hazards` the places where the code is hard to
test, each with the properties that cover it.

## 2. Modules

| Module | Models | Composes |
|---|---|---|
| `KProcess` | process table, scheduler, timer interrupt and EOI, process syscalls | |
| `KContext` | the words on a kernel stack: what `process_create` pushes and `context_switch` pops | |
| `KPmm` | page bitmap built from any E820 map | |
| `KHeap` | heap blocks and slabs | `KPmm` |
| `KSpace` | page tables in pages of `KPmm`, memory syscalls | `KPmm` |
| `KMemory` | heap, slabs and address spaces on one page manager | `KHeap`, `KSpace` |
| `KFiles` | tmpfs, descriptors, file syscalls, shell file commands and redirection | |
| `KMsg` | the log ring of `kmsg.c` | |
| `KConsole` | keyboard interrupt, ring, getchar, line editor, history | |
| `KScreen` | the text screen and the hook that takes output away | |
| `KShell` | paths, the tree and the text commands of the kernel shell | |
| `KNet` | e1000 rings and the card, ARP, ICMP, UDP sockets, ping | |
| `SFilter`, `SStateful`, `SAdaptive` | three firewalls of stage 2 | |
| `NGFifo` | abstract: a bounded queue between producers and a consumer | |
| `NGRing` | NetGuard's ring, one memory access per step; implements `NGFifo` while pushes do not overlap | `NGFifo` (INSTANCE) |
| `SNetGuard` | NetGuard's threads around that queue | |
| `SFishLine`, `SFish`, `SFishText` | fish: line editor; session and dispatcher; parsing and text commands | `SFish`: `SFishLine` |
| `SAwk` | awk: parser, regular expressions, interpreter | |
| `S2Tools` | head, wc, cut, tr, sort, uniq, grep, sed, diff, base64 | |
| `S2Memory` | stage 2's page manager, four-level tables, cluster window, BrainFS clusters | |
| `SBrain` | BrainVFS, and packing of allocation tables | |
| `STape` | ATA detection and transfers | |
| `S2Boot` | stage 2 from entry to jump, snapshot with power failures, stage 3, stage 5 | |
| `SWifi` | search, registry, seven drivers' order of register writes | |
| `SJohn` | sessions, searches, mutation rules, chains, score | |
| `SCipher` | SHA-256, HMAC, HKDF, ChaCha20, AES-CTR, GCM, CCMP around ideal functions | |
| `STor` | circuits, streams, directory, bootstrap, hidden service, SOCKS5 | |
| `SLink` | WPA2, WPA3, DoH, DoT, DNSCrypt | |
| `SDisk`, `SIdent` | disk identities; MAC and IP addresses | `SIdent`: `SDisk`, `SCipher` |
| `MCKMemory` | instance for TLC: values, view, constraint | `KMemory` |
| `MCKernelIo` | one run of the kernel's console and network card | `KMsg`, `KConsole`, `KScreen`, `KShell`, `KNet` |
| `MCNetwork` | one run of stage 2's guards and the kernel's files | the firewalls, `NGRing`, `SNetGuard`, `KFiles` |
| `MCStage2` | one run of stage 2's programs | all `S2*` and the other `S*` except those of `MCNetwork` |
| `KProcessProofs`, `KFilesProofs` | theorems | the module of that name |
| `KMemoryProofs` | theorems | `KPmm`, `KMemory` |
| `KConsoleProofs` | theorems | `MCKernelIo`: `KConsole`, `KScreen`, `KMsg`, `KShell` |
| `NetworkProofs` | theorems | `KNet`, `SFilter`, `SStateful`, `SAdaptive`, `SNetGuard`, `NGRing` |
| `Stage2Proofs` | theorems | `S2Boot`, `STor`, `SWifi`, `S2Memory` |
| `Stage2IoProofs` | theorems | `STape`, `SBrain`, `SLink`, `SFishLine`, `SFish` |
| `IdentProofs` | theorems | `SCipher`, `SDisk`, `SIdent` |

The three collecting modules put parts side by side that share no state a property
is about: a variable `part` is chosen at the start, a behaviour is one of that part,
the others stay as they start, and the view shows the running part only. Their
state spaces add up instead of multiplying, and an invariant `part = "x" => I` says
I of every state of part x.

How state and actions correspond to the code:

* **KProcess.** `state`, `ppid` are fields of `processes[]`; `due` is `wake_time`
  relative to `timer_ticks`, so the clock needs no bound; `saved[p]` is where
  `context_switch` left p (fork copies the parent's, as it copies `saved_rsp`), `cpu` where the processor is, `inService` the PIC's
  in-service bit of IRQ 0. One action per function that user or interrupt code
  enters; `process_scheduler` is an operator that every caller includes with the
  tables as the caller has changed them. Where a new process first resumes is
  taken from the comments of `process_create`; `KContext` models the stack words
  and shows that they do not do that.
* **KPmm, KHeap, KSpace, KMemory.** Addresses are units; a page has `PAGE_SIZE`
  units. `mem[p]` is a page used as a table. The four-level table is cut to two
  levels, which keeps every case of the walks (missing table, present table,
  freed table). The first `USER_ENTRIES` of the `ENTRIES` top entries are the user half,
  the only ones `vmm_destroy_address_space` visits; `sys_mmap` takes any hint, as the code
  does, also one behind them. A failed allocation is the real one: the machine is small.
* **KFiles.** Nodes are identities in a heap of `MaxNodes`; a path is a name in
  `/tmp`, the only tree that changes. `vfs_open` and friends are operators on the
  record `[nodes, tmp, content]`, so that each syscall or command is one action
  with all its calls. `content` is the ideal file.
* **KConsole.** `keyboard_handler` may run between getchar's load of a code and its
  advance of the head. `queue` is the ideal queue and `overrun` records that the
  handler lapped the reader.
* **KMsg, KScreen, KShell.** `history` and `page` are the ideal log and the ideal
  endless paper; a node of the shell is named by its path, so that what a command
  finds is compared with walking the tree.
* **KNet.** `rdh`, `rdt`, `tdh` are registers of the card, which is a process of its
  own; `rx_ring[i]` is the frame in a descriptor whose done bit is set. The network
  delivers any frame at any time. `net_poll` takes one frame per step, with the whole
  of `net_recv_frame`, and the card goes on between steps. `ping_next` is the end of a
  wait in `cmd_ping`, by an answer or by the time limit. `arrived` and `learned` are
  histories.
* **SFilter, SStateful, SAdaptive.** One action per call of the firewall's interface.
  Match fields become sets of packets; a flow is a five-tuple in both directions; the
  moving averages become the number of baseline updates. Clocks are relative: tokens
  are refilled by any amount up to the burst, `seen` is the order of `last_seen`, and
  `left` is the time to expiry. Fields that `load_default_rules` leaves uninitialised
  are a choice.
* **NGRing, SNetGuard.** A core's place inside `ring_push` or `ring_pop` is its program
  counter; each step loads or stores one word. An element counts as queued from the
  store of the index on, which is the refinement mapping to `NGFifo`. `NGSmp` tells
  whether every thread has a core or, as `netguard_start` does it, the first thread
  called runs until the shutdown.
* **SFish.** The C stack is `fs_stack`, a frame for each call of `fish_dispatch` that
  waits for another (condition, function, source, substitution, event). Words are
  atoms in `SFish`, characters in `SFishLine`, character codes in `SFishText`.
* **SAwk, SFishText, S2Tools.** A parser is written as functions of the tokens and a
  position, as in the code. What is checked is an independent meaning: a program is
  written from a tree, and its output compared with what the tree says (`Promise`);
  a pattern with the set of texts it stands for; an expression with its value.
* **S2Memory.** Virtual addresses are the four indices; `vmm_init` is translated with
  the shifts it really uses, so its identity mapping is the one it really builds.
* **S2Boot.** `PowerLoss` may follow any step: memory goes, the disk stays.
* **SCipher, SLink, SDisk, SIdent.** A byte under encryption is a set of atoms and
  exclusive or is symmetric difference, so that equal keystream cancels as it does in
  the code; a keystream byte is named by cipher, key, counter and place.

## 3. Runs

| Run | Shows |
|---|---|
| `process_table` | four slots, every order of create, fork, exit, wait, sleep, wake, yield and ticks: exactly one RUNNING process, the EOI is late but never lost, if ring 3 programs give up the processor everybody who is ready or asleep runs again (`EveryoneRuns`) |
| `process_preemption` (violation) | with a ring 3 program that does not, the repository README's timer preemption stops: the EOI waits for the preempted process |
| `fresh_frame` (violation) | the frame `process_create` builds returns to address 0, not to `process_trampoline` |
| `kernel_memory` | six pages shared by heap, slabs and two address spaces until they are exhausted: counter exact, no page handed out twice, objects disjoint, mappings unique, kernel pages private, exit returns exactly the pages of the user half (`ExitReturnsUserHalf`; what a hint mapped behind it stays taken) |
| `heap_coalesce` (violation) | `kfree` merges list neighbours from different regions |
| `fork_clone` (violation) | fork stores the parent's tables in the child |
| `kernel_devices` | keys once and in order, cursor inside the line and newest history (`LineEditorSound`), newest messages in dmesg, newest rows on the screen, shell paths and text filters; frames once and in order, newest ARP address, datagrams of the own port |
| `guards_and_files` | filter verdict of the highest priority, exact connection count, blocks that last as promised; NetGuard's ring with both its producers implements a bounded queue as long as no two pushes overlap (`RingIsFifoApart`), its blacklist covers guilty flows only; files hold what was written, are not hidden by directories, no descriptor entry is lost |
| `ring_two_producers` (violation) | when the scanner and the hunter push at once, both read the same head and one packet is lost: the ring is not the queue its comment (`netguard.c:67`) announces |
| `nic_stall` (violation) | once the driver has caught up, the tail register equals the card's head and the card receives nothing more |
| `netguard_starves` (violation) | on one core the first thread never returns, so the wiper never runs and a full ring stays full |
| `stage2` | the sixteen parts of stage 2, see below |

The parts of `stage2`, with the invariant that speaks of each:

| Part | Invariant | Promise |
|---|---|---|
| line | `FishSound` | line, cursor and history keep their bounds; a yank puts back what the kill took, whatever came between (`YankRestores`) |
| session | `FishSound` | no variable, function or event exceeds its table; back at the prompt no function is current and `$status` is the last status (`PromptClean`) |
| memory | `PageOwners`, `WindowAgrees` | pages are free, tables, cluster pages or held, never two of them, and the counter is exact; `cluster_phys_map` and the tables agree |
| brain | `FilesKept` | a handle of a file system has exactly one descriptor; an entry of the allocation table reads back and leaves its neighbours alone |
| tape | `SectorsKept` | what an answered transfer wrote to a sector is what a later read brings |
| boot | `SnapshotSound` | a kernel started from a snapshot is one that was saved completely |
| tools, text, awk | `ToolsSound` | outputs equal definitions without the code's loops (`ToolsAgree`, `TextsAgree`, `AwkAgrees`); of `uniq` and `diff` nothing is said when a line does not fit their arrays |
| wifi | `DriverServesDevice` | the driver in use is for exactly the active controller and talks to it |
| john | `ToolsSound` | while a search runs, exactly the strings before the odometer were compared; one that ends without a hit has compared every string except the last of the greatest length (`SearchComplete`, section 7) |
| cipher | `ToolsSound`, `SecretsSound` | digests depend on the message alone (`DigestsAgree`); no keystream byte is used twice, decryption inverts (`KeystreamOnce`, `StreamComesBack`) |
| tor | `TorClient` | live circuits have distinct numbers, a failed bootstrap takes none, a dead one keeps no key |
| link | `LinkKeys`, `ToolsSound` | frames go out under the key that was confirmed and no key with a nonce twice (`LinkKeys`); encodings of queries can be read back (`QueriesEncoded`) |
| disk | `DiskIdentities` | what is shown leads back to the real value, through rotations and equal values, unless a disk found before shows the same |
| ident | `SecretsSound` | MAC and IP addresses on the wire lead back to the real ones, through rotations and a full table (`WireAddresses`) |

Every property of a passing run has a mutant in `PROJECT.json`: a plausible bug in
one definition that makes TLC find the property violated. An invariant that covers
several parts is broken in one of them.

**Bounds of the kernel.** Four process slots give a parent, a child, a sleeper and init
at once; an interval of two ticks has ticks that schedule and ticks that do not. Six
usable pages are fewer than two address spaces and the heap need, so every failure path
is taken. Of three top entries two are the user half, and `mmap` hints are a page inside
it (2) and one behind it (6). Two descriptors for each of two processes fill the global table; files of two
bytes with pages of one byte grow twice; one descriptor at a time is away from the start
of its file (`MaxMoved`). A ring of three codes wraps and fills; a history of two lines
wraps with the third; `MaxCommands` commands are typed. The log ring of three entries
wraps with five messages (`MaxAdds`). A screen of two rows of three characters wraps,
scrolls and has a tab that crosses its edge (`MaxRows` rows are written). A receive ring
of three holds frames not read while the card fills another descriptor and wraps; three
hosts on a cache of two entries make it replace entries; three rules out of five that
share buckets and priorities, three connections of two flows with duplicate SYNs, three
addresses on a block list of two. NetGuard's ring of four places holds three elements, has the
scanner and the hunter push, and is pushed to full and popped to empty across the wrap.

**Bounds of stage 2.** Tables hold one to four entries, so that each is full within a
few calls, and each is met empty, full, and with a slot used again: two shell variables,
one function, one event, two mounts and two descriptors, two circuits and one stream,
two registered drivers, up to three controllers. A table of pages has three entries and memory
less than twenty pages, so that walks cross tables and allocation fails at every level.
The power comes on three times (`SB_BOOTS`), enough for a save, a loss at any step of the
next, and a restore. Numbers have six or eight bits (`TxBits`, `AwBits`), enough for a product that
overflows and a quotient of the least number; loops of awk run up to three rounds, and
`AwFuel` is more than any program here needs, so a run that uses it up is endless.
The line editor has room for three characters and the terminator (`FL_MAX` is 4) and a kill ring of two,
so that a kill is cut and the line fills. Calls are bounded by `SD_CALLS`,
`SI_CALLS`, `SV_CALLS`, `TP_CALLS`, `SL_PN`, `SL_NONCES`, `TR_LOW`, `JN_MAX_CALLS`; each
allows to fill the largest table of its part and use one slot again.

Exploration of `kernel_memory`, `guards_and_files` and `kernel_devices` stops (CONSTRAINT)
in states in which the code has already left defined behaviour: a merged block over
foreign memory (the subject of `heap_coalesce`), a node freed under a user (`NotStale`), an
overrun key ring (`Sound`); where a pipe found room for one of its two nodes only
(`WholePipes`: that node is lost, and the rest is a heap of one node less); and where two pushes have overlapped (`Apart`), of which
`RingIsFifoApart` says nothing and `ring_two_producers` everything. The same is a flag of the state in stage 2 (`fl_overrun`, the `hang` frame of
`SFish`, `ks_hung`): no step follows it. The views leave out the contents of free pages
and of ring places that are written before they are read.

**Fairness.** `KernelFairness` is weak fairness of the timer interrupt and of the
kernel's own steps: the PIT is programmed to repeat and the processor executes.
`CooperativeSpec` adds that a ring 3 process sooner or later exits, sleeps or yields, an
assumption about programs; `process_preemption` shows that it is needed.
`GuardFairSpec` (`NGFairness`) is weak fairness of the wiper and of the return of a thread whose loop
ended: under it a ring drains when every thread has a core, and `netguard_starves` shows
that it does not with the one core `netguard_start` uses. All other runs check safety.

## 4. Proofs

All from the assumptions on the constants in the modules, which only say that sizes are
natural numbers (positive where the code divides by them) and that sets of names, data
and addresses do not contain the value that stands for none. Every theorem is about the
specification its run explores, at every size.

* `KProcessProofs`: `TypeCorrect`, `OneRunning`, `EoiNeverLost`, `SleepersHaveWakeTime`
  (that sleepers do wake is `EveryoneRuns`, model-checked) for every table size, interval and set of sleeps. `ExactlyOneRunning` is not
  inductive: `process_scheduler` returns to its caller when nobody is READY, and then
  a zombie would go on. The strengthening `RunInv` says that init is READY whenever
  another process runs (init makes no syscalls, it is only preempted), so that
  return never happens after exit or sleep. `BootInv` and `WaitInv` describe the
  states before the first switch and inside `sys_wait`; `SchedulerSwitches` and
  `SchedulerKeepsEoi` say once what a call of the scheduler does.
* `KMemoryProofs`, the page manager: `TypeCorrect`, `CounterExact` (`UsedExact`),
  `NoPageTwice` (`HandedOutOnce`) for every memory map. `IndInv` adds `ReservedStays`:
  pages reserved by `pmm_init` stay set and belong to no caller. The counter needs
  cardinalities: `RunSize` and `FreeCounts`.
* `KMemoryProofs`, heap, slabs and address spaces on one page manager, for every number
  of processes, table size, header size, split limit and list of slab classes.
  `MemoryInvHolds` is the inductive invariant; `PagesOwnedOnce` (`OwnedOnce`),
  `SharedPagesSound` (`UsedExact`, `HandedOutOnce`), `ObjectsStayDisjoint`
  (`ObjectsDisjoint`), `KernelPagesStayPrivate` and the action property
  `ExitReturnsTheUserHalf` (`ExitReturnsUserHalf`) follow. The last one speaks of all calls,
  `mmap` with any hint included: exit gives back the pages and tables below the user half's
  entries and the top table, and nothing else; pages a hint has put behind them stay taken.
  * `SpaceInv` says that each address space is a tree of held single pages: no page
    hangs from two entries or two processes. A syscall loops over pages and stops when
    memory runs out, so each loop, a recursive function of the number of rounds, is shown
    to preserve `Keeps`: one space may grow or shrink, all other runs stay held and all
    other tables stay as they are. `FreeLeaves` and `FreeTable` are shown to give back
    exactly the leaves and the tables, which is what exit needs.
  * `HeapInv` says that blocks, slots of slabs and objects are apart and lie in runs of
    `Spare`, those no address space refers to. Split and merge are one lemma (`Recut`):
    they cut the same units differently. It is claimed until `kfree` has merged two
    blocks that are not neighbours (`crossed`), which the code really does
    (`heap_coalesce`); the theorems carry the same condition as the invariants of the run.
  * `fork` is not a step of `MemorySpec`: it shares tables (`fork_clone`), so that
    `OwnedOnce` is false after it.
* `KFilesProofs`: `ContentsKept` (`FileContents`), `EveryFileReachable`
  (`FilesReachable`), `NoEntryLost` (`NoFdLeak`), for every number of nodes, descriptors
  and processes. A file stays the first child of its name only because nodes in `/tmp`
  are allocated and there once (`TreeOK`). `NoFdLeak` needs counting: entries in use are
  at most the slots that are not free, so the second allocation of `sys_pipe` cannot
  fail after the first has succeeded, and no failure leaves an entry behind.
* `KConsoleProofs`: `KeysInOrder` (`RingIsQueue`), `EditorCorrect` (`LineEditorSound`),
  `TypeCorrect`, from `QueueInv` (the places between tail and head are the ideal queue,
  also between the two steps of `getchar`), `LineInv` and `HistoryInv`; `ScreenCorrect`
  (`ScreenShowsNewest`) for every width, height and tab stop; `KmsgTypeCorrect` and
  `DmesgCorrect` (`DmesgShowsNewest`) from `KmsgRingInv`: entry `i` of the ring is
  message `i` of the log modulo the size. `IoTypeCorrect` (`IoTypeOK`) joins them in the
  specification of the run (`PartsTogether`).
* `KConsoleProofs`, shell: `ShellCorrect` (`ShellSound`) for every set of paths and command
  lines. `ShellInv` says that the current directory is a list of plain names, not too many
  (no `.` and no `..` are left in it), and that `/tmp` is a list of nodes. A path's names and a walk along it are compared round by round: as long as the
  walk has not failed, the names reduced so far are where it stands. That `head` and
  `tail` share out a file is a lemma on the ends of lines (`KsLineEnd`): they are
  counted, so line k is found by the number of ends up to it.
* `NetworkProofs`, kernel: `TypeCorrect`, `FramesInOrder` (`RxInOrder`) for every ring size,
  `LookupNewest` (`ArpNewest`) for every cache size and set of hosts, and
  `DatagramsReachTheirPort` (`SocketData`). `RxInOrder` needs to know that the tail
  register stops the card before it laps the driver (`RxInv`); `ArpNewest` that an entry
  without an address is not valid (`ArpInv`); `SocketData` that a socket's buffer is
  emptied before the slot is used again (`SocketInv`). `StepCases` reduces all actions to
  what they do to rings and cache.
* `NetworkProofs`, firewalls: `VerdictByPriority` (`FilterVerdict`), for every array of rules that
  calls can build; `ConnectionsCounted` (`ConnCountExact`), from the invariant that
  `seen` lists exactly the entries in use, and `SynGetsEntry`, that the failure branch
  behind `create_connection` is dead code; `BlocksHold` (`BlockHolds`);
  `RingImplementsFifoApart`, the refinement of `NGFifo` by `NGRing` for every ring size and
  every set of producers, up to the first step in which two calls of `ring_push` overlap
  (`overlapped`); nothing in the code prevents that step, and behind it the refinement is false
  (`ring_two_producers`); `OnlyGuiltyBlacklisted` (`OnlyGuiltyFlows`).
* `Stage2Proofs`, boot: `SnapshotIsSaved` (`SnapshotSound`) for every kernel, disk and number
  of power cycles. The invariant `BootInv` says that a header on the disk carries the
  checksum of an image that was saved whole, wherever the power failed, and that between
  a restore and the jump nothing writes to where the kernel lies.
* `Stage2Proofs`, Tor: `TorTablesSound` (`TorClient`) for every table size. Circuit numbers
  repeat only if the counter is set back; `TorInv` says that a slot once taken stays
  taken, so that the counter's low part is the number of slots in use, after every reset.
* `Stage2Proofs`, Wi-Fi: `DriverFitsDevice` (`DriverServesDevice`) for every set of
  controllers, drivers and identities the drivers declare. `WifiInv` says that a driver
  that is attached serves some controller of the machine (`Attached`), that after a search
  it is the one found (`FoundIsServed`), and that frames are held back only at a
  controller of Marvell's (`OnTheAir`). Two controllers that drivers are for share a base
  address only if they are the same (`WifiAssumption`), which firmware sees to.
* `Stage2Proofs`, memory: `PagesHaveOneOwner` (`PageOwners`) for every memory map with at
  least four pages, table size, number of gigabytes mapped and volume, on the assumption
  that the tables the boot leaves in pages 1 to 3 are in a region that is always reserved.
  `PageOwners` says nothing of a call that has taken one page of two: so each helper, from
  `vmm_alloc_table` to `brainfs_fat_free_chain`, is shown to keep `OwnersApart` or
  `WindowApart` by itself, also where it finds no page, and loops (`vmm_init`,
  `brainfs_umount`, the memory map) by `RoundsUnfold`. `MemInv` adds that runs of pages
  held by callers are distinct (`HeldApart`).
* `Stage2Proofs`, cluster window: `WindowMatchesTables` (`WindowAgrees`) for every
  size of a table, memory map and volume. `WindowAssumption` places the window under a
  top entry of its own, neither the kernel's nor that of the identity mapping, large enough
  for all clusters; no other caller maps an address of it. The tables are a tree (`Tree`):
  no table hangs from two entries. A walk that creates tables then shows nothing new (`Extends`), and an entry written for one address is seen at no
  other (`LeafWritten`). `WindowInv` joins this with `OwnersApart`: a table taken from the
  page manager is no page the window shows. `BootTree` and `WindowEmpty` say that what the
  boot leaves is such a tree, and that `vmm_init` maps nothing in the window.
* `Stage2IoProofs`, ATA: `SectorsHoldWrites` (`SectorsKept`) for every set of drives and
  size of the registers. `TapeInv` says that the table lists each drive once at the place
  it was found, and that disks and reads agree with what callers asked for until a number
  has left the registers (`tp_far`); `Select` before each transfer makes the drive that
  answers the one in the table. That an LBA28 drive puts a number together again is a
  lemma on quotients (`LowSectors`). Sectors from 2^24 on are lost (section 7).
* `Stage2IoProofs`, BrainVFS: `HandlesAndTablesKept` (`FilesKept`) for every number of
  mounts and descriptors. `VfsInv` counts: descriptors in use are as many as the counter
  says, so a handle a file system answers with, which none of them has, is free. It is
  claimed while mounts are removed from the last on, as the property is. `TableInv` says that
  entry c of width w lies at bit w*c at each of the nine widths, also the 12 bit ones that
  share a byte.
* `Stage2IoProofs`, links: `LinksKeepKeys` (`LinkKeys`) for every order of messages, frames
  and keys set by hand. `LinkInv` says that an SAE handshake never leaves COMPLETED
  (`SaeStep`), that packet numbers used are below the counter of their key, and that a
  nonce carries the index it was drawn with.

* `Stage2IoProofs`, fish: `FishCorrect` (`FishSound`) for every size of the buffers and
  tables and every set of commands, files and lines. The editor (`LineInv`): the text
  fits its buffer with the terminator, the cursor is in it, what was killed is a line or
  nothing (`TextInv`), and so are the entries of the history (`PastInv`). Every key that
  replaces the line needs that what it takes from the history, the search or the
  completion was typed or is a name. The session (`SessInv`): `PromptClean` is not
  inductive, because the name of the current function is put back by the frame that
  replaced it, however deep. `StackOK` says what each frame of `fs_stack` holds for the one below: the
  lowest is `fish_run`'s and restores no name; the name a frame found is the one its
  caller found, unless the caller is a function's. `TablesOK` and `PlaceOK` say that the
  tables and the directory stack do not exceed their sizes.
* `IdentProofs`, streams: `StreamsComeBack` for every length of blocks and calls.
  `StreamInv` gives each byte sent a place, the number of a block and an offset, no two
  the same, in blocks the counter has passed (`Placed`): it stands for the calls in which a block was
  left in the middle. `GotInv` cuts what was sent into what has arrived and the pieces on
  the way, each with the counter the receiver will have (`Cut`).
* `IdentProofs`, disks: `DiskIdentitiesLeadBack` for every set of disks, partitions and
  strings. `TablesInv` has one predicate for each table: what an entry shows is made of the
  real value under the key and no other entry of the disk shows it. `DiskStateInv` says of
  the randomizer that entry i was derived with index i under the current key, also after a
  rotation, of the fingerprint that both values come from the counter, and of the LUKS
  header that the magic that was kept is the one that was there. Each scrambling is undone
  round by round (`FeistelUndone`). Of keys it is
  only assumed that they have a length (`SDKeys`): serials, labels, models and signatures of
  two disks may then be shown equal, the code answers with the first entry, and so does the
  property: an entry leads back unless one before it looks the same (`SdUnmistaken`,
  `SdAlone`). Uuids come from AES, which is ideal (`SDIdealCipher`): a collision of 128 bits is
  left out. `SDNames` says that the names of the spoof table differ.
* `IdentProofs`, addresses: `WireAddressesLeadBack`. `RandomInv` says where in the history
  each MAC that was given lies: every rotation enters it twice, so that the MAC given
  k rotations ago is 2k places from the end, and `NoQuickReuse` follows for half the
  length of the history. `MaskInv` says that the masked address is the hardware address
  under the key and the bits in use. `IpInv` says that, while the table has room, the history
  holds the fake address of every mapping, so that a new one is none of them
  (`FakesKnown`, until an onion enters fakes that no mapping has), and that the fakes in
  use lead to the real addresses until a mapping was refused for lack of room (`lost`). `SIRandomEnough` (more random
  addresses than places in the history) and `SIAddresses` (two places in the history for
  each mapping, as 64 and 32 are) are what lets a search for a new one end.
* `IdentProofs`: `SecretsCorrect` (`SecretsSound`) is streams and addresses together.

Only model-checked:

* liveness (`EveryoneRuns`, `RingDrains`), which is outside the prover's reach;
* `ToolsSound`: that the text tools, fish's parsing, awk, the auditor's search, the digests and the
  encodings of queries agree with definitions that do not use the code's loops. The
  modules of awk and of fish's parsing use RECURSIVE operators, for which the prover has no
  backend; the others compare two definitions for every input, by induction over texts and
  with operators as parameters (`FoldLeft`, `ToString`). Where a loop only has to preserve
  something, the induction can be done: the numbers of rounds after which it fails have a
  least element, which is not 0 and not the successor of one where it holds
  (`RoundsUnfold`, `SmallestOf`). This is how paths, memory maps, completions and histories are treated here.

## 5. Plan

1. (done) kernel: process table, memory, files, console, log, network.
2. (done) firewalls and NetGuard with its ring refining a queue.
3. (done) stage 2: memory, storage, boot chain, shells, Wi-Fi, cryptography, Tor, links,
   identities, auditor.
4. (done) proofs about the kernel and the network side: every safety property of their
   runs.
5. (done) proofs about stage 2: snapshot, circuits, Wi-Fi interface, owners of pages,
   cluster window, sectors, descriptors and allocation tables, keys of links, the kill ring
   and the prompt of fish, streams, disk identities and addresses. Left of `stage2`:
   `ToolsSound`, of which the search of `SJohn` is the part nearest to a proof.
6. Open for models: the application layer firewall, the commands of fish that print what
   other modules hold, the mistakes of section 7 that are not yet runs.

## 6. Not modelled, and why

* File cache, xHCI, USB storage and NVMe: the kernel calls only their initialisation;
  no sector is ever cached and no command put into a ring, so their protocols have no
  behaviour in this program.
* Kernel ATA and PCI access, device nodes, GDT/TSS/IDT set-up, ELF loading, kernel
  start, stage 1, pre-init, ring 0 initialisation: executed once, port writes and encoding
  of descriptors. What they leave behind is the Init of the modules.
* Application layer firewall: its rule patterns always have length 0, so no rule
  matches; the parsers of HTTP, DNS and TLS text in front of it are left out.
* Stage 2 NIC, mouse, floppy: port I/O; the NIC's memory BAR is used as a port.
* Panic handling: nobody calls `panic`; `panic_catch` writes a dump into a ring that the
  reboot loses.
* Old shell and nano: the shell has no caller, nano never receives the keys that
  save or leave.
* GUI, VGA, demo stages (generated), mode libraries and host tools.
* Arithmetic of ciphers, curves and long hashes: abstract (`SCipher`, `SLink`), so what
  they compute is out of reach; only how the code cuts, counts and chains is modelled.

## 7. Known deviations that are no run

Met while modelling; the models contain them as the code does, or exclude the inputs
that lead to them (the modules say which).


### Kernel

* Processes: only `sys_wait` of the parent frees a slot, so orphans stay zombies
  (`syscall.c:398`); fork copies `saved_rsp` (`process.c:364`), so that the child resumes where
  the parent was left the last time, on the parent's kernel stack, and not behind its own fork; every syscall starts at the top of one shared stack
  (`isr.asm:170`).
* Memory: `sys_brk` advances the break over pages it could not map (`syscall.c:445`);
  `sys_mmap` does not check its hint (`syscall.c:459-499`), and what it maps behind the user
  half is never freed, because exit visits entries 0 to 255 only (`process.c:69`);
  `vmm_init`'s identity mapping is not the one its comment describes.
* Files: `process_create` clears the descriptor table to 0, not to -1
  (`process.c:275`); fork copies descriptors without counting users; unlink frees a
  node that is open (`vfs.c:530`); `>>` truncates; `mv a a` destroys the file;
  `write /tmp x` stores text in the directory's node; names longer than 63 are split
  and path components beyond 32 dropped; `sys_chdir` stores the path as typed.
* Console: the keyboard handler has no test for a full ring (`keyboard.c:109`); the
  down key with no history; `ls` never lists children; `tail` counts only `'\n'`; a
  second `|` is not handled; `cat` of a character device never returns; neofetch's
  0xDB blocks are never drawn.
* Network: any echo reply counts for the request waited for (`net.c:341`).
* Storage drivers: LBA28 registers are one off (the count goes to the features
  register); nobody marks a cache entry dirty; `nvme_reset` and `xhci_reset` are never
  called, the latter would wait for the run bit to clear by itself, and the cycle bits
  of its rings never change.

### Firewalls and network card of stage 2

* `halfopen_count` never falls (`fw_gen2_stateful.c:248`); default rules carry action
  numbers of another enumeration, so that "Drop all other inbound" allows; the scanner and
  the hunter push on NetGuard's ring without a lock (run `ring_two_producers`).
* Application layer: `pattern_len` stays 0, so no rule matches; packets are counted
  twice; Content-Length wraps; responses are never inspected; body lines are read as
  headers; the TLS parser is one byte off behind the compression methods.
* The card's RDT is set to the slot read next, send never looks at the slot, and a
  memory BAR is used as a port.

### Shells and text tools

* fish: `fish_normalize_path` never returns, so `cd`, `pushd` and `realpath` hang
  (`fish_shell.c:1758`); `*` never matches; relative patterns are searched in the root
  directory; only the first redirection counts, and its operator and file stay in the
  command except for `2>`; bars inside quotes split; `echo -` prints only a newline;
  the least integer divided by -1 stops the processor and is printed with characters
  below `0`; a printf format that ends in `%` is read past its end.
* awk, fields and patterns: `FS = " "` splits at every blank; a regular expression as
  FS skips one character; `a*` and `a?` mean `a`, `a+` and `$` at the end of the text
  never match, groups and `|` never match; expression patterns always match; a
  trailing newline gives an empty record.
* awk, programs: newline does not end a print; a print without arguments prints an
  empty line; `printf` is parsed as print; loop bodies without braces are dropped, an
  unbraced `if` loses its else; `x == 1` as a statement assigns; assigning FS or NR has
  no effect; `break` outside a loop stays set; `next` does not leave a loop, and on the
  last record END runs only its first statement; `BEGIN {print $0}` shows the previous
  run's record; two operands are compared as strings only if both are strings, against
  the comment; the node pools wrap after 16 to 64 nodes.
* GNU tools: grep searches past the end of the line, `sort -r` changes nothing,
  `sed s///g` replaces once and finds its pattern in any case, `uniq -c` omits the last run's
  count, `tail` cannot be reached. `uniq` writes lines without looking at the size of its
  output and keeps the full length of a line it has cut at 255 (`gnu_tools.c:467`, `480`), so
  that a longer one is compared and written past its array; `diff` splits lines at 255
  (`gnu_tools.c:664`) and compares the pieces.
* Old shell and nano: nano's key codes are negative where it compares positive ones, so
  it never saves or leaves, and it has no file system to load from; the shell keeps the
  first 32 history lines.

### Cryptography, links and Tor

* Streaming SHA-256 counts the length twice and `sec_sha256_final` hashes an unfilled
  buffer (HMAC and HKDF inherit it); the auditor's MD4, MD5, SHA-1 and SHA-256 place
  leftover bytes wrongly; SHA-512 hashes stale bytes and has 79 constants; SHA-1's
  padding is wrong from 56 bytes on; `pbkdf2_sha1` uses SHA-256; Keccak's chi covers the
  first row; a generator state of 0 stays 0.
* GCM's tag mask is its first keystream block, and above 4096 bytes its buffer is NULL;
  `poly1305_mac` leaves half its key uninitialised; AEAD, CCMP and GCMP decryption
  ignore the tag; `curve25519` does not depend on the scalar.
* WPA: nobody sets the associated state; the SAE handshake sends a bare header, and its
  confirm compares from a different offset than it writes; a failed handshake cannot be
  repeated without init.
* DNS: prepending the IV moves the first 12 bytes behind the tag, so that the peer cannot
  decrypt; DoT counts any frame as connected and keeps the old connection for a new
  server; DNSCrypt's derivation writes 64 bytes into its query key; labels over 63 are
  split; ports wrap at 16 bits.
* Tor: relay flags are never set, so that bootstrap fails at its first poll, which
  `main.c` reports as established because FAILED is greater than the phase it tests;
  nobody sets ESTABLISHED, so that no stream opens; a cell is encrypted twice with the
  first hop's key; `tor_stream_close(0)` leaks an unused slot; connections of SOCKS share
  stream 0; slots of destroyed circuits are never freed.
* john: the last string of the greatest length is never tested, because the overflow is
  reported before it is compared (`john_brute.c:93`); the word index is not
  rewound between searches; a target of length 0 matches any word; `stop_flag` is never
  read; bcrypt of an empty password divides by 0.

### Disks, identities and storage

* LUKS hiding tests the header the wrong way round; SMART values are swapped before the
  next byte is written; the inquiry and the GPT decryption do not undo their
  counterparts; fingerprints lose their version bits; a hidden byte 0 cuts a label;
  the serials, labels, models or signatures of two disks can be shown equal, and the lookup
  answers with the first (`disk_model_spoof.c:118`). Nothing calls `dp_*`.
* `mac_clone_scan` looks for the opcode at the wrong offset and finds nothing;
  `oui_spoof_apply` before select sets a zero address; changing the preserve mask between
  mask and unmask breaks the unmask; the map of `anti_ip` is never freed and its two
  histories share one count.
* BrainVFS: removing a mount that is not the last loses the last one; operations stay in
  a slot used again; mounts match by characters and equal depth lets the later win; seek
  is not passed on; both callers pass no operations, so that no file opens for reading.
  FAT8's end mark is its bad mark. The root of BrainFS is never set, so that
  `dir_find` always fails.
* ATA: the high bytes of LBA48 go one register too low, so sectors from 2^24 reach
  another place; ATAPI drives are never detected. encfs encrypts every sector of a
  transfer under the first sector's nonce and has a keystream of 64 bytes.
* Boot: stage 4 is entered even if its load failed; stage 5 loads over stage 3 and VGA
  memory; stage 1 truncates the kernel's segment; a `boot.cfg` of 4096 bytes is overrun;
  a restored snapshot may be stale; `encfs_mount` leaves `mounted` set on failure;
  `kbd_readline` pushes the newline to the back of its ring; `panic_catch` writes
  about 510 characters into 384.
* Wi-Fi: nobody registers a driver in the shipped program; `wifi_select_driver` needs the
  one default identity; the scan request of iwl has length 0; Marvell writes the command
  before its arguments; `deauth` tells nobody.
