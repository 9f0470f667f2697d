------------------------------- MODULE KFiles -------------------------------
(***************************************************************************)
(* Files of the kernel: the in-memory file system on /tmp and the global   *)
(* descriptor table (kernel/vfs.c), the file system calls                  *)
(* (kernel/syscall.c) and the file commands and output redirection of the  *)
(* shell (kernel/shell.c), which is process 0 and calls the VFS directly.  *)
(*                                                                         *)
(* Only /tmp can create, remove or change nodes; /dev, /proc and the root  *)
(* answer -1 or have no state.  Paths are names in /tmp.  A node is an     *)
(* allocated vfs_node_t; buf is its data buffer, <<>> when impl_data is 0. *)
(* The two ends of a pipe are nodes outside the tree that share a buffer   *)
(* but not a length: what the write end gets, the read end (length 0) does *)
(* not see, so the buffer's contents are left out.  Every VFS call is one  *)
(* step; a file is written one byte at a time.                             *)
(*                                                                         *)
(* History variables: content[n] is what the file n should contain; stale  *)
(* records that a node or a pipe's buffer was freed while a descriptor or  *)
(* the redirection still used it.                                          *)
(***************************************************************************)
EXTENDS Integers, Sequences, FiniteSets, SequencesExt

CONSTANTS MAX_PROCESSES,
          VFS_MAX_FDS,       \* descriptors of a process
          STDIO,             \* descriptors below are the console
          VFS_MAX_CHILDREN,
          PAGE_SIZE,         \* data buffers grow by pages
          Names,             \* file names used in /tmp
          Data,              \* bytes written
          MaxNodes,          \* bound on the nodes the heap can hold
          MaxLength,         \* bound on the offset of a write
          MaxMoved           \* bound of the exploration only: see FewMoved

ASSUME FilesAssumption ==
  /\ MAX_PROCESSES \in Nat \ {0}
  /\ VFS_MAX_FDS \in Nat \ {0} /\ STDIO \in Nat
  /\ VFS_MAX_CHILDREN \in Nat /\ PAGE_SIZE \in Nat \ {0}
  /\ MaxNodes \in Nat /\ MaxLength \in Nat

Proc == 0 .. MAX_PROCESSES - 1
Slot == 0 .. VFS_MAX_FDS - 1
Fd   == 0 .. MAX_PROCESSES * VFS_MAX_FDS - 1
Id   == 1 .. MaxNodes

VARIABLES nodes,            \* vfs_node_t by identity
          tmp,              \* children of /tmp: [name, node]
          global_fd_table,
          fd_table,         \* of each process
          alive,            \* processes in use
          redir_file,       \* the shell's redir_file_node and its offset
          content, stale

filesVars == <<nodes, tmp, global_fd_table, fd_table, alive, redir_file, content, stale>>

NoNode  == [live |-> FALSE, type |-> "none", append |-> FALSE, buf |-> <<>>, length |-> 0]
Unused  == [in_use |-> FALSE, node |-> 0, offset |-> 0]
NoRedir == [node |-> 0, offset |-> 0]
Zeros(n) == [i \in 1 .. n |-> 0]

\* vfs_init, process_init, and process_create of the first process, which
\* clears its descriptors to 0.
FilesInit ==
  /\ nodes = [n \in Id |-> NoNode]
  /\ tmp = <<>>
  /\ global_fd_table = [f \in Fd |-> Unused]
  /\ fd_table = [p \in Proc |-> [s \in Slot |-> IF p = 0 THEN 0 ELSE -1]]
  /\ alive = {0}
  /\ redir_file = NoRedir
  /\ content = [n \in Id |-> <<>>]
  /\ stale = FALSE

-----------------------------------------------------------------------------
(* Nodes.  w = [nodes, tmp, content] is the file system a call works on.    *)
Files == [nodes |-> nodes, tmp |-> tmp, content |-> content]
Store(w) == nodes' = w.nodes /\ tmp' = w.tmp /\ content' = w.content

\* vfs_find_child: the first child of that name, or 0.
Lookup(w, name) ==
  LET hits == {i \in DOMAIN w.tmp : w.tmp[i].name = name}
  IN  IF hits = {} THEN 0 ELSE w.tmp[CHOOSE i \in hits : \A j \in hits : i <= j].node

\* vfs_new_node: the first free place of the heap, or 0.
NewId(w) == LET free == {n \in Id : ~w.nodes[n].live}
            IN  IF free = {} THEN 0 ELSE CHOOSE n \in free : \A k \in free : n <= k

\* What the heap does to a create: no node, a node without data, or both.
Luck == {"none", "no data", "both"}

\* It matters only to a call that creates a file.
LuckFor(name, creat) == IF creat /\ Lookup(Files, name) = 0 THEN Luck ELSE {"none"}

\* tmpfs_create_node: with a cleared page for a file.
tmpfs_create_node(w, type, luck) ==
  LET n == NewId(w)
  IN  IF luck = "none" \/ n = 0 THEN w
      ELSE [w EXCEPT !.nodes[n] = [live |-> TRUE, type |-> type, append |-> FALSE, length |-> 0,
                                   buf |-> IF type = "file" /\ luck = "both" THEN Zeros(PAGE_SIZE)
                                           ELSE <<>>],
                     !.content[n] = <<>>]

\* Mutant: a new child becomes the first one.
vfs_attach_child_front(list, c) == <<c>> \o list

\* vfs_attach_child: a new child becomes the last one.
vfs_attach_child(list, c) == Append(list, c)

\* tmpfs_create and tmpfs_mkdir: a node that does not fit in /tmp is lost.
tmpfs_create(w, name, type, luck) ==
  LET n == NewId(w)
      v == tmpfs_create_node(w, type, luck)
  IN  IF v = w \/ Len(w.tmp) >= VFS_MAX_CHILDREN THEN v
      ELSE [v EXCEPT !.tmp = vfs_attach_child(@, [name |-> name, node |-> n])]

\* vfs_open: creates the file if asked to and stores the flags in the node.
\* O_TRUNC has no effect.
vfs_open(w, name, creat, append, luck) ==
  LET v == IF Lookup(w, name) = 0 /\ creat THEN tmpfs_create(w, name, "file", luck) ELSE w
      n == Lookup(v, name)
  IN  IF n = 0 THEN v ELSE [v EXCEPT !.nodes[n].append = append]

PageUp(n) == ((n + PAGE_SIZE - 1) \div PAGE_SIZE) * PAGE_SIZE

\* Mutant: a buffer that grows is not copied.
Grown_empty(node, needed) == Zeros(PageUp(needed))

\* tmpfs_write, growing: a cleared buffer with the old contents.
Grown(node, needed) ==
  SubSeq(node.buf, 1, node.length) \o Zeros(PageUp(needed) - node.length)

\* vfs_write of one byte at off.  Files without data and other nodes ignore
\* it.
vfs_write(w, n, off, b) ==
  LET node == w.nodes[n]
      buf  == IF off + 1 > node.length THEN Grown(node, off + 1) ELSE node.buf
  IN  IF node.type # "file" \/ node.buf = <<>> THEN w
      ELSE [w EXCEPT !.nodes[n].buf = [buf EXCEPT ![off + 1] = b],
                     !.nodes[n].length = IF off + 1 > node.length THEN off + 1 ELSE @,
                     !.content[n] = [i \in 1 .. (IF off + 1 > Len(@) THEN off + 1 ELSE Len(@)) |->
                                       IF i = off + 1 THEN b
                                       ELSE IF i <= Len(@) THEN @[i] ELSE 0]]

-----------------------------------------------------------------------------
(* Descriptors *)
FreeFds   == {f \in Fd : ~global_fd_table[f].in_use}
FreeSlots(p) == {s \in Slot : fd_table[p][s] = -1}
Least(S)  == CHOOSE x \in S : \A y \in S : x <= y
Entry(n, off) == [in_use |-> TRUE, node |-> n, offset |-> off]

\* A successful use of descriptor s of p: its entry.
Use(p, s) == /\ p \in alive /\ s >= STDIO /\ fd_table[p][s] >= 0
             /\ global_fd_table[fd_table[p][s]].in_use

\* sys_open: the file is opened (and created) before a slot is looked for.
sys_open(p, name, creat, append, luck) ==
  LET w == vfs_open(Files, name, creat, append, luck)
      n == Lookup(w, name)
  IN /\ p \in alive
     /\ Store(w)
     /\ \/ /\ n = 0 \/ FreeSlots(p) = {} \/ FreeFds = {}
           /\ UNCHANGED <<global_fd_table, fd_table>>
        \/ /\ n # 0 /\ FreeSlots(p) # {} /\ FreeFds # {}
           /\ global_fd_table' = [global_fd_table EXCEPT ![Least(FreeFds)] = Entry(n, 0)]
           /\ fd_table' = [fd_table EXCEPT ![p][Least(FreeSlots(p))] = Least(FreeFds)]
     /\ UNCHANGED <<alive, redir_file, stale>>

\* sys_close: the slot is cleared whatever vfs_fd_close finds.
sys_close(p, s) ==
  /\ p \in alive /\ fd_table[p][s] >= 0
  /\ global_fd_table' = [global_fd_table EXCEPT ![fd_table[p][s]] = Unused]
  /\ fd_table' = [fd_table EXCEPT ![p][s] = -1]
  /\ UNCHANGED <<nodes, tmp, alive, redir_file, content, stale>>

\* vfs_read of one byte: how many bytes there are at off.
vfs_read(n, off) == IF nodes[n].buf # <<>> /\ off < nodes[n].length THEN 1 ELSE 0

\* sys_read of one byte: the offset moves by what was read.
sys_read(p, s) ==
  LET f == fd_table[p][s]
      e == global_fd_table[f]
  IN /\ Use(p, s)
     /\ vfs_read(e.node, e.offset) > 0
     /\ global_fd_table' = [global_fd_table EXCEPT ![f].offset = @ + vfs_read(e.node, e.offset)]
     /\ UNCHANGED <<nodes, tmp, fd_table, alive, redir_file, content, stale>>

\* sys_write of one byte, at the end if the node was last opened O_APPEND.
\* The write end of a pipe is longer than any write here; the first write to
\* its read end replaces the shared buffer and frees it.  A write for which the
\* heap has no buffer, and one to another node, returns without effect.
sys_write(p, s, b) ==
  LET f == fd_table[p][s]
      e == global_fd_table[f]
      n == nodes[e.node]
      off == IF n.append THEN n.length ELSE e.offset
  IN /\ Use(p, s)
     /\ n.type \in {"pipe_r", "pipe_w"} \/ (n.type = "file" /\ n.buf # <<>>)
     /\ off < MaxLength
     /\ Store(vfs_write(Files, e.node, off, b))
     /\ global_fd_table' = [global_fd_table EXCEPT ![f].offset = off + 1]
     /\ stale' = (stale \/ n.type = "pipe_r")
     /\ UNCHANGED <<fd_table, alive, redir_file>>

\* Mutant: the new entry is taken before a slot is looked for.
sys_dup_alloc_first(p, s) ==
  LET f == fd_table[p][s]
  IN /\ p \in alive /\ f >= 0 /\ global_fd_table[f].in_use
     /\ FreeFds # {}
     /\ global_fd_table' = [global_fd_table EXCEPT ![Least(FreeFds)] =
                              Entry(global_fd_table[f].node, global_fd_table[f].offset)]
     /\ IF FreeSlots(p) = {} THEN UNCHANGED fd_table
        ELSE fd_table' = [fd_table EXCEPT ![p][Least(FreeSlots(p))] = Least(FreeFds)]
     /\ UNCHANGED <<nodes, tmp, alive, redir_file, content, stale>>

\* vfs_fd_dup: a second entry with the node and the offset of the first.
vfs_fd_dup(f) ==
  global_fd_table' = [global_fd_table EXCEPT ![Least(FreeFds)] = Entry(global_fd_table[f].node, global_fd_table[f].offset)]

\* sys_dup looks for a free slot first.
sys_dup(p, s) ==
  LET f == fd_table[p][s]
  IN /\ p \in alive /\ f >= 0 /\ global_fd_table[f].in_use
     /\ FreeSlots(p) # {} /\ FreeFds # {}
     /\ vfs_fd_dup(f)
     /\ fd_table' = [fd_table EXCEPT ![p][Least(FreeSlots(p))] = Least(FreeFds)]
     /\ UNCHANGED <<nodes, tmp, alive, redir_file, content, stale>>

\* sys_pipe: two nodes outside the tree, then two slots, then two entries.
\* What was taken before a step that fails is not given back.
sys_pipe(p) ==
  LET r  == NewId(Files)
      w1 == tmpfs_create_node(Files, "pipe_r", "both")
      n  == NewId(w1)
      w2 == tmpfs_create_node(w1, "pipe_w", "both")
      s1 == Least(FreeSlots(p))
      s2 == Least(FreeSlots(p) \ {s1})
      taken == {f \in FreeFds : Cardinality({g \in FreeFds : g < f}) < 2}
  IN /\ p \in alive
     /\ Store(w2)
     /\ \/ /\ n = 0 \/ Cardinality(FreeSlots(p)) < 2
           /\ UNCHANGED <<global_fd_table, fd_table>>
        \/ /\ n # 0 /\ Cardinality(FreeSlots(p)) >= 2
           /\ global_fd_table' = [f \in Fd |-> IF f \notin taken THEN global_fd_table[f]
                                               ELSE IF f = Least(taken) THEN Entry(r, 0)
                                               ELSE Entry(n, 0)]
           /\ fd_table' = IF Cardinality(taken) < 2 THEN fd_table
                          ELSE [fd_table EXCEPT ![p][s1] = Least(taken),
                                                ![p][s2] = Least(taken \ {Least(taken)})]
     /\ UNCHANGED <<alive, redir_file, stale>>

\* process_fork copies the table; entries have no count of their users.
process_fork(p, q) ==
  /\ p \in alive /\ q \in Proc \ alive
  /\ alive' = alive \cup {q}
  /\ fd_table' = [fd_table EXCEPT ![q] = fd_table[p]]
  /\ UNCHANGED <<nodes, tmp, global_fd_table, redir_file, content, stale>>

\* sys_exit closes every descriptor (and the parent's wait frees the slot).
sys_exit(p) ==
  /\ p \in alive \ {0}
  /\ global_fd_table' = [f \in Fd |-> IF \E s \in Slot : fd_table[p][s] = f THEN Unused
                                      ELSE global_fd_table[f]]
  /\ fd_table' = [fd_table EXCEPT ![p] = [s \in Slot |-> -1]]
  /\ alive' = alive \ {p}
  /\ UNCHANGED <<nodes, tmp, redir_file, content, stale>>

-----------------------------------------------------------------------------
(* The shell *)
Idle == redir_file.node = 0
Rest == UNCHANGED <<global_fd_table, fd_table, alive>>

\* cmd_touch: vfs_create is vfs_open with O_CREAT.
cmd_touch(name, luck) ==
  /\ Store(vfs_open(Files, name, TRUE, FALSE, luck))
  /\ UNCHANGED <<redir_file, stale>> /\ Rest

\* cmd_cat and the other readers open the file read only.
cmd_cat(name) ==
  /\ Store(vfs_open(Files, name, FALSE, FALSE, "none"))
  /\ UNCHANGED <<redir_file, stale>> /\ Rest

\* cmd_mkdir does not look for an existing name.
cmd_mkdir(name, luck) ==
  /\ Store(tmpfs_create(Files, name, "dir", luck))
  /\ UNCHANGED <<redir_file, stale>> /\ Rest

\* tmpfs_unlink of the i-th child: its data and the node are freed.
tmpfs_unlink(i) ==
  LET n == tmp[i].node IN
  Store([nodes |-> [nodes EXCEPT ![n] = NoNode], tmp |-> RemoveAt(tmp, i), content |-> [content EXCEPT ![n] = <<>>]])

\* cmd_rm: the first child of that name is freed at once.
cmd_rm(name) ==
  /\ \E i \in DOMAIN tmp :
       LET n == tmp[i].node
       IN /\ n = Lookup(Files, name)
          /\ tmpfs_unlink(i)
          /\ stale' = (stale \/ redir_file.node = n
                             \/ \E f \in Fd : global_fd_table[f].in_use
                                                /\ global_fd_table[f].node = n)
  /\ UNCHANGED redir_file /\ Rest

\* The open of cmd_write and of a redirection: when it fails the file is
\* created and opened again.
OpenRetry(w, name, append, luck) ==
  LET v == vfs_open(w, name, TRUE, append, luck)
  IN  IF Lookup(v, name) # 0 THEN v
      ELSE vfs_open(vfs_open(v, name, TRUE, FALSE, luck), name, FALSE, append, luck)

\* cmd_write: a text of one byte and a newline, from offset 0.
cmd_write(name, b, luck) ==
  LET w == OpenRetry(Files, name, FALSE, luck)
      n == Lookup(w, name)
  IN /\ Store(IF n = 0 THEN w ELSE vfs_write(vfs_write(w, n, 0, b), n, 1, b))
     /\ UNCHANGED <<redir_file, stale>> /\ Rest

\* process_command with > or >>: the output file is opened, each character the
\* command prints is written at the next offset, and the file is closed.  The
\* command itself may be any of the others.
redirect(name, append, luck) ==
  LET w == OpenRetry(Files, name, append, luck)
      n == Lookup(w, name)
  IN /\ Idle
     /\ Store(w)
     /\ redir_file' = IF n = 0 THEN NoRedir
                      ELSE [node |-> n, offset |-> IF append THEN w.nodes[n].length ELSE 0]
     /\ UNCHANGED stale /\ Rest

shell_redirect_writer(b) ==
  /\ ~Idle /\ redir_file.offset < MaxLength
  /\ Store(vfs_write(Files, redir_file.node, redir_file.offset, b))
  /\ redir_file' = [redir_file EXCEPT !.offset = @ + 1]
  /\ UNCHANGED stale /\ Rest

redirect_end ==
  /\ ~Idle
  /\ redir_file' = NoRedir
  /\ UNCHANGED <<nodes, tmp, content, stale>> /\ Rest

-----------------------------------------------------------------------------
Syscall(p) ==
  \/ \E name \in Names, creat, append \in BOOLEAN : \E luck \in LuckFor(name, creat) :
        sys_open(p, name, creat, append, luck)
  \/ \E s \in Slot : sys_close(p, s) \/ sys_read(p, s) \/ sys_dup(p, s)
  \/ \E s \in Slot, b \in Data : sys_write(p, s, b)
  \/ sys_pipe(p)
  \/ \E q \in Proc : process_fork(p, q)
  \/ sys_exit(p)

Shell ==
  \/ \E name \in Names : cmd_rm(name) \/ cmd_cat(name)
  \/ \E name \in Names, luck \in {"none", "both"} : cmd_mkdir(name, luck)
  \/ \E name \in Names : \E luck \in LuckFor(name, TRUE) :
        \/ cmd_touch(name, luck)
        \/ \E b \in Data : cmd_write(name, b, luck)
        \/ \E append \in BOOLEAN : redirect(name, append, luck)
  \/ \E b \in Data : shell_redirect_writer(b)
  \/ redirect_end

FilesNext == Shell \/ \E p \in Proc : Syscall(p)

FilesSpec == FilesInit /\ [][FilesNext]_filesVars

-----------------------------------------------------------------------------
FilesTypeOK ==
  /\ \A n \in Id : /\ nodes[n].type \in {"none", "file", "dir", "pipe_r", "pipe_w"}
                   /\ nodes[n].live \in BOOLEAN /\ nodes[n].append \in BOOLEAN
                   /\ nodes[n].length \in Nat
  /\ tmp \in Seq([name : Names, node : Id]) /\ Len(tmp) <= VFS_MAX_CHILDREN
  /\ global_fd_table \in [Fd -> [in_use : BOOLEAN, node : 0 .. MaxNodes,
                                offset : 0 .. MaxLength]]
  /\ fd_table \in [Proc -> [Slot -> Fd \cup {-1}]]
  /\ alive \subseteq Proc
  /\ redir_file \in [node : 0 .. MaxNodes, offset : Nat]

(***************************************************************************)
(* A file holds what was written to it: the first length bytes of its      *)
(* buffer are the ideal contents, with zeros where nothing was written,    *)
(* through every growth of the buffer in tmpfs_write and for writers with  *)
(* different offsets.                                                      *)
(***************************************************************************)
FileContents ==
  ~stale => \A n \in Id : nodes[n].live /\ nodes[n].buf # <<>> =>
    /\ nodes[n].length <= Len(nodes[n].buf)
    /\ SubSeq(nodes[n].buf, 1, nodes[n].length) = content[n]

(***************************************************************************)
(* mkdir accepts a name that exists, and the duplicates are told apart     *)
(* only by their order: a file is never hidden behind a directory of its   *)
(* name, so every file of /tmp can be opened.                              *)
(***************************************************************************)
FilesReachable ==
  \A i \in DOMAIN tmp : nodes[tmp[i].node].type = "file"
                          => Lookup(Files, tmp[i].name) = tmp[i].node

(***************************************************************************)
(* No entry of the global table is lost: each one in use has a descriptor  *)
(* of some process.  sys_pipe takes two entries and forgets the first if   *)
(* the second fails; that never happens, because the table has an entry    *)
(* for each slot of each process.                                          *)
(***************************************************************************)
NoFdLeak ==
  \A f \in Fd : global_fd_table[f].in_use => \E p \in alive, s \in Slot : fd_table[p][s] = f

-----------------------------------------------------------------------------
(* Bounds of the exploration, which no theorem uses: it stops where a node  *)
(* was freed under a user, where more descriptors than MaxMoved have left   *)
(* the start of their file, and where a pipe found room for its read end    *)
(* only: that node is lost, and what goes on has a heap of one node less.   *)
NotStale == ~stale
FewMoved == Cardinality({f \in Fd : global_fd_table[f].offset > 0}) <= MaxMoved
WholePipes == (\E n \in Id : nodes[n].type = "pipe_r") => \E n \in Id : nodes[n].type = "pipe_w"
=============================================================================
