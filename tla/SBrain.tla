------------------------------- MODULE SBrain -------------------------------
(***************************************************************************)
(* The file systems of stage 2: BrainVFS, which hands paths to mounts and  *)
(* keeps the descriptors, and the allocation tables of BrainFS, whose      *)
(* entries are 1 to 128 bits wide and packed in a sector.                  *)
(*                                                                         *)
(* A path is a sequence of characters.  A file system behind a mount may   *)
(* open and close handles; a mount made by brainvfs_mount has none behind  *)
(* it.  A sector is the set of its bits that are 1, bit j of byte b being  *)
(* 8 * b + j; a value is the set of its bits that are 1.                   *)
(***************************************************************************)
EXTENDS Integers, Sequences, FiniteSets

CONSTANTS SV_MOUNTS, SV_FDS,   \* BRAINVFS_MAX_MOUNTS, BRAINVFS_MAX_FDS
          SV_PATH_MAX,         \* room for the path a file system is given
          SV_MOUNT_PATHS, SV_PATHS, SV_BACKENDS,
          SV_OFFSETS,          \* seek offsets
          SV_SECTOR,           \* bytes of a sector
          SV_CLUSTERS,         \* table entries in use
          SV_CALLS             \* bound on calls

\* A file system has a number, which is not 0.
ASSUME SVAssumption ==
  /\ SV_MOUNTS \in Nat \ {0} /\ SV_FDS \in Nat /\ SV_PATH_MAX \in Nat /\ SV_SECTOR \in Nat
  /\ SV_MOUNT_PATHS \subseteq Seq(STRING) /\ SV_PATHS \subseteq Seq(STRING)
  /\ SV_BACKENDS \subseteq Nat \ {0} /\ SV_OFFSETS \subseteq Nat /\ SV_CLUSTERS \subseteq Nat

VARIABLES sv_mounts,   \* slots: active, mount_path, ops (0 for none)
          sv_count,    \* mount_count
          sv_fds,      \* in_use, id, read, write, mount_idx, fs_handle, position
          sv_fdcount, sv_next,
          sv_open,     \* handles open in the file systems: <<ops, handle>>
          sv_gap,      \* a mount other than the last was removed
          sv_fat,      \* width, sector, and the value put last in each entry
          sv_calls
svVars == <<sv_mounts, sv_count, sv_fds, sv_fdcount, sv_next, sv_open, sv_gap, sv_fat, sv_calls>>

LeastOf(S) == CHOOSE i \in S : \A j \in S : i <= j

----------------------------------------------------------------------------
(* BrainVFS *)

\* vfs_path_depth
vfs_path_depth(p) == Cardinality({i \in DOMAIN p : p[i] = "/"})
\* Characters are compared, not components.
SvStarts(p, m) == Len(m) <= Len(p) /\ SubSeq(p, 1, Len(m)) = m
\* vfs_get_mount: of the mounts the path starts with, one of the deepest, the last
\* of them; 0 when there is none.
vfs_get_mount(p) ==
  LET S == {i \in 1 .. sv_count : sv_mounts[i].active /\ SvStarts(p, sv_mounts[i].path)}
      D == {i \in S : \A j \in S : vfs_path_depth(sv_mounts[j].path) <= vfs_path_depth(sv_mounts[i].path)}
  IN  IF S = {} THEN 0 ELSE CHOOSE i \in D : \A j \in D : j <= i
\* vfs_resolve_path: the rest of the path, cut, without its leading slash.
vfs_resolve_path(p) ==
  LET rest == SubSeq(p, Len(sv_mounts[vfs_get_mount(p)].path) + 1, Len(p))
      cut == SubSeq(rest, 1, IF Len(rest) < SV_PATH_MAX THEN Len(rest) ELSE SV_PATH_MAX - 1)
  IN  IF cut # <<>> /\ cut[1] = "/" THEN Tail(cut) ELSE cut

\* vfs_mount: the slot after the last one counted, whatever it holds; without
\* operations those the slot had stay.
vfs_mount(path, ops) ==
  /\ sv_count < SV_MOUNTS
  /\ \A i \in 1 .. sv_count : sv_mounts[i].active => sv_mounts[i].path # path
  /\ sv_mounts' = [sv_mounts EXCEPT ![sv_count + 1] = [active |-> TRUE, path |-> path, ops |-> IF ops = 0 THEN @.ops ELSE ops]]
  /\ sv_count' = sv_count + 1
  /\ UNCHANGED <<sv_fds, sv_fdcount, sv_next, sv_open, sv_gap, sv_fat>>

\* vfs_close: a file system with a close is called, also with handle -1.
Handles(F) == {<<sv_mounts[sv_fds[f].mount].ops, sv_fds[f].handle>> : f \in F}
CloseAll(F) ==
  /\ sv_fds' = [f \in DOMAIN sv_fds |-> IF f \in F THEN [sv_fds[f] EXCEPT !.used = FALSE] ELSE sv_fds[f]]
  /\ sv_fdcount' = sv_fdcount - Cardinality(F)
  /\ sv_open' = sv_open \ Handles(F)
\* vfs_get_fd, {} when there is none.
vfs_get_fd(id) == LET S == {f \in DOMAIN sv_fds : sv_fds[f].used /\ sv_fds[f].id = id} IN IF S = {} THEN {} ELSE {LeastOf(S)}
vfs_close(id) == vfs_get_fd(id) # {} /\ CloseAll(vfs_get_fd(id)) /\ UNCHANGED <<sv_mounts, sv_count, sv_next, sv_gap, sv_fat>>

\* vfs_umount: its descriptors are closed; one less is counted, although the
\* mounts behind it stay where they are.
vfs_umount(path) ==
  \E i \in 1 .. sv_count :
    /\ sv_mounts[i].active /\ sv_mounts[i].path = path
    /\ CloseAll({f \in DOMAIN sv_fds : sv_fds[f].used /\ sv_fds[f].mount = i})
    /\ sv_mounts' = [sv_mounts EXCEPT ![i].active = FALSE]
    /\ sv_count' = sv_count - 1 /\ sv_gap' = (sv_gap \/ i < sv_count)
    /\ UNCHANGED <<sv_next, sv_fat>>

\* What a file system answers: a handle that is not in use, or -1.
Answers(ops) == IF ops = 0 THEN {-1} ELSE {-1, LeastOf({h \in 0 .. Cardinality(sv_open) : <<ops, h>> \notin sv_open})}
NewFd(h, m, r, w) == [used |-> TRUE, id |-> sv_next, read |-> r, write |-> w, pos |-> 0, mount |-> m, handle |-> h]
FreeFds == {f \in DOMAIN sv_fds : ~sv_fds[f].used}

\* vfs_open: a file that is not there is opened all the same if it is to be written.
vfs_open(path, r, w) ==
  LET m == vfs_get_mount(path) IN
  /\ m # 0 /\ FreeFds # {}
  /\ \E h \in Answers(sv_mounts[m].ops) :
       /\ h >= 0 \/ w
       /\ sv_open' = sv_open \cup (IF h < 0 THEN {} ELSE {<<sv_mounts[m].ops, h>>})
       /\ sv_fds' = [sv_fds EXCEPT ![LeastOf(FreeFds)] = NewFd(h, m, r, w)]
  /\ sv_next' = sv_next + 1 /\ sv_fdcount' = sv_fdcount + 1
  /\ UNCHANGED <<sv_mounts, sv_count, sv_gap, sv_fat>>

\* vfs_read, vfs_write: the position moves by what the file system says was read,
\* and by all that was to be written; without a file system nothing moves.
vfs_transfer(id, dir) ==
  \E f \in vfs_get_fd(id) :
    /\ sv_fds[f][dir] /\ sv_mounts[sv_fds[f].mount].ops # 0
    /\ \E n \in 0 .. 1 : sv_fds' = [sv_fds EXCEPT ![f].pos = @ + n]
    /\ UNCHANGED <<sv_mounts, sv_count, sv_fdcount, sv_next, sv_open, sv_gap, sv_fat>>
\* vfs_seek: from the start, the position, or the end, which is where a new file ends.
vfs_seek(id) ==
  \E f \in vfs_get_fd(id), o \in SV_OFFSETS :
    /\ sv_fds' \in {[sv_fds EXCEPT ![f].pos = o], [sv_fds EXCEPT ![f].pos = @ + o]}
    /\ UNCHANGED <<sv_mounts, sv_count, sv_fdcount, sv_next, sv_open, sv_gap, sv_fat>>
\* vfs_rename: within one mount that can rename.
vfs_rename(old, new) ==
  IF vfs_get_mount(old) = 0 \/ vfs_get_mount(old) # vfs_get_mount(new) \/ sv_mounts[vfs_get_mount(old)].ops = 0 THEN <<>>
  ELSE <<vfs_get_mount(old), vfs_resolve_path(old), vfs_resolve_path(new)>>

vfs_call ==
  \/ \E p \in SV_MOUNT_PATHS, o \in SV_BACKENDS \cup {0} : vfs_mount(p, o)
  \/ \E p \in SV_MOUNT_PATHS : vfs_umount(p)
  \/ \E p \in SV_PATHS, r, w \in BOOLEAN : (r \/ w) /\ vfs_open(p, r, w)
  \/ \E id \in 3 .. sv_next - 1 : vfs_close(id) \/ vfs_transfer(id, "read") \/ vfs_transfer(id, "write") \/ vfs_seek(id)

----------------------------------------------------------------------------
(* Allocation tables *)

SvWidths == {1, 2, 4, 8, 12, 16, 32, 64, 128}
\* fat1, fat2, fat4, fat8: as many entries in a byte as fit.
PackedAt(w, c) == LET per == 8 \div w IN 8 * (c \div per) + (c % per) * w
\* Mutant: an odd entry is not shifted by half a byte.
Fat12At_even(c) == 8 * (c + (c \div 2))
\* fat12: an entry begins or ends in the middle of a byte.
Fat12At(c) == LET byte == c + (c \div 2) IN IF c % 2 = 1 THEN 8 * byte + 4 ELSE 8 * byte
\* fat16, fat32, fat64, fat128
FatAt(w, c) == IF w < 12 THEN PackedAt(w, c) ELSE IF w = 12 THEN Fat12At(c) ELSE 8 * (c * (w \div 8))
\* Bits of a value that are kept: 28 of fat32, 64 of fat128; the rest becomes 0.
FatKept(w) == IF w = 32 THEN 28 ELSE IF w = 128 THEN 64 ELSE w
brainfs_fat_get_entry(w, sector, c) == {k \in 0 .. FatKept(w) - 1 : FatAt(w, c) + k \in sector}
brainfs_fat_set_entry(w, sector, c, v) ==
  (sector \ {FatAt(w, c) + k : k \in 0 .. w - 1}) \cup {FatAt(w, c) + k : k \in {b \in v : b < FatKept(w)}}
\* brainfs_fat_entries_per_sector
brainfs_fat_entries_per_sector(w) == IF w = 12 THEN (SV_SECTOR * 2) \div 3 ELSE (SV_SECTOR * 8) \div w

\* The mark alloc_cluster writes at the end of a chain, and how it is recognised.
EndMark(w) == CASE w \in {1, 128} -> {0} [] w \in {2, 4, 8} -> 0 .. w - 1 [] OTHER -> 3 .. FatKept(w) - 1
brainfs_fat_is_eoc_value(w, v) == IF w \in {1, 2, 4, 8, 128} THEN v = EndMark(w) ELSE EndMark(w) \subseteq v
brainfs_fat_is_bad_value(w, v) ==
  CASE w = 1 -> FALSE [] w \in {2, 128} -> v = {1} [] w = 4 -> v = {1, 2, 3} [] w = 8 -> v = 0 .. 7
    [] w = 64 -> v = 4 .. 63 [] OTHER -> v = {0, 1, 2} \cup 4 .. FatKept(w) - 1

\* Values put in a table: free, every other bit, all bits, the end mark.
SvValues(w) == {{}, {k \in 0 .. FatKept(w) - 1 : k % 2 = 0}, 0 .. FatKept(w) - 1, EndMark(w)}
SvEntries(w) == SV_CLUSTERS \cap (0 .. brainfs_fat_entries_per_sector(w) - 1)
fat_call ==
  /\ \E c \in SvEntries(sv_fat.width), v \in SvValues(sv_fat.width) :
       sv_fat' = [sv_fat EXCEPT !.sector = brainfs_fat_set_entry(sv_fat.width, @, c, v), !.put[c] = v]
  /\ UNCHANGED <<sv_mounts, sv_count, sv_fds, sv_fdcount, sv_next, sv_open, sv_gap>>

----------------------------------------------------------------------------
\* vfs_init, vfs_init's mounts and descriptors unused; a table of some width.
SVInit ==
  /\ sv_mounts = [i \in 1 .. SV_MOUNTS |-> [active |-> FALSE, path |-> <<>>, ops |-> 0]]
  /\ sv_fds = [f \in 1 .. SV_FDS |-> [used |-> FALSE, id |-> 0, read |-> FALSE, write |-> FALSE, pos |-> 0, mount |-> 1, handle |-> -1]]
  /\ sv_count = 0 /\ sv_fdcount = 0 /\ sv_next = 3 /\ sv_open = {} /\ sv_gap = FALSE /\ sv_calls = 0
  /\ sv_fat = [width |-> 0, sector |-> {}, put |-> <<>>]

\* The table is one of the first calls or it is not there.
fat_new ==
  /\ \E w \in SvWidths : sv_fat' = [width |-> w, sector |-> {}, put |-> [c \in SvEntries(w) |-> {}]]
  /\ UNCHANGED <<sv_mounts, sv_count, sv_fds, sv_fdcount, sv_next, sv_open, sv_gap>>
SVNext ==
  /\ sv_calls < SV_CALLS /\ sv_calls' = sv_calls + 1
  /\ \/ sv_fat.width = 0 /\ vfs_call
     \/ sv_calls = 0 /\ fat_new
     \/ sv_fat.width # 0 /\ fat_call
SVSpec == SVInit /\ [][SVNext]_svVars

----------------------------------------------------------------------------
\* A handle of a file system is kept by one open descriptor, through full tables,
\* files that are not there and mounts that go, as long as mounts are removed from
\* the last; a descriptor is on a mount that is there.
HandlesOwned ==
  LET Used == {f \in DOMAIN sv_fds : sv_fds[f].used} IN
  /\ sv_fdcount = Cardinality(Used)
  /\ \A f, g \in Used : sv_fds[f].id = sv_fds[g].id => f = g
  /\ \A f \in Used : sv_mounts[sv_fds[f].mount].active
  /\ ~sv_gap =>
       /\ sv_open = Handles({f \in Used : sv_fds[f].handle >= 0})
       /\ \A f, g \in Used : f # g /\ sv_fds[f].handle >= 0 => Handles({f}) # Handles({g})

\* A path leads to a mount that is there and is counted; what the file system is
\* given is the rest of the path, if the mount ends where a component does; and a
\* rename stays within a mount.
PathsResolve ==
  \A p \in SV_PATHS : LET m == vfs_get_mount(p) IN m # 0 =>
    /\ sv_mounts[m].active
    /\ LET path == sv_mounts[m].path IN
         Len(p) < SV_PATH_MAX /\ Len(path) > 1 /\ Len(p) > Len(path) /\ p[Len(path) + 1] = "/" => path \o <<"/">> \o vfs_resolve_path(p) = p
    /\ \A q \in SV_PATHS : vfs_rename(p, q) # <<>> => vfs_get_mount(q) = m

\* What is put in an entry of a table is what is read there, at every width,
\* whatever is put in the entries beside it; the end mark is recognised, is not free
\* and not bad, but for a table of bytes; no entry leaves the sector.
TablePacked ==
  sv_fat.width # 0 =>
    LET w == sv_fat.width IN
    /\ \A c \in DOMAIN sv_fat.put :
         LET v == brainfs_fat_get_entry(w, sv_fat.sector, c) IN
         /\ v = sv_fat.put[c]
         /\ v = EndMark(w) => brainfs_fat_is_eoc_value(w, v) /\ v # {} /\ (w # 8 => ~brainfs_fat_is_bad_value(w, v))
    /\ \A k \in sv_fat.sector : k < 8 * SV_SECTOR

FilesKept == HandlesOwned /\ PathsResolve /\ TablePacked
=============================================================================
